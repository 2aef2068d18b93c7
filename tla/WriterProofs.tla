---------------------------- MODULE WriterProofs ----------------------------
(***************************************************************************)
(* Theorems about ReflWriter: the binary file can be read back, whatever   *)
(* the shader, as long as the counts it starts its tables with fit.        *)
(* Checked by TLAPS.                                                       *)
(***************************************************************************)
EXTENDS ReflWriter, EmissionProofs

-----------------------------------------------------------------------------
(* Rows one after the other: where each one ends up.                       *)

IsRows(rows) == IsASequence(rows) /\ \A k \in 1 .. Len(rows) : IsASequence(rows[k])

\* ends[k] is the number of bytes in the first k rows.
Ends(ends, rows) ==
  /\ ends[0] = 0
  /\ \A k \in 1 .. Len(rows) :
       /\ ends[k - 1] \in Nat /\ ends[k] \in Nat
       /\ ends[k] = ends[k - 1] + Len(rows[k])

\* flat holds the first n rows, one after the other.
Flat(flat, rows, ends, n) ==
  /\ IsASequence(flat) /\ Len(flat) = ends[n]
  /\ \A k \in 0 .. n : ends[k] <= ends[n]
  /\ \A k \in 1 .. n : \A j \in 1 .. Len(rows[k]) : flat[ends[k - 1] + j] = rows[k][j]

LEMMA SequenceFacts ==
  ASSUME NEW s, IsASequence(s)
  PROVE  Len(s) \in Nat /\ DOMAIN s = 1 .. Len(s) /\ s = [i \in 1 .. Len(s) |-> s[i]]
<1>1. PICK S : s \in Seq(S)
  BY DEF IsASequence
<1> QED
  BY <1>1, LenProperties

LEMMA EndsExist ==
  ASSUME NEW rows, IsRows(rows) PROVE \E ends : Ends(ends, rows)
<1> DEFINE n == Len(rows)
           step == [i \in 1 .. n |-> [e \in Nat |-> e + Len(rows[i])]]
<1>1. n \in Nat /\ \A k \in 1 .. n : Len(rows[k]) \in Nat
  BY SequenceFacts DEF IsRows
<1> HIDE DEF n
<1>2. PICK f : Steps(f, n, 0, step)
  <2> HIDE DEF step
  <2> QED
    BY <1>1, StepsExist
<1> DEFINE bad == {k \in 0 .. n : f[k] \notin Nat}
<1>3. bad = {}
  <2> SUFFICES ASSUME bad # {} PROVE FALSE
    OBVIOUS
  <2>1. PICK m \in bad : \A y \in bad : m <= y
    <3>1. bad \subseteq Nat
      OBVIOUS
    <3> QED
      BY <3>1, LeastElement
  <2>2. m \in 0 .. n /\ f[m] \notin Nat
    OBVIOUS
  <2>3. m # 0
    BY <1>2, <2>2 DEF Steps
  <2>4. m \in 1 .. n /\ m - 1 \in 0 .. n /\ ~ m <= m - 1
    BY <1>1, <2>2, <2>3
  <2>5. f[m - 1] \in Nat
    BY <2>1, <2>4
  <2>6. f[m] = step[m][f[m - 1]]
    BY <1>2, <2>4 DEF Steps
  <2>7. f[m] = f[m - 1] + Len(rows[m])
    BY <2>4, <2>5, <2>6
  <2> QED
    BY <1>1, <2>2, <2>4, <2>5, <2>7
<1>4. \A k \in 0 .. n : f[k] \in Nat
  BY <1>3
<1>5. ASSUME NEW k \in 1 .. n
      PROVE  f[k - 1] \in Nat /\ f[k] \in Nat /\ f[k] = f[k - 1] + Len(rows[k])
  <2>1. k \in 0 .. n /\ k - 1 \in 0 .. n
    BY <1>1
  <2>2. f[k] = step[k][f[k - 1]]
    BY <1>2 DEF Steps
  <2>3. step[k][f[k - 1]] = f[k - 1] + Len(rows[k])
    BY <1>4, <2>1
  <2> QED
    BY <1>4, <2>1, <2>2, <2>3
<1>6. f[0] = 0
  BY <1>2 DEF Steps
<1> QED
  BY <1>5, <1>6 DEF Ends, n

LEMMA FirstRowFlat ==
  ASSUME NEW rows, IsRows(rows), NEW ends, Ends(ends, rows), 1 <= Len(rows)
  PROVE  Flat(rows[1], rows, ends, 1)
<1>1. 1 \in 1 .. Len(rows) /\ 1 - 1 = 0
  BY SequenceFacts DEF IsRows
<1>2. IsASequence(rows[1])
  BY <1>1 DEF IsRows
<1>3. ends[0] = 0 /\ ends[1] = ends[0] + Len(rows[1])
  BY <1>1 DEF Ends
<1>4. Len(rows[1]) \in Nat
  BY <1>2, SequenceFacts
<1>5. ends[1] = Len(rows[1]) /\ \A k \in 0 .. 1 : ends[k] <= ends[1]
  BY <1>3, <1>4
<1>6. ASSUME NEW k \in 1 .. 1, NEW j \in 1 .. Len(rows[k])
      PROVE  rows[1][ends[k - 1] + j] = rows[k][j]
  <2>1. k = 1 /\ ends[k - 1] + j = j
    BY <1>3, <1>4
  <2> QED
    BY <2>1
<1> QED
  BY <1>2, <1>5, <1>6 DEF Flat

\* The function FlattenSeq is defined by.
IsFlattening(f, rows, n) ==
  /\ f = [i \in 1 .. n |-> f[i]]
  /\ \A i \in 1 .. n : f[i] = IF i = 1 THEN rows[i] ELSE f[i - 1] \o rows[i]

LEMMA FlatteningsExist == ASSUME NEW rows, NEW N \in Nat PROVE \E f : IsFlattening(f, rows, N)
<1> DEFINE bad == {n \in 0 .. N : ~ \E f : IsFlattening(f, rows, n)}
<1> SUFFICES ASSUME bad # {} PROVE FALSE
  <2>1. N \in 0 .. N
    OBVIOUS
  <2> QED
    BY <2>1
<1>1. PICK m \in bad : \A y \in bad : m <= y
  <2>1. bad \subseteq Nat
    OBVIOUS
  <2> QED
    BY <2>1, LeastElement
<1>2. m \in 0 .. N /\ ~ \E f : IsFlattening(f, rows, m)
  OBVIOUS
<1>3. m # 0
  <2>1. IsFlattening([i \in 1 .. 0 |-> 0], rows, 0)
    BY DEF IsFlattening
  <2> QED
    BY <1>2, <2>1
<1>4. m - 1 \in 0 .. N /\ ~ m <= m - 1
  BY <1>2, <1>3
<1>5. PICK f : IsFlattening(f, rows, m - 1)
  BY <1>1, <1>4
<1> HIDE DEF bad
<1> DEFINE last == IF m = 1 THEN rows[m] ELSE f[m - 1] \o rows[m]
           g == [k \in 1 .. m |-> IF k = m THEN last ELSE f[k]]
<1>6. IsFlattening(g, rows, m)
  <2>1. g[m] = last
    BY <1>2, <1>3
  <2>2. ASSUME NEW i \in 1 .. m - 1
        PROVE  g[i] = IF i = 1 THEN rows[i] ELSE g[i - 1] \o rows[i]
    <3>1. i \in 1 .. m /\ i # m /\ (i # 1 => i - 1 \in 1 .. m /\ i - 1 # m)
      BY <1>2
    <3>2. f[i] = IF i = 1 THEN rows[i] ELSE f[i - 1] \o rows[i]
      BY <1>5 DEF IsFlattening
    <3>3. g[i] = f[i] /\ (i # 1 => g[i - 1] = f[i - 1])
      BY <3>1
    <3> QED
      BY <3>2, <3>3
  <2>3. last = IF m = 1 THEN rows[m] ELSE g[m - 1] \o rows[m]
    <3>1. m # 1 => m - 1 \in 1 .. m /\ m - 1 # m
      BY <1>2, <1>3
    <3>2. m # 1 => g[m - 1] = f[m - 1]
      BY <3>1
    <3> QED
      BY <3>2
  <2>4. \A i \in 1 .. m : i = m \/ i \in 1 .. m - 1
    BY <1>2
  <2>5. g = [k \in 1 .. m |-> g[k]]
    OBVIOUS
  <2> HIDE DEF g, last
  <2> QED
    BY <2>1, <2>2, <2>3, <2>4, <2>5 DEF IsFlattening
<1> QED
  BY <1>2, <1>6

\* One more row.
LEMMA FlatOneMore ==
  ASSUME NEW rows, IsRows(rows), NEW ends, Ends(ends, rows),
         NEW m \in 1 .. Len(rows), NEW flat, Flat(flat, rows, ends, m - 1)
  PROVE  Flat(flat \o rows[m], rows, ends, m)
<1> DEFINE row == rows[m]
           more == flat \o row
<1>1. IsASequence(flat) /\ IsASequence(row)
  BY DEF IsRows, Flat
<1>2. ends[m - 1] \in Nat /\ ends[m] = ends[m - 1] + Len(row) /\ Len(flat) = ends[m - 1]
  BY DEF Ends, Flat
<1> HIDE DEF row
<1>3. /\ IsASequence(more) /\ Len(more) = Len(flat) + Len(row) /\ Len(row) \in Nat
      /\ \A i \in 1 .. Len(flat) : more[i] = flat[i]
      /\ \A i \in 1 .. Len(row) : more[Len(flat) + i] = row[i]
  BY <1>1, ConcatSequences
<1> HIDE DEF more
<1>4. Len(rows) \in Nat
  BY SequenceFacts DEF IsRows
<1>7. \A k \in 0 .. m : ends[k] <= ends[m]
  <2>1. \A k \in 0 .. m - 1 : ends[k] <= ends[m - 1]
    BY DEF Flat
  <2>2. \A k \in 0 .. m - 1 : ends[k] \in Nat
    <3> TAKE k \in 0 .. m - 1
    <3>1. k + 1 \in 1 .. Len(rows) /\ (k + 1) - 1 = k
      BY <1>4
    <3> QED
      BY <3>1 DEF Ends
  <2>3. \A k \in 0 .. m : k = m \/ k \in 0 .. m - 1
    BY <1>4
  <2>4. ends[m] \in Nat /\ ends[m - 1] <= ends[m]
    BY <1>2, <1>3
  <2> QED
    BY <1>2, <2>1, <2>2, <2>3, <2>4
<1>5. ASSUME NEW k \in 1 .. m, NEW j \in 1 .. Len(rows[k])
      PROVE  more[ends[k - 1] + j] = rows[k][j]
  <2>1. CASE k = m
    BY <1>2, <1>3, <2>1 DEF row
  <2>2. CASE k # m
    <3>1. k \in 1 .. m - 1 /\ k \in 1 .. Len(rows)
      BY <1>4, <2>2
    <3>2. flat[ends[k - 1] + j] = rows[k][j]
      BY <3>1 DEF Flat
    <3>3. ends[k - 1] + j \in 1 .. Len(flat)
      <4>1. /\ ends[k - 1] \in Nat /\ ends[k] = ends[k - 1] + Len(rows[k]) /\ ends[k] \in Nat
            /\ IsASequence(rows[k])
        BY <3>1 DEF Ends, IsRows
      <4>2. ends[k] <= ends[m - 1]
        BY <3>1 DEF Flat
      <4>3. Len(rows[k]) \in Nat
        BY <4>1, SequenceFacts
      <4> DEFINE e == ends[k - 1]
                 f == ends[k]
                 l == ends[m - 1]
                 r == Len(rows[k])
      <4>4. /\ e \in Nat /\ f = e + r /\ r \in Nat /\ f <= l /\ j \in 1 .. r
            /\ l \in Nat /\ Len(flat) = l
        BY <1>2, <3>1, <4>1, <4>2, <4>3
      <4> HIDE DEF e, f, l, r
      <4>5. e + j \in 1 .. Len(flat)
        BY <4>4
      <4> QED
        BY <4>5 DEF e
    <3> QED
      BY <1>3, <3>2, <3>3
  <2> QED
    BY <2>1, <2>2
<1>6. \A k \in 1 .. m : \A j \in 1 .. Len(rows[k]) : more[ends[k - 1] + j] = rows[k][j]
  BY <1>5
<1>8. Flat(more, rows, ends, m)
  BY <1>2, <1>3, <1>6, <1>7 DEF Flat
<1> QED
  BY <1>8 DEF more, row

\* All the rows.
LEMMA FlattenIsFlat ==
  ASSUME NEW rows, IsRows(rows), NEW ends, Ends(ends, rows)
  PROVE  Flat(FlattenSeq(rows), rows, ends, Len(rows))
<1> DEFINE n == Len(rows)
           Recursive(f) == f = [i \in 1 .. n |-> IF i = 1 THEN rows[i] ELSE f[i - 1] \o rows[i]]
           flatten == CHOOSE f : Recursive(f)
<1>0. n \in Nat /\ ends[0] = 0
  BY SequenceFacts DEF IsRows, Ends
<1>1. CASE n = 0
  <2>1. FlattenSeq(rows) = rows
    BY <1>1 DEF FlattenSeq
  <2>2. IsASequence(rows)
    BY DEF IsRows
  <2> QED
    BY <1>0, <1>1, <2>1, <2>2 DEF Flat
<1>2. CASE n # 0
  <2>1. FlattenSeq(rows) = flatten[n]
    BY <1>2 DEF FlattenSeq
  <2>2. \E f : Recursive(f)
    <3>1. PICK f : IsFlattening(f, rows, n)
      BY <1>0, FlatteningsExist
    <3>2. Recursive(f)
      BY <3>1 DEF IsFlattening
    <3> QED
      BY <3>2
  <2>3. Recursive(flatten)
    BY <2>2
  <2> HIDE DEF flatten
  <2>4. IsFlattening(flatten, rows, n)
    BY <2>3 DEF IsFlattening
  <2> DEFINE bad == {k \in 1 .. n : ~ Flat(flatten[k], rows, ends, k)}
  <2>5. bad = {}
    <3> SUFFICES ASSUME bad # {} PROVE FALSE
      OBVIOUS
    <3>1. PICK m \in bad : \A y \in bad : m <= y
      <4>1. bad \subseteq Nat
        OBVIOUS
      <4> QED
        BY <4>1, LeastElement
    <3>2. m \in 1 .. n /\ ~ Flat(flatten[m], rows, ends, m)
      OBVIOUS
    <3>3. CASE m = 1
      <4>1. flatten[1] = rows[1]
        BY <2>4, <3>2, <3>3 DEF IsFlattening
      <4>2. Flat(rows[1], rows, ends, 1)
        BY <1>0, <1>2, FirstRowFlat
      <4> QED
        BY <3>2, <3>3, <4>1, <4>2
    <3>4. CASE m # 1
      <4>1. m - 1 \in 1 .. n /\ ~ m <= m - 1
        BY <1>0, <3>2, <3>4
      <4>2. Flat(flatten[m - 1], rows, ends, m - 1)
        BY <3>1, <4>1
      <4>3. flatten[m] = flatten[m - 1] \o rows[m]
        BY <2>4, <3>2, <3>4 DEF IsFlattening
      <4> QED
        BY <3>2, <4>2, <4>3, FlatOneMore
    <3> QED
      BY <3>3, <3>4
  <2>6. n \in 1 .. n
    BY <1>0, <1>2
  <2>7. Flat(flatten[n], rows, ends, n)
    BY <2>5, <2>6
  <2> QED
    BY <2>1, <2>7
<1> QED
  BY <1>1, <1>2

-----------------------------------------------------------------------------
(* Tables in a file: bytes holds t from position p on.                     *)

Holds(bytes, p, t) ==
  /\ p \in Nat /\ p >= 1 /\ p + Len(t) <= Len(bytes) + 1
  /\ \A j \in 1 .. Len(t) : bytes[p + j - 1] = t[j]

LEMMA HoldsAppended ==
  ASSUME NEW s, IsASequence(s), NEW t, IsASequence(t)
  PROVE  Holds(s \o t, Len(s) + 1, t)
<1> DEFINE both == s \o t
<1>1. /\ Len(both) = Len(s) + Len(t) /\ Len(s) \in Nat /\ Len(t) \in Nat
      /\ \A i \in 1 .. Len(t) : both[Len(s) + i] = t[i]
  BY ConcatSequences
<1> HIDE DEF both
<1>2. ASSUME NEW j \in 1 .. Len(t) PROVE both[(Len(s) + 1) + j - 1] = t[j]
  <2>1. (Len(s) + 1) + j - 1 = Len(s) + j
    BY <1>1
  <2> QED
    BY <1>1, <2>1
<1>3. Holds(both, Len(s) + 1, t)
  BY <1>1, <1>2 DEF Holds
<1> QED
  BY <1>3 DEF both

LEMMA HoldsKept ==
  ASSUME NEW s, IsASequence(s), NEW t, IsASequence(t), NEW x, IsASequence(x), NEW p, Holds(s, p, x)
  PROVE  Holds(s \o t, p, x)
<1> DEFINE both == s \o t
<1>1. /\ Len(both) = Len(s) + Len(t) /\ Len(s) \in Nat /\ Len(t) \in Nat
      /\ \A i \in 1 .. Len(s) : both[i] = s[i]
  BY ConcatSequences
<1>2. Len(x) \in Nat
  BY SequenceFacts
<1> HIDE DEF both
<1>3. ASSUME NEW j \in 1 .. Len(x) PROVE both[p + j - 1] = x[j]
  <2>1. p + j - 1 \in 1 .. Len(s)
    BY <1>1, <1>2 DEF Holds
  <2>2. s[p + j - 1] = x[j]
    BY DEF Holds
  <2> QED
    BY <1>1, <2>1, <2>2
<1>4. p \in Nat /\ p >= 1 /\ p + Len(x) <= Len(both) + 1
  BY <1>1, <1>2 DEF Holds
<1>5. Holds(both, p, x)
  BY <1>3, <1>4 DEF Holds
<1> QED
  BY <1>5 DEF both

\* One more table at the end of a file.
LEMMA OneMoreTable ==
  ASSUME NEW s, IsASequence(s), Len(s) >= 2, NEW t, IsASequence(t)
  PROVE  /\ IsASequence(s \o t) /\ Len(s \o t) = Len(s) + Len(t) /\ Len(s \o t) >= 2
         /\ (s \o t)[2] = s[2]
         /\ Holds(s \o t, Len(s) + 1, t)
         /\ \A x, p : IsASequence(x) /\ Holds(s, p, x) => Holds(s \o t, p, x)
<1> DEFINE both == s \o t
<1>1. /\ IsASequence(both) /\ Len(both) = Len(s) + Len(t) /\ Len(s) \in Nat /\ Len(t) \in Nat
      /\ \A i \in 1 .. Len(s) : both[i] = s[i]
  BY ConcatSequences
<1>2. Holds(both, Len(s) + 1, t)
  BY HoldsAppended
<1>3. ASSUME NEW x, NEW p, IsASequence(x), Holds(s, p, x) PROVE Holds(both, p, x)
  BY <1>3, HoldsKept
<1> HIDE DEF both
<1>4. Len(both) >= 2 /\ both[2] = s[2]
  BY <1>1
<1>5. \A x, p : IsASequence(x) /\ Holds(s, p, x) => Holds(both, p, x)
  BY <1>3
<1>6. /\ IsASequence(both) /\ Len(both) = Len(s) + Len(t) /\ Len(both) >= 2 /\ both[2] = s[2]
      /\ Holds(both, Len(s) + 1, t)
  BY <1>1, <1>2, <1>4
<1> QED
  BY <1>5, <1>6 DEF both

\* Six tables after a head of two bytes.
LEMMA SixTables ==
  ASSUME NEW b, NEW t1, NEW t2, NEW t3, NEW t4, NEW t5, NEW t6,
         IsASequence(t1), IsASequence(t2), IsASequence(t3), IsASequence(t4),
         IsASequence(t5), IsASequence(t6)
  PROVE  LET bytes == <<0, b>> \o t1 \o t2 \o t3 \o t4 \o t5 \o t6
             p2 == 3 + Len(t1)
             p3 == p2 + Len(t2)
             p4 == p3 + Len(t3)
             p5 == p4 + Len(t4)
             p6 == p5 + Len(t5)
         IN  /\ bytes[2] = b
             /\ Holds(bytes, 3, t1) /\ Holds(bytes, p2, t2) /\ Holds(bytes, p3, t3)
             /\ Holds(bytes, p4, t4) /\ Holds(bytes, p5, t5) /\ Holds(bytes, p6, t6)
<1> DEFINE s0 == <<0, b>>
           s1 == s0 \o t1
           s2 == s1 \o t2
           s3 == s2 \o t3
           s4 == s3 \o t4
           s5 == s4 \o t5
           s6 == s5 \o t6
<1>1. s6 = <<0, b>> \o t1 \o t2 \o t3 \o t4 \o t5 \o t6
  OBVIOUS
<1>2. IsASequence(s0) /\ Len(s0) = 2 /\ Len(s0) >= 2 /\ s0[2] = b
  <2>1. s0 \in Seq({0, b}) /\ Len(s0) = 2 /\ s0[2] = b
    OBVIOUS
  <2>2. IsASequence(s0)
    BY <2>1 DEF IsASequence
  <2> HIDE DEF s0
  <2> QED
    BY <2>1, <2>2
<1> HIDE DEF s0
<1>3. /\ IsASequence(s1) /\ Len(s1) = Len(s0) + Len(t1) /\ Len(s1) >= 2
      /\ s1[2] = s0[2]
      /\ Holds(s1, Len(s0) + 1, t1)
      /\ \A x, p : IsASequence(x) /\ Holds(s0, p, x) => Holds(s1, p, x)
  BY <1>2, OneMoreTable
<1> HIDE DEF s1
<1>4. /\ IsASequence(s2) /\ Len(s2) = Len(s1) + Len(t2) /\ Len(s2) >= 2
      /\ s2[2] = s1[2]
      /\ Holds(s2, Len(s1) + 1, t2)
      /\ \A x, p : IsASequence(x) /\ Holds(s1, p, x) => Holds(s2, p, x)
  BY <1>3, OneMoreTable
<1> HIDE DEF s2
<1>5. /\ IsASequence(s3) /\ Len(s3) = Len(s2) + Len(t3) /\ Len(s3) >= 2
      /\ s3[2] = s2[2]
      /\ Holds(s3, Len(s2) + 1, t3)
      /\ \A x, p : IsASequence(x) /\ Holds(s2, p, x) => Holds(s3, p, x)
  BY <1>4, OneMoreTable
<1> HIDE DEF s3
<1>6. /\ IsASequence(s4) /\ Len(s4) = Len(s3) + Len(t4) /\ Len(s4) >= 2
      /\ s4[2] = s3[2]
      /\ Holds(s4, Len(s3) + 1, t4)
      /\ \A x, p : IsASequence(x) /\ Holds(s3, p, x) => Holds(s4, p, x)
  BY <1>5, OneMoreTable
<1> HIDE DEF s4
<1>7. /\ IsASequence(s5) /\ Len(s5) = Len(s4) + Len(t5) /\ Len(s5) >= 2
      /\ s5[2] = s4[2]
      /\ Holds(s5, Len(s4) + 1, t5)
      /\ \A x, p : IsASequence(x) /\ Holds(s4, p, x) => Holds(s5, p, x)
  BY <1>6, OneMoreTable
<1> HIDE DEF s5
<1>8. /\ IsASequence(s6) /\ Len(s6) = Len(s5) + Len(t6) /\ Len(s6) >= 2
      /\ s6[2] = s5[2]
      /\ Holds(s6, Len(s5) + 1, t6)
      /\ \A x, p : IsASequence(x) /\ Holds(s5, p, x) => Holds(s6, p, x)
  BY <1>7, OneMoreTable
<1> HIDE DEF s6
<1>9. s6[2] = b
  BY <1>2, <1>3, <1>4, <1>5, <1>6, <1>7, <1>8
<1>10. /\ Holds(s6, Len(s0) + 1, t1) /\ Holds(s6, Len(s1) + 1, t2) /\ Holds(s6, Len(s2) + 1, t3)
       /\ Holds(s6, Len(s3) + 1, t4) /\ Holds(s6, Len(s4) + 1, t5) /\ Holds(s6, Len(s5) + 1, t6)
  BY <1>3, <1>4, <1>5, <1>6, <1>7, <1>8
<1>11. /\ Len(t1) \in Nat /\ Len(t2) \in Nat /\ Len(t3) \in Nat /\ Len(t4) \in Nat
       /\ Len(t5) \in Nat
  BY SequenceFacts
<1>12. /\ Len(s0) + 1 = 3 /\ Len(s1) + 1 = 3 + Len(t1)
       /\ Len(s2) + 1 = 3 + Len(t1) + Len(t2)
       /\ Len(s3) + 1 = 3 + Len(t1) + Len(t2) + Len(t3)
       /\ Len(s4) + 1 = 3 + Len(t1) + Len(t2) + Len(t3) + Len(t4)
       /\ Len(s5) + 1 = 3 + Len(t1) + Len(t2) + Len(t3) + Len(t4) + Len(t5)
  BY <1>2, <1>3, <1>4, <1>5, <1>6, <1>7, <1>11
<1> QED
  BY <1>1, <1>9, <1>10, <1>12

LEMMA TableIs ==
  ASSUME NEW rows, IsRows(rows), NEW ends, Ends(ends, rows)
  PROVE  /\ IsASequence(Table(rows)) /\ Len(Table(rows)) = 1 + ends[Len(rows)]
         /\ Table(rows)[1] = Uint8(Len(rows))
         /\ \A k \in 1 .. Len(rows) : \A j \in 1 .. Len(rows[k]) :
              /\ ends[k - 1] + j \in 1 .. ends[Len(rows)]
              /\ Table(rows)[1 + (ends[k - 1] + j)] = rows[k][j]
<1> DEFINE flat == FlattenSeq(rows)
           head == <<Uint8(Len(rows))>>
           n == Len(rows)
<1>1. Flat(flat, rows, ends, n)
  BY FlattenIsFlat
<1>2. IsASequence(head) /\ Len(head) = 1 /\ head[1] = Uint8(n)
  <2>1. head \in Seq({Uint8(n)})
    OBVIOUS
  <2> QED
    BY <2>1 DEF IsASequence
<1>3. Table(rows) = head \o flat
  BY DEF Table
<1>4. n \in Nat /\ ends[0] = 0
  BY SequenceFacts DEF IsRows, Ends
<1> HIDE DEF flat, head, n
<1>5. /\ IsASequence(Table(rows)) /\ Len(Table(rows)) = 1 + Len(flat) /\ Len(flat) \in Nat
      /\ Table(rows)[1] = Uint8(n)
      /\ \A i \in 1 .. Len(flat) : Table(rows)[1 + i] = flat[i]
  <2> DEFINE both == head \o flat
  <2>1. IsASequence(flat) /\ 1 \in 1 .. Len(head)
    BY <1>1, <1>2 DEF Flat
  <2>2. /\ IsASequence(both) /\ Len(flat) \in Nat /\ Len(both) = Len(head) + Len(flat)
        /\ \A i \in 1 .. Len(head) : both[i] = head[i]
        /\ \A i \in 1 .. Len(flat) : both[Len(head) + i] = flat[i]
    <3>1. IsASequence(head) /\ IsASequence(flat)
      BY <1>2, <2>1
    <3> QED
      BY <3>1, ConcatSequences
  <2> HIDE DEF both
  <2>3. Table(rows) = both
    BY <1>3 DEF both
  <2> QED
    BY <1>2, <2>1, <2>2, <2>3
<1>6. Len(flat) = ends[n]
  BY <1>1 DEF Flat
<1>7. ASSUME NEW k \in 1 .. n, NEW j \in 1 .. Len(rows[k])
      PROVE  /\ ends[k - 1] + j \in 1 .. Len(flat)
             /\ Table(rows)[1 + (ends[k - 1] + j)] = rows[k][j]
  <2>1. ends[k - 1] \in Nat /\ ends[k] \in Nat /\ ends[k] = ends[k - 1] + Len(rows[k])
    BY DEF Ends, n
  <2>2. Len(rows[k]) \in Nat
    BY SequenceFacts DEF IsRows, n
  <2>3. ends[k] <= ends[n]
    BY <1>1, <1>4 DEF Flat
  <2>6. ends[n] \in Nat
    BY <1>5, <1>6
  <2>4. ends[k - 1] + j \in 1 .. Len(flat)
    BY <1>6, <2>1, <2>2, <2>3, <2>6
  <2>5. flat[ends[k - 1] + j] = rows[k][j]
    BY <1>1 DEF Flat
  <2> QED
    BY <1>5, <2>4, <2>5
<1> QED
  BY <1>5, <1>6, <1>7 DEF n

\* What a table in a file says.
LEMMA TableHeld ==
  ASSUME NEW rows, IsRows(rows), NEW ends, Ends(ends, rows), Len(rows) <= 255,
         NEW bytes, NEW p, Holds(bytes, p, Table(rows))
  PROVE  /\ p \in Nat /\ Len(rows) \in Nat /\ bytes[p] = Len(rows)
         /\ \A k \in 1 .. Len(rows) : \A j \in 1 .. Len(rows[k]) :
              bytes[p + (ends[k - 1] + j)] = rows[k][j]
<1>1. Len(rows) \in Nat
  BY SequenceFacts DEF IsRows
<1>2. Uint8(Len(rows)) = Len(rows)
  BY <1>1 DEF Uint8
<1>3. p \in Nat /\ \A i \in 1 .. Len(Table(rows)) : bytes[p + i - 1] = Table(rows)[i]
  BY DEF Holds
<1>4. Len(Table(rows)) \in Nat /\ Len(Table(rows)) = 1 + ends[Len(rows)]
  BY TableIs, SequenceFacts
<1>5. bytes[p] = Len(rows)
  <2>1. Table(rows)[1] = Len(rows)
    BY <1>2, TableIs
  <2>2. ends[Len(rows)] \in Nat
    BY <1>1 DEF Ends
  <2>3. 1 \in 1 .. Len(Table(rows)) /\ p + 1 - 1 = p
    BY <1>3, <1>4, <2>2
  <2> QED
    BY <1>3, <2>1, <2>3
<1>6. ASSUME NEW k \in 1 .. Len(rows), NEW j \in 1 .. Len(rows[k])
      PROVE  bytes[p + (ends[k - 1] + j)] = rows[k][j]
  <2> DEFINE i == ends[k - 1] + j
  <2>1. i \in 1 .. ends[Len(rows)] /\ Table(rows)[1 + i] = rows[k][j]
    BY TableIs
  <2>2. ends[Len(rows)] \in Nat
    BY <1>1 DEF Ends
  <2> HIDE DEF i
  <2>3. 1 + i \in 1 .. Len(Table(rows)) /\ p + (1 + i) - 1 = p + i
    <3> DEFINE m == ends[Len(rows)]
    <3>1. m \in Nat /\ i \in 1 .. m /\ Len(Table(rows)) = 1 + m
      BY <1>3, <1>4, <2>1, <2>2
    <3>2. p \in Nat
      BY <1>3
    <3> HIDE DEF m
    <3> QED
      BY <3>1, <3>2
  <2>4. bytes[p + i] = rows[k][j]
    BY <1>3, <2>1, <2>3
  <2> QED
    BY <2>4 DEF i
<1> QED
  BY <1>1, <1>3, <1>5, <1>6

-----------------------------------------------------------------------------
(* Tables whose rows have one width.                                       *)

LEMMA OneMoreWidth == ASSUME NEW m \in Int, NEW w \in Int PROVE (m - 1) * w + w = m * w
  OBVIOUS

LEMMA FixedEnds ==
  ASSUME NEW rows, IsRows(rows), NEW ends, Ends(ends, rows),
         NEW w \in Nat, \A k \in 1 .. Len(rows) : Len(rows[k]) = w
  PROVE  \A k \in 0 .. Len(rows) : ends[k] = k * w
<1> DEFINE n == Len(rows)
           bad == {k \in 0 .. n : ends[k] # k * w}
<1> SUFFICES ASSUME bad # {} PROVE FALSE
  OBVIOUS
<1>1. n \in Nat
  BY SequenceFacts DEF IsRows
<1>2. PICK m \in bad : \A y \in bad : m <= y
  <2>1. bad \subseteq Nat
    OBVIOUS
  <2> HIDE DEF bad
  <2> QED
    BY <2>1, LeastElement
<1>3. m \in 0 .. n /\ ends[m] # m * w
  OBVIOUS
<1>4. m # 0
  BY <1>3 DEF Ends
<1>5. m \in 1 .. n /\ m - 1 \in 0 .. n /\ ~ m <= m - 1
  BY <1>1, <1>3, <1>4
<1>6. ends[m - 1] = (m - 1) * w
  BY <1>2, <1>5
<1>7. ends[m] = ends[m - 1] + w
  BY <1>5 DEF Ends
<1> HIDE DEF bad, n
<1> QED
  BY <1>3, <1>5, <1>6, <1>7, OneMoreWidth

OfWidth(rows, w) == \A k \in 1 .. Len(rows) : Len(rows[k]) = w

LEMMA RowsRead ==
  ASSUME NEW rows, IsRows(rows), Len(rows) <= 255, NEW w \in Nat, OfWidth(rows, w),
         NEW bytes, NEW p, Holds(bytes, p, Table(rows))
  PROVE  RowsAt(bytes, p, w) = rows /\ After(bytes, p, w) = p + Len(Table(rows))
<1> DEFINE n == Len(rows)
<1>1. PICK ends : Ends(ends, rows)
  BY EndsExist
<1>2. /\ p \in Nat /\ n \in Nat /\ bytes[p] = n
      /\ \A k \in 1 .. n : \A j \in 1 .. Len(rows[k]) : bytes[p + (ends[k - 1] + j)] = rows[k][j]
  BY <1>1, TableHeld
<1>3. \A k \in 0 .. n : ends[k] = k * w
  BY <1>1, FixedEnds DEF OfWidth
<1>4. Len(Table(rows)) = 1 + ends[n]
  BY <1>1, TableIs
<1>5. \A k \in 1 .. n : /\ Len(rows[k]) = w
                        /\ rows[k] = [j \in 1 .. w |-> rows[k][j]]
  BY SequenceFacts DEF IsRows, OfWidth
<1>6. rows = [k \in 1 .. n |-> rows[k]]
  BY SequenceFacts DEF IsRows
<1> HIDE DEF n
<1>7. After(bytes, p, w) = p + Len(Table(rows))
  <2>1. n \in 0 .. n
    BY <1>2
  <2>2. ends[n] = n * w
    BY <1>3, <2>1
  <2>3. n * w \in Nat
    BY <1>2
  <2>4. After(bytes, p, w) = p + 1 + n * w
    BY <1>2 DEF After
  <2> QED
    BY <1>2, <1>4, <2>2, <2>3, <2>4
<1>8. ASSUME NEW k \in 1 .. n, NEW j \in 1 .. w
      PROVE  bytes[p + (k - 1) * w + j] = rows[k][j]
  <2>1. k - 1 \in 0 .. n
    BY <1>2
  <2>2. ends[k - 1] = (k - 1) * w
    BY <1>3, <2>1
  <2>3. (k - 1) * w \in Int
    BY <2>1
  <2>4. p + (k - 1) * w + j = p + ((k - 1) * w + j)
    BY <1>2, <2>3
  <2>5. bytes[p + (ends[k - 1] + j)] = rows[k][j]
    BY <1>2, <1>5
  <2> QED
    BY <2>2, <2>4, <2>5
<1>9. RowsAt(bytes, p, w) = [k \in 1 .. n |-> [j \in 1 .. w |-> bytes[p + (k - 1) * w + j]]]
  BY <1>2 DEF RowsAt
<1>10. \A k \in 1 .. n : [j \in 1 .. w |-> bytes[p + (k - 1) * w + j]] = [j \in 1 .. w |-> rows[k][j]]
  BY <1>8
<1>11. \A k \in 1 .. n : [j \in 1 .. w |-> bytes[p + (k - 1) * w + j]] = rows[k]
  BY <1>5, <1>10
<1>12. [k \in 1 .. n |-> [j \in 1 .. w |-> bytes[p + (k - 1) * w + j]]] = [k \in 1 .. n |-> rows[k]]
  BY <1>11
<1>13. RowsAt(bytes, p, w) = rows
  BY <1>6, <1>9, <1>12
<1> QED
  BY <1>7, <1>13

-----------------------------------------------------------------------------
(* Numbers of two and of four bytes.                                       *)

LEMMA TwoBytes ==
  ASSUME NEW n \in uint16
  PROVE  LE16(n)[1] + 256 * LE16(n)[2] = n
<1> DEFINE q == n \div 256
           r == n % 256
<1>1. n \in Nat /\ n < 65536
  BY Below16
<1>2. q \in Nat /\ q < 256 /\ r \in Nat /\ r + 256 * q = n
  BY <1>1
<1>3. LE16(n)[1] = r /\ LE16(n)[2] = q % 256
  BY DEF LE16
<1> HIDE DEF q, r
<1>4. q % 256 = q
  BY <1>2
<1> QED
  BY <1>2, <1>3, <1>4

LEMMA WordHalves ==
  ASSUME NEW n \in Nat, n \div 65536 \in uint16
  PROVE  n % 65536 \in uint16 /\ (n % 65536) + 65536 * (n \div 65536) = n
<1>1. n % 65536 \in uint16
  BY Uint16Type DEF Uint16
<1>2. (n % 65536) + 65536 * (n \div 65536) = n
  OBVIOUS
<1> QED
  BY <1>1, <1>2

-----------------------------------------------------------------------------
(* Each row says what it was written from.  The count of a variable that   *)
(* is no array is 1, and nothing but a uniform has an extra.               *)

Counted(vt) == vt.count # 0 /\ (~ vt.is_array => vt.count = 1)

WrittenAttribute == {a \in Attribute : Counted(a.type) /\ a.type.extra = 0}
WrittenOutput    == {o \in Output : Counted(o.type) /\ o.type.extra = 0 /\ ~ o.type.is_array}
WrittenUniform   == {u \in Uniform : Counted(u.type)}
WrittenPush      == {p \in PushConst : Counted(p.type) /\ p.type.extra = 0}
WrittenSpec      == {s \in SpecConst : /\ Counted(s.type) /\ s.type.extra = 0
                                       /\ ~ s.type.is_array /\ s.size \in uint8}

LEMMA TypeRead ==
  ASSUME NEW vt \in HLSVType, Counted(vt)
  PROVE  /\ ReadType(vt.type, ArrayByte(vt), vt.extra) = vt
         /\ ~ vt.is_array => ReadType(vt.type, 0, vt.extra) = vt
<1>1. vt = [type |-> vt.type, is_array |-> vt.is_array, count |-> vt.count, extra |-> vt.extra]
  BY DEF HLSVType
<1>2. vt.is_array \in BOOLEAN /\ vt.count \in uint8
  BY DEF HLSVType
<1>3. CASE vt.is_array
  <2>1. ArrayByte(vt) = vt.count
    BY <1>2, <1>3, Uint8Small DEF ArrayByte
  <2>2. vt.count # 0 /\ (vt.count # 0) = vt.is_array
    BY <1>2, <1>3 DEF Counted
  <2> QED
    BY <1>1, <1>3, <2>1, <2>2 DEF ReadType
<1>4. CASE ~ vt.is_array
  <2>1. ArrayByte(vt) = 0 /\ vt.count = 1
    BY <1>4 DEF ArrayByte, Counted
  <2>2. (0 # 0) = vt.is_array
    BY <1>2, <1>4
  <2> QED
    BY <1>1, <2>1, <2>2 DEF ReadType
<1> QED
  BY <1>2, <1>3, <1>4

LEMMA AttributeRead ==
  ASSUME NEW a \in WrittenAttribute
  PROVE  /\ IsASequence(AttributeRow(a)) /\ Len(AttributeRow(a)) = 5
         /\ ReadAttribute(AttributeRow(a)) = a
<1> DEFINE b == ArrayByte(a.type)
<1>1. a \in Attribute /\ a.type \in HLSVType /\ Counted(a.type) /\ a.type.extra = 0
  BY DEF WrittenAttribute, Attribute
<1>2. ReadType(a.type.type, b, 0) = a.type
  BY <1>1, TypeRead
<1>3. a = [name |-> a.name, type |-> a.type, location |-> a.location, slot_count |-> a.slot_count]
  BY <1>1 DEF Attribute
<1>4. AttributeRow(a) = <<a.name, a.type.type, b, a.location, a.slot_count>>
  BY DEF AttributeRow
<1> HIDE DEF b
<1>5. ReadAttribute(AttributeRow(a)) = [name |-> a.name, type |-> ReadType(a.type.type, b, 0),
                                        location |-> a.location, slot_count |-> a.slot_count]
  BY <1>4 DEF ReadAttribute
<1>6. AttributeRow(a) \in Seq({a.name, a.type.type, b, a.location, a.slot_count})
  BY <1>4
<1>7. IsASequence(AttributeRow(a)) /\ Len(AttributeRow(a)) = 5
  BY <1>4, <1>6 DEF IsASequence
<1> QED
  BY <1>2, <1>3, <1>5, <1>7

LEMMA OutputRead ==
  ASSUME NEW o \in WrittenOutput
  PROVE  /\ IsASequence(OutputRow(o)) /\ Len(OutputRow(o)) = 3
         /\ ReadOutput(OutputRow(o)) = o
<1>1. /\ o \in Output /\ o.type \in HLSVType /\ Counted(o.type) /\ o.type.extra = 0
      /\ ~ o.type.is_array
  BY DEF WrittenOutput, Output
<1>2. ReadType(o.type.type, 0, 0) = o.type
  BY <1>1, TypeRead
<1>3. o = [name |-> o.name, type |-> o.type, location |-> o.location]
  BY <1>1 DEF Output
<1>4. OutputRow(o) = <<o.name, o.type.type, o.location>>
  BY DEF OutputRow
<1>5. ReadOutput(OutputRow(o)) = [name |-> o.name, type |-> ReadType(o.type.type, 0, 0),
                                  location |-> o.location]
  BY <1>4 DEF ReadOutput
<1>6. OutputRow(o) \in Seq({o.name, o.type.type, o.location})
  BY <1>4
<1>7. IsASequence(OutputRow(o)) /\ Len(OutputRow(o)) = 3
  BY <1>4, <1>6 DEF IsASequence
<1> QED
  BY <1>2, <1>3, <1>5, <1>7

\* Two numbers of two bytes after the other fields.
LEMMA TwoNumbers ==
  ASSUME NEW head, IsASequence(head), NEW m \in uint16, NEW n \in uint16
  PROVE  LET row == head \o LE16(m) \o LE16(n)
             h == Len(head)
         IN  /\ IsASequence(row) /\ Len(row) = h + 4
             /\ \A i \in 1 .. h : row[i] = head[i]
             /\ From16(row, h + 1) = m /\ From16(row, h + 3) = n
<1> DEFINE a == LE16(m)
           b == LE16(n)
           s == head \o a
           row == s \o b
           h == Len(head)
<1>0. IsASequence(a) /\ Len(a) = 2 /\ IsASequence(b) /\ Len(b) = 2
  <2>1. \A k : IsASequence(LE16(k)) /\ Len(LE16(k)) = 2
    <3> TAKE k
    <3>1. LE16(k) \in Seq({k % 256, (k \div 256) % 256}) /\ Len(LE16(k)) = 2
      BY DEF LE16
    <3> QED
      BY <3>1 DEF IsASequence
  <2> QED
    BY <2>1
<1>1. IsASequence(a) /\ IsASequence(b)
  BY <1>0
<1>2. a[1] + 256 * a[2] = m /\ b[1] + 256 * b[2] = n
  BY TwoBytes
<1> HIDE DEF a, b
<1>3. /\ IsASequence(s) /\ Len(s) = h + Len(a) /\ h \in Nat
      /\ \A i \in 1 .. h : s[i] = head[i]
      /\ \A i \in 1 .. Len(a) : s[h + i] = a[i]
  BY <1>1, ConcatSequences
<1> HIDE DEF s
<1>11. IsASequence(s)
  BY <1>3
<1>4. /\ IsASequence(row) /\ Len(row) = Len(s) + Len(b)
      /\ \A i \in 1 .. Len(s) : row[i] = s[i]
      /\ \A i \in 1 .. Len(b) : row[Len(s) + i] = b[i]
  BY <1>1, <1>11, ConcatSequences
<1> HIDE DEF row, h
<1>5. Len(s) = h + 2 /\ Len(row) = h + 4
  BY <1>0, <1>3, <1>4
<1>6. \A i \in 1 .. h : row[i] = head[i]
  <2>1. \A i \in 1 .. h : i \in 1 .. Len(s)
    BY <1>3, <1>5
  <2> QED
    BY <1>3, <1>4, <2>1
<1>7. row[h + 1] = a[1] /\ row[h + 2] = a[2]
  <2>1. h + 1 \in 1 .. Len(s) /\ h + 2 \in 1 .. Len(s) /\ 1 \in 1 .. Len(a) /\ 2 \in 1 .. Len(a)
    BY <1>0, <1>3, <1>5
  <2> QED
    BY <1>3, <1>4, <2>1
<1>8. row[h + 3] = b[1] /\ row[h + 4] = b[2]
  <2>1. /\ Len(s) + 1 = h + 3 /\ Len(s) + 2 = h + 4 /\ 1 \in 1 .. Len(b) /\ 2 \in 1 .. Len(b)
    BY <1>0, <1>3, <1>5
  <2> QED
    BY <1>4, <2>1
<1>9. From16(row, h + 1) = m /\ From16(row, h + 3) = n
  <2>1. (h + 1) + 1 = h + 2 /\ (h + 3) + 1 = h + 4
    BY <1>3
  <2> QED
    BY <1>2, <1>7, <1>8, <2>1 DEF From16
<1>10. row = head \o LE16(m) \o LE16(n) /\ h = Len(head)
  BY DEF row, s, a, b, h
<1> QED
  BY <1>4, <1>5, <1>6, <1>9, <1>10

LEMMA LE16Is == \A k : IsASequence(LE16(k)) /\ Len(LE16(k)) = 2
<1> TAKE k
<1>1. LE16(k) \in Seq({k % 256, (k \div 256) % 256}) /\ Len(LE16(k)) = 2
  BY DEF LE16
<1> QED
  BY <1>1 DEF IsASequence

\* A number of at most 32 bits.
FitsWord(n) == n \in Nat /\ n \div 65536 \in uint16

\* One number of four bytes after the other fields.
LEMMA OneWord ==
  ASSUME NEW head, IsASequence(head), NEW n, FitsWord(n)
  PROVE  LET row == head \o LE32(n)
             h == Len(head)
         IN  /\ IsASequence(row) /\ Len(row) = h + 4
             /\ \A i \in 1 .. h : row[i] = head[i]
             /\ From32(row, h + 1) = n
<1> DEFINE a == LE16(n % 65536)
           b == LE16(n \div 65536)
           w == a \o b
           row == head \o w
           h == Len(head)
<1>0. IsASequence(a) /\ Len(a) = 2 /\ IsASequence(b) /\ Len(b) = 2
  BY LE16Is
<1>1. IsASequence(a) /\ IsASequence(b)
  BY <1>0
<1>2. /\ a[1] + 256 * a[2] = n % 65536 /\ b[1] + 256 * b[2] = n \div 65536
      /\ (n % 65536) + 65536 * (n \div 65536) = n
  <2>1. n \in Nat /\ n \div 65536 \in uint16
    BY DEF FitsWord
  <2>2. n % 65536 \in uint16 /\ (n % 65536) + 65536 * (n \div 65536) = n
    BY <2>1, WordHalves
  <2> QED
    BY <2>1, <2>2, TwoBytes
<1> HIDE DEF a, b
<1>3. /\ IsASequence(w) /\ Len(w) = Len(a) + Len(b)
      /\ \A i \in 1 .. Len(a) : w[i] = a[i]
      /\ \A i \in 1 .. Len(b) : w[Len(a) + i] = b[i]
  BY <1>1, ConcatSequences
<1> HIDE DEF w
<1>4. IsASequence(w)
  BY <1>3
<1>5. /\ IsASequence(row) /\ Len(row) = Len(head) + Len(w) /\ Len(head) \in Nat
      /\ \A i \in 1 .. Len(head) : row[i] = head[i]
      /\ \A i \in 1 .. Len(w) : row[Len(head) + i] = w[i]
  BY <1>4, ConcatSequences
<1> HIDE DEF row, h
<1>6. Len(w) = 4 /\ w[1] = a[1] /\ w[2] = a[2] /\ w[3] = b[1] /\ w[4] = b[2]
  BY <1>0, <1>3
<1>7. Len(row) = h + 4 /\ \A i \in 1 .. h : row[i] = head[i]
  BY <1>5, <1>6 DEF h
<1>8. h \in Nat /\ row[h + 1] = a[1] /\ row[h + 2] = a[2] /\ row[h + 3] = b[1] /\ row[h + 4] = b[2]
  BY <1>5, <1>6 DEF h
<1>9. From32(row, h + 1) = n
  <2>1. (h + 1) + 1 = h + 2 /\ (h + 1) + 2 = h + 3 /\ ((h + 1) + 2) + 1 = h + 4
    BY <1>8
  <2>2. From16(row, h + 1) = n % 65536 /\ From16(row, (h + 1) + 2) = n \div 65536
    BY <1>2, <1>8, <2>1 DEF From16
  <2> QED
    BY <1>2, <2>2 DEF From32
<1>10. row = head \o LE32(n) /\ h = Len(head)
  BY DEF row, w, a, b, h, LE32
<1> QED
  BY <1>5, <1>7, <1>9, <1>10

LEMMA UniformRead ==
  ASSUME NEW u \in WrittenUniform
  PROVE  /\ IsASequence(UniformRow(u)) /\ Len(UniformRow(u)) = 11
         /\ ReadUniform(UniformRow(u)) = u
<1> DEFINE b == ArrayByte(u.type)
           head == <<u.name, u.type.type, u.type.extra, b, u.set, u.binding, u.block.index>>
           row == head \o LE16(u.block.offset) \o LE16(u.block.size)
<1>1. /\ u \in Uniform /\ u.type \in HLSVType /\ Counted(u.type)
      /\ u.block.offset \in uint16 /\ u.block.size \in uint16
  BY DEF WrittenUniform, Uniform
<1>2. ReadType(u.type.type, b, u.type.extra) = u.type
  BY <1>1, TypeRead
<1>3. /\ u = [name |-> u.name, type |-> u.type, set |-> u.set, binding |-> u.binding,
              block |-> u.block]
      /\ u.block = [index |-> u.block.index, offset |-> u.block.offset, size |-> u.block.size]
  BY <1>1 DEF Uniform
<1>4. UniformRow(u) = row
  BY DEF UniformRow
<1> HIDE DEF b
<1>5. /\ head[1] = u.name /\ head[2] = u.type.type /\ head[3] = u.type.extra /\ head[4] = b
      /\ head[5] = u.set /\ head[6] = u.binding /\ head[7] = u.block.index /\ Len(head) = 7
  OBVIOUS
<1>6. IsASequence(head)
  <2> DEFINE S == {u.name, u.type.type, u.type.extra, b, u.set, u.binding, u.block.index}
  <2>0. /\ u.name \in S /\ u.type.type \in S /\ u.type.extra \in S /\ b \in S
        /\ u.set \in S /\ u.binding \in S /\ u.block.index \in S
    OBVIOUS
  <2> HIDE DEF S
  <2>1. head \in Seq(S)
    BY <2>0
  <2> QED
    BY <2>1 DEF IsASequence
<1> HIDE DEF head
<1>7. /\ IsASequence(row) /\ Len(row) = Len(head) + 4
      /\ \A i \in 1 .. Len(head) : row[i] = head[i]
      /\ From16(row, Len(head) + 1) = u.block.offset /\ From16(row, Len(head) + 3) = u.block.size
  <2> DEFINE o == u.block.offset
             z == u.block.size
  <2>1. o \in uint16 /\ z \in uint16
    BY <1>1
  <2>2. row = head \o LE16(o) \o LE16(z)
    OBVIOUS
  <2> HIDE DEF o, z, row
  <2>3. /\ IsASequence(row) /\ Len(row) = Len(head) + 4
        /\ \A i \in 1 .. Len(head) : row[i] = head[i]
        /\ From16(row, Len(head) + 1) = o /\ From16(row, Len(head) + 3) = z
    BY <1>6, <2>1, <2>2, TwoNumbers
  <2> QED
    BY <2>3 DEF o, z
<1> HIDE DEF row
<1>8. /\ Len(row) = 11 /\ From16(row, 8) = u.block.offset /\ From16(row, 10) = u.block.size
      /\ row[1] = u.name /\ row[2] = u.type.type /\ row[3] = u.type.extra /\ row[4] = b
      /\ row[5] = u.set /\ row[6] = u.binding /\ row[7] = u.block.index
  BY <1>5, <1>7
<1>9. ReadUniform(row) = u
  BY <1>2, <1>3, <1>8 DEF ReadUniform
<1> QED
  BY <1>4, <1>7, <1>8, <1>9

LEMMA PushRead ==
  ASSUME NEW p \in WrittenPush
  PROVE  /\ IsASequence(PushRow(p)) /\ Len(PushRow(p)) = 7
         /\ ReadPush(PushRow(p)) = p
<1> DEFINE b == ArrayByte(p.type)
           head == <<p.name, p.type.type, b>>
           row == head \o LE16(p.offset) \o LE16(p.size)
<1>1. /\ p \in PushConst /\ p.type \in HLSVType /\ Counted(p.type) /\ p.type.extra = 0
      /\ p.offset \in uint16 /\ p.size \in uint16
  BY DEF WrittenPush, PushConst
<1>2. ReadType(p.type.type, b, 0) = p.type
  BY <1>1, TypeRead
<1>3. p = [name |-> p.name, type |-> p.type, offset |-> p.offset, size |-> p.size]
  BY <1>1 DEF PushConst
<1>4. PushRow(p) = row
  BY DEF PushRow
<1> HIDE DEF b
<1>5. head[1] = p.name /\ head[2] = p.type.type /\ head[3] = b /\ Len(head) = 3
  OBVIOUS
<1>6. IsASequence(head)
  <2>1. head \in Seq({p.name, p.type.type, b})
    OBVIOUS
  <2> QED
    BY <2>1 DEF IsASequence
<1> HIDE DEF head
<1>7. /\ IsASequence(row) /\ Len(row) = Len(head) + 4
      /\ \A i \in 1 .. Len(head) : row[i] = head[i]
      /\ From16(row, Len(head) + 1) = p.offset /\ From16(row, Len(head) + 3) = p.size
  BY <1>1, <1>6, TwoNumbers
<1> HIDE DEF row
<1>8. /\ Len(row) = 7 /\ From16(row, 4) = p.offset /\ From16(row, 6) = p.size
      /\ row[1] = p.name /\ row[2] = p.type.type /\ row[3] = b
  BY <1>5, <1>7
<1>9. ReadPush(row) = p
  BY <1>2, <1>3, <1>8 DEF ReadPush
<1> QED
  BY <1>4, <1>7, <1>8, <1>9

LEMMA SpecRead ==
  ASSUME NEW s \in WrittenSpec, FitsWord(s.default_value)
  PROVE  /\ IsASequence(SpecRow(s)) /\ Len(SpecRow(s)) = 8
         /\ ReadSpec(SpecRow(s)) = s
<1> DEFINE head == <<s.name, s.type.type, s.index, Uint8(s.size)>>
           row == head \o LE32(s.default_value)
<1>1. /\ s \in SpecConst /\ s.type \in HLSVType /\ Counted(s.type) /\ s.type.extra = 0
      /\ ~ s.type.is_array /\ Uint8(s.size) = s.size
  BY Uint8Small DEF WrittenSpec, SpecConst
<1>2. ReadType(s.type.type, 0, 0) = s.type
  BY <1>1, TypeRead
<1>3. s = [name |-> s.name, type |-> s.type, index |-> s.index, size |-> s.size,
           default_value |-> s.default_value]
  BY <1>1 DEF SpecConst
<1>4. SpecRow(s) = row
  BY DEF SpecRow
<1>5. /\ head[1] = s.name /\ head[2] = s.type.type /\ head[3] = s.index /\ head[4] = s.size
      /\ Len(head) = 4
  BY <1>1
<1>6. IsASequence(head)
  <2>1. head \in Seq({s.name, s.type.type, s.index, Uint8(s.size)})
    OBVIOUS
  <2> HIDE DEF head
  <2> QED
    BY <2>1 DEF IsASequence
<1> HIDE DEF head
<1>7. /\ IsASequence(row) /\ Len(row) = Len(head) + 4
      /\ \A i \in 1 .. Len(head) : row[i] = head[i]
      /\ From32(row, Len(head) + 1) = s.default_value
  BY <1>6, OneWord
<1> HIDE DEF row
<1>8. /\ Len(row) = 8 /\ From32(row, 5) = s.default_value
      /\ row[1] = s.name /\ row[2] = s.type.type /\ row[3] = s.index /\ row[4] = s.size
  BY <1>5, <1>7
<1>9. ReadSpec(row) = s
  BY <1>2, <1>3, <1>8 DEF ReadSpec
<1>10. IsASequence(row) /\ Len(row) = 8 /\ ReadSpec(row) = s
  BY <1>7, <1>8, <1>9
<1> QED
  BY <1>4, <1>10

-----------------------------------------------------------------------------
(* Blocks: rows that say themselves how long they are.                     *)

LEMMA AscendingLists ==
  ASSUME NEW S, S \subseteq uint8
  PROVE  /\ IsASequence(Ascending(S)) /\ Cardinality(S) \in Nat
         /\ Len(Ascending(S)) = Cardinality(S)
         /\ {Ascending(S)[k] : k \in 1 .. Cardinality(S)} = S
<1> DEFINE c == Cardinality(S)
           Rank(i) == Cardinality({j \in S : j < i})
           list == [k \in 1 .. c |-> CHOOSE i \in S : Rank(i) = k - 1]
<1>1. S \subseteq Nat /\ IsFiniteSet(S) /\ c \in Nat
  <2>1. \A n \in Nat : IsFiniteSet(0 .. n)
    BY FS_Interval
  <2>2. 255 \in Nat
    OBVIOUS
  <2>3. IsFiniteSet(uint8)
    BY <2>1, <2>2, Zenon DEF uint8
  <2>4. IsFiniteSet(S)
    BY <2>3, FS_Subset
  <2> QED
    BY <2>4, FS_CardinalityType, WidthsNat
<1>2. Ascending(S) = list
  BY DEF Ascending
<1>3. ASSUME NEW k \in 1 .. c PROVE list[k] \in S /\ Rank(list[k]) = k - 1
  <2>1. \E i \in S : Rank(i) = k - 1
    BY <1>1, RanksReached
  <2>2. list[k] = CHOOSE i \in S : Rank(i) = k - 1
    OBVIOUS
  <2> HIDE DEF Rank, list
  <2> QED
    BY <2>1, <2>2
<1>4. ASSUME NEW i \in S PROVE \E k \in 1 .. c : list[k] = i
  <2> DEFINE k == Rank(i) + 1
  <2>1. Rank(i) \in Nat /\ Rank(i) < c
    <3>1. {j \in S : j < i} \in SUBSET S /\ i \notin {j \in S : j < i}
      BY <1>1
    <3>2. /\ IsFiniteSet({j \in S : j < i}) /\ Rank(i) <= c
          /\ Rank(i) = c => S = {j \in S : j < i}
      BY <1>1, <3>1, FS_Subset
    <3>3. Rank(i) \in Nat
      BY <3>2, FS_CardinalityType
    <3> HIDE DEF Rank, c
    <3>4. Rank(i) # c
      BY <3>1, <3>2
    <3> QED
      BY <1>1, <3>2, <3>3, <3>4
  <2> HIDE DEF Rank, c, list
  <2>2. k \in 1 .. c /\ k - 1 = Rank(i)
    BY <1>1, <2>1
  <2>3. list[k] \in S /\ Rank(list[k]) = Rank(i)
    BY <1>3, <2>2
  <2>4. list[k] = i
    <3> DEFINE l == list[k]
    <3>1. l \in S /\ Rank(l) = Rank(i)
      BY <2>3
    <3> HIDE DEF l
    <3>2. l = i
      BY <1>1, <3>1, RanksDiffer DEF Rank
    <3> QED
      BY <3>2 DEF l
  <2> QED
    BY <2>2, <2>4
<1>5. list \in [1 .. c -> S]
  <2> DEFINE at == [k \in 1 .. c |-> list[k]]
  <2>1. list = at
    OBVIOUS
  <2> HIDE DEF list
  <2>2. \A k \in 1 .. c : list[k] \in S
    BY <1>3
  <2> QED
    BY <2>1, <2>2
<1> HIDE DEF list, c
<1>6. list \in Seq(S) /\ Len(list) = c
  BY <1>1, <1>5
<1>7. {list[k] : k \in 1 .. c} = S
  BY <1>3, <1>4
<1> QED
  BY <1>1, <1>2, <1>6, <1>7 DEF c, IsASequence

LEMMA OneMoreByte ==
  ASSUME NEW s, IsASequence(s), NEW x
  PROVE  LET t == s \o <<x>> IN
         /\ IsASequence(t) /\ Len(s) \in Nat /\ Len(t) = Len(s) + 1 /\ t[Len(s) + 1] = x
         /\ \A i \in 1 .. Len(s) : t[i] = s[i]
<1> DEFINE b == <<x>>
           t == s \o b
<1>1. b \in Seq({x}) /\ Len(b) = 1 /\ b[1] = x
  OBVIOUS
<1> HIDE DEF b
<1>2. IsASequence(b)
  BY <1>1 DEF IsASequence
<1>3. /\ IsASequence(t) /\ Len(s) \in Nat /\ Len(t) = Len(s) + Len(b)
      /\ \A i \in 1 .. Len(s) : t[i] = s[i]
      /\ \A i \in 1 .. Len(b) : t[Len(s) + i] = b[i]
  BY <1>2, ConcatSequences
<1> HIDE DEF t
<1>4. Len(t) = Len(s) + 1 /\ t[Len(s) + 1] = x
  BY <1>1, <1>3
<1>5. t = s \o <<x>>
  BY DEF t, b
<1> QED
  BY <1>3, <1>4, <1>5

WrittenBlock == {b \in Block : Cardinality(b.members) <= 255}

Bit(flag) == IF flag THEN 1 ELSE 0

LEMMA BlockRowIs ==
  ASSUME NEW b \in WrittenBlock
  PROVE  LET row == BlockRow(b)
             c == Cardinality(b.members)
         IN  /\ IsASequence(row) /\ c \in Nat /\ Len(row) = 6 + c
             /\ row[1] = b.set /\ row[2] = b.binding /\ From16(row, 3) = b.size
             /\ row[5] = Bit(b.packed) /\ row[6] = c
             /\ {row[6 + k] : k \in 1 .. c} = b.members
<1> DEFINE c  == Cardinality(b.members)
           s2 == <<b.set, b.binding>>
           w  == LE16(b.size)
           s4 == s2 \o w
           s5 == s4 \o <<Bit(b.packed)>>
           s6 == s5 \o <<Uint8(c)>>
           list == Ascending(b.members)
           row == s6 \o list
<1>1. /\ b.members \subseteq uint8 /\ b.size \in uint16 /\ c <= 255
  BY DEF WrittenBlock, Block
<1>2. /\ IsASequence(list) /\ c \in Nat /\ Len(list) = c
      /\ {list[k] : k \in 1 .. c} = b.members
  BY <1>1, AscendingLists
<1>3. BlockRow(b) = row
  BY DEF BlockRow, Bit
<1> HIDE DEF list, c
<1>4. Uint8(c) = c
  BY <1>1, <1>2 DEF Uint8
<1>5. s2 \in Seq({b.set, b.binding}) /\ Len(s2) = 2 /\ s2[1] = b.set /\ s2[2] = b.binding
  OBVIOUS
<1> HIDE DEF s2
<1>6. IsASequence(s2)
  BY <1>5 DEF IsASequence
<1>7. IsASequence(w) /\ Len(w) = 2
  BY LE16Is
<1>8. w[1] + 256 * w[2] = b.size
  BY <1>1, TwoBytes
<1>9. IsASequence(w)
  BY <1>7
<1> HIDE DEF w
<1>10. /\ IsASequence(s4) /\ Len(s4) = Len(s2) + Len(w)
       /\ \A i \in 1 .. Len(s2) : s4[i] = s2[i]
       /\ \A i \in 1 .. Len(w) : s4[Len(s2) + i] = w[i]
  BY <1>6, <1>9, ConcatSequences
<1> HIDE DEF s4
<1>11. IsASequence(s4)
  BY <1>10
<1>12. /\ Len(s4) = 4 /\ s4[1] = b.set /\ s4[2] = b.binding /\ s4[3] = w[1] /\ s4[4] = w[2]
  BY <1>5, <1>7, <1>10
<1>13. /\ IsASequence(s5) /\ Len(s5) = Len(s4) + 1 /\ s5[Len(s4) + 1] = Bit(b.packed)
       /\ \A i \in 1 .. Len(s4) : s5[i] = s4[i]
  BY <1>11, OneMoreByte
<1> HIDE DEF s5
<1>14. IsASequence(s5)
  BY <1>13
<1>15. /\ Len(s5) = 5 /\ s5[1] = b.set /\ s5[2] = b.binding /\ s5[3] = w[1] /\ s5[4] = w[2]
       /\ s5[5] = Bit(b.packed)
  BY <1>12, <1>13
<1>16. /\ IsASequence(s6) /\ Len(s6) = Len(s5) + 1 /\ s6[Len(s5) + 1] = Uint8(c)
       /\ \A i \in 1 .. Len(s5) : s6[i] = s5[i]
  BY <1>14, OneMoreByte
<1> HIDE DEF s6
<1>17. IsASequence(s6)
  BY <1>16
<1>24. IsASequence(list)
  BY <1>2
<1>18. /\ Len(s6) = 6 /\ s6[1] = b.set /\ s6[2] = b.binding /\ s6[3] = w[1] /\ s6[4] = w[2]
       /\ s6[5] = Bit(b.packed) /\ s6[6] = c
  BY <1>4, <1>15, <1>16
<1>19. /\ IsASequence(row) /\ Len(row) = Len(s6) + Len(list)
       /\ \A i \in 1 .. Len(s6) : row[i] = s6[i]
       /\ \A i \in 1 .. Len(list) : row[Len(s6) + i] = list[i]
  BY <1>17, <1>24, ConcatSequences
<1> HIDE DEF row
<1>20. /\ Len(row) = 6 + c /\ row[1] = b.set /\ row[2] = b.binding /\ row[3] = w[1]
       /\ row[4] = w[2] /\ row[5] = Bit(b.packed) /\ row[6] = c
       /\ \A i \in 1 .. c : row[6 + i] = list[i]
  BY <1>2, <1>18, <1>19
<1>21. From16(row, 3) = b.size
  BY <1>8, <1>20 DEF From16
<1>22. {row[6 + k] : k \in 1 .. c} = {list[k] : k \in 1 .. c}
  BY <1>20
<1>23. IsASequence(row) /\ {row[6 + k] : k \in 1 .. c} = b.members
  BY <1>2, <1>19, <1>22
<1>25. /\ IsASequence(row) /\ c \in Nat /\ Len(row) = 6 + c
       /\ row[1] = b.set /\ row[2] = b.binding /\ From16(row, 3) = b.size
       /\ row[5] = Bit(b.packed) /\ row[6] = c
       /\ {row[6 + k] : k \in 1 .. c} = b.members
  BY <1>2, <1>20, <1>21, <1>23
<1> QED
  BY <1>3, <1>25 DEF c

RowHeld(bytes, p, row) == \A j \in 1 .. Len(row) : bytes[p + (j - 1)] = row[j]

LEMMA BlockRead ==
  ASSUME NEW b \in WrittenBlock, NEW bytes, NEW acc, NEW p \in Nat, acc.start = p,
         RowHeld(bytes, p, BlockRow(b))
  PROVE  ReadBlock(acc, bytes)
           = [start |-> p + Len(BlockRow(b)), rows |-> Append(acc.rows, b)]
<1> DEFINE row == BlockRow(b)
           c == Cardinality(b.members)
           n == bytes[p + 5]
           read == [set |-> bytes[p], binding |-> bytes[p + 1],
                    size |-> From16(bytes, p + 2), packed |-> bytes[p + 4] = 1,
                    members |-> {bytes[p + 5 + k] : k \in 1 .. n}]
<1>1. /\ c \in Nat /\ Len(row) = 6 + c
      /\ row[1] = b.set /\ row[2] = b.binding /\ From16(row, 3) = b.size
      /\ row[5] = Bit(b.packed) /\ row[6] = c
      /\ {row[6 + k] : k \in 1 .. c} = b.members
  BY BlockRowIs
<1>2. \A j \in 1 .. Len(row) : bytes[p + (j - 1)] = row[j]
  BY DEF RowHeld
<1>3. ReadBlock(acc, bytes) = [start |-> p + 6 + n, rows |-> Append(acc.rows, read)]
  BY DEF ReadBlock
<1>4. /\ b = [set |-> b.set, binding |-> b.binding, size |-> b.size, packed |-> b.packed,
              members |-> b.members]
      /\ b.packed \in BOOLEAN
  BY DEF WrittenBlock, Block
<1> HIDE DEF row, c
<1>5. \A i \in 0 .. 5 + c : bytes[p + i] = row[i + 1]
  <2> TAKE i \in 0 .. 5 + c
  <2>1. i + 1 \in 1 .. Len(row) /\ p + ((i + 1) - 1) = p + i
    BY <1>1
  <2> QED
    BY <1>2, <2>1
<1>6. /\ bytes[p] = row[1] /\ bytes[p + 1] = row[2] /\ bytes[p + 2] = row[3]
      /\ bytes[p + 3] = row[4] /\ bytes[p + 4] = row[5] /\ n = row[6]
  <2>1. \A i \in 0 .. 5 : i \in 0 .. 5 + c
    BY <1>1
  <2>2. \A i \in 0 .. 5 : bytes[p + i] = row[i + 1]
    BY <1>5, <2>1
  <2>3. p + 0 = p
    OBVIOUS
  <2> QED
    BY <2>2, <2>3
<1> HIDE DEF n
<1>7. n = c
  BY <1>1, <1>6
<1>8. From16(bytes, p + 2) = b.size
  <2>1. (p + 2) + 1 = p + 3
    OBVIOUS
  <2> QED
    BY <1>1, <1>6, <2>1 DEF From16
<1>9. (bytes[p + 4] = 1) = b.packed
  BY <1>1, <1>4, <1>6 DEF Bit
<1>10. {bytes[p + 5 + k] : k \in 1 .. n} = b.members
  <2>1. ASSUME NEW k \in 1 .. c PROVE bytes[p + 5 + k] = row[6 + k]
    <3>1. 5 + k \in 0 .. 5 + c /\ p + (5 + k) = p + 5 + k /\ (5 + k) + 1 = 6 + k
      BY <1>1
    <3> QED
      BY <1>5, <3>1
  <2>2. {bytes[p + 5 + k] : k \in 1 .. c} = {row[6 + k] : k \in 1 .. c}
    BY <2>1
  <2> QED
    BY <1>1, <1>7, <2>2
<1>11. read = b
  BY <1>1, <1>4, <1>6, <1>8, <1>9, <1>10
<1>12. p + 6 + n = p + Len(row)
  BY <1>1, <1>7
<1> HIDE DEF read
<1> QED
  BY <1>3, <1>11, <1>12 DEF row

\* The function ReadBlocks is defined by.
FoundBlocks(f, bytes, p, n) ==
  /\ f = [k \in 0 .. n |-> f[k]]
  /\ f[0] = [start |-> p + 1, rows |-> <<>>]
  /\ \A k \in 1 .. n : f[k] = ReadBlock(f[k - 1], bytes)

LEMMA FoundBlocksExist ==
  ASSUME NEW bytes, NEW p, NEW N \in Nat PROVE \E f : FoundBlocks(f, bytes, p, N)
<1> DEFINE first == [start |-> p + 1, rows |-> <<>>]
           bad == {n \in 0 .. N : ~ \E f : FoundBlocks(f, bytes, p, n)}
<1> SUFFICES ASSUME bad # {} PROVE FALSE
  <2>1. N \in 0 .. N
    OBVIOUS
  <2> QED
    BY <2>1
<1>1. PICK m \in bad : \A y \in bad : m <= y
  <2>1. bad \subseteq Nat
    OBVIOUS
  <2> HIDE DEF bad
  <2> QED
    BY <2>1, LeastElement
<1>2. m \in 0 .. N /\ ~ \E f : FoundBlocks(f, bytes, p, m)
  OBVIOUS
<1>3. m # 0
  <2> DEFINE f0 == [k \in 0 .. 0 |-> first]
  <2>1. f0[0] = first /\ f0 = [k \in 0 .. 0 |-> f0[k]] /\ 1 .. 0 = {}
    OBVIOUS
  <2> HIDE DEF f0
  <2>2. FoundBlocks(f0, bytes, p, 0)
    BY <2>1 DEF FoundBlocks
  <2> QED
    BY <1>2, <2>2
<1>4. m - 1 \in 0 .. N /\ ~ m <= m - 1
  BY <1>2, <1>3
<1>5. PICK f : FoundBlocks(f, bytes, p, m - 1)
  BY <1>1, <1>4
<1> HIDE DEF bad
<1> DEFINE last == ReadBlock(f[m - 1], bytes)
           g == [k \in 0 .. m |-> IF k = m THEN last ELSE f[k]]
<1>6. FoundBlocks(g, bytes, p, m)
  <2>1. g[m] = last /\ g[m - 1] = f[m - 1] /\ g[0] = f[0]
    BY <1>2, <1>3
  <2>2. ASSUME NEW i \in 1 .. m - 1 PROVE g[i] = ReadBlock(g[i - 1], bytes)
    <3>1. i \in 0 .. m /\ i # m /\ i - 1 \in 0 .. m /\ i - 1 # m
      BY <1>2
    <3>2. f[i] = ReadBlock(f[i - 1], bytes)
      BY <1>5 DEF FoundBlocks
    <3>3. g[i] = f[i] /\ g[i - 1] = f[i - 1]
      BY <3>1
    <3> QED
      BY <3>2, <3>3
  <2>3. f[0] = [start |-> p + 1, rows |-> <<>>]
    BY <1>5 DEF FoundBlocks
  <2>4. \A i \in 1 .. m : i = m \/ i \in 1 .. m - 1
    BY <1>2
  <2>5. g = [k \in 0 .. m |-> g[k]]
    OBVIOUS
  <2>6. last = ReadBlock(g[m - 1], bytes)
    BY <2>1
  <2> HIDE DEF g, last
  <2> QED
    BY <2>1, <2>2, <2>3, <2>4, <2>5, <2>6 DEF FoundBlocks
<1> QED
  BY <1>2, <1>6

LEMMA ReadBlocksIs ==
  ASSUME NEW bytes, NEW p, NEW n \in Nat, bytes[p] = n
  PROVE  \E f : FoundBlocks(f, bytes, p, n) /\ ReadBlocks(bytes, p) = f[n]
<1> DEFINE first == [start |-> p + 1, rows |-> <<>>]
           Recursive(f) == f = [k \in 0 .. n |-> IF k = 0 THEN first
                                                 ELSE ReadBlock(f[k - 1], bytes)]
           found == CHOOSE f : Recursive(f)
<1>1. ReadBlocks(bytes, p) = found[n]
  BY DEF ReadBlocks
<1>2. PICK f : FoundBlocks(f, bytes, p, n)
  BY FoundBlocksExist
<1>3. Recursive(f)
  <2>1. f[0] = first /\ \A i \in 1 .. n : f[i] = ReadBlock(f[i - 1], bytes)
    BY <1>2 DEF FoundBlocks
  <2>2. \A i \in 0 .. n : i = 0 \/ i \in 1 .. n
    OBVIOUS
  <2> HIDE DEF first
  <2>3. \A i \in 0 .. n : f[i] = IF i = 0 THEN first ELSE ReadBlock(f[i - 1], bytes)
    BY <2>1, <2>2
  <2>4. f = [i \in 0 .. n |-> f[i]]
    BY <1>2 DEF FoundBlocks
  <2> QED
    BY <2>3, <2>4
<1>4. Recursive(found)
  BY <1>3
<1> HIDE DEF found
<1>5. FoundBlocks(found, bytes, p, n)
  <2> HIDE DEF first
  <2>1. found = [i \in 0 .. n |-> found[i]]
    BY <1>4
  <2>2. \A i \in 0 .. n : found[i] = IF i = 0 THEN first ELSE ReadBlock(found[i - 1], bytes)
    BY <1>4
  <2>3. 0 \in 0 .. n /\ \A i \in 1 .. n : i \in 0 .. n /\ i # 0
    OBVIOUS
  <2>4. found[0] = first /\ \A i \in 1 .. n : found[i] = ReadBlock(found[i - 1], bytes)
    BY <2>2, <2>3
  <2> QED
    BY <2>1, <2>4 DEF FoundBlocks, first
<1> QED
  BY <1>1, <1>5

-----------------------------------------------------------------------------
(* Whole tables.                                                           *)

IsTableOf(rows, s) == rows = [i \in 1 .. Len(s) |-> rows[i]]

LEMMA RowsMade ==
  ASSUME NEW s, IsASequence(s), NEW rows, IsTableOf(rows, s),
         \A i \in 1 .. Len(s) : IsASequence(rows[i])
  PROVE  IsRows(rows) /\ Len(rows) = Len(s) /\ IsASequence(Table(rows))
<1> DEFINE n == Len(s)
           S == {rows[i] : i \in 1 .. n}
<1>1. n \in Nat
  BY SequenceFacts
<1>2. rows = [i \in 1 .. n |-> rows[i]] /\ \A i \in 1 .. n : rows[i] \in S
  BY DEF IsTableOf
<1> HIDE DEF n, S
<1>3. rows \in [1 .. n -> S]
  BY <1>2
<1>4. rows \in Seq(S) /\ Len(rows) = n
  BY <1>1, <1>3
<1>5. IsRows(rows)
  BY <1>4 DEF IsRows, IsASequence, n
<1>6. PICK ends : Ends(ends, rows)
  BY <1>5, EndsExist
<1>7. IsASequence(Table(rows))
  BY <1>5, <1>6, TableIs
<1> QED
  BY <1>4, <1>5, <1>7 DEF n

LEMMA AttributesRead ==
  ASSUME NEW s \in Seq(WrittenAttribute)
  PROVE  LET table == Table(Each(s, AttributeRow)) IN
         /\ IsASequence(table)
         /\ \A bytes, p : Holds(bytes, p, table) /\ Len(s) <= 255 =>
              /\ Each(RowsAt(bytes, p, 5), ReadAttribute) = s
              /\ After(bytes, p, 5) = p + Len(table)
<1> DEFINE n == Len(s)
           rows == [i \in 1 .. n |-> AttributeRow(s[i])]
<1>1. n \in Nat /\ DOMAIN s = 1 .. n /\ \A i \in 1 .. n : s[i] \in WrittenAttribute
  OBVIOUS
<1>2. IsASequence(s)
  BY DEF IsASequence
<1>3. Each(s, AttributeRow) = rows
  BY <1>1 DEF Each
<1>4. \A i \in 1 .. n : /\ IsASequence(rows[i]) /\ Len(rows[i]) = 5
                        /\ ReadAttribute(rows[i]) = s[i]
  <2> TAKE i \in 1 .. n
  <2>1. s[i] \in WrittenAttribute
    BY <1>1
  <2>2. rows[i] = AttributeRow(s[i])
    OBVIOUS
  <2> HIDE DEF rows
  <2> QED
    BY <2>1, <2>2, AttributeRead
<1>5. IsTableOf(rows, s)
  BY DEF IsTableOf
<1> HIDE DEF rows
<1>6. IsRows(rows) /\ Len(rows) = n /\ IsASequence(Table(rows))
  BY <1>2, <1>4, <1>5, RowsMade
<1>7. ASSUME NEW bytes, NEW p, Holds(bytes, p, Table(rows)), n <= 255
      PROVE  /\ Each(RowsAt(bytes, p, 5), ReadAttribute) = s
             /\ After(bytes, p, 5) = p + Len(Table(rows))
  <2>1. IsRows(rows) /\ Len(rows) <= 255 /\ Holds(bytes, p, Table(rows))
    BY <1>6, <1>7
  <2>2. RowsAt(bytes, p, 5) = rows /\ After(bytes, p, 5) = p + Len(Table(rows))
    <3>1. 5 \in Nat
      OBVIOUS
    <3>2. OfWidth(rows, 5)
      BY <1>4, <1>6 DEF OfWidth
    <3>3. IsRows(rows)
      BY <2>1
    <3>4. Len(rows) <= 255
      BY <2>1
    <3>5. Holds(bytes, p, Table(rows))
      BY <2>1
    <3> QED
      BY <3>1, <3>2, <3>3, <3>4, <3>5, RowsRead
  <2>3. Each(rows, ReadAttribute) = [i \in 1 .. n |-> ReadAttribute(rows[i])]
    <3>1. DOMAIN rows = 1 .. n
      BY <1>5 DEF IsTableOf
    <3> QED
      BY <3>1 DEF Each
  <2>4. [i \in 1 .. n |-> ReadAttribute(rows[i])] = [i \in 1 .. n |-> s[i]]
    BY <1>4
  <2>5. [i \in 1 .. n |-> s[i]] = s
    BY <1>1, <1>2, SequenceFacts
  <2> QED
    BY <2>2, <2>3, <2>4, <2>5
<1> QED
  BY <1>3, <1>6, <1>7

LEMMA OutputsRead ==
  ASSUME NEW s \in Seq(WrittenOutput)
  PROVE  LET table == Table(Each(s, OutputRow)) IN
         /\ IsASequence(table)
         /\ \A bytes, p : Holds(bytes, p, table) /\ Len(s) <= 255 =>
              /\ Each(RowsAt(bytes, p, 3), ReadOutput) = s
              /\ After(bytes, p, 3) = p + Len(table)
<1> DEFINE n == Len(s)
           rows == [i \in 1 .. n |-> OutputRow(s[i])]
<1>1. n \in Nat /\ DOMAIN s = 1 .. n /\ \A i \in 1 .. n : s[i] \in WrittenOutput
  OBVIOUS
<1>2. IsASequence(s)
  BY DEF IsASequence
<1>3. Each(s, OutputRow) = rows
  BY <1>1 DEF Each
<1>4. \A i \in 1 .. n : /\ IsASequence(rows[i]) /\ Len(rows[i]) = 3
                        /\ ReadOutput(rows[i]) = s[i]
  <2> TAKE i \in 1 .. n
  <2>1. s[i] \in WrittenOutput
    BY <1>1
  <2>2. rows[i] = OutputRow(s[i])
    OBVIOUS
  <2> HIDE DEF rows
  <2> QED
    BY <2>1, <2>2, OutputRead
<1>5. IsTableOf(rows, s)
  BY DEF IsTableOf
<1> HIDE DEF rows
<1>6. IsRows(rows) /\ Len(rows) = n /\ IsASequence(Table(rows))
  BY <1>2, <1>4, <1>5, RowsMade
<1>7. ASSUME NEW bytes, NEW p, Holds(bytes, p, Table(rows)), n <= 255
      PROVE  /\ Each(RowsAt(bytes, p, 3), ReadOutput) = s
             /\ After(bytes, p, 3) = p + Len(Table(rows))
  <2>1. IsRows(rows) /\ Len(rows) <= 255 /\ Holds(bytes, p, Table(rows))
    BY <1>6, <1>7
  <2>2. RowsAt(bytes, p, 3) = rows /\ After(bytes, p, 3) = p + Len(Table(rows))
    <3>1. 3 \in Nat
      OBVIOUS
    <3>2. OfWidth(rows, 3)
      BY <1>4, <1>6 DEF OfWidth
    <3>3. IsRows(rows)
      BY <2>1
    <3>4. Len(rows) <= 255
      BY <2>1
    <3>5. Holds(bytes, p, Table(rows))
      BY <2>1
    <3> QED
      BY <3>1, <3>2, <3>3, <3>4, <3>5, RowsRead
  <2>3. Each(rows, ReadOutput) = [i \in 1 .. n |-> ReadOutput(rows[i])]
    <3>1. DOMAIN rows = 1 .. n
      BY <1>5 DEF IsTableOf
    <3> QED
      BY <3>1 DEF Each
  <2>4. [i \in 1 .. n |-> ReadOutput(rows[i])] = [i \in 1 .. n |-> s[i]]
    BY <1>4
  <2>5. [i \in 1 .. n |-> s[i]] = s
    BY <1>1, <1>2, SequenceFacts
  <2> QED
    BY <2>2, <2>3, <2>4, <2>5
<1> QED
  BY <1>3, <1>6, <1>7

LEMMA UniformsRead ==
  ASSUME NEW s \in Seq(WrittenUniform)
  PROVE  LET table == Table(Each(s, UniformRow)) IN
         /\ IsASequence(table)
         /\ \A bytes, p : Holds(bytes, p, table) /\ Len(s) <= 255 =>
              /\ Each(RowsAt(bytes, p, 11), ReadUniform) = s
              /\ After(bytes, p, 11) = p + Len(table)
<1> DEFINE n == Len(s)
           rows == [i \in 1 .. n |-> UniformRow(s[i])]
<1>1. n \in Nat /\ DOMAIN s = 1 .. n /\ \A i \in 1 .. n : s[i] \in WrittenUniform
  OBVIOUS
<1>2. IsASequence(s)
  BY DEF IsASequence
<1>3. Each(s, UniformRow) = rows
  BY <1>1 DEF Each
<1>4. \A i \in 1 .. n : /\ IsASequence(rows[i]) /\ Len(rows[i]) = 11
                        /\ ReadUniform(rows[i]) = s[i]
  <2> TAKE i \in 1 .. n
  <2>1. s[i] \in WrittenUniform
    BY <1>1
  <2>2. rows[i] = UniformRow(s[i])
    OBVIOUS
  <2> HIDE DEF rows
  <2> QED
    BY <2>1, <2>2, UniformRead
<1>5. IsTableOf(rows, s)
  BY DEF IsTableOf
<1> HIDE DEF rows
<1>6. IsRows(rows) /\ Len(rows) = n /\ IsASequence(Table(rows))
  BY <1>2, <1>4, <1>5, RowsMade
<1>7. ASSUME NEW bytes, NEW p, Holds(bytes, p, Table(rows)), n <= 255
      PROVE  /\ Each(RowsAt(bytes, p, 11), ReadUniform) = s
             /\ After(bytes, p, 11) = p + Len(Table(rows))
  <2>1. IsRows(rows) /\ Len(rows) <= 255 /\ Holds(bytes, p, Table(rows))
    BY <1>6, <1>7
  <2>2. RowsAt(bytes, p, 11) = rows /\ After(bytes, p, 11) = p + Len(Table(rows))
    <3>1. 11 \in Nat
      OBVIOUS
    <3>2. OfWidth(rows, 11)
      BY <1>4, <1>6 DEF OfWidth
    <3>3. IsRows(rows)
      BY <2>1
    <3>4. Len(rows) <= 255
      BY <2>1
    <3>5. Holds(bytes, p, Table(rows))
      BY <2>1
    <3> QED
      BY <3>1, <3>2, <3>3, <3>4, <3>5, RowsRead
  <2>3. Each(rows, ReadUniform) = [i \in 1 .. n |-> ReadUniform(rows[i])]
    <3>1. DOMAIN rows = 1 .. n
      BY <1>5 DEF IsTableOf
    <3> QED
      BY <3>1 DEF Each
  <2>4. [i \in 1 .. n |-> ReadUniform(rows[i])] = [i \in 1 .. n |-> s[i]]
    BY <1>4
  <2>5. [i \in 1 .. n |-> s[i]] = s
    BY <1>1, <1>2, SequenceFacts
  <2> QED
    BY <2>2, <2>3, <2>4, <2>5
<1> QED
  BY <1>3, <1>6, <1>7

LEMMA PushConstantsRead ==
  ASSUME NEW s \in Seq(WrittenPush)
  PROVE  LET table == Table(Each(s, PushRow)) IN
         /\ IsASequence(table)
         /\ \A bytes, p : Holds(bytes, p, table) /\ Len(s) <= 255 =>
              /\ Each(RowsAt(bytes, p, 7), ReadPush) = s
              /\ After(bytes, p, 7) = p + Len(table)
<1> DEFINE n == Len(s)
           rows == [i \in 1 .. n |-> PushRow(s[i])]
<1>1. n \in Nat /\ DOMAIN s = 1 .. n /\ \A i \in 1 .. n : s[i] \in WrittenPush
  OBVIOUS
<1>2. IsASequence(s)
  BY DEF IsASequence
<1>3. Each(s, PushRow) = rows
  BY <1>1 DEF Each
<1>4. \A i \in 1 .. n : /\ IsASequence(rows[i]) /\ Len(rows[i]) = 7
                        /\ ReadPush(rows[i]) = s[i]
  <2> TAKE i \in 1 .. n
  <2>1. s[i] \in WrittenPush
    BY <1>1
  <2>2. rows[i] = PushRow(s[i])
    OBVIOUS
  <2> HIDE DEF rows
  <2> QED
    BY <2>1, <2>2, PushRead
<1>5. IsTableOf(rows, s)
  BY DEF IsTableOf
<1> HIDE DEF rows
<1>6. IsRows(rows) /\ Len(rows) = n /\ IsASequence(Table(rows))
  BY <1>2, <1>4, <1>5, RowsMade
<1>7. ASSUME NEW bytes, NEW p, Holds(bytes, p, Table(rows)), n <= 255
      PROVE  /\ Each(RowsAt(bytes, p, 7), ReadPush) = s
             /\ After(bytes, p, 7) = p + Len(Table(rows))
  <2>1. IsRows(rows) /\ Len(rows) <= 255 /\ Holds(bytes, p, Table(rows))
    BY <1>6, <1>7
  <2>2. RowsAt(bytes, p, 7) = rows /\ After(bytes, p, 7) = p + Len(Table(rows))
    <3>1. 7 \in Nat
      OBVIOUS
    <3>2. OfWidth(rows, 7)
      BY <1>4, <1>6 DEF OfWidth
    <3>3. IsRows(rows)
      BY <2>1
    <3>4. Len(rows) <= 255
      BY <2>1
    <3>5. Holds(bytes, p, Table(rows))
      BY <2>1
    <3> QED
      BY <3>1, <3>2, <3>3, <3>4, <3>5, RowsRead
  <2>3. Each(rows, ReadPush) = [i \in 1 .. n |-> ReadPush(rows[i])]
    <3>1. DOMAIN rows = 1 .. n
      BY <1>5 DEF IsTableOf
    <3> QED
      BY <3>1 DEF Each
  <2>4. [i \in 1 .. n |-> ReadPush(rows[i])] = [i \in 1 .. n |-> s[i]]
    BY <1>4
  <2>5. [i \in 1 .. n |-> s[i]] = s
    BY <1>1, <1>2, SequenceFacts
  <2> QED
    BY <2>2, <2>3, <2>4, <2>5
<1> QED
  BY <1>3, <1>6, <1>7

LEMMA SpecConstantsRead ==
  ASSUME NEW s \in Seq(WrittenSpec),
         \A i \in 1 .. Len(s) : FitsWord(s[i].default_value)
  PROVE  LET table == Table(Each(s, SpecRow)) IN
         /\ IsASequence(table)
         /\ \A bytes, p : Holds(bytes, p, table) /\ Len(s) <= 255 =>
              /\ Each(RowsAt(bytes, p, 8), ReadSpec) = s
              /\ After(bytes, p, 8) = p + Len(table)
<1> DEFINE n == Len(s)
           rows == [i \in 1 .. n |-> SpecRow(s[i])]
<1>1. n \in Nat /\ DOMAIN s = 1 .. n /\ \A i \in 1 .. n : s[i] \in WrittenSpec
  OBVIOUS
<1>2. IsASequence(s)
  BY DEF IsASequence
<1>3. Each(s, SpecRow) = rows
  BY <1>1 DEF Each
<1>4. \A i \in 1 .. n : /\ IsASequence(rows[i]) /\ Len(rows[i]) = 8
                        /\ ReadSpec(rows[i]) = s[i]
  <2> TAKE i \in 1 .. n
  <2>1. s[i] \in WrittenSpec /\ FitsWord(s[i].default_value)
    BY <1>1
  <2>2. rows[i] = SpecRow(s[i])
    OBVIOUS
  <2> HIDE DEF rows
  <2> QED
    BY <2>1, <2>2, SpecRead
<1>5. IsTableOf(rows, s)
  BY DEF IsTableOf
<1> HIDE DEF rows
<1>6. IsRows(rows) /\ Len(rows) = n /\ IsASequence(Table(rows))
  BY <1>2, <1>4, <1>5, RowsMade
<1>7. ASSUME NEW bytes, NEW p, Holds(bytes, p, Table(rows)), n <= 255
      PROVE  /\ Each(RowsAt(bytes, p, 8), ReadSpec) = s
             /\ After(bytes, p, 8) = p + Len(Table(rows))
  <2>1. IsRows(rows) /\ Len(rows) <= 255 /\ Holds(bytes, p, Table(rows))
    BY <1>6, <1>7
  <2>2. RowsAt(bytes, p, 8) = rows /\ After(bytes, p, 8) = p + Len(Table(rows))
    <3>1. 8 \in Nat
      OBVIOUS
    <3>2. OfWidth(rows, 8)
      BY <1>4, <1>6 DEF OfWidth
    <3>3. IsRows(rows)
      BY <2>1
    <3>4. Len(rows) <= 255
      BY <2>1
    <3>5. Holds(bytes, p, Table(rows))
      BY <2>1
    <3> QED
      BY <3>1, <3>2, <3>3, <3>4, <3>5, RowsRead
  <2>3. Each(rows, ReadSpec) = [i \in 1 .. n |-> ReadSpec(rows[i])]
    <3>1. DOMAIN rows = 1 .. n
      BY <1>5 DEF IsTableOf
    <3> QED
      BY <3>1 DEF Each
  <2>4. [i \in 1 .. n |-> ReadSpec(rows[i])] = [i \in 1 .. n |-> s[i]]
    BY <1>4
  <2>5. [i \in 1 .. n |-> s[i]] = s
    BY <1>1, <1>2, SequenceFacts
  <2> QED
    BY <2>2, <2>3, <2>4, <2>5
<1> QED
  BY <1>3, <1>6, <1>7

\* After k of the blocks of s: the next one starts at q.
BlocksFound(acc, s, q, k) ==
  /\ acc.start = q
  /\ acc.rows \in Seq(WrittenBlock) /\ Len(acc.rows) = k
  /\ \A i \in 1 .. k : acc.rows[i] = s[i]

LEMMA NoBlocksFound ==
  ASSUME NEW s, NEW q PROVE BlocksFound([start |-> q, rows |-> <<>>], s, q, 0)
  BY DEF BlocksFound

LEMMA OneMoreBlockFound ==
  ASSUME NEW s, NEW acc, NEW q, NEW m \in Nat, m >= 1, BlocksFound(acc, s, q, m - 1),
         s[m] \in WrittenBlock, NEW r
  PROVE  BlocksFound([start |-> r, rows |-> Append(acc.rows, s[m])], s, r, m)
<1> DEFINE more == Append(acc.rows, s[m])
<1>1. /\ acc.rows \in Seq(WrittenBlock) /\ Len(acc.rows) = m - 1
      /\ \A i \in 1 .. m - 1 : acc.rows[i] = s[i]
  BY DEF BlocksFound
<1>2. /\ more \in Seq(WrittenBlock) /\ Len(more) = Len(acc.rows) + 1
      /\ \A i \in 1 .. Len(acc.rows) : more[i] = acc.rows[i]
      /\ more[Len(acc.rows) + 1] = s[m]
  BY <1>1
<1> HIDE DEF more
<1>3. Len(more) = m /\ \A i \in 1 .. m : more[i] = s[i]
  <2>1. \A i \in 1 .. m : i = m \/ i \in 1 .. m - 1
    OBVIOUS
  <2> QED
    BY <1>1, <1>2, <2>1
<1>4. BlocksFound([start |-> r, rows |-> more], s, r, m)
  BY <1>2, <1>3 DEF BlocksFound
<1> QED
  BY <1>4 DEF more

LEMMA BlocksRead ==
  ASSUME NEW s \in Seq(WrittenBlock)
  PROVE  LET table == Table(Each(s, BlockRow)) IN
         /\ IsASequence(table)
         /\ \A bytes, p : Holds(bytes, p, table) /\ Len(s) <= 255 =>
              /\ ReadBlocks(bytes, p).rows = s
              /\ ReadBlocks(bytes, p).start = p + Len(table)
<1> DEFINE n == Len(s)
           rows == [i \in 1 .. n |-> BlockRow(s[i])]
<1>1. n \in Nat /\ DOMAIN s = 1 .. n /\ \A i \in 1 .. n : s[i] \in WrittenBlock
  OBVIOUS
<1>2. IsASequence(s)
  BY DEF IsASequence
<1>3. Each(s, BlockRow) = rows
  BY <1>1 DEF Each
<1>4. \A i \in 1 .. n : rows[i] = BlockRow(s[i]) /\ IsASequence(rows[i])
  <2> TAKE i \in 1 .. n
  <2>1. s[i] \in WrittenBlock
    BY <1>1
  <2>2. rows[i] = BlockRow(s[i])
    OBVIOUS
  <2> HIDE DEF rows
  <2> QED
    BY <2>1, <2>2, BlockRowIs
<1>5. IsTableOf(rows, s)
  BY DEF IsTableOf
<1> HIDE DEF rows
<1>6. IsRows(rows) /\ Len(rows) = n /\ IsASequence(Table(rows))
  BY <1>2, <1>4, <1>5, RowsMade
<1>7. ASSUME NEW bytes, NEW p, Holds(bytes, p, Table(rows)), n <= 255
      PROVE  /\ ReadBlocks(bytes, p).rows = s
             /\ ReadBlocks(bytes, p).start = p + Len(Table(rows))
  <2>1. PICK ends : Ends(ends, rows)
    BY <1>6, EndsExist
  <2>2. /\ p \in Nat /\ bytes[p] = n
        /\ \A k \in 1 .. n : \A j \in 1 .. Len(rows[k]) : bytes[p + (ends[k - 1] + j)] = rows[k][j]
    BY <1>6, <1>7, <2>1, TableHeld
  <2>3. Len(Table(rows)) = 1 + ends[n]
    BY <1>6, <2>1, TableIs
  <2>4. PICK f : FoundBlocks(f, bytes, p, n) /\ ReadBlocks(bytes, p) = f[n]
    <3>1. n \in Nat
      BY <1>1
    <3>2. bytes[p] = n
      BY <2>2
    <3> HIDE DEF n
    <3> QED
      BY <3>1, <3>2, ReadBlocksIs
  <2>5. ends[0] = 0 /\ \A k \in 1 .. n : /\ ends[k - 1] \in Nat /\ ends[k] \in Nat
                                        /\ ends[k] = ends[k - 1] + Len(rows[k])
    BY <1>6, <2>1 DEF Ends
  <2> DEFINE bad == {k \in 0 .. n : ~ BlocksFound(f[k], s, p + 1 + ends[k], k)}
  <2>6. bad = {}
    <3> SUFFICES ASSUME bad # {} PROVE FALSE
      OBVIOUS
    <3>1. PICK m \in bad : \A y \in bad : m <= y
      <4>1. bad \subseteq Nat
        OBVIOUS
      <4> HIDE DEF bad
      <4> QED
        BY <4>1, LeastElement
    <3>2. m \in 0 .. n /\ ~ BlocksFound(f[m], s, p + 1 + ends[m], m)
      OBVIOUS
    <3>3. m # 0
      <4>1. BlocksFound([start |-> p + 1, rows |-> <<>>], s, p + 1, 0)
        BY NoBlocksFound
      <4>2. p + 1 + ends[0] = p + 1 /\ f[0] = [start |-> p + 1, rows |-> <<>>]
        BY <2>2, <2>4, <2>5 DEF FoundBlocks
      <4> QED
        BY <3>2, <4>1, <4>2
    <3>4. m \in 1 .. n /\ m - 1 \in 0 .. n /\ ~ m <= m - 1
      BY <1>1, <3>2, <3>3
    <3>5. BlocksFound(f[m - 1], s, p + 1 + ends[m - 1], m - 1)
      BY <3>1, <3>4
    <3> HIDE DEF bad
    <3> DEFINE q == p + 1 + ends[m - 1]
    <3>6. q \in Nat /\ q + Len(rows[m]) = p + 1 + ends[m]
      BY <2>2, <2>5, <3>4
    <3>7. ASSUME NEW j \in 1 .. Len(rows[m]) PROVE bytes[q + (j - 1)] = rows[m][j]
      <4>1. ends[m - 1] \in Nat /\ p \in Nat
        BY <2>2, <2>5, <3>4
      <4>2. Len(rows[m]) \in Nat
        BY <1>4, <3>4, SequenceFacts
      <4>3. q + (j - 1) = p + (ends[m - 1] + j)
        BY <4>1, <4>2
      <4> QED
        BY <2>2, <3>4, <4>3
    <3> HIDE DEF q
    <3>8. rows[m] = BlockRow(s[m]) /\ s[m] \in WrittenBlock
      BY <1>1, <1>4, <3>4
    <3>9. f[m - 1].start = q
      BY <3>5 DEF BlocksFound, q
    <3>10. ReadBlock(f[m - 1], bytes)
             = [start |-> q + Len(BlockRow(s[m])), rows |-> Append(f[m - 1].rows, s[m])]
      <4>1. RowHeld(bytes, q, BlockRow(s[m]))
        BY <3>7, <3>8 DEF RowHeld
      <4>2. s[m] \in WrittenBlock
        BY <3>8
      <4>3. q \in Nat
        BY <3>6
      <4> QED
        BY <3>9, <4>1, <4>2, <4>3, BlockRead
    <3>11. f[m] = [start |-> q + Len(rows[m]), rows |-> Append(f[m - 1].rows, s[m])]
      BY <2>4, <3>4, <3>8, <3>10 DEF FoundBlocks
    <3>12. BlocksFound(f[m], s, q + Len(rows[m]), m)
      <4>1. m \in Nat /\ m >= 1
        BY <1>1, <3>4
      <4>2. BlocksFound(f[m - 1], s, q, m - 1)
        BY <3>5 DEF q
      <4>3. s[m] \in WrittenBlock
        BY <3>8
      <4>4. BlocksFound([start |-> q + Len(rows[m]), rows |-> Append(f[m - 1].rows, s[m])],
                        s, q + Len(rows[m]), m)
        BY <4>1, <4>2, <4>3, OneMoreBlockFound
      <4> QED
        BY <3>11, <4>4
    <3> QED
      BY <3>2, <3>6, <3>12
  <2>7. n \in 0 .. n
    BY <1>1
  <2>8. BlocksFound(f[n], s, p + 1 + ends[n], n)
    BY <2>6, <2>7
  <2>9. f[n].rows = s
    BY <1>1, <1>2, <2>8, SequenceFacts DEF BlocksFound
  <2>10. p + 1 + ends[n] = p + (1 + ends[n])
    <3>1. ends[n] \in Nat
      BY <1>1, <2>5
    <3> QED
      BY <2>2, <3>1
  <2> QED
    BY <2>3, <2>4, <2>8, <2>9, <2>10 DEF BlocksFound
<1> QED
  BY <1>3, <1>6, <1>7

-----------------------------------------------------------------------------
(* What the visit leaves in the tables can be written.                     *)

\* The member numbers sort() gives are those of the uniforms.
MembersNumbered ==
  status = "done" =>
    \A k \in DOMAIN blocks : blocks[k].members \subseteq {Uint8(i - 1) : i \in DOMAIN uniforms}

WrittenInv ==
  /\ attributes \in Seq(WrittenAttribute) /\ outputs \in Seq(WrittenOutput)
  /\ uniforms \in Seq(WrittenUniform)
  /\ push_constants \in Seq(WrittenPush) /\ spec_constants \in Seq(WrittenSpec)

LEMMA ParsedCounted ==
  ASSUME NEW d \in Decls, NEW taken, ParseVariableOK(d, taken)
  PROVE  /\ Counted(ParsedType(d))
         /\ ParsedType(d).is_array = (d.size # NoSize)
         /\ IsValueType(d.prim) => ParsedType(d).extra = 0
<1>1. IsDeclaration(d)
  BY DeclsAssumption
<1>2. (d.size = NoSize \/ d.size \in 1 .. 255) /\ TypeArgumentOK(d.prim, d.targ)
  BY DEF ParseVariableOK
<1>3. Counted(ParsedType(d)) /\ ParsedType(d).is_array = (d.size # NoSize)
  <2>1. /\ ParsedType(d).is_array = (d.size # NoSize)
        /\ d.size = NoSize => ParsedType(d).count = 1
        /\ d.size # NoSize => ParsedType(d).count = d.size
    BY DEF ParsedType
  <2>2. ParsedType(d).count # 0
    BY <1>2, <2>1
  <2> QED
    BY <2>1, <2>2 DEF Counted
<1>4. ASSUME IsValueType(d.prim) PROVE ParsedType(d).extra = 0
  <2>1. d.prim \in 1 .. 16 \/ d.prim \in 150 .. 152
    BY <1>4 DEF IsValueType, ValueTypes, ScalarOrVector, Matrices, Bool, Mat2, Mat4
  <2>2. ~ IsImageType(d.prim) /\ d.prim # SubpassInput
    BY <2>1 DEF IsImageType, Image1D, Image2DArray, SubpassInput
  <2>3. d.targ.kind \in {"none", "format", "index"}
    BY <1>1 DEF IsDeclaration
  <2>4. d.targ.kind = "none"
    BY <1>2, <2>2, <2>3 DEF TypeArgumentOK
  <2> QED
    BY <2>4 DEF ParsedType
<1> QED
  BY <1>3, <1>4

LEMMA LastEntry ==
  ASSUME NEW T, NEW S, NEW s \in Seq(S), NEW x, Append(s, x) \in Seq(T) PROVE x \in T
<1> DEFINE t == Append(s, x)
<1>1. Len(s) \in Nat /\ DOMAIN t = 1 .. Len(s) + 1 /\ t[Len(s) + 1] = x
  BY Appended
<1>2. t \in Seq(T)
  OBVIOUS
<1> HIDE DEF t
<1>3. \A i \in DOMAIN t : t[i] \in T
  BY <1>2
<1> QED
  BY <1>1, <1>3

\* Entries of a kind stay of that kind when sort() reorders them.
LEMMA AttributeWritten ==
  ASSUME TypeOK', WrittenInv, NEW d \in Decls, NEW index \in Literals,
         VertexAttributeStatement(d, index)
  PROVE  attributes' \in Seq(WrittenAttribute)
<1> DEFINE new == NewAttribute(d, index)
<1>1. /\ attributes' = Append(attributes, new) /\ AttributeOK(d, index)
      /\ attributes' \in Seq(Attribute) /\ attributes \in Seq(WrittenAttribute)
  BY DEF VertexAttributeStatement, TypeOK, WrittenInv
<1>2. new.type = ParsedType(d) /\ ParsedType(d).type = d.prim
  BY DEF NewAttribute, ParsedType
<1>3. ParseVariableOK(d, Declared) /\ IsValueType(d.prim)
  BY <1>1, <1>2 DEF AttributeOK
<1>4. Counted(ParsedType(d)) /\ ParsedType(d).extra = 0
  BY <1>3, ParsedCounted
<1> HIDE DEF new
<1>5. new \in Attribute
  BY <1>1, LastEntry
<1>6. new \in WrittenAttribute
  BY <1>2, <1>4, <1>5 DEF WrittenAttribute
<1> QED
  BY <1>1, <1>6

LEMMA OutputWritten ==
  ASSUME TypeOK', WrittenInv, NEW d \in Decls, NEW index \in Literals,
         FragmentOutputStatement(d, index)
  PROVE  outputs' \in Seq(WrittenOutput)
<1> DEFINE new == [name |-> d.name, type |-> ParsedType(d), location |-> Uint8(index)]
<1>1. /\ outputs' = Append(outputs, new) /\ OutputOK(d, index)
      /\ outputs' \in Seq(Output) /\ outputs \in Seq(WrittenOutput)
  BY DEF FragmentOutputStatement, TypeOK, WrittenInv
<1>2. new.type = ParsedType(d) /\ ParsedType(d).type = d.prim
  BY DEF ParsedType
<1>3. ParseVariableOK(d, Declared) /\ d.prim \in ScalarOrVector /\ ~ ParsedType(d).is_array
  BY <1>1, <1>2 DEF OutputOK
<1>4. IsValueType(d.prim)
  BY <1>3 DEF IsValueType, ValueTypes
<1>5. Counted(ParsedType(d)) /\ ParsedType(d).extra = 0
  BY <1>3, <1>4, ParsedCounted
<1> HIDE DEF new
<1>6. new \in Output
  BY <1>1, LastEntry
<1>7. new \in WrittenOutput
  BY <1>2, <1>3, <1>5, <1>6 DEF WrittenOutput
<1> QED
  BY <1>1, <1>7

LEMMA UniformWritten ==
  ASSUME TypeOK', WrittenInv, NEW d \in Decls,
         \/ UniformBlockMember(d)
         \/ \E set, binding \in Literals : HandleUniformStatement(d, set, binding)
  PROVE  uniforms' \in Seq(WrittenUniform)
<1>1. PICK new : /\ uniforms' = Append(uniforms, new) /\ new.type = ParsedType(d)
                 /\ ParseVariableOK(d, Declared)
  BY DEF UniformBlockMember, HandleUniformStatement, MemberOK, HandleOK, NewUniform
<1>2. uniforms' \in Seq(Uniform) /\ uniforms \in Seq(WrittenUniform)
  BY DEF TypeOK, WrittenInv
<1>3. new \in Uniform
  BY <1>1, <1>2, LastEntry
<1>4. Counted(ParsedType(d))
  BY <1>1, ParsedCounted
<1>5. new \in WrittenUniform
  BY <1>1, <1>3, <1>4 DEF WrittenUniform
<1> QED
  BY <1>1, <1>2, <1>5

LEMMA PushWritten ==
  ASSUME TypeOK', WrittenInv, NEW d \in Decls, PushBlockMember(d)
  PROVE  push_constants' \in Seq(WrittenPush)
<1>1. PICK new : /\ push_constants' = Append(push_constants, new) /\ new.type = ParsedType(d)
                 /\ ParseVariableOK(d, Declared) /\ IsValueType(d.prim)
  BY DEF PushBlockMember, MemberOK
<1>2. push_constants' \in Seq(PushConst) /\ push_constants \in Seq(WrittenPush)
  BY DEF TypeOK, WrittenInv
<1>3. new \in PushConst
  BY <1>1, <1>2, LastEntry
<1>4. Counted(ParsedType(d)) /\ ParsedType(d).extra = 0
  BY <1>1, ParsedCounted
<1>5. new \in WrittenPush
  BY <1>1, <1>3, <1>4 DEF WrittenPush
<1> QED
  BY <1>1, <1>2, <1>5

LEMMA ScalarSize ==
  ASSUME NEW d \in Decls, ParseVariableOK(d, Declared), d.size = NoSize
  PROVE  ScalarLayoutSize(ParsedType(d)) \in uint8
<1>1. ParsedType(d).type = d.prim /\ ~ ParsedType(d).is_array
  BY DEF ParsedType
<1> DEFINE bytes == GetValueTypeSize(d.prim)
<1>2. bytes \in uint8
  BY ParsedTypeType, ValueTypeSizeType
<1>3. ScalarLayoutSize(ParsedType(d)) = Uint16(bytes * 1)
  BY <1>1 DEF ScalarLayoutSize
<1> HIDE DEF bytes
<1>4. bytes \in Nat /\ bytes < 256
  BY <1>2 DEF uint8
<1>5. bytes * 1 = bytes /\ Uint16(bytes) = bytes
  BY <1>4 DEF Uint16
<1> QED
  BY <1>2, <1>3, <1>5

LEMMA SpecWritten ==
  ASSUME TypeOK', WrittenInv, NEW d \in Decls, NEW index \in Literals, NEW init \in Inits,
         SpecConstantStatement(d, index, init)
  PROVE  spec_constants' \in Seq(WrittenSpec)
<1> DEFINE size == ScalarLayoutSize(ParsedType(d))
<1>1. PICK new : /\ spec_constants' = Append(spec_constants, new)
                 /\ new.type = ParsedType(d) /\ new.size = size
                 /\ ParseVariableOK(d, Declared) /\ ParsedType(d).type = d.prim
                 /\ IsValueType(ParsedType(d).type) /\ d.size = NoSize
  BY DEF SpecConstantStatement, SpecConstantOK, ConstantOK, ParsedType
<1>2. spec_constants' \in Seq(SpecConst) /\ spec_constants \in Seq(WrittenSpec)
  BY DEF TypeOK, WrittenInv
<1>3. new \in SpecConst
  BY <1>1, <1>2, LastEntry
<1>4. Counted(ParsedType(d)) /\ ParsedType(d).extra = 0 /\ ~ ParsedType(d).is_array
  BY <1>1, ParsedCounted
<1>5. size \in uint8
  BY <1>1, ScalarSize
<1> HIDE DEF size
<1>6. new \in WrittenSpec
  BY <1>1, <1>3, <1>4, <1>5 DEF WrittenSpec
<1> QED
  BY <1>1, <1>2, <1>6

LEMMA FinishWritten ==
  ASSUME TypeOK, TypeOK', WrittenInv, Finish PROVE WrittenInv' /\ MembersNumbered'
<1>1. /\ attributes' \in SortedVersions(attributes, ByLocation)
      /\ outputs' \in SortedVersions(outputs, ByLocation)
      /\ push_constants' \in SortedVersions(push_constants, ByOffset)
      /\ spec_constants' = spec_constants
  BY DEF Finish, Sort
<1>2. attributes' \in Seq(WrittenAttribute) /\ outputs' \in Seq(WrittenOutput)
      /\ push_constants' \in Seq(WrittenPush) /\ spec_constants' \in Seq(WrittenSpec)
  BY <1>1, ReorderingType DEF SortedVersions, WrittenInv
<1>3. PICK p, q : SortedUniforms(p, q)
  BY FinishSorts
<1>4. uniforms' \in Seq(WrittenUniform)
  <2>1. uniforms' \in Seq(Uniform) /\ uniforms \in Seq(WrittenUniform)
    BY DEF TypeOK, WrittenInv
  <2>2. ASSUME NEW i \in DOMAIN uniforms' PROVE uniforms'[i] \in WrittenUniform
    <3>1. p[i] \in DOMAIN uniforms /\ uniforms'[i].type = uniforms[p[i]].type
      BY <1>3 DEF SortedUniforms, Permutes, SameUniform
    <3>2. uniforms[p[i]] \in WrittenUniform /\ uniforms'[i] \in Uniform
      BY <2>1, <3>1
    <3> QED
      BY <3>1, <3>2 DEF WrittenUniform
  <2> QED
    BY <2>1, <2>2
<1>5. MembersNumbered'
  <2>1. Renumbered
    BY FinishSorts
  <2> QED
    BY <2>1 DEF MembersNumbered, Renumbered
<1> QED
  BY <1>2, <1>4, <1>5 DEF WrittenInv

\* Every other step adds one entry to one table, or none.
LEMMA WrittenInductive == Spec => [](WrittenInv /\ MembersNumbered)
<1>1. Init => WrittenInv /\ MembersNumbered
  BY DEF Init, WrittenInv, MembersNumbered
<1>2. TypeOK /\ TypeOK' /\ WrittenInv /\ MembersNumbered /\ [Next]_vars
        => WrittenInv' /\ MembersNumbered'
  <2> SUFFICES ASSUME TypeOK, TypeOK', WrittenInv, MembersNumbered, [Next]_vars
               PROVE  WrittenInv' /\ MembersNumbered'
    OBVIOUS
  <2>1. CASE Finish
    BY <2>1, FinishWritten
  <2> SUFFICES ASSUME ~ Finish PROVE WrittenInv' /\ MembersNumbered'
    BY <2>1
  <2>2. MembersNumbered'
    BY DoneSteps DEF MembersNumbered
  <2>3. CASE Quiet
    BY <2>2, <2>3 DEF Quiet, WrittenInv
  <2>4. CASE \E d \in Decls, index \in Literals : VertexAttributeStatement(d, index)
    BY <2>2, <2>4, AttributeWritten DEF VertexAttributeStatement, WrittenInv
  <2>5. CASE \E d \in Decls, index \in Literals : FragmentOutputStatement(d, index)
    BY <2>2, <2>5, OutputWritten DEF FragmentOutputStatement, WrittenInv
  <2>6. CASE \E d \in Decls, set, binding \in Literals : HandleUniformStatement(d, set, binding)
    BY <2>2, <2>6, UniformWritten DEF HandleUniformStatement, WrittenInv
  <2>7. CASE \E d \in Decls : UniformBlockMember(d)
    BY <2>2, <2>7, UniformWritten DEF UniformBlockMember, WrittenInv
  <2>8. CASE \E d \in Decls : PushBlockMember(d)
    BY <2>2, <2>8, PushWritten DEF PushBlockMember, WrittenInv
  <2>9. CASE \E d \in Decls, init \in Inits, index \in Literals :
               SpecConstantStatement(d, index, init)
    BY <2>2, <2>9, SpecWritten DEF SpecConstantStatement, WrittenInv
  <2>10. CASE \/ \E d \in Decls, flat \in BOOLEAN : LocalStatement(d, flat)
              \/ \E set, binding \in Literals : OpenUniformBlock(set, binding)
              \/ CloseUniformBlock \/ OpenPushBlock \/ ClosePushBlock \/ FinishWithoutStage
              \/ \E d \in Decls, init \in Inits : GlobalConstantStatement(d, init)
    BY <2>2, <2>10 DEF LocalStatement, OpenUniformBlock, CloseUniformBlock, OpenPushBlock,
       ClosePushBlock, FinishWithoutStage, GlobalConstantStatement, reflection, WrittenInv
  <2> QED
    BY <2>3, <2>4, <2>5, <2>6, <2>7, <2>8, <2>9, <2>10, StepKinds
<1> QED
  BY <1>1, <1>2, TypeCorrect, PTL DEF Spec

-----------------------------------------------------------------------------
(* The hypotheses: a literal is one word, and no table is longer than the  *)
(* byte that counts its rows, which nothing in the code makes sure of.     *)

LiteralsFit == \A init \in Inits : init.kind = "literal" => FitsWord(init.value)

TablesFit ==
  /\ Len(attributes) <= 255 /\ Len(outputs) <= 255 /\ Len(uniforms) <= 255
  /\ Len(blocks) <= 255 /\ Len(push_constants) <= 255 /\ Len(spec_constants) <= 255

DefaultsFit == \A i \in DOMAIN spec_constants : FitsWord(spec_constants[i].default_value)

LEMMA EvaluatedFits ==
  ASSUME LiteralsFit, NEW init \in Inits, NEW infer PROVE FitsWord(Evaluate(init, infer).value)
<1>1. FitsWord(0)
  BY DEF FitsWord, uint16
<1>2. CASE init.kind = "literal"
  <2>1. Evaluate(init, infer).value = init.value
    BY <1>2 DEF Evaluate, AtomExpr
  <2> QED
    BY <1>2, <2>1 DEF LiteralsFit
<1>3. CASE init.kind # "literal"
  <2>1. Evaluate(init, infer).value = 0
    BY <1>3 DEF Evaluate, AtomExpr, ComposedExpr
  <2> QED
    BY <1>1, <2>1
<1> QED
  BY <1>2, <1>3

LEMMA DefaultsInductive == LiteralsFit => (Spec => []DefaultsFit)
<1> SUFFICES ASSUME LiteralsFit PROVE Spec => []DefaultsFit
  OBVIOUS
<1>1. Init => DefaultsFit
  BY DEF Init, DefaultsFit
<1>2. TypeOK /\ DefaultsFit /\ [Next]_vars => DefaultsFit'
  <2> SUFFICES ASSUME TypeOK, DefaultsFit, [Next]_vars PROVE DefaultsFit'
    OBVIOUS
  <2>1. ASSUME NEW d \in Decls, NEW index \in Literals, NEW init \in Inits,
               SpecConstantStatement(d, index, init)
        PROVE  DefaultsFit'
    <3> DEFINE n == Len(spec_constants)
    <3>1. PICK new : /\ spec_constants' = Append(spec_constants, new)
                     /\ new.default_value = Evaluate(init, ParsedType(d)).value
      BY <2>1 DEF SpecConstantStatement
    <3>2. FitsWord(new.default_value)
      BY <3>1, EvaluatedFits
    <3>3. spec_constants \in Seq(SpecConst)
      BY DEF TypeOK
    <3>4. /\ n \in Nat /\ DOMAIN spec_constants = 1 .. n /\ DOMAIN spec_constants' = 1 .. n + 1
          /\ \A i \in 1 .. n : spec_constants'[i] = spec_constants[i]
          /\ spec_constants'[n + 1] = new
      BY <3>1, <3>3, Appended
    <3> HIDE DEF n
    <3> QED
      BY <3>2, <3>4 DEF DefaultsFit
  <2>2. CASE UNCHANGED spec_constants
    BY <2>2 DEF DefaultsFit
  <2>3. CASE \/ Quiet
             \/ \E d \in Decls, index \in Literals :
                  VertexAttributeStatement(d, index) \/ FragmentOutputStatement(d, index)
             \/ \E d \in Decls, flat \in BOOLEAN : LocalStatement(d, flat)
    BY <2>2, <2>3 DEF Quiet, VertexAttributeStatement, FragmentOutputStatement, LocalStatement,
       reflection
  <2>4. CASE \/ \E d \in Decls, set, binding \in Literals : HandleUniformStatement(d, set, binding)
             \/ \E set, binding \in Literals : OpenUniformBlock(set, binding)
             \/ \E d \in Decls : UniformBlockMember(d) \/ PushBlockMember(d)
             \/ CloseUniformBlock \/ OpenPushBlock \/ ClosePushBlock
    BY <2>2, <2>4 DEF HandleUniformStatement, OpenUniformBlock, UniformBlockMember,
       PushBlockMember, CloseUniformBlock, OpenPushBlock, ClosePushBlock, reflection
  <2>5. CASE \/ \E d \in Decls, init \in Inits : GlobalConstantStatement(d, init)
             \/ Finish \/ FinishWithoutStage
    BY <2>2, <2>5 DEF GlobalConstantStatement, Finish, FinishWithoutStage, reflection
  <2> QED
    BY <2>1, <2>3, <2>4, <2>5, StepKinds
<1> QED
  BY <1>1, <1>2, TypeCorrect, PTL DEF Spec

LEMMA FewMembers ==
  ASSUME TypeOK, MembersNumbered, TablesFit, status = "done"
  PROVE  blocks \in Seq(WrittenBlock)
<1> DEFINE n == Len(uniforms)
<1>1. n \in Nat /\ DOMAIN uniforms = 1 .. n /\ n <= 255
  BY DEF TypeOK, TablesFit
<1>2. blocks \in Seq(Block)
  BY DEF TypeOK
<1> HIDE DEF n
<1>3. ASSUME NEW i \in 1 .. n PROVE Uint8(i - 1) \in 0 .. n - 1
  BY <1>1 DEF Uint8
<1>4. IsFiniteSet(0 .. n - 1) /\ Cardinality(0 .. n - 1) <= n
  <2>1. 0 \in Int /\ n - 1 \in Int
    BY <1>1
  <2>2. /\ IsFiniteSet(0 .. n - 1)
        /\ Cardinality(0 .. n - 1) = IF 0 > n - 1 THEN 0 ELSE (n - 1) - 0 + 1
    BY <2>1, FS_Interval
  <2> QED
    BY <1>1, <2>2
<1>5. ASSUME NEW k \in DOMAIN blocks PROVE blocks[k] \in WrittenBlock
  <2>1. blocks[k].members \subseteq 0 .. n - 1
    BY <1>1, <1>3 DEF MembersNumbered
  <2>2. Cardinality(blocks[k].members) <= Cardinality(0 .. n - 1)
    BY <1>4, <2>1, FS_Subset
  <2>3. Cardinality(blocks[k].members) \in Nat /\ Cardinality(0 .. n - 1) \in Nat
    BY <1>4, <2>1, FS_Subset, FS_CardinalityType
  <2>4. Cardinality(blocks[k].members) <= 255
    BY <1>1, <1>4, <2>2, <2>3
  <2> QED
    BY <1>2, <2>4 DEF WrittenBlock
<1> QED
  BY <1>2, <1>5

LEMMA StagesRead ==
  ASSUME stages \subseteq Stages
  PROVE  {s \in Stages : StageBits \in {17, IF s = "Vertex" THEN 1 ELSE 16}} = stages
<1>1. StageBits \in {17, 1} <=> "Vertex" \in stages
  BY DEF StageBits
<1>2. StageBits \in {17, 16} <=> "Fragment" \in stages
  BY DEF StageBits
<1>3. Stages = {"Vertex", "Fragment"}
  BY DEF Stages
<1> HIDE DEF StageBits
<1> QED
  BY <1>1, <1>2, <1>3

LEMMA TablesReadBack ==
  ASSUME stages \subseteq Stages, WrittenInv, TablesFit, DefaultsFit,
         blocks \in Seq(WrittenBlock)
  PROVE  ReadBinary(WriteBinary) = <<stages, attributes, outputs, uniforms, blocks,
                                     push_constants, spec_constants>>
<1> DEFINE bytes == WriteBinary
           t1 == Table(Each(attributes, AttributeRow))
           t2 == Table(Each(outputs, OutputRow))
           t3 == Table(Each(uniforms, UniformRow))
           t4 == Table(Each(blocks, BlockRow))
           t5 == Table(Each(push_constants, PushRow))
           t6 == Table(Each(spec_constants, SpecRow))
           p2 == 3 + Len(t1)
           p3 == p2 + Len(t2)
           p4 == p3 + Len(t3)
           p5 == p4 + Len(t4)
           p6 == p5 + Len(t5)
<1>1. /\ IsASequence(t1)
      /\ Holds(bytes, 3, t1) => /\ Each(RowsAt(bytes, 3, 5), ReadAttribute) = attributes
                                /\ After(bytes, 3, 5) = p2
  BY AttributesRead DEF WrittenInv, TablesFit
<1>2. /\ IsASequence(t2)
      /\ Holds(bytes, p2, t2) => /\ Each(RowsAt(bytes, p2, 3), ReadOutput) = outputs
                                 /\ After(bytes, p2, 3) = p3
  BY OutputsRead DEF WrittenInv, TablesFit
<1>3. /\ IsASequence(t3)
      /\ Holds(bytes, p3, t3) => /\ Each(RowsAt(bytes, p3, 11), ReadUniform) = uniforms
                                 /\ After(bytes, p3, 11) = p4
  BY UniformsRead DEF WrittenInv, TablesFit
<1>4. /\ IsASequence(t4)
      /\ Holds(bytes, p4, t4) => /\ ReadBlocks(bytes, p4).rows = blocks
                                 /\ ReadBlocks(bytes, p4).start = p5
  BY BlocksRead DEF TablesFit
<1>5. /\ IsASequence(t5)
      /\ Holds(bytes, p5, t5) => /\ Each(RowsAt(bytes, p5, 7), ReadPush) = push_constants
                                 /\ After(bytes, p5, 7) = p6
  BY PushConstantsRead DEF WrittenInv, TablesFit
<1>6. /\ IsASequence(t6)
      /\ Holds(bytes, p6, t6) => Each(RowsAt(bytes, p6, 8), ReadSpec) = spec_constants
  <2>1. spec_constants \in Seq(WrittenSpec) /\ Len(spec_constants) <= 255
    BY DEF WrittenInv, TablesFit
  <2>2. \A i \in 1 .. Len(spec_constants) : FitsWord(spec_constants[i].default_value)
    BY <2>1 DEF DefaultsFit
  <2> QED
    BY <2>1, <2>2, SpecConstantsRead
<1>7. bytes = <<0, StageBits>> \o t1 \o t2 \o t3 \o t4 \o t5 \o t6
  BY DEF WriteBinary
<1> HIDE DEF t1, t2, t3, t4, t5, t6
<1>8. /\ bytes[2] = StageBits
      /\ Holds(bytes, 3, t1) /\ Holds(bytes, p2, t2) /\ Holds(bytes, p3, t3)
      /\ Holds(bytes, p4, t4) /\ Holds(bytes, p5, t5) /\ Holds(bytes, p6, t6)
  <2> DEFINE b == StageBits
  <2> HIDE DEF b
  <2>1. IsASequence(t1) /\ IsASequence(t2) /\ IsASequence(t3)
        /\ IsASequence(t4) /\ IsASequence(t5) /\ IsASequence(t6)
    BY <1>1, <1>2, <1>3, <1>4, <1>5, <1>6
  <2> QED
    BY <1>7, <2>1, SixTables
<1> HIDE DEF bytes, p2, p3, p4, p5, p6
<1>9. {s \in Stages : bytes[2] \in {17, IF s = "Vertex" THEN 1 ELSE 16}} = stages
  BY <1>8, StagesRead
<1> DEFINE found == ReadBlocks(bytes, p4)
<1>10. ReadBinary(bytes) =
         <<{s \in Stages : bytes[2] \in {17, IF s = "Vertex" THEN 1 ELSE 16}},
           Each(RowsAt(bytes, 3, 5), ReadAttribute), Each(RowsAt(bytes, p2, 3), ReadOutput),
           Each(RowsAt(bytes, p3, 11), ReadUniform), found.rows,
           Each(RowsAt(bytes, p5, 7), ReadPush), Each(RowsAt(bytes, p6, 8), ReadSpec)>>
  BY <1>1, <1>2, <1>3, <1>4, <1>5, <1>8 DEF ReadBinary
<1>11. ReadBinary(bytes) = <<stages, attributes, outputs, uniforms, blocks, push_constants,
                             spec_constants>>
  BY <1>1, <1>2, <1>3, <1>4, <1>5, <1>6, <1>8, <1>9, <1>10
<1> QED
  BY <1>11 DEF bytes

\* Whatever the shader declares, a reader that knows only the bytes finds in
\* the binary file every table of the reflection info as the compiler left it
\* (WriteBinary), as long as each table has at most 255 rows and an integer
\* literal is at most 32 bits wide: rows of several widths, blocks of any
\* number of members and arrays of one element are never taken for another.
THEOREM BinaryIsReadable == LiteralsFit => (Spec => [](TablesFit => BinaryReadsBack))
<1> SUFFICES ASSUME LiteralsFit PROVE Spec => [](TablesFit => BinaryReadsBack)
  OBVIOUS
<1>1. TypeOK /\ WrittenInv /\ MembersNumbered /\ DefaultsFit => (TablesFit => BinaryReadsBack)
  <2> SUFFICES ASSUME TypeOK, WrittenInv, MembersNumbered, DefaultsFit, TablesFit,
                      status = "done"
               PROVE  ReadBinary(WriteBinary) = <<stages, attributes, outputs, uniforms, blocks,
                                                  push_constants, spec_constants>>
    BY DEF BinaryReadsBack
  <2>1. blocks \in Seq(WrittenBlock)
    BY FewMembers
  <2>2. stages \subseteq Stages
    BY DEF TypeOK
  <2> QED
    BY <2>1, <2>2, TablesReadBack
<1> QED
  BY <1>1, TypeCorrect, WrittenInductive, DefaultsInductive, PTL
=============================================================================
