--------------------------- MODULE StateSequences ---------------------------
(***************************************************************************)
(* Facts about sequences whose elements have no set of their own: what an  *)
(* append, a pop and a change of the last element leave as it was; the     *)
(* least element of a set of numbers; and functions defined step by step.  *)
(***************************************************************************)
EXTENDS Integers, Sequences, TLAPS, SequenceTheorems, WellFoundedInduction

IsASequence(s) == \E S : s \in Seq(S)

LEMMA AppendToSequence ==
  ASSUME NEW s, IsASequence(s), NEW x
  PROVE  /\ IsASequence(Append(s, x))
         /\ Len(s) \in Nat
         /\ Len(Append(s, x)) = Len(s) + 1
         /\ \A i \in 1 .. Len(s) : Append(s, x)[i] = s[i]
         /\ Append(s, x)[Len(s) + 1] = x
         /\ DOMAIN s = 1 .. Len(s)
<1>1. PICK S : s \in Seq(S)
  BY DEF IsASequence
<1>2. s \in Seq(S \cup {x}) /\ x \in S \cup {x}
  BY <1>1, SeqMonotonic
<1>3. Append(s, x) \in Seq(S \cup {x})
  BY <1>2, AppendProperties
<1> QED
  BY <1>2, <1>3, AppendProperties, LenProperties DEF IsASequence

LEMMA PopSequence ==
  ASSUME NEW s, IsASequence(s), Len(s) >= 1
  PROVE  LET p == SubSeq(s, 1, Len(s) - 1) IN
         /\ IsASequence(p)
         /\ Len(p) = Len(s) - 1
         /\ \A i \in 1 .. Len(s) - 1 : p[i] = s[i]
<1>1. PICK S : s \in Seq(S)
  BY DEF IsASequence
<1>2. Len(s) \in Nat /\ \A i \in 1 .. Len(s) : s[i] \in S
  BY <1>1, LenProperties, ElementOfSeq
<1>3. /\ SubSeq(s, 1, Len(s) - 1) \in Seq(S)
      /\ Len(SubSeq(s, 1, Len(s) - 1)) = IF 1 <= Len(s) - 1 THEN (Len(s) - 1) - 1 + 1 ELSE 0
      /\ \A i \in 1 .. (Len(s) - 1) - 1 + 1 : SubSeq(s, 1, Len(s) - 1)[i] = s[1 + i - 1]
  <2>1. 1 \in Int /\ Len(s) - 1 \in Int /\ \A i \in 1 .. Len(s) - 1 : s[i] \in S
    BY <1>2
  <2> QED
    BY <2>1, SubSeqProperties
<1>0. \A n \in Nat : n >= 1 =>
        /\ (IF 1 <= n - 1 THEN (n - 1) - 1 + 1 ELSE 0) = n - 1
        /\ \A i \in 1 .. n - 1 : i \in 1 .. (n - 1) - 1 + 1 /\ 1 + i - 1 = i
  OBVIOUS
<1>4. Len(SubSeq(s, 1, Len(s) - 1)) = Len(s) - 1
  BY <1>0, <1>2, <1>3
<1>5. \A i \in 1 .. Len(s) - 1 : i \in 1 .. (Len(s) - 1) - 1 + 1 /\ 1 + i - 1 = i
  BY <1>0, <1>2
<1>6. \A i \in 1 .. Len(s) - 1 : SubSeq(s, 1, Len(s) - 1)[i] = s[i]
  BY <1>3, <1>5
<1> QED
  BY <1>3, <1>4, <1>6 DEF IsASequence

LEMMA ExceptSequence ==
  ASSUME NEW s, IsASequence(s), Len(s) >= 1, NEW x
  PROVE  /\ IsASequence([s EXCEPT ![Len(s)] = x])
         /\ Len([s EXCEPT ![Len(s)] = x]) = Len(s)
         /\ [s EXCEPT ![Len(s)] = x][Len(s)] = x
         /\ \A i \in 1 .. Len(s) - 1 : [s EXCEPT ![Len(s)] = x][i] = s[i]
<1>1. PICK S : s \in Seq(S)
  BY DEF IsASequence
<1>2. s \in Seq(S \cup {x}) /\ x \in S \cup {x}
  BY <1>1, SeqMonotonic
<1>3. Len(s) \in 1 .. Len(s) /\ Len(s) \in Nat /\ DOMAIN s = 1 .. Len(s)
  BY <1>1, LenProperties
<1>4. /\ [s EXCEPT ![Len(s)] = x] \in Seq(S \cup {x})
      /\ Len([s EXCEPT ![Len(s)] = x]) = Len(s)
  BY <1>2, <1>3, ExceptSeq
<1>0. \A n \in Nat : \A i \in 1 .. n - 1 : i \in 1 .. n /\ i # n
  OBVIOUS
<1>5. \A i \in 1 .. Len(s) - 1 : i \in DOMAIN s /\ i # Len(s)
  BY <1>0, <1>3
<1> QED
  BY <1>3, <1>4, <1>5 DEF IsASequence

-----------------------------------------------------------------------------
(* The least element: how the proofs do without an induction.              *)

LessThan == {p \in Nat \X Nat : p[1] < p[2]}

LEMMA LessThanWellFounded == IsWellFoundedOn(LessThan, Nat)
<1>1. LessThan = OpToRel(<, Nat)
  BY DEF OpToRel, LessThan
<1> QED
  BY NatLessThanWellFounded, <1>1

LEMMA LeastElement ==
  ASSUME NEW T, T \subseteq Nat, T # {} PROVE \E x \in T : \A y \in T : x <= y
<1>1. PICK x \in T : \A y \in T : <<y, x>> \notin LessThan
  BY LessThanWellFounded, WFMin
<1>2. ASSUME NEW y \in T PROVE x <= y
  <2>1. <<y, x>> \notin LessThan
    BY <1>1
  <2>2. x \in Nat /\ y \in Nat
    OBVIOUS
  <2> QED
    BY <2>1, <2>2 DEF LessThan
<1> QED
  BY <1>2
-----------------------------------------------------------------------------
(* Functions on 0 .. N that take one step at each number.                  *)

Steps(f, N, base, step) ==
  /\ f = [i \in 0 .. N |-> f[i]]
  /\ f[0] = base
  /\ \A i \in 1 .. N : f[i] = step[i][f[i - 1]]

LEMMA StepsExist ==
  ASSUME NEW N \in Nat, NEW base, NEW step PROVE \E f : Steps(f, N, base, step)
<1> DEFINE bad == {n \in 0 .. N : ~ \E f : Steps(f, n, base, step)}
<1> SUFFICES ASSUME bad # {} PROVE FALSE
  OBVIOUS
<1>1. bad \subseteq Nat
  OBVIOUS
<1>2. PICK m \in bad : \A y \in bad : m <= y
  BY <1>1, LeastElement
<1>3. m \in 0 .. N /\ ~ \E f : Steps(f, m, base, step)
  OBVIOUS
<1>4. m # 0
  <2>1. Steps([k \in 0 .. 0 |-> base], 0, base, step)
    BY DEF Steps
  <2> QED
    BY <2>1, <1>3
<1>5. m - 1 \in 0 .. N /\ ~ m <= m - 1
  BY <1>3, <1>4
<1>6. PICK f : Steps(f, m - 1, base, step)
  BY <1>2, <1>5
<1> HIDE DEF bad
<1> DEFINE g == [k \in 0 .. m |-> IF k = m THEN step[m][f[m - 1]] ELSE f[k]]
<1>7. Steps(g, m, base, step)
  <2>1. g[0] = base
    BY <1>3, <1>4, <1>6 DEF Steps
  <2>2. g[m] = step[m][g[m - 1]]
    BY <1>3, <1>4
  <2>3. ASSUME NEW i \in 1 .. m - 1 PROVE g[i] = step[i][g[i - 1]]
    <3>1. i \in 0 .. m /\ i # m /\ i - 1 \in 0 .. m /\ i - 1 # m
      BY <1>3
    <3>2. f[i] = step[i][f[i - 1]]
      BY <1>6 DEF Steps
    <3> QED
      BY <3>1, <3>2
  <2>4. \A i \in 1 .. m : i = m \/ i \in 1 .. m - 1
    BY <1>3
  <2>5. g = [k \in 0 .. m |-> g[k]]
    OBVIOUS
  <2> HIDE DEF g
  <2> QED
    BY <2>1, <2>2, <2>3, <2>4, <2>5 DEF Steps
<1> QED
  BY <1>3, <1>7

LEMMA StepsAgree ==
  ASSUME NEW N \in Nat, NEW M \in Nat, N <= M, NEW base, NEW step, NEW other,
         \A i \in 1 .. N : step[i] = other[i],
         NEW f, Steps(f, N, base, step), NEW g, Steps(g, M, base, other)
  PROVE  \A i \in 0 .. N : f[i] = g[i]
<1> DEFINE bad == {n \in 0 .. N : f[n] # g[n]}
<1> SUFFICES ASSUME bad # {} PROVE FALSE
  OBVIOUS
<1>1. bad \subseteq Nat
  OBVIOUS
<1>2. PICK m \in bad : \A y \in bad : m <= y
  BY <1>1, LeastElement
<1>3. m \in 0 .. N /\ f[m] # g[m]
  OBVIOUS
<1>4. m # 0
  BY <1>3 DEF Steps
<1>5. m \in 1 .. N /\ m \in 1 .. M /\ m - 1 \in 0 .. N /\ ~ m <= m - 1
  BY <1>3, <1>4
<1>6. f[m - 1] = g[m - 1]
  BY <1>2, <1>5
<1> QED
  BY <1>3, <1>5, <1>6 DEF Steps
=============================================================================
