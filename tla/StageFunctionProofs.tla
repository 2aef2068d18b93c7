------------------------ MODULE StageFunctionProofs ------------------------
(***************************************************************************)
(* Theorems about StageFunction for every file of any length, checked by   *)
(* TLAPS: the text of the functions is well nested and jumps are in loops; *)
(* GLSL finds the variables the visitor found, each declared once in its   *)
(* scope and used as the stage may use it.                                 *)
(***************************************************************************)
EXTENDS StageFunction, StateSequences

-----------------------------------------------------------------------------
(* The inductive invariant. *)

Visiting == status \in {"function", "header"}

\* How many scopes have a line that opens them: all, but not that of a for
\* loop whose header is still to be visited.
Opened == IF status = "header" THEN Len(blocks) - 1 ELSE Len(blocks)

LastLine(t) == t[Len(t)]

Control ==
  /\ status \in Statuses
  /\ current_stage \in stages \cup {"None"}
  /\ stages \subseteq Stages
  /\ IsASequence(blocks)

\* A text has a first line, and indentation is a length.
IsText(t) == IsASequence(t) /\ Len(t) >= 1 /\ \A i \in 1 .. Len(t) : t[i].indent \in Nat
Texts == DOMAIN text = Stages /\ \A stage \in Stages : IsText(text[stage])

\* The text of a stage is nested as far as it goes; it is the first line alone
\* before its function is visited, and closed after.
Nested(t) ==
  /\ t[1].op = "func" /\ t[1].indent = 0
  /\ \A i \in 1 .. Len(t) - 1 : t[i + 1].indent = t[i].indent + Opens(t[i]) - Closes(t[i + 1])
Closed(t) == LastLine(t).op = "close" /\ LastLine(t).indent = 0

Lines ==
  /\ \A stage \in Stages : Nested(text[stage])
  /\ \A stage \in Stages \ stages : Len(text[stage]) = 1
  /\ \A stage \in stages \ {current_stage} : Closed(text[stage])

\* Line j opens the k-th scope: it is the scope's construct, at its depth, and
\* nothing after it is as far out.
OpensScope(t, j, k, construct) ==
  /\ t[j].op = construct
  /\ t[j].indent = k - 1
  /\ \A i \in j + 1 .. Len(t) : t[i].indent >= k

\* The depth of the text is that of the stack.
Depth ==
  Visiting =>
    /\ current_stage \in stages
    /\ Len(blocks) >= 1
    /\ indent = Opened
    /\ indent = LastLine(Text).indent + Opens(LastLine(Text))

\* The outermost scope is that of the function, and every other a construct's.
Stack ==
  /\ status \in {"toplevel", "done"} => current_stage = "None" /\ blocks = <<>> /\ indent = 0
  /\ Visiting => \A k \in 1 .. Len(blocks) :
       /\ {"construct", "type"} \subseteq DOMAIN blocks[k]
       /\ blocks[k].construct \in Constructs
       /\ blocks[k].construct = "func" <=> k = 1
       /\ blocks[k].type = BlockType(blocks[k].construct)
  /\ status = "header" => blocks[Len(blocks)].construct = "for"

Openers ==
  Visiting => \A k \in 1 .. Opened :
    \E j \in 1 .. Len(Text) : OpensScope(Text, j, k, blocks[k].construct)

IInv == Control /\ Texts /\ Lines /\ Depth /\ Stack /\ Openers /\ JumpsInLoops

-----------------------------------------------------------------------------
(* One more line of text. *)

LEMMA AppendNested ==
  ASSUME NEW t, IsText(t), Nested(t),
         NEW depth, depth = LastLine(t).indent + Opens(LastLine(t)),
         NEW line, line.indent \in Nat, line.indent = depth - Closes(line)
  PROVE  /\ IsText(Append(t, line))
         /\ Nested(Append(t, line))
         /\ LastLine(Append(t, line)) = line
         /\ Len(Append(t, line)) = Len(t) + 1
<1> DEFINE u == Append(t, line)
<1>1. /\ IsASequence(u) /\ Len(t) \in Nat /\ Len(u) = Len(t) + 1 /\ u[Len(t) + 1] = line
      /\ \A i \in 1 .. Len(t) : u[i] = t[i]
  BY AppendToSequence DEF IsText
<1>2. Len(t) >= 1 /\ \A i \in 1 .. Len(t) : t[i].indent \in Nat
  BY DEF IsText
<1> HIDE DEF u
<1>3. IsText(u)
  <2>1. ASSUME NEW i \in 1 .. Len(u) PROVE u[i].indent \in Nat
    <3>1. CASE i = Len(t) + 1
      BY <1>1, <3>1
    <3>2. CASE i # Len(t) + 1
      <4>1. i \in 1 .. Len(t)
        BY <1>1, <3>2
      <4> QED
        BY <1>1, <1>2, <4>1
    <3> QED
      BY <3>1, <3>2
  <2>2. Len(u) >= 1
    BY <1>1, <1>2
  <2> QED
    BY <1>1, <2>1, <2>2 DEF IsText
<1>4. Nested(u)
  <2>1. u[1].op = "func" /\ u[1].indent = 0
    <3>1. 1 \in 1 .. Len(t)
      BY <1>1, <1>2
    <3> QED
      BY <1>1, <3>1 DEF Nested
  <2>2. ASSUME NEW i \in 1 .. Len(u) - 1
        PROVE  u[i + 1].indent = u[i].indent + Opens(u[i]) - Closes(u[i + 1])
    <3>1. i \in 1 .. Len(t) /\ u[i] = t[i]
      BY <1>1
    <3>2. CASE i = Len(t)
      <4>1. u[i + 1] = line /\ u[i] = LastLine(t)
        BY <1>1, <3>1, <3>2 DEF LastLine
      <4>2. LastLine(t).indent \in Nat
        BY <1>2, <3>1, <3>2 DEF LastLine
      <4>3. Opens(LastLine(t)) \in {0, 1} /\ Closes(line) \in {0, 1}
        BY DEF Opens, Closes
      <4>4. line.indent = LastLine(t).indent + Opens(LastLine(t)) - Closes(line)
        BY <4>2, <4>3
      <4> QED
        BY <4>1, <4>4, Zenon
    <3>3. CASE i # Len(t)
      <4>1. i \in 1 .. Len(t) - 1 /\ i + 1 \in 1 .. Len(t)
        BY <1>1, <3>1, <3>3
      <4>2. u[i + 1] = t[i + 1]
        BY <1>1, <4>1
      <4> QED
        BY <3>1, <4>1, <4>2 DEF Nested
    <3> QED
      BY <3>2, <3>3
  <2> QED
    BY <2>1, <2>2 DEF Nested
<1>5. LastLine(u) = line
  BY <1>1 DEF LastLine
<1> QED
  BY <1>1, <1>3, <1>4, <1>5 DEF u

\* A scope that was open stays open while the text is as deep as its body.
LEMMA AppendOpens ==
  ASSUME NEW t, IsText(t), NEW line, NEW k \in Nat, NEW j \in 1 .. Len(t), NEW construct,
         OpensScope(t, j, k, construct), line.indent >= k
  PROVE  OpensScope(Append(t, line), j, k, construct)
<1> DEFINE u == Append(t, line)
<1>1. /\ Len(t) \in Nat /\ Len(u) = Len(t) + 1 /\ u[Len(t) + 1] = line
      /\ \A i \in 1 .. Len(t) : u[i] = t[i]
  BY AppendToSequence DEF IsText
<1> HIDE DEF u
<1>2. ASSUME NEW i \in j + 1 .. Len(u) PROVE u[i].indent >= k
  <2>1. CASE i = Len(t) + 1
    BY <1>1, <2>1
  <2>2. CASE i # Len(t) + 1
    <3>1. i \in j + 1 .. Len(t) /\ i \in 1 .. Len(t)
      BY <1>1, <2>2
    <3> QED
      BY <1>1, <3>1 DEF OpensScope
  <2> QED
    BY <2>1, <2>2
<1> QED
  BY <1>1, <1>2 DEF OpensScope, u

\* The condition of JumpsInLoops on one text, and on a line to come.
Loops == {"while", "do", "for"}
JumpsIn(stage, t) ==
  \A i \in 1 .. Len(t) :
    /\ t[i].op \in Jumps => \E j \in 1 .. i - 1 : t[j].op \in Loops /\ Surrounds(t, j, i)
    /\ t[i].op = "discard" => stage = "Fragment"
JumpFits(stage, t, line) ==
  /\ line.op \in Jumps =>
       \E j \in 1 .. Len(t) : /\ t[j].op \in Loops
                              /\ line.indent > t[j].indent
                              /\ \A k \in j + 1 .. Len(t) : t[k].indent > t[j].indent
  /\ line.op = "discard" => stage = "Fragment"

LEMMA AppendJump ==
  ASSUME NEW t, IsText(t), NEW line, NEW stage, JumpsIn(stage, t), JumpFits(stage, t, line)
  PROVE  JumpsIn(stage, Append(t, line))
<1> DEFINE u == Append(t, line)
<1>1. /\ Len(t) \in Nat /\ Len(u) = Len(t) + 1 /\ u[Len(t) + 1] = line
      /\ \A i \in 1 .. Len(t) : u[i] = t[i]
  BY AppendToSequence DEF IsText
<1> HIDE DEF u
<1> SUFFICES ASSUME NEW i \in 1 .. Len(u)
             PROVE  /\ u[i].op \in Jumps =>
                         \E j \in 1 .. i - 1 : u[j].op \in Loops /\ Surrounds(u, j, i)
                    /\ u[i].op = "discard" => stage = "Fragment"
  BY DEF JumpsIn, u
<1>2. CASE i = Len(t) + 1
  <2>1. ASSUME line.op \in Jumps
        PROVE  \E j \in 1 .. i - 1 : u[j].op \in Loops /\ Surrounds(u, j, i)
    <3>1. PICK j \in 1 .. Len(t) : /\ t[j].op \in Loops
                                   /\ line.indent > t[j].indent
                                   /\ \A k \in j + 1 .. Len(t) : t[k].indent > t[j].indent
      BY <2>1 DEF JumpFits
    <3>2. ASSUME NEW k \in j + 1 .. i PROVE u[k].indent > u[j].indent
      <4>1. CASE k = Len(t) + 1
        BY <1>1, <3>1, <4>1
      <4>2. CASE k # Len(t) + 1
        <5>1. k \in j + 1 .. Len(t) /\ k \in 1 .. Len(t)
          BY <1>1, <1>2, <4>2
        <5> QED
          BY <1>1, <3>1, <5>1
      <4> QED
        BY <4>1, <4>2
    <3>3. j \in 1 .. i - 1 /\ u[j].op \in Loops
      BY <1>1, <1>2, <3>1
    <3> QED
      BY <3>2, <3>3 DEF Surrounds
  <2> QED
    BY <1>1, <1>2, <2>1 DEF JumpFits
<1>3. CASE i # Len(t) + 1
  <2>1. i \in 1 .. Len(t) /\ u[i] = t[i]
    BY <1>1, <1>3
  <2>2. ASSUME t[i].op \in Jumps
        PROVE  \E j \in 1 .. i - 1 : u[j].op \in Loops /\ Surrounds(u, j, i)
    <3>1. PICK j \in 1 .. i - 1 : t[j].op \in Loops /\ Surrounds(t, j, i)
      BY <2>1, <2>2 DEF JumpsIn
    <3>2. \A k \in j .. i : k \in 1 .. Len(t) /\ u[k] = t[k]
      BY <1>1, <2>1
    <3>3. j \in j .. i /\ \A k \in j + 1 .. i : k \in j .. i
      BY <2>1
    <3> QED
      BY <3>1, <3>2, <3>3 DEF Surrounds
  <2> QED
    BY <2>1, <2>2 DEF JumpsIn
<1> QED
  BY <1>2, <1>3

LEMMA JumpsByText ==
  ASSUME Texts PROVE JumpsInLoops <=> \A stage \in Stages : JumpsIn(stage, text[stage])
<1>1. \A stage \in Stages : DOMAIN text[stage] = 1 .. Len(text[stage])
  BY AppendToSequence DEF Texts, IsText
<1> QED
  BY <1>1 DEF JumpsInLoops, JumpsIn, Loops

\* What every step that emits a line keeps.
LEMMA EmitKeeps ==
  ASSUME Control, Texts, Lines, JumpsInLoops, current_stage \in stages,
         indent = LastLine(Text).indent + Opens(LastLine(Text)),
         NEW line, line.indent \in Nat, line.indent = indent - Closes(line),
         JumpFits(current_stage, Text, line),
         Emit(line), UNCHANGED stages
  PROVE  /\ Texts' /\ JumpsInLoops'
         /\ text'[current_stage] = Append(Text, line)
         /\ LastLine(text'[current_stage]) = line
         /\ Len(text'[current_stage]) = Len(Text) + 1
         /\ \A stage \in Stages : Nested(text'[stage])
         /\ \A stage \in Stages \ stages : Len(text'[stage]) = 1
         /\ \A stage \in stages \ {current_stage} : Closed(text'[stage])
<1>1. current_stage \in Stages /\ stages \subseteq Stages
  BY DEF Control
<1>2. /\ DOMAIN text' = Stages
      /\ text'[current_stage] = Append(Text, line)
      /\ \A stage \in Stages \ {current_stage} : text'[stage] = text[stage]
  BY <1>1 DEF Emit, Text, Texts
<1>3. IsText(Text) /\ Nested(Text)
  BY <1>1 DEF Text, Texts, Lines
<1>4. /\ IsText(Append(Text, line)) /\ Nested(Append(Text, line))
      /\ LastLine(Append(Text, line)) = line
      /\ Len(Append(Text, line)) = Len(Text) + 1
  BY <1>3, AppendNested
<1>5. Texts'
  <2>1. ASSUME NEW stage \in Stages PROVE IsText(text'[stage])
    BY <1>2, <1>4 DEF Texts
  <2> QED
    BY <1>2, <2>1 DEF Texts
<1>6. JumpsInLoops'
  <2>1. ASSUME NEW stage \in Stages PROVE JumpsIn(stage, text'[stage])
    <3>1. JumpsIn(stage, text[stage])
      BY JumpsByText
    <3>2. CASE stage = current_stage
      <4>1. JumpsIn(current_stage, Text)
        BY <3>1, <3>2 DEF Text
      <4>2. JumpsIn(current_stage, Append(Text, line))
        BY <1>3, <4>1, AppendJump
      <4> QED
        BY <1>2, <3>2, <4>2
    <3>3. CASE stage # current_stage
      BY <1>2, <3>1, <3>3
    <3> QED
      BY <3>2, <3>3
  <2>2. Texts' => (JumpsInLoops' <=> \A stage \in Stages : JumpsIn(stage, text'[stage]))
    <3>1. Texts' => \A stage \in Stages : DOMAIN text'[stage] = 1 .. Len(text'[stage])
      BY AppendToSequence DEF Texts, IsText
    <3> QED
      BY <3>1 DEF JumpsInLoops, JumpsIn, Loops
  <2> QED
    BY <1>5, <2>1, <2>2
<1>7. \A stage \in Stages : Nested(text'[stage])
  <2> TAKE stage \in Stages
  <2>1. Nested(text[stage])
    BY DEF Lines
  <2> QED
    BY <1>2, <1>4, <2>1
<1>8. \A stage \in Stages \ stages : Len(text'[stage]) = 1
  BY <1>2 DEF Lines
<1>9. \A stage \in stages \ {current_stage} : Closed(text'[stage])
  BY <1>1, <1>2 DEF Lines
<1> QED
  BY <1>2, <1>4, <1>5, <1>6, <1>7, <1>8, <1>9

-----------------------------------------------------------------------------
(* The steps. *)

\* An action that leaves the text and the stack alone.
LEMMA ThrowKeeps == ASSUME IInv, Throw PROVE IInv'
  BY DEF IInv, Throw, Control, Statuses, Texts, Lines, Depth, Stack, Openers, Visiting,
         JumpsInLoops

LEMMA SamePlaceKeeps ==
  ASSUME IInv, UNCHANGED <<status, current_stage, stages, blocks, indent, text>>
  PROVE  IInv'
  BY DEF IInv, Control, Texts, Lines, Depth, Stack, Openers, Opened, Visiting, Text, JumpsInLoops

LEMMA EndOfFileKeeps == ASSUME IInv, EndOfFile PROVE IInv'
  BY DEF IInv, EndOfFile, Control, Statuses, Texts, Lines, Depth, Stack, Openers, Visiting,
         JumpsInLoops

\* The scopes keep what they are for, whatever variables they have.
SameScopes ==
  /\ IsASequence(blocks') /\ Len(blocks') = Len(blocks)
  /\ \A k \in 1 .. Len(blocks) :
       /\ DOMAIN blocks'[k] = DOMAIN blocks[k]
       /\ {"construct", "type"} \subseteq DOMAIN blocks[k] =>
            /\ blocks'[k].construct = blocks[k].construct
            /\ blocks'[k].type = blocks[k].type

LEMMA AddVariableKeeps ==
  ASSUME IsASequence(blocks), Len(blocks) >= 1, NEW v, blocks' = AddVariable(v)
  PROVE  SameScopes
<1> DEFINE e == [Here EXCEPT !.vars = @ \cup {v}]
<1>0. Len(blocks) \in Nat /\ DOMAIN blocks = 1 .. Len(blocks)
  BY AppendToSequence
<1>1. blocks' = [blocks EXCEPT ![Len(blocks)] = e]
  BY DEF AddVariable, Innermost, Here
<1>2. /\ DOMAIN e = DOMAIN Here
      /\ {"construct", "type"} \subseteq DOMAIN Here =>
           e.construct = Here.construct /\ e.type = Here.type
  OBVIOUS
<1> HIDE DEF e
<1>3. /\ IsASequence(blocks') /\ Len(blocks') = Len(blocks)
      /\ blocks'[Len(blocks)] = e
      /\ \A i \in 1 .. Len(blocks) - 1 : blocks'[i] = blocks[i]
  <2>1. /\ IsASequence([blocks EXCEPT ![Len(blocks)] = e])
        /\ Len([blocks EXCEPT ![Len(blocks)] = e]) = Len(blocks)
        /\ [blocks EXCEPT ![Len(blocks)] = e][Len(blocks)] = e
        /\ \A i \in 1 .. Len(blocks) - 1 : [blocks EXCEPT ![Len(blocks)] = e][i] = blocks[i]
    BY ExceptSequence
  <2> QED
    BY <1>1, <2>1, Zenon
<1>4. ASSUME NEW k \in 1 .. Len(blocks)
      PROVE  /\ DOMAIN blocks'[k] = DOMAIN blocks[k]
             /\ {"construct", "type"} \subseteq DOMAIN blocks[k] =>
                  /\ blocks'[k].construct = blocks[k].construct
                  /\ blocks'[k].type = blocks[k].type
  <2>1. CASE k = Len(blocks)
    BY <1>2, <1>3, <2>1 DEF Here, Innermost
  <2>2. CASE k # Len(blocks)
    <3>0. \A n \in Nat : \A i \in 1 .. n : i # n => i \in 1 .. n - 1
      OBVIOUS
    <3>1. k \in 1 .. Len(blocks) - 1
      BY <1>0, <2>2, <3>0
    <3> QED
      BY <1>3, <3>1
  <2> QED
    BY <2>1, <2>2
<1> QED
  BY <1>3, <1>4 DEF SameScopes

\* A plain statement emits one line as deep as the body it is in.
LEMMA PlainKeeps ==
  ASSUME IInv, Statement, SameScopes,
         NEW op \in LineOps \ (Constructs \cup {"close"}), NEW name, NEW uses,
         op \in Jumps => InLoopBlock, op = "discard" => current_stage = "Fragment",
         Emit(Line(op, indent, name, uses, {}))
  PROVE  IInv'
<1> DEFINE line == Line(op, indent, name, uses, {})
<1>0. /\ Visiting /\ status = "function" /\ Opened = Len(blocks) /\ current_stage \in Stages
      /\ UNCHANGED <<status, current_stage, stages, indent>>
  BY DEF IInv, Control, Depth, Statement, Visiting, Opened
<1>1. /\ current_stage \in stages /\ Len(blocks) >= 1 /\ indent = Len(blocks)
      /\ indent = LastLine(Text).indent + Opens(LastLine(Text))
      /\ Len(blocks) \in Nat /\ DOMAIN blocks = 1 .. Len(blocks)
      /\ IsText(Text) /\ Len(Text) \in Nat
  BY <1>0, AppendToSequence DEF IInv, Control, Texts, Depth, Text, IsText
<1>2. line.op = op /\ line.indent = indent /\ Opens(line) = 0 /\ Closes(line) = 0
  BY DEF Line, Opens, Closes
<1>3. JumpFits(current_stage, Text, line)
  <2>1. ASSUME op \in Jumps
        PROVE  \E j \in 1 .. Len(Text) : /\ Text[j].op \in Loops
                                         /\ line.indent > Text[j].indent
                                         /\ \A k \in j + 1 .. Len(Text) :
                                              Text[k].indent > Text[j].indent
    <3>1. PICK k \in 1 .. Len(blocks) : blocks[k].type = "BT_Loop"
      BY <1>1, <2>1 DEF InLoopBlock
    <3>2. blocks[k].construct \in Loops
      BY <1>0, <3>1 DEF IInv, Stack, BlockType, Loops
    <3>3. PICK j \in 1 .. Len(Text) : OpensScope(Text, j, k, blocks[k].construct)
      BY <1>0 DEF IInv, Openers
    <3>4. Text[j].indent = k - 1 /\ line.indent > k - 1
      BY <1>1, <1>2, <3>3 DEF OpensScope
    <3>5. ASSUME NEW i \in j + 1 .. Len(Text) PROVE Text[i].indent > Text[j].indent
      <4>1. i \in 1 .. Len(Text) /\ Text[i].indent >= k
        BY <1>1, <3>3 DEF OpensScope
      <4>2. Text[i].indent \in Nat
        BY <1>1, <4>1 DEF IsText
      <4> QED
        BY <3>4, <4>1, <4>2
    <3> QED
      BY <3>2, <3>3, <3>4, <3>5 DEF OpensScope
  <2> QED
    BY <1>2, <2>1 DEF JumpFits
<1>4. /\ Texts' /\ JumpsInLoops'
      /\ text'[current_stage] = Append(Text, line)
      /\ LastLine(text'[current_stage]) = line
      /\ Len(text'[current_stage]) = Len(Text) + 1
      /\ \A stage \in Stages : Nested(text'[stage])
      /\ \A stage \in Stages \ stages : Len(text'[stage]) = 1
      /\ \A stage \in stages \ {current_stage} : Closed(text'[stage])
  <2>1. line.indent \in Nat
    BY <1>1, <1>2
  <2>2. line.indent = indent - Closes(line)
    BY <1>1, <1>2
  <2>3. Emit(line) /\ UNCHANGED stages
    BY <1>0
  <2> HIDE DEF line
  <2> QED
    BY <1>1, <1>3, <2>1, <2>2, <2>3, EmitKeeps DEF IInv
<1> HIDE DEF line
<1>5. Control'
  BY <1>0 DEF IInv, Control, SameScopes
<1>6. Lines'
  BY <1>0, <1>4 DEF Lines
<1>7. Depth'
  BY <1>0, <1>1, <1>2, <1>4 DEF Depth, Opened, Text, SameScopes
<1>8. Stack'
  BY <1>0, <1>1 DEF IInv, Stack, SameScopes, Visiting
<1>9. Openers'
  <2> SUFFICES ASSUME NEW k \in 1 .. Len(blocks)
               PROVE  \E j \in 1 .. Len(Text') : OpensScope(Text', j, k, blocks'[k].construct)
    BY <1>0 DEF Openers, Opened, SameScopes, OpensScope
  <2>1. PICK j \in 1 .. Len(Text) : OpensScope(Text, j, k, blocks[k].construct)
    BY <1>0 DEF IInv, Openers
  <2>2. blocks'[k].construct = blocks[k].construct
    BY <1>0 DEF IInv, Stack, SameScopes
  <2>3. line.indent >= k /\ k \in Nat
    BY <1>1, <1>2
  <2>4. OpensScope(Append(Text, line), j, k, blocks[k].construct)
    BY <1>1, <2>1, <2>3, AppendOpens
  <2>5. Text' = Append(Text, line) /\ j \in 1 .. Len(Text')
    BY <1>0, <1>1, <1>4 DEF Text
  <2> QED
    BY <2>2, <2>4, <2>5
<1> QED
  BY <1>4, <1>5, <1>6, <1>7, <1>8, <1>9 DEF IInv

\* A line that opens a body, with the scope pushed for it on the stack.
LEMMA OpenerKeeps ==
  ASSUME IInv, Visiting, NEW op \in Constructs \ {"func"},
         NEW line, line.op = op, line.indent = indent, Emit(line),
         status' = "function", indent' = indent + 1, UNCHANGED <<current_stage, stages>>,
         IsASequence(blocks'), Len(blocks') = indent + 1,
         {"construct", "type"} \subseteq DOMAIN blocks'[indent + 1],
         blocks'[indent + 1].construct = op, blocks'[indent + 1].type = BlockType(op),
         \A k \in 1 .. indent : blocks'[k] = blocks[k]
  PROVE  IInv'
<1>1. /\ current_stage \in stages /\ current_stage \in Stages
      /\ indent = Opened /\ indent = LastLine(Text).indent + Opens(LastLine(Text))
      /\ Len(blocks) \in Nat /\ Len(blocks) >= 1 /\ indent \in Nat
      /\ \A k \in 1 .. indent : k \in 1 .. Len(blocks)
      /\ IsText(Text) /\ Len(Text) \in Nat
  BY AppendToSequence DEF IInv, Control, Texts, Depth, Opened, Text, IsText
<1>2. Opens(line) = 1 /\ Closes(line) = 0
  BY DEF Opens, Closes, Constructs
<1>3. JumpFits(current_stage, Text, line)
  BY DEF JumpFits, Jumps, Constructs
<1>4. /\ Texts' /\ JumpsInLoops'
      /\ text'[current_stage] = Append(Text, line)
      /\ LastLine(text'[current_stage]) = line
      /\ Len(text'[current_stage]) = Len(Text) + 1
      /\ \A stage \in Stages : Nested(text'[stage])
      /\ \A stage \in Stages \ stages : Len(text'[stage]) = 1
      /\ \A stage \in stages \ {current_stage} : Closed(text'[stage])
  <2>1. line.indent \in Nat /\ line.indent = indent - Closes(line)
    BY <1>1, <1>2
  <2> QED
    BY <1>1, <1>3, <2>1, EmitKeeps DEF IInv
<1>5. Control'
  BY DEF IInv, Control, Statuses
<1>6. Lines'
  BY <1>4 DEF Lines
<1>7. Opened' = indent + 1 /\ Text' = Append(Text, line) /\ LastLine(Text') = line
  BY <1>4 DEF Opened, Text
<1>8. Depth'
  <2>1. indent' = LastLine(Text').indent + Opens(LastLine(Text'))
    BY <1>1, <1>2, <1>7
  <2> QED
    BY <1>1, <1>7, <2>1 DEF Depth, LastLine
<1>9. Stack'
  <2> SUFFICES ASSUME NEW k \in 1 .. indent + 1
               PROVE  /\ {"construct", "type"} \subseteq DOMAIN blocks'[k]
                      /\ blocks'[k].construct \in Constructs
                      /\ blocks'[k].construct = "func" <=> k = 1
                      /\ blocks'[k].type = BlockType(blocks'[k].construct)
    BY DEF Stack
  <2>0. indent >= 1
    <3>1. CASE status = "function"
      BY <1>1, <3>1 DEF Opened
    <3>2. CASE status = "header"
      <4>1. Len(blocks) # 1
        BY <1>1, <3>2 DEF IInv, Stack, Visiting
      <4> QED
        BY <1>1, <3>2, <4>1 DEF Opened
    <3> QED
      BY <3>1, <3>2 DEF Visiting
  <2>1. CASE k = indent + 1
    BY <1>1, <2>0, <2>1
  <2>2. CASE k # indent + 1
    <3>1. k \in 1 .. indent /\ k \in 1 .. Len(blocks)
      BY <1>1, <2>2
    <3> QED
      BY <3>1 DEF IInv, Stack
  <2> QED
    BY <2>1, <2>2
<1>10. Openers'
  <2> SUFFICES ASSUME NEW k \in 1 .. indent + 1
               PROVE  \E j \in 1 .. Len(Text') : OpensScope(Text', j, k, blocks'[k].construct)
    BY <1>7 DEF Openers, OpensScope
  <2>1. CASE k = indent + 1
    <3> DEFINE j == Len(Text) + 1
    <3>1. j \in 1 .. Len(Text') /\ Text'[j] = line /\ Len(Text') = j
      BY <1>1, <1>7, AppendToSequence DEF IsText
    <3>2. OpensScope(Text', j, k, op)
      BY <1>1, <2>1, <3>1 DEF OpensScope
    <3> QED
      BY <2>1, <3>1, <3>2
  <2>2. CASE k # indent + 1
    <3>1. k \in 1 .. indent /\ k \in Nat /\ line.indent >= k
      BY <1>1, <2>2
    <3>2. PICK j \in 1 .. Len(Text) : OpensScope(Text, j, k, blocks[k].construct)
      BY <1>1, <3>1 DEF IInv, Openers
    <3>3. OpensScope(Append(Text, line), j, k, blocks[k].construct)
      BY <1>1, <3>1, <3>2, AppendOpens
    <3>4. j \in 1 .. Len(Text') /\ blocks'[k] = blocks[k]
      BY <1>1, <1>4, <3>1 DEF Text
    <3> QED
      BY <1>7, <3>3, <3>4
  <2> QED
    BY <2>1, <2>2
<1> QED
  BY <1>4, <1>5, <1>6, <1>8, <1>9, <1>10 DEF IInv

LEMMA OpenBodyKeeps ==
  ASSUME IInv, NEW construct \in {"if", "elif", "else", "while", "do"}, NEW uses, NEW cond,
         OpenBody(construct, uses, cond)
  PROVE  IInv'
<1> DEFINE line == Line(construct, indent, NoName, uses, {})
           scope == Scope(construct, {}, cond)
<1>1. /\ Visiting /\ IsASequence(blocks) /\ Len(blocks) \in Nat /\ indent = Len(blocks)
      /\ construct \in Constructs \ {"func"}
  BY AppendToSequence DEF IInv, Control, Depth, Visiting, Opened, OpenBody, Constructs
<1>2. /\ line.op = construct /\ line.indent = indent /\ Emit(line)
      /\ scope.construct = construct /\ scope.type = BlockType(construct)
      /\ {"construct", "type"} \subseteq DOMAIN scope
  BY DEF OpenBody, EmitUse, Line, Scope
<1>3. blocks' = Append(blocks, scope)
  BY DEF OpenBody
<1> HIDE DEF line, scope
<1>4. /\ IsASequence(blocks') /\ Len(blocks') = indent + 1 /\ blocks'[indent + 1] = scope
      /\ \A k \in 1 .. indent : blocks'[k] = blocks[k]
  BY <1>1, <1>3, AppendToSequence
<1>5. status' = "function" /\ indent' = indent + 1 /\ UNCHANGED <<current_stage, stages>>
  BY DEF OpenBody
<1> QED
  BY <1>1, <1>2, <1>4, <1>5, OpenerKeeps

LEMMA ForHeaderKeeps ==
  ASSUME IInv, NEW init, NEW cond, NEW updates, ForHeader(init, cond, updates)
  PROVE  IInv'
<1> DEFINE line == Line("for", indent, Counter.name, UsesOf(init),
                        UsesOf(cond) \cup UNION {UpdateUses(u) : u \in ToSet(updates)})
<1>1. /\ Visiting /\ IsASequence(blocks) /\ Len(blocks) \in Nat /\ Len(blocks) = indent + 1
      /\ indent \in Nat
      /\ blocks[indent + 1].construct = "for"
      /\ "for" \in Constructs \ {"func"}
  BY AppendToSequence DEF IInv, Control, Depth, Stack, Visiting, Opened, ForHeader, Constructs
<1>2. line.op = "for" /\ line.indent = indent /\ Emit(line)
  BY DEF ForHeader, Line
<1> HIDE DEF line
<1>3. /\ status' = "function" /\ indent' = indent + 1
      /\ UNCHANGED <<current_stage, stages, blocks>>
  BY DEF ForHeader
<1>4. /\ {"construct", "type"} \subseteq DOMAIN blocks[indent + 1]
      /\ blocks[indent + 1].type = BlockType("for")
  BY <1>1 DEF IInv, Stack
<1> QED
  BY <1>1, <1>2, <1>3, <1>4, OpenerKeeps

LEMMA ForLoopKeeps == ASSUME IInv, NEW d, ForLoop(d) PROVE IInv'
<1> DEFINE scope == Scope("for", {NewVariable(d.name, ParsedType(d), "Block", NextLine)}, {})
<1>1. /\ Visiting /\ IsASequence(blocks) /\ Len(blocks) \in Nat /\ Len(blocks) >= 1
      /\ Opened = Len(blocks) /\ status' = "header" /\ "for" \in Constructs
      /\ UNCHANGED <<current_stage, stages, indent, text>>
  BY AppendToSequence DEF IInv, Control, Depth, Visiting, Opened, ForLoop, Constructs
<1>2. /\ scope.construct = "for" /\ scope.type = BlockType("for")
      /\ {"construct", "type"} \subseteq DOMAIN scope
  BY DEF Scope
<1>3. blocks' = Append(blocks, scope)
  BY DEF ForLoop
<1> HIDE DEF scope
<1>4. /\ IsASequence(blocks') /\ Len(blocks') = Len(blocks) + 1
      /\ blocks'[Len(blocks) + 1] = scope
      /\ \A k \in 1 .. Len(blocks) : blocks'[k] = blocks[k]
  BY <1>1, <1>3, AppendToSequence
<1>5. Opened' = Opened
  BY <1>1, <1>4 DEF Opened
<1>6. Control' /\ Texts' /\ Lines' /\ JumpsInLoops'
  BY <1>1, <1>4 DEF IInv, Control, Statuses, Texts, Lines, JumpsInLoops
<1>7. Depth'
  BY <1>1, <1>4, <1>5 DEF IInv, Depth, Text
<1>8. Stack'
  <2> SUFFICES ASSUME NEW k \in 1 .. Len(blocks) + 1
               PROVE  /\ {"construct", "type"} \subseteq DOMAIN blocks'[k]
                      /\ blocks'[k].construct \in Constructs
                      /\ blocks'[k].construct = "func" <=> k = 1
                      /\ blocks'[k].type = BlockType(blocks'[k].construct)
    BY <1>1, <1>2, <1>4 DEF Stack
  <2>1. CASE k = Len(blocks) + 1
    BY <1>1, <1>2, <1>4, <2>1
  <2>2. CASE k # Len(blocks) + 1
    <3>1. k \in 1 .. Len(blocks)
      BY <1>1, <2>2
    <3> QED
      BY <1>1, <1>4, <3>1 DEF IInv, Stack
  <2> QED
    BY <2>1, <2>2
<1>9. Openers'
  BY <1>1, <1>4, <1>5 DEF IInv, Openers, Text
<1> QED
  BY <1>6, <1>7, <1>8, <1>9 DEF IInv

LEMMA CloseBodyKeeps == ASSUME IInv, CloseBody PROVE IInv'
<1> DEFINE line == Line("close", indent - 1, NoName, Here.cond, {})
<1>1. /\ Visiting /\ IsASequence(blocks) /\ Len(blocks) \in Nat /\ Len(blocks) >= 1
      /\ indent = Len(blocks) /\ current_stage \in stages /\ current_stage \in Stages
      /\ indent = LastLine(Text).indent + Opens(LastLine(Text))
      /\ status' = "function" /\ indent' = indent - 1 /\ UNCHANGED <<current_stage, stages>>
      /\ Opened = Len(blocks) /\ IsText(Text) /\ Len(Text) \in Nat
  BY AppendToSequence
     DEF IInv, Control, Texts, Depth, Visiting, Opened, CloseBody, Text, IsText
<1>2. Len(blocks) >= 2
  <2>1. blocks[Len(blocks)].construct # "func"
    BY DEF CloseBody, Here, Innermost
  <2>2. Len(blocks) # 1
    BY <1>1, <2>1 DEF IInv, Stack
  <2> QED
    BY <1>1, <2>2
<1>3. /\ line.op = "close" /\ line.indent = indent - 1 /\ Emit(line)
      /\ Opens(line) = 0 /\ Closes(line) = 1
  BY DEF CloseBody, Line, Opens, Closes, Constructs
<1> HIDE DEF line
<1>4. JumpFits(current_stage, Text, line)
  BY <1>3 DEF JumpFits, Jumps
<1>5. /\ Texts' /\ JumpsInLoops'
      /\ text'[current_stage] = Append(Text, line)
      /\ LastLine(text'[current_stage]) = line
      /\ Len(text'[current_stage]) = Len(Text) + 1
      /\ \A stage \in Stages : Nested(text'[stage])
      /\ \A stage \in Stages \ stages : Len(text'[stage]) = 1
      /\ \A stage \in stages \ {current_stage} : Closed(text'[stage])
  <2>1. line.indent \in Nat /\ line.indent = indent - Closes(line)
    BY <1>1, <1>3
  <2> QED
    BY <1>1, <1>3, <1>4, <2>1, EmitKeeps DEF IInv
<1>6. /\ IsASequence(blocks') /\ Len(blocks') = indent - 1
      /\ \A k \in 1 .. indent - 1 : blocks'[k] = blocks[k] /\ k \in 1 .. Len(blocks)
  <2>1. blocks' = SubSeq(blocks, 1, Len(blocks) - 1)
    BY DEF CloseBody, PopBlock, Innermost
  <2>2. /\ IsASequence(SubSeq(blocks, 1, Len(blocks) - 1))
        /\ Len(SubSeq(blocks, 1, Len(blocks) - 1)) = Len(blocks) - 1
        /\ \A i \in 1 .. Len(blocks) - 1 : SubSeq(blocks, 1, Len(blocks) - 1)[i] = blocks[i]
    BY <1>1, PopSequence
  <2>3. \A k \in 1 .. indent - 1 : k \in 1 .. Len(blocks) - 1 /\ k \in 1 .. Len(blocks)
    BY <1>1
  <2>4. \A k \in 1 .. indent - 1 : blocks'[k] = blocks[k]
    BY <2>1, <2>2, <2>3
  <2> QED
    BY <1>1, <2>1, <2>2, <2>3, <2>4
<1>7. Opened' = indent - 1 /\ Text' = Append(Text, line) /\ LastLine(Text') = line
  BY <1>1, <1>5, <1>6 DEF Opened, Text
<1>8. Control' /\ Lines'
  BY <1>1, <1>5, <1>6 DEF IInv, Control, Statuses, Lines
<1>9. Depth'
  <2>1. indent' = LastLine(Text').indent + Opens(LastLine(Text'))
    BY <1>1, <1>3, <1>7
  <2> QED
    BY <1>1, <1>2, <1>6, <1>7, <2>1 DEF Depth, LastLine
<1>10. Stack'
  BY <1>1, <1>6 DEF IInv, Stack
<1>11. Openers'
  <2> SUFFICES ASSUME NEW k \in 1 .. indent - 1
               PROVE  \E j \in 1 .. Len(Text') : OpensScope(Text', j, k, blocks'[k].construct)
    BY <1>7 DEF Openers, OpensScope
  <2>0. indent \in Nat /\ indent = Opened
    BY <1>1
  <2>1. k \in 1 .. Opened /\ k \in Nat /\ line.indent >= k
    BY <1>3, <2>0
  <2>5. blocks'[k] = blocks[k]
    BY <1>6
  <2>2. PICK j \in 1 .. Len(Text) : OpensScope(Text, j, k, blocks[k].construct)
    BY <1>1, <2>1 DEF IInv, Openers
  <2>3. OpensScope(Append(Text, line), j, k, blocks[k].construct)
    BY <1>1, <2>1, <2>2, AppendOpens
  <2>4. j \in 1 .. Len(Text')
    BY <1>1, <1>5 DEF Text
  <2> QED
    BY <1>7, <2>3, <2>4, <2>5
<1> QED
  BY <1>5, <1>8, <1>9, <1>10, <1>11 DEF IInv

LEMMA StageFunctionKeeps ==
  ASSUME IInv, NEW stage \in Stages, StageFunction(stage) PROVE IInv'
<1> DEFINE scope == Scope("func", Builtins(stage), {})
<1>1. /\ blocks = <<>> /\ indent = 0 /\ current_stage = "None" /\ stage \notin stages
      /\ status' = "function" /\ stages' = stages \cup {stage} /\ current_stage' = stage
      /\ indent' = 1 /\ text' = text
  BY DEF IInv, Stack, StageFunction
<1>2. /\ scope.construct = "func" /\ scope.type = BlockType("func")
      /\ {"construct", "type"} \subseteq DOMAIN scope
  BY DEF Scope
<1>3. blocks' = Append(<<>>, scope)
  BY <1>1 DEF StageFunction
<1> HIDE DEF scope
<1>4. /\ IsASequence(blocks') /\ Len(blocks') = 1 /\ blocks'[1] = scope
  <2>1. IsASequence(<<>>) /\ Len(<<>>) = 0
    BY EmptySeq DEF IsASequence
  <2>2. /\ IsASequence(Append(<<>>, scope)) /\ Len(Append(<<>>, scope)) = Len(<<>>) + 1
        /\ Append(<<>>, scope)[Len(<<>>) + 1] = scope
    BY <2>1, AppendToSequence
  <2>3. Len(<<>>) + 1 = 1
    BY <2>1
  <2> QED
    BY <1>3, <2>2, <2>3
<1>5. Text' = text[stage] /\ Opened' = 1
  BY <1>1, <1>4 DEF Text, Opened
<1>6. /\ Len(text[stage]) = 1 /\ text[stage][1].op = "func" /\ text[stage][1].indent = 0
  BY <1>1 DEF IInv, Lines, Nested
<1>7. Control' /\ Texts' /\ JumpsInLoops'
  BY <1>1, <1>4 DEF IInv, Control, Statuses, Texts, JumpsInLoops
<1>8. Lines'
  <2>1. "None" \notin Stages
    BY DEF Stages
  <2> QED
    BY <1>1, <2>1 DEF IInv, Control, Lines
<1>9. Depth'
  <2>1. LastLine(Text') = text[stage][1] /\ Opens(LastLine(Text')) = 1
    BY <1>5, <1>6 DEF LastLine, Opens, Constructs
  <2>2. indent' = LastLine(Text').indent + Opens(LastLine(Text'))
    BY <1>1, <1>6, <2>1
  <2> QED
    BY <1>1, <1>4, <1>5, <2>2 DEF Depth, LastLine
<1>10. Stack'
  BY <1>1, <1>2, <1>4 DEF Stack, Constructs
<1>11. Openers'
  <2>1. OpensScope(text[stage], 1, 1, "func")
    BY <1>6 DEF OpensScope
  <2> QED
    BY <1>2, <1>4, <1>5, <1>6, <2>1 DEF Openers, OpensScope
<1> QED
  BY <1>7, <1>8, <1>9, <1>10, <1>11 DEF IInv

LEMMA EndStageFunctionKeeps == ASSUME IInv, EndStageFunction PROVE IInv'
<1> DEFINE line == Line("close", indent - 1, NoName, {}, {})
<1>1. /\ Visiting /\ Len(blocks) \in Nat /\ Len(blocks) >= 1
      /\ indent = Len(blocks) /\ current_stage \in stages /\ current_stage \in Stages
      /\ indent = LastLine(Text).indent + Opens(LastLine(Text))
      /\ status' = "toplevel" /\ indent' = indent - 1 /\ current_stage' = "None"
      /\ UNCHANGED stages
  BY AppendToSequence DEF IInv, Control, Depth, Visiting, Opened, EndStageFunction
<1>2. Len(blocks) = 1 /\ indent = 1
  <2>1. blocks[Len(blocks)].construct = "func" /\ Len(blocks) \in 1 .. Len(blocks)
    BY <1>1 DEF EndStageFunction, Here, Innermost
  <2> QED
    BY <1>1, <2>1 DEF IInv, Stack
<1>3. /\ line.op = "close" /\ line.indent = indent - 1 /\ Emit(line) /\ Closes(line) = 1
  BY DEF EndStageFunction, Line, Closes
<1> HIDE DEF line
<1>4. JumpFits(current_stage, Text, line)
  BY <1>3 DEF JumpFits, Jumps
<1>5. /\ Texts' /\ JumpsInLoops'
      /\ LastLine(text'[current_stage]) = line
      /\ \A stage \in Stages : Nested(text'[stage])
      /\ \A stage \in Stages \ stages : Len(text'[stage]) = 1
      /\ \A stage \in stages \ {current_stage} : Closed(text'[stage])
  <2>1. line.indent \in Nat /\ line.indent = indent - Closes(line)
    BY <1>1, <1>3
  <2> QED
    BY <1>1, <1>3, <1>4, <2>1, EmitKeeps DEF IInv
<1>6. blocks' = <<>> /\ indent' = 0
  <2>1. blocks' = SubSeq(blocks, 1, Len(blocks) - 1)
    BY DEF EndStageFunction, PopBlock, Innermost
  <2>2. Len(blocks) - 1 = 0 /\ indent - 1 = 0
    BY <1>2
  <2>3. SubSeq(blocks, 1, 0) = <<>>
    BY SubSeqEmpty
  <2> QED
    BY <1>1, <2>1, <2>2, <2>3
<1>7. Control'
  <2>1. IsASequence(<<>>)
    BY EmptySeq DEF IsASequence
  <2> QED
    BY <1>1, <1>6, <2>1 DEF IInv, Control, Statuses
<1>8. Lines'
  <2>0. line.indent = 0
    BY <1>2, <1>3
  <2>1. Closed(text'[current_stage])
    BY <1>3, <1>5, <2>0 DEF Closed
  <2> QED
    BY <1>1, <1>5, <2>1 DEF Lines
<1>9. Depth' /\ Openers' /\ Stack'
  BY <1>1, <1>6 DEF Depth, Openers, Stack, Visiting
<1> QED
  BY <1>5, <1>7, <1>8, <1>9 DEF IInv

\* The statements of a body that emit one line.
LEMMA SimpleKeeps == ASSUME IInv, Simple PROVE IInv'
<1>0. Throw => IInv'
  BY ThrowKeeps
<1>1. ASSUME NEW d \in Decls, VariableDeclaration(d) PROVE IInv'
  <2>1. IsASequence(blocks) /\ Len(blocks) >= 1
    BY <1>1 DEF IInv, Control, Depth, Visiting, VariableDeclaration, Statement
  <2>2. SameScopes
    BY <1>1, <2>1, AddVariableKeeps DEF VariableDeclaration
  <2>3. "declare" \in LineOps \ (Constructs \cup {"close"}) /\ "declare" \notin Jumps
    BY DEF LineOps, Constructs, Jumps
  <2>4. Statement /\ Emit(Line("declare", indent, d.name, {}, {}))
    BY <1>1 DEF VariableDeclaration
  <2> QED
    BY <2>2, <2>3, <2>4, PlainKeeps
<1>2. ASSUME NEW d \in Decls, NEW e \in Exprs, VariableDefinition(d, e) PROVE IInv'
  <2>1. IsASequence(blocks) /\ Len(blocks) >= 1
    BY <1>2 DEF IInv, Control, Depth, Visiting, VariableDefinition, Statement
  <2>2. SameScopes
    BY <1>2, <2>1, AddVariableKeeps DEF VariableDefinition
  <2>3. "define" \in LineOps \ (Constructs \cup {"close"}) /\ "define" \notin Jumps
    BY DEF LineOps, Constructs, Jumps
  <2>4. Statement /\ Emit(Line("define", indent, d.name, UsesOf(e), {}))
    BY <1>2 DEF VariableDefinition
  <2> QED
    BY <2>2, <2>3, <2>4, PlainKeeps
<1>3. ASSUME NEW lv \in Lvalues, NEW op \in AssignOps, NEW e \in Exprs, Assignment(lv, op, e)
      PROVE  IInv'
  <2>1. SameScopes
    BY <1>3 DEF IInv, Control, Assignment, SameScopes
  <2>2. "assign" \in LineOps \ (Constructs \cup {"close"}) /\ "assign" \notin Jumps
    BY DEF LineOps, Constructs, Jumps
  <2>3. Statement /\ Emit(Line("assign", indent, NoName, TargetUses(lv, op) \cup UsesOf(e), {}))
    BY <1>3 DEF Assignment, EmitUse
  <2> QED
    BY <2>1, <2>2, <2>3, PlainKeeps
<1>4. ASSUME NEW jump \in Jumps \cup {"discard"}, ControlStatement(jump) PROVE IInv'
  <2>1. SameScopes
    BY <1>4 DEF IInv, Control, ControlStatement, SameScopes
  <2>2. jump \in LineOps \ (Constructs \cup {"close"})
    BY DEF LineOps, Constructs, Jumps
  <2>3. /\ jump \in Jumps => InLoopBlock
        /\ jump = "discard" => current_stage = "Fragment"
    BY <1>4 DEF ControlStatement, JumpOK, Jumps
  <2>4. Statement /\ Emit(Line(jump, indent, NoName, {}, {}))
    BY <1>4 DEF ControlStatement, EmitUse
  <2> QED
    BY <2>1, <2>2, <2>3, <2>4, PlainKeeps
<1> QED
  BY <1>0, <1>1, <1>2, <1>3, <1>4
  DEF Simple, DeclarationRejected, DefinitionRejected, AssignmentRejected, JumpRejected

LEMMA BodiesKeep == ASSUME IInv, Bodies PROVE IInv'
<1>0. Throw => IInv'
  BY ThrowKeeps
<1>1. ASSUME NEW e \in Exprs, IfStatement(e) \/ Elif(e) \/ WhileLoop(e) \/ DoLoop(e) PROVE IInv'
  BY <1>1, OpenBodyKeeps DEF IfStatement, Elif, WhileLoop, DoLoop
<1>2. Else => IInv'
  BY OpenBodyKeeps DEF Else
<1> QED
  BY <1>0, <1>1, <1>2, ForLoopKeeps, ForHeaderKeeps, CloseBodyKeeps
  DEF Bodies, ConditionRejected, CounterRejected, HeaderRejected

LEMMA FunctionsKeep == ASSUME IInv, Functions PROVE IInv'
<1>1. ASSUME NEW g \in GlobalPool, DeclareGlobal(g) PROVE IInv'
  BY <1>1, SamePlaceKeeps DEF DeclareGlobal
<1>2. ASSUME NEW stage \in Stages, SecondFunction(stage) PROVE IInv'
  BY <1>2, ThrowKeeps DEF SecondFunction
<1> QED
  BY <1>1, <1>2, StageFunctionKeeps, EndStageFunctionKeeps, EndOfFileKeeps DEF Functions

LEMMA InitEstablishes == ASSUME Init PROVE IInv
<1> DEFINE first == Line("func", 0, NoName, {}, {})
<1>1. /\ first.op = "func" /\ first.indent = 0
  BY DEF Line
<1> HIDE DEF first
<1>2. /\ text = [stage \in Stages |-> <<first>>] /\ status = "toplevel" /\ stages = {}
      /\ current_stage = "None" /\ blocks = <<>> /\ indent = 0
  BY DEF Init, first
<1>3. IsASequence(<<>>)
  BY EmptySeq DEF IsASequence
<1>4. IsASequence(<<first>>) /\ Len(<<first>>) = 1 /\ <<first>>[1] = first
  <2>1. <<first>> \in Seq({first})
    OBVIOUS
  <2> QED
    BY <2>1 DEF IsASequence
<1>5. Control
  BY <1>2, <1>3 DEF Control, Statuses
<1>6. Texts
  <2>1. IsText(<<first>>)
    BY <1>1, <1>4 DEF IsText
  <2> QED
    BY <1>2, <2>1 DEF Texts
<1>7. Lines
  <2>1. Nested(<<first>>)
    BY <1>1, <1>4 DEF Nested
  <2> QED
    BY <1>2, <1>4, <2>1 DEF Lines
<1>8. Depth /\ Stack /\ Openers
  BY <1>2 DEF Depth, Stack, Openers, Visiting
<1>9. JumpsInLoops
  <2>1. \A stage \in Stages : JumpsIn(stage, text[stage])
    BY <1>1, <1>2, <1>4 DEF JumpsIn, Jumps
  <2> QED
    BY <1>6, <2>1, JumpsByText
<1> QED
  BY <1>5, <1>6, <1>7, <1>8, <1>9 DEF IInv

LEMMA Inductive == Spec => []IInv
<1>1. Init => IInv
  BY InitEstablishes
<1>2. IInv /\ [Next]_vars => IInv'
  <2> SUFFICES ASSUME IInv, [Next]_vars PROVE IInv'
    OBVIOUS
  <2>1. CASE Functions
    BY <2>1, FunctionsKeep
  <2>2. CASE Simple
    BY <2>2, SimpleKeeps
  <2>3. CASE Bodies
    BY <2>3, BodiesKeep
  <2>4. CASE Terminated \/ UNCHANGED vars
    BY <2>4, SamePlaceKeeps DEF Terminated, vars
  <2> QED
    BY <2>1, <2>2, <2>3, <2>4 DEF Next
<1> QED
  BY <1>1, <1>2, PTL DEF Spec

-----------------------------------------------------------------------------
(* The theorems. *)

\* Whatever the statements of a file, the braces of each function's text
\* balance, its indentation is its depth, and a function that was left is
\* closed.
THEOREM TextIsWellNested == Spec => []TextWellNested
<1>1. IInv => TextWellNested
  <2> SUFFICES ASSUME IInv, NEW stage \in Stages
               PROVE  LET t == text[stage] IN
                      /\ t[1].op = "func" /\ t[1].indent = 0
                      /\ \A i \in 1 .. Len(t) - 1 :
                           t[i + 1].indent = t[i].indent + Opens(t[i]) - Closes(t[i + 1])
                      /\ stage \in stages /\ status \in {"toplevel", "done"} =>
                           t[Len(t)].op = "close" /\ t[Len(t)].indent = 0
    BY DEF TextWellNested
  <2>1. Nested(text[stage])
    BY DEF IInv, Lines
  <2>2. ASSUME stage \in stages, status \in {"toplevel", "done"} PROVE Closed(text[stage])
    <3>1. current_stage = "None" /\ "None" \notin Stages
      BY <2>2 DEF IInv, Stack, Stages
    <3> QED
      BY <2>2, <3>1 DEF IInv, Lines
  <2> QED
    BY <2>1, <2>2 DEF Nested, Closed, LastLine
<1> QED
  BY <1>1, Inductive, PTL

\* Whatever the nesting, a break or continue that is accepted stands in the
\* braces of a loop, and a discard in the fragment function.
THEOREM JumpsStayInLoops == Spec => []JumpsInLoops
<1>1. IInv => JumpsInLoops
  BY DEF IInv
<1> QED
  BY <1>1, Inductive, PTL

-----------------------------------------------------------------------------
(* What a name means: the scopes of the visitor and those of the text.     *)

\* What GLSL finds in the text t is what the first n scopes of b hold: a
\* declaration still in scope is a variable of the scope as deep as it, and
\* the reverse.
Declared(t, b, n) ==
  \A j \in 1 .. Len(t) :
    t[j].name # NoName /\ InScope(t, j, Len(t)) =>
      /\ DeclaredIndent(t[j]) \in 1 .. n
      /\ \E v \in b[DeclaredIndent(t[j])].vars : v.name = t[j].name /\ v.at = j
Standing(t, b, n) ==
  \A k \in 1 .. n : \A v \in b[k].vars : v.at # 0 =>
    /\ v.at \in 1 .. Len(t)
    /\ t[v.at].name = v.name /\ DeclaredIndent(t[v.at]) = k /\ InScope(t, v.at, Len(t))

\* No two variables of the scopes b, or of b and the globals, share a name.
Distinct(b) ==
  \A k, l \in 1 .. Len(b) : \A v \in b[k].vars, w \in b[l].vars : v.name = w.name => v = w /\ k = l
NotGlobal(b) == \A k \in 1 .. Len(b) : \A v \in b[k].vars : v.name \notin NamesIn(globals)

\* The use u of a name is of the variable the first n scopes of b have.
Means(b, n, u) ==
  /\ u.name # NoName
  /\ \A k \in 1 .. n : \A v \in b[k].vars : v.name = u.name => v.at = u.at
  /\ u.at # 0 => \E k \in 1 .. n : \E v \in b[k].vars : v.name = u.name

\* The condition of PermittedByStage on one use.
Permitted(stage, variables, u) ==
  u.at = 0 => \E v \in variables \cup Builtins(stage) :
                /\ v.name = u.name
                /\ stage \in IF u.mode = "read" THEN v.read ELSE v.write

\* A variable of a function is declared by a line, or is a builtin.
Origin(b) ==
  \A k \in 1 .. Len(b) : \A v \in b[k].vars :
    IF v.at = 0 THEN v \in Builtins(current_stage) ELSE v.scope = "Block"

\* The condition of an open do loop means what it meant around the loop.
CondsMean(b) ==
  \A k \in 1 .. Len(b) : \A u \in b[k].cond :
    Means(b, k - 1, u) /\ Permitted(current_stage, globals, u)

\* While the header of a for loop is visited its counter has no line yet.
HeaderOpen ==
  status = "header" =>
    \E v \in Here.vars : Here.vars = {v} /\ v.at = NextLine /\ v.scope = "Block" /\ v.name \in Names


-----------------------------------------------------------------------------
(* Scopes of the text, one line later. *)

LEMMA ScopeAppend ==
  ASSUME NEW t, IsText(t), NEW line, NEW j \in 1 .. Len(t)
  PROVE  /\ Append(t, line)[j] = t[j]
         /\ \A i \in 1 .. Len(t) : InScope(Append(t, line), j, i) <=> InScope(t, j, i)
         /\ InScope(Append(t, line), j, Len(t) + 1)
              <=> InScope(t, j, Len(t)) /\ line.indent >= DeclaredIndent(t[j])
<1> DEFINE u == Append(t, line)
<1>1. /\ Len(t) \in Nat /\ u[Len(t) + 1] = line
      /\ \A i \in 1 .. Len(t) : u[i] = t[i]
  BY AppendToSequence DEF IsText
<1> HIDE DEF u
<1>2. u[j] = t[j]
  BY <1>1
<1>3. ASSUME NEW i \in 1 .. Len(t) PROVE InScope(u, j, i) <=> InScope(t, j, i)
  <2>1. \A k \in j + 1 .. i : k \in 1 .. Len(t)
    BY <1>1
  <2> QED
    BY <1>1, <1>2, <2>1 DEF InScope
<1>4. InScope(u, j, Len(t) + 1) <=> InScope(t, j, Len(t)) /\ line.indent >= DeclaredIndent(t[j])
  <2>1. \A k \in j + 1 .. Len(t) + 1 : k \in j + 1 .. Len(t) \/ k = Len(t) + 1
    BY <1>1
  <2>2. \A k \in j + 1 .. Len(t) : k \in 1 .. Len(t) /\ k \in j + 1 .. Len(t) + 1
    BY <1>1
  <2>3. Len(t) + 1 \in j + 1 .. Len(t) + 1
    BY <1>1
  <2> QED
    BY <1>1, <1>2, <2>1, <2>2, <2>3 DEF InScope
<1> QED
  BY <1>2, <1>3, <1>4 DEF u

\* The declarations of a name in scope at line i, among the lines up to last.
Candidates(t, name, i, last) == {j \in 1 .. last : t[j].name = name /\ InScope(t, j, i)}

Latest(lines) == IF lines = {} THEN 0 ELSE CHOOSE j \in lines : \A k \in lines : k <= j

LEMMA GlslByCandidates ==
  ASSUME NEW t, NEW name, NEW i, NEW last
  PROVE  GlslDeclaration(t, name, i, last) = Latest(Candidates(t, name, i, last))
  BY DEF GlslDeclaration, Candidates, Latest

\* One candidate is found, and where there is none GLSL looks outside.
LEMMA OneCandidate ==
  ASSUME NEW t, NEW name, NEW i, NEW last, NEW at \in Nat,
         Candidates(t, name, i, last) = {at}
  PROVE  GlslDeclaration(t, name, i, last) = at
  BY GlslByCandidates DEF Latest

\* A later line changes nothing of what the lines before it mean.
LEMMA EarlierMeans ==
  ASSUME NEW t, IsText(t), NEW line, NEW i \in 1 .. Len(t), NEW last \in 0 .. i, NEW name
  PROVE  GlslDeclaration(Append(t, line), name, i, last) = GlslDeclaration(t, name, i, last)
<1>1. Len(t) \in Nat
  BY AppendToSequence DEF IsText
<1>2. ASSUME NEW j \in 1 .. last
      PROVE  /\ Append(t, line)[j] = t[j]
             /\ InScope(Append(t, line), j, i) <=> InScope(t, j, i)
  <2>1. j \in 1 .. Len(t)
    BY <1>1
  <2> QED
    BY <2>1, ScopeAppend
<1>3. Candidates(Append(t, line), name, i, last) = Candidates(t, name, i, last)
  BY <1>2 DEF Candidates
<1> QED
  BY <1>3, GlslByCandidates

\* A name used in a new line means the variable the visitor found, if the
\* scopes around the line hold it.
LEMMA NewLineMeans ==
  ASSUME NEW t, IsText(t), NEW b, NEW n \in Nat, Declared(t, b, n), Standing(t, b, n),
         NEW line, line.indent \in Nat, line.indent <= n,
         NEW u, u.at \in Nat, Means(b, line.indent, u)
  PROVE  GlslDeclaration(Append(t, line), u.name, Len(t) + 1, Len(t)) = u.at
<1> DEFINE C == Candidates(Append(t, line), u.name, Len(t) + 1, Len(t))
<1>0. Len(t) \in Nat
  BY AppendToSequence DEF IsText
<1>1. ASSUME NEW j \in C PROVE j = u.at /\ j \in 1 .. Len(t)
  <2>1. j \in 1 .. Len(t) /\ Append(t, line)[j].name = u.name
        /\ InScope(Append(t, line), j, Len(t) + 1)
    BY DEF Candidates
  <2>2. /\ t[j].name = u.name /\ InScope(t, j, Len(t)) /\ line.indent >= DeclaredIndent(t[j])
    BY <2>1, ScopeAppend
  <2>3. DeclaredIndent(t[j]) \in 1 .. n
        /\ \E v \in b[DeclaredIndent(t[j])].vars : v.name = t[j].name /\ v.at = j
    BY <2>1, <2>2 DEF Declared, Means
  <2>4. DeclaredIndent(t[j]) \in 1 .. line.indent
    BY <2>2, <2>3
  <2> QED
    BY <2>1, <2>2, <2>3, <2>4 DEF Means
<1>2. ASSUME u.at # 0 PROVE u.at \in C
  <2>1. PICK k \in 1 .. line.indent : \E v \in b[k].vars : v.name = u.name
    BY <1>2 DEF Means
  <2>2. PICK v \in b[k].vars : v.name = u.name
    BY <2>1
  <2>3. v.at = u.at /\ k \in 1 .. n
    BY <2>2 DEF Means
  <2>4. /\ u.at \in 1 .. Len(t)
        /\ t[u.at].name = u.name /\ DeclaredIndent(t[u.at]) = k /\ InScope(t, u.at, Len(t))
    BY <1>2, <2>2, <2>3 DEF Standing
  <2>5. line.indent >= DeclaredIndent(t[u.at])
    BY <2>4
  <2>6. /\ Append(t, line)[u.at] = t[u.at] /\ InScope(Append(t, line), u.at, Len(t) + 1)
    BY <2>4, <2>5, ScopeAppend
  <2> QED
    BY <2>4, <2>6 DEF Candidates
<1> HIDE DEF C
<1>3. CASE u.at # 0
  <2>1. C = {u.at}
    BY <1>1, <1>2, <1>3
  <2> QED
    BY <2>1, OneCandidate DEF C
<1>4. CASE u.at = 0
  <2>1. C = {}
    BY <1>0, <1>1, <1>4
  <2> QED
    BY <1>4, <2>1, GlslByCandidates DEF C, Latest
<1> QED
  BY <1>3, <1>4

\* The variable a line declares is the one its own uses may mean.
LEMMA OwnDeclaration ==
  ASSUME NEW t, IsText(t), NEW line
  PROVE  GlslDeclaration(Append(t, line), line.name, Len(t) + 1, Len(t) + 1) = Len(t) + 1
<1> DEFINE i == Len(t) + 1
           C == Candidates(Append(t, line), line.name, i, i)
<1>1. Len(t) \in Nat /\ Append(t, line)[i] = line
  BY AppendToSequence DEF IsText
<1>2. i \in 1 .. i /\ \A k \in i + 1 .. i : FALSE
  BY <1>1
<1>3. InScope(Append(t, line), i, i)
  BY <1>2 DEF InScope
<1>4. i \in C /\ \A k \in C : k \in 1 .. i
  BY <1>1, <1>2, <1>3 DEF Candidates
<1> HIDE DEF i, C
<1>5. \A j, k \in 1 .. i : j <= k /\ k <= j => j = k
  BY <1>1 DEF i
<1>6. \A k \in 1 .. i : k <= i
  BY <1>1 DEF i
<1>7. C # {} /\ (CHOOSE j \in C : \A k \in C : k <= j) = i
  BY <1>4, <1>5, <1>6
<1> QED
  BY <1>7, GlslByCandidates DEF i, C, Latest

\* For any other name the line itself is no candidate.
LEMMA OtherName ==
  ASSUME NEW t, IsText(t), NEW line, NEW name, name # line.name
  PROVE  GlslDeclaration(Append(t, line), name, Len(t) + 1, Len(t) + 1)
           = GlslDeclaration(Append(t, line), name, Len(t) + 1, Len(t))
<1> DEFINE u == Append(t, line)
           i == Len(t) + 1
<1>1. Len(t) \in Nat /\ u[i] = line
  BY AppendToSequence DEF IsText
<1>2. \A j \in 1 .. i : j \in 1 .. Len(t) \/ j = i
  BY <1>1
<1>3. \A j \in 1 .. Len(t) : j \in 1 .. i
  BY <1>1
<1> HIDE DEF u, i
<1>4. Candidates(u, name, i, i) = Candidates(u, name, i, Len(t))
  BY <1>1, <1>2, <1>3 DEF Candidates
<1> QED
  BY <1>4, GlslByCandidates DEF u, i

\* The scopes c, m of them, are those of b after the line that comes next in t:
\* the scopes around the line gain at most what the line declares, and the
\* scope it opens, if any, has nothing else.
After(t, line, b, c, m) ==
  /\ m \in {line.indent, line.indent + 1}
  /\ \A k \in 1 .. line.indent : b[k].vars \subseteq c[k].vars
  /\ \A k \in 1 .. m : \A v \in c[k].vars : v.at # 0 =>
       \/ k <= line.indent /\ v \in b[k].vars
       \/ v.at = Len(t) + 1 /\ line.name = v.name /\ DeclaredIndent(line) = k
  /\ line.name # NoName =>
       /\ DeclaredIndent(line) \in 1 .. m
       /\ \E v \in c[DeclaredIndent(line)].vars : v.name = line.name /\ v.at = Len(t) + 1

\* The scopes of the text and those of the visitor stay alike.
LEMMA ScopesAppend ==
  ASSUME NEW t, IsText(t), NEW b, NEW n \in Nat, Declared(t, b, n), Standing(t, b, n),
         NEW line, line.indent \in Nat, line.indent <= n,
         NEW c, NEW m, After(t, line, b, c, m)
  PROVE  Declared(Append(t, line), c, m) /\ Standing(Append(t, line), c, m)
<1> DEFINE u == Append(t, line)
           d == line.indent
<1>0. /\ m \in {line.indent, line.indent + 1}
      /\ \A k \in 1 .. line.indent : b[k].vars \subseteq c[k].vars
      /\ \A k \in 1 .. m : \A v \in c[k].vars : v.at # 0 =>
           \/ k <= line.indent /\ v \in b[k].vars
           \/ v.at = Len(t) + 1 /\ line.name = v.name /\ DeclaredIndent(line) = k
      /\ line.name # NoName =>
           /\ DeclaredIndent(line) \in 1 .. m
           /\ \E v \in c[DeclaredIndent(line)].vars : v.name = line.name /\ v.at = Len(t) + 1
  BY DEF After
<1>1. /\ Len(t) \in Nat /\ Len(u) = Len(t) + 1 /\ u[Len(t) + 1] = line
  BY AppendToSequence DEF IsText
<1>2. \A j \in 1 .. Len(t) :
        u[j] = t[j] /\ (InScope(u, j, Len(t) + 1)
                          <=> InScope(t, j, Len(t)) /\ d >= DeclaredIndent(t[j]))
  BY ScopeAppend
<1> HIDE DEF u
<1>3. ASSUME NEW j \in 1 .. Len(u), u[j].name # NoName, InScope(u, j, Len(u))
      PROVE  /\ DeclaredIndent(u[j]) \in 1 .. m
             /\ \E v \in c[DeclaredIndent(u[j])].vars : v.name = u[j].name /\ v.at = j
  <2>1. CASE j = Len(t) + 1
    BY <1>0, <1>1, <1>3, <2>1
  <2>2. CASE j # Len(t) + 1
    <3>1. j \in 1 .. Len(t)
      BY <1>1, <2>2
    <3>2. u[j] = t[j] /\ InScope(t, j, Len(t)) /\ d >= DeclaredIndent(t[j])
      BY <1>1, <1>2, <1>3, <3>1
    <3>3. /\ DeclaredIndent(t[j]) \in 1 .. n
          /\ \E v \in b[DeclaredIndent(t[j])].vars : v.name = t[j].name /\ v.at = j
      BY <1>3, <3>1, <3>2 DEF Declared
    <3>4. DeclaredIndent(t[j]) \in 1 .. d /\ DeclaredIndent(t[j]) \in 1 .. m
      BY <1>0, <3>2, <3>3
    <3>5. b[DeclaredIndent(t[j])].vars \subseteq c[DeclaredIndent(t[j])].vars
      BY <1>0, <3>4
    <3> QED
      BY <3>2, <3>3, <3>4, <3>5
  <2> QED
    BY <2>1, <2>2
<1>4. ASSUME NEW k \in 1 .. m, NEW v \in c[k].vars, v.at # 0
      PROVE  /\ v.at \in 1 .. Len(u)
             /\ u[v.at].name = v.name /\ DeclaredIndent(u[v.at]) = k /\ InScope(u, v.at, Len(u))
  <2>1. CASE k <= d /\ v \in b[k].vars
    <3>1. k \in 1 .. n /\ k \in Nat
      BY <1>0, <2>1
    <3>2. /\ v.at \in 1 .. Len(t)
          /\ t[v.at].name = v.name /\ DeclaredIndent(t[v.at]) = k /\ InScope(t, v.at, Len(t))
      BY <1>4, <2>1, <3>1 DEF Standing
    <3>3. d >= DeclaredIndent(t[v.at])
      BY <2>1, <3>1, <3>2
    <3>4. u[v.at] = t[v.at] /\ InScope(u, v.at, Len(u))
      BY <1>1, <1>2, <3>2, <3>3
    <3>5. v.at \in 1 .. Len(u)
      BY <1>1, <3>2
    <3> QED
      BY <3>2, <3>4, <3>5
  <2>2. CASE v.at = Len(t) + 1 /\ line.name = v.name /\ DeclaredIndent(line) = k
    <3>1. \A i \in v.at + 1 .. Len(u) : FALSE
      BY <1>1, <2>2
    <3>2. v.at \in 1 .. Len(u)
      BY <1>1, <2>2
    <3> QED
      BY <1>1, <2>2, <3>1, <3>2 DEF InScope
  <2> QED
    BY <1>0, <1>4, <2>1, <2>2
<1> QED
  BY <1>3, <1>4 DEF Declared, Standing, u

-----------------------------------------------------------------------------
(* What the lines of a text have to show. *)

\* The condition of NoShadowing on the function's own variables.
OwnNames ==
  \A stage \in Stages : LET t == text[stage] IN \A i \in DOMAIN t :
    t[i].name # NoName => GlslDeclaration(t, t[i].name, i, i - 1) = 0

LineMeans(t, i) ==
  /\ \A u \in t[i].uses : (t[i].op = "for" /\ u.at = i) \/ GlslDeclaration(t, u.name, i, i - 1) = u.at
  /\ \A u \in t[i].loop_uses : GlslDeclaration(t, u.name, i, i) = u.at
  /\ t[i].name # NoName => GlslDeclaration(t, t[i].name, i, i - 1) = 0
LinePermitted(stage, variables, line) ==
  \A u \in line.uses \cup line.loop_uses : Permitted(stage, variables, u)

TextMeans(t) == \A i \in 1 .. Len(t) : LineMeans(t, i)
TextPermitted(stage, variables, t) ==
  \A i \in 1 .. Len(t) : LinePermitted(stage, variables, t[i])

LEMMA MeaningByText ==
  ASSUME Texts
  PROVE  /\ ScopesAgree /\ OwnNames <=> \A stage \in Stages : TextMeans(text[stage])
         /\ PermittedByStage <=> \A stage \in Stages : TextPermitted(stage, globals, text[stage])
<1>1. \A stage \in Stages : DOMAIN text[stage] = 1 .. Len(text[stage])
  BY AppendToSequence DEF Texts, IsText
<1>2. ScopesAgree /\ OwnNames <=> \A stage \in Stages : TextMeans(text[stage])
  BY <1>1 DEF ScopesAgree, OwnNames, TextMeans, LineMeans
<1>3. PermittedByStage <=> \A stage \in Stages : TextPermitted(stage, globals, text[stage])
  BY <1>1 DEF PermittedByStage, TextPermitted, LinePermitted, Permitted
<1> QED
  BY <1>2, <1>3

LEMMA AppendMeans ==
  ASSUME NEW t, IsText(t), TextMeans(t), NEW line, LineMeans(Append(t, line), Len(t) + 1)
  PROVE  TextMeans(Append(t, line))
<1> DEFINE u == Append(t, line)
<1>1. /\ Len(t) \in Nat /\ Len(u) = Len(t) + 1
      /\ \A i \in 1 .. Len(t) : u[i] = t[i]
  BY AppendToSequence DEF IsText
<1>2. ASSUME NEW i \in 1 .. Len(t) PROVE LineMeans(u, i)
  <2>1. i \in 0 .. i /\ i - 1 \in 0 .. i
    BY <1>1
  <2>2. /\ \A name : GlslDeclaration(u, name, i, i - 1) = GlslDeclaration(t, name, i, i - 1)
        /\ \A name : GlslDeclaration(u, name, i, i) = GlslDeclaration(t, name, i, i)
    BY <2>1, EarlierMeans
  <2>3. u[i] = t[i] /\ LineMeans(t, i)
    BY <1>1 DEF TextMeans
  <2> HIDE DEF u
  <2> QED
    BY <2>2, <2>3 DEF LineMeans
<1> HIDE DEF u
<1>3. \A i \in 1 .. Len(u) : i \in 1 .. Len(t) \/ i = Len(t) + 1
  BY <1>1
<1>4. LineMeans(u, Len(t) + 1)
  BY DEF u
<1> QED
  BY <1>2, <1>3, <1>4 DEF TextMeans, u

LEMMA AppendPermitted ==
  ASSUME NEW t, IsText(t), NEW line, NEW stage, NEW variables,
         TextPermitted(stage, variables, t), LinePermitted(stage, variables, line)
  PROVE  TextPermitted(stage, variables, Append(t, line))
<1> DEFINE u == Append(t, line)
<1>1. /\ Len(t) \in Nat /\ Len(u) = Len(t) + 1 /\ u[Len(t) + 1] = line
      /\ \A i \in 1 .. Len(t) : u[i] = t[i]
  BY AppendToSequence DEF IsText
<1> HIDE DEF u
<1>2. \A i \in 1 .. Len(u) : i \in 1 .. Len(t) \/ i = Len(t) + 1
  BY <1>1
<1> QED
  BY <1>1, <1>2 DEF TextPermitted, u

\* The meaning of the texts after a line.
LineFits(line) ==
  /\ LineMeans(Append(Text, line), Len(Text) + 1)
  /\ LinePermitted(current_stage, globals, line)
Meaning == ScopesAgree /\ OwnNames /\ PermittedByStage
FirstLines == \A stage \in Stages : text[stage][1].name = NoName

LEMMA EmitMeans ==
  ASSUME Texts, Texts', Meaning, FirstLines, current_stage \in Stages, NEW line, LineFits(line),
         Emit(line), UNCHANGED globals
  PROVE  Meaning' /\ FirstLines'
<1>1. /\ text'[current_stage] = Append(Text, line)
      /\ \A stage \in Stages \ {current_stage} : text'[stage] = text[stage]
  BY DEF Emit, Text, Texts
<1>2. IsText(Text)
  BY DEF Text, Texts
<1>3. /\ \A stage \in Stages : TextMeans(text[stage])
      /\ \A stage \in Stages : TextPermitted(stage, globals, text[stage])
  BY MeaningByText DEF Meaning
<1>4. TextMeans(Append(Text, line)) /\ TextPermitted(current_stage, globals, Append(Text, line))
  <2>1. TextMeans(Text) /\ TextPermitted(current_stage, globals, Text)
    BY <1>3 DEF Text
  <2> QED
    BY <1>2, <2>1, AppendMeans, AppendPermitted DEF LineFits
<1>5. \A stage \in Stages : TextMeans(text'[stage]) /\ TextPermitted(stage, globals, text'[stage])
  BY <1>1, <1>3, <1>4
<1>6. Meaning'
  <2>1. \A stage \in Stages : DOMAIN text'[stage] = 1 .. Len(text'[stage])
    BY AppendToSequence DEF Texts, IsText
  <2>2. ScopesAgree' /\ OwnNames'
    BY <1>5, <2>1 DEF ScopesAgree, OwnNames, TextMeans, LineMeans
  <2>3. PermittedByStage'
    BY <1>5, <2>1 DEF PermittedByStage, TextPermitted, LinePermitted, Permitted
  <2> QED
    BY <2>2, <2>3 DEF Meaning
<1>7. FirstLines'
  <2>1. ASSUME NEW stage \in Stages PROVE text'[stage][1].name = NoName
    <3>1. text[stage][1].name = NoName
      BY DEF FirstLines
    <3>2. 1 \in 1 .. Len(Text)
      BY <1>2, AppendToSequence DEF IsText
    <3>3. Append(Text, line)[1] = Text[1]
      BY <1>2, <3>2, ScopeAppend
    <3> QED
      BY <1>1, <3>1, <3>3 DEF Text
  <2> QED
    BY <2>1 DEF FirstLines
<1> QED
  BY <1>6, <1>7

-----------------------------------------------------------------------------
(* What is looked up. *)

Typed ==
  /\ globals \subseteq VariableRecord
  /\ blocks \in Seq(ScopeRecord)
  /\ branch \in BOOLEAN
  /\ indent \in Nat
  /\ text \in [Stages -> Seq(LineRecord)]

GlobalsOutside ==
  \A v \in globals : v.at = 0 /\ v.scope \in GlobalScopes /\ v.name \in Names \ BadNames
Scopes == Distinct(blocks) /\ NotGlobal(blocks) /\ Origin(blocks) /\ CondsMean(blocks)

LEMMA ScopeTypes ==
  ASSUME Typed
  PROVE  /\ IsASequence(blocks) /\ Len(blocks) \in Nat /\ DOMAIN blocks = 1 .. Len(blocks)
         /\ \A k \in 1 .. Len(blocks) :
              /\ blocks[k] \in ScopeRecord
              /\ blocks[k].vars \subseteq VariableRecord /\ blocks[k].cond \subseteq UseRecord
<1>1. /\ IsASequence(blocks) /\ Len(blocks) \in Nat /\ DOMAIN blocks = 1 .. Len(blocks)
  BY AppendToSequence DEF Typed, IsASequence
<1>2. \A k \in 1 .. Len(blocks) : blocks[k] \in ScopeRecord
  BY ElementOfSeq DEF Typed
<1> QED
  BY <1>1, <1>2 DEF ScopeRecord

\* find_variable finds a variable of that name: the only one of the scopes, or
\* else a global one.
LEMMA FoundVariable ==
  ASSUME Typed, Distinct(blocks), NEW name \in KnownNames
  PROVE  /\ FindVariable(name).name = name
         /\ \/ \E k \in 1 .. Len(blocks) : FindVariable(name) \in blocks[k].vars
            \/ /\ FindVariable(name) \in globals
               /\ \A k \in 1 .. Len(blocks) : \A v \in blocks[k].vars : v.name # name
<1>1. DOMAIN blocks = 1 .. Len(blocks)
  BY ScopeTypes
<1>2. CASE BlocksWith(name) = {}
  <2>1. \A k \in 1 .. Len(blocks) : \A v \in blocks[k].vars : v.name # name
    BY <1>1, <1>2 DEF BlocksWith, NamesIn
  <2>2. \E v \in globals : v.name = name
    BY <1>1, <2>1 DEF KnownNames, FunctionNames, NamesIn
  <2>3. FindVariable(name) = CHOOSE v \in globals : v.name = name
    BY <1>2 DEF FindVariable
  <2> QED
    BY <2>1, <2>2, <2>3
<1>3. CASE BlocksWith(name) # {}
  <2>1. PICK k \in 1 .. Len(blocks) : \E v \in blocks[k].vars : v.name = name
    BY <1>1, <1>3 DEF BlocksWith, NamesIn
  <2>2. BlocksWith(name) = {k}
    BY <1>1, <2>1 DEF BlocksWith, NamesIn, Distinct
  <2>3. (CHOOSE l \in BlocksWith(name) : \A j \in BlocksWith(name) : j <= l) = k
    BY <2>2
  <2>4. FindVariable(name) = CHOOSE v \in blocks[k].vars : v.name = name
    BY <1>3, <2>3 DEF FindVariable
  <2> QED
    BY <2>1, <2>4
<1> QED
  BY <1>2, <1>3

\* A use the visitor lets through.
Grounded(u) ==
  /\ u = Use(u.name, u.mode)
  /\ \/ u.mode = "read" /\ CanRead(u.name)
     \/ u.mode \in {"write", "update"} /\ CanWrite(u.name)

LEMMA BuiltinRecords ==
  ASSUME NEW stage \in Stages, NEW v \in Builtins(stage)
  PROVE  /\ v \in VariableRecord /\ v.at = 0 /\ v.scope = "Builtin" /\ v.name \in BuiltinNames
<1>1. /\ \A t \in {SInt, Float, Bool, 14, 16} : PlainType(t) \in HLSVType
  BY DEF PlainType, HLSVType, PrimTypes, ValueTypes, ScalarOrVector, uint8, SInt, Float, Bool
<1>2. v.name \in BuiltinNames
  BY DEF BuiltinNames
<1> HIDE DEF Builtins
<1>3. \E name, t, read, write :
        /\ v = Builtin(name, t, read, write) /\ t \in {SInt, Float, Bool, 14, 16}
        /\ read \subseteq Stages /\ write \subseteq Stages
  <2>1. CASE stage = "Vertex"
    <3>1. Builtins(stage) =
            {Builtin("$VertexIndex", SInt, {stage}, {}), Builtin("$InstanceIndex", SInt, {stage}, {}),
             Builtin("$Position", 16, {}, {stage}), Builtin("$PointSize", Float, {}, {stage})}
      BY <2>1 DEF Builtins
    <3> QED
      BY <3>1
  <2>2. CASE stage # "Vertex"
    <3>1. Builtins(stage) =
            {Builtin("$FragCoord", 16, {stage}, {}), Builtin("$FrontFacing", Bool, {stage}, {}),
             Builtin("$PointCoord", 14, {stage}, {}), Builtin("$FragDepth", Float, {stage}, {stage})}
      BY <2>2 DEF Builtins
    <3> QED
      BY <3>1
  <2> QED
    BY <2>1, <2>2
<1>4. PICK name, t, read, write :
        /\ v = Builtin(name, t, read, write) /\ t \in {SInt, Float, Bool, 14, 16}
        /\ read \subseteq Stages /\ write \subseteq Stages
  BY <1>3
<1>5. v.name = name /\ v.at = 0 /\ v.scope = "Builtin"
  BY <1>4 DEF Builtin
<1>6. PlainType(t) \in HLSVType
  BY <1>1, <1>4
<1>7. v \in VariableRecord
  BY <1>2, <1>4, <1>5, <1>6 DEF Builtin, VariableRecord, Identifiers
<1> QED
  BY <1>2, <1>5, <1>7

LEMMA BuiltinsDiffer ==
  ASSUME NEW stage \in Stages, NEW v \in Builtins(stage), NEW w \in Builtins(stage),
         v.name = w.name
  PROVE  v = w
  BY DEF Builtins, Builtin

\* What is let through means a variable in scope, of a stage that may use it.
LEMMA GroundedMeans ==
  ASSUME Typed, GlobalsOutside, Scopes, current_stage \in Stages, NEW u, Grounded(u)
  PROVE  /\ Means(blocks, Len(blocks), u)
         /\ Permitted(current_stage, globals, u)
         /\ u \in UseRecord
<1> DEFINE v == FindVariable(u.name)
<1>1. u.name \in KnownNames /\ u.at = v.at /\ u.mode \in {"read", "write", "update"}
      /\ DOMAIN u = {"name", "at", "mode"}
      /\ u = [name |-> u.name, at |-> u.at, mode |-> u.mode]
  BY DEF Grounded, Use, CanRead, CanWrite
<1>2. /\ v.name = u.name
      /\ \/ \E k \in 1 .. Len(blocks) : v \in blocks[k].vars
         \/ /\ v \in globals
            /\ \A k \in 1 .. Len(blocks) : \A w \in blocks[k].vars : w.name # u.name
  BY <1>1, FoundVariable DEF Scopes
<1>3. \/ v.scope = "Block"
      \/ u.mode = "read" /\ current_stage \in v.read
      \/ u.mode # "read" /\ current_stage \in v.write
  BY DEF Grounded, CanRead, CanWrite
<1> HIDE DEF v
<1>4. v \in VariableRecord
  BY <1>2, ScopeTypes DEF Typed
<1>5. v.name \in Names \cup BuiltinNames /\ v.at \in Nat
  BY <1>4 DEF VariableRecord, Identifiers
<1>6. u.name # NoName
  BY <1>2, <1>5, NoNameAssumption
<1>7. Means(blocks, Len(blocks), u)
  <2>1. CASE \E k \in 1 .. Len(blocks) : v \in blocks[k].vars
    <3>1. PICK k \in 1 .. Len(blocks) : v \in blocks[k].vars
      BY <2>1
    <3>2. \A l \in 1 .. Len(blocks) : \A w \in blocks[l].vars : w.name = u.name => w = v
      BY <1>2, <3>1 DEF Scopes, Distinct
    <3> QED
      BY <1>1, <1>2, <1>6, <3>1, <3>2 DEF Means
  <2>2. CASE v \in globals /\ \A k \in 1 .. Len(blocks) : \A w \in blocks[k].vars : w.name # u.name
    BY <1>1, <1>6, <2>2 DEF Means, GlobalsOutside
  <2> QED
    BY <1>2, <2>1, <2>2
<1>8. Permitted(current_stage, globals, u)
  <2> SUFFICES ASSUME u.at = 0
               PROVE  \E w \in globals \cup Builtins(current_stage) :
                        /\ w.name = u.name
                        /\ current_stage \in IF u.mode = "read" THEN w.read ELSE w.write
    BY DEF Permitted
  <2>1. v \in globals \cup Builtins(current_stage)
    BY <1>1, <1>2 DEF Scopes, Origin
  <2>2. v.scope # "Block"
    BY <2>1, BuiltinRecords DEF GlobalsOutside, GlobalScopes
  <2> QED
    BY <1>2, <1>3, <2>1, <2>2
<1>9. u \in UseRecord
  BY <1>1, <1>2, <1>5 DEF UseRecord, Identifiers
<1> QED
  BY <1>7, <1>8, <1>9

-----------------------------------------------------------------------------
(* An expression that is accepted uses what it may. *)

LEMMA ErrorIsNoValue == ~ IsValueType(Error) /\ ~ IsScalarInteger(Error)
  BY DEF IsValueType, IsScalarInteger, IsScalarType, ValueTypes, ScalarOrVector, Matrices,
         Error, Bool, Mat2, Mat4

LEMMA AtomGrounded ==
  ASSUME NEW a, Valid(AtomType(a)) PROVE \A u \in AtomUses(a) : Grounded(u)
<1> SUFFICES ASSUME a.kind = "var" PROVE Grounded(Use(a.name, "read"))
  BY DEF AtomUses
<1>1. CanRead(a.name)
  BY DEF Valid, AtomType
<1> QED
  BY <1>1 DEF Grounded, Use

LEMMA LvalueGrounded ==
  ASSUME NEW lv, Valid(LvalueType(lv)), NEW mode \in {"write", "update"}
  PROVE  \A u \in LvalueUses(lv, mode) : Grounded(u)
<1>1. CanWrite(lv.name) /\ \A index \in Indexes(lv) : IsCounter(AtomType(index))
  BY DEF LvalueType, Valid
<1>2. Grounded(Use(lv.name, mode))
  BY <1>1 DEF Grounded, Use
<1>3. ASSUME NEW index \in Indexes(lv) PROVE \A u \in AtomUses(index) : Grounded(u)
  <2>1. IsCounter(AtomType(index))
    BY <1>1
  <2>2. Valid(AtomType(index))
    BY <2>1, ErrorIsNoValue DEF Valid, ErrorType, PlainType, IsCounter
  <2> QED
    BY <2>2, AtomGrounded
<1> QED
  BY <1>2, <1>3 DEF LvalueUses

LEMMA TargetGrounded ==
  ASSUME NEW lv, Valid(LvalueType(lv)), NEW op PROVE \A u \in TargetUses(lv, op) : Grounded(u)
BY LvalueGrounded DEF TargetUses

LEMMA CounterIsValid == ASSUME NEW vt, IsCounter(vt) PROVE Valid(vt)
  BY ErrorIsNoValue DEF IsCounter, Valid, ErrorType, PlainType

LEMMA UsesGrounded ==
  ASSUME NEW e, NEW infer, Valid(TypeOf(e, infer)) PROVE \A u \in UsesOf(e) : Grounded(u)
<1>1. CASE e.kind = "step"
  <2>1. Valid(LvalueType(e.lval))
    BY <1>1, CounterIsValid DEF TypeOf, Valid
  <2> QED
    BY <1>1, <2>1, LvalueGrounded DEF UsesOf
<1>2. CASE e.kind = "binary"
  <2>1. PlainType(CheckBinaryOperator(e.op, AtomType(e.left), AtomType(e.right))) # PlainType(Error)
    BY <1>2 DEF TypeOf, Valid, ErrorType
  <2>2. CheckBinaryOperator(e.op, AtomType(e.left), AtomType(e.right)) # Error
    BY <2>1
  <2>3. IsValueType(AtomType(e.left).type) /\ IsValueType(AtomType(e.right).type)
    BY <2>2 DEF CheckBinaryOperator
  <2>4. Valid(AtomType(e.left)) /\ Valid(AtomType(e.right))
    BY <2>3, ErrorIsNoValue DEF Valid, ErrorType, PlainType
  <2> QED
    BY <1>2, <2>4, AtomGrounded DEF UsesOf
<1>3. CASE e.kind = "list"
  <2>1. Valid(ListType(e.args, infer))
    BY <1>3 DEF TypeOf
  <2>2. ErrorType \notin ToSet([i \in DOMAIN e.args |-> AtomType(e.args[i])])
    BY <2>1 DEF ListType, Valid
  <2>3. \A i \in DOMAIN e.args : Valid(AtomType(e.args[i]))
    BY <2>2 DEF ToSet, Valid
  <2>4. \A a \in ToSet(e.args) : \A u \in AtomUses(a) : Grounded(u)
    BY <2>3, AtomGrounded DEF ToSet
  <2> QED
    BY <1>3, <2>4 DEF UsesOf
<1>4. CASE e.kind \notin {"step", "binary", "list"}
  <2>1. TypeOf(e, infer) = AtomType(e) /\ UsesOf(e) = AtomUses(e)
    BY <1>4 DEF TypeOf, UsesOf
  <2> QED
    BY <2>1, AtomGrounded
<1> QED
  BY <1>1, <1>2, <1>3, <1>4

LEMMA UpdateGrounded ==
  ASSUME NEW upd, UpdateOK(upd) PROVE \A u \in UpdateUses(upd) : Grounded(u)
<1>1. Valid(LvalueType(upd.lval))
  BY CounterIsValid DEF UpdateOK
<1>2. upd.kind # "step" => Valid(TypeOf(upd.value, ErrorType))
  BY DEF UpdateOK
<1> QED
  BY <1>1, <1>2, LvalueGrounded, TargetGrounded, UsesGrounded DEF UpdateUses

-----------------------------------------------------------------------------
(* The steps keep the scopes and the text alike. *)

ScopesInv ==
  /\ Typed /\ GlobalsOutside /\ FirstLines /\ Meaning
  /\ Visiting =>
       /\ Declared(Text, blocks, Opened) /\ Standing(Text, blocks, Opened)
       /\ Scopes /\ HeaderOpen

LEMMA InvFacts ==
  ASSUME IInv, ScopesInv, Visiting
  PROVE  /\ Typed /\ GlobalsOutside /\ FirstLines /\ Meaning /\ Scopes /\ HeaderOpen
         /\ Declared(Text, blocks, Opened) /\ Standing(Text, blocks, Opened)
         /\ current_stage \in Stages /\ IsText(Text) /\ Len(Text) \in Nat /\ Text \in Seq(LineRecord)
         /\ IsASequence(blocks) /\ Len(blocks) \in Nat /\ Len(blocks) >= 1
         /\ indent = Opened /\ Opened \in Nat
         /\ status = "function" => Opened = Len(blocks)
<1>1. current_stage \in Stages /\ Len(blocks) >= 1 /\ indent = Opened
  BY DEF IInv, Control, Depth
<1>2. IsText(Text) /\ Len(Text) \in Nat
  BY <1>1, AppendToSequence DEF IInv, Texts, Text, IsText
<1>3. IsASequence(blocks) /\ Len(blocks) \in Nat
  BY ScopeTypes DEF ScopesInv
<1>4. Text \in Seq(LineRecord)
  BY <1>1 DEF ScopesInv, Typed, Text
<1> QED
  BY <1>1, <1>2, <1>3, <1>4 DEF ScopesInv, Opened

LEMMA EmitTyped ==
  ASSUME Typed, current_stage \in Stages, NEW line \in LineRecord, Emit(line)
  PROVE  /\ text' \in [Stages -> Seq(LineRecord)]
         /\ text'[current_stage] = Append(Text, line)
<1>1. Text \in Seq(LineRecord)
  BY DEF Typed, Text
<1>2. Append(Text, line) \in Seq(LineRecord)
  BY <1>1, AppendProperties
<1> QED
  BY <1>2 DEF Emit, Typed, Text

\* The stack b is that of a step from here: only its innermost scope is new or
\* has a new variable, one of added.
StackStep(b, added) ==
  /\ \A v \in added : /\ v.scope = "Block" /\ v.at # 0 /\ v.name \notin KnownNames
                      /\ \A w \in added : w = v
  /\ Len(b) \in Nat /\ Len(b) <= Len(blocks) + 1
  /\ \A l \in 1 .. Len(b) - 1 : b[l].vars = blocks[l].vars
  /\ \A v \in b[Len(b)].vars :
       \/ v \in added
       \/ Len(b) <= Len(blocks) /\ v \in blocks[Len(b)].vars
  /\ \A k \in 1 .. Len(b) : \A u \in b[k].cond :
       \/ k <= Len(blocks) /\ u \in blocks[k].cond
       \/ /\ k = Len(blocks) + 1
          /\ Means(blocks, Len(blocks), u) /\ Permitted(current_stage, globals, u)

LEMMA ScopesOver ==
  ASSUME Typed, Scopes, UNCHANGED <<globals, current_stage>>,
         NEW added, StackStep(blocks', added)
  PROVE  Scopes'
<1> DEFINE b == blocks'
           n == Len(blocks')
           m == Len(blocks)
<1> USE DEF StackStep
<1>0. m \in Nat /\ DOMAIN blocks = 1 .. m
  BY ScopeTypes
<1>1. ASSUME NEW k \in 1 .. n, NEW v \in b[k].vars
      PROVE  (k \in 1 .. m /\ v \in blocks[k].vars) \/ (k = n /\ v \in added)
  <2>1. CASE k = n
    BY <1>0, <1>1, <2>1
  <2>2. CASE k # n
    <3>1. k \in 1 .. n - 1 /\ k \in 1 .. m
      BY <1>0, <2>2
    <3> QED
      BY <1>1, <3>1
  <2> QED
    BY <2>1, <2>2
<1>2. ASSUME NEW k \in 1 .. m, NEW v \in blocks[k].vars PROVE v.name \in KnownNames
  BY <1>0 DEF KnownNames, FunctionNames, NamesIn
<1>3. Distinct(b)
  <2> SUFFICES ASSUME NEW k \in 1 .. n, NEW l \in 1 .. n, NEW v \in b[k].vars, NEW w \in b[l].vars,
                      v.name = w.name
               PROVE  v = w /\ k = l
    BY DEF Distinct
  <2>1. (k \in 1 .. m /\ v \in blocks[k].vars) \/ (k = n /\ v \in added)
    BY <1>1
  <2>2. (l \in 1 .. m /\ w \in blocks[l].vars) \/ (l = n /\ w \in added)
    BY <1>1
  <2> HIDE DEF b, n, m
  <2>3. CASE k \in 1 .. m /\ v \in blocks[k].vars /\ l \in 1 .. m /\ w \in blocks[l].vars
    BY <2>3 DEF Scopes, Distinct, m
  <2> QED
    BY <1>2, <2>1, <2>2, <2>3
<1>4. ASSUME NEW k \in 1 .. n, NEW v \in b[k].vars
      PROVE  /\ v.name \notin NamesIn(globals)
             /\ IF v.at = 0 THEN v \in Builtins(current_stage) ELSE v.scope = "Block"
  <2>1. CASE k \in 1 .. m /\ v \in blocks[k].vars
    BY <2>1 DEF Scopes, NotGlobal, Origin
  <2>2. CASE v \in added
    BY <2>2 DEF KnownNames
  <2> QED
    BY <1>1, <1>4, <2>1, <2>2
<1>5. ASSUME NEW k \in 1 .. n, NEW u \in b[k].cond
      PROVE  Means(b, k - 1, u) /\ Permitted(current_stage, globals, u)
  <2>1. \A l \in 1 .. k - 1 : b[l].vars = blocks[l].vars
    <3>1. \A l \in 1 .. k - 1 : l \in 1 .. n - 1
      OBVIOUS
    <3> QED
      BY <3>1
  <2>2. Means(blocks, k - 1, u) /\ Permitted(current_stage, globals, u)
    <3>1. CASE k <= m /\ u \in blocks[k].cond
      <4>1. k \in 1 .. m
        BY <3>1
      <4> QED
        BY <3>1, <4>1 DEF Scopes, CondsMean
    <3>2. CASE /\ k = m + 1
               /\ Means(blocks, m, u) /\ Permitted(current_stage, globals, u)
      <4>1. k - 1 = m
        BY <1>0, <3>2
      <4> QED
        BY <3>2, <4>1
    <3> QED
      BY <1>5, <3>1, <3>2
  <2> HIDE DEF b
  <2> QED
    BY <2>1, <2>2 DEF Means
<1>6. NotGlobal(b) /\ Origin(b) /\ CondsMean(b)
  BY <1>4, <1>5 DEF NotGlobal, Origin, CondsMean
<1> QED
  BY <1>3, <1>6 DEF Scopes, NotGlobal, Origin, CondsMean

\* A line whose uses mean what is in scope where it stands.
LEMMA LineFitsScopes ==
  ASSUME IInv, ScopesInv, Visiting, NEW line \in LineRecord, line.indent <= Opened,
         \A u \in line.uses :
           (line.op = "for" /\ u.at = NextLine) \/ Means(blocks, line.indent, u),
         \A u \in line.loop_uses :
           \/ u.name = line.name /\ u.at = NextLine
           \/ u.name # line.name /\ Means(blocks, line.indent, u),
         line.name # NoName =>
           \A k \in 1 .. line.indent : \A v \in blocks[k].vars : v.name # line.name,
         LinePermitted(current_stage, globals, line)
  PROVE  LineFits(line)
<1> DEFINE i == Len(Text) + 1
           t == Append(Text, line)
<1>1. /\ IsText(Text) /\ Len(Text) \in Nat /\ Opened \in Nat
      /\ Declared(Text, blocks, Opened) /\ Standing(Text, blocks, Opened)
      /\ line.indent \in Nat
      /\ \A u \in line.uses \cup line.loop_uses : u.at \in Nat
  BY InvFacts DEF LineRecord, UseRecord
<1>2. t[i] = line
  BY <1>1, AppendToSequence DEF IsText
<1>3. i - 1 = Len(Text)
  BY <1>1
<1>4. ASSUME NEW u, u.at \in Nat, Means(blocks, line.indent, u)
      PROVE  GlslDeclaration(t, u.name, i, Len(Text)) = u.at
  BY <1>1, <1>4, NewLineMeans
<1>5. \A u \in line.uses : (line.op = "for" /\ u.at = i) \/ GlslDeclaration(t, u.name, i, Len(Text)) = u.at
  BY <1>1, <1>4 DEF NextLine
<1>6. ASSUME NEW u \in line.loop_uses PROVE GlslDeclaration(t, u.name, i, i) = u.at
  <2>1. CASE u.name = line.name /\ u.at = NextLine
    BY <1>1, <2>1, OwnDeclaration DEF NextLine
  <2>2. CASE u.name # line.name /\ Means(blocks, line.indent, u)
    <3>1. GlslDeclaration(t, u.name, i, Len(Text)) = u.at
      BY <1>1, <1>4, <2>2
    <3> QED
      BY <1>1, <2>2, <3>1, OtherName
  <2> QED
    BY <2>1, <2>2
<1>7. ASSUME line.name # NoName PROVE GlslDeclaration(t, line.name, i, Len(Text)) = 0
  <2> DEFINE outside == [name |-> line.name, at |-> 0]
  <2>1. Means(blocks, line.indent, outside) /\ outside.at \in Nat
    BY <1>7 DEF Means
  <2>2. GlslDeclaration(t, outside.name, i, Len(Text)) = outside.at
    BY <1>4, <2>1
  <2> QED
    BY <2>2
<1> HIDE DEF t, i
<1>8. LineMeans(t, i)
  BY <1>2, <1>3, <1>5, <1>6, <1>7 DEF LineMeans
<1> QED
  BY <1>8 DEF LineFits, t, i

\* What every step that emits a line and goes on visiting keeps.
LEMMA LineKeeps ==
  ASSUME IInv, IInv', ScopesInv, Visiting,
         NEW line \in LineRecord, Emit(line), line.indent <= Opened, LineFits(line),
         status' = "function", UNCHANGED <<current_stage, globals>>, branch' \in BOOLEAN,
         blocks' \in Seq(ScopeRecord), After(Text, line, blocks, blocks', Len(blocks')), Scopes'
  PROVE  ScopesInv'
<1>1. /\ IsText(Text) /\ Opened \in Nat /\ current_stage \in Stages
      /\ Declared(Text, blocks, Opened) /\ Standing(Text, blocks, Opened)
      /\ Typed /\ GlobalsOutside /\ FirstLines /\ Meaning
      /\ line.indent \in Nat
  BY InvFacts DEF LineRecord
<1>2. text' \in [Stages -> Seq(LineRecord)] /\ text'[current_stage] = Append(Text, line)
  BY <1>1, EmitTyped
<1>3. Opened' = Len(blocks') /\ Text' = Append(Text, line) /\ indent' \in Nat
  <2>1. indent' = Len(blocks')
    BY DEF IInv, Depth, Visiting, Opened
  <2> QED
    BY <1>1, <1>2, <2>1 DEF Opened, Text
<1>4. Typed'
  BY <1>1, <1>2, <1>3 DEF Typed
<1>5. Meaning' /\ FirstLines'
  BY <1>1, EmitMeans DEF IInv
<1>6. Declared(Append(Text, line), blocks', Len(blocks'))
      /\ Standing(Append(Text, line), blocks', Len(blocks'))
  BY <1>1, ScopesAppend
<1>7. Declared(Text', blocks', Opened') /\ Standing(Text', blocks', Opened')
  BY <1>3, <1>6
<1>8. GlobalsOutside' /\ HeaderOpen'
  BY <1>1 DEF GlobalsOutside, HeaderOpen
<1> QED
  BY <1>4, <1>5, <1>7, <1>8 DEF ScopesInv, Declared, Standing

-----------------------------------------------------------------------------
(* The types of what the steps make. *)

LEMMA LineTyped ==
  ASSUME NEW op \in LineOps, NEW d \in Nat, NEW name \in Names \cup {NoName},
         NEW uses \in SUBSET UseRecord, NEW loop_uses \in SUBSET UseRecord
  PROVE  /\ Line(op, d, name, uses, loop_uses) \in LineRecord
         /\ Line(op, d, name, uses, loop_uses).op = op
         /\ Line(op, d, name, uses, loop_uses).indent = d
         /\ Line(op, d, name, uses, loop_uses).name = name
         /\ Line(op, d, name, uses, loop_uses).uses = uses
         /\ Line(op, d, name, uses, loop_uses).loop_uses = loop_uses
  BY DEF Line, LineRecord

LEMMA VariableTyped ==
  ASSUME NEW name \in Identifiers, NEW vt \in HLSVType, NEW scope \in GlobalScopes \cup {"Block"},
         NEW at \in Nat
  PROVE  /\ NewVariable(name, vt, scope, at) \in VariableRecord
         /\ NewVariable(name, vt, scope, at).name = name
         /\ NewVariable(name, vt, scope, at).scope = scope
         /\ NewVariable(name, vt, scope, at).at = at
<1>1. ReadStages(scope) \subseteq Stages /\ WriteStages(scope) \subseteq Stages
  BY DEF ReadStages, WriteStages, Stages
<1> QED
  BY <1>1 DEF NewVariable, VariableRecord

LEMMA DeclarationTyped ==
  ASSUME NEW d \in Decls, NEW taken, ParseVariableOK(d, taken)
  PROVE  ParsedType(d) \in HLSVType /\ d.name \in Names /\ d.name # NoName /\ d.name \notin taken
<1>1. /\ d.name \in Names /\ d.prim \in PrimTypes
      /\ d.size = NoSize \/ d.size \in 1 .. 255
      /\ \/ d.targ.val \in PrimTypes
         \/ d.targ.val \in Nat \cup {Unparsable}
      /\ d.name \notin taken
  BY FunctionDeclsAssumption DEF IsDeclaration, ParseVariableOK
<1>2. d.targ.val \in Int
  BY <1>1 DEF PrimTypes, ValueTypes, ScalarOrVector, Matrices, Handles, Unparsable,
              Void, Error, Bool, Mat2, Mat4, Tex1D, SubpassInput
<1>3. Uint8(d.targ.val) \in uint8
  BY <1>2 DEF Uint8, uint8
<1>4. 0 \in uint8 /\ 1 \in uint8 /\ 1 .. 255 \subseteq uint8
  BY DEF uint8
<1>5. ParsedType(d) \in HLSVType
  BY <1>1, <1>3, <1>4 DEF ParsedType, HLSVType
<1> QED
  BY <1>1, <1>5, NoNameAssumption

IsBlockVariable(v, name, at) ==
  v \in VariableRecord /\ v.name = name /\ v.scope = "Block" /\ v.at = at

LEMMA BlockVariable ==
  ASSUME NEW d \in Decls, NEW taken, ParseVariableOK(d, taken), NEW at \in Nat
  PROVE  IsBlockVariable(NewVariable(d.name, ParsedType(d), "Block", at), d.name, at)
<1>1. d.name \in Identifiers /\ ParsedType(d) \in HLSVType
  BY DeclarationTyped DEF Identifiers
<1> DEFINE vt == ParsedType(d)
           name == d.name
<1> HIDE DEF vt, name
<1>2. "Block" \in GlobalScopes \cup {"Block"} /\ name \in Identifiers /\ vt \in HLSVType
  BY <1>1 DEF vt, name
<1>3. IsBlockVariable(NewVariable(name, vt, "Block", at), name, at)
  BY <1>2, VariableTyped DEF IsBlockVariable
<1> QED
  BY <1>3 DEF vt, name

\* Uses that are let through: what a line or a condition may have.
LEMMA AllGrounded ==
  ASSUME IInv, ScopesInv, Visiting, NEW uses, \A u \in uses : Grounded(u)
  PROVE  /\ uses \in SUBSET UseRecord
         /\ \A u \in uses : /\ Means(blocks, Len(blocks), u)
                            /\ Permitted(current_stage, globals, u)
  BY InvFacts, GroundedMeans

LEMMA ScopeTyped ==
  ASSUME NEW construct \in Constructs, NEW variables \in SUBSET VariableRecord,
         NEW cond \in SUBSET UseRecord
  PROVE  /\ Scope(construct, variables, cond) \in ScopeRecord
         /\ Scope(construct, variables, cond).vars = variables
         /\ Scope(construct, variables, cond).cond = cond
  BY DEF Scope, ScopeRecord, BlockType

-----------------------------------------------------------------------------
(* Statements that emit one line. *)

\* An assignment or a jump: the scopes stay as they are.
LEMMA UsingScopes ==
  ASSUME IInv, IInv', ScopesInv, Statement, UNCHANGED blocks,
         NEW op \in LineOps \ {"for"}, NEW uses, \A u \in uses : Grounded(u),
         Emit(Line(op, indent, NoName, uses, {}))
  PROVE  ScopesInv'
<1> DEFINE line == Line(op, indent, NoName, uses, {})
<1>1. /\ Visiting /\ status = "function" /\ status' = "function" /\ branch' \in BOOLEAN
      /\ UNCHANGED <<current_stage, globals>>
  BY DEF Statement, Visiting
<1>2. /\ Opened = Len(blocks) /\ Len(blocks) \in Nat /\ indent = Len(blocks)
      /\ Scopes /\ Typed
  BY <1>1, InvFacts
<1>3. /\ uses \in SUBSET UseRecord
      /\ \A u \in uses : Means(blocks, Len(blocks), u) /\ Permitted(current_stage, globals, u)
  BY <1>1, AllGrounded
<1>4. /\ line \in LineRecord /\ line.op = op /\ line.indent = Len(blocks) /\ line.name = NoName
      /\ line.uses = uses /\ line.loop_uses = {}
  BY <1>2, <1>3, LineTyped
<1>5. Emit(line)
  OBVIOUS
<1> HIDE DEF line
<1>6. LineFits(line)
  <2>1. LinePermitted(current_stage, globals, line)
    BY <1>3, <1>4 DEF LinePermitted
  <2>2. line.indent <= Opened
    BY <1>2, <1>4
  <2> QED
    BY <1>1, <1>3, <1>4, <2>1, <2>2, LineFitsScopes
<1>7. After(Text, line, blocks, blocks', Len(blocks'))
  BY <1>2, <1>4 DEF After
<1>8. Scopes' /\ blocks' \in Seq(ScopeRecord) /\ line.indent <= Opened
  BY <1>1, <1>2, <1>4 DEF Scopes, Distinct, NotGlobal, Origin, CondsMean, Means, Permitted, Typed
<1> QED
  BY <1>1, <1>4, <1>5, <1>6, <1>7, <1>8, LineKeeps

LEMMA AddedVariable ==
  ASSUME Typed, Len(blocks) >= 1, NEW v \in VariableRecord, blocks' = AddVariable(v)
  PROVE  /\ blocks' \in Seq(ScopeRecord) /\ Len(blocks') = Len(blocks)
         /\ \A k \in 1 .. Len(blocks) - 1 : blocks'[k] = blocks[k]
         /\ blocks'[Len(blocks)].vars = blocks[Len(blocks)].vars \cup {v}
         /\ blocks'[Len(blocks)].cond = blocks[Len(blocks)].cond
<1> DEFINE e == [Here EXCEPT !.vars = @ \cup {v}]
           n == Len(blocks)
<1>1. IsASequence(blocks) /\ n \in Nat /\ n \in 1 .. n
  BY ScopeTypes
<1>2. Here \in ScopeRecord
  BY <1>1, ScopeTypes DEF Here, Innermost
<1>3. e \in ScopeRecord /\ e.vars = Here.vars \cup {v} /\ e.cond = Here.cond
  BY <1>2 DEF ScopeRecord
<1>4. blocks' = [blocks EXCEPT ![n] = e]
  BY DEF AddVariable, Innermost, Here
<1> HIDE DEF e
<1>5. blocks' \in Seq(ScopeRecord)
  BY <1>1, <1>3, <1>4, ExceptSeq DEF Typed
<1>6. /\ Len(blocks') = n /\ blocks'[n] = e
      /\ \A i \in 1 .. n - 1 : blocks'[i] = blocks[i]
  <2>1. /\ Len([blocks EXCEPT ![n] = e]) = n
        /\ [blocks EXCEPT ![n] = e][n] = e
        /\ \A i \in 1 .. n - 1 : [blocks EXCEPT ![n] = e][i] = blocks[i]
    BY <1>1, ExceptSequence
  <2> HIDE DEF n
  <2> QED
    BY <1>4, <2>1, Zenon
<1> QED
  BY <1>3, <1>5, <1>6 DEF Here, Innermost

\* A declaration or definition: its variable is the line's.
LEMMA DeclaringScopes ==
  ASSUME IInv, IInv', ScopesInv, Statement, NEW d \in Decls, LocalVariableOK(d),
         blocks' = AddVariable(NewVariable(d.name, ParsedType(d), "Block", NextLine)),
         NEW op \in {"declare", "define"}, NEW uses, \A u \in uses : Grounded(u),
         Emit(Line(op, indent, d.name, uses, {}))
  PROVE  ScopesInv'
<1> DEFINE line == Line(op, indent, d.name, uses, {})
           v == NewVariable(d.name, ParsedType(d), "Block", NextLine)
           n == Len(blocks)
<1>1. /\ Visiting /\ status = "function" /\ status' = "function" /\ branch' \in BOOLEAN
      /\ UNCHANGED <<current_stage, globals>>
  BY DEF Statement, Visiting
<1>2. /\ Opened = n /\ n \in Nat /\ n >= 1 /\ indent = n
      /\ Scopes /\ Typed /\ Len(Text) \in Nat
  BY <1>1, InvFacts
<1>3. /\ uses \in SUBSET UseRecord
      /\ \A u \in uses : Means(blocks, n, u) /\ Permitted(current_stage, globals, u)
  BY <1>1, AllGrounded
<1>4. /\ ParsedType(d) \in HLSVType /\ d.name \in Names /\ d.name # NoName
      /\ d.name \notin KnownNames
  BY DeclarationTyped DEF LocalVariableOK
<1>5. /\ v \in VariableRecord /\ v.name = d.name /\ v.scope = "Block" /\ v.at = Len(Text) + 1
      /\ v.at # 0
  <2>1. NextLine \in Nat /\ NextLine = Len(Text) + 1 /\ NextLine # 0
    BY <1>2 DEF NextLine
  <2>3. IsBlockVariable(v, d.name, NextLine)
    BY <2>1, BlockVariable DEF LocalVariableOK
  <2> HIDE DEF v
  <2> QED
    BY <2>1, <2>3 DEF IsBlockVariable
<1>6. /\ line \in LineRecord /\ line.op = op /\ line.indent = n /\ line.name = d.name
      /\ line.uses = uses /\ line.loop_uses = {}
  <2>1. op \in LineOps /\ indent \in Nat /\ d.name \in Names \cup {NoName}
    BY <1>2, <1>4 DEF LineOps
  <2>2. /\ line \in LineRecord /\ line.op = op /\ line.indent = indent /\ line.name = d.name
        /\ line.uses = uses /\ line.loop_uses = {}
    BY <1>3, <2>1, LineTyped
  <2> HIDE DEF line
  <2> QED
    BY <1>2, <2>2
<1>7. Emit(line) /\ blocks' = AddVariable(v)
  OBVIOUS
<1>8. DeclaredIndent(line) = n
  BY <1>6 DEF DeclaredIndent
<1> HIDE DEF line, v
<1>9. /\ blocks' \in Seq(ScopeRecord) /\ Len(blocks') = n
      /\ \A k \in 1 .. n - 1 : blocks'[k] = blocks[k]
      /\ blocks'[n].vars = blocks[n].vars \cup {v} /\ blocks'[n].cond = blocks[n].cond
  BY <1>2, <1>5, <1>7, AddedVariable
<1>10. \A k \in 1 .. n : \A w \in blocks[k].vars : w.name # d.name
  <2>1. DOMAIN blocks = 1 .. n
    BY <1>2, ScopeTypes
  <2> QED
    BY <1>4, <2>1 DEF KnownNames, FunctionNames, NamesIn
<1> HIDE DEF n
<1>11. LineFits(line)
  <2>1. LinePermitted(current_stage, globals, line)
    BY <1>3, <1>6 DEF LinePermitted
  <2>2. line.indent <= Opened
    BY <1>2, <1>6
  <2> QED
    BY <1>1, <1>3, <1>6, <1>10, <2>1, <2>2, LineFitsScopes
<1>0. n \in 1 .. n /\ \A k \in 1 .. n : k = n \/ k \in 1 .. n - 1
  BY <1>2
<1>12. After(Text, line, blocks, blocks', Len(blocks'))
  <2>1. \A k \in 1 .. n : /\ blocks[k].vars \subseteq blocks'[k].vars
                          /\ \A w \in blocks'[k].vars : w \in blocks[k].vars \/ (k = n /\ w = v)
    BY <1>0, <1>9
  <2>2. v \in blocks'[n].vars
    BY <1>9
  <2> QED
    BY <1>0, <1>5, <1>6, <1>8, <1>9, <2>1, <2>2 DEF After
<1>13. Scopes'
  <2>1. \A w \in {v} : /\ w.scope = "Block" /\ w.at # 0 /\ w.name \notin KnownNames
                       /\ \A x \in {v} : x = w
    BY <1>4, <1>5
  <2>2. \A k \in 1 .. n : blocks'[k].cond = blocks[k].cond
    BY <1>0, <1>9
  <2>3. \A k \in 1 .. Len(blocks') : \A u \in blocks'[k].cond : k <= Len(blocks) /\ u \in blocks[k].cond
    BY <1>2, <1>9, <2>2 DEF n
  <2>4. /\ Len(blocks') \in Nat /\ Len(blocks') <= Len(blocks) + 1
        /\ \A l \in 1 .. Len(blocks') - 1 : blocks'[l].vars = blocks[l].vars
        /\ \A w \in blocks'[Len(blocks')].vars :
             w \in {v} \/ (Len(blocks') <= Len(blocks) /\ w \in blocks[Len(blocks')].vars)
    BY <1>2, <1>9 DEF n
  <2>5. StackStep(blocks', {v})
    BY <2>1, <2>3, <2>4 DEF StackStep
  <2> QED
    BY <1>1, <1>2, <2>5, ScopesOver
<1> QED
  BY <1>1, <1>2, <1>6, <1>7, <1>9, <1>11, <1>12, <1>13, LineKeeps

-----------------------------------------------------------------------------
(* Statements with a body. *)

LEMMA PushedScope ==
  ASSUME Typed, NEW scope \in ScopeRecord, blocks' = Append(blocks, scope)
  PROVE  /\ blocks' \in Seq(ScopeRecord) /\ Len(blocks') = Len(blocks) + 1
         /\ \A k \in 1 .. Len(blocks) : blocks'[k] = blocks[k]
         /\ blocks'[Len(blocks) + 1] = scope
<1>1. blocks' \in Seq(ScopeRecord)
  BY AppendProperties DEF Typed
<1>2. IsASequence(blocks)
  BY ScopeTypes
<1> QED
  BY <1>1, <1>2, AppendToSequence

LEMMA PushStep ==
  ASSUME Typed, NEW scope \in ScopeRecord, blocks' = Append(blocks, scope),
         \A v \in scope.vars : /\ v.scope = "Block" /\ v.at # 0 /\ v.name \notin KnownNames
                               /\ \A w \in scope.vars : w = v,
         \A u \in scope.cond : /\ Means(blocks, Len(blocks), u)
                               /\ Permitted(current_stage, globals, u)
  PROVE  StackStep(blocks', scope.vars)
<1> DEFINE n == Len(blocks)
<1>1. n \in Nat /\ Len(blocks') = n + 1 /\ blocks'[n + 1] = scope
      /\ \A k \in 1 .. n : blocks'[k] = blocks[k]
  BY PushedScope, ScopeTypes
<1> HIDE DEF n
<1>2. \A l \in 1 .. Len(blocks') - 1 : blocks'[l].vars = blocks[l].vars
  <2>1. \A l \in 1 .. Len(blocks') - 1 : l \in 1 .. n
    BY <1>1
  <2> QED
    BY <1>1, <2>1
<1>3. ASSUME NEW k \in 1 .. Len(blocks'), NEW u \in blocks'[k].cond
      PROVE  \/ k <= n /\ u \in blocks[k].cond
             \/ /\ k = n + 1
                /\ Means(blocks, n, u) /\ Permitted(current_stage, globals, u)
  <2>1. CASE k = n + 1
    BY <1>1, <1>3, <2>1 DEF n
  <2>2. CASE k # n + 1
    <3>1. k \in 1 .. n
      BY <1>1, <2>2
    <3> QED
      BY <1>1, <1>3, <3>1
  <2> QED
    BY <2>1, <2>2
<1>4. Len(blocks') \in Nat /\ Len(blocks') <= n + 1 /\ blocks'[Len(blocks')].vars = scope.vars
  BY <1>1
<1> QED
  BY <1>2, <1>3, <1>4 DEF StackStep, n

LEMMA OpeningScopes ==
  ASSUME IInv, IInv', ScopesInv, NEW construct \in {"if", "elif", "else", "while", "do"},
         NEW uses, NEW cond, \A u \in uses \cup cond : Grounded(u),
         OpenBody(construct, uses, cond)
  PROVE  ScopesInv'
<1> DEFINE line == Line(construct, indent, NoName, uses, {})
           scope == Scope(construct, {}, cond)
           n == Len(blocks)
<1>1. /\ Visiting /\ status = "function" /\ status' = "function" /\ branch' \in BOOLEAN
      /\ UNCHANGED <<current_stage, globals>>
  BY DEF OpenBody, Visiting
<1>2. /\ Opened = n /\ n \in Nat /\ indent = n /\ Scopes /\ Typed
  BY <1>1, InvFacts
<1>3. /\ uses \in SUBSET UseRecord
      /\ \A u \in uses : Means(blocks, n, u) /\ Permitted(current_stage, globals, u)
      /\ cond \in SUBSET UseRecord
      /\ \A u \in cond : Means(blocks, n, u) /\ Permitted(current_stage, globals, u)
  BY <1>1, AllGrounded
<1>4. /\ line \in LineRecord /\ line.op = construct /\ line.indent = n /\ line.name = NoName
      /\ line.uses = uses /\ line.loop_uses = {}
  <2>1. construct \in LineOps
    BY DEF LineOps, Constructs
  <2> QED
    BY <1>2, <1>3, <2>1, LineTyped
<1>5. /\ scope \in ScopeRecord /\ scope.vars = {} /\ scope.cond = cond
  BY <1>3, ScopeTyped DEF Constructs
<1>6. Emit(line) /\ blocks' = Append(blocks, scope)
  BY DEF OpenBody, EmitUse
<1> HIDE DEF line, scope
<1>7. /\ blocks' \in Seq(ScopeRecord) /\ Len(blocks') = n + 1
      /\ \A k \in 1 .. n : blocks'[k] = blocks[k]
      /\ blocks'[n + 1] = scope
  BY <1>2, <1>5, <1>6, PushedScope
<1> HIDE DEF n
<1>8. LineFits(line)
  <2>1. LinePermitted(current_stage, globals, line)
    BY <1>3, <1>4 DEF LinePermitted
  <2>2. line.indent <= Opened
    BY <1>2, <1>4
  <2> QED
    BY <1>1, <1>3, <1>4, <2>1, <2>2, LineFitsScopes
<1>9. After(Text, line, blocks, blocks', Len(blocks'))
  <2>1. ASSUME NEW k \in 1 .. n + 1, NEW v \in blocks'[k].vars
        PROVE  k <= n /\ v \in blocks[k].vars
    <3>1. k # n + 1
      BY <1>5, <1>7, <2>1
    <3>2. k \in 1 .. n
      BY <1>2, <3>1
    <3> QED
      BY <1>7, <2>1, <3>2
  <2> QED
    BY <1>4, <1>7, <2>1 DEF After
<1>10. Scopes'
  <2>1. StackStep(blocks', {})
    BY <1>2, <1>3, <1>5, <1>6, PushStep DEF n
  <2> QED
    BY <1>1, <1>2, <2>1, ScopesOver
<1> QED
  BY <1>1, <1>2, <1>4, <1>6, <1>7, <1>8, <1>9, <1>10, LineKeeps

\* The counter of a for loop is in its scope before the loop has a line.
LEMMA ForLoopScopes ==
  ASSUME IInv, IInv', ScopesInv, NEW d \in Decls, ForLoop(d) PROVE ScopesInv'
<1> DEFINE counter == NewVariable(d.name, ParsedType(d), "Block", NextLine)
           scope == Scope("for", {counter}, {})
           n == Len(blocks)
<1>1. /\ Visiting /\ status = "function" /\ status' = "header"
      /\ UNCHANGED <<current_stage, globals, text, branch, indent>>
  BY DEF ForLoop, Visiting
<1>2. /\ Opened = n /\ n \in Nat /\ Scopes /\ Typed /\ Len(Text) \in Nat
      /\ Declared(Text, blocks, n) /\ Standing(Text, blocks, n)
      /\ GlobalsOutside /\ FirstLines /\ Meaning
  BY <1>1, InvFacts
<1>3. NextLine \in Nat /\ NextLine # 0
  BY <1>2 DEF NextLine
<1>4. IsBlockVariable(counter, d.name, NextLine) /\ d.name \notin KnownNames /\ d.name \in Names
  BY <1>3, BlockVariable, DeclarationTyped DEF ForLoop, CounterOK
<1>5. /\ counter \in VariableRecord /\ counter.name = d.name /\ counter.scope = "Block"
      /\ counter.at = NextLine
  BY <1>4 DEF IsBlockVariable
<1>6. blocks' = Append(blocks, scope)
  BY DEF ForLoop
<1> HIDE DEF counter
<1>7. scope \in ScopeRecord /\ scope.vars = {counter} /\ scope.cond = {}
  <2>1. {counter} \in SUBSET VariableRecord
    BY <1>5
  <2> QED
    BY <2>1, ScopeTyped DEF Constructs
<1> HIDE DEF scope
<1>8. /\ blocks' \in Seq(ScopeRecord) /\ Len(blocks') = n + 1
      /\ \A k \in 1 .. n : blocks'[k] = blocks[k]
      /\ blocks'[n + 1] = scope
  BY <1>2, <1>6, <1>7, PushedScope
<1>9. Scopes'
  <2>1. StackStep(blocks', {counter})
    BY <1>2, <1>3, <1>4, <1>5, <1>6, <1>7, PushStep
  <2> QED
    BY <1>1, <1>2, <2>1, ScopesOver
<1> HIDE DEF n
<1>10. Opened' = n /\ Text' = Text /\ NextLine' = NextLine
  BY <1>1, <1>2, <1>8 DEF Opened, Text, NextLine
<1>11. Declared(Text, blocks', n) /\ Standing(Text, blocks', n)
  BY <1>2, <1>8 DEF Declared, Standing
<1>12. HeaderOpen'
  BY <1>4, <1>5, <1>7, <1>8, <1>10 DEF HeaderOpen, Here, Innermost
<1>13. Typed' /\ GlobalsOutside' /\ FirstLines' /\ Meaning'
  BY <1>1, <1>2, <1>8
  DEF Typed, GlobalsOutside, FirstLines, Meaning, ScopesAgree, OwnNames, PermittedByStage
<1> QED
  BY <1>9, <1>10, <1>11, <1>12, <1>13 DEF ScopesInv, Declared, Standing

LEMMA ConditionIsValid == ASSUME NEW e, ConditionOK(e) PROVE Valid(TypeOf(e, ErrorType))
<1>1. PlainType(Bool).type # PlainType(Error).type
  BY DEF PlainType, Bool, Error
<1> QED
  BY <1>1 DEF ConditionOK, Valid, ErrorType

\* The header of a for loop: the initial value may name the counter, which the
\* line itself declares.
LEMMA ForHeaderScopes ==
  ASSUME IInv, IInv', ScopesInv, NEW init, NEW cond, NEW updates, ForHeader(init, cond, updates)
  PROVE  ScopesInv'
<1> DEFINE loop_uses == UsesOf(cond) \cup UNION {UpdateUses(u) : u \in ToSet(updates)}
           uses == UsesOf(init)
           n == Len(blocks)
<1>1. /\ Visiting /\ status = "header" /\ status' = "function" /\ branch' \in BOOLEAN
      /\ UNCHANGED <<current_stage, globals, blocks>>
  BY DEF ForHeader, Visiting
<1>2. /\ Opened = n - 1 /\ n \in Nat /\ n >= 1 /\ indent = n - 1 /\ Scopes /\ Typed
      /\ Len(Text) \in Nat /\ n - 1 \in Nat
  <2>1. Opened = n - 1
    BY <1>1 DEF Opened
  <2> QED
    BY <1>1, <2>1, InvFacts
<1>3. PICK v \in Here.vars : Here.vars = {v} /\ v.at = NextLine /\ v.scope = "Block" /\ v.name \in Names
  BY <1>1, InvFacts DEF HeaderOpen
<1>4. Counter = v /\ v.name # NoName /\ blocks[n].vars = {v}
  BY <1>3, NoNameAssumption DEF Counter, Here, Innermost
<1>5. \A u \in uses \cup loop_uses : Grounded(u)
  <2>1. Valid(TypeOf(init, ErrorType)) /\ ConditionOK(cond)
        /\ \A i \in DOMAIN updates : UpdateOK(updates[i])
    BY DEF ForHeader, HeaderOK
  <2>2. \A upd \in ToSet(updates) : \A u \in UpdateUses(upd) : Grounded(u)
    BY <2>1, UpdateGrounded DEF ToSet
  <2>3. (\A u \in UsesOf(init) : Grounded(u)) /\ (\A u \in UsesOf(cond) : Grounded(u))
    BY <2>1, UsesGrounded, ConditionIsValid
  <2> QED
    BY <2>2, <2>3
<1> DEFINE line == Line("for", indent, v.name, uses, loop_uses)
<1>6. Emit(line)
  BY <1>4 DEF ForHeader
<1> HIDE DEF uses, loop_uses
<1>7. /\ uses \in SUBSET UseRecord /\ loop_uses \in SUBSET UseRecord
      /\ \A u \in uses \cup loop_uses : Means(blocks, n, u) /\ Permitted(current_stage, globals, u)
  BY <1>1, <1>5, AllGrounded
<1>8. /\ line \in LineRecord /\ line.op = "for" /\ line.indent = n - 1 /\ line.name = v.name
      /\ line.uses = uses /\ line.loop_uses = loop_uses
  <2>1. "for" \in LineOps /\ v.name \in Names \cup {NoName}
    BY <1>3 DEF LineOps, Constructs
  <2>2. indent \in Nat /\ uses \in SUBSET UseRecord /\ loop_uses \in SUBSET UseRecord
    BY <1>2, <1>7
  <2>3. /\ line \in LineRecord /\ line.op = "for" /\ line.indent = indent /\ line.name = v.name
        /\ line.uses = uses /\ line.loop_uses = loop_uses
    BY <2>1, <2>2, LineTyped
  <2> HIDE DEF line
  <2> QED
    BY <1>2, <2>3
<1> HIDE DEF line, n
<1>9. ASSUME NEW u \in uses \cup loop_uses
      PROVE  \/ u.name = v.name /\ u.at = NextLine
             \/ u.name # v.name /\ Means(blocks, n - 1, u)
  <2>1. Means(blocks, n, u)
    BY <1>7
  <2>2. n \in 1 .. n /\ \A k \in 1 .. n : k = n \/ k \in 1 .. n - 1
    BY <1>2
  <2>3. \A k \in 1 .. n - 1 : k \in 1 .. n
    BY <1>2
  <2>4. CASE u.name = v.name
    BY <1>3, <1>4, <2>1, <2>2, <2>4 DEF Means
  <2>5. CASE u.name # v.name
    BY <1>4, <2>1, <2>2, <2>3, <2>5 DEF Means
  <2> QED
    BY <2>4, <2>5
<1>10. LineFits(line)
  <2>1. LinePermitted(current_stage, globals, line)
    BY <1>7, <1>8 DEF LinePermitted
  <2>2. line.indent <= Opened
    BY <1>2, <1>8
  <2>3. \A k \in 1 .. n - 1 : \A w \in blocks[k].vars : w.name # v.name
    <3>1. ASSUME NEW k \in 1 .. n - 1, NEW w \in blocks[k].vars, w.name = v.name PROVE FALSE
      <4>1. k \in 1 .. n /\ n \in 1 .. n /\ k # n /\ v \in blocks[n].vars
        BY <1>2, <1>4
      <4> QED
        BY <3>1, <4>1, <1>2 DEF Scopes, Distinct, n
    <3> QED
      BY <3>1
  <2>4. \A u \in line.uses : (line.op = "for" /\ u.at = NextLine) \/ Means(blocks, line.indent, u)
    BY <1>8, <1>9
  <2>5. \A u \in line.loop_uses :
          \/ u.name = line.name /\ u.at = NextLine
          \/ u.name # line.name /\ Means(blocks, line.indent, u)
    BY <1>8, <1>9
  <2> QED
    BY <1>1, <1>8, <2>1, <2>2, <2>3, <2>4, <2>5, LineFitsScopes
<1>11. DeclaredIndent(line) = n
  BY <1>2, <1>8 DEF DeclaredIndent
<1>12. After(Text, line, blocks, blocks', Len(blocks'))
  <2>1. Len(blocks') = n /\ n \in {line.indent, line.indent + 1} /\ n \in 1 .. n
    BY <1>1, <1>2, <1>8 DEF n
  <2>2. ASSUME NEW k \in 1 .. n, NEW w \in blocks[k].vars
        PROVE  (k <= n - 1 /\ w \in blocks[k].vars) \/ (k = n /\ w = v)
    <3>1. CASE k = n
      BY <1>4, <2>2, <3>1 DEF n
    <3>2. CASE k # n
      BY <1>2, <2>2, <3>2
    <3> QED
      BY <3>1, <3>2
  <2>3. v \in blocks[n].vars /\ v.at = Len(Text) + 1
    BY <1>3, <1>4 DEF NextLine, n
  <2> QED
    BY <1>1, <1>8, <1>11, <2>1, <2>2, <2>3 DEF After
<1>13. Scopes' /\ blocks' \in Seq(ScopeRecord) /\ line.indent <= Opened
  BY <1>1, <1>2, <1>8 DEF Scopes, Distinct, NotGlobal, Origin, CondsMean, Means, Permitted, Typed
<1> QED
  BY <1>1, <1>6, <1>8, <1>10, <1>12, <1>13, LineKeeps

LEMMA PoppedScope ==
  ASSUME Typed, Len(blocks) >= 1, blocks' = PopBlock
  PROVE  /\ blocks' \in Seq(ScopeRecord) /\ Len(blocks') = Len(blocks) - 1
         /\ \A k \in 1 .. Len(blocks) - 1 : blocks'[k] = blocks[k]
<1> DEFINE n == Len(blocks)
<1>1. IsASequence(blocks) /\ n \in Nat
  BY ScopeTypes
<1>2. blocks' = SubSeq(blocks, 1, n - 1)
  BY DEF PopBlock, Innermost
<1>3. /\ Len(SubSeq(blocks, 1, n - 1)) = n - 1
      /\ \A k \in 1 .. n - 1 : SubSeq(blocks, 1, n - 1)[k] = blocks[k]
  BY <1>1, PopSequence
<1>4. SubSeq(blocks, 1, n - 1) \in Seq(ScopeRecord)
  <2>1. 1 \in Int /\ n - 1 \in Int /\ \A k \in 1 .. n - 1 : blocks[k] \in ScopeRecord
    <3>1. \A k \in 1 .. n - 1 : k \in 1 .. n
      BY <1>1
    <3> QED
      BY <1>1, <3>1, ScopeTypes
  <2> QED
    BY <2>1, SubSeqProperties
<1> HIDE DEF n
<1>5. \A k \in 1 .. n - 1 : blocks'[k] = blocks[k]
  BY <1>2, <1>3
<1> QED
  BY <1>2, <1>3, <1>4, <1>5 DEF n

\* The end of a body: what was declared in it is out of scope, and the
\* condition of a do loop means what it meant before the body.
LEMMA ClosingScopes == ASSUME IInv, IInv', ScopesInv, CloseBody PROVE ScopesInv'
<1> DEFINE line == Line("close", indent - 1, NoName, Here.cond, {})
           n == Len(blocks)
<1>1. /\ Visiting /\ status = "function" /\ status' = "function" /\ branch' \in BOOLEAN
      /\ UNCHANGED <<current_stage, globals>>
  BY DEF CloseBody, Visiting
<1>2. /\ Opened = n /\ n \in Nat /\ n >= 1 /\ indent = n /\ Scopes /\ Typed
  BY <1>1, InvFacts
<1>3. /\ Here.cond \in SUBSET UseRecord
      /\ \A u \in Here.cond : Means(blocks, n - 1, u) /\ Permitted(current_stage, globals, u)
  <2>1. n \in 1 .. n /\ Here = blocks[n]
    BY <1>2 DEF Here, Innermost
  <2> QED
    BY <1>2, <2>1, ScopeTypes DEF Scopes, CondsMean
<1>4. /\ line \in LineRecord /\ line.op = "close" /\ line.indent = n - 1 /\ line.name = NoName
      /\ line.uses = Here.cond /\ line.loop_uses = {}
  <2>1. "close" \in LineOps /\ indent - 1 \in Nat /\ indent - 1 = n - 1
    BY <1>2 DEF LineOps
  <2> QED
    BY <1>3, <2>1, LineTyped
<1>5. Emit(line) /\ blocks' = PopBlock
  BY DEF CloseBody
<1> HIDE DEF line
<1>6. /\ blocks' \in Seq(ScopeRecord) /\ Len(blocks') = n - 1
      /\ \A k \in 1 .. n - 1 : blocks'[k] = blocks[k]
  BY <1>2, <1>5, PoppedScope
<1> HIDE DEF n
<1>7. line.indent <= Opened
  BY <1>2, <1>4
<1>8. LineFits(line)
  <2>1. LinePermitted(current_stage, globals, line)
    BY <1>3, <1>4 DEF LinePermitted
  <2> QED
    BY <1>1, <1>3, <1>4, <1>7, <2>1, LineFitsScopes
<1>9. After(Text, line, blocks, blocks', Len(blocks'))
  <2>1. \A k \in 1 .. n - 1 : k <= n - 1
    BY <1>2
  <2> QED
    BY <1>4, <1>6, <2>1 DEF After
<1>10. Scopes'
  <2>1. Len(blocks') >= 1
    BY <1>1 DEF IInv, Depth, Visiting
  <2>2. /\ Len(blocks') \in 1 .. n - 1 /\ Len(blocks') <= n /\ Len(blocks') \in Nat
        /\ \A l \in 1 .. Len(blocks') - 1 : l \in 1 .. n - 1
        /\ \A k \in 1 .. Len(blocks') : k \in 1 .. n - 1 /\ k <= n
        /\ Len(blocks') <= n + 1
    BY <1>2, <1>6, <2>1
  <2>3. StackStep(blocks', {})
    BY <1>6, <2>2 DEF StackStep, n
  <2> QED
    BY <1>1, <1>2, <2>3, ScopesOver
<1> QED
  BY <1>1, <1>4, <1>5, <1>6, <1>7, <1>8, <1>9, <1>10, LineKeeps

-----------------------------------------------------------------------------
(* The beginnings and ends of functions, and what leaves the text alone. *)

\* A step that stops the visit, or is none.
LEMMA StoppedScopes ==
  ASSUME ScopesInv, ~ Visiting',
         UNCHANGED <<current_stage, globals, blocks, branch, indent, text>>
  PROVE  ScopesInv'
  BY DEF ScopesInv, Typed, GlobalsOutside, FirstLines, Meaning, ScopesAgree, OwnNames,
         PermittedByStage

LEMMA ThrowScopes == ASSUME ScopesInv, Throw PROVE ScopesInv'
<1>1. ~ Visiting'
  BY DEF Throw, Visiting
<1> QED
  BY <1>1, StoppedScopes DEF Throw

LEMMA StutterScopes == ASSUME ScopesInv, UNCHANGED vars PROVE ScopesInv'
<1>1. UNCHANGED <<status, current_stage, globals, blocks, branch, indent, text>>
  BY DEF vars
<1>2. /\ Text' = Text /\ Opened' = Opened /\ Here' = Here /\ NextLine' = NextLine
      /\ (Visiting <=> Visiting')
  BY <1>1 DEF Text, Opened, Here, Innermost, NextLine, Visiting
<1>3. Typed' /\ GlobalsOutside' /\ FirstLines' /\ Meaning'
  BY <1>1 DEF ScopesInv, Typed, GlobalsOutside, FirstLines, Meaning, ScopesAgree, OwnNames,
              PermittedByStage
<1>4. Scopes => Scopes'
  BY <1>1 DEF Scopes, Distinct, NotGlobal, Origin, CondsMean, Means, Permitted
<1>5. HeaderOpen => HeaderOpen'
  BY <1>1, <1>2 DEF HeaderOpen
<1> QED
  BY <1>1, <1>2, <1>3, <1>4, <1>5 DEF ScopesInv, Declared, Standing

\* A global variable that comes between functions changes no use before it.
LEMMA GlobalScopesKept ==
  ASSUME IInv, ScopesInv, NEW g \in GlobalPool, DeclareGlobal(g) PROVE ScopesInv'
<1> DEFINE v == GlobalVariable(g)
<1>1. /\ ~ Visiting' /\ globals' = globals \cup {v}
      /\ UNCHANGED <<current_stage, blocks, branch, indent, text>>
  BY DEF DeclareGlobal, Visiting
<1>2. g.name \in Names \ BadNames /\ g.type \in HLSVType /\ g.scope \in GlobalScopes
  BY GlobalPoolAssumption
<1>3. v \in VariableRecord /\ v.at = 0 /\ v.scope = g.scope /\ v.name = g.name
  <2> DEFINE w == NewVariable(g.name, g.type, g.scope, 0)
  <2>1. g.name \in Identifiers /\ g.scope \in GlobalScopes \cup {"Block"} /\ 0 \in Nat
    BY <1>2 DEF Identifiers
  <2>2. w \in VariableRecord /\ w.at = 0 /\ w.scope = g.scope /\ w.name = g.name
    BY <1>2, <2>1, VariableTyped
  <2>3. v = [w EXCEPT !.after = stages] /\ stages \subseteq Stages
    BY DEF GlobalVariable, IInv, Control
  <2> HIDE DEF w, v
  <2> QED
    BY <2>2, <2>3 DEF VariableRecord
<1> HIDE DEF v
<1>4. Typed' /\ GlobalsOutside' /\ FirstLines'
  BY <1>1, <1>2, <1>3 DEF ScopesInv, Typed, GlobalsOutside, FirstLines
<1>5. Meaning'
  <2>1. ScopesAgree' /\ OwnNames'
    BY <1>1 DEF ScopesInv, Meaning, ScopesAgree, OwnNames
  <2>2. globals \subseteq globals'
    BY <1>1
  <2>3. PermittedByStage'
    BY <1>1, <2>2 DEF ScopesInv, Meaning, PermittedByStage
  <2> QED
    BY <2>1, <2>3 DEF Meaning
<1> QED
  BY <1>1, <1>4, <1>5 DEF ScopesInv

\* A function begins with the builtins of its stage in scope, and no line.
LEMMA FunctionScopes ==
  ASSUME IInv, IInv', ScopesInv, NEW stage \in Stages, StageFunction(stage) PROVE ScopesInv'
<1> DEFINE scope == Scope("func", Builtins(stage), {})
<1>1. /\ blocks = <<>> /\ stage \notin stages /\ status' = "function" /\ current_stage' = stage
      /\ branch' = FALSE /\ UNCHANGED <<globals, text>> /\ indent' = 1
      /\ blocks' = Append(blocks, scope)
  BY DEF IInv, Stack, StageFunction
<1>2. Typed /\ GlobalsOutside /\ FirstLines /\ Meaning
  BY DEF ScopesInv
<1>3. \A v \in Builtins(stage) :
        v \in VariableRecord /\ v.at = 0 /\ v.scope = "Builtin" /\ v.name \in BuiltinNames
  BY BuiltinRecords
<1>4. scope \in ScopeRecord /\ scope.vars = Builtins(stage) /\ scope.cond = {}
  <2>1. Builtins(stage) \in SUBSET VariableRecord
    BY <1>3
  <2> QED
    BY <2>1, ScopeTyped DEF Constructs
<1> HIDE DEF scope
<1>5. blocks' \in Seq(ScopeRecord) /\ Len(blocks') = 1 /\ blocks'[1] = scope
  <2>1. Len(blocks) = 0
    BY <1>1
  <2>2. /\ blocks' \in Seq(ScopeRecord) /\ Len(blocks') = Len(blocks) + 1
        /\ blocks'[Len(blocks) + 1] = scope
    BY <1>1, <1>2, <1>4, PushedScope
  <2> QED
    BY <2>1, <2>2
<1>6. Text' = text[stage] /\ Opened' = 1 /\ Len(text[stage]) = 1 /\ text[stage][1].name = NoName
  BY <1>1, <1>2, <1>5 DEF Text, Opened, IInv, Lines, FirstLines
<1>7. Declared(text[stage], blocks', 1) /\ Standing(text[stage], blocks', 1)
  BY <1>3, <1>4, <1>5, <1>6 DEF Declared, Standing
<1>8. Scopes'
  <2>1. \A k \in 1 .. Len(blocks') : k = 1
    BY <1>5
  <2>2. Distinct(blocks')
    BY <1>4, <1>5, <2>1, BuiltinsDiffer DEF Distinct
  <2>3. \A v \in Builtins(stage) : v.name \notin NamesIn(globals)
    BY <1>2, <1>3, BuiltinsAssumption DEF NamesIn, GlobalsOutside
  <2>4. /\ \A k \in 1 .. Len(blocks') : \A v \in blocks'[k].vars : v.name \notin NamesIn(globals)
        /\ \A k \in 1 .. Len(blocks') : \A v \in blocks'[k].vars :
             IF v.at = 0 THEN v \in Builtins(stage) ELSE v.scope = "Block"
        /\ \A k \in 1 .. Len(blocks') : blocks'[k].cond = {}
    BY <1>3, <1>4, <1>5, <2>1, <2>3
  <2> QED
    BY <1>1, <2>2, <2>4 DEF Scopes, Distinct, NotGlobal, Origin, CondsMean, NamesIn
<1>9. Typed' /\ GlobalsOutside' /\ FirstLines' /\ Meaning'
  <2>1. Typed'
    BY <1>1, <1>2, <1>5 DEF Typed
  <2>2. GlobalsOutside' /\ FirstLines'
    BY <1>1, <1>2 DEF GlobalsOutside, FirstLines
  <2>3. ScopesAgree' /\ OwnNames' /\ PermittedByStage'
    BY <1>1, <1>2 DEF Meaning, ScopesAgree, OwnNames, PermittedByStage
  <2> QED
    BY <2>1, <2>2, <2>3 DEF Meaning
<1>10. HeaderOpen'
  BY <1>1 DEF HeaderOpen
<1>11. Declared(Text', blocks', Opened') /\ Standing(Text', blocks', Opened')
  BY <1>6, <1>7
<1> QED
  BY <1>8, <1>9, <1>10, <1>11 DEF ScopesInv, Declared, Standing

LEMMA EndFunctionScopes == ASSUME IInv, IInv', ScopesInv, EndStageFunction PROVE ScopesInv'
<1> DEFINE line == Line("close", indent - 1, NoName, {}, {})
           n == Len(blocks)
<1>1. /\ Visiting /\ status = "function" /\ ~ Visiting' /\ branch' \in BOOLEAN
      /\ UNCHANGED globals
  BY DEF EndStageFunction, Visiting
<1>2. /\ Opened = n /\ n \in Nat /\ n >= 1 /\ indent = n /\ Typed /\ current_stage \in Stages
      /\ GlobalsOutside /\ FirstLines /\ Meaning
  BY <1>1, InvFacts
<1>3. indent - 1 \in Nat /\ indent - 1 <= Opened
  BY <1>2
<1>4. /\ line \in LineRecord /\ line.indent = indent - 1 /\ line.name = NoName
      /\ line.uses = {} /\ line.loop_uses = {}
  <2>1. "close" \in LineOps
    BY DEF LineOps
  <2> QED
    BY <1>3, <2>1, LineTyped
<1>5. Emit(line) /\ blocks' = PopBlock /\ indent' = indent - 1
  BY DEF EndStageFunction
<1> HIDE DEF line
<1>6. LineFits(line)
  <2>1. LinePermitted(current_stage, globals, line)
    BY <1>4 DEF LinePermitted
  <2> QED
    BY <1>1, <1>3, <1>4, <2>1, LineFitsScopes
<1>7. Meaning' /\ FirstLines'
  BY <1>1, <1>2, <1>5, <1>6, EmitMeans DEF IInv
<1>8. Typed'
  <2>1. blocks' \in Seq(ScopeRecord)
    BY <1>2, <1>5, PoppedScope
  <2>2. text' \in [Stages -> Seq(LineRecord)]
    BY <1>2, <1>4, <1>5, EmitTyped
  <2> QED
    BY <1>1, <1>2, <1>3, <1>5, <2>1, <2>2 DEF Typed
<1>9. GlobalsOutside'
  BY <1>1, <1>2 DEF GlobalsOutside
<1> QED
  BY <1>1, <1>7, <1>8, <1>9 DEF ScopesInv

-----------------------------------------------------------------------------
(* The theorems about scopes. *)

LEMMA SimpleScopes == ASSUME IInv, IInv', ScopesInv, Simple PROVE ScopesInv'
<1>0. Throw => ScopesInv'
  BY ThrowScopes
<1>1. ASSUME NEW d \in Decls, VariableDeclaration(d) PROVE ScopesInv'
  <2>1. /\ Statement /\ LocalVariableOK(d)
        /\ blocks' = AddVariable(NewVariable(d.name, ParsedType(d), "Block", NextLine))
        /\ Emit(Line("declare", indent, d.name, {}, {}))
    BY <1>1 DEF VariableDeclaration
  <2> QED
    BY <2>1, DeclaringScopes
<1>2. ASSUME NEW d \in Decls, NEW e \in Exprs, VariableDefinition(d, e) PROVE ScopesInv'
  <2>1. /\ Statement /\ LocalVariableOK(d)
        /\ blocks' = AddVariable(NewVariable(d.name, ParsedType(d), "Block", NextLine))
        /\ Emit(Line("define", indent, d.name, UsesOf(e), {}))
    BY <1>2 DEF VariableDefinition, DefinitionOK
  <2>2. \A u \in UsesOf(e) : Grounded(u)
    BY <1>2, UsesGrounded DEF VariableDefinition, DefinitionOK
  <2> QED
    BY <2>1, <2>2, DeclaringScopes
<1>3. ASSUME NEW lv \in Lvalues, NEW op \in AssignOps, NEW e \in Exprs, Assignment(lv, op, e)
      PROVE  ScopesInv'
  <2>1. /\ Statement /\ UNCHANGED blocks
        /\ Emit(Line("assign", indent, NoName, TargetUses(lv, op) \cup UsesOf(e), {}))
        /\ AssignmentOK(lv, op, e)
    BY <1>3 DEF Assignment, EmitUse
  <2>2. \A u \in TargetUses(lv, op) \cup UsesOf(e) : Grounded(u)
    BY <2>1, TargetGrounded, UsesGrounded DEF AssignmentOK
  <2>3. "assign" \in LineOps \ {"for"}
    BY DEF LineOps
  <2> QED
    BY <2>1, <2>2, <2>3, UsingScopes
<1>4. ASSUME NEW jump \in Jumps \cup {"discard"}, ControlStatement(jump) PROVE ScopesInv'
  <2>1. Statement /\ UNCHANGED blocks /\ Emit(Line(jump, indent, NoName, {}, {}))
    BY <1>4 DEF ControlStatement, EmitUse
  <2>2. jump \in LineOps \ {"for"}
    BY DEF LineOps, Jumps
  <2> QED
    BY <2>1, <2>2, UsingScopes
<1> QED
  BY <1>0, <1>1, <1>2, <1>3, <1>4
  DEF Simple, DeclarationRejected, DefinitionRejected, AssignmentRejected, JumpRejected

LEMMA BodiesScopes == ASSUME IInv, IInv', ScopesInv, Bodies PROVE ScopesInv'
<1>0. Throw => ScopesInv'
  BY ThrowScopes
<1>1. ASSUME NEW e \in Exprs, IfStatement(e) \/ Elif(e) \/ WhileLoop(e) \/ DoLoop(e)
      PROVE  ScopesInv'
  <2>1. \A u \in UsesOf(e) : Grounded(u)
    BY <1>1, ConditionIsValid, UsesGrounded DEF IfStatement, Elif, WhileLoop, DoLoop
  <2>2. \A u \in UsesOf(e) \cup {} : Grounded(u)
    BY <2>1
  <2>3. \A u \in {} \cup UsesOf(e) : Grounded(u)
    BY <2>1
  <2>4. CASE IfStatement(e)
    BY <2>2, <2>4, OpeningScopes DEF IfStatement
  <2>5. CASE Elif(e)
    BY <2>2, <2>5, OpeningScopes DEF Elif
  <2>6. CASE WhileLoop(e)
    BY <2>2, <2>6, OpeningScopes DEF WhileLoop
  <2>7. CASE DoLoop(e)
    BY <2>3, <2>7, OpeningScopes DEF DoLoop
  <2> QED
    BY <1>1, <2>4, <2>5, <2>6, <2>7
<1>2. CASE Else
  <2>1. \A u \in {} \cup {} : Grounded(u)
    OBVIOUS
  <2> QED
    BY <1>2, <2>1, OpeningScopes DEF Else
<1> QED
  BY <1>0, <1>1, <1>2, ForLoopScopes, ForHeaderScopes, ClosingScopes
  DEF Bodies, ConditionRejected, CounterRejected, HeaderRejected

LEMMA FunctionsScopes == ASSUME IInv, IInv', ScopesInv, Functions PROVE ScopesInv'
<1>1. CASE EndOfFile
  <2>1. ~ Visiting'
    BY <1>1 DEF EndOfFile, Visiting
  <2> QED
    BY <1>1, <2>1, StoppedScopes DEF EndOfFile
<1>2. ASSUME NEW stage \in Stages, SecondFunction(stage) PROVE ScopesInv'
  BY <1>2, ThrowScopes DEF SecondFunction
<1> QED
  BY <1>1, <1>2, GlobalScopesKept, FunctionScopes, EndFunctionScopes DEF Functions

LEMMA InitScopes == ASSUME Init PROVE ScopesInv
<1> DEFINE first == Line("func", 0, NoName, {}, {})
<1>1. first \in LineRecord /\ first.name = NoName /\ first.uses = {} /\ first.loop_uses = {}
  <2>1. "func" \in LineOps /\ 0 \in Nat
    BY DEF LineOps, Constructs
  <2> QED
    BY <2>1, LineTyped
<1>2. /\ text = [stage \in Stages |-> <<first>>] /\ status = "toplevel" /\ globals = {}
      /\ blocks = <<>> /\ branch = FALSE /\ indent = 0
  BY DEF Init
<1> HIDE DEF first
<1>3. <<first>> \in Seq(LineRecord) /\ DOMAIN <<first>> = {1} /\ <<first>>[1] = first
  BY <1>1
<1>4. Typed
  <2>1. blocks \in Seq(ScopeRecord)
    BY <1>2
  <2> QED
    BY <1>2, <1>3, <2>1 DEF Typed
<1>5. \A stage \in Stages : text[stage] = <<first>>
  BY <1>2
<1>6. Meaning
  BY <1>1, <1>3, <1>5 DEF Meaning, ScopesAgree, OwnNames, PermittedByStage
<1>7. GlobalsOutside /\ FirstLines /\ ~ Visiting
  BY <1>1, <1>2, <1>3, <1>5 DEF GlobalsOutside, FirstLines, Visiting
<1> QED
  BY <1>4, <1>6, <1>7 DEF ScopesInv

LEMMA ScopesInductive == Spec => [](IInv /\ ScopesInv)
<1>1. Init => IInv /\ ScopesInv
  BY InitEstablishes, InitScopes
<1>2. IInv /\ IInv' /\ ScopesInv /\ [Next]_vars => ScopesInv'
  <2> SUFFICES ASSUME IInv, IInv', ScopesInv, [Next]_vars PROVE ScopesInv'
    OBVIOUS
  <2>1. CASE Functions
    BY <2>1, FunctionsScopes
  <2>2. CASE Simple
    BY <2>2, SimpleScopes
  <2>3. CASE Bodies
    BY <2>3, BodiesScopes
  <2>4. CASE Terminated \/ UNCHANGED vars
    BY <2>4, StutterScopes DEF Terminated
  <2> QED
    BY <2>1, <2>2, <2>3, <2>4 DEF Next
<1> QED
  BY <1>1, <1>2, Inductive, PTL DEF Spec

\* Every component keeps its type, and a function is visited exactly while
\* there are scopes.
THEOREM StageFunctionTypes == Spec => []TypeOK
<1>1. IInv /\ ScopesInv => TypeOK
  <2> SUFFICES ASSUME IInv, ScopesInv PROVE TypeOK
    OBVIOUS
  <2>1. /\ globals \subseteq VariableRecord /\ blocks \in Seq(ScopeRecord) /\ branch \in BOOLEAN
        /\ indent \in Nat /\ text \in [Stages -> Seq(LineRecord)]
    BY DEF ScopesInv, Typed
  <2>2. /\ status \in Statuses /\ current_stage \in Stages \cup {"None"} /\ stages \subseteq Stages
    BY DEF IInv, Control
  <2>3. status \in {"function", "header"} => current_stage \in Stages /\ blocks # <<>>
    <3>1. Len(<<>>) = 0
      OBVIOUS
    <3>2. ASSUME Visiting PROVE current_stage \in Stages /\ blocks # <<>>
      <4>1. current_stage \in stages /\ Len(blocks) >= 1
        BY <3>2 DEF IInv, Depth
      <4>2. Len(blocks) # 0
        BY <4>1
      <4> QED
        BY <2>2, <3>1, <4>1, <4>2
    <3> QED
      BY <3>2 DEF Visiting
  <2>4. status \in {"toplevel", "done"} => current_stage = "None" /\ blocks = <<>>
    BY DEF IInv, Stack
  <2> QED
    BY <2>1, <2>2, <2>3, <2>4 DEF TypeOK
<1> QED
  BY <1>1, ScopesInductive, PTL

\* Whatever is nested in what, GLSL resolves every name in the emitted text to
\* the declaration that find_variable found when the line was visited.
THEOREM NamesMeanTheSame == Spec => []ScopesAgree
<1>1. ScopesInv => ScopesAgree
  BY DEF ScopesInv, Meaning
<1> QED
  BY <1>1, ScopesInductive, PTL

-----------------------------------------------------------------------------
(* The names of the globals. *)

\* The condition of NoShadowing on the globals.
KeepsGlobals(stage, t) ==
  \A i \in 1 .. Len(t) : t[i].name # NoName =>
    \A v \in globals : v.name = t[i].name => stage \in v.after
GlobalsKept == \A stage \in Stages : KeepsGlobals(stage, text[stage])

LEMMA EmitKeepsGlobals ==
  ASSUME IInv, Visiting, GlobalsKept, UNCHANGED globals,
         NEW line, Emit(line), line.name # NoName => line.name \notin NamesIn(globals)
  PROVE  GlobalsKept'
<1>1. current_stage \in Stages /\ DOMAIN text = Stages /\ IsText(Text)
  BY DEF IInv, Control, Texts, Depth, Text
<1>2. ASSUME NEW stage \in Stages PROVE KeepsGlobals(stage, text[stage])'
  <2>1. CASE stage # current_stage
    BY <1>1, <2>1 DEF Emit, GlobalsKept, KeepsGlobals
  <2>2. CASE stage = current_stage
    <3> DEFINE t == Text
               u == Append(t, line)
    <3>1. text'[stage] = u /\ text[stage] = t
      BY <1>1, <2>2 DEF Emit, Text
    <3>2. /\ Len(t) \in Nat /\ Len(u) = Len(t) + 1 /\ u[Len(t) + 1] = line
          /\ \A i \in 1 .. Len(t) : u[i] = t[i]
      BY <1>1, AppendToSequence DEF IsText
    <3>3. KeepsGlobals(stage, t)
      BY <3>1 DEF GlobalsKept
    <3> HIDE DEF u, t
    <3>4. ASSUME NEW i \in 1 .. Len(u), u[i].name # NoName,
                 NEW v \in globals, v.name = u[i].name
          PROVE  stage \in v.after
      <4>1. CASE i \in 1 .. Len(t)
        BY <3>2, <3>3, <3>4, <4>1 DEF KeepsGlobals
      <4>2. CASE i = Len(t) + 1
        BY <3>2, <3>4, <4>2 DEF NamesIn
      <4> QED
        BY <3>2, <4>1, <4>2
    <3> QED
      BY <3>1, <3>4 DEF KeepsGlobals
  <2> QED
    BY <2>1, <2>2
<1> QED
  BY <1>2 DEF GlobalsKept

LEMMA SilentKeepsGlobals ==
  ASSUME GlobalsKept, UNCHANGED <<globals, text>> PROVE GlobalsKept'
BY DEF GlobalsKept, KeepsGlobals

\* The functions before a new global are those whose text is begun.
LEMMA NewGlobalKept ==
  ASSUME IInv, ScopesInv, GlobalsKept, NEW g \in GlobalPool, DeclareGlobal(g)
  PROVE  GlobalsKept'
<1> DEFINE v == GlobalVariable(g)
<1>1. globals' = globals \cup {v} /\ UNCHANGED text
  BY DEF DeclareGlobal
<1>2. v.after = stages
  BY DEF GlobalVariable, NewVariable
<1> HIDE DEF v
<1>3. ASSUME NEW stage \in Stages \ stages, NEW i \in 1 .. Len(text[stage])
      PROVE  text[stage][i].name = NoName
  <2>1. Len(text[stage]) = 1 /\ text[stage][1].name = NoName
    BY DEF IInv, Lines, ScopesInv, FirstLines
  <2> QED
    BY <2>1
<1> QED
  BY <1>1, <1>2, <1>3 DEF GlobalsKept, KeepsGlobals

LEMMA NextKeepsGlobals ==
  ASSUME IInv, ScopesInv, GlobalsKept, [Next]_vars PROVE GlobalsKept'
<1>1. ASSUME NEW op, NEW n, NEW uses, NEW loop_uses, Visiting, UNCHANGED globals,
             Emit(Line(op, n, NoName, uses, loop_uses))
      PROVE  GlobalsKept'
  <2>1. Line(op, n, NoName, uses, loop_uses).name = NoName
    BY DEF Line
  <2> QED
    BY <1>1, <2>1, EmitKeepsGlobals
<1>2. ASSUME NEW d, LocalVariableOK(d), NEW op, NEW uses, Visiting, UNCHANGED globals,
             Emit(Line(op, indent, d.name, uses, {}))
      PROVE  GlobalsKept'
  <2>1. Line(op, indent, d.name, uses, {}).name = d.name
    BY DEF Line
  <2>2. d.name \notin NamesIn(globals)
    BY <1>2 DEF LocalVariableOK, ParseVariableOK, KnownNames
  <2> QED
    BY <1>2, <2>1, <2>2, EmitKeepsGlobals
<1>3. Throw => GlobalsKept'
  BY SilentKeepsGlobals DEF Throw
<1>4. CASE Functions
  <2>1. ASSUME NEW stage \in Stages, StageFunction(stage) \/ SecondFunction(stage)
        PROVE  GlobalsKept'
    BY <1>3, <2>1, SilentKeepsGlobals DEF StageFunction, SecondFunction
  <2>2. CASE EndStageFunction
    BY <1>1, <2>2 DEF EndStageFunction, Visiting
  <2>3. CASE EndOfFile
    BY <2>3, SilentKeepsGlobals DEF EndOfFile
  <2> QED
    BY <1>4, <2>1, <2>2, <2>3, NewGlobalKept DEF Functions
<1>5. CASE Simple
  <2>1. ASSUME NEW d \in Decls, VariableDeclaration(d) PROVE GlobalsKept'
    BY <1>2, <2>1 DEF VariableDeclaration, Statement, Visiting
  <2>2. ASSUME NEW d \in Decls, NEW e \in Exprs, VariableDefinition(d, e) PROVE GlobalsKept'
    BY <1>2, <2>2 DEF VariableDefinition, DefinitionOK, Statement, Visiting
  <2>3. ASSUME NEW lv \in Lvalues, NEW op \in AssignOps, NEW e \in Exprs, Assignment(lv, op, e)
        PROVE  GlobalsKept'
    BY <1>1, <2>3 DEF Assignment, EmitUse, Statement, Visiting
  <2>4. ASSUME NEW jump \in Jumps \cup {"discard"}, ControlStatement(jump) PROVE GlobalsKept'
    BY <1>1, <2>4 DEF ControlStatement, EmitUse, Statement, Visiting
  <2> QED
    BY <1>3, <1>5, <2>1, <2>2, <2>3, <2>4
    DEF Simple, DeclarationRejected, DefinitionRejected, AssignmentRejected, JumpRejected
<1>6. CASE Bodies
  <2>1. ASSUME NEW construct, NEW uses, NEW cond, OpenBody(construct, uses, cond)
        PROVE  GlobalsKept'
    BY <1>1, <2>1 DEF OpenBody, EmitUse, Visiting
  <2>2. ASSUME NEW e \in Exprs, IfStatement(e) \/ Elif(e) \/ WhileLoop(e) \/ DoLoop(e)
        PROVE  GlobalsKept'
    BY <2>1, <2>2 DEF IfStatement, Elif, WhileLoop, DoLoop
  <2>3. CASE Else
    BY <2>1, <2>3 DEF Else
  <2>4. ASSUME NEW d \in Decls, ForLoop(d) PROVE GlobalsKept'
    BY <2>4, SilentKeepsGlobals DEF ForLoop
  <2>5. ASSUME NEW init, NEW cond, NEW updates, ForHeader(init, cond, updates) PROVE GlobalsKept'
    <3> DEFINE loop_uses == UsesOf(cond) \cup UNION {UpdateUses(u) : u \in ToSet(updates)}
               line == Line("for", indent, Counter.name, UsesOf(init), loop_uses)
    <3>1. Visiting /\ status = "header" /\ UNCHANGED globals /\ Emit(line)
      BY <2>5 DEF ForHeader, Visiting
    <3>2. line.name = Counter.name
      BY DEF Line
    <3> HIDE DEF line
    <3>3. /\ HeaderOpen /\ NotGlobal(blocks) /\ Len(blocks) \in Nat /\ Len(blocks) >= 1
      BY <3>1, InvFacts DEF Scopes
    <3>4. Counter \in Here.vars
      BY <3>1, <3>3 DEF HeaderOpen, Counter
    <3>5. Counter.name \notin NamesIn(globals)
      BY <3>3, <3>4 DEF NotGlobal, Here, Innermost
    <3> QED
      BY <3>1, <3>2, <3>5, EmitKeepsGlobals
  <2>6. CASE CloseBody
    BY <1>1, <2>6 DEF CloseBody, Visiting
  <2> QED
    BY <1>3, <1>6, <2>2, <2>3, <2>4, <2>5, <2>6
    DEF Bodies, ConditionRejected, CounterRejected, HeaderRejected
<1>7. CASE Terminated \/ UNCHANGED vars
  BY <1>7, SilentKeepsGlobals DEF Terminated, vars
<1> QED
  BY <1>4, <1>5, <1>6, <1>7 DEF Next

\* No declaration of a function hides another one that is in scope, nor a
\* global declared before the function.
THEOREM NothingIsShadowed == Spec => []NoShadowing
<1>1. Init => GlobalsKept
  BY DEF Init, GlobalsKept, KeepsGlobals
<1>2. IInv /\ ScopesInv /\ GlobalsKept /\ [Next]_vars => GlobalsKept'
  BY NextKeepsGlobals
<1>3. IInv /\ ScopesInv /\ GlobalsKept => NoShadowing
  <2> SUFFICES ASSUME IInv, ScopesInv, GlobalsKept PROVE NoShadowing
    OBVIOUS
  <2>1. \A stage \in Stages : DOMAIN text[stage] = 1 .. Len(text[stage])
    BY AppendToSequence DEF IInv, Texts, IsText
  <2>2. OwnNames
    BY DEF ScopesInv, Meaning
  <2> QED
    BY <2>1, <2>2 DEF OwnNames, GlobalsKept, KeepsGlobals, NoShadowing
<1> QED
  BY <1>1, <1>2, <1>3, ScopesInductive, PTL DEF Spec

\* The global and builtin variables in the expressions of a function are those
\* its stage may read, and its targets those it may write (can_read, can_write),
\* whatever is declared later.
THEOREM StagesKeepToTheirVariables == Spec => []PermittedByStage
<1>1. ScopesInv => PermittedByStage
  BY DEF ScopesInv, Meaning
<1> QED
  BY <1>1, ScopesInductive, PTL
=============================================================================
