--------------------------- MODULE StageFunction ---------------------------
(***************************************************************************)
(* The visit of stage functions: the stack of scopes, what may be read and *)
(* written in each stage, and the text emitted for each function.          *)
(*                                                                         *)
(* The parse tree is an input, chosen statement by statement: a construct  *)
(* with a body is opened and closed, and between them come statements of   *)
(* the body.  (A body of one statement without braces is a block of one:   *)
(* the visitor treats them alike.)  Global variables are declared between  *)
(* the functions, which is what module TopLevel is about.  An error ends   *)
(* the visit.                                                              *)
(***************************************************************************)
EXTENDS Declarations, Operators

CONSTANTS
  Decls,     \* the declarations of function variables
  GlobalPool, \* the global variables a file may declare
  Exprs,     \* the expressions written in functions (see TypeOf)
  Lvalues,   \* the variables, swizzles and elements that are assigned to
  AssignOps, \* "=" and the operators of compound assignments
  Conditions, UpdateLists, \* those of for loops
  MaxLines,  \* bound on the lines of text of both functions
  NoName     \* not an identifier; stands for "no variable"

Stages == {"Vertex", "Fragment"}
GlobalScopes == {"Attribute", "Output", "Local", "Uniform", "PushConstant", "Constant"}

\* Variable::GetDefaultReadStages and GetDefaultWriteStages
ReadStages(scope) ==
  CASE scope = "Attribute" -> {"Vertex"}
    [] scope = "Output"    -> {}
    [] scope = "Local"     -> {"Fragment"}
    [] OTHER               -> Stages
WriteStages(scope) ==
  CASE scope = "Output" -> {"Fragment"}
    [] scope = "Local"  -> {"Vertex"}
    [] scope = "Block"  -> Stages
    [] OTHER            -> {}

\* at is the line of the function's text that declares the variable, or 0.
\* after, the stages whose function stands before a global, is there for the
\* properties.
NewVariable(name, vt, scope, at) ==
  [name |-> name, type |-> vt, scope |-> scope, read |-> ReadStages(scope),
   write |-> WriteStages(scope), at |-> at, after |-> {}]
Builtin(name, prim, read, write) ==
  [name |-> name, type |-> PlainType(prim), scope |-> "Builtin", read |-> read,
   write |-> write, at |-> 0, after |-> {}]

\* VariableManager::Builtins_
Builtins(stage) ==
  IF stage = "Vertex"
  THEN {Builtin("$VertexIndex", SInt, {stage}, {}), Builtin("$InstanceIndex", SInt, {stage}, {}),
        Builtin("$Position", 16, {}, {stage}), Builtin("$PointSize", Float, {}, {stage})}
  ELSE {Builtin("$FragCoord", 16, {stage}, {}), Builtin("$FrontFacing", Bool, {stage}, {}),
        Builtin("$PointCoord", 14, {stage}, {}), Builtin("$FragDepth", Float, {stage}, {stage})}
BuiltinNames == UNION {{v.name : v \in Builtins(stage)} : stage \in Stages}

ASSUME FunctionDeclsAssumption == \A d \in Decls : IsDeclaration(d)
ASSUME GlobalPoolAssumption == \A g \in GlobalPool :
  g.name \in Names \ BadNames /\ g.type \in HLSVType /\ g.scope \in GlobalScopes
ASSUME NoNameAssumption == NoName \notin Names \cup BuiltinNames
ASSUME BuiltinsAssumption == BuiltinNames \cap (Names \ BadNames) = {}

VARIABLES
  status,         \* where the visit is: see Statuses
  current_stage,  \* the stage whose function is visited, or "None"
  stages,         \* the stages that have a function
  globals,        \* VariableManager::globals_
  blocks,         \* VariableManager::blocks_, each with the construct it is for
  branch,         \* the statement before was an if or elif, which an else may follow
  indent,         \* the length of indent_str_
  text            \* the text of each stage function, a sequence of lines

vars == <<status, current_stage, stages, globals, blocks, branch, indent, text>>

\* "header": the variable of a for loop is added, its header not yet visited.
Statuses == {"toplevel", "function", "header", "done", "failed"}
-----------------------------------------------------------------------------
(* Scopes *)
BlockType(construct) ==
  CASE construct = "func"                  -> "BT_Func"
    [] construct \in {"while", "do", "for"} -> "BT_Loop"
    [] OTHER                                -> "BT_Cond"

\* A do loop emits its condition when it is closed: cond is what it uses.
Scope(construct, variables, cond) ==
  [construct |-> construct, type |-> BlockType(construct), vars |-> variables, cond |-> cond]

Innermost == Len(blocks)
Here      == blocks[Innermost]
AddVariable(v) == [blocks EXCEPT ![Innermost].vars = @ \cup {v}]
\* Faulty variant for the mutation runs: the variables of a scope survive it.
PopBlockType == [k \in 1 .. Innermost - 1 |->
  IF k = Innermost - 1 THEN [blocks[k] EXCEPT !.vars = @ \cup Here.vars] ELSE blocks[k]]
PopBlock  == SubSeq(blocks, 1, Innermost - 1)

NamesIn(variables)  == {v.name : v \in variables}
BlocksWith(name)    == {k \in DOMAIN blocks : name \in NamesIn(blocks[k].vars)}
FunctionNames       == UNION {NamesIn(blocks[k].vars) : k \in DOMAIN blocks}
KnownNames          == FunctionNames \cup NamesIn(globals)

FindVariable(name) ==
  LET scope == IF BlocksWith(name) = {} THEN globals
               ELSE blocks[CHOOSE k \in BlocksWith(name) : \A j \in BlocksWith(name) : j <= k].vars
  IN CHOOSE v \in scope : v.name = name

\* Faulty variant for the mutation runs: any inner block will do.
InInnerBlock == \E k \in DOMAIN blocks : blocks[k].type # "BT_Func"
InLoopBlock == \E k \in DOMAIN blocks : blocks[k].type = "BT_Loop"

\* Faulty variant for the mutation runs: the permission is not looked at.
WritesAnything(name) == name \in KnownNames

CanRead(name) ==
  /\ name \in KnownNames
  /\ FindVariable(name).scope = "Block" \/ current_stage \in FindVariable(name).read
CanWrite(name) ==
  /\ name \in KnownNames
  /\ FindVariable(name).scope = "Block" \/ current_stage \in FindVariable(name).write
-----------------------------------------------------------------------------
(* Expressions.  An atom is a literal or a variable; an lvalue is a        *)
(* variable followed by swizzles and indexers; an expression is an atom, a *)
(* binary operator on atoms, ++ or -- on an lvalue, or a list of atoms.    *)
ErrorType == PlainType(Error)

AtomType(a) ==
  CASE a.kind = "literal" -> PlainType(a.prim)
    [] OTHER              -> IF CanRead(a.name) THEN FindVariable(a.name).type ELSE ErrorType

\* A swizzle is known by its length and the highest component it names.
SwizzleType(vt, s) ==
  IF ~ vt.is_array /\ IsVectorType(vt.type) /\ s.highest <= GetComponentCount(vt.type)
  THEN PlainType(MakeVectorType(GetComponentType(vt.type), s.length))
  ELSE ErrorType

Elements(vt) ==
  IF vt.is_array THEN vt.count
  ELSE CASE IsVectorType(vt.type) -> GetComponentCount(vt.type)
         [] IsMatrixType(vt.type) -> MatrixSide(vt.type)
         [] OTHER                 -> 0

ElementType(vt, index) ==
  IF Elements(vt) = 0 \/ (index.kind = "literal" /\ index.value >= Elements(vt))
  THEN ErrorType
  ELSE PlainType(IF vt.is_array THEN vt.type
                 ELSE IF IsVectorType(vt.type) THEN GetComponentType(vt.type)
                 ELSE MakeVectorType(Float, MatrixSide(vt.type)))

Indexes(lv)   == {step.by : step \in {s \in ToSet(lv.path) : s.kind = "index"}}
IsCounter(vt) == ~ vt.is_array /\ IsScalarInteger(vt.type)

LvalueType(lv) ==
  IF ~ CanWrite(lv.name) \/ \E index \in Indexes(lv) : ~ IsCounter(AtomType(index)) THEN ErrorType
  ELSE FoldLeft(LAMBDA vt, step :
                  IF step.kind = "swizzle" THEN SwizzleType(vt, step) ELSE ElementType(vt, step.by),
                FindVariable(lv.name).type, lv.path)

\* The type of an initialiser list where infer_type_ is infer.  (Where infer is
\* an array, the statement refuses the array the list would make.)
ListType(args, infer) ==
  LET types == [i \in DOMAIN args |-> AtomType(args[i])] IN
  IF infer.is_array \/ IsScalarType(infer.type) \/ ErrorType \in ToSet(types)
     \/ ~ CheckConstructor(infer.type, types)
  THEN ErrorType ELSE PlainType(infer.type)

\* The type of an expression, or ErrorType if its visit raises an error.
TypeOf(e, infer) ==
  CASE e.kind = "step"   -> IF IsCounter(LvalueType(e.lval)) THEN LvalueType(e.lval) ELSE ErrorType
    [] e.kind = "binary" -> PlainType(CheckBinaryOperator(e.op, AtomType(e.left), AtomType(e.right)))
    [] e.kind = "list"   -> ListType(e.args, infer)
    [] OTHER             -> AtomType(e)

Valid(vt) == vt # ErrorType

\* A use of a name: the line that declares the variable found, and whether it
\* is read, written, or both by a ++, -- or compound assignment.  (Lvalue looks
\* for the permission to write in either case.)
Use(name, mode) == [name |-> name, at |-> FindVariable(name).at, mode |-> mode]

AtomUses(a) == IF a.kind = "var" THEN {Use(a.name, "read")} ELSE {}
LvalueUses(lv, mode) == {Use(lv.name, mode)} \cup UNION {AtomUses(index) : index \in Indexes(lv)}
TargetUses(lv, op) == LvalueUses(lv, IF op = "=" THEN "write" ELSE "update")
UsesOf(e) ==
  CASE e.kind = "step"   -> LvalueUses(e.lval, "update")
    [] e.kind = "binary" -> AtomUses(e.left) \cup AtomUses(e.right)
    [] e.kind = "list"   -> UNION {AtomUses(a) : a \in ToSet(e.args)}
    [] OTHER             -> AtomUses(e)
-----------------------------------------------------------------------------
(* The generator.  name is the variable a line declares; uses are those of *)
(* the line, loop_uses those of a for header after its initial value.      *)
Line(op, at_indent, name, uses, loop_uses) ==
  [op |-> op, indent |-> at_indent, name |-> name, uses |-> uses, loop_uses |-> loop_uses]

Text        == text[current_stage]
NextLine    == Len(Text) + 1
Emit(line)  == text' = [text EXCEPT ![current_stage] = Append(@, line)]
EmitUse(op, uses) == Emit(Line(op, indent, NoName, uses, {}))

\* The bound MaxLines: n more lines, and one to close each open block.
Room(n) == Len(text["Vertex"]) + Len(text["Fragment"]) + n + Len(blocks) <= MaxLines

Throw == status' = "failed" /\ UNCHANGED <<current_stage, stages, globals, blocks, branch,
                                           indent, text>>

Init ==
  /\ status = "toplevel" /\ current_stage = "None" /\ stages = {}
  /\ globals = {} /\ blocks = <<>> /\ branch = FALSE /\ indent = 0
  /\ text = [stage \in Stages |-> <<Line("func", 0, NoName, {}, {})>>]
-----------------------------------------------------------------------------
(* Global declarations, and @vert { ... } and @frag { ... } *)
GlobalVariable(g) == [NewVariable(g.name, g.type, g.scope, 0) EXCEPT !.after = stages]

DeclareGlobal(g) ==
  /\ status = "toplevel"
  /\ g.name \notin NamesIn(globals)
  /\ globals' = globals \cup {GlobalVariable(g)}
  /\ UNCHANGED <<status, current_stage, stages, blocks, branch, indent, text>>

StageFunction(stage) ==
  /\ status = "toplevel"
  /\ stage \notin stages
  /\ Room(1)
  /\ status' = "function"
  /\ stages' = stages \cup {stage}
  /\ current_stage' = stage
  /\ indent' = indent + 1
  /\ blocks' = Append(blocks, Scope("func", Builtins(stage), {}))
  /\ branch' = FALSE
  /\ UNCHANGED <<globals, text>>

\* Faulty variant for the mutation runs: the stage stays current.
EndFunctionInStage ==
  /\ status = "function"
  /\ Here.construct = "func"
  /\ status' = "toplevel"
  /\ blocks' = PopBlock
  /\ indent' = indent - 1
  /\ Emit(Line("close", indent - 1, NoName, {}, {}))
  /\ branch' = FALSE
  /\ UNCHANGED <<current_stage, stages, globals>>

EndStageFunction ==
  /\ status = "function"
  /\ Here.construct = "func"
  /\ status' = "toplevel"
  /\ blocks' = PopBlock
  /\ indent' = indent - 1
  /\ Emit(Line("close", indent - 1, NoName, {}, {}))
  /\ current_stage' = "None"
  /\ branch' = FALSE
  /\ UNCHANGED <<stages, globals>>

SecondFunction(stage) == status = "toplevel" /\ stage \in stages /\ Throw
EndOfFile == status = "toplevel" /\ status' = "done"
             /\ UNCHANGED <<current_stage, stages, globals, blocks, branch, indent, text>>
-----------------------------------------------------------------------------
(* Declarations and definitions of function variables, assignments *)
\* A plain statement of a function: what follows is not an else of it.
Statement == status = "function" /\ Room(1) /\ branch' = FALSE
             /\ UNCHANGED <<status, current_stage, stages, globals, indent>>

LocalVariableOK(d) ==
  /\ ParseVariableOK(d, KnownNames)
  /\ IsValueType(d.prim) /\ d.size = NoSize

VariableDeclaration(d) ==
  /\ Statement
  /\ LocalVariableOK(d)
  /\ blocks' = AddVariable(NewVariable(d.name, ParsedType(d), "Block", NextLine))
  /\ Emit(Line("declare", indent, d.name, {}, {}))

DefinitionOK(d, e) ==
  LET vt == TypeOf(e, ParsedType(d)) IN
  LocalVariableOK(d) /\ Valid(vt) /\ CanPromoteTo(vt.type, d.prim)

VariableDefinition(d, e) ==
  /\ Statement
  /\ DefinitionOK(d, e)
  /\ blocks' = AddVariable(NewVariable(d.name, ParsedType(d), "Block", NextLine))
  /\ Emit(Line("define", indent, d.name, UsesOf(e), {}))

\* op is "=", or the operator of a compound assignment.
AssignmentOK(lv, op, e) ==
  LET target == LvalueType(lv)
      value  == TypeOf(e, target)
  IN
  /\ Valid(target) /\ Valid(value)
  /\ ~ value.is_array
  /\ IF op = "=" THEN CanPromoteTo(value.type, target.type)
     ELSE PlainType(CheckBinaryOperator(op, target, value)) = target

Assignment(lv, op, e) ==
  /\ Statement
  /\ AssignmentOK(lv, op, e)
  /\ EmitUse("assign", TargetUses(lv, op) \cup UsesOf(e))
  /\ UNCHANGED blocks
-----------------------------------------------------------------------------
(* if, elif, else, while and do: push a scope, emit a line, indent *)
ConditionOK(e) == TypeOf(e, ErrorType) = PlainType(Bool)

OpenBody(construct, uses, cond) ==
  /\ status = "function" /\ Room(2)
  /\ blocks' = Append(blocks, Scope(construct, {}, cond))
  /\ EmitUse(construct, uses)
  /\ indent' = indent + 1
  /\ branch' = FALSE
  /\ UNCHANGED <<status, current_stage, stages, globals>>

IfStatement(e) == ConditionOK(e) /\ OpenBody("if", UsesOf(e), {})
Elif(e)        == branch /\ ConditionOK(e) /\ OpenBody("elif", UsesOf(e), {})
Else           == branch /\ OpenBody("else", {}, {})
WhileLoop(e)   == ConditionOK(e) /\ OpenBody("while", UsesOf(e), {})
DoLoop(e)      == ConditionOK(e) /\ OpenBody("do", {}, UsesOf(e))

\* Faulty variant for the mutation runs: the line is emitted, then outdented.
CloseBodyIndented ==
  /\ status = "function"
  /\ Here.construct # "func"
  /\ indent' = indent - 1
  /\ Emit(Line("close", indent, NoName, Here.cond, {}))
  /\ blocks' = PopBlock
  /\ branch' = (Here.construct \in {"if", "elif"})
  /\ UNCHANGED <<status, current_stage, stages, globals>>

\* The end of a body: `}`, or `} while (...);` with the condition of a do loop.
CloseBody ==
  /\ status = "function"
  /\ Here.construct # "func"
  /\ indent' = indent - 1
  /\ Emit(Line("close", indent - 1, NoName, Here.cond, {}))
  /\ blocks' = PopBlock
  /\ branch' = (Here.construct \in {"if", "elif"})
  /\ UNCHANGED <<status, current_stage, stages, globals>>
-----------------------------------------------------------------------------
(* for: the counter is added to the scope of the loop, then the initial    *)
(* value, the condition and the updates are visited in that scope.         *)
CounterOK(d) ==
  /\ ParseVariableOK(d, KnownNames)
  /\ d.size = NoSize
  /\ d.prim \in ScalarOrVector /\ GetComponentType(d.prim) # Bool

ForLoop(d) ==
  LET counter == NewVariable(d.name, ParsedType(d), "Block", NextLine) IN
  /\ status = "function" /\ Room(2)
  /\ CounterOK(d)
  /\ status' = "header"
  /\ blocks' = Append(blocks, Scope("for", {counter}, {}))
  /\ UNCHANGED <<current_stage, stages, globals, branch, indent, text>>

\* An update is an assignment or ++ on an lvalue.
UpdateOK(u) ==
  CASE u.kind = "step" -> IsCounter(LvalueType(u.lval))
    [] OTHER ->
         LET target == LvalueType(u.lval)
             value  == TypeOf(u.value, ErrorType)
         IN
         /\ Valid(target) /\ Valid(value)
         /\ ~ target.is_array /\ ~ value.is_array
         /\ IF u.op = "=" THEN CanPromoteTo(value.type, target.type)
            ELSE PlainType(CheckBinaryOperator(u.op, target, value)) = target

UpdateUses(u) ==
  IF u.kind = "step" THEN LvalueUses(u.lval, "update")
  ELSE TargetUses(u.lval, u.op) \cup UsesOf(u.value)

Counter == CHOOSE v \in Here.vars : TRUE

HeaderOK(init, cond, updates) ==
  LET vt == TypeOf(init, ErrorType) IN
  /\ Valid(vt) /\ ~ vt.is_array /\ CanPromoteTo(vt.type, Counter.type.type)
  /\ ConditionOK(cond)
  /\ \A i \in DOMAIN updates : UpdateOK(updates[i])

ForHeader(init, cond, updates) ==
  /\ status = "header"
  /\ HeaderOK(init, cond, updates)
  /\ status' = "function"
  /\ Emit(Line("for", indent, Counter.name, UsesOf(init),
               UsesOf(cond) \cup UNION {UpdateUses(u) : u \in ToSet(updates)}))
  /\ indent' = indent + 1
  /\ branch' = FALSE
  /\ UNCHANGED <<current_stage, stages, globals, blocks>>
-----------------------------------------------------------------------------
(* break, continue, discard *)
Jumps == {"break", "continue"}

JumpOK(jump) == IF jump \in Jumps THEN InLoopBlock ELSE current_stage = "Fragment"

ControlStatement(jump) ==
  /\ Statement
  /\ JumpOK(jump)
  /\ EmitUse(jump, {})
  /\ UNCHANGED blocks
-----------------------------------------------------------------------------
(* Statements in error: nothing is emitted before the checks. *)
DeclarationRejected(d)        == status = "function" /\ ~ LocalVariableOK(d) /\ Throw
DefinitionRejected(d, e)      == status = "function" /\ ~ DefinitionOK(d, e) /\ Throw
AssignmentRejected(lv, op, e) == status = "function" /\ ~ AssignmentOK(lv, op, e) /\ Throw
ConditionRejected(e)          == status = "function" /\ ~ ConditionOK(e) /\ Throw
CounterRejected(d)            == status = "function" /\ ~ CounterOK(d) /\ Throw
HeaderRejected(init, cond, updates) ==
  status = "header" /\ ~ HeaderOK(init, cond, updates) /\ Throw
JumpRejected(jump)            == status = "function" /\ ~ JumpOK(jump) /\ Throw

Terminated == status \in {"done", "failed"} /\ UNCHANGED vars

Functions ==
  \/ \E g \in GlobalPool : DeclareGlobal(g)
  \/ \E stage \in Stages : StageFunction(stage) \/ SecondFunction(stage)
  \/ EndStageFunction
  \/ EndOfFile

Simple ==
  \/ \E d \in Decls : VariableDeclaration(d) \/ DeclarationRejected(d)
  \/ \E d \in Decls, e \in Exprs : VariableDefinition(d, e) \/ DefinitionRejected(d, e)
  \/ \E lv \in Lvalues, op \in AssignOps, e \in Exprs :
       Assignment(lv, op, e) \/ AssignmentRejected(lv, op, e)
  \/ \E jump \in Jumps \cup {"discard"} : ControlStatement(jump) \/ JumpRejected(jump)

Bodies ==
  \/ \E e \in Exprs : IfStatement(e) \/ Elif(e) \/ WhileLoop(e) \/ DoLoop(e) \/ ConditionRejected(e)
  \/ Else
  \/ \E d \in Decls : ForLoop(d) \/ CounterRejected(d)
  \/ \E init \in Exprs, cond \in Conditions, updates \in UpdateLists :
       ForHeader(init, cond, updates) \/ HeaderRejected(init, cond, updates)
  \/ CloseBody

Next == Functions \/ Simple \/ Bodies \/ Terminated

Spec == Init /\ [][Next]_vars
-----------------------------------------------------------------------------
Constructs == {"func", "if", "elif", "else", "while", "do", "for"}
LineOps    == Constructs \cup Jumps \cup {"discard", "declare", "define", "assign", "close"}
Identifiers == Names \cup BuiltinNames
VariableRecord ==
  [name : Identifiers, type : HLSVType, read : SUBSET Stages, write : SUBSET Stages, at : Nat,
   scope : GlobalScopes \cup {"Block", "Builtin"}, after : SUBSET Stages]
UseRecord  == [name : Identifiers, at : Nat, mode : {"read", "write", "update"}]
ScopeRecord == [construct : Constructs, type : {"BT_Func", "BT_Loop", "BT_Cond"},
                vars : SUBSET VariableRecord, cond : SUBSET UseRecord]
LineRecord == [op : LineOps, indent : Nat, name : Names \cup {NoName}, uses : SUBSET UseRecord,
               loop_uses : SUBSET UseRecord]

\* Every component has its type; inside a function there are a stage and an
\* open scope, and between functions and at the end neither.
TypeOK ==
  /\ status \in Statuses
  /\ current_stage \in Stages \cup {"None"}
  /\ stages \subseteq Stages
  /\ globals \subseteq VariableRecord
  /\ blocks \in Seq(ScopeRecord)
  /\ branch \in BOOLEAN
  /\ indent \in Nat
  /\ text \in [Stages -> Seq(LineRecord)]
  /\ status \in {"function", "header"} => current_stage \in Stages /\ blocks # <<>>
  /\ status \in {"toplevel", "done"} => current_stage = "None" /\ blocks = <<>>

\* The line of t whose declaration of a name GLSL finds at line i, looking at
\* the lines up to last; 0 if it is no variable of the function.  A
\* declaration is in scope until its block is closed, that is, until a line is
\* indented less; the variable of a for header belongs to the loop's block.
DeclaredIndent(line) == IF line.op = "for" THEN line.indent + 1 ELSE line.indent
InScope(t, j, i) == \A k \in j + 1 .. i : t[k].indent >= DeclaredIndent(t[j])
GlslDeclaration(t, name, i, last) ==
  LET found == {j \in 1 .. last : t[j].name = name /\ InScope(t, j, i)}
  IN IF found = {} THEN 0 ELSE CHOOSE j \in found : \A k \in found : k <= j

\* A name means to the GLSL compiler what it meant to the visitor: the scope
\* rules of the emitted text find the declaration that find_variable found,
\* also for the condition a do loop emits at its end and for globals declared
\* after the function.  The initial value of a loop may name the loop's own
\* variable, which the emitted text does not have in scope there.
ScopesAgree ==
  \A stage \in Stages : LET t == text[stage] IN \A i \in DOMAIN t :
    /\ \A u \in t[i].uses :
         (t[i].op = "for" /\ u.at = i) \/ GlslDeclaration(t, u.name, i, i - 1) = u.at
    /\ \A u \in t[i].loop_uses : GlslDeclaration(t, u.name, i, i) = u.at

\* No variable of a function is declared where its name already means
\* something: another variable of the function that is in scope, or a global
\* declared before the function.  (Only a global that comes after the function
\* may take the name.)
NoShadowing ==
  \A stage \in Stages : LET t == text[stage] IN \A i \in DOMAIN t :
    t[i].name # NoName =>
      /\ GlslDeclaration(t, t[i].name, i, i - 1) = 0
      /\ \A v \in globals : v.name = t[i].name => stage \in v.after

\* Of globals and builtins, a function has in its expressions those its stage
\* may read, and as the target of an assignment, ++ or -- those it may write,
\* whatever is declared before or after it.  A target that is updated (+=, ++)
\* is read as well, and need not be one the stage may read: GLSL allows it, the
\* target being an out variable.
PermittedByStage ==
  \A stage \in Stages : LET t == text[stage] IN \A i \in DOMAIN t :
    \A u \in t[i].uses \cup t[i].loop_uses :
      u.at = 0 => \E v \in globals \cup Builtins(stage) :
                    /\ v.name = u.name
                    /\ stage \in IF u.mode = "read" THEN v.read ELSE v.write



\* In the text of a function a break or continue stands between the braces of
\* a loop, and a discard in the fragment function only.
Surrounds(t, j, i) == \A k \in j + 1 .. i : t[k].indent > t[j].indent
JumpsInLoops ==
  \A stage \in Stages : LET t == text[stage] IN \A i \in DOMAIN t :
    /\ t[i].op \in Jumps =>
         \E j \in 1 .. i - 1 : t[j].op \in {"while", "do", "for"} /\ Surrounds(t, j, i)
    /\ t[i].op = "discard" => stage = "Fragment"

\* The braces of the text balance and the indentation shows their depth: one
\* deeper after each line that opens a body, one less on each that closes it,
\* and a function that has been left is closed.
Opens(line)  == IF line.op \in Constructs THEN 1 ELSE 0
Closes(line) == IF line.op = "close" THEN 1 ELSE 0
TextWellNested ==
  \A stage \in Stages : LET t == text[stage] IN
    /\ t[1].op = "func" /\ t[1].indent = 0
    /\ \A i \in 1 .. Len(t) - 1 :
         t[i + 1].indent = t[i].indent + Opens(t[i]) - Closes(t[i + 1])
    /\ stage \in stages /\ status \in {"toplevel", "done"} =>
         t[Len(t)].op = "close" /\ t[Len(t)].indent = 0
=============================================================================
