---------------------------- MODULE Declarations ----------------------------
(***************************************************************************)
(* Variable declarations `type<arg> name[size]` as the parser hands them   *)
(* to the visitor, and what Visitor::parse_variable makes of them.         *)
(*                                                                         *)
(* A literal is abstracted to the value parse_integer_literal returns for  *)
(* it, or to Unparsable when that function raises an error.                *)
(***************************************************************************)
EXTENDS HLSVTypes

CONSTANTS
  Names,     \* identifiers a program may declare
  BadNames   \* those parse_variable refuses: '$...' or longer than 24 characters

ASSUME BadNamesAssumption == BadNames \subseteq Names

Unparsable == -1    \* a literal that is out of range, negative or not base 10
NoSize     == -2    \* a declaration without [size]

Declaration(n, t)     == [name |-> n, prim |-> t, size |-> NoSize,
                          targ |-> [kind |-> "none", val |-> 0]]
ArrayDecl(n, t, s)    == [Declaration(n, t) EXCEPT !.size = s]
ImageDecl(n, t, fmt)  == [Declaration(n, t) EXCEPT !.targ = [kind |-> "format", val |-> fmt]]
SubpassDecl(n, t, i)  == [Declaration(n, t) EXCEPT !.targ = [kind |-> "index", val |-> i]]

IsDeclaration(d) ==
  /\ DOMAIN d = {"name", "prim", "size", "targ"}
  /\ d.name \in Names
  /\ d.prim \in PrimTypes
  /\ d.size \in Nat \cup {Unparsable, NoSize}
  /\ \/ d.targ.kind \in {"none", "format"} /\ d.targ.val \in PrimTypes
     \/ d.targ.kind = "index" /\ d.targ.val \in Nat \cup {Unparsable}

\* The texel formats a storage image may name: not boolean, not 3 components.
ImageFormats == {t \in ScalarOrVector : GetComponentType(t) # Bool /\ GetComponentCount(t) # 3}

TypeArgumentOK(prim, targ) ==
  CASE targ.kind = "none"   -> ~ IsImageType(prim) /\ prim # SubpassInput
    [] targ.kind = "format" -> IsImageType(prim) /\ targ.val \in ImageFormats
    [] targ.kind = "index"  -> prim = SubpassInput /\ targ.val # Unparsable

\* Faulty variant for the mutation runs: a name may be declared again.
ParseAnyName(d, taken) ==
  /\ d.prim \notin {Void, Error}
  /\ d.size = NoSize \/ d.size \in 1 .. 255
  /\ TypeArgumentOK(d.prim, d.targ)
  /\ d.name \notin BadNames

\* The conditions under which parse_variable returns instead of raising an
\* error; taken is the set of names find_variable knows at that point.
ParseVariableOK(d, taken) ==
  /\ d.prim \notin {Void, Error}
  /\ d.size = NoSize \/ d.size \in 1 .. 255
  /\ TypeArgumentOK(d.prim, d.targ)
  /\ d.name \notin BadNames
  /\ d.name \notin taken

\* The type of the variable it returns; a subpass index is cut to 8 bits.
ParsedType(d) ==
  [type     |-> d.prim,
   is_array |-> d.size # NoSize,
   count    |-> IF d.size = NoSize THEN 1 ELSE d.size,
   extra    |-> IF d.targ.kind = "none" THEN 0 ELSE Uint8(d.targ.val)]
=============================================================================
