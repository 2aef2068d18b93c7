---------------------------- MODULE BindingSpace ----------------------------
(***************************************************************************)
(* What a table of shader binding slots promises, whatever it binds: a     *)
(* slot has at most one owner, an owner takes all its slots in one step    *)
(* and only free ones, and a slot once taken keeps its owner.              *)
(***************************************************************************)
CONSTANTS Slots, Owners, Free

VARIABLE owner      \* the owner of each slot, or Free

Init == owner = [s \in Slots |-> Free]

\* o, which owns nothing, becomes the owner of one or more free slots.
Claim(o) ==
  /\ \A s \in Slots : owner[s] # o
  /\ LET S == {s \in Slots : owner'[s] = o} IN
       /\ S # {}
       /\ \A s \in S : owner[s] = Free
       /\ owner' = [s \in Slots |-> IF s \in S THEN o ELSE owner[s]]

Next == \E o \in Owners : Claim(o)

Spec == Init /\ [][Next]_owner
=============================================================================
