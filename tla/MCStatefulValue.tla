-------------------------- MODULE MCStatefulValue ---------------------------
(***************************************************************************)
(* Instances of StatefulValue for TLC: every class and array of up to      *)
(* three items, whole and broken.                                          *)
(***************************************************************************)
EXTENDS StatefulValue

AllContainers ==
  [kind : {"class"}, items : BoundedSeq(Names, 3), broken : BOOLEAN]
    \cup [kind : {"array"}, items : BoundedSeq({NoName}, 3), broken : BOOLEAN]

\* All names have the same hash.
CollidingHash == [n \in Names |-> 0]

AllIndexes == -4 .. 4
=============================================================================
