---------------------------- MODULE ElementStream ----------------------------
(***************************************************************************)
(* What iterators over the elements of a document promise: a dereference   *)
(* answers the element the iterator is at and may be repeated, a step goes *)
(* to the next one whether or not the element has been looked at, copies   *)
(* go on alone. An element that is not of the type asked for is answered   *)
(* with an error; a step over one may be refused, or lead nowhere.         *)
(***************************************************************************)
EXTENDS Naturals, Sequences

CONSTANT Iterators

VARIABLES good,      \* of every element whether it is of the type, in order
          whole,     \* the document is not cut, and every iterator has all of it
          at, until, \* the elements in front of each iterator, and of its end
          known,     \* the iterators that have answered the element they are at
          answer     \* of the last operation: what it was, of whom, and its result

Init ==
  /\ \A k \in DOMAIN good : good[k] \in BOOLEAN
  /\ whole \in BOOLEAN
  /\ at = [i \in Iterators |-> 0] /\ until = at
  /\ known = {} /\ answer = <<"none">>

Begin ==
  /\ answer = <<"none">> /\ answer' = <<"begun">>
  /\ \A i \in Iterators : at'[i] <= until'[i] /\ until'[i] <= Len(good)
  /\ whole => \A i \in Iterators : at'[i] = 0 /\ until'[i] = Len(good)
  /\ UNCHANGED <<good, whole, known>>

Live(i) == at[i] < until[i]

Dereference(i) ==
  /\ IF Live(i) /\ good[at[i] + 1]
     THEN answer' = <<"element", i, at[i] + 1>> /\ known' = known \cup {i}
     ELSE answer' = <<"error", i>> /\ UNCHANGED known
  /\ UNCHANGED <<good, whole, at, until>>

Moves(i) == at' = [at EXCEPT ![i] = @ + 1] /\ known' = known \ {i} /\ answer' = <<"moved", i>>
Stays(i) == Live(i) /\ i \notin known /\ ~good[at[i] + 1] /\ answer' = <<"moved", i>> /\ UNCHANGED <<at, known>>
Refuses(i) == i \notin known /\ answer' = <<"error", i>> /\ UNCHANGED <<at, known>>
Step(i) ==
  /\ IF Live(i) THEN Moves(i) \/ Stays(i) \/ Refuses(i) ELSE Refuses(i)
  /\ UNCHANGED <<good, whole, until>>

Copy(i, j) ==
  /\ at' = [at EXCEPT ![j] = at[i]] /\ until' = [until EXCEPT ![j] = until[i]]
  /\ known' = IF i \in known THEN known \cup {j} ELSE known \ {j}
  /\ answer' = <<"copied", j>>
  /\ UNCHANGED <<good, whole>>

Next == \/ Begin
        \/ \E i \in Iterators : Dereference(i) \/ Step(i) \/ (\E j \in Iterators \ {i} : Copy(i, j))

vars == <<good, whole, at, until, known, answer>>
Spec == Init /\ [][Next]_vars
=============================================================================
