----------------------------- MODULE ClassLookup -----------------------------
(***************************************************************************)
(* What the construction of a class from a JSON object promises, without   *)
(* saying how the object is searched: each argument gets the value of a    *)
(* member of its name (which one is unspecified when a name is repeated),  *)
(* or is empty when it is nullable and the value is null or absent; the    *)
(* parse fails only for a reason found in the object.                      *)
(***************************************************************************)
EXTENDS Integers, Sequences

CONSTANTS MemberCount, NameCount

VARIABLES
  inner,    \* the members of the object: [name, null]
  mapping,  \* [nullable, exact]
  outcome,  \* "parsing", "done" or "failed"
  value     \* for each argument the member it was built from, 0 if empty

vars == <<inner, mapping, outcome, value>>

Members == 1 .. MemberCount

Named(m)  == {i \in 1 .. Len(inner) : inner[i].name = m}
Valued(m) == {i \in Named(m) : ~inner[i].null}
Absent(m) == Named(m) = {} \/ \E i \in Named(m) : inner[i].null

\* The values argument m may get.
Choices(m) == Valued(m) \cup (IF Absent(m) /\ m \in mapping.nullable THEN {0} ELSE {})

\* A reason to fail: a required member without a value, or, when the mapping is
\* exact, a member that is not mapped or repeats another.
MayFail ==
  \/ \E m \in Members \ mapping.nullable : Absent(m)
  \/ /\ mapping.exact
     /\ \E i \in 1 .. Len(inner) :
          \/ inner[i].name \notin Members
          \/ \E j \in 1 .. i - 1 : inner[j].name = inner[i].name

\* A reason why the object cannot be accepted.
MustFail ==
  \/ \E m \in Members : Choices(m) = {}
  \/ mapping.exact /\ \E i \in 1 .. Len(inner) : inner[i].name \notin Members

Init ==
  /\ inner \in Seq([name : 1 .. NameCount, null : BOOLEAN])
  /\ mapping \in [nullable : SUBSET Members, exact : BOOLEAN]
  /\ outcome = "parsing"
  /\ value = [m \in Members |-> 0]

Succeed ==
  /\ outcome = "parsing"
  /\ ~MustFail
  /\ outcome' = "done"
  /\ value' \in [Members -> 0 .. Len(inner)]
  /\ \A m \in Members : value'[m] \in Choices(m)
  /\ UNCHANGED <<inner, mapping>>

Fail ==
  /\ outcome = "parsing"
  /\ MayFail
  /\ outcome' = "failed"
  /\ UNCHANGED <<inner, mapping, value>>

Next == Succeed \/ Fail

Safety == Init /\ [][Next]_vars
=============================================================================
