----------------------------- MODULE MCFindPath -----------------------------
(***************************************************************************)
(* Instances of FindPath for TLC: the event parser with the handler of     *)
(* find_json_path and with handlers that give every sequence of answers.   *)
(***************************************************************************)
EXTENDS FindPath

Values6 == {d \in BoundedSeq(Tokens, 6) : IsValue(d)}

\* Every value of up to six tokens, and every sequence of up to four, matching or
\* not, the empty one included.
ValuesAndOthers == Values6 \cup BoundedSeq(Tokens, 4)

AllLocations == [token : 1 .. 7, late : BOOLEAN]
=============================================================================
