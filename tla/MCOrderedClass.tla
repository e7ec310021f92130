-------------------------- MODULE MCOrderedClass ---------------------------
(***************************************************************************)
(* Instances of OrderedClass for TLC.                                      *)
(***************************************************************************)
EXTENDS OrderedClass, SequencesExt

\* Elements: a number, a null and an array with elements.
ElementTexts == {<<"v">>, <<"null">>, <<"[", "v", ",", "v", "]">>}

Joined(es) ==
  FoldLeft(LAMBDA t, e : IF t = <<>> THEN e ELSE t \o <<",">> \o e, <<>>, es)

\* Arrays of up to n elements behind the opening bracket, the enclosing array going
\* on behind them or not.
Arrays(n) ==
  {Joined(es) \o tail : es \in BoundedSeq(ElementTexts, n), tail \in {<<"]">>, <<"]", ",", "v", "]">>}}

\* ... and those that break off.
BrokenArrays(n) ==
  UNION {{SubSeq(t, 1, i) : i \in 0 .. Len(t) - 1} :
           t \in {Joined(es) \o <<"]">> : es \in BoundedSeq(ElementTexts, n)}}

\* Up to three members, with the next index or one of their own, nullable or not.
MemberLists ==
  BoundedSeq([at : {NoIndex, 2}, nullable : BOOLEAN], 2)
    \cup {<<a, b, c>> : a \in [at : {NoIndex, 1}, nullable : {FALSE}],
                        b \in [at : {NoIndex, 2}, nullable : {TRUE}],
                        c \in [at : {NoIndex, 3}, nullable : {TRUE, FALSE}]}

Mappings == [form : {"class", "tuple"}, members : MemberLists, exact : BOOLEAN]

\* The texts and mappings the properties speak of.
Inputs ==
  {g \in [mapping : Mappings, text : Arrays(3) \cup BrokenArrays(3)] : NoArrayBehind(g)}

\* What the members of a mapping can be.
ValuesOf(ms) ==
  {vs \in [DOMAIN ms -> {"v", "null"}] : \A m \in DOMAIN ms : vs[m] = "null" => ms[m].nullable}

Objects(ms) ==
  UNION {{[mapping |-> [form |-> f, members |-> l, exact |-> x], values |-> vs, trailing |-> c] :
            vs \in ValuesOf(l), c \in BOOLEAN, x \in BOOLEAN,
            f \in IF \A m \in DOMAIN l : l[m].at = NoIndex THEN {"class", "tuple"} ELSE {"class"}} :
         l \in ms}

\* The objects that can be read back.
Readable ==
  Objects({l \in MemberLists : GapBeforeLast(l)})

\* The instance is one of those the theorems are about.
ASSUME InstanceAssumption == GivenArrays /\ WrittenWithoutGaps
=============================================================================
