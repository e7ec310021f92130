-------------------------- MODULE EventParser_proofs --------------------------
(***************************************************************************)
(* Proofs about EventParser and FindPath.                                  *)
(*                                                                         *)
(* For documents of any length whose brackets need not match, the depths   *)
(* count the open containers, a handler that has seen enough is not called *)
(* again, one that goes on is told of every token in order, and no value   *)
(* is rejected. Of FindPath, which is EventParser with one handler: the    *)
(* stack that the handler keeps for itself is in step with the one of the  *)
(* parser that calls it, and what is returned is the path to the value at  *)
(* the position.                                                           *)
(***************************************************************************)
EXTENDS FindPath, Positions, SequenceTheorems

Entry == [kind : Openings, first : 0 .. Len(doc) + 1]

(* The places on a stack where a container of kind t is open               *)
OpenOf(s, t) == {i \in DOMAIN s : s[i].kind = t}

-----------------------------------------------------------------------------
(* Skipping stays in the document.                                         *)

LEMMA ClosingInDocument ==
  ASSUME NEW d \in Seq(Tokens), NEW i \in 1 .. Len(d)
  PROVE  ClosingOf(d, i) \in 0 .. Len(d)
<1> DEFINE closes == {j \in i .. Len(d) : Balance(d, d[i], i, j) = 0}
           close  == CHOOSE j \in closes : \A k \in closes : j <= k
<1>1. CASE closes = {}
  BY <1>1 DEF ClosingOf
<1>2. CASE closes # {}
  <2>1. closes \in SUBSET Nat /\ closes \in SUBSET (0 .. Len(d))
    OBVIOUS
  <2>2. \E j \in closes : \A k \in closes : j <= k
    <3> HIDE DEF closes
    <3> QED
      BY <1>2, <2>1, LeastExists
  <2>3. close \in closes
    <3> HIDE DEF closes
    <3> QED
      BY <2>2
  <2>4. ClosingOf(d, i) \in {0, close}
    BY <1>2 DEF ClosingOf
  <2> HIDE DEF closes, close
  <2>5. close \in 0 .. Len(d)
    BY <2>1, <2>3
  <2> QED
    BY <2>4, <2>5
<1> QED
  BY <1>1, <1>2

LEMMA SkipInDocument ==
  ASSUME NEW d \in Seq(Tokens), NEW i \in 1 .. Len(d), StartsValue(d, i)
  PROVE  SkipValue(d, i) \in 0 .. Len(d) + 1
<1>1. CASE d[i] \in Scalars
  <2>1. d[i] \notin Openings /\ d[i] \notin Closings
    BY <1>1 DEF Scalars, Openings, Closings
  <2> QED
    BY <1>1, <2>1 DEF SkipValue, SkipScalar
<1>2. CASE d[i] \in Openings
  <2>1. d[i] \notin Scalars /\ d[i] \notin Closings
    BY <1>2 DEF Scalars, Openings, Closings
  <2>2. SkipValue(d, i) = IF ClosingOf(d, i) = 0 THEN 0 ELSE ClosingOf(d, i) + 1
    BY <1>2, <2>1 DEF SkipValue
  <2> QED
    BY <2>2, ClosingInDocument
<1> QED
  BY <1>1, <1>2 DEF StartsValue, Tokens

-----------------------------------------------------------------------------
(* Counting what is open.                                                  *)

LEMMA OpenIsFinite ==
  ASSUME NEW T, NEW s \in Seq(T), NEW t
  PROVE  IsFiniteSet(OpenOf(s, t))
<1>1. IsFiniteSet(1 .. Len(s)) /\ OpenOf(s, t) \in SUBSET (1 .. Len(s))
  BY FS_Interval DEF OpenOf
<1> QED
  BY <1>1, FS_Subset

(***************************************************************************)
(* One more container is open, of its own kind only.                       *)
(***************************************************************************)
LEMMA OpenPushed ==
  ASSUME NEW s \in Seq(Entry), NEW e \in Entry, NEW t
  PROVE  Cardinality(OpenOf(Append(s, e), t)) = Cardinality(OpenOf(s, t)) + (IF e.kind = t THEN 1 ELSE 0)
<1> DEFINE n == Len(s) + 1
<1>1. /\ DOMAIN Append(s, e) = DOMAIN s \cup {n}
      /\ Append(s, e)[n] = e
      /\ \A i \in DOMAIN s : Append(s, e)[i] = s[i]
      /\ n \notin DOMAIN s
  OBVIOUS
<1>2. IsFiniteSet(OpenOf(s, t)) /\ Cardinality(OpenOf(s, t)) \in Nat /\ n \notin OpenOf(s, t)
  BY <1>1, OpenIsFinite, FS_CardinalityType DEF OpenOf
<1>3. CASE e.kind = t
  <2>1. OpenOf(Append(s, e), t) = OpenOf(s, t) \cup {n}
    BY <1>1, <1>3 DEF OpenOf
  <2>2. Cardinality(OpenOf(s, t) \cup {n}) = Cardinality(OpenOf(s, t)) + 1
    <3> HIDE DEF n
    <3> QED
      BY <1>2, FS_AddElement
  <2> QED
    BY <1>3, <2>1, <2>2, Zenon
<1>4. CASE e.kind # t
  <2>1. OpenOf(Append(s, e), t) = OpenOf(s, t)
    BY <1>1, <1>4 DEF OpenOf
  <2> QED
    BY <1>2, <1>4, <2>1
<1> QED
  BY <1>3, <1>4

(***************************************************************************)
(* ... and one less.                                                       *)
(***************************************************************************)
LEMMA OpenPopped ==
  ASSUME NEW s \in Seq(Entry), s # <<>>, NEW t
  PROVE  /\ Front(s) \in Seq(Entry)
         /\ Cardinality(OpenOf(Front(s), t)) = Cardinality(OpenOf(s, t)) - (IF Last(s).kind = t THEN 1 ELSE 0)
<1>1. /\ Front(s) \in Seq(Entry) /\ Len(s) \in DOMAIN s
      /\ DOMAIN Front(s) = DOMAIN s \ {Len(s)}
      /\ \A i \in DOMAIN Front(s) : Front(s)[i] = s[i]
  BY DEF Front
<1>2. IsFiniteSet(OpenOf(s, t)) /\ Cardinality(OpenOf(s, t)) \in Nat
  BY OpenIsFinite, FS_CardinalityType
<1>3. CASE Last(s).kind = t
  <2>1. OpenOf(Front(s), t) = OpenOf(s, t) \ {Len(s)} /\ Len(s) \in OpenOf(s, t)
    BY <1>1, <1>3 DEF OpenOf, Last
  <2> QED
    BY <1>1, <1>2, <1>3, <2>1, FS_RemoveElement
<1>4. CASE Last(s).kind # t
  <2>1. OpenOf(Front(s), t) = OpenOf(s, t)
    BY <1>1, <1>4 DEF OpenOf, Last
  <2> QED
    BY <1>1, <1>2, <1>4, <2>1
<1> QED
  BY <1>3, <1>4

(***************************************************************************)
(* The iterator on top moves; what is open stays.                          *)
(***************************************************************************)
LEMMA OpenMoved ==
  ASSUME NEW s \in Seq(Entry), s # <<>>, NEW f \in 0 .. Len(doc) + 1, NEW t
  PROVE  /\ [s EXCEPT ![Len(s)].first = f] \in Seq(Entry)
         /\ OpenOf([s EXCEPT ![Len(s)].first = f], t) = OpenOf(s, t)
<1> DEFINE u == [s EXCEPT ![Len(s)].first = f]
<1>1. Len(s) \in DOMAIN s /\ DOMAIN s = 1 .. Len(s) /\ \A i \in DOMAIN s : s[i] \in Entry
  OBVIOUS
<1>2. DOMAIN u = DOMAIN s /\ \A i \in DOMAIN s : u[i] \in Entry /\ u[i].kind = s[i].kind
  BY <1>1 DEF Entry
<1>3. u \in Seq(Entry)
  BY <1>1, <1>2
<1> QED
  BY <1>2, <1>3 DEF OpenOf

-----------------------------------------------------------------------------
(* Every step keeps the types and the counts.                              *)

Counted == GoesOn /\ phase # "failed" => \A t \in Openings : depth[t] = Cardinality(OpenOf(stack, t))

LEMMA CountedIsCount == DepthsCountStack <=> TypeOK /\ Counted
BY DEF DepthsCountStack, Counted, OpenOf

LEMMA TypeFacts ==
  ASSUME TypeOK
  PROVE  /\ doc \in Seq(Tokens) /\ Len(doc) \in Nat
         /\ stack \in Seq(Entry)
         /\ stack # <<>> => /\ Len(stack) \in DOMAIN stack
                            /\ Top \in Entry /\ Top.kind \in Openings /\ Top.first \in 0 .. Len(doc) + 1
         /\ AtOpening => value \in 1 .. Len(doc) /\ doc[value] \in Openings
<1>1. doc \in Seq(Tokens) /\ stack \in Seq(Entry)
  BY EventAssumption DEF TypeOK, Entry
<1>2. ASSUME stack # <<>>
      PROVE  Len(stack) \in DOMAIN stack /\ Top \in Entry
  BY <1>1, <1>2 DEF Top, Last
<1> QED
  BY <1>1, <1>2 DEF Entry, AtOpening

(* An answer other than Continue ends what the counts are about.           *)
LEMMA AnswerTypes ==
  ASSUME TypeOK, NEW r \in Answers, answers' = answers \cup {r}
  PROVE  answers' \subseteq Answers /\ (GoesOn' => GoesOn /\ r = "Continue")
BY DEF TypeOK, GoesOn

LEMMA ReactTypes ==
  ASSUME TypeOK, NEW r \in Answers, NEW pushed \in Seq(Entry), NEW next \in Phases, React(r, pushed, next)
  PROVE  /\ stack' \in Seq(Entry) /\ phase' \in Phases
         /\ answers' \subseteq Answers
         /\ GoesOn' => GoesOn /\ stack' = pushed /\ phase' = next
<1>1. answers' \subseteq Answers /\ (GoesOn' => GoesOn /\ r = "Continue")
  BY AnswerTypes DEF React
<1>2. CASE r = "Continue"
  BY <1>1, <1>2 DEF React
<1>3. CASE r = "Complete"
  BY <1>1, <1>3 DEF React, Phases
<1>4. CASE r = "SkipClassArray"
  <2>1. 0 \in 0 .. Len(doc) + 1 /\ stack \in Seq(Entry)
    BY TypeFacts
  <2>2. stack # <<>> => [stack EXCEPT ![Len(stack)].first = NoIterator] \in Seq(Entry)
    BY <2>1, OpenMoved DEF NoIterator
  <2> QED
    BY <1>1, <1>4, <2>1, <2>2 DEF React, Phases
<1> QED
  BY <1>2, <1>3, <1>4 DEF Answers

(* A step of the parser, for a handler that may give any answer            *)
Step ==
  \/ \E r \in Answers : Callback(r)
  \/ NextElement \/ RejectEnd \/ Finish \/ Terminated \/ UNCHANGED vars

(***************************************************************************)
(* The invariant holds at first and is kept by every action.               *)
(***************************************************************************)
LEMMA CountInit == Init => DepthsCountStack
<1> SUFFICES ASSUME Init PROVE TypeOK /\ Counted
  BY CountedIsCount
<1>1. TypeOK
  <2>1. doc \in Seq(Tokens)
    BY EventAssumption DEF Init
  <2> QED
    BY <2>1 DEF Init, TypeOK, Phases
<1>2. \A t \in Openings : OpenOf(stack, t) = {}
  BY DEF Init, OpenOf
<1>3. Counted
  BY <1>2, FS_EmptySet DEF Init, Counted
<1> QED
  BY <1>1, <1>3

LEMMA CountStep == DepthsCountStack /\ Step => DepthsCountStack'
<1> SUFFICES ASSUME TypeOK, Counted, Step PROVE TypeOK' /\ Counted'
  BY DEF DepthsCountStack, Counted, OpenOf
<1>f. /\ doc \in Seq(Tokens) /\ Len(doc) \in Nat
      /\ stack \in Seq(Entry)
      /\ stack # <<>> => /\ Len(stack) \in DOMAIN stack
                         /\ Top \in Entry /\ Top.kind \in Openings /\ Top.first \in 0 .. Len(doc) + 1
      /\ AtOpening => value \in 1 .. Len(doc) /\ doc[value] \in Openings
  BY TypeFacts
<1>1. ASSUME NEW r \in Answers, HandleValue(r) PROVE TypeOK' /\ Counted'
  <2>1. /\ stack' \in Seq(Entry) /\ phase' \in Phases /\ answers' \subseteq Answers
        /\ GoesOn' => GoesOn /\ stack' = stack /\ phase' = "typed"
    BY <1>1, <1>f, ReactTypes DEF HandleValue, Phases
  <2> QED
    BY <1>1, <2>1 DEF HandleValue, TypeOK, Counted, Entry
<1>2. ASSUME NEW r \in Answers, HandleStart(r) PROVE TypeOK' /\ Counted'
  <2> DEFINE e == [kind |-> doc[value], first |-> value + 1]
  <2>1. e \in Entry /\ Append(stack, e) \in Seq(Entry)
    BY <1>2, <1>f DEF HandleStart, Entry
  <2>2. /\ stack' \in Seq(Entry) /\ phase' \in Phases /\ answers' \subseteq Answers
        /\ GoesOn' => GoesOn /\ stack' = Append(stack, e)
    BY <1>2, <2>1, ReactTypes DEF HandleStart, Phases
  <2> HIDE DEF e
  <2>3. TypeOK'
    <3>1. events' \in Seq(0 .. Len(doc) + 1) /\ depth' \in [Openings -> Int]
      BY <1>2, <1>f DEF HandleStart, TypeOK
    <3> QED
      BY <1>2, <2>2, <3>1 DEF HandleStart, TypeOK, Entry
  <2>4. ASSUME GoesOn', NEW t \in Openings PROVE depth'[t] = Cardinality(OpenOf(stack', t))
    <3>1. depth[t] = Cardinality(OpenOf(stack, t)) /\ depth[t] \in Int
      BY <1>2, <2>2, <2>4 DEF Counted, HandleStart, TypeOK
    <3>2. depth'[t] = depth[t] + (IF doc[value] = t THEN 1 ELSE 0)
      BY <1>2, <3>1 DEF HandleStart, TypeOK
    <3>3. Cardinality(OpenOf(Append(stack, e), t)) = Cardinality(OpenOf(stack, t)) + (IF e.kind = t THEN 1 ELSE 0)
      BY <1>f, <2>1, OpenPushed
    <3> QED
      BY <2>2, <2>4, <3>1, <3>2, <3>3 DEF e
  <2> QED
    BY <2>3, <2>4 DEF Counted
<1>3. ASSUME NEW r \in Answers, HandleScalar(r) PROVE TypeOK' /\ Counted'
  <2>1. /\ stack' \in Seq(Entry) /\ phase' \in Phases /\ answers' \subseteq Answers
        /\ GoesOn' => GoesOn /\ stack' = stack /\ phase' = "range"
    BY <1>3, <1>f, ReactTypes DEF HandleScalar, Phases
  <2>2. events' \in Seq(0 .. Len(doc) + 1)
    BY <1>3, <1>f DEF HandleScalar, TypeOK
  <2> QED
    BY <1>3, <2>1, <2>2 DEF HandleScalar, TypeOK, Counted, Entry
<1>4. ASSUME NEW r \in Answers, HandleEnd(r) PROVE TypeOK' /\ Counted'
  <2>1. answers' \subseteq Answers /\ (GoesOn' => GoesOn /\ r = "Continue")
    BY <1>4, AnswerTypes DEF HandleEnd
  <2>2. stack # <<>> /\ Front(stack) \in Seq(Entry)
    BY <1>4, <1>f, OpenPopped DEF HandleEnd
  <2>a. stack' \in Seq(Entry)
    BY <1>4, <1>f, <2>2 DEF HandleEnd, TypeOK
  <2>b. events' \in Seq(0 .. Len(doc) + 1)
    BY <1>4, <1>f DEF HandleEnd, TypeOK
  <2>c. depth' \in [Openings -> Int]
    BY <1>4, <1>f DEF HandleEnd, TypeOK
  <2>3. stack' \in Seq(Entry) /\ events' \in Seq(0 .. Len(doc) + 1) /\ depth' \in [Openings -> Int]
    BY <2>a, <2>b, <2>c
  <2>4. TypeOK'
    BY <1>4, <2>1, <2>3 DEF HandleEnd, TypeOK, Entry
  <2>5. ASSUME GoesOn', NEW t \in Openings PROVE depth'[t] = Cardinality(OpenOf(stack', t))
    <3>1. depth[t] = Cardinality(OpenOf(stack, t)) /\ depth[t] \in Int
      BY <1>4, <2>1, <2>5 DEF Counted, HandleEnd, TypeOK
    <3>2. depth'[t] = depth[t] - (IF Top.kind = t THEN 1 ELSE 0)
      BY <1>4, <3>1 DEF HandleEnd, TypeOK
    <3>3. Cardinality(OpenOf(Front(stack), t)) = Cardinality(OpenOf(stack, t)) - (IF Top.kind = t THEN 1 ELSE 0)
      BY <1>f, <2>2, OpenPopped DEF Top
    <3>4. stack' = Front(stack)
      BY <1>4, <2>1, <2>5 DEF HandleEnd
    <3> QED
      BY <3>1, <3>2, <3>3, <3>4
  <2> QED
    BY <2>4, <2>5 DEF Counted
<1>5. CASE NextElement
  <2>1. stack # <<>> /\ Top.first \in 1 .. Len(doc) /\ StartsValue(doc, Top.first)
    BY <1>5 DEF NextElement, StartsValue
  <2>2. SkipValue(doc, Top.first) \in 0 .. Len(doc) + 1
    BY <1>f, <2>1, SkipInDocument
  <2> DEFINE moved == [stack EXCEPT ![Len(stack)].first = SkipValue(doc, Top.first)]
  <2>3. moved \in Seq(Entry) /\ \A t : OpenOf(moved, t) = OpenOf(stack, t)
    BY <1>f, <2>1, <2>2, OpenMoved
  <2>4. CASE SkipValue(doc, Top.first) = 0
    BY <1>5, <1>f, <2>4 DEF NextElement, TypeOK, Counted, Phases
  <2>5. CASE SkipValue(doc, Top.first) # 0
    <3>1. stack' = moved /\ value' = Top.first /\ phase' = "value" /\ UNCHANGED <<doc, depth, answers, events>>
      BY <1>5, <2>5 DEF NextElement
    <3>2. phase # "failed"
      BY <1>5 DEF NextElement
    <3> HIDE DEF moved
    <3>3. TypeOK'
      BY <2>1, <2>3, <3>1, <1>f DEF TypeOK, Entry, Phases
    <3>4. Counted'
      BY <2>3, <3>1, <3>2 DEF Counted, GoesOn
    <3> QED
      BY <3>3, <3>4
  <2> QED
    BY <2>4, <2>5
<1>6. CASE RejectEnd
  BY <1>6 DEF RejectEnd, TypeOK, Counted, Phases
<1>7. CASE Finish
  BY <1>7 DEF Finish, TypeOK, Counted, Phases, GoesOn
<1>8. CASE Terminated \/ UNCHANGED vars
  BY <1>8 DEF Terminated, vars, TypeOK, Counted, GoesOn
<1> QED
  BY <1>1, <1>2, <1>3, <1>4, <1>5, <1>6, <1>7, <1>8 DEF Step, Callback

LEMMA NextIsStep == [Next]_vars => Step
BY EventAssumption DEF Step, Next

(***************************************************************************)
(* As long as the handler goes on, class_depth and array_depth are the     *)
(* numbers of the containers that are open, for every document and every   *)
(* handler (daw_json_event_parser.h, process_value and process_range).     *)
(***************************************************************************)
THEOREM DepthsCorrect == Spec => []DepthsCountStack
BY CountInit, CountStep, NextIsStep, PTL DEF Spec

-----------------------------------------------------------------------------
(* Nothing is left to be called once the handler has seen enough.          *)

Stopped == "Complete" \in answers => stack = <<>> /\ phase \in {"range", "done", "failed"}

LEMMA StoppedInit == Init => Stopped
BY DEF Init, Stopped

LEMMA StoppedStep == Stopped /\ Step => Stopped'
<1> SUFFICES ASSUME Stopped, Step PROVE Stopped'
  OBVIOUS
<1>1. ASSUME NEW r \in Answers, HandleValue(r) \/ HandleStart(r) \/ HandleScalar(r) PROVE Stopped'
  <2>1. "Complete" \notin answers
    BY <1>1 DEF Stopped, HandleValue, HandleStart, HandleScalar
  <2> QED
    BY <1>1, <2>1 DEF Stopped, HandleValue, HandleStart, HandleScalar, React
<1>2. ASSUME NEW r \in Answers, HandleEnd(r) PROVE Stopped'
  BY <1>2 DEF Stopped, HandleEnd
<1>3. CASE NextElement \/ RejectEnd \/ Finish \/ Terminated \/ UNCHANGED vars
  BY <1>3 DEF Stopped, NextElement, RejectEnd, Finish, Terminated, vars
<1> QED
  BY <1>1, <1>2, <1>3 DEF Step, Callback

LEMMA StoppedTellsNothing == Stopped /\ [Next]_vars => ["Complete" \in answers => UNCHANGED events]_vars
<1> SUFFICES ASSUME Stopped, [Next]_vars, "Complete" \in answers PROVE UNCHANGED events
  OBVIOUS
<1>1. ASSUME NEW r \in Results PROVE ~ Callback(r)
  BY <1>1 DEF Stopped, Callback, HandleValue, HandleStart, HandleScalar, HandleEnd
<1>2. CASE NextElement \/ RejectEnd \/ Finish \/ Terminated \/ UNCHANGED vars
  BY <1>2 DEF NextElement, RejectEnd, Finish, Terminated, vars
<1> QED
  BY <1>1, <1>2 DEF Next

(***************************************************************************)
(* No event follows the answer Complete, whatever the handler has answered *)
(* before and however deep the parser is in the document: the stack is     *)
(* empty and the loop ends (daw_json_event_parser.h, parent_stack.clear).         *)
(***************************************************************************)
THEOREM NothingAfterComplete == Spec => NoEventAfterComplete
<1>1. Spec => []Stopped
  BY StoppedInit, StoppedStep, NextIsStep, PTL DEF Spec
<1> QED
  BY <1>1, StoppedTellsNothing, PTL DEF Spec, NoEventAfterComplete

-----------------------------------------------------------------------------
(* Counting brackets.                                                      *)

(* Where d has the token t, and where brackets open and close.             *)
Place(d, t) == {k \in DOMAIN d : d[k] = t}
Opens(d)    == {k \in DOMAIN d : d[k] \in Openings}
Closes(d)   == {k \in DOMAIN d : d[k] \in Closings}

(* How many more brackets open than close among the tokens i .. j, of      *)
(* whatever kind.                                                          *)
Nest(d, i, j) == CountIn(Opens(d), i, j) - CountIn(Closes(d), i, j)

LEMMA KindFacts ==
  /\ \A t \in Openings : Partner[t] \in Closings /\ Other[t] \in Openings /\ Other[t] # t /\ Partner[t] # t
  /\ \A t, u \in Openings : Partner[t] = Partner[u] => t = u
  /\ \A t, u \in Openings : u # t => u = Other[t]
  /\ \A c \in Closings : \E t \in Openings : c = Partner[t]
  /\ \A x : ~ (x \in Openings /\ x \in Closings) /\ ~ (x \in Openings /\ x \in Scalars) /\ ~ (x \in Closings /\ x \in Scalars)
  /\ \A t \in Openings, x \in Scalars \cup Openings : x # Partner[t]
BY DEF Openings, Closings, Scalars, Partner, Other

LEMMA BalanceIsCount ==
  ASSUME NEW d \in Seq(Tokens), NEW t \in Openings, NEW i \in 1 .. Len(d), NEW j \in i .. Len(d)
  PROVE  /\ Balance(d, t, i, j) = CountIn(Place(d, t), i, j) - CountIn(Place(d, Partner[t]), i, j)
         /\ Balance(d, t, i, j) \in Int
<1>1. /\ {k \in i .. j : d[k] = t} = Place(d, t) \cap (i .. j)
      /\ {k \in i .. j : d[k] = Partner[t]} = Place(d, Partner[t]) \cap (i .. j)
  BY DEF Place
<1>2. Balance(d, t, i, j) = CountIn(Place(d, t), i, j) - CountIn(Place(d, Partner[t]), i, j)
  BY <1>1, Zenon DEF Balance, CountIn
<1>3. CountIn(Place(d, t), i, j) \in Nat
  BY CountType
<1>4. CountIn(Place(d, Partner[t]), i, j) \in Nat
  BY CountType
<1> QED
  BY <1>2, <1>3, <1>4

(* One bracket is 1 for its own kind and 0 for the other.                  *)
LEMMA BalanceFirst ==
  ASSUME NEW d \in Seq(Tokens), NEW t \in Openings, NEW i \in 1 .. Len(d), d[i] \in Openings
  PROVE  Balance(d, t, i, i) = IF d[i] = t THEN 1 ELSE 0
<1>1. Balance(d, t, i, i) = CountIn(Place(d, t), i, i) - CountIn(Place(d, Partner[t]), i, i)
  BY BalanceIsCount
<1>2. CountIn(Place(d, t), i, i) = IF i \in Place(d, t) THEN 1 ELSE 0
  BY CountOne
<1>3. CountIn(Place(d, Partner[t]), i, i) = IF i \in Place(d, Partner[t]) THEN 1 ELSE 0
  BY CountOne
<1>4. i \notin Place(d, Partner[t])
  BY KindFacts DEF Place
<1>5. i \in Place(d, t) <=> d[i] = t
  BY DEF Place
<1> QED
  BY <1>1, <1>2, <1>3, <1>4, <1>5

LEMMA BalanceNext ==
  ASSUME NEW d \in Seq(Tokens), NEW t \in Openings, NEW i \in 1 .. Len(d), NEW j \in i .. Len(d) - 1
  PROVE  Balance(d, t, i, j + 1) =
           Balance(d, t, i, j) + (IF d[j + 1] = t THEN 1 ELSE 0) - (IF d[j + 1] = Partner[t] THEN 1 ELSE 0)
<1>1. j \in i .. Len(d) /\ j + 1 \in i .. Len(d) /\ j + 1 \in DOMAIN d
  OBVIOUS
<1>2. Balance(d, t, i, j) = CountIn(Place(d, t), i, j) - CountIn(Place(d, Partner[t]), i, j)
  BY <1>1, BalanceIsCount
<1>3. Balance(d, t, i, j + 1) = CountIn(Place(d, t), i, j + 1) - CountIn(Place(d, Partner[t]), i, j + 1)
  BY <1>1, BalanceIsCount
<1>4. CountIn(Place(d, t), i, j + 1) = CountIn(Place(d, t), i, j) + (IF j + 1 \in Place(d, t) THEN 1 ELSE 0)
  BY CountLast
<1>5. CountIn(Place(d, Partner[t]), i, j + 1)
        = CountIn(Place(d, Partner[t]), i, j) + (IF j + 1 \in Place(d, Partner[t]) THEN 1 ELSE 0)
  BY CountLast
<1>6. (j + 1 \in Place(d, t) <=> d[j + 1] = t) /\ (j + 1 \in Place(d, Partner[t]) <=> d[j + 1] = Partner[t])
  BY <1>1 DEF Place
<1>7. CountIn(Place(d, t), i, j) \in Nat
  BY CountType
<1>8. CountIn(Place(d, Partner[t]), i, j) \in Nat
  BY CountType
<1> DEFINE opened == IF j + 1 \in Place(d, t) THEN 1 ELSE 0
           closed == IF j + 1 \in Place(d, Partner[t]) THEN 1 ELSE 0
           a == CountIn(Place(d, t), i, j)
           b == CountIn(Place(d, Partner[t]), i, j)
<1>9. opened = (IF d[j + 1] = t THEN 1 ELSE 0) /\ closed = (IF d[j + 1] = Partner[t] THEN 1 ELSE 0)
  BY <1>6, Zenon
<1>10. Balance(d, t, i, j + 1) = (a + opened) - (b + closed) /\ Balance(d, t, i, j) = a - b
  BY <1>2, <1>3, <1>4, <1>5, Zenon
<1>11. opened \in Nat /\ closed \in Nat /\ a \in Nat /\ b \in Nat
  BY <1>7, <1>8
<1> HIDE DEF opened, closed, a, b
<1>12. (a + opened) - (b + closed) = (a - b) + opened - closed
  BY <1>11
<1> QED
  BY <1>9, <1>10, <1>12, Zenon

LEMMA NestFirst ==
  ASSUME NEW d \in Seq(Tokens), NEW i \in 1 .. Len(d), d[i] \in Openings
  PROVE  Nest(d, i, i) = 1
<1>1. CountIn(Opens(d), i, i) = IF i \in Opens(d) THEN 1 ELSE 0
  BY CountOne
<1>2. CountIn(Closes(d), i, i) = IF i \in Closes(d) THEN 1 ELSE 0
  BY CountOne
<1>3. i \in Opens(d) /\ i \notin Closes(d)
  BY KindFacts DEF Opens, Closes
<1> QED
  BY <1>1, <1>2, <1>3 DEF Nest

LEMMA NestNext ==
  ASSUME NEW d \in Seq(Tokens), NEW i \in 1 .. Len(d), NEW j \in i .. Len(d) - 1
  PROVE  /\ Nest(d, i, j) \in Int
         /\ d[j + 1] \in Openings => Nest(d, i, j + 1) = Nest(d, i, j) + 1
         /\ d[j + 1] \in Closings => Nest(d, i, j + 1) = Nest(d, i, j) - 1
         /\ d[j + 1] \in Scalars  => Nest(d, i, j + 1) = Nest(d, i, j)
<1>1. j + 1 \in DOMAIN d
  OBVIOUS
<1>2. CountIn(Opens(d), i, j + 1) = CountIn(Opens(d), i, j) + (IF j + 1 \in Opens(d) THEN 1 ELSE 0)
  BY CountLast
<1>3. CountIn(Closes(d), i, j + 1) = CountIn(Closes(d), i, j) + (IF j + 1 \in Closes(d) THEN 1 ELSE 0)
  BY CountLast
<1>4. (j + 1 \in Opens(d) <=> d[j + 1] \in Openings) /\ (j + 1 \in Closes(d) <=> d[j + 1] \in Closings)
  BY <1>1 DEF Opens, Closes
<1>5. CountIn(Opens(d), i, j) \in Nat
  BY CountType
<1>6. CountIn(Closes(d), i, j) \in Nat
  BY CountType
<1>7. Nest(d, i, j) = CountIn(Opens(d), i, j) - CountIn(Closes(d), i, j)
      /\ Nest(d, i, j + 1) = CountIn(Opens(d), i, j + 1) - CountIn(Closes(d), i, j + 1)
  BY DEF Nest
<1> QED
  BY <1>2, <1>3, <1>4, <1>5, <1>6, <1>7, KindFacts

(***************************************************************************)
(* Where an opening bracket is balanced first.                             *)
(***************************************************************************)
LEMMA ClosingFound ==
  ASSUME NEW d \in Seq(Tokens), NEW i \in 1 .. Len(d), d[i] \in Openings, NEW p \in i .. Len(d),
         Balance(d, d[i], i, p) = 0, \A j \in i .. p - 1 : Balance(d, d[i], i, j) # 0
  PROVE  ClosingOf(d, i) = IF Balance(d, Other[d[i]], i, p) = 0 THEN p ELSE 0
<1> DEFINE closes == {j \in i .. Len(d) : Balance(d, d[i], i, j) = 0}
           close  == CHOOSE j \in closes : \A k \in closes : j <= k
<1>1. p \in closes
  OBVIOUS
<1>2. \A k \in closes : p <= k /\ k \in Int
  OBVIOUS
<1>3. ClosingOf(d, i) = IF Balance(d, Other[d[i]], i, close) = 0 THEN close ELSE 0
  BY <1>1 DEF ClosingOf
<1>4. close = p
  <2> HIDE DEF closes
  <2>1. \A j \in closes : (\A k \in closes : j <= k) => j = p
    BY <1>1, <1>2
  <2> QED
    BY <1>1, <1>2, <2>1
<1> HIDE DEF closes, close
<1> QED
  BY <1>3, <1>4

LEMMA MatchFound ==
  ASSUME NEW d \in Seq(Tokens), NEW i \in 1 .. Len(d), NEW p \in i .. Len(d),
         Nest(d, i, p) = 0, \A j \in i .. p - 1 : Nest(d, i, j) # 0
  PROVE  MatchOf(d, i) = p
<1> DEFINE nest(j) == Cardinality({k \in i .. j : d[k] \in Openings}) - Cardinality({k \in i .. j : d[k] \in Closings})
           ends    == {j \in i .. Len(d) : nest(j) = 0}
           end     == CHOOSE j \in ends : \A k \in ends : j <= k
<1>1. ASSUME NEW j \in i .. Len(d) PROVE nest(j) = Nest(d, i, j)
  <2>1. /\ {k \in i .. j : d[k] \in Openings} = Opens(d) \cap (i .. j)
        /\ {k \in i .. j : d[k] \in Closings} = Closes(d) \cap (i .. j)
    BY DEF Opens, Closes
  <2> QED
    BY <2>1, Zenon DEF Nest, CountIn
<1>2. MatchOf(d, i) = IF ends = {} THEN 0 ELSE end
  BY DEF MatchOf
<1> HIDE DEF nest
<1>3. p \in ends
  BY <1>1
<1>4. \A k \in ends : p <= k /\ k \in Int
  <2> SUFFICES ASSUME NEW k \in ends PROVE p <= k /\ k \in Int
    OBVIOUS
  <2>1. k \in i .. Len(d) /\ Nest(d, i, k) = 0
    BY <1>1
  <2> QED
    BY <2>1
<1>5. end = p
  <2> HIDE DEF ends
  <2>1. \A j \in ends : (\A k \in ends : j <= k) => j = p
    BY <1>3, <1>4
  <2> QED
    BY <1>3, <1>4, <2>1
<1> HIDE DEF ends, end
<1> QED
  BY <1>2, <1>3, <1>5

-----------------------------------------------------------------------------
(* The containers that are open.                                           *)

(* The containers of kind t at level l of the stack s and above it.        *)
Above(s, l, t) == CountIn(OpenOf(s, t), l, Len(s))

(* Bracket k of d is open at level l of the stack s after n tokens: what is*)
(* open inside it is what is above it on the stack, and it has been so ever*)
(* since.                                                                  *)
Level(d, s, l, k, n) ==
  /\ k \in 1 .. n /\ k \in DOMAIN d /\ d[k] = s[l].kind
  /\ \A t \in Openings : Balance(d, t, k, n) = Above(s, l, t)
  /\ Nest(d, k, n) = Len(s) - l + 1
  /\ \A j \in k .. n : Balance(d, d[k], k, j) >= 1 /\ Nest(d, k, j) >= 1

LEMMA FrontFacts ==
  ASSUME NEW T, NEW s \in Seq(T), s # <<>>
  PROVE  /\ Front(s) \in Seq(T) /\ Last(s) \in T /\ Last(s) = s[Len(s)] /\ Len(s) \in DOMAIN s
         /\ Len(Front(s)) = Len(s) - 1 /\ DOMAIN Front(s) = 1 .. Len(s) - 1
         /\ \A i \in 1 .. Len(s) - 1 : i \in DOMAIN s /\ Front(s)[i] = s[i]
<1>1. Len(s) \in DOMAIN s /\ Len(s) - 1 \in Nat /\ Last(s) = s[Len(s)] /\ Last(s) \in T
  BY DEF Last
<1>2. Front(s) \in Seq(T)
  BY <1>1 DEF Front
<1>3. DOMAIN Front(s) = 1 .. Len(s) - 1
  BY <1>1 DEF Front
<1>4. Len(Front(s)) = Len(s) - 1
  BY <1>1, <1>2, <1>3
<1>5. \A i \in 1 .. Len(s) - 1 : i \in DOMAIN s /\ Front(s)[i] = s[i]
  BY <1>1 DEF Front
<1> QED
  BY <1>1, <1>2, <1>3, <1>4, <1>5

LEMMA AbovePushed ==
  ASSUME NEW s \in Seq(Entry), NEW e \in Entry, NEW l \in 1 .. Len(s) + 1, NEW t
  PROVE  Above(Append(s, e), l, t) = (IF l = Len(s) + 1 THEN 0 ELSE Above(s, l, t)) + (IF e.kind = t THEN 1 ELSE 0)
<1> DEFINE n == Len(s)
           S == OpenOf(Append(s, e), t)
<1>1. n \in Nat /\ Len(Append(s, e)) = n + 1 /\ (n + 1 \in S <=> e.kind = t)
  BY DEF OpenOf
<1>2. CountIn(S, l, n + 1) = CountIn(S, l, n) + (IF n + 1 \in S THEN 1 ELSE 0)
  <2> HIDE DEF S
  <2> QED
    BY <1>1, CountLast
<1>3. CASE l = n + 1
  <2>1. CountIn(S, l, n) = 0
    <3> HIDE DEF S
    <3> QED
      BY <1>1, <1>3, CountNone
  <2> HIDE DEF S
  <2> QED
    BY <1>1, <1>2, <1>3, <2>1 DEF Above, S
<1>4. CASE l # n + 1
  <2>1. S \cap (l .. n) = OpenOf(s, t) \cap (l .. n)
    BY DEF OpenOf
  <2>2. CountIn(S, l, n) = CountIn(OpenOf(s, t), l, n)
    BY <2>1, Zenon DEF CountIn
  <2> HIDE DEF S
  <2> QED
    BY <1>1, <1>2, <1>4, <2>2 DEF Above, S
<1> QED
  BY <1>3, <1>4

LEMMA AbovePopped ==
  ASSUME NEW s \in Seq(Entry), s # <<>>, NEW l \in 1 .. Len(s) - 1, NEW t
  PROVE  /\ Above(Front(s), l, t) = Above(s, l, t) - (IF Last(s).kind = t THEN 1 ELSE 0)
         /\ s[l].kind = t => Above(Front(s), l, t) >= 1
<1> DEFINE n == Len(s) - 1
           S == OpenOf(s, t)
<1>1. /\ n \in Nat /\ n + 1 = Len(s) /\ Len(Front(s)) = n /\ (n + 1 \in S <=> Last(s).kind = t)
      /\ DOMAIN Front(s) = 1 .. n /\ \A i \in 1 .. n : Front(s)[i] = s[i] /\ i \in DOMAIN s
  BY DEF OpenOf, Front, Last
<1>2. CountIn(S, l, n + 1) = CountIn(S, l, n) + (IF n + 1 \in S THEN 1 ELSE 0)
  <2> HIDE DEF S
  <2> QED
    BY <1>1, CountLast
<1>3. OpenOf(Front(s), t) \cap (l .. n) = S \cap (l .. n)
  <2>1. ASSUME NEW i \in l .. n PROVE i \in OpenOf(Front(s), t) <=> i \in S
    <3>1. i \in 1 .. n
      BY <1>1
    <3>2. i \in DOMAIN Front(s) /\ i \in DOMAIN s /\ Front(s)[i] = s[i]
      BY <1>1, <3>1
    <3> QED
      BY <3>2, Zenon DEF OpenOf
  <2> HIDE DEF S, n
  <2> QED
    BY <2>1
<1>4. CountIn(OpenOf(Front(s), t), l, n) = CountIn(S, l, n)
  BY <1>3, Zenon DEF CountIn
<1>5. s[l].kind = t => CountIn(S, l, n) >= 1
  <2> SUFFICES ASSUME s[l].kind = t PROVE CountIn(S, l, n) >= 1
    OBVIOUS
  <2>1. l \in S
    BY DEF OpenOf
  <2> HIDE DEF S
  <2>2. CountIn(S, l, n) = CountIn(S, l, l) + CountIn(S, l + 1, n)
    BY <1>1, CountSplit
  <2>3. CountIn(S, l, l) = 1 /\ CountIn(S, l + 1, n) \in Nat
    BY <1>1, <2>1, CountOne, CountType
  <2> QED
    BY <2>2, <2>3
<1>6. CountIn(S, l, n) \in Nat
  <2> HIDE DEF S
  <2> QED
    BY <1>1, CountType
<1> HIDE DEF S
<1> QED
  BY <1>1, <1>2, <1>4, <1>5, <1>6 DEF Above, S

LEMMA LevelFacts ==
  ASSUME doc \in Seq(Tokens), NEW s \in Seq(Entry), NEW n \in 0 .. Len(doc) - 1,
         NEW l \in 1 .. Len(s), NEW k, Level(doc, s, l, k, n)
  PROVE  /\ Len(s) \in Nat /\ n \in Nat /\ k \in 1 .. Len(doc) /\ n \in k .. Len(doc) - 1
         /\ n + 1 \in 1 .. Len(doc) /\ n + 1 \in k .. Len(doc) /\ n \in k .. n
         /\ doc[k] = s[l].kind /\ doc[k] \in Openings
         /\ \A t \in Openings : Balance(doc, t, k, n) = Above(s, l, t) /\ Balance(doc, t, k, n) \in Int
         /\ Balance(doc, doc[k], k, n) >= 1
         /\ Nest(doc, k, n) = Len(s) - l + 1
<1>1. k \in 1 .. n /\ doc[k] = s[l].kind /\ Nest(doc, k, n) = Len(s) - l + 1
  BY Zenon DEF Level
<1>2. Len(s) \in Nat /\ Len(doc) \in Nat /\ s[l] \in Entry
  OBVIOUS
<1>3. /\ n \in Nat /\ k \in 1 .. Len(doc) /\ n \in k .. Len(doc) - 1
      /\ n + 1 \in 1 .. Len(doc) /\ n + 1 \in k .. Len(doc) /\ n \in k .. n /\ n \in k .. Len(doc)
  BY <1>1, <1>2
<1>4. doc[k] \in Openings
  BY <1>1, <1>2 DEF Entry
<1>5. Balance(doc, doc[k], k, n) >= 1
  BY <1>3, Zenon DEF Level
<1>6. \A t \in Openings : Balance(doc, t, k, n) = Above(s, l, t)
  BY Zenon DEF Level
<1>7. \A t \in Openings : Balance(doc, t, k, n) \in Int
  BY <1>3, BalanceIsCount
<1> QED
  BY <1>1, <1>2, <1>3, <1>4, <1>5, <1>6, <1>7

(***************************************************************************)
(* One more token: a bracket that opens ...                                *)
(***************************************************************************)
LEMMA LevelPushed ==
  ASSUME doc \in Seq(Tokens), NEW s \in Seq(Entry), NEW e \in Entry, NEW n \in 0 .. Len(doc) - 1, doc[n + 1] = e.kind,
         NEW l \in 1 .. Len(s), NEW k, Level(doc, s, l, k, n)
  PROVE  Level(doc, Append(s, e), l, k, n + 1)
<1> DEFINE u == Append(s, e)
<1>1. /\ u[l] = s[l] /\ Len(u) = Len(s) + 1 /\ Len(s) \in Nat /\ k \in 1 .. Len(doc) /\ n \in k .. Len(doc) - 1 /\ n \in Nat
      /\ n + 1 \in 1 .. Len(doc) /\ doc[n + 1] \in Openings /\ doc[k] = s[l].kind /\ doc[k] \in Openings
  <2>1. u[l] = s[l] /\ Len(u) = Len(s) + 1 /\ e.kind \in Openings
    BY DEF Entry
  <2> QED
    BY <2>1, LevelFacts
<1>2. ASSUME NEW t \in Openings PROVE Balance(doc, t, k, n + 1) = Above(u, l, t)
  <2>1. Balance(doc, t, k, n + 1)
          = Balance(doc, t, k, n) + (IF doc[n + 1] = t THEN 1 ELSE 0) - (IF doc[n + 1] = Partner[t] THEN 1 ELSE 0)
    BY <1>1, BalanceNext
  <2>2. doc[n + 1] # Partner[t]
    BY <1>1, KindFacts
  <2>3. Balance(doc, t, k, n) = Above(s, l, t) /\ Balance(doc, t, k, n) \in Int
    BY LevelFacts
  <2>4. Above(u, l, t) = Above(s, l, t) + (IF e.kind = t THEN 1 ELSE 0)
    <3>1. l \in 1 .. Len(s) + 1 /\ l # Len(s) + 1
      BY <1>1
    <3> QED
      BY <3>1, AbovePushed
  <2> QED
    BY <2>1, <2>2, <2>3, <2>4
<1>3. Nest(doc, k, n + 1) = Nest(doc, k, n) + 1 /\ Nest(doc, k, n) = Len(s) - l + 1
  BY <1>1, NestNext DEF Level
<1>4. ASSUME NEW j \in k .. n + 1 PROVE Balance(doc, doc[k], k, j) >= 1 /\ Nest(doc, k, j) >= 1
  <2>1. CASE j \in k .. n
    BY <2>1 DEF Level
  <2>2. CASE j = n + 1
    <3>1. Balance(doc, doc[k], k, n + 1)
            = Balance(doc, doc[k], k, n) + (IF doc[n + 1] = doc[k] THEN 1 ELSE 0)
                - (IF doc[n + 1] = Partner[doc[k]] THEN 1 ELSE 0)
      BY <1>1, BalanceNext
    <3>2. doc[n + 1] # Partner[doc[k]]
      BY <1>1, KindFacts
    <3>3. Balance(doc, doc[k], k, n) >= 1 /\ Balance(doc, doc[k], k, n) \in Int
      BY <1>1, LevelFacts
    <3> QED
      BY <1>1, <1>3, <2>2, <3>1, <3>2, <3>3
  <2> QED
    BY <1>1, <1>4, <2>1, <2>2
<1> QED
  BY <1>1, <1>2, <1>3, <1>4 DEF Level

LEMMA LevelNew ==
  ASSUME doc \in Seq(Tokens), NEW s \in Seq(Entry), NEW e \in Entry, NEW n \in 0 .. Len(doc) - 1, doc[n + 1] = e.kind
  PROVE  Level(doc, Append(s, e), Len(s) + 1, n + 1, n + 1)
<1> DEFINE u == Append(s, e)
           l == Len(s) + 1
<1>1. /\ l \in 1 .. Len(s) + 1 /\ Len(u) = l /\ u[l] = e /\ n + 1 \in 1 .. Len(doc) /\ doc[n + 1] \in Openings /\ n + 1 \in Nat
  BY DEF Entry
<1>2. ASSUME NEW t \in Openings
      PROVE  Balance(doc, t, n + 1, n + 1) = (IF e.kind = t THEN 1 ELSE 0) /\ Above(u, l, t) = IF e.kind = t THEN 1 ELSE 0
  <2>1. Balance(doc, t, n + 1, n + 1) = IF doc[n + 1] = t THEN 1 ELSE 0
    BY <1>1, BalanceFirst
  <2>2. Above(u, l, t) = 0 + IF e.kind = t THEN 1 ELSE 0
    BY <1>1, AbovePushed
  <2> QED
    BY <2>1, <2>2
<1>3. Nest(doc, n + 1, n + 1) = 1
  BY <1>1, NestFirst
<1>4. \A j \in n + 1 .. n + 1 : j = n + 1
  OBVIOUS
<1> HIDE DEF u, l
<1>5. Level(doc, u, l, n + 1, n + 1)
  BY <1>1, <1>2, <1>3, <1>4 DEF Level
<1> QED
  BY <1>5 DEF u, l

(***************************************************************************)
(* ... a scalar, while the iterator on top moves ...                       *)
(***************************************************************************)
LEMMA LevelKept ==
  ASSUME doc \in Seq(Tokens), NEW s \in Seq(Entry), NEW n \in 0 .. Len(doc) - 1, doc[n + 1] \in Scalars,
         NEW l \in 1 .. Len(s), NEW k, Level(doc, s, l, k, n)
  PROVE  Level(doc, s, l, k, n + 1)
<1>1. /\ k \in 1 .. Len(doc) /\ n \in k .. Len(doc) - 1 /\ n \in Nat
      /\ n + 1 \in 1 .. Len(doc) /\ doc[k] = s[l].kind /\ doc[k] \in Openings
  BY LevelFacts
<1>2. ASSUME NEW t \in Openings PROVE Balance(doc, t, k, n + 1) = Balance(doc, t, k, n)
  <2>1. Balance(doc, t, k, n + 1)
          = Balance(doc, t, k, n) + (IF doc[n + 1] = t THEN 1 ELSE 0) - (IF doc[n + 1] = Partner[t] THEN 1 ELSE 0)
    BY <1>1, BalanceNext
  <2>2. doc[n + 1] # Partner[t] /\ doc[n + 1] # t
    BY <1>1, KindFacts
  <2>3. Balance(doc, t, k, n) \in Int
    BY <1>1, BalanceIsCount
  <2> QED
    BY <2>1, <2>2, <2>3
<1>3. Nest(doc, k, n + 1) = Nest(doc, k, n)
  BY <1>1, NestNext
<1>4. \A j \in k .. n + 1 : j \in k .. n \/ j = n + 1
  BY <1>1
<1>5. n \in k .. n
  BY <1>1
<1> QED
  BY <1>1, <1>2, <1>3, <1>4, <1>5 DEF Level

LEMMA LevelMoved ==
  ASSUME doc \in Seq(Tokens), NEW s \in Seq(Entry), s # <<>>, NEW f \in 0 .. Len(doc) + 1, NEW n,
         NEW l \in 1 .. Len(s), NEW k, Level(doc, s, l, k, n)
  PROVE  Level(doc, [s EXCEPT ![Len(s)].first = f], l, k, n)
<1> DEFINE u == [s EXCEPT ![Len(s)].first = f]
<1>1. u \in Seq(Entry) /\ \A t : OpenOf(u, t) = OpenOf(s, t)
  BY OpenMoved
<1>2. Len(u) = Len(s) /\ u[l].kind = s[l].kind
  <2>1. s[l] \in Entry /\ s[Len(s)] \in Entry /\ Len(s) \in DOMAIN s
    OBVIOUS
  <2> QED
    BY <2>1 DEF Entry
<1> HIDE DEF u
<1>3. Level(doc, u, l, k, n)
  BY <1>1, <1>2 DEF Level, Above
<1> QED
  BY <1>3 DEF u

(***************************************************************************)
(* ... or a bracket that closes the innermost container.                   *)
(***************************************************************************)
LEMMA LevelPopped ==
  ASSUME doc \in Seq(Tokens), NEW s \in Seq(Entry), s # <<>>, NEW n \in 0 .. Len(doc) - 1,
         doc[n + 1] = Partner[Last(s).kind],
         NEW l \in 1 .. Len(s) - 1, NEW k, Level(doc, s, l, k, n)
  PROVE  Level(doc, Front(s), l, k, n + 1)
<1> DEFINE u == Front(s)
           c == Last(s).kind
<1>1. /\ u[l] = s[l] /\ Len(u) = Len(s) - 1 /\ Len(s) \in Nat /\ k \in 1 .. Len(doc) /\ n \in k .. Len(doc) - 1 /\ n \in Nat
      /\ n + 1 \in 1 .. Len(doc) /\ doc[k] = s[l].kind /\ doc[k] \in Openings /\ c \in Openings
  <2>1. u[l] = s[l] /\ Len(u) = Len(s) - 1 /\ l \in 1 .. Len(s)
    BY FrontFacts
  <2>2. c \in Openings
    <3>1. Last(s) \in Entry
      BY FrontFacts
    <3> QED
      BY <3>1 DEF Entry
  <2> QED
    BY <2>1, <2>2, LevelFacts
<1>2. ASSUME NEW t \in Openings PROVE Balance(doc, t, k, n + 1) = Above(u, l, t)
  <2>1. Balance(doc, t, k, n + 1)
          = Balance(doc, t, k, n) + (IF doc[n + 1] = t THEN 1 ELSE 0) - (IF doc[n + 1] = Partner[t] THEN 1 ELSE 0)
    BY <1>1, BalanceNext
  <2>2. doc[n + 1] # t /\ (doc[n + 1] = Partner[t] <=> c = t)
    BY <1>1, KindFacts
  <2>3. Balance(doc, t, k, n) = Above(s, l, t) /\ Balance(doc, t, k, n) \in Int
    <3>1. l \in 1 .. Len(s)
      OBVIOUS
    <3> QED
      BY <3>1, LevelFacts
  <2>4. Above(u, l, t) = Above(s, l, t) - (IF c = t THEN 1 ELSE 0)
    BY AbovePopped
  <2> QED
    BY <2>1, <2>2, <2>3, <2>4
<1>3. Nest(doc, k, n + 1) = Nest(doc, k, n) - 1 /\ Nest(doc, k, n) = Len(s) - l + 1
  <2>1. doc[n + 1] \in Closings
    BY <1>1, KindFacts
  <2>2. Nest(doc, k, n) = Len(s) - l + 1
    BY Zenon DEF Level
  <2> QED
    BY <1>1, <2>1, <2>2, NestNext
<1>4. ASSUME NEW j \in k .. n + 1 PROVE Balance(doc, doc[k], k, j) >= 1 /\ Nest(doc, k, j) >= 1
  <2>1. CASE j \in k .. n
    BY <2>1 DEF Level
  <2>2. CASE j = n + 1
    <3>1. Balance(doc, doc[k], k, n + 1) = Above(u, l, doc[k])
      BY <1>1, <1>2
    <3>2. Above(u, l, doc[k]) >= 1
      BY <1>1, AbovePopped
    <3> QED
      BY <1>1, <1>3, <2>2, <3>1, <3>2
  <2> QED
    BY <1>1, <1>4, <2>1, <2>2
<1> HIDE DEF u
<1>5. Level(doc, u, l, k, n + 1)
  BY <1>1, <1>2, <1>3, <1>4 DEF Level
<1> QED
  BY <1>5 DEF u

(***************************************************************************)
(* The innermost container is closed by the bracket that balances its      *)
(* opening one: what was skipped and what is told of end at the same place.*)
(***************************************************************************)
LEMMA LevelEnds ==
  ASSUME doc \in Seq(Tokens), NEW s \in Seq(Entry), s # <<>>, NEW n \in 0 .. Len(doc) - 1,
         doc[n + 1] = Partner[Last(s).kind],
         NEW k, Level(doc, s, Len(s), k, n)
  PROVE  /\ k \in 1 .. Len(doc) /\ n + 1 \in k .. Len(doc)
         /\ doc[k] = Last(s).kind
         /\ ClosingOf(doc, k) \in {0, n + 1}
         /\ MatchOf(doc, k) = n + 1
<1>1. /\ Len(s) \in 1 .. Len(s) /\ k \in 1 .. Len(doc) /\ n \in k .. Len(doc) - 1 /\ n \in Nat
      /\ n + 1 \in k .. Len(doc) /\ doc[k] = Last(s).kind /\ doc[k] \in Openings
  <2>1. Len(s) \in 1 .. Len(s)
    OBVIOUS
  <2> QED
    BY <2>1, LevelFacts DEF Last
<1>2. Above(s, Len(s), doc[k]) = 1
  <2>1. Len(s) \in OpenOf(s, doc[k])
    BY <1>1 DEF OpenOf, Last
  <2>2. CountIn(OpenOf(s, doc[k]), Len(s), Len(s)) = 1
    BY <1>1, <2>1, CountOne
  <2> QED
    BY <2>2 DEF Above
<1>3. Balance(doc, doc[k], k, n + 1) = 0
  <2>1. Balance(doc, doc[k], k, n + 1)
          = Balance(doc, doc[k], k, n) + (IF doc[n + 1] = doc[k] THEN 1 ELSE 0) - (IF doc[n + 1] = Partner[doc[k]] THEN 1 ELSE 0)
    BY <1>1, BalanceNext
  <2>2. doc[n + 1] # doc[k]
    BY <1>1, KindFacts
  <2>3. Balance(doc, doc[k], k, n) = 1
    BY <1>1, <1>2 DEF Level
  <2> QED
    BY <1>1, <2>1, <2>2, <2>3
<1>4. Nest(doc, k, n + 1) = 0
  <2>1. doc[n + 1] \in Closings
    BY <1>1, KindFacts
  <2>2. Nest(doc, k, n) = 1
    BY <1>1 DEF Level
  <2> QED
    BY <1>1, <2>1, <2>2, NestNext
<1>5. \A j \in k .. (n + 1) - 1 : Balance(doc, doc[k], k, j) # 0 /\ Nest(doc, k, j) # 0
  <2> SUFFICES ASSUME NEW j \in k .. (n + 1) - 1 PROVE Balance(doc, doc[k], k, j) # 0 /\ Nest(doc, k, j) # 0
    OBVIOUS
  <2>1. j \in k .. n
    BY <1>1
  <2>2. Balance(doc, doc[k], k, j) >= 1 /\ Nest(doc, k, j) >= 1
    BY <2>1 DEF Level
  <2> QED
    BY <2>2
<1>6. ClosingOf(doc, k) \in {0, n + 1}
  BY <1>1, <1>3, <1>5, ClosingFound
<1>7. MatchOf(doc, k) = n + 1
  BY <1>1, <1>4, <1>5, MatchFound
<1> QED
  BY <1>1, <1>6, <1>7

-----------------------------------------------------------------------------
(* The brackets that opened what is on the stack.                          *)

(* Bracket k has met its partner among the first n tokens.                 *)
Matched(d, k, n) == MatchOf(d, k) \in k .. n /\ d[MatchOf(d, k)] = Partner[d[k]]

(* After n tokens o are the brackets that opened the containers on s: all  *)
(* others have met their partner, and the iterator over the elements around*)
(* a container is behind it already.                                       *)
Tracked(d, s, n, o) ==
  /\ o \in Seq(Nat) /\ Len(o) = Len(s)
  /\ \A l \in 1 .. Len(s) : Level(d, s, l, o[l], n)
  /\ \A l \in 1 .. Len(s) - 1 : s[l].first = SkipValue(d, o[l + 1]) /\ s[l].first # 0
  /\ s # <<>> => o[1] = 1
  /\ \A k \in 1 .. n : k \in DOMAIN d /\ d[k] \in Openings => (\E l \in 1 .. Len(s) : o[l] = k) \/ Matched(d, k, n)

LEMMA TrackPushed ==
  ASSUME doc \in Seq(Tokens), NEW s \in Seq(Entry), NEW e \in Entry, NEW n \in 0 .. Len(doc) - 1, doc[n + 1] = e.kind,
         NEW o, Tracked(doc, s, n, o),
         IF s = <<>> THEN n = 0 ELSE Last(s).first = SkipValue(doc, n + 1) /\ Last(s).first # 0
  PROVE  Tracked(doc, Append(s, e), n + 1, Append(o, n + 1))
<1> DEFINE u == Append(s, e)
           q == Append(o, n + 1)
<1>1. /\ Len(s) \in Nat /\ o \in Seq(Nat) /\ Len(o) = Len(s) /\ n + 1 \in Nat
      /\ \A l \in 1 .. Len(s) : Level(doc, s, l, o[l], n)
      /\ \A l \in 1 .. Len(s) - 1 : s[l].first = SkipValue(doc, o[l + 1]) /\ s[l].first # 0
      /\ s # <<>> => o[1] = 1
  BY DEF Tracked
<1>2. /\ q \in Seq(Nat) /\ Len(q) = Len(s) + 1 /\ Len(u) = Len(s) + 1 /\ u # <<>>
      /\ q[Len(s) + 1] = n + 1 /\ \A l \in 1 .. Len(s) : q[l] = o[l] /\ u[l] = s[l]
  <2>1. Len(s) + 1 \in Nat /\ Len(q) = Len(s) + 1 /\ q \in Seq(Nat)
    BY <1>1
  <2>2. Len(u) = Len(s) + 1 /\ u # <<>>
    OBVIOUS
  <2>3. q[Len(s) + 1] = n + 1
    BY <1>1
  <2>4. ASSUME NEW l \in 1 .. Len(s) PROVE q[l] = o[l]
    BY <1>1
  <2>5. ASSUME NEW l \in 1 .. Len(s) PROVE u[l] = s[l]
    OBVIOUS
  <2> HIDE DEF u, q
  <2> QED
    BY <2>1, <2>2, <2>3, <2>4, <2>5
<1>3. ASSUME NEW l \in 1 .. Len(u) PROVE Level(doc, u, l, q[l], n + 1)
  <2>1. CASE l \in 1 .. Len(s)
    BY <1>1, <1>2, <2>1, LevelPushed
  <2>2. CASE l = Len(s) + 1
    BY <1>2, <2>2, LevelNew
  <2> QED
    BY <1>1, <1>2, <2>1, <2>2
<1>4. ASSUME NEW l \in 1 .. Len(u) - 1 PROVE u[l].first = SkipValue(doc, q[l + 1]) /\ u[l].first # 0
  <2>1. CASE l \in 1 .. Len(s) - 1
    <3>1. l \in 1 .. Len(s) /\ l + 1 \in 1 .. Len(s)
      BY <2>1
    <3>2. u[l] = s[l] /\ q[l + 1] = o[l + 1]
      BY <1>2, <3>1
    <3> QED
      BY <1>1, <2>1, <3>2, Zenon
  <2>2. CASE l = Len(s)
    <3>1. s # <<>> /\ u[l] = Last(s) /\ q[l + 1] = n + 1
      BY <1>1, <1>2, <2>2 DEF Last
    <3> QED
      BY <3>1
  <2>3. l \in 1 .. Len(s) - 1 \/ l = Len(s)
    <3>1. Len(u) = Len(s) + 1 /\ Len(s) \in Nat
      BY <1>2
    <3> HIDE DEF u
    <3> QED
      BY <3>1
  <2> QED
    BY <2>1, <2>2, <2>3, Zenon
<1>5. q[1] = 1
  BY <1>1, <1>2
<1>6. ASSUME NEW k \in 1 .. n + 1, k \in DOMAIN doc, doc[k] \in Openings
      PROVE  (\E l \in 1 .. Len(u) : q[l] = k) \/ Matched(doc, k, n + 1)
  <2>1. CASE k = n + 1
    <3>1. Len(s) + 1 \in 1 .. Len(u) /\ q[Len(s) + 1] = k
      <4> HIDE DEF u, q
      <4> QED
        BY <1>1, <1>2, <2>1
    <3> QED
      BY <3>1
  <2>2. CASE k # n + 1
    <3>1. k \in 1 .. n
      BY <2>2
    <3>2. (\E l \in 1 .. Len(s) : o[l] = k) \/ Matched(doc, k, n)
      BY <1>6, <3>1 DEF Tracked
    <3>3. Matched(doc, k, n) => Matched(doc, k, n + 1)
      BY DEF Matched
    <3> QED
      BY <1>1, <1>2, <3>2, <3>3
  <2> QED
    BY <2>1, <2>2
<1> HIDE DEF u, q
<1>7. Tracked(doc, u, n + 1, q)
  BY <1>2, <1>3, <1>4, <1>5, <1>6 DEF Tracked
<1> QED
  BY <1>7 DEF u, q

LEMMA TrackKept ==
  ASSUME doc \in Seq(Tokens), NEW s \in Seq(Entry), NEW n \in 0 .. Len(doc) - 1, doc[n + 1] \in Scalars,
         NEW o, Tracked(doc, s, n, o)
  PROVE  Tracked(doc, s, n + 1, o)
<1>1. \A l \in 1 .. Len(s) : Level(doc, s, l, o[l], n + 1)
  BY LevelKept DEF Tracked
<1>2. ASSUME NEW k \in 1 .. n + 1, k \in DOMAIN doc, doc[k] \in Openings
      PROVE  (\E l \in 1 .. Len(s) : o[l] = k) \/ Matched(doc, k, n + 1)
  <2>1. k \in 1 .. n
    BY <1>2, KindFacts
  <2>2. (\E l \in 1 .. Len(s) : o[l] = k) \/ Matched(doc, k, n)
    BY <1>2, <2>1 DEF Tracked
  <2> QED
    BY <2>2 DEF Matched
<1> QED
  BY <1>1, <1>2 DEF Tracked

LEMMA TrackMoved ==
  ASSUME doc \in Seq(Tokens), NEW s \in Seq(Entry), s # <<>>, NEW f \in 0 .. Len(doc) + 1, NEW n,
         NEW o, Tracked(doc, s, n, o)
  PROVE  Tracked(doc, [s EXCEPT ![Len(s)].first = f], n, o)
<1> DEFINE u == [s EXCEPT ![Len(s)].first = f]
<1>1. Len(u) = Len(s) /\ u # <<>> /\ \A l \in 1 .. Len(s) - 1 : u[l] = s[l]
  OBVIOUS
<1>2. \A l \in 1 .. Len(s) : Level(doc, u, l, o[l], n)
  BY LevelMoved DEF Tracked
<1> HIDE DEF u
<1>3. Tracked(doc, u, n, o)
  BY <1>1, <1>2 DEF Tracked
<1> QED
  BY <1>3 DEF u

(***************************************************************************)
(* A container ends where the iterator over the elements around it is.     *)
(***************************************************************************)
LEMMA TrackPopped ==
  ASSUME doc \in Seq(Tokens), NEW s \in Seq(Entry), s # <<>>, NEW n \in 0 .. Len(doc) - 1,
         doc[n + 1] = Partner[Last(s).kind], NEW o, Tracked(doc, s, n, o)
  PROVE  /\ Tracked(doc, Front(s), n + 1, Front(o))
         /\ Front(s) # <<>> => Last(Front(s)).first = n + 2
         /\ Front(s) = <<>> => MatchOf(doc, 1) = n + 1
<1> DEFINE u == Front(s)
           q == Front(o)
<1>1. /\ o \in Seq(Nat) /\ Len(o) = Len(s) /\ o # <<>> /\ Len(s) \in Nat /\ Len(s) \in 1 .. Len(s)
      /\ \A l \in 1 .. Len(s) : Level(doc, s, l, o[l], n)
      /\ \A l \in 1 .. Len(s) - 1 : s[l].first = SkipValue(doc, o[l + 1]) /\ s[l].first # 0
      /\ o[1] = 1
  BY DEF Tracked
<1>2. /\ u \in Seq(Entry) /\ q \in Seq(Nat) /\ Len(u) = Len(s) - 1 /\ Len(q) = Len(s) - 1
      /\ \A l \in 1 .. Len(s) - 1 : u[l] = s[l] /\ q[l] = o[l]
      /\ Last(s).kind \in Openings
  <2>1. u \in Seq(Entry) /\ Len(u) = Len(s) - 1 /\ Last(s) \in Entry /\ \A l \in 1 .. Len(s) - 1 : u[l] = s[l]
    BY FrontFacts
  <2>2. q \in Seq(Nat) /\ Len(q) = Len(o) - 1 /\ \A l \in 1 .. Len(o) - 1 : q[l] = o[l]
    BY <1>1, FrontFacts
  <2> QED
    BY <1>1, <2>1, <2>2 DEF Entry
<1>3. /\ o[Len(s)] \in 1 .. Len(doc) /\ n + 1 \in o[Len(s)] .. Len(doc)
      /\ doc[o[Len(s)]] = Last(s).kind
      /\ ClosingOf(doc, o[Len(s)]) \in {0, n + 1}
      /\ MatchOf(doc, o[Len(s)]) = n + 1
  BY <1>1, LevelEnds
<1>4. \A l \in 1 .. Len(u) : Level(doc, u, l, q[l], n + 1)
  <2> SUFFICES ASSUME NEW l \in 1 .. Len(u) PROVE Level(doc, u, l, q[l], n + 1)
    OBVIOUS
  <2>1. l \in 1 .. Len(s) - 1 /\ q[l] = o[l] /\ l \in 1 .. Len(s)
    <3>1. Len(u) = Len(s) - 1 /\ Len(s) \in Nat
      BY <1>1, <1>2
    <3>2. l \in 1 .. Len(s) - 1
      BY <3>1
    <3>3. l \in 1 .. Len(s)
      <4> HIDE DEF u
      <4> QED
        BY <3>1, <3>2
    <3> QED
      BY <1>2, <3>2, <3>3, Zenon
  <2>2. Level(doc, s, l, o[l], n)
    BY <1>1, <2>1
  <2>3. Level(doc, Front(s), l, o[l], n + 1)
    BY <2>1, <2>2, LevelPopped
  <2> QED
    BY <2>1, <2>3
<1>5. \A l \in 1 .. Len(u) - 1 : u[l].first = SkipValue(doc, q[l + 1]) /\ u[l].first # 0
  <2> SUFFICES ASSUME NEW l \in 1 .. Len(u) - 1 PROVE u[l].first = SkipValue(doc, q[l + 1]) /\ u[l].first # 0
    OBVIOUS
  <2>1. l \in 1 .. Len(s) - 1 /\ l + 1 \in 1 .. Len(s) - 1
    <3>1. Len(u) = Len(s) - 1 /\ Len(s) \in Nat
      BY <1>2
    <3> HIDE DEF u
    <3> QED
      BY <3>1
  <2>2. u[l] = s[l] /\ q[l + 1] = o[l + 1]
    BY <1>2, <2>1
  <2> QED
    BY <1>1, <2>1, <2>2, Zenon
<1>6. ASSUME NEW k \in 1 .. n + 1, k \in DOMAIN doc, doc[k] \in Openings
      PROVE  (\E l \in 1 .. Len(u) : q[l] = k) \/ Matched(doc, k, n + 1)
  <2>1. k \in 1 .. n
    BY <1>2, <1>6, KindFacts
  <2>2. (\E l \in 1 .. Len(s) : o[l] = k) \/ Matched(doc, k, n)
    BY <1>6, <2>1 DEF Tracked
  <2>3. CASE Matched(doc, k, n)
    BY <2>3 DEF Matched
  <2>4. ASSUME NEW l \in 1 .. Len(s) - 1, o[l] = k PROVE \E i \in 1 .. Len(u) : q[i] = k
    BY <1>1, <1>2, <2>4
  <2>5. CASE o[Len(s)] = k
    BY <1>3, <2>5 DEF Matched
  <2>6. \A l \in 1 .. Len(s) : l \in 1 .. Len(s) - 1 \/ l = Len(s)
    BY <1>1
  <2> QED
    BY <2>2, <2>3, <2>4, <2>5, <2>6
<1>7. u # <<>> => q[1] = 1
  <2> SUFFICES ASSUME u # <<>> PROVE q[1] = 1
    OBVIOUS
  <2>1. u \in Seq(Entry) /\ Len(u) = Len(s) - 1 /\ Len(s) \in Nat
    BY <1>1, <1>2
  <2>2. 1 \in 1 .. Len(s) - 1
    <3> HIDE DEF u
    <3> QED
      BY <2>1
  <2> QED
    BY <1>1, <1>2, <2>2, Zenon
<1>8. Tracked(doc, u, n + 1, q)
  <2> HIDE DEF u, q
  <2>1. Len(q) = Len(u)
    BY <1>2
  <2> QED
    BY <1>2, <1>4, <1>5, <1>6, <1>7, <2>1 DEF Tracked
<1>9. ASSUME u # <<>> PROVE Last(u).first = n + 2
  <2>1. Len(u) \in 1 .. Len(s) - 1 /\ Last(u) = u[Len(u)] /\ Len(u) + 1 = Len(s)
    BY <1>1, <1>2, <1>9 DEF Last
  <2>2. Last(u).first = SkipValue(doc, o[Len(s)]) /\ Last(u).first # 0
    BY <1>1, <1>2, <2>1
  <2>3. doc[o[Len(s)]] \in Openings /\ ~ (o[Len(s)] > Len(doc))
    BY <1>2, <1>3
  <2>4. SkipValue(doc, o[Len(s)])
          = IF ClosingOf(doc, o[Len(s)]) = 0 THEN 0 ELSE ClosingOf(doc, o[Len(s)]) + 1
    BY <2>3, KindFacts DEF SkipValue
  <2> QED
    BY <1>3, <2>2, <2>4
<1>10. ASSUME u = <<>> PROVE MatchOf(doc, 1) = n + 1
  <2>1. Len(u) = 0
    BY <1>10
  <2>2. Len(s) = 1
    BY <1>1, <1>2, <2>1
  <2> QED
    BY <1>1, <1>3, <2>2
<1> QED
  BY <1>8, <1>9, <1>10

LEMMA TrackNone ==
  ASSUME NEW d \in Seq(Tokens), NEW n \in 0 .. 1, n = 1 => ~ (1 \in DOMAIN d /\ d[1] \in Openings)
  PROVE  Tracked(d, <<>>, n, <<>>)
<1>1. <<>> \in Seq(Nat) /\ Len(<<>>) = 0
  OBVIOUS
<1>2. \A l \in 1 .. 0 : FALSE
  OBVIOUS
<1>3. \A l \in 1 .. 0 - 1 : FALSE
  OBVIOUS
<1>4. ASSUME NEW k \in 1 .. n, k \in DOMAIN d /\ d[k] \in Openings PROVE FALSE
  BY <1>4
<1> QED
  BY <1>1, <1>2, <1>3, <1>4 DEF Tracked

(***************************************************************************)
(* Once no container is open any more, a whole value is told of.           *)
(***************************************************************************)
LEMMA TrackedWhole ==
  ASSUME NEW d \in Seq(Tokens), NEW n \in 1 .. Len(d), NEW o, Tracked(d, <<>>, n, o), MatchOf(d, 1) = n, StartsValue(d, 1),
         d[1] \in Openings
  PROVE  ValueEnd(d, 1) = n
<1>1. ASSUME NEW k \in 1 .. MatchOf(d, 1), d[k] \in Openings PROVE MatchOf(d, k) # 0 /\ d[MatchOf(d, k)] = Partner[d[k]]
  <2>1. k \in 1 .. n /\ k \in DOMAIN d
    OBVIOUS
  <2>2. \A l \in 1 .. Len(<<>>) : FALSE
    OBVIOUS
  <2>3. Matched(d, k, n)
    BY <1>1, <2>1, <2>2 DEF Tracked
  <2> QED
    BY <2>1, <2>3 DEF Matched
<1>2. d[1] \notin Scalars
  BY KindFacts
<1>3. ValueEnd(d, 1) = IF \A k \in 1 .. MatchOf(d, 1) :
                            d[k] \in Openings => MatchOf(d, k) # 0 /\ d[MatchOf(d, k)] = Partner[d[k]]
                       THEN MatchOf(d, 1) ELSE 0
  BY <1>2 DEF ValueEnd
<1> QED
  BY <1>1, <1>3

-----------------------------------------------------------------------------
(* The handler is told of one token after the other.                       *)

(* How many tokens the handler has been told of, and where the parser is then. *)
Told == Len(events)

Cursor ==
  /\ phase \in {"value", "typed"} =>
       /\ value = Told + 1
       /\ IF stack = <<>> THEN Told = 0
          ELSE StartsValue(doc, value) /\ Top.first = SkipValue(doc, value) /\ Top.first # 0
  /\ phase = "range" /\ stack # <<>> => Top.first = Told + 1
  /\ (phase = "range" /\ stack = <<>>) \/ phase = "done" => (StartsValue(doc, 1) => Told = ValueEnd(doc, 1))
  /\ phase \in {"value", "typed", "range"} => \E o : Tracked(doc, stack, Told, o)

(* TokenByToken is not inductive: that the next token follows the ones told *)
(* of needs that an element was skipped to where its own tokens end.        *)
InOrder == GoesOn => Cursor /\ \A i \in DOMAIN events : events[i] = i

LEMMA OrderInit == Init => InOrder
<1> SUFFICES ASSUME Init PROVE InOrder
  OBVIOUS
<1>1. doc \in Seq(Tokens) /\ Len(events) = 0
  BY EventAssumption DEF Init
<1>2. Tracked(doc, <<>>, 0, <<>>)
  BY <1>1, TrackNone
<1>3. Cursor
  BY <1>1, <1>2 DEF Init, Cursor, Told
<1> QED
  BY <1>3 DEF Init, InOrder

(* One more event, of the token that is next.                              *)
LEMMA EventAppended ==
  ASSUME NEW T, NEW e \in Seq(T), NEW x \in T, x = Len(e) + 1, \A i \in DOMAIN e : e[i] = i
  PROVE  Len(Append(e, x)) = Len(e) + 1 /\ \A i \in DOMAIN Append(e, x) : Append(e, x)[i] = i
OBVIOUS

LEMMA OrderValue ==
  ASSUME TypeOK, InOrder, NEW r \in Answers, HandleValue(r)
  PROVE  InOrder'
<1> SUFFICES ASSUME GoesOn' PROVE Cursor' /\ (\A i \in DOMAIN events : events[i] = i)'
  BY DEF InOrder
<1>1. stack \in Seq(Entry) /\ UNCHANGED <<doc, depth, value, events>> /\ phase = "value"
  BY TypeFacts DEF HandleValue
<1>2. GoesOn /\ stack' = stack /\ phase' = "typed"
  BY <1>1, ReactTypes DEF HandleValue, Phases
<1> QED
  BY <1>1, <1>2 DEF InOrder, Cursor, Top, Told

LEMMA OrderStart ==
  ASSUME TypeOK, InOrder, NEW r \in Answers, HandleStart(r)
  PROVE  InOrder'
<1> DEFINE n == Len(events)
           e == [kind |-> doc[value], first |-> value + 1]
<1> SUFFICES ASSUME GoesOn' PROVE Cursor' /\ (\A i \in DOMAIN events : events[i] = i)'
  BY DEF InOrder
<1>1. /\ doc \in Seq(Tokens) /\ Len(doc) \in Nat /\ stack \in Seq(Entry) /\ value \in 1 .. Len(doc) /\ doc[value] \in Openings
      /\ doc' = doc /\ events' = Append(events, value) /\ phase = "typed"
      /\ events \in Seq(0 .. Len(doc) + 1) /\ n \in Nat
  BY TypeFacts DEF HandleStart, TypeOK
<1>2. e \in Entry /\ e.kind = doc[value] /\ e.first = value + 1
  BY <1>1 DEF Entry
<1>3. Append(stack, e) \in Seq(Entry) /\ React(r, Append(stack, e), "range")
  BY <1>1, <1>2 DEF HandleStart
<1>4. GoesOn /\ stack' = Append(stack, e) /\ phase' = "range"
  <2> HIDE DEF e
  <2> QED
    BY <1>3, ReactTypes DEF Phases
<1>5. Cursor /\ \A i \in DOMAIN events : events[i] = i
  BY <1>4 DEF InOrder
<1>6. value = n + 1 /\ n \in 0 .. Len(doc) - 1
  <2>1. value = n + 1
    BY <1>1, <1>5 DEF Cursor, Told
  <2> HIDE DEF n
  <2> QED
    BY <1>1, <2>1
<1>7. PICK o : Tracked(doc, stack, n, o)
  BY <1>1, <1>5 DEF Cursor, Told
<1>8. IF stack = <<>> THEN n = 0 ELSE Last(stack).first = SkipValue(doc, n + 1) /\ Last(stack).first # 0
  BY <1>1, <1>5, <1>6 DEF Cursor, Top, Told
<1>9. Len(events') = n + 1 /\ \A i \in DOMAIN events' : events'[i] = i
  <2>1. value \in 0 .. Len(doc) + 1 /\ value = Len(events) + 1
    BY <1>1, <1>6
  <2> QED
    BY <1>1, <1>5, <2>1, EventAppended
<1>10. Tracked(doc, Append(stack, e), n + 1, Append(o, n + 1))
  <2> HIDE DEF e, n
  <2> QED
    BY <1>1, <1>2, <1>6, <1>7, <1>8, TrackPushed
<1>11. stack' # <<>> /\ Last(stack').first = n + 2
  <2>1. stack' # <<>> /\ Last(stack') = e
    <3>1. e \in Entry /\ stack \in Seq(Entry) /\ stack' = Append(stack, e)
      BY <1>1, <1>2, <1>4
    <3> HIDE DEF e
    <3> QED
      BY <3>1 DEF Last
  <2> QED
    BY <1>2, <1>6, <2>1
<1> HIDE DEF n, e
<1>12. (n + 1) + 1 = n + 2 /\ Told' = n + 1
  BY <1>1, <1>9 DEF Told
<1>13. Cursor'
  BY <1>1, <1>4, <1>10, <1>11, <1>12 DEF Cursor, Top
<1> QED
  BY <1>9, <1>13

LEMMA OrderScalar ==
  ASSUME TypeOK, InOrder, NEW r \in Answers, HandleScalar(r)
  PROVE  InOrder'
<1> DEFINE n == Len(events)
<1> SUFFICES ASSUME GoesOn' PROVE Cursor' /\ (\A i \in DOMAIN events : events[i] = i)'
  BY DEF InOrder
<1>1. /\ doc \in Seq(Tokens) /\ Len(doc) \in Nat /\ stack \in Seq(Entry) /\ value \in 1 .. Len(doc) + 1 /\ ~ AtOpening
      /\ doc' = doc /\ events' = Append(events, value) /\ phase = "typed"
      /\ events \in Seq(0 .. Len(doc) + 1) /\ n \in Nat
  BY TypeFacts DEF HandleScalar, TypeOK
<1>2. GoesOn /\ stack' = stack /\ phase' = "range"
  <2>1. React(r, stack, "range")
    BY DEF HandleScalar
  <2> QED
    BY <1>1, <2>1, ReactTypes DEF Phases
<1>3. Cursor /\ \A i \in DOMAIN events : events[i] = i
  BY <1>2 DEF InOrder
<1>4. value = n + 1
  BY <1>1, <1>3 DEF Cursor, Told
<1>5. Len(events') = n + 1 /\ \A i \in DOMAIN events' : events'[i] = i
  <2>1. value \in 0 .. Len(doc) + 1 /\ value = Len(events) + 1
    BY <1>1, <1>4
  <2> QED
    BY <1>1, <1>3, <2>1, EventAppended
<1>6. Told' = n + 1
  BY <1>5 DEF Told
<1>7. CASE stack = <<>>
  <2>1. n = 0 /\ value = 1
    BY <1>1, <1>3, <1>4, <1>7 DEF Cursor, Told
  <2>2. ~ (1 \in DOMAIN doc /\ doc[1] \in Openings)
    BY <1>1, <2>1 DEF AtOpening
  <2>3. Tracked(doc, stack', Told', <<>>)
    BY <1>1, <1>2, <1>6, <1>7, <2>1, <2>2, TrackNone
  <2>4. StartsValue(doc, 1) => ValueEnd(doc, 1) = 1
    <3> SUFFICES ASSUME StartsValue(doc, 1) PROVE ValueEnd(doc, 1) = 1
      OBVIOUS
    <3>1. doc[1] \in Scalars
      BY <1>1, <2>2 DEF StartsValue, Tokens
    <3> QED
      BY <3>1, KindFacts, Zenon DEF ValueEnd
  <2>5. Cursor'
    BY <1>1, <1>2, <1>6, <1>7, <2>1, <2>3, <2>4 DEF Cursor, Top
  <2> QED
    BY <1>5, <2>5
<1>8. CASE stack # <<>>
  <2>1. StartsValue(doc, n + 1) /\ Top.first = SkipValue(doc, n + 1) /\ Top.first # 0
    BY <1>1, <1>3, <1>4, <1>8 DEF Cursor
  <2>2. n + 1 \in 1 .. Len(doc) /\ n \in 0 .. Len(doc) - 1
    <3>1. n + 1 \in 1 .. Len(doc)
      BY <2>1 DEF StartsValue
    <3> HIDE DEF n
    <3> QED
      BY <1>1, <3>1
  <2>3. doc[n + 1] \in Scalars
    <3>1. doc[n + 1] \in Tokens /\ doc[n + 1] \notin Closings
      BY <1>1, <2>1, <2>2 DEF StartsValue
    <3>2. doc[n + 1] \notin Openings
      BY <1>1, <1>4, <2>2 DEF AtOpening
    <3> QED
      BY <3>1, <3>2 DEF Tokens
  <2>4. SkipValue(doc, n + 1) \in {0, n + 2}
    <3>1. ~ (n + 1 > Len(doc))
      BY <1>1, <2>2
    <3>2. SkipValue(doc, n + 1) = SkipScalar(doc, n + 1)
      BY <2>3, <3>1, KindFacts, Zenon DEF SkipValue
    <3> HIDE DEF n
    <3> QED
      BY <1>1, <3>2 DEF SkipScalar
  <2>5. PICK o : Tracked(doc, stack, n, o)
    BY <1>1, <1>3 DEF Cursor, Told
  <2>6. Tracked(doc, stack, n + 1, o)
    <3> HIDE DEF n
    <3> QED
      BY <1>1, <2>2, <2>3, <2>5, TrackKept
  <2>7. Top' = Top /\ Top.first = (n + 1) + 1
    <3> HIDE DEF n
    <3> QED
      BY <1>1, <1>2, <2>1, <2>4 DEF Top
  <2>8. \E p : Tracked(doc', stack', Told', p)
    BY <1>1, <1>2, <1>6, <2>6
  <2>9. phase' = "range" /\ stack' # <<>> /\ Top'.first = Told' + 1
    BY <1>2, <1>6, <1>8, <2>7
  <2>10. Cursor'
    BY <2>8, <2>9 DEF Cursor
  <2> QED
    BY <1>5, <2>10
<1> QED
  BY <1>7, <1>8

LEMMA OrderElement ==
  ASSUME TypeOK, InOrder, NextElement
  PROVE  InOrder'
<1> DEFINE n == Len(events)
           f == SkipValue(doc, Top.first)
           u == [stack EXCEPT ![Len(stack)].first = f]
<1> SUFFICES ASSUME GoesOn' PROVE Cursor' /\ (\A i \in DOMAIN events : events[i] = i)'
  BY DEF InOrder
<1>1. /\ doc \in Seq(Tokens) /\ Len(doc) \in Nat /\ stack \in Seq(Entry) /\ stack # <<>> /\ phase = "range" /\ GoesOn
      /\ Top \in Entry /\ UNCHANGED <<doc, events>> /\ StartsValue(doc, Top.first) /\ Len(stack) \in DOMAIN stack
  BY TypeFacts DEF NextElement, GoesOn
<1>2. Cursor /\ \A i \in DOMAIN events : events[i] = i
  BY <1>1 DEF InOrder
<1>3. CASE f = 0
  <2>1. phase' = "failed"
    BY <1>3 DEF NextElement
  <2> QED
    BY <1>1, <1>2, <2>1 DEF Cursor
<1>4. CASE f # 0
  <2>1. Top.first = n + 1
    BY <1>1, <1>2 DEF Cursor, Told
  <2>2. phase' = "value" /\ value' = n + 1 /\ stack' = u
    BY <1>4, <2>1 DEF NextElement
  <2>3. f \in 0 .. Len(doc) + 1
    <3>1. Top.first \in 1 .. Len(doc)
      BY <1>1 DEF StartsValue
    <3> QED
      BY <1>1, <3>1, SkipInDocument
  <2>4. PICK o : Tracked(doc, stack, n, o)
    BY <1>1, <1>2 DEF Cursor, Told
  <2>5. Tracked(doc, u, n, o)
    <3> HIDE DEF f, n
    <3> QED
      BY <1>1, <2>3, <2>4, TrackMoved
  <2>6. u # <<>> /\ Last(u).first = f
    <3> HIDE DEF f
    <3>1. Len(u) = Len(stack) /\ u[Len(stack)].first = f
      <4>1. stack[Len(stack)] \in Entry
        BY <1>1
      <4>2. u[Len(stack)] = [stack[Len(stack)] EXCEPT !.first = f]
        BY <1>1
      <4> QED
        BY <1>1, <4>1, <4>2 DEF Entry
    <3> QED
      BY <1>1, <3>1 DEF Last
  <2>7. Told' = n
    BY <1>1 DEF Told
  <2>8. stack' # <<>> /\ Top'.first = SkipValue(doc', value') /\ Top'.first # 0 /\ StartsValue(doc', value')
    <3> HIDE DEF u
    <3> QED
      BY <1>1, <1>4, <2>1, <2>2, <2>6 DEF Top
  <2>9. \E p : Tracked(doc', stack', Told', p)
    BY <1>1, <2>2, <2>5, <2>7
  <2> HIDE DEF n
  <2>10. Cursor'
    BY <2>2, <2>7, <2>8, <2>9 DEF Cursor
  <2> QED
    BY <1>1, <1>2, <2>10
<1> QED
  BY <1>3, <1>4

LEMMA OrderEnd ==
  ASSUME TypeOK, InOrder, NEW r \in Answers, HandleEnd(r)
  PROVE  InOrder'
<1> DEFINE n == Len(events)
<1> SUFFICES ASSUME GoesOn' PROVE Cursor' /\ (\A i \in DOMAIN events : events[i] = i)'
  BY DEF InOrder
<1>1. /\ doc \in Seq(Tokens) /\ Len(doc) \in Nat /\ stack \in Seq(Entry) /\ stack # <<>> /\ phase = "range"
      /\ doc' = doc /\ phase' = phase /\ events' = Append(events, Top.first)
      /\ Top.first \in 1 .. Len(doc) /\ doc[Top.first] = Partner[Top.kind]
      /\ events \in Seq(0 .. Len(doc) + 1) /\ n \in Nat
  BY TypeFacts DEF HandleEnd, AtItsEnd, TypeOK
<1>2. GoesOn /\ stack' = Front(stack)
  <2>1. GoesOn /\ r = "Continue"
    BY AnswerTypes DEF HandleEnd
  <2> QED
    BY <2>1 DEF HandleEnd
<1>3. Cursor /\ \A i \in DOMAIN events : events[i] = i
  BY <1>2 DEF InOrder
<1>4. Top.first = n + 1 /\ n \in 0 .. Len(doc) - 1
  <2>1. Top.first = n + 1
    BY <1>1, <1>3 DEF Cursor, Told
  <2> HIDE DEF n
  <2> QED
    BY <1>1, <2>1
<1>5. Len(events') = n + 1 /\ \A i \in DOMAIN events' : events'[i] = i
  <2>1. Top.first \in 0 .. Len(doc) + 1 /\ Top.first = Len(events) + 1
    BY <1>1, <1>4
  <2> QED
    BY <1>1, <1>3, <2>1, EventAppended
<1>6. PICK o : Tracked(doc, stack, n, o)
  BY <1>1, <1>3 DEF Cursor, Told
<1>7. /\ Tracked(doc, Front(stack), n + 1, Front(o))
      /\ Front(stack) # <<>> => Last(Front(stack)).first = n + 2
      /\ Front(stack) = <<>> => MatchOf(doc, 1) = n + 1
  <2>1. doc[n + 1] = Partner[Last(stack).kind]
    BY <1>1, <1>4 DEF Top
  <2> HIDE DEF n
  <2> QED
    BY <1>1, <1>4, <1>6, <2>1, TrackPopped
<1>8. Told' = n + 1 /\ (n + 1) + 1 = n + 2
  BY <1>1, <1>5 DEF Told
<1>9. ASSUME stack' = <<>>, StartsValue(doc, 1) PROVE n + 1 = ValueEnd(doc, 1)
  <2>1. doc[1] \in Openings
    <3>1. 1 \in 1 .. Len(stack) /\ o[1] = 1 /\ Level(doc, stack, 1, o[1], n)
      BY <1>1, <1>6 DEF Tracked
    <3>2. doc[1] = stack[1].kind /\ stack[1] \in Entry
      BY <1>1, <3>1 DEF Level
    <3> QED
      BY <3>2 DEF Entry
  <2>2. n + 1 \in 1 .. Len(doc)
    BY <1>1, <1>4
  <2> HIDE DEF n
  <2> QED
    BY <1>1, <1>2, <1>7, <1>9, <2>1, <2>2, TrackedWhole
<1>10. Cursor'
  <2> HIDE DEF n
  <2>1. stack' # <<>> => Top'.first = Told' + 1
    BY <1>2, <1>7, <1>8 DEF Top
  <2>2. stack' = <<>> => (StartsValue(doc, 1)' => Told' = ValueEnd(doc, 1)')
    BY <1>1, <1>8, <1>9
  <2>3. \E p : Tracked(doc', stack', Told', p)
    BY <1>1, <1>2, <1>7, <1>8
  <2> QED
    BY <1>1, <2>1, <2>2, <2>3 DEF Cursor
<1> QED
  BY <1>5, <1>10

LEMMA OrderStep == DepthsCountStack /\ InOrder /\ Step => InOrder'
<1> SUFFICES ASSUME TypeOK, InOrder, Step PROVE InOrder'
  BY DEF DepthsCountStack
<1>1. ASSUME NEW r \in Answers, Callback(r) PROVE InOrder'
  BY <1>1, OrderValue, OrderStart, OrderScalar, OrderEnd DEF Callback
<1>2. CASE NextElement
  BY <1>2, OrderElement
<1>3. CASE RejectEnd
  BY <1>3 DEF RejectEnd, InOrder, GoesOn, Cursor, Told
<1>4. CASE Finish
  BY <1>4 DEF Finish, InOrder, GoesOn, Cursor, Told
<1>5. CASE Terminated \/ UNCHANGED vars
  BY <1>5 DEF Terminated, vars, InOrder, GoesOn, Cursor, Told, Top
<1> QED
  BY <1>1, <1>2, <1>3, <1>4, <1>5 DEF Step

(***************************************************************************)
(* As long as the handler goes on it is told of the tokens of the document *)
(* one after the other, whatever the document: no token is told of twice,  *)
(* skipped or told of early, although the iterator over the elements of a  *)
(* container has been moved past each element before the element is looked *)
(* into (daw_json_event_parser.h, process_range).                          *)
(***************************************************************************)
THEOREM OrderCorrect == Spec => []TokenByToken
<1>1. DepthsCountStack /\ InOrder => TokenByToken
  BY DEF InOrder, TokenByToken
<1> QED
  BY <1>1, CountInit, CountStep, OrderInit, OrderStep, NextIsStep, PTL DEF Spec

-----------------------------------------------------------------------------
(* In a value whose brackets match, stepping over an element finds the     *)
(* bracket that ends it.                                                   *)

LEMMA NestType ==
  ASSUME NEW d, NEW i \in Int, NEW j \in Int
  PROVE  Nest(d, i, j) \in Int
<1>1. CountIn(Opens(d), i, j) \in Nat
  BY CountType
<1>2. CountIn(Closes(d), i, j) \in Nat
  BY CountType
<1> QED
  BY <1>1, <1>2 DEF Nest

LEMMA NestSplit ==
  ASSUME NEW d, NEW i \in Int, NEW j \in Int, NEW k \in Int, i <= j + 1, j <= k
  PROVE  Nest(d, i, k) = Nest(d, i, j) + Nest(d, j + 1, k)
<1>1. CountIn(Opens(d), i, k) = CountIn(Opens(d), i, j) + CountIn(Opens(d), j + 1, k)
  BY CountSplit
<1>2. CountIn(Closes(d), i, k) = CountIn(Closes(d), i, j) + CountIn(Closes(d), j + 1, k)
  BY CountSplit
<1>3. CountIn(Opens(d), i, j) \in Nat
  BY CountType
<1>4. CountIn(Closes(d), i, j) \in Nat
  BY CountType
<1>5. j + 1 \in Int
  OBVIOUS
<1>6. CountIn(Opens(d), j + 1, k) \in Nat
  BY <1>5, CountType
<1>7. CountIn(Closes(d), j + 1, k) \in Nat
  BY <1>5, CountType
<1> QED
  BY <1>1, <1>2, <1>3, <1>4, <1>6, <1>7 DEF Nest

(* Until it meets its partner a bracket is open.                           *)
LEMMA NestPositive ==
  ASSUME NEW d \in Seq(Tokens), NEW i \in 1 .. Len(d), d[i] \in Openings, NEW j \in i .. Len(d),
         \A l \in i .. j : Nest(d, i, l) # 0
  PROVE  Nest(d, i, j) >= 1
<1> DEFINE S == {l \in i .. j : ~ (Nest(d, i, l) >= 1)}
<1>1. CASE S = {}
  BY <1>1
<1>2. CASE S # {}
  <2>1. S \in SUBSET Nat
    OBVIOUS
  <2>2. PICK l \in S : \A k \in S : l <= k
    <3> HIDE DEF S
    <3> QED
      BY <1>2, <2>1, LeastExists
  <2>3. Nest(d, i, i) = 1
    BY NestFirst
  <2>4. l \in i .. j /\ ~ (Nest(d, i, l) >= 1)
    OBVIOUS
  <2>5. l # i
    BY <2>3, <2>4
  <2>6. l - 1 \in i .. Len(d) - 1 /\ (l - 1) + 1 = l /\ l - 1 \in i .. j /\ l \in 1 .. Len(d)
    BY <2>4, <2>5
  <2>7. Nest(d, i, l - 1) >= 1
    <3>1. l - 1 \notin S
      BY <2>2, <2>6
    <3> QED
      BY <2>6, <3>1
  <2>8. Nest(d, i, l) \in Int /\ Nest(d, i, l - 1) \in Int
    BY <2>6, NestType
  <2>9. Nest(d, i, l) >= Nest(d, i, l - 1) - 1
    <3>1. d[l] \in Openings \cup Closings \cup Scalars
      BY <2>6 DEF Tokens
    <3>2. /\ d[l] \in Openings => Nest(d, i, l) = Nest(d, i, l - 1) + 1
          /\ d[l] \in Closings => Nest(d, i, l) = Nest(d, i, l - 1) - 1
          /\ d[l] \in Scalars  => Nest(d, i, l) = Nest(d, i, l - 1)
      BY <2>6, NestNext
    <3> QED
      BY <2>8, <3>1, <3>2
  <2>10. Nest(d, i, l) # 0
    BY <2>4
  <2> QED
    BY <2>4, <2>7, <2>8, <2>9, <2>10
<1> QED
  BY <1>1, <1>2

LEMMA MatchNone ==
  ASSUME NEW d \in Seq(Tokens), NEW i \in 1 .. Len(d), \A j \in i .. Len(d) : Nest(d, i, j) # 0
  PROVE  MatchOf(d, i) = 0
<1> DEFINE nest(j) == Cardinality({k \in i .. j : d[k] \in Openings}) - Cardinality({k \in i .. j : d[k] \in Closings})
           ends    == {j \in i .. Len(d) : nest(j) = 0}
<1>1. ASSUME NEW j \in i .. Len(d) PROVE nest(j) = Nest(d, i, j)
  <2>1. /\ {k \in i .. j : d[k] \in Openings} = Opens(d) \cap (i .. j)
        /\ {k \in i .. j : d[k] \in Closings} = Closes(d) \cap (i .. j)
    BY DEF Opens, Closes
  <2> QED
    BY <2>1, Zenon DEF Nest, CountIn
<1>2. ends = {} => MatchOf(d, i) = 0
  BY DEF MatchOf
<1> HIDE DEF nest
<1>3. ends = {}
  BY <1>1
<1> QED
  BY <1>2, <1>3

LEMMA MatchFacts ==
  ASSUME NEW d \in Seq(Tokens), NEW i \in 1 .. Len(d), d[i] \in Openings
  PROVE  /\ MatchOf(d, i) = 0 => \A j \in i .. Len(d) : Nest(d, i, j) >= 1
         /\ MatchOf(d, i) # 0 => /\ MatchOf(d, i) \in i + 1 .. Len(d)
                                 /\ Nest(d, i, MatchOf(d, i)) = 0
                                 /\ \A j \in i .. MatchOf(d, i) - 1 : Nest(d, i, j) >= 1
                                 /\ d[MatchOf(d, i)] \in Closings
<1> DEFINE ends == {j \in i .. Len(d) : Nest(d, i, j) = 0}
<1>1. CASE ends = {}
  <2>1. \A j \in i .. Len(d) : Nest(d, i, j) # 0
    BY <1>1
  <2>2. ASSUME NEW j \in i .. Len(d) PROVE Nest(d, i, j) >= 1
    <3>1. \A l \in i .. j : Nest(d, i, l) # 0
      BY <2>1
    <3> QED
      BY <3>1, NestPositive
  <2>3. MatchOf(d, i) = 0
    BY <2>1, MatchNone
  <2> QED
    BY <2>2, <2>3
<1>2. CASE ends # {}
  <2>1. ends \in SUBSET Nat
    OBVIOUS
  <2>2. PICK p \in ends : \A k \in ends : p <= k
    <3> HIDE DEF ends
    <3> QED
      BY <1>2, <2>1, LeastExists
  <2>3. p \in i .. Len(d) /\ Nest(d, i, p) = 0
    OBVIOUS
  <2>4. \A j \in i .. p - 1 : Nest(d, i, j) # 0
    BY <2>2, <2>3
  <2>5. MatchOf(d, i) = p
    BY <2>3, <2>4, MatchFound
  <2>6. p # i
    BY <2>3, NestFirst
  <2>7. ASSUME NEW j \in i .. p - 1 PROVE Nest(d, i, j) >= 1
    <3>1. j \in i .. Len(d) /\ \A l \in i .. j : Nest(d, i, l) # 0
      BY <2>3, <2>4
    <3> QED
      BY <3>1, NestPositive
  <2>8. d[p] \in Closings
    <3>1. p - 1 \in i .. Len(d) - 1 /\ (p - 1) + 1 = p /\ p - 1 \in i .. p - 1 /\ p \in 1 .. Len(d)
      BY <2>3, <2>6
    <3>2. d[p] \in Openings \cup Closings \cup Scalars
      BY <3>1 DEF Tokens
    <3>3. /\ d[p] \in Openings => Nest(d, i, p) = Nest(d, i, p - 1) + 1
          /\ d[p] \in Scalars  => Nest(d, i, p) = Nest(d, i, p - 1)
          /\ Nest(d, i, p - 1) \in Int
      BY <3>1, NestNext
    <3>4. Nest(d, i, p - 1) >= 1
      BY <2>7, <3>1
    <3> QED
      BY <2>3, <3>2, <3>3, <3>4
  <2>9. p \in i + 1 .. Len(d) /\ p # 0
    BY <2>3, <2>6
  <2> HIDE DEF ends
  <2> QED
    BY <2>3, <2>5, <2>7, <2>8, <2>9
<1> QED
  BY <1>1, <1>2

(* What opens inside a container is closed inside it.                      *)
LEMMA MatchInside ==
  ASSUME NEW d \in Seq(Tokens), NEW i \in 1 .. Len(d), d[i] \in Openings, MatchOf(d, i) # 0,
         NEW k \in i + 1 .. MatchOf(d, i), d[k] \in Openings
  PROVE  MatchOf(d, k) \in k + 1 .. MatchOf(d, i)
<1> DEFINE m == MatchOf(d, i)
<1>1. m \in i + 1 .. Len(d) /\ Nest(d, i, m) = 0 /\ \A j \in i .. m - 1 : Nest(d, i, j) >= 1
  BY MatchFacts
<1>2. k \in i + 1 .. m
  OBVIOUS
<1> HIDE DEF m
<1>3. k \in 1 .. Len(d) /\ k - 1 \in i .. m - 1 /\ (k - 1) + 1 = k /\ k \in Int /\ m \in Int /\ m \in k .. Len(d)
  BY <1>1, <1>2
<1>4. Nest(d, i, m) = Nest(d, i, k - 1) + Nest(d, k, m)
  <2>1. Nest(d, i, m) = Nest(d, i, k - 1) + Nest(d, (k - 1) + 1, m)
    BY <1>3, NestSplit
  <2> QED
    BY <1>3, <2>1
<1>5. Nest(d, i, k - 1) >= 1 /\ Nest(d, i, k - 1) \in Int /\ Nest(d, k, m) \in Int
  BY <1>1, <1>3, NestType
<1>6. ~ (Nest(d, k, m) >= 1)
  BY <1>1, <1>4, <1>5
<1>7. MatchOf(d, k) # 0
  BY <1>3, <1>6, MatchFacts
<1>8. MatchOf(d, k) \in k + 1 .. Len(d) /\ \A j \in k .. MatchOf(d, k) - 1 : Nest(d, k, j) >= 1
  BY <1>3, <1>7, MatchFacts
<1>9. ~ (m \in k .. MatchOf(d, k) - 1)
  BY <1>6, <1>8
<1>10. MatchOf(d, k) \in k + 1 .. m
  BY <1>3, <1>8, <1>9
<1> QED
  BY <1>10 DEF m

(* No two brackets are ended by the same one ...                           *)
LEMMA MatchUnique ==
  ASSUME NEW d \in Seq(Tokens), NEW i \in 1 .. Len(d), NEW k \in i + 1 .. Len(d), d[i] \in Openings, d[k] \in Openings,
         MatchOf(d, i) = MatchOf(d, k), MatchOf(d, i) # 0
  PROVE  FALSE
<1>1. /\ MatchOf(d, i) \in Int /\ Nest(d, i, MatchOf(d, i)) = 0
      /\ \A j \in i .. MatchOf(d, i) - 1 : Nest(d, i, j) >= 1
  BY MatchFacts
<1>2. k \in 1 .. Len(d) /\ k - 1 \in Int /\ (k - 1) + 1 = k
  OBVIOUS
<1>3. MatchOf(d, k) \in k + 1 .. Len(d) /\ Nest(d, k, MatchOf(d, k)) = 0
  BY <1>2, MatchFacts
<1>4. k - 1 \in i .. MatchOf(d, i) - 1 /\ i <= (k - 1) + 1 /\ k - 1 <= MatchOf(d, i)
  BY <1>3
<1>5. Nest(d, i, MatchOf(d, i)) = Nest(d, i, k - 1) + Nest(d, (k - 1) + 1, MatchOf(d, i))
  BY <1>1, <1>2, <1>4, NestSplit
<1>6. Nest(d, i, k - 1) >= 1 /\ Nest(d, i, k - 1) \in Int
  BY <1>1, <1>2, <1>4, NestType
<1> QED
  BY <1>1, <1>2, <1>3, <1>5, <1>6

(* ... and what closes inside a container ends what was opened inside it,  *)
(* or the container itself.                                                *)
LEMMA MatchExists ==
  ASSUME NEW d \in Seq(Tokens), NEW i \in 1 .. Len(d), NEW j \in i .. Len(d) - 1, Nest(d, i, j) >= 1, d[j + 1] \in Closings
  PROVE  \E k \in i .. j : d[k] \in Openings /\ MatchOf(d, k) = j + 1
<1> DEFINE K == {k \in i .. j : Nest(d, k, j) >= 1}
<1>1. PICK k \in K : \A l \in K : l <= k
  <2>1. i \in K /\ K \in SUBSET (0 .. Len(d)) /\ Len(d) \in Nat
    OBVIOUS
  <2> HIDE DEF K
  <2> QED
    BY <2>1, GreatestExists
<1>2. k \in i .. j /\ Nest(d, k, j) >= 1 /\ k \in 1 .. Len(d) /\ j \in 1 .. Len(d) /\ Len(d) \in Nat
  OBVIOUS
<1>3. ASSUME NEW l \in k + 1 .. j PROVE ~ (Nest(d, l, j) >= 1)
  <2>1. l \in i .. j /\ ~ (l <= k)
    BY <1>2
  <2>2. l \notin K
    BY <1>1, <2>1
  <2> QED
    BY <2>1, <2>2
<1> HIDE DEF K
<1>4. ASSUME NEW l \in k .. j PROVE Nest(d, k, l) >= 1
  <2>1. CASE l = j
    BY <1>2, <2>1
  <2>2. CASE l # j
    <3>1. l + 1 \in k + 1 .. j /\ l \in Int /\ k \in Int /\ j \in Int /\ k <= l + 1 /\ l <= j
      BY <1>2, <2>2
    <3>2. Nest(d, k, j) = Nest(d, k, l) + Nest(d, l + 1, j)
      BY <3>1, NestSplit
    <3>3. ~ (Nest(d, l + 1, j) >= 1)
      BY <1>3, <3>1
    <3>4. Nest(d, k, l) \in Int /\ Nest(d, k, j) \in Int
      BY <3>1, NestType
    <3>5. Nest(d, l + 1, j) \in Int
      <4>1. l + 1 \in Int
        BY <3>1
      <4> QED
        BY <3>1, <4>1, NestType
    <3> QED
      BY <1>2, <3>2, <3>3, <3>4, <3>5
  <2> QED
    BY <2>1, <2>2
<1>5. Nest(d, k, k) >= 1 /\ k \in k .. j
  BY <1>2, <1>4
<1>6. d[k] \in Openings
  <2>1. CountIn(Opens(d), k, k) = IF k \in Opens(d) THEN 1 ELSE 0
    BY <1>2, CountOne
  <2>2. CountIn(Closes(d), k, k) \in Nat
    BY <1>2, CountType
  <2>3. k \in Opens(d)
    BY <1>5, <2>1, <2>2 DEF Nest
  <2> QED
    BY <2>3 DEF Opens
<1>7. Nest(d, k, j) = 1
  <2>1. Nest(d, k, k) = 1
    BY <1>2, <1>6, NestFirst
  <2>2. CASE k = j
    BY <2>1, <2>2
  <2>3. CASE k # j
    <3>1. k + 1 \in k + 1 .. j /\ k \in Int /\ j \in Int /\ k <= k + 1 /\ k <= j /\ k + 1 \in Int
      BY <1>2, <2>3
    <3>2. Nest(d, k, j) = Nest(d, k, k) + Nest(d, k + 1, j)
      BY <3>1, NestSplit
    <3>3. ~ (Nest(d, k + 1, j) >= 1)
      BY <1>3, <3>1
    <3>4. Nest(d, k, j) \in Int
      BY <3>1, NestType
    <3>5. Nest(d, k + 1, j) \in Int
      BY <3>1, NestType
    <3> QED
      BY <1>2, <2>1, <3>2, <3>3, <3>4, <3>5
  <2> QED
    BY <2>2, <2>3
<1>8. Nest(d, k, j + 1) = 0
  <2>1. j \in k .. Len(d) - 1
    BY <1>2
  <2> QED
    BY <1>2, <1>7, <2>1, NestNext
<1>9. j + 1 \in k .. Len(d) /\ \A l \in k .. (j + 1) - 1 : Nest(d, k, l) # 0
  <2>1. ASSUME NEW l \in k .. (j + 1) - 1 PROVE Nest(d, k, l) # 0
    <3>1. l \in k .. j
      BY <1>2
    <3> QED
      BY <1>4, <3>1
  <2> QED
    BY <1>2, <2>1
<1>10. MatchOf(d, k) = j + 1
  BY <1>2, <1>8, <1>9, MatchFound
<1> QED
  BY <1>2, <1>6, <1>10

(* The containers of kind t opened among the tokens i .. j that end behind *)
(* token j.                                                                *)
Pending(d, t, i, j) == {k \in i .. j : d[k] = t /\ MatchOf(d, k) > j}

(* Every bracket that opens among the tokens i .. j meets its partner.     *)
AllMatched(d, i, j) ==
  \A k \in i .. j : d[k] \in Openings => MatchOf(d, k) # 0 /\ d[MatchOf(d, k)] = Partner[d[k]]

LEMMA PendingFinite ==
  ASSUME NEW d, NEW t, NEW i \in Int, NEW j \in Int
  PROVE  IsFiniteSet(Pending(d, t, i, j)) /\ Cardinality(Pending(d, t, i, j)) \in Nat
<1>1. IsFiniteSet(i .. j) /\ Pending(d, t, i, j) \in SUBSET (i .. j)
  BY FS_Interval DEF Pending
<1>2. IsFiniteSet(Pending(d, t, i, j))
  BY <1>1, FS_Subset
<1> QED
  BY <1>2, FS_CardinalityType

LEMMA PendingNext ==
  ASSUME NEW d \in Seq(Tokens), NEW i \in 1 .. Len(d), NEW j \in i .. Len(d) - 1, NEW t \in Openings,
         AllMatched(d, i, j + 1), Nest(d, i, j) >= 1, d[j + 1] \in Closings \/ d[j + 1] \in Openings \/ d[j + 1] \in Scalars
  PROVE  Cardinality(Pending(d, t, i, j + 1)) =
           Cardinality(Pending(d, t, i, j)) + (IF d[j + 1] = t THEN 1 ELSE 0) - (IF d[j + 1] = Partner[t] THEN 1 ELSE 0)
<1> DEFINE P == Pending(d, t, i, j)
           Q == Pending(d, t, i, j + 1)
<1>1. IsFiniteSet(P) /\ Cardinality(P) \in Nat
  BY PendingFinite
<1>2. j + 1 \in 1 .. Len(d) /\ j \in Nat /\ j + 1 \notin P
  BY DEF Pending
<1>3. ASSUME NEW k \in 1 .. Len(d), d[k] = t
      PROVE  /\ MatchOf(d, k) = 0 \/ MatchOf(d, k) \in k + 1 .. Len(d)
             /\ MatchOf(d, k) # 0 => d[MatchOf(d, k)] \in Closings
  BY <1>3, MatchFacts
<1>4. CASE d[j + 1] \notin Closings
  <2>1. d[j + 1] # Partner[t]
    BY <1>4, KindFacts
  <2>2. ASSUME NEW k \in P PROVE k \in Q
    <3>1. k \in i .. j /\ k \in 1 .. Len(d) /\ d[k] = t /\ MatchOf(d, k) > j /\ MatchOf(d, k) \in Int
      BY <1>3 DEF Pending
    <3>2. MatchOf(d, k) # j + 1
      BY <1>2, <1>3, <1>4, <3>1
    <3> QED
      BY <1>2, <3>1, <3>2 DEF Pending
  <2>3. ASSUME NEW k \in Q, k # j + 1 PROVE k \in P
    <3>1. k \in i .. j + 1 /\ k \in 1 .. Len(d) /\ d[k] = t /\ MatchOf(d, k) > j + 1
      BY DEF Pending
    <3>2. MatchOf(d, k) \in Int
      BY <1>3, <3>1
    <3>3. k \in i .. j
      BY <2>3, <3>1
    <3>4. MatchOf(d, k) > j
      BY <1>2, <3>1, <3>2
    <3> QED
      BY <3>1, <3>3, <3>4 DEF Pending
  <2>4. CASE d[j + 1] = t
    <3>1. MatchOf(d, j + 1) # 0
      BY <1>2, <2>4 DEF AllMatched
    <3>2. MatchOf(d, j + 1) > j + 1
      BY <1>2, <1>3, <2>4, <3>1
    <3>3. j + 1 \in Q
      BY <1>2, <2>4, <3>2 DEF Pending
    <3>4. Q = P \cup {j + 1}
      <4> HIDE DEF P, Q
      <4> QED
        BY <2>2, <2>3, <3>3
    <3> HIDE DEF P, Q
    <3>5. Cardinality(Q) = Cardinality(P) + 1
      BY <1>1, <1>2, <3>4, FS_AddElement
    <3> QED
      BY <1>1, <2>1, <2>4, <3>5 DEF P, Q
  <2>5. CASE d[j + 1] # t
    <3>1. j + 1 \notin Q
      BY <2>5 DEF Pending
    <3>2. Q = P
      <4> HIDE DEF P, Q
      <4> QED
        BY <2>2, <2>3, <3>1
    <3> HIDE DEF P, Q
    <3> QED
      BY <1>1, <2>1, <2>5, <3>2 DEF P, Q
  <2> QED
    BY <2>4, <2>5
<1>5. CASE d[j + 1] \in Closings
  <2>1. PICK c \in i .. j : d[c] \in Openings /\ MatchOf(d, c) = j + 1
    BY <1>5, MatchExists
  <2>2. c \in 1 .. Len(d) /\ d[j + 1] = Partner[d[c]] /\ c \in i .. j + 1
    BY <1>2, <2>1 DEF AllMatched
  <2>3. d[j + 1] # t /\ (d[j + 1] = Partner[t] <=> d[c] = t)
    BY <1>5, <2>1, <2>2, KindFacts
  <2>4. ASSUME NEW k \in P, k # c PROVE k \in Q
    <3>1. k \in i .. j /\ k \in 1 .. Len(d) /\ d[k] = t /\ MatchOf(d, k) > j /\ MatchOf(d, k) \in Int
      BY <1>3 DEF Pending
    <3>2. CASE MatchOf(d, k) = j + 1
      <4>1. CASE k < c
        <5>1. c \in k + 1 .. Len(d)
          BY <2>2, <3>1, <4>1
        <5> QED
          BY <1>2, <2>1, <3>1, <3>2, <5>1, MatchUnique
      <4>2. CASE c < k
        <5>1. k \in c + 1 .. Len(d)
          BY <2>2, <3>1, <4>2
        <5> QED
          BY <1>2, <2>1, <2>2, <3>1, <3>2, <5>1, MatchUnique
      <4> QED
        BY <2>2, <2>4, <3>1, <4>1, <4>2
    <3>3. CASE MatchOf(d, k) # j + 1
      BY <1>2, <3>1, <3>3 DEF Pending
    <3> QED
      BY <3>2, <3>3
  <2>5. ASSUME NEW k \in Q PROVE k \in P /\ k # c
    <3>1. k \in i .. j + 1 /\ k \in 1 .. Len(d) /\ d[k] = t /\ MatchOf(d, k) > j + 1
      BY DEF Pending
    <3>2. MatchOf(d, k) \in Int
      BY <1>3, <3>1
    <3>3. k # j + 1
      BY <2>3, <3>1
    <3>4. k \in i .. j
      BY <3>1, <3>3
    <3>5. MatchOf(d, k) > j /\ k # c
      BY <1>2, <2>1, <3>1, <3>2
    <3> QED
      BY <3>1, <3>4, <3>5 DEF Pending
  <2>6. c \in P <=> d[c] = t
    BY <1>2, <2>1 DEF Pending
  <2> HIDE DEF P, Q
  <2>7. Q = P \ {c}
    BY <2>4, <2>5
  <2>8. CASE d[c] = t
    <3>1. Cardinality(Q) = Cardinality(P) - 1
      BY <1>1, <2>6, <2>7, <2>8, FS_RemoveElement
    <3> QED
      BY <1>1, <2>3, <2>8, <3>1 DEF P, Q
  <2>9. CASE d[c] # t
    <3>1. Q = P
      BY <2>6, <2>7, <2>9
    <3> QED
      BY <1>1, <2>3, <2>9, <3>1 DEF P, Q
  <2> QED
    BY <2>8, <2>9
<1> QED
  BY <1>4, <1>5

(* Where brackets match, the balance of a kind is what is open of it.      *)
LEMMA BalanceIsPending ==
  ASSUME NEW d \in Seq(Tokens), NEW i \in 1 .. Len(d), d[i] \in Openings, MatchOf(d, i) # 0,
         AllMatched(d, i, MatchOf(d, i)), NEW j \in i .. MatchOf(d, i), NEW t \in Openings
  PROVE  Balance(d, t, i, j) = Cardinality(Pending(d, t, i, j))
<1> DEFINE m == MatchOf(d, i)
           S == {l \in i .. m : Balance(d, t, i, l) # Cardinality(Pending(d, t, i, l))}
<1>1. m \in i + 1 .. Len(d) /\ \A l \in i .. m - 1 : Nest(d, i, l) >= 1
  BY MatchFacts
<1>2. i \notin S
  <2>1. Balance(d, t, i, i) = IF d[i] = t THEN 1 ELSE 0
    BY BalanceFirst
  <2>2. Pending(d, t, i, i) = IF d[i] = t THEN {i} ELSE {}
    BY <1>1 DEF Pending
  <2>3. Cardinality({i}) = 1 /\ Cardinality({}) = 0
    BY FS_Singleton, FS_EmptySet
  <2> QED
    BY <2>1, <2>2, <2>3
<1>3. CASE S # {}
  <2>1. S \in SUBSET Nat
    BY <1>1
  <2>2. PICK l \in S : \A k \in S : l <= k
    <3> HIDE DEF S
    <3> QED
      BY <1>3, <2>1, LeastExists
  <2>3. l \in i .. m /\ Balance(d, t, i, l) # Cardinality(Pending(d, t, i, l))
    OBVIOUS
  <2>4. l # i
    BY <1>2
  <2> HIDE DEF m
  <2>5. /\ l - 1 \in i .. Len(d) - 1 /\ (l - 1) + 1 = l /\ l - 1 \in i .. m - 1 /\ l - 1 \in i .. m
        /\ ~ (l <= l - 1) /\ l \in 1 .. Len(d)
    BY <1>1, <2>3, <2>4
  <2>6. Balance(d, t, i, l - 1) = Cardinality(Pending(d, t, i, l - 1))
    <3>1. l - 1 \notin S
      BY <2>2, <2>5
    <3> QED
      BY <2>5, <3>1
  <2>7. Balance(d, t, i, (l - 1) + 1) = Balance(d, t, i, l - 1)
           + (IF d[(l - 1) + 1] = t THEN 1 ELSE 0) - (IF d[(l - 1) + 1] = Partner[t] THEN 1 ELSE 0)
    BY <2>5, BalanceNext
  <2>8. Nest(d, i, l - 1) >= 1
    BY <1>1, <2>5
  <2>9. AllMatched(d, i, (l - 1) + 1)
    BY <1>1, <2>3, <2>5 DEF AllMatched, m
  <2>10. d[(l - 1) + 1] \in Closings \/ d[(l - 1) + 1] \in Openings \/ d[(l - 1) + 1] \in Scalars
    BY <2>5 DEF Tokens
  <2>11. Cardinality(Pending(d, t, i, (l - 1) + 1)) = Cardinality(Pending(d, t, i, l - 1))
           + (IF d[(l - 1) + 1] = t THEN 1 ELSE 0) - (IF d[(l - 1) + 1] = Partner[t] THEN 1 ELSE 0)
    BY <2>5, <2>8, <2>9, <2>10, PendingNext
  <2> QED
    BY <2>3, <2>5, <2>6, <2>7, <2>11
<1>4. CASE S = {}
  BY <1>4
<1> QED
  BY <1>3, <1>4

(***************************************************************************)
(* skip_bracketed_item finds the bracket that ends the value, although it  *)
(* counts each kind of bracket for itself, wherever brackets match.        *)
(***************************************************************************)
LEMMA ClosingIsMatch ==
  ASSUME NEW d \in Seq(Tokens), NEW i \in 1 .. Len(d), d[i] \in Openings, MatchOf(d, i) # 0, AllMatched(d, i, MatchOf(d, i))
  PROVE  ClosingOf(d, i) = MatchOf(d, i)
<1> DEFINE m == MatchOf(d, i)
<1>1. m \in i + 1 .. Len(d) /\ m \in i .. Len(d)
  BY MatchFacts
<1>2. ASSUME NEW t \in Openings PROVE Balance(d, t, i, m) = 0
  <2>1. ASSUME NEW k \in i .. m, d[k] = t PROVE ~ (MatchOf(d, k) > m)
    <3>1. CASE k = i
      BY <1>1, <3>1
    <3>2. CASE k # i
      <4>1. k \in i + 1 .. m
        BY <1>1, <3>2
      <4>2. MatchOf(d, k) \in k + 1 .. m
        BY <2>1, <4>1, MatchInside
      <4> HIDE DEF m
      <4> QED
        BY <1>1, <4>1, <4>2
    <3> QED
      BY <3>1, <3>2
  <2>2. Pending(d, t, i, m) = {}
    BY <2>1 DEF Pending
  <2>3. Balance(d, t, i, m) = Cardinality(Pending(d, t, i, m))
    <3>1. m \in i .. m
      BY <1>1
    <3> QED
      BY <3>1, BalanceIsPending
  <2> QED
    BY <2>2, <2>3, FS_EmptySet
<1>3. ASSUME NEW j \in i .. m - 1 PROVE Balance(d, d[i], i, j) # 0
  <2>1. j \in i .. m /\ i \in i .. j /\ m > j
    BY <1>1
  <2>2. Balance(d, d[i], i, j) = Cardinality(Pending(d, d[i], i, j))
    BY <2>1, BalanceIsPending
  <2>3. i \in Pending(d, d[i], i, j)
    BY <2>1 DEF Pending
  <2>4. IsFiniteSet(Pending(d, d[i], i, j))
    BY <2>1, PendingFinite
  <2>5. Cardinality(Pending(d, d[i], i, j)) # 0
    BY <2>3, <2>4, FS_EmptySet
  <2> QED
    BY <2>2, <2>5
<1> HIDE DEF m
<1>4. Other[d[i]] \in Openings
  BY KindFacts
<1>5. ClosingOf(d, i) = m
  BY <1>1, <1>2, <1>3, <1>4, ClosingFound
<1> QED
  BY <1>5 DEF m

-----------------------------------------------------------------------------
(* No value is rejected.                                                   *)

(* As long as a container is open the parser is inside the value.          *)
LEMMA InsideValue ==
  ASSUME TypeOK, InOrder, GoesOn, phase \in {"value", "typed", "range"}, stack # <<>>, ValueEnd(doc, 1) # 0
  PROVE  /\ 1 \in 1 .. Len(doc) /\ doc[1] \in Openings /\ ValueEnd(doc, 1) = MatchOf(doc, 1)
         /\ MatchOf(doc, 1) \in 2 .. Len(doc) /\ doc[MatchOf(doc, 1)] \in Closings
         /\ AllMatched(doc, 1, MatchOf(doc, 1))
         /\ Told \in Nat /\ Told + 1 \in 2 .. MatchOf(doc, 1) /\ (phase = "range" => Top.first = Told + 1)
<1>1. doc \in Seq(Tokens) /\ Len(doc) \in Nat /\ stack \in Seq(Entry) /\ Told \in Nat
  BY TypeFacts DEF TypeOK, Told
<1>2. (phase = "range" => Top.first = Told + 1) /\ \E o : Tracked(doc, stack, Told, o)
  BY DEF InOrder, Cursor
<1>3. PICK o : Tracked(doc, stack, Told, o)
  BY <1>2
<1>4. 1 \in 1 .. Len(stack) /\ Level(doc, stack, 1, 1, Told)
  BY <1>1, <1>3 DEF Tracked
<1>5. StartsValue(doc, 1) /\ 1 \in 1 .. Len(doc)
  <2>1. 1 \in DOMAIN doc /\ doc[1] = stack[1].kind /\ stack[1] \in Entry
    BY <1>1, <1>4 DEF Level
  <2>2. doc[1] \in Openings
    BY <2>1 DEF Entry
  <2> QED
    BY <1>1, <2>1, <2>2, KindFacts DEF StartsValue
<1>6. doc[1] \in Openings
  <2>1. doc[1] = stack[1].kind /\ stack[1] \in Entry
    BY <1>1, <1>4 DEF Level
  <2> QED
    BY <2>1 DEF Entry
<1>7. ValueEnd(doc, 1) = IF \A k \in 1 .. MatchOf(doc, 1) :
                              doc[k] \in Openings => MatchOf(doc, k) # 0 /\ doc[MatchOf(doc, k)] = Partner[doc[k]]
                         THEN MatchOf(doc, 1) ELSE 0
  <2>1. doc[1] \notin Scalars
    BY <1>6, KindFacts
  <2> QED
    BY <1>5, <1>6, <2>1 DEF ValueEnd
<1>8. MatchOf(doc, 1) # 0 /\ AllMatched(doc, 1, MatchOf(doc, 1)) /\ ValueEnd(doc, 1) = MatchOf(doc, 1)
  BY <1>7 DEF AllMatched
<1>9. MatchOf(doc, 1) \in 2 .. Len(doc) /\ Nest(doc, 1, MatchOf(doc, 1)) = 0 /\ doc[MatchOf(doc, 1)] \in Closings
  BY <1>1, <1>5, <1>6, <1>8, MatchFacts
<1>10. Told >= 1 /\ \A j \in 1 .. Told : Nest(doc, 1, j) >= 1
  BY <1>1, <1>4 DEF Level
<1>11. ~ (MatchOf(doc, 1) \in 1 .. Told)
  BY <1>9, <1>10
<1>12. Told + 1 \in 2 .. MatchOf(doc, 1)
  BY <1>1, <1>9, <1>10, <1>11
<1> QED
  BY <1>1, <1>2, <1>5, <1>6, <1>8, <1>9, <1>12

(* An element of it can be stepped over ...                                *)
LEMMA StepsOver ==
  ASSUME TypeOK, InOrder, GoesOn, phase = "range", stack # <<>>, ValueEnd(doc, 1) # 0, StartsValue(doc, Top.first)
  PROVE  SkipValue(doc, Top.first) # 0
<1> DEFINE n == Told + 1
           m == MatchOf(doc, 1)
<1>1. /\ 1 \in 1 .. Len(doc) /\ doc[1] \in Openings /\ m \in 2 .. Len(doc) /\ doc[m] \in Closings /\ AllMatched(doc, 1, m)
      /\ n \in 2 .. m /\ Top.first = n /\ doc \in Seq(Tokens) /\ Len(doc) \in Nat
  BY InsideValue, TypeFacts
<1> HIDE DEF n
<1>2. doc[n] \notin Closings /\ n # m /\ n \in 1 .. Len(doc) /\ ~ (n > Len(doc)) /\ n # Len(doc)
  <2>1. doc[n] \notin Closings
    BY <1>1 DEF StartsValue
  <2>2. n # m
    BY <1>1, <2>1
  <2> HIDE DEF m
  <2> QED
    BY <1>1, <2>1, <2>2
<1>3. CASE doc[n] \in Scalars
  <2>1. SkipValue(doc, n) = SkipScalar(doc, n)
    BY <1>2, <1>3, KindFacts, Zenon DEF SkipValue
  <2>2. SkipScalar(doc, n) = n + 1
    BY <1>2 DEF SkipScalar
  <2> QED
    BY <1>1, <1>2, <2>1, <2>2
<1>4. CASE doc[n] \in Openings
  <2>1. SkipValue(doc, n) = IF ClosingOf(doc, n) = 0 THEN 0 ELSE ClosingOf(doc, n) + 1
    BY <1>2, <1>4, KindFacts, Zenon DEF SkipValue
  <2>2. MatchOf(doc, n) \in n + 1 .. m
    <3>1. m # 0 /\ n \in 1 + 1 .. m
      BY <1>1
    <3> QED
      BY <1>1, <1>4, <3>1, MatchInside
  <2>3. AllMatched(doc, n, MatchOf(doc, n)) /\ MatchOf(doc, n) # 0
    <3> HIDE DEF m
    <3>1. \A k \in n .. MatchOf(doc, n) : k \in 1 .. m
      BY <1>1, <2>2
    <3> QED
      BY <1>1, <2>2, <3>1 DEF AllMatched
  <2>4. ClosingOf(doc, n) = MatchOf(doc, n)
    BY <1>1, <1>2, <1>4, <2>3, ClosingIsMatch
  <2> HIDE DEF m
  <2> QED
    BY <1>1, <2>1, <2>2, <2>4
<1>5. doc[n] \in Scalars \cup Openings
  BY <1>1, <1>2 DEF Tokens
<1> QED
  BY <1>3, <1>4, <1>5

(* ... and behind the last one is the bracket that ends the container.     *)
LEMMA EndsRight ==
  ASSUME TypeOK, Counted, InOrder, GoesOn, phase = "range", stack # <<>>, ValueEnd(doc, 1) # 0, ~ StartsValue(doc, Top.first)
  PROVE  AtItsEnd
<1> DEFINE n == Told
           m == MatchOf(doc, 1)
<1>1. /\ 1 \in 1 .. Len(doc) /\ doc[1] \in Openings /\ m \in 2 .. Len(doc) /\ AllMatched(doc, 1, m)
      /\ n \in Nat /\ n + 1 \in 2 .. m /\ Top.first = n + 1 /\ doc \in Seq(Tokens) /\ Len(doc) \in Nat
      /\ stack \in Seq(Entry) /\ Top.kind \in Openings /\ Len(stack) \in DOMAIN stack
  BY InsideValue, TypeFacts
<1>2. PICK o : Tracked(doc, stack, n, o)
  BY DEF InOrder, Cursor
<1> HIDE DEF n
<1>3. n + 1 \in 1 .. Len(doc) /\ n \in 0 .. Len(doc) - 1 /\ n \in 1 .. m
  BY <1>1
<1>4. doc[n + 1] \in Closings
  BY <1>1, <1>3 DEF StartsValue
<1> DEFINE k == o[Len(stack)]
<1>5. Len(stack) \in 1 .. Len(stack) /\ Level(doc, stack, Len(stack), k, n)
  BY <1>1, <1>2 DEF Tracked
<1>6. /\ k \in 1 .. Len(doc) /\ n \in k .. Len(doc) - 1 /\ n + 1 \in k .. Len(doc)
      /\ doc[k] = Top.kind /\ doc[k] \in Openings /\ Nest(doc, k, n) = 1 /\ k \in 1 .. n
  <2>1. /\ k \in 1 .. Len(doc) /\ n \in k .. Len(doc) - 1 /\ n + 1 \in k .. Len(doc)
        /\ doc[k] = stack[Len(stack)].kind /\ doc[k] \in Openings
        /\ Nest(doc, k, n) = Len(stack) - Len(stack) + 1
    BY <1>1, <1>3, <1>5, LevelFacts
  <2>2. k \in 1 .. n
    BY <1>5 DEF Level
  <2> QED
    BY <2>1, <2>2 DEF Top, Last
<1>7. Nest(doc, k, n + 1) = 0
  BY <1>1, <1>4, <1>6, NestNext
<1>8. \A j \in k .. (n + 1) - 1 : Nest(doc, k, j) # 0
  <2> SUFFICES ASSUME NEW j \in k .. (n + 1) - 1 PROVE Nest(doc, k, j) # 0
    OBVIOUS
  <2>1. j \in k .. n
    BY <1>1
  <2>2. Nest(doc, k, j) >= 1
    BY <1>5, <2>1 DEF Level
  <2> QED
    BY <2>2
<1>9. MatchOf(doc, k) = n + 1
  BY <1>1, <1>6, <1>7, <1>8, MatchFound
<1>10. doc[n + 1] = Partner[Top.kind]
  <2>1. k \in 1 .. m
    <3> HIDE DEF k, m
    <3> QED
      BY <1>1, <1>6
  <2> QED
    BY <1>1, <1>6, <1>9, <2>1 DEF AllMatched
<1>11. depth[Top.kind] > 0
  <2>1. depth[Top.kind] = Cardinality(OpenOf(stack, Top.kind))
    BY <1>1 DEF Counted
  <2>2. Len(stack) \in OpenOf(stack, Top.kind)
    BY <1>1 DEF OpenOf, Top, Last
  <2>3. IsFiniteSet(OpenOf(stack, Top.kind))
    BY <1>1, OpenIsFinite
  <2>4. Cardinality(OpenOf(stack, Top.kind)) \in Nat /\ Cardinality(OpenOf(stack, Top.kind)) # 0
    BY <2>2, <2>3, FS_EmptySet, FS_CardinalityType
  <2> QED
    BY <2>1, <2>4
<1> QED
  BY <1>1, <1>3, <1>10, <1>11 DEF AtItsEnd

Accepting == GoesOn /\ ValueEnd(doc, 1) # 0 => phase # "failed"

LEMMA AcceptStep == DepthsCountStack /\ InOrder /\ Accepting /\ Step => Accepting'
<1> SUFFICES ASSUME TypeOK, Counted, InOrder, Accepting, Step, GoesOn', ValueEnd(doc, 1)' # 0
             PROVE  phase' # "failed"
  BY CountedIsCount DEF Accepting
<1>1. ASSUME NEW r \in Answers, HandleValue(r) PROVE phase' # "failed"
  <2>1. stack \in Seq(Entry) /\ React(r, stack, "typed")
    BY <1>1, TypeFacts DEF HandleValue
  <2>2. phase' = "typed"
    BY <2>1, ReactTypes DEF Phases
  <2> QED
    BY <2>2
<1>2. ASSUME NEW r \in Answers, HandleStart(r) PROVE phase' # "failed"
  BY <1>2 DEF HandleStart, React
<1>3. ASSUME NEW r \in Answers, HandleScalar(r) PROVE phase' # "failed"
  BY <1>3 DEF HandleScalar, React
<1>4. ASSUME NEW r \in Answers, HandleEnd(r) PROVE phase' # "failed"
  BY <1>4 DEF HandleEnd
<1>5. CASE NextElement
  <2>1. phase = "range" /\ stack # <<>> /\ StartsValue(doc, Top.first) /\ GoesOn /\ ValueEnd(doc, 1) # 0
    BY <1>5 DEF NextElement, GoesOn
  <2>2. SkipValue(doc, Top.first) # 0
    BY <2>1, StepsOver
  <2> QED
    BY <1>5, <2>2 DEF NextElement
<1>6. CASE RejectEnd
  <2>1. phase = "range" /\ stack # <<>> /\ ~ StartsValue(doc, Top.first) /\ GoesOn /\ ValueEnd(doc, 1) # 0 /\ ~ AtItsEnd
    BY <1>6 DEF RejectEnd, GoesOn
  <2> QED
    BY <2>1, EndsRight
<1>7. CASE Finish
  <2>1. phase = "range" /\ stack = <<>> /\ GoesOn
    BY <1>7 DEF Finish, GoesOn
  <2>2. \A t \in Openings : OpenOf(stack, t) = {}
    BY <2>1 DEF OpenOf
  <2>3. \A t \in Openings : depth[t] = 0
    BY <2>1, <2>2, FS_EmptySet DEF Counted
  <2> QED
    BY <1>7, <2>3 DEF Finish
<1>8. CASE Terminated \/ UNCHANGED vars
  BY <1>8 DEF Terminated, vars, Accepting, GoesOn
<1> QED
  BY <1>1, <1>2, <1>3, <1>4, <1>5, <1>6, <1>7, <1>8 DEF Step, Callback

(***************************************************************************)
(* For every document and every handler that goes on: a parse that returns *)
(* has handed out a whole value, and no document that starts with a value  *)
(* is rejected - neither by skip_bracketed_item, which counts each kind of *)
(* bracket for itself, nor by the assertions on the brackets and depths at *)
(* the end of a range and of the loop (daw_json_event_parser.h).           *)
(***************************************************************************)
THEOREM WholeValues == Spec => []AcceptsWholeValues
<1>1. Init => Accepting
  BY DEF Init, Accepting
<1>2. InOrder /\ Accepting => AcceptsWholeValues
  BY DEF InOrder, Cursor, Told, Accepting, AcceptsWholeValues
<1> QED
  BY <1>1, <1>2, CountInit, CountStep, OrderInit, OrderStep, AcceptStep, NextIsStep, PTL DEF Spec

-----------------------------------------------------------------------------
(* The handler of FindPath: the inductive invariant of its stack.          *)

Node == [start : 0 .. Len(doc), index : Int, name : Nat]

(* What the handler keeps; between the callback for a value and the one for*)
(* its kind, the value is the child at hand.                               *)
HandlerOK ==
  /\ loc \in Locations
  /\ parseStack \in Seq(Node)
  /\ \A i \in DOMAIN parseStack : parseStack[i].start \in DOMAIN doc
  /\ Len(lastPopped) <= 1
  /\ state \in Node
  /\ phase = "typed" => state.start = value /\ value \in DOMAIN doc

Agree ==
  GoesOn /\ ~ Finished =>
    /\ Len(parseStack) = Len(stack)
    /\ \A i \in DOMAIN stack : doc[parseStack[i].start] = stack[i].kind

PInv == DepthsCountStack /\ HandlerOK /\ Agree

(* Before the result is there, the invariant gives the property.           *)
LEMMA PInvAgrees == PInv => StacksAgree
BY DEF PInv, HandlerOK, Agree, StacksAgree, PathTypeOK, DepthsCountStack, Node

LEMMA PInvInit == PathInit => PInv
<1> SUFFICES ASSUME PathInit PROVE HandlerOK /\ Agree
  BY CountInit DEF PathInit, PInv
<1>1. doc \in Seq(Tokens)
  BY EventAssumption DEF PathInit, Init
<1>2. NoNode \in Node
  BY <1>1 DEF NoNode, Node
<1>3. HandlerOK
  BY <1>2 DEF PathInit, Init, HandlerOK
<1>4. Agree
  BY DEF PathInit, Init, Agree
<1> QED
  BY <1>3, <1>4

-----------------------------------------------------------------------------
(* Every callback keeps it.                                                *)

LEMMA PathStep == PathNext => Step
BY DEF PathNext, OnValue, OnStart, OnScalar, OnEnd, Step, Callback, Answers

LEMMA PathFacts ==
  ASSUME PInv
  PROVE  /\ TypeOK /\ HandlerOK /\ Agree
         /\ doc \in Seq(Tokens) /\ DOMAIN doc = 1 .. Len(doc) /\ Len(doc) \in Nat
         /\ stack \in Seq(Entry)
         /\ value \in 1 .. Len(doc) + 1
BY TypeFacts DEF PInv, DepthsCountStack, TypeOK

LEMMA ValueKeeps ==
  ASSUME PInv, OnValue
  PROVE  HandlerOK' /\ Agree'
<1>f. /\ TypeOK /\ HandlerOK /\ Agree
      /\ doc \in Seq(Tokens) /\ DOMAIN doc = 1 .. Len(doc) /\ Len(doc) \in Nat
      /\ value \in 1 .. Len(doc) + 1
  BY PathFacts
<1>1. CASE HandleValue("Complete") /\ UNCHANGED handler
  <2>1. doc' = doc /\ phase' = "range" /\ ~ GoesOn'
    BY <1>1 DEF HandleValue, React, GoesOn
  <2> QED
    BY <1>1, <1>f, <2>1 DEF HandlerOK, Agree, handler, Node
<1>2. CASE /\ value <= Len(doc) /\ HandleValue("Continue")
           /\ state' = NodeOf(value)
           /\ lastPopped' = <<>>
           /\ UNCHANGED <<loc, parseStack>>
  <2>1. /\ doc' = doc /\ value' = value /\ phase' = "typed" /\ stack' = stack
        /\ phase = "value" /\ (GoesOn' => GoesOn)
    BY <1>2 DEF HandleValue, React, GoesOn
  <2>2. NodeOf(value) \in Node /\ NodeOf(value).start = value /\ value \in DOMAIN doc
    <3>1. value \in DOMAIN doc /\ value \in 0 .. Len(doc) /\ value \in Nat /\ state \in Node
      BY <1>2, <1>f DEF HandlerOK
    <3>2. state.index \in Int
      BY <3>1 DEF Node
    <3> DEFINE index == IF ChildOf = "[" THEN state.index + 1 ELSE -1
               name  == IF ChildOf = "{" THEN value ELSE 0
    <3>3. index \in Int /\ name \in Nat
      <4>1. index \in {state.index + 1, -1} /\ name \in {value, 0}
        OBVIOUS
      <4>2. state.index + 1 \in Int /\ -1 \in Int /\ 0 \in Nat /\ value \in Nat
        BY <3>1, <3>2
      <4> HIDE DEF index, name
      <4> QED
        BY <4>1, <4>2
    <3>4. NodeOf(value) = [start |-> value, index |-> index, name |-> name]
      BY DEF NodeOf
    <3> HIDE DEF index, name
    <3> QED
      BY <3>1, <3>3, <3>4 DEF Node
  <2>3. HandlerOK'
    BY <1>2, <1>f, <2>1, <2>2 DEF HandlerOK, Node
  <2>4. Agree'
    BY <1>2, <1>f, <2>1 DEF Agree, Finished
  <2> QED
    BY <2>3, <2>4
<1> QED
  BY <1>1, <1>2 DEF OnValue

LEMMA StartKeeps ==
  ASSUME PInv, OnStart
  PROVE  HandlerOK' /\ Agree'
<1>f. /\ TypeOK /\ HandlerOK /\ Agree
      /\ doc \in Seq(Tokens) /\ DOMAIN doc = 1 .. Len(doc) /\ Len(doc) \in Nat
      /\ stack \in Seq(Entry)
      /\ value \in 1 .. Len(doc) + 1
  BY PathFacts
<1> DEFINE e == [kind |-> doc[value], first |-> value + 1]
<1>1. /\ doc' = doc /\ phase = "typed" /\ phase' = "range" /\ stack' = Append(stack, e)
      /\ parseStack' = Append(parseStack, state) /\ state' = NoNode
      /\ loc' = loc /\ lastPopped' = lastPopped
      /\ GoesOn' => GoesOn
  BY DEF OnStart, HandleStart, React, GoesOn
<1>2. /\ state \in Node /\ state.start = value /\ value \in DOMAIN doc /\ parseStack \in Seq(Node)
      /\ NoNode \in Node
  BY <1>1, <1>f DEF HandlerOK, NoNode, Node
<1>3. HandlerOK'
  <2>1. parseStack' \in Seq(Node)
    BY <1>1, <1>2
  <2>2. \A i \in DOMAIN parseStack' : parseStack'[i].start \in DOMAIN doc
    BY <1>1, <1>2, <1>f DEF HandlerOK
  <2> QED
    BY <1>1, <1>2, <1>f, <2>1, <2>2 DEF HandlerOK, Node
<1>4. e.kind = doc[value] /\ e \in Entry
  BY <1>2, TypeFacts, <1>f DEF OnStart, HandleStart, Entry
<1> HIDE DEF e
<1>5. ASSUME GoesOn'
      PROVE  /\ Len(parseStack') = Len(stack')
             /\ \A i \in DOMAIN stack' : doc[parseStack'[i].start] = stack'[i].kind
  <2>1. Len(parseStack) = Len(stack) /\ \A i \in DOMAIN stack : doc[parseStack[i].start] = stack[i].kind
    BY <1>1, <1>5, <1>f DEF Agree, Finished
  <2>2. Len(parseStack') = Len(stack')
    BY <1>1, <1>2, <1>f, <2>1
  <2>3. ASSUME NEW i \in DOMAIN stack' PROVE doc[parseStack'[i].start] = stack'[i].kind
    <3>1. CASE i \in DOMAIN stack
      <4>1. stack'[i] = stack[i] /\ parseStack'[i] = parseStack[i]
        BY <1>1, <1>2, <1>f, <2>1, <3>1
      <4> QED
        BY <2>1, <3>1, <4>1
    <3>2. CASE i = Len(stack) + 1
      <4>1. stack'[i] = e /\ parseStack'[i] = state
        BY <1>1, <1>2, <1>f, <2>1, <3>2
      <4>2. doc[state.start] = doc[value]
        BY <1>2
      <4> QED
        BY <1>4, <4>1, <4>2
    <3>3. DOMAIN stack' = 1 .. Len(stack) + 1 /\ DOMAIN stack = 1 .. Len(stack) /\ Len(stack) \in Nat
      BY <1>1, <1>4, <1>f
    <3> QED
      BY <2>3, <3>1, <3>2, <3>3
  <2> QED
    BY <2>2, <2>3
<1> QED
  BY <1>1, <1>3, <1>5 DEF Agree

LEMMA ScalarKeeps ==
  ASSUME PInv, OnScalar
  PROVE  HandlerOK' /\ Agree'
<1>f. /\ TypeOK /\ HandlerOK /\ Agree
      /\ doc \in Seq(Tokens) /\ DOMAIN doc = 1 .. Len(doc) /\ Len(doc) \in Nat
  BY PathFacts
<1>1. CASE /\ HandleScalar("Complete")
           /\ parseStack' = Append(parseStack, state)
           /\ UNCHANGED <<loc, lastPopped, state>>
  <2>1. doc' = doc /\ phase = "typed" /\ phase' = "range" /\ ~ GoesOn'
    BY <1>1 DEF HandleScalar, React, GoesOn
  <2>2. state \in Node /\ state.start \in DOMAIN doc /\ parseStack \in Seq(Node)
    BY <1>f, <2>1 DEF HandlerOK
  <2>3. parseStack' \in Seq(Node) /\ \A i \in DOMAIN parseStack' : parseStack'[i].start \in DOMAIN doc
    BY <1>1, <1>f, <2>2 DEF HandlerOK
  <2> QED
    BY <1>1, <1>f, <2>1, <2>2, <2>3 DEF HandlerOK, Agree, Node
<1>2. CASE HandleScalar("Continue") /\ UNCHANGED handler
  <2>1. /\ doc' = doc /\ stack' = stack /\ phase = "typed" /\ phase' = "range" /\ (GoesOn' => GoesOn)
    BY <1>2 DEF HandleScalar, React, GoesOn
  <2> QED
    BY <1>2, <1>f, <2>1 DEF HandlerOK, Agree, Finished, handler, Node
<1> QED
  BY <1>1, <1>2 DEF OnScalar

LEMMA EndKeeps ==
  ASSUME PInv, OnEnd
  PROVE  HandlerOK' /\ Agree'
<1>f. /\ TypeOK /\ HandlerOK /\ Agree
      /\ doc \in Seq(Tokens) /\ DOMAIN doc = 1 .. Len(doc) /\ Len(doc) \in Nat
      /\ stack \in Seq(Entry) /\ parseStack \in Seq(Node)
  BY PathFacts DEF HandlerOK
<1>1. /\ doc' = doc /\ phase = "range" /\ phase' = "range" /\ stack # <<>> /\ stack' = Front(stack)
      /\ loc' = loc /\ (GoesOn' => GoesOn)
  BY DEF OnEnd, HandleEnd, GoesOn
<1>2. CASE parseStack = <<>>
  <2>1. ~ GoesOn
    BY <1>1, <1>2, <1>f DEF Agree, Finished
  <2> QED
    BY <1>1, <1>2, <1>f, <2>1 DEF OnEnd, HandlerOK, Agree, Node
<1>3. CASE parseStack # <<>>
  <2>1. parseStack' = Front(parseStack) /\ lastPopped' = <<Last(parseStack)>> /\ state' = Last(parseStack)
    BY <1>3 DEF OnEnd
  <2>2. /\ Front(parseStack) \in Seq(Node) /\ Last(parseStack) \in Node
        /\ Len(Front(parseStack)) = Len(parseStack) - 1
        /\ \A i \in DOMAIN Front(parseStack) : i \in DOMAIN parseStack /\ Front(parseStack)[i] = parseStack[i]
    BY <1>3, <1>f, FrontFacts
  <2>3. /\ Len(Front(stack)) = Len(stack) - 1
        /\ \A i \in DOMAIN Front(stack) : i \in 1 .. Len(stack) - 1 /\ i \in DOMAIN stack /\ Front(stack)[i] = stack[i]
    BY <1>1, <1>f, FrontFacts
  <2>4. HandlerOK'
    <3>1. \A i \in DOMAIN parseStack' : parseStack'[i].start \in DOMAIN doc
      BY <1>f, <2>1, <2>2 DEF HandlerOK
    <3>2. Len(lastPopped') <= 1
      BY <2>1
    <3> QED
      BY <1>1, <1>f, <2>1, <2>2, <3>1, <3>2 DEF HandlerOK, Node
  <2>5. ASSUME GoesOn'
        PROVE  /\ Len(parseStack') = Len(stack')
               /\ \A i \in DOMAIN stack' : doc[parseStack'[i].start] = stack'[i].kind
    <3>1. Len(parseStack) = Len(stack) /\ \A i \in DOMAIN stack : doc[parseStack[i].start] = stack[i].kind
      BY <1>1, <1>f, <2>5 DEF Agree, Finished
    <3>2. ASSUME NEW i \in DOMAIN Front(stack) PROVE Front(parseStack)[i] = parseStack[i]
      BY <1>f, <2>2, <2>3, <3>1
    <3> QED
      BY <1>1, <2>1, <2>2, <2>3, <3>1, <3>2
  <2> QED
    BY <1>1, <2>4, <2>5 DEF Agree
<1> QED
  BY <1>2, <1>3

LEMMA OtherKeeps ==
  ASSUME PInv, NextElement \/ RejectEnd \/ Finish \/ Terminated \/ UNCHANGED vars, UNCHANGED handler
  PROVE  HandlerOK' /\ Agree'
<1>f. /\ TypeOK /\ HandlerOK /\ Agree
      /\ doc \in Seq(Tokens) /\ stack \in Seq(Entry)
  BY PathFacts
<1>1. doc' = doc /\ (GoesOn' => GoesOn)
  BY DEF NextElement, RejectEnd, Finish, Terminated, vars, GoesOn
<1>2. CASE NextElement
  <2>1. phase = "range" /\ phase' \in {"failed", "value"}
    BY <1>2 DEF NextElement
  <2>2. HandlerOK'
    BY <1>1, <1>f, <2>1 DEF HandlerOK, handler, Node
  <2>3. CASE phase' = "failed"
    BY <2>2, <2>3 DEF Agree, Finished
  <2>4. CASE phase' # "failed"
    <3> DEFINE moved == [stack EXCEPT ![Len(stack)].first = SkipValue(doc, Top.first)]
    <3>1. stack' = moved
      BY <1>2, <2>4 DEF NextElement
    <3>2. Len(moved) = Len(stack) /\ DOMAIN moved = DOMAIN stack /\ \A i \in DOMAIN stack : moved[i].kind = stack[i].kind
      <4>1. \A i \in DOMAIN stack : stack[i] \in Entry
        BY <1>f
      <4>2. DOMAIN moved = DOMAIN stack /\ \A i \in DOMAIN stack : moved[i].kind = stack[i].kind
        BY <4>1 DEF Entry
      <4>3. Len(moved) = Len(stack)
        BY <1>f
      <4> QED
        BY <4>2, <4>3
    <3> HIDE DEF moved
    <3> QED
      BY <1>1, <1>f, <2>1, <2>2, <3>1, <3>2 DEF Agree, Finished, handler
  <2> QED
    BY <2>3, <2>4
<1>3. CASE RejectEnd
  BY <1>1, <1>3, <1>f DEF RejectEnd, HandlerOK, Agree, Finished, handler, Node
<1>4. CASE Finish
  BY <1>1, <1>4, <1>f DEF Finish, HandlerOK, Agree, Finished, handler, Node
<1>5. CASE Terminated \/ UNCHANGED vars
  BY <1>1, <1>5, <1>f DEF Terminated, vars, HandlerOK, Agree, Finished, handler, Node
<1> QED
  BY <1>2, <1>3, <1>4, <1>5

LEMMA PInvNext == PInv /\ [PathNext]_pathVars => PInv'
<1> SUFFICES ASSUME PInv, [PathNext]_pathVars PROVE PInv'
  OBVIOUS
<1>1. DepthsCountStack'
  <2>1. Step
    BY PathStep DEF pathVars, Step
  <2> QED
    BY <2>1, CountStep DEF PInv
<1>2. HandlerOK' /\ Agree'
  BY ValueKeeps, StartKeeps, ScalarKeeps, EndKeeps, OtherKeeps DEF PathNext, pathVars
<1> QED
  BY <1>1, <1>2 DEF PInv

(***************************************************************************)
(* The stack of find_json_path's handler holds the containers the parser   *)
(* is in, of the same kinds and in the same order, until the location is   *)
(* reached: for every document, its brackets matching or not, and every    *)
(* location in it (daw_json_find_path.h, the handler's callbacks).         *)
(***************************************************************************)
THEOREM StacksCorrect == PathSpec => []StacksAgree
<1>1. PathSpec => []PInv
  BY PInvInit, PInvNext, PTL DEF PathSpec
<1> QED
  BY <1>1, PInvAgrees, PTL
-----------------------------------------------------------------------------
(* The containers that are open after n tokens of a document.              *)

(* The document starts with a value.                                       *)
Valid(d) == d \in Seq(Tokens) /\ d # <<>> /\ ValueEnd(d, 1) # 0

OpenAt(d, n) == {k \in 1 .. n : d[k] \in Openings /\ MatchOf(d, k) > n}

LEMMA ValidFacts ==
  ASSUME NEW d, Valid(d)
  PROVE  /\ d \in Seq(Tokens) /\ Len(d) \in Nat /\ StartsValue(d, 1) /\ ValueEnd(d, 1) \in 1 .. Len(d)
         /\ \A k \in 1 .. ValueEnd(d, 1) :
              d[k] \in Openings => MatchOf(d, k) \in k + 1 .. ValueEnd(d, 1) /\ d[MatchOf(d, k)] \in Closings
         /\ ValueEnd(d, 1) > 1 => d[1] \in Openings /\ ValueEnd(d, 1) = MatchOf(d, 1)
         /\ AllMatched(d, 1, ValueEnd(d, 1))
<1>1. d \in Seq(Tokens) /\ 1 \in 1 .. Len(d) /\ d[1] \in Tokens
  BY DEF Valid
<1>2. d[1] \notin Closings
  <2>1. d[1] \in Closings => ValueEnd(d, 1) = 0
    BY <1>1, KindFacts, Zenon DEF ValueEnd, StartsValue
  <2> QED
    BY <2>1 DEF Valid
<1>3. StartsValue(d, 1)
  BY <1>1, <1>2 DEF StartsValue
<1>4. CASE d[1] \in Scalars
  <2>1. ValueEnd(d, 1) = 1
    BY <1>3, <1>4, KindFacts, Zenon DEF ValueEnd
  <2>2. \A k \in 1 .. 1 : d[k] \notin Openings
    BY <1>4, KindFacts
  <2> QED
    BY <1>1, <1>3, <2>1, <2>2 DEF AllMatched
<1>5. CASE d[1] \in Openings
  <2>1. ValueEnd(d, 1) = IF AllMatched(d, 1, MatchOf(d, 1)) THEN MatchOf(d, 1) ELSE 0
    BY <1>3, <1>5, KindFacts, Zenon DEF ValueEnd, AllMatched
  <2>2. ValueEnd(d, 1) = MatchOf(d, 1) /\ AllMatched(d, 1, MatchOf(d, 1)) /\ MatchOf(d, 1) # 0
    BY <2>1 DEF Valid
  <2>3. MatchOf(d, 1) \in 2 .. Len(d)
    BY <1>1, <1>5, <2>2, MatchFacts
  <2>4. ASSUME NEW k \in 1 .. MatchOf(d, 1), d[k] \in Openings
        PROVE  MatchOf(d, k) \in k + 1 .. MatchOf(d, 1) /\ d[MatchOf(d, k)] \in Closings
    <3>1. k \in 1 .. Len(d) /\ MatchOf(d, k) # 0
      BY <2>2, <2>3, <2>4 DEF AllMatched
    <3>2. d[MatchOf(d, k)] \in Closings /\ MatchOf(d, k) \in k + 1 .. Len(d)
      BY <1>1, <2>4, <3>1, MatchFacts
    <3>3. CASE k = 1
      BY <2>3, <3>2, <3>3
    <3>4. CASE k # 1
      <4>1. k \in 1 + 1 .. MatchOf(d, 1)
        BY <2>3, <3>4
      <4> QED
        BY <1>1, <1>5, <2>2, <2>4, <3>2, <4>1, MatchInside
    <3> QED
      BY <3>3, <3>4
  <2> QED
    BY <1>1, <1>3, <1>5, <2>2, <2>3, <2>4
<1> QED
  BY <1>1, <1>2, <1>4, <1>5 DEF Tokens

(* A container ends behind what it holds.                                  *)
LEMMA Nested ==
  ASSUME NEW d, Valid(d), NEW i \in 1 .. ValueEnd(d, 1), NEW k \in 1 .. ValueEnd(d, 1), i < k,
         d[i] \in Openings, d[k] \in Openings, MatchOf(d, i) >= k
  PROVE  MatchOf(d, k) < MatchOf(d, i)
<1>1. /\ d \in Seq(Tokens) /\ Len(d) \in Nat /\ ValueEnd(d, 1) \in 1 .. Len(d)
      /\ MatchOf(d, i) \in i + 1 .. ValueEnd(d, 1) /\ MatchOf(d, k) \in k + 1 .. ValueEnd(d, 1)
  BY ValidFacts
<1>2. i \in 1 .. Len(d) /\ k \in i + 1 .. Len(d) /\ k \in i + 1 .. MatchOf(d, i) /\ MatchOf(d, i) # 0
  BY <1>1
<1>3. MatchOf(d, k) \in k + 1 .. MatchOf(d, i)
  BY <1>1, <1>2, MatchInside
<1>4. MatchOf(d, i) # MatchOf(d, k)
  BY <1>1, <1>2, MatchUnique
<1> QED
  BY <1>1, <1>3, <1>4

LEMMA OpenAtNext ==
  ASSUME NEW d, Valid(d), NEW n \in Nat, n + 1 \in 1 .. ValueEnd(d, 1), d[n + 1] \notin Closings
  PROVE  /\ OpenAt(d, n + 1) = OpenAt(d, n) \cup (IF d[n + 1] \in Openings THEN {n + 1} ELSE {})
         /\ Enclosing(d, n + 1) = OpenAt(d, n)
<1>1. /\ ValueEnd(d, 1) \in Nat
      /\ \A k \in 1 .. ValueEnd(d, 1) :
           d[k] \in Openings => MatchOf(d, k) \in k + 1 .. ValueEnd(d, 1) /\ d[MatchOf(d, k)] \in Closings
  BY ValidFacts
<1>2. ASSUME NEW k \in 1 .. n, d[k] \in Openings PROVE MatchOf(d, k) > n + 1 <=> MatchOf(d, k) > n
  <2>1. MatchOf(d, k) \in Nat /\ MatchOf(d, k) # n + 1
    BY <1>1, <1>2
  <2> QED
    BY <2>1
<1>3. d[n + 1] \in Openings => MatchOf(d, n + 1) > n + 1
  BY <1>1
<1>4. Enclosing(d, n + 1) = OpenAt(d, n)
  BY <1>2 DEF Enclosing, OpenAt
<1>5. \A k \in 1 .. n + 1 : k \in 1 .. n \/ k = n + 1
  OBVIOUS
<1>6. ASSUME NEW k PROVE k \in OpenAt(d, n + 1) <=> k \in OpenAt(d, n) \/ (d[n + 1] \in Openings /\ k = n + 1)
  BY <1>2, <1>3, <1>5 DEF OpenAt
<1> QED
  BY <1>4, <1>6

(* A closing bracket ends the innermost of them.                           *)
LEMMA OpenAtEnd ==
  ASSUME NEW d, Valid(d), NEW n \in Nat, n + 1 \in 1 .. ValueEnd(d, 1), d[n + 1] \in Closings,
         NEW k \in OpenAt(d, n), \A j \in OpenAt(d, n) : j <= k
  PROVE  MatchOf(d, k) = n + 1 /\ OpenAt(d, n + 1) = OpenAt(d, n) \ {k}
<1>1. /\ d \in Seq(Tokens) /\ Len(d) \in Nat /\ ValueEnd(d, 1) \in 1 .. Len(d) /\ d[1] \notin Closings
      /\ \A i \in 1 .. ValueEnd(d, 1) :
           d[i] \in Openings => MatchOf(d, i) \in i + 1 .. ValueEnd(d, 1) /\ d[MatchOf(d, i)] \in Closings
      /\ ValueEnd(d, 1) > 1 => d[1] \in Openings /\ ValueEnd(d, 1) = MatchOf(d, 1)
  BY ValidFacts DEF StartsValue
<1>2. n >= 1 /\ ValueEnd(d, 1) > 1 /\ 1 \in 1 .. Len(d) /\ n \in 1 .. Len(d) - 1
  BY <1>1
<1>3. Nest(d, 1, n) >= 1
  <2>1. MatchOf(d, 1) # 0 /\ n \in 1 .. MatchOf(d, 1) - 1
    BY <1>1, <1>2
  <2> QED
    BY <1>1, <1>2, <2>1, MatchFacts
<1>4. PICK p \in 1 .. n : d[p] \in Openings /\ MatchOf(d, p) = n + 1
  BY <1>1, <1>2, <1>3, MatchExists
<1>5. p \in OpenAt(d, n)
  BY <1>4 DEF OpenAt
<1>6. k \in 1 .. n /\ d[k] \in Openings /\ MatchOf(d, k) > n /\ p <= k
  BY <1>5 DEF OpenAt
<1>7. k = p
  <2> SUFFICES ASSUME k # p PROVE FALSE
    OBVIOUS
  <2>1. p < k /\ p \in 1 .. ValueEnd(d, 1) /\ k \in 1 .. ValueEnd(d, 1) /\ MatchOf(d, p) >= k
    BY <1>1, <1>4, <1>6
  <2>2. MatchOf(d, k) < MatchOf(d, p)
    BY <1>4, <1>6, <2>1, Nested
  <2>3. MatchOf(d, k) \in Nat
    BY <1>1, <1>6, <2>1
  <2> QED
    BY <1>4, <1>6, <2>2, <2>3
<1>8. ASSUME NEW j \in OpenAt(d, n), j # k PROVE j \in OpenAt(d, n + 1)
  <2>1. j \in 1 .. n /\ j <= k /\ d[j] \in Openings /\ MatchOf(d, j) > n
    BY <1>8 DEF OpenAt
  <2>2. j \in 1 .. ValueEnd(d, 1) /\ k \in 1 .. ValueEnd(d, 1) /\ j < k
    BY <1>1, <1>6, <1>8, <2>1
  <2>3. MatchOf(d, j) \in Nat
    BY <1>1, <2>1, <2>2
  <2>4. MatchOf(d, k) < MatchOf(d, j)
    BY <1>6, <2>1, <2>2, <2>3, Nested
  <2>5. MatchOf(d, j) > n + 1
    BY <1>4, <1>7, <2>3, <2>4
  <2> QED
    BY <2>1, <2>5 DEF OpenAt
<1>9. ASSUME NEW j \in OpenAt(d, n + 1) PROVE j \in OpenAt(d, n) /\ j # k
  <2>1. j \in 1 .. n + 1 /\ d[j] \in Openings /\ MatchOf(d, j) > n + 1
    BY DEF OpenAt
  <2>2. j # n + 1
    BY <2>1, KindFacts
  <2>3. MatchOf(d, j) \in Nat /\ j \in 1 .. n
    BY <1>1, <2>1, <2>2
  <2>4. j # k /\ MatchOf(d, j) > n
    BY <1>4, <1>7, <2>1, <2>3
  <2> QED
    BY <2>1, <2>3, <2>4 DEF OpenAt
<1>10. OpenAt(d, n + 1) = OpenAt(d, n) \ {k}
  BY <1>8, <1>9
<1> QED
  BY <1>4, <1>7, <1>10

(* The innermost container lies in the others.                             *)
LEMMA EnclosingTop ==
  ASSUME NEW d, Valid(d), NEW n \in 0 .. ValueEnd(d, 1), NEW k \in OpenAt(d, n), \A j \in OpenAt(d, n) : j <= k
  PROVE  Enclosing(d, k) = OpenAt(d, n) \ {k}
<1>1. /\ ValueEnd(d, 1) \in Nat
      /\ \A i \in 1 .. ValueEnd(d, 1) : d[i] \in Openings => MatchOf(d, i) \in i + 1 .. ValueEnd(d, 1)
  BY ValidFacts
<1>2. k \in 1 .. n /\ d[k] \in Openings /\ MatchOf(d, k) > n /\ k \in 1 .. ValueEnd(d, 1) /\ MatchOf(d, k) \in Nat
  BY <1>1 DEF OpenAt
<1>3. ASSUME NEW j \in Enclosing(d, k) PROVE j \in OpenAt(d, n) /\ j # k
  <2>1. j \in 1 .. k - 1 /\ d[j] \in Openings /\ MatchOf(d, j) > k
    BY DEF Enclosing
  <2>2. j \in 1 .. ValueEnd(d, 1) /\ j < k /\ j \in 1 .. n
    BY <1>1, <1>2, <2>1
  <2>3. MatchOf(d, j) \in Nat
    BY <1>1, <2>1, <2>2
  <2>4. MatchOf(d, k) < MatchOf(d, j)
    BY <1>2, <2>1, <2>2, <2>3, Nested
  <2> QED
    BY <1>2, <2>1, <2>2, <2>3, <2>4 DEF OpenAt
<1>4. ASSUME NEW j \in OpenAt(d, n), j # k PROVE j \in Enclosing(d, k)
  <2>1. j \in 1 .. n /\ j <= k /\ d[j] \in Openings /\ MatchOf(d, j) > n
    BY DEF OpenAt
  <2>2. MatchOf(d, j) \in Nat
    BY <1>1, <2>1
  <2>3. (j \in 1 .. k - 1 /\ MatchOf(d, j) > k) \/ MatchOf(d, j) = k
    BY <1>2, <1>4, <2>1, <2>2
  <2>4. MatchOf(d, j) # k
    BY <1>2, <2>1, <2>2
  <2> QED
    BY <1>2, <1>4, <2>1, <2>2, <2>3, <2>4 DEF Enclosing
<1> QED
  BY <1>3, <1>4

-----------------------------------------------------------------------------
(* The values begun in the container that is open, and the paths to them.  *)

(* The values begun among the first n tokens as elements or members of the *)
(* container that is open behind them.                                     *)
Begun(d, n) == {s \in 1 .. n : StartsValue(d, s) /\ Enclosing(d, s) = OpenAt(d, n)}

(* Siblings, the parent and TrueNode, of any document.                     *)
Before(d, t) == {s \in 1 .. t - 1 : StartsValue(d, s) /\ Enclosing(d, s) = Enclosing(d, t)}

Parent(d, t) == IF Enclosing(d, t) = {} THEN "none" ELSE d[Max(Enclosing(d, t))]

NodeIn(d, t) ==
  [start |-> t,
   index |-> IF Parent(d, t) = "[" THEN Cardinality(Before(d, t)) ELSE -1,
   name  |-> IF Parent(d, t) = "{" THEN t ELSE 0]

(* The values on p begin at the places in S, from left to right.           *)
Climbs(p, S) ==
  /\ {p[i].start : i \in DOMAIN p} = S
  /\ \A i, j \in DOMAIN p : i < j => p[i].start < p[j].start

AreNodes(d, p) == \A i \in DOMAIN p : p[i] = NodeIn(d, p[i].start)

LEMMA TrueNodeIs == \A t : TrueNode(t) = NodeIn(doc, t)
BY DEF TrueNode, NodeIn, Siblings, Before, Parent

(* IsPathTo, of any document.                                              *)
PathIn(d, p, t) == Climbs(p, Enclosing(d, t) \cup {t}) /\ AreNodes(d, p)

LEMMA IsPathToIs ==
  ASSUME NEW p, NEW t
  PROVE  IsPathTo(p, t) <=> PathIn(doc, p, t)
BY TrueNodeIs DEF IsPathTo, PathIn, Climbs, AreNodes

LEMMA ClimbsPushed ==
  ASSUME NEW T, NEW p \in Seq(T), NEW x \in T, NEW S, Climbs(p, S), \A j \in S : j < x.start
  PROVE  Climbs(Append(p, x), S \cup {x.start})
<1> DEFINE q == Append(p, x)
<1>1. /\ Len(p) \in Nat /\ DOMAIN p = 1 .. Len(p) /\ DOMAIN q = 1 .. Len(p) + 1
      /\ q[Len(p) + 1] = x /\ \A i \in 1 .. Len(p) : q[i] = p[i]
  OBVIOUS
<1>2. \A i \in 1 .. Len(p) + 1 : i \in 1 .. Len(p) \/ i = Len(p) + 1
  BY <1>1
<1>3. \A i \in 1 .. Len(p) : p[i].start \in S
  BY <1>1 DEF Climbs
<1> HIDE DEF q
<1>4. {q[i].start : i \in DOMAIN q} = S \cup {x.start}
  <2>1. ASSUME NEW i \in DOMAIN q PROVE q[i].start \in S \cup {x.start}
    BY <1>1, <1>2, <1>3
  <2>2. ASSUME NEW s \in S \cup {x.start} PROVE \E i \in DOMAIN q : q[i].start = s
    <3>1. CASE s = x.start
      <4>1. Len(p) + 1 \in DOMAIN q
        BY <1>1
      <4> QED
        BY <1>1, <3>1, <4>1
    <3>2. CASE s \in S
      <4>1. PICK i \in 1 .. Len(p) : p[i].start = s
        BY <1>1, <3>2 DEF Climbs
      <4>2. i \in DOMAIN q /\ q[i].start = s
        BY <1>1, <4>1
      <4> QED
        BY <4>2
    <3> QED
      BY <3>1, <3>2
  <2> QED
    BY <2>1, <2>2
<1>5. ASSUME NEW i \in DOMAIN q, NEW j \in DOMAIN q, i < j PROVE q[i].start < q[j].start
  <2>1. i \in 1 .. Len(p)
    BY <1>1, <1>5
  <2>2. CASE j \in 1 .. Len(p)
    BY <1>1, <1>5, <2>1, <2>2 DEF Climbs
  <2>3. CASE j = Len(p) + 1
    BY <1>1, <1>3, <2>1, <2>3
  <2> QED
    BY <1>1, <1>2, <2>2, <2>3
<1> QED
  BY <1>4, <1>5 DEF Climbs, q

LEMMA ClimbsLast ==
  ASSUME NEW T, NEW p \in Seq(T), NEW S \in SUBSET Int, Climbs(p, S)
  PROVE  /\ p = <<>> <=> S = {}
         /\ p # <<>> => Last(p).start \in S /\ \A j \in S : j <= Last(p).start
<1>1. Len(p) \in Nat /\ DOMAIN p = 1 .. Len(p) /\ (p = <<>> <=> Len(p) = 0)
  OBVIOUS
<1>2. \A i \in 1 .. Len(p) : p[i].start \in S
  BY <1>1 DEF Climbs
<1>3. ASSUME NEW s \in S PROVE \E i \in 1 .. Len(p) : p[i].start = s
  BY <1>1 DEF Climbs
<1>4. p = <<>> <=> S = {}
  <2>1. p # <<>> => 1 \in 1 .. Len(p)
    BY <1>1
  <2>2. ASSUME p = <<>>, NEW i \in 1 .. Len(p) PROVE FALSE
    <3>1. Len(p) = 0
      BY <2>2
    <3> QED
      BY <2>2, <3>1
  <2> QED
    BY <1>2, <1>3, <2>1, <2>2
<1>5. ASSUME p # <<>> PROVE Last(p).start \in S /\ \A j \in S : j <= Last(p).start
  <2>1. Len(p) \in 1 .. Len(p) /\ Last(p) = p[Len(p)]
    BY <1>1, <1>5 DEF Last
  <2>2. ASSUME NEW s \in S PROVE s <= p[Len(p)].start
    <3>1. PICK i \in 1 .. Len(p) : p[i].start = s
      BY <1>3
    <3>2. i = Len(p) \/ i < Len(p)
      <4> DEFINE n == Len(p)
      <4>1. n \in Nat /\ i \in 1 .. n
        BY <1>1
      <4> HIDE DEF n
      <4>2. i = n \/ i < n
        BY <4>1
      <4> QED
        BY <4>2 DEF n
    <3>3. p[Len(p)].start \in Int /\ s \in Int
      BY <1>2, <2>1
    <3>4. i < Len(p) => p[i].start < p[Len(p)].start
      BY <1>1, <2>1 DEF Climbs
    <3> QED
      BY <3>1, <3>2, <3>3, <3>4
  <2> QED
    BY <1>2, <2>1, <2>2
<1> QED
  BY <1>4, <1>5

LEMMA ClimbsPopped ==
  ASSUME NEW T, NEW p \in Seq(T), p # <<>>, NEW S \in SUBSET Int, Climbs(p, S)
  PROVE  Climbs(Front(p), S \ {Last(p).start})
<1> DEFINE q == Front(p)
           n == Len(p) - 1
<1>1. /\ DOMAIN q = 1 .. n /\ n \in Nat /\ n + 1 \in DOMAIN p /\ Last(p) = p[n + 1]
      /\ \A i \in 1 .. n : i \in DOMAIN p /\ q[i] = p[i]
      /\ DOMAIN p = 1 .. n + 1
  BY FrontFacts
<1>2. \A i \in DOMAIN p : p[i].start \in S /\ p[i].start \in Int
  BY DEF Climbs
<1> HIDE DEF q, n
<1>3. \A i \in 1 .. n : p[i].start < p[n + 1].start
  BY <1>1 DEF Climbs
<1>4. {q[i].start : i \in DOMAIN q} = S \ {Last(p).start}
  <2>1. ASSUME NEW i \in DOMAIN q PROVE q[i].start \in S \ {Last(p).start}
    BY <1>1, <1>2, <1>3
  <2>2. ASSUME NEW s \in S \ {Last(p).start} PROVE \E i \in DOMAIN q : q[i].start = s
    <3>1. PICK i \in DOMAIN p : p[i].start = s
      BY DEF Climbs
    <3>2. i \in 1 .. n
      BY <1>1, <3>1
    <3> QED
      BY <1>1, <3>1, <3>2
  <2> DEFINE A == {q[i].start : i \in DOMAIN q}
             B == S \ {Last(p).start}
  <2>3. \A a \in A : a \in B
    BY <2>1, Zenon
  <2>4. \A b \in B : b \in A
    BY <2>2, Zenon
  <2> HIDE DEF A, B
  <2>5. A = B
    BY <2>3, <2>4
  <2> QED
    BY <2>5 DEF A, B
<1>5. \A i, j \in DOMAIN q : i < j => q[i].start < q[j].start
  BY <1>1 DEF Climbs
<1> QED
  BY <1>4, <1>5 DEF Climbs, q

(* The container a value is a child of is the last one on the path to it.  *)
LEMMA ParentIs ==
  ASSUME NEW T, NEW p \in Seq(T), NEW d, NEW t, Climbs(p, Enclosing(d, t))
  PROVE  Parent(d, t) = IF p = <<>> THEN "none" ELSE d[Last(p).start]
<1> DEFINE S == Enclosing(d, t)
<1>1. S \in SUBSET Int
  BY DEF Enclosing
<1> HIDE DEF S
<1>2. /\ p = <<>> <=> S = {}
      /\ p # <<>> => Last(p).start \in S /\ \A j \in S : j <= Last(p).start
  BY <1>1, ClimbsLast DEF S
<1>3. ASSUME p # <<>> PROVE Max(S) = Last(p).start
  <2>1. Last(p).start \in S /\ \A j \in S : Last(p).start >= j /\ j \in Int
    BY <1>1, <1>2, <1>3
  <2> DEFINE last == Last(p).start
  <2> HIDE DEF last
  <2>2. last \in S /\ \A j \in S : last >= j /\ j \in Int
    BY <2>1 DEF last
  <2>3. ASSUME NEW x \in S, \A j \in S : x >= j PROVE x = last
    <3>1. x >= last /\ last >= x /\ x \in Int /\ last \in Int
      BY <2>2, <2>3
    <3> QED
      BY <3>1
  <2> QED
    BY <2>2, <2>3 DEF Max, last
<1> QED
  BY <1>2, <1>3 DEF Parent, S

(* What has begun when a container does, behind a scalar, and when a       *)
(* container ends.                                                         *)
LEMMA BegunNext ==
  ASSUME NEW d, Valid(d), NEW n \in Nat, n + 1 \in 1 .. ValueEnd(d, 1), d[n + 1] \notin Closings
  PROVE  /\ Before(d, n + 1) = Begun(d, n)
         /\ Cardinality(Begun(d, n)) \in Nat
         /\ Cardinality(Begun(d, n + 1)) = IF d[n + 1] \in Openings THEN 0 ELSE Cardinality(Begun(d, n)) + 1
<1>1. /\ OpenAt(d, n + 1) = OpenAt(d, n) \cup (IF d[n + 1] \in Openings THEN {n + 1} ELSE {})
      /\ Enclosing(d, n + 1) = OpenAt(d, n)
  BY OpenAtNext
<1>2. Before(d, n + 1) = Begun(d, n)
  BY <1>1 DEF Before, Begun
<1>3. IsFiniteSet(Begun(d, n)) /\ Cardinality(Begun(d, n)) \in Nat
  <2>1. IsFiniteSet(1 .. n) /\ Begun(d, n) \in SUBSET (1 .. n)
    BY FS_Interval DEF Begun
  <2>2. IsFiniteSet(Begun(d, n))
    BY <2>1, FS_Subset
  <2> QED
    BY <2>2, FS_CardinalityType
<1>4. CASE d[n + 1] \in Openings
  <2>1. n + 1 \in OpenAt(d, n + 1)
    BY <1>1, <1>4
  <2>2. \A s \in 1 .. n + 1 : n + 1 \notin Enclosing(d, s)
    BY DEF Enclosing
  <2>3. Begun(d, n + 1) = {}
    BY <2>1, <2>2 DEF Begun
  <2> QED
    BY <1>2, <1>3, <1>4, <2>3, FS_EmptySet
<1>5. CASE d[n + 1] \notin Openings
  <2>1. OpenAt(d, n + 1) = OpenAt(d, n)
    BY <1>1, <1>5
  <2>2. StartsValue(d, n + 1)
    <3>1. ValueEnd(d, 1) \in 1 .. Len(d) /\ Len(d) \in Nat
      BY ValidFacts
    <3> QED
      BY <3>1 DEF StartsValue
  <2>3. Begun(d, n + 1) = Begun(d, n) \cup {n + 1} /\ n + 1 \notin Begun(d, n)
    <3>1. \A k \in 1 .. n + 1 : k \in 1 .. n \/ k = n + 1
      OBVIOUS
    <3>2. n + 1 \in 1 .. n + 1 /\ n + 1 \notin 1 .. n /\ \A k \in 1 .. n : k \in 1 .. n + 1
      OBVIOUS
    <3> QED
      BY <1>1, <2>1, <2>2, <3>1, <3>2 DEF Begun
  <2> QED
    BY <1>2, <1>3, <1>5, <2>3, FS_AddElement
<1> QED
  BY <1>2, <1>3, <1>4, <1>5

LEMMA BegunEnd ==
  ASSUME NEW d, Valid(d), NEW n \in Nat, n + 1 \in 1 .. ValueEnd(d, 1), d[n + 1] \in Closings,
         NEW k \in OpenAt(d, n), \A j \in OpenAt(d, n) : j <= k
  PROVE  /\ Enclosing(d, k) = OpenAt(d, n + 1)
         /\ Cardinality(Begun(d, n + 1)) = Cardinality(Before(d, k)) + 1
<1>1. MatchOf(d, k) = n + 1 /\ OpenAt(d, n + 1) = OpenAt(d, n) \ {k}
  BY OpenAtEnd
<1>2. ValueEnd(d, 1) \in 1 .. Len(d) /\ Len(d) \in Nat
  BY ValidFacts
<1>3. n \in 0 .. ValueEnd(d, 1)
  BY <1>2
<1>4. Enclosing(d, k) = OpenAt(d, n + 1)
  BY <1>1, <1>3, EnclosingTop
<1>5. k \in 1 .. n /\ d[k] \in Openings
  BY DEF OpenAt
<1>6. StartsValue(d, k)
  BY <1>2, <1>5, KindFacts DEF StartsValue
<1>7. ASSUME NEW s \in Begun(d, n + 1) PROVE s \in Before(d, k) \/ s = k
  <2>1. s \in 1 .. n + 1 /\ StartsValue(d, s) /\ Enclosing(d, s) = Enclosing(d, k)
    BY <1>4 DEF Begun
  <2>2. s # n + 1
    BY <2>1 DEF StartsValue
  <2>3. k \notin Enclosing(d, s)
    BY <1>1, <1>4, <2>1
  <2>4. ~ (s > k)
    BY <1>1, <1>5, <2>1, <2>2, <2>3 DEF Enclosing
  <2> QED
    BY <1>5, <2>1, <2>4 DEF Before
<1>8. ASSUME NEW s \in Before(d, k) PROVE s \in Begun(d, n + 1) /\ s # k
  BY <1>4, <1>5 DEF Begun, Before
<1>9. Begun(d, n + 1) = Before(d, k) \cup {k} /\ k \notin Before(d, k)
  <2>1. k \in Begun(d, n + 1)
    BY <1>4, <1>5, <1>6 DEF Begun
  <2> QED
    BY <1>7, <1>8, <2>1
<1>10. IsFiniteSet(Before(d, k))
  <2>1. 1 \in Int /\ k - 1 \in Int
    BY <1>5
  <2>2. IsFiniteSet(1 .. k - 1)
    BY <2>1, FS_Interval
  <2>3. Before(d, k) \in SUBSET (1 .. k - 1)
    BY DEF Before
  <2> QED
    BY <2>2, <2>3, FS_Subset
<1> QED
  BY <1>4, <1>9, <1>10, FS_AddElement
-----------------------------------------------------------------------------
(* The path that is returned.                                              *)

(* What the handler holds names values that begin no later than the location. *)
NotBeyond ==
  /\ loc.token \in DOMAIN doc
  /\ lastPopped \in Seq(Node)
  /\ \A i \in DOMAIN parseStack : parseStack[i].start <= loc.token
  /\ \A i \in DOMAIN lastPopped : lastPopped[i].start <= loc.token
  /\ state.start <= loc.token
  /\ answers \subseteq {"Continue", "Complete"}

LEMMA BeyondInit == PathInit => NotBeyond
<1> SUFFICES ASSUME PathInit PROVE NotBeyond
  OBVIOUS
<1>1. doc \in Seq(Tokens) /\ loc.token \in DOMAIN doc
  BY EventAssumption DEF PathInit, Init
<1>2. loc.token \in Nat
  BY <1>1
<1> QED
  BY <1>1, <1>2 DEF PathInit, Init, NotBeyond, NoNode

LEMMA BeyondStep == PInv /\ NotBeyond /\ [PathNext]_pathVars => NotBeyond'
<1> SUFFICES ASSUME PInv, NotBeyond, [PathNext]_pathVars PROVE NotBeyond'
  OBVIOUS
<1>f. /\ HandlerOK /\ doc \in Seq(Tokens) /\ parseStack \in Seq(Node) /\ state \in Node
      /\ loc.token \in Nat /\ value \in Nat
  BY PathFacts DEF HandlerOK, NotBeyond
<1>1. doc' = doc /\ loc' = loc
  BY DEF PathNext, OnValue, OnStart, OnScalar, OnEnd, HandleValue, HandleStart, HandleScalar, HandleEnd,
         NextElement, RejectEnd, Finish, Terminated, vars, handler, pathVars
<1>2. answers' \subseteq {"Continue", "Complete"}
  BY DEF NotBeyond, PathNext, OnValue, OnStart, OnScalar, OnEnd, HandleValue, HandleStart, HandleScalar, HandleEnd, React,
         NextElement, RejectEnd, Finish, Terminated, vars, pathVars
<1>u. CASE UNCHANGED handler
  BY <1>1, <1>2, <1>u DEF NotBeyond, handler, Node
<1>3. CASE OnValue
  <2>1. CASE /\ value <= Len(doc) /\ loc.token >= value
             /\ state' = NodeOf(value) /\ lastPopped' = <<>> /\ parseStack' = parseStack
    <3>1. state'.start = value
      BY <2>1 DEF NodeOf
    <3>2. state'.start <= loc.token
      BY <1>f, <2>1, <3>1
    <3> QED
      BY <1>1, <1>2, <2>1, <3>2 DEF NotBeyond
  <2> QED
    BY <1>u, <1>3, <2>1 DEF OnValue
<1>4. CASE OnStart
  <2>1. parseStack' = Append(parseStack, state) /\ lastPopped' = lastPopped /\ state'.start = 0
    BY <1>4 DEF OnStart, NoNode
  <2>2. \A i \in DOMAIN parseStack' : parseStack'[i].start <= loc.token
    BY <1>f, <2>1 DEF NotBeyond
  <2> QED
    BY <1>f, <1>1, <1>2, <2>1, <2>2 DEF NotBeyond, Node
<1>5. CASE OnScalar
  <2>1. CASE parseStack' = Append(parseStack, state) /\ lastPopped' = lastPopped /\ state' = state
    <3>1. \A i \in DOMAIN parseStack' : parseStack'[i].start <= loc.token
      BY <1>f, <2>1 DEF NotBeyond
    <3> QED
      BY <1>1, <1>2, <2>1, <3>1 DEF NotBeyond, Node
  <2> QED
    BY <1>u, <1>5, <2>1 DEF OnScalar
<1>6. CASE OnEnd
  <2>1. CASE parseStack = <<>>
    BY <1>u, <1>1, <1>6, <2>1 DEF OnEnd, handler
  <2>2. CASE parseStack # <<>>
    <3>1. parseStack' = Front(parseStack) /\ lastPopped' = <<Last(parseStack)>> /\ state' = Last(parseStack)
      BY <1>6, <2>2 DEF OnEnd
    <3>2. /\ Last(parseStack) \in Node /\ Len(parseStack) \in DOMAIN parseStack /\ Last(parseStack) = parseStack[Len(parseStack)]
          /\ \A i \in DOMAIN Front(parseStack) : i \in DOMAIN parseStack /\ Front(parseStack)[i] = parseStack[i]
      BY <1>f, <2>2, FrontFacts DEF Last
    <3>3. Last(parseStack).start <= loc.token
      BY <3>2 DEF NotBeyond
    <3>4. \A i \in DOMAIN parseStack' : parseStack'[i].start <= loc.token
      BY <3>1, <3>2 DEF NotBeyond
    <3>5. lastPopped' \in Seq(Node) /\ \A i \in DOMAIN lastPopped' : lastPopped'[i].start <= loc.token
      BY <3>1, <3>2, <3>3
    <3>6. lastPopped' \in Seq(Node')
      BY <1>1, <3>5 DEF Node
    <3> QED
      BY <1>1, <1>2, <3>1, <3>3, <3>4, <3>5, <3>6 DEF NotBeyond
  <2> QED
    BY <2>1, <2>2
<1> QED
  BY <1>u, <1>3, <1>4, <1>5, <1>6 DEF PathNext, pathVars, handler

(* While the parse goes on the handler holds the path to the container that*)
(* is open, has counted what has begun in it, and remembers its child that *)
(* was left last.                                                          *)
Parsing == GoesOn /\ phase \in {"value", "typed", "range"}

OnTrack ==
  /\ Climbs(parseStack, OpenAt(doc, Told))
  /\ AreNodes(doc, parseStack)
  /\ phase = "typed" => lastPopped = <<>> /\ state = NodeIn(doc, value)
  /\ phase # "typed" /\ ChildOf = "[" => state.index + 1 = Cardinality(Begun(doc, Told))
  /\ \A i \in DOMAIN lastPopped :
       lastPopped[i] = NodeIn(doc, lastPopped[i].start) /\ Enclosing(doc, lastPopped[i].start) = OpenAt(doc, Told)

PathOK ==
  ValueEnd(doc, 1) # 0 =>
    IF Parsing THEN OnTrack ELSE Result # <<>> => PathIn(doc, Result, Last(Result).start)

LEMMA Whereabouts ==
  ASSUME PInv, InOrder, NotBeyond, Parsing, ValueEnd(doc, 1) # 0
  PROVE  /\ Valid(doc) /\ Told \in Nat /\ ValueEnd(doc, 1) \in 1 .. Len(doc) /\ Told \in 0 .. ValueEnd(doc, 1)
         /\ phase # "range" => /\ value = Told + 1 /\ Told + 1 \in 1 .. ValueEnd(doc, 1)
                               /\ doc[Told + 1] \notin Closings
         /\ phase = "range" /\ stack # <<>> => Told + 1 \in 1 .. ValueEnd(doc, 1) /\ Top.first = Told + 1
         /\ phase = "range" /\ stack = <<>> => Told = ValueEnd(doc, 1)
<1>1. /\ TypeOK /\ doc \in Seq(Tokens) /\ Len(doc) \in Nat /\ events \in Seq(0 .. Len(doc) + 1) /\ Cursor
      /\ GoesOn /\ phase \in {"value", "typed", "range"}
  BY PathFacts DEF TypeOK, InOrder, Parsing
<1>2. Valid(doc)
  <2>1. doc # <<>>
    BY DEF NotBeyond
  <2> QED
    BY <1>1, <2>1 DEF Valid
<1>3. StartsValue(doc, 1) /\ ValueEnd(doc, 1) \in 1 .. Len(doc)
  BY <1>2, ValidFacts
<1>4. Told \in Nat
  BY <1>1 DEF Told
<1>5. CASE stack # <<>>
  <2>1. ValueEnd(doc, 1) = MatchOf(doc, 1) /\ Told + 1 \in 2 .. MatchOf(doc, 1) /\ (phase = "range" => Top.first = Told + 1)
    BY <1>1, <1>5, InsideValue
  <2>2. Told + 1 \in 1 .. ValueEnd(doc, 1) /\ Told \in 0 .. ValueEnd(doc, 1)
    BY <1>3, <1>4, <2>1
  <2>3. phase # "range" => value = Told + 1 /\ doc[Told + 1] \notin Closings
    BY <1>1, <1>5 DEF Cursor, StartsValue
  <2> QED
    BY <1>2, <1>3, <1>4, <1>5, <2>1, <2>2, <2>3
<1>6. CASE stack = <<>>
  <2>1. phase # "range" => value = Told + 1 /\ Told = 0
    BY <1>1, <1>6 DEF Cursor
  <2>2. phase = "range" => Told = ValueEnd(doc, 1)
    BY <1>1, <1>3, <1>6 DEF Cursor
  <2>3. doc[1] \notin Closings /\ 0 + 1 = 1
    BY <1>3 DEF StartsValue
  <2>4. 1 \in 1 .. ValueEnd(doc, 1) /\ 0 \in 0 .. ValueEnd(doc, 1) /\ ValueEnd(doc, 1) \in 0 .. ValueEnd(doc, 1)
    BY <1>3
  <2> QED
    BY <1>1, <1>2, <1>3, <1>4, <1>6, <2>1, <2>2, <2>3, <2>4
<1> QED
  BY <1>5, <1>6

(* The path to the container that is open, and to a child of it.           *)
LEMMA PathToTop ==
  ASSUME NEW d, Valid(d), NEW n \in 0 .. ValueEnd(d, 1), NEW T, NEW p \in Seq(T), p # <<>>, Climbs(p, OpenAt(d, n))
  PROVE  /\ Last(p).start \in OpenAt(d, n) /\ \A j \in OpenAt(d, n) : j <= Last(p).start
         /\ Climbs(p, Enclosing(d, Last(p).start) \cup {Last(p).start})
<1>1. OpenAt(d, n) \in SUBSET Int
  BY DEF OpenAt
<1>2. Last(p).start \in OpenAt(d, n) /\ \A j \in OpenAt(d, n) : j <= Last(p).start
  BY <1>1, ClimbsLast
<1>3. Enclosing(d, Last(p).start) = OpenAt(d, n) \ {Last(p).start}
  BY <1>2, EnclosingTop
<1>4. Enclosing(d, Last(p).start) \cup {Last(p).start} = OpenAt(d, n)
  BY <1>2, <1>3
<1> QED
  BY <1>2, <1>4

LEMMA PathToChild ==
  ASSUME NEW d, NEW T, NEW p \in Seq(T), NEW x \in T, x.start \in Int, x = NodeIn(d, x.start),
         Climbs(p, Enclosing(d, x.start)), AreNodes(d, p)
  PROVE  /\ Climbs(Append(p, x), Enclosing(d, x.start) \cup {x.start})
         /\ AreNodes(d, Append(p, x))
         /\ Append(p, x) # <<>> /\ Last(Append(p, x)) = x
<1>1. \A j \in Enclosing(d, x.start) : j < x.start
  BY DEF Enclosing
<1>2. Climbs(Append(p, x), Enclosing(d, x.start) \cup {x.start})
  BY <1>1, ClimbsPushed
<1>3. AreNodes(d, Append(p, x))
  BY DEF AreNodes
<1>4. Append(p, x) # <<>> /\ Last(Append(p, x)) = x
  BY DEF Last
<1> QED
  BY <1>2, <1>3, <1>4
LEMMA OneElement ==
  ASSUME NEW T, NEW s \in Seq(T), Len(s) = 1
  PROVE  1 \in DOMAIN s /\ s[1] \in T /\ s = <<s[1]>>
OBVIOUS

(* Where the parse ends while the handler is on track, it returns a path.  *)
LEMMA ReturnsPath ==
  ASSUME PInv, InOrder, NotBeyond, Parsing, ValueEnd(doc, 1) # 0, OnTrack, Result # <<>>
  PROVE  PathIn(doc, Result, Last(Result).start)
<1>1. Valid(doc) /\ Told \in 0 .. ValueEnd(doc, 1)
  BY Whereabouts
<1>2. parseStack \in Seq(Node) /\ lastPopped \in Seq(Node) /\ Len(lastPopped) <= 1 /\ Len(lastPopped) \in Nat
  BY DEF PInv, HandlerOK, NotBeyond
<1>3. CASE lastPopped = <<>>
  <2>1. Result = parseStack
    BY <1>2, <1>3, ConcatEmptySeq DEF Result
  <2>2. Climbs(parseStack, Enclosing(doc, Last(parseStack).start) \cup {Last(parseStack).start})
    BY <1>1, <1>2, <2>1, PathToTop DEF OnTrack
  <2> QED
    BY <2>1, <2>2 DEF OnTrack, PathIn
<1>4. CASE lastPopped # <<>>
  <2> DEFINE x == lastPopped[1]
  <2>1. 1 \in DOMAIN lastPopped /\ x \in Node /\ lastPopped = <<x>>
    <3>1. Len(lastPopped) # 0 /\ Len(lastPopped) \in Nat /\ Len(lastPopped) <= 1
      BY <1>2, <1>4, EmptySeq
    <3>2. Len(lastPopped) = 1
      <4> DEFINE n == Len(lastPopped)
      <4>1. n # 0 /\ n \in Nat /\ n <= 1
        BY <3>1
      <4> HIDE DEF n
      <4>2. n = 1
        BY <4>1
      <4> QED
        BY <4>2 DEF n
    <3> QED
      BY <1>2, <3>2, OneElement
  <2>2. x.start \in Int
    <3>1. x.start \in 0 .. Len(doc)
      BY <2>1 DEF Node
    <3> QED
      BY <3>1
  <2>3. x = NodeIn(doc, x.start) /\ Climbs(parseStack, Enclosing(doc, x.start)) /\ AreNodes(doc, parseStack)
    BY <2>1 DEF OnTrack
  <2>4. Result = Append(parseStack, x)
    <3> HIDE DEF x
    <3> QED
      BY <1>2, <2>1, AppendIsConcat DEF Result
  <2> HIDE DEF x
  <2>5. /\ Climbs(Result, Enclosing(doc, x.start) \cup {x.start})
        /\ AreNodes(doc, Result) /\ Last(Result) = x
    BY <1>2, <2>1, <2>2, <2>3, <2>4, PathToChild
  <2> QED
    BY <2>5 DEF PathIn
<1> QED
  BY <1>3, <1>4

(* The node made for a value is the one on the path to it.                 *)
LEMMA NodeIsTrue ==
  ASSUME PInv, InOrder, NotBeyond, Parsing, ValueEnd(doc, 1) # 0, OnTrack, phase = "value"
  PROVE  NodeOf(value) = NodeIn(doc, value)
<1>1. Valid(doc) /\ Told \in Nat /\ value = Told + 1 /\ Told + 1 \in 1 .. ValueEnd(doc, 1) /\ doc[Told + 1] \notin Closings
  BY Whereabouts
<1>2. Enclosing(doc, value) = OpenAt(doc, Told)
  BY <1>1, OpenAtNext
<1>3. Before(doc, value) = Begun(doc, Told)
  BY <1>1, BegunNext
<1>4. Parent(doc, value) = ChildOf
  <2>1. parseStack \in Seq(Node) /\ Climbs(parseStack, Enclosing(doc, value))
    BY <1>2 DEF OnTrack, PInv, HandlerOK
  <2> QED
    BY <2>1, ParentIs DEF ChildOf
<1>5. ChildOf = "[" => state.index + 1 = Cardinality(Before(doc, value))
  BY <1>3 DEF OnTrack
<1> QED
  BY <1>4, <1>5 DEF NodeOf, NodeIn
-----------------------------------------------------------------------------
(* Every callback keeps the handler on track.                              *)

LEMMA TrackValue ==
  ASSUME PInv, InOrder, NotBeyond, PathOK, OnValue, ValueEnd(doc, 1) # 0, Parsing'
  PROVE  OnTrack'
<1>1. /\ HandleValue("Continue") /\ state' = NodeOf(value) /\ lastPopped' = <<>> /\ UNCHANGED <<loc, parseStack>>
      /\ Parsing /\ phase = "value" /\ phase' = "typed" /\ doc' = doc /\ value' = value /\ events' = events
  BY DEF OnValue, HandleValue, React, Parsing, GoesOn
<1>2. OnTrack
  BY <1>1 DEF PathOK
<1>3. state' = NodeIn(doc, value)
  BY <1>1, <1>2, NodeIsTrue
<1> QED
  BY <1>1, <1>2, <1>3 DEF OnTrack, Told

LEMMA TrackStart ==
  ASSUME PInv, InOrder, NotBeyond, PathOK, OnStart, ValueEnd(doc, 1) # 0, Parsing'
  PROVE  OnTrack'
<1>1. /\ Parsing /\ phase = "typed" /\ phase' = "range" /\ doc' = doc /\ events' = Append(events, value)
      /\ parseStack' = Append(parseStack, state) /\ state' = NoNode /\ lastPopped' = lastPopped
      /\ value \in 1 .. Len(doc) /\ doc[value] \in Openings
  BY TypeFacts DEF OnStart, HandleStart, React, Parsing, GoesOn, PInv, DepthsCountStack
<1>2. /\ OnTrack /\ parseStack \in Seq(Node) /\ state \in Node /\ state = NodeIn(doc, value)
      /\ state.start = value /\ lastPopped = <<>>
  BY <1>1 DEF PathOK, OnTrack, PInv, HandlerOK
<1>3. /\ Valid(doc) /\ Told \in Nat /\ value = Told + 1 /\ Told + 1 \in 1 .. ValueEnd(doc, 1)
      /\ doc[Told + 1] \notin Closings
  BY <1>1, Whereabouts
<1>4. Told' = Told + 1
  BY <1>1 DEF Told, PInv, DepthsCountStack, TypeOK
<1>5. OpenAt(doc, Told + 1) = Enclosing(doc, value) \cup {value} /\ Enclosing(doc, value) = OpenAt(doc, Told)
  BY <1>1, <1>3, OpenAtNext
<1>6. Cardinality(Begun(doc, Told + 1)) = 0
  BY <1>1, <1>3, BegunNext
<1>7. Climbs(parseStack', OpenAt(doc, Told + 1)) /\ AreNodes(doc, parseStack')
  <2>1. /\ state.start \in Int /\ state = NodeIn(doc, state.start)
        /\ Climbs(parseStack, Enclosing(doc, state.start)) /\ AreNodes(doc, parseStack)
    BY <1>1, <1>2, <1>5 DEF OnTrack
  <2>2. /\ Climbs(Append(parseStack, state), Enclosing(doc, state.start) \cup {state.start})
        /\ AreNodes(doc, Append(parseStack, state))
    BY <1>2, <2>1, PathToChild
  <2> QED
    BY <1>1, <1>2, <1>5, <2>2
<1> QED
  BY <1>1, <1>2, <1>4, <1>6, <1>7 DEF OnTrack, NoNode

LEMMA TrackScalar ==
  ASSUME PInv, InOrder, NotBeyond, PathOK, OnScalar, ValueEnd(doc, 1) # 0, Parsing'
  PROVE  OnTrack'
<1>1. /\ Parsing /\ phase = "typed" /\ phase' = "range" /\ doc' = doc /\ events' = Append(events, value)
      /\ UNCHANGED handler /\ ~ AtOpening
  <2>1. ~ HandleScalar("Complete")
    BY DEF HandleScalar, React, Parsing, GoesOn
  <2>2. HandleScalar("Continue") /\ UNCHANGED handler
    BY <2>1 DEF OnScalar
  <2> QED
    BY <2>2 DEF HandleScalar, React, Parsing, GoesOn
<1>2. OnTrack /\ state = NodeIn(doc, value) /\ lastPopped = <<>> /\ parseStack \in Seq(Node)
  BY <1>1 DEF PathOK, OnTrack, PInv, HandlerOK
<1>3. /\ Valid(doc) /\ Told \in Nat /\ value = Told + 1 /\ Told + 1 \in 1 .. ValueEnd(doc, 1)
      /\ doc[Told + 1] \notin Closings
  BY <1>1, Whereabouts
<1>4. Told' = Told + 1
  BY <1>1 DEF Told, PInv, DepthsCountStack, TypeOK
<1>5. doc[Told + 1] \notin Openings
  <2>1. Told + 1 \in DOMAIN doc
    BY <1>3, ValidFacts
  <2> QED
    BY <1>1, <1>3, <2>1 DEF AtOpening
<1>6. OpenAt(doc, Told + 1) = OpenAt(doc, Told) /\ Enclosing(doc, value) = OpenAt(doc, Told)
  <2>1. /\ OpenAt(doc, Told + 1) = OpenAt(doc, Told) \cup (IF doc[Told + 1] \in Openings THEN {Told + 1} ELSE {})
        /\ Enclosing(doc, Told + 1) = OpenAt(doc, Told)
    BY <1>3, OpenAtNext
  <2>2. OpenAt(doc, Told + 1) = OpenAt(doc, Told) \cup {}
    BY <1>5, <2>1, Zenon
  <2> QED
    BY <1>3, <2>1, <2>2, Zenon
<1>7. /\ Cardinality(Begun(doc, Told + 1)) = Cardinality(Begun(doc, Told)) + 1
      /\ Before(doc, value) = Begun(doc, Told)
  BY <1>3, <1>5, BegunNext
<1>8. ChildOf = "[" => state.index = Cardinality(Begun(doc, Told))
  <2>1. Parent(doc, value) = ChildOf
    BY <1>2, <1>6, ParentIs DEF ChildOf, OnTrack
  <2> QED
    BY <1>2, <1>7, <2>1 DEF NodeIn
<1>9. parseStack' = parseStack /\ state' = state /\ lastPopped' = lastPopped /\ ChildOf' = ChildOf
  BY <1>1 DEF handler, ChildOf
<1>10. ChildOf' = "[" => state'.index + 1 = Cardinality(Begun(doc, Told + 1))
  BY <1>7, <1>8, <1>9
<1>11. Climbs(parseStack', OpenAt(doc, Told + 1)) /\ AreNodes(doc, parseStack')
  BY <1>2, <1>6, <1>9 DEF OnTrack
<1> QED
  BY <1>1, <1>2, <1>4, <1>9, <1>10, <1>11 DEF OnTrack

LEMMA TrackEnd ==
  ASSUME PInv, InOrder, NotBeyond, PathOK, OnEnd, ValueEnd(doc, 1) # 0, Parsing'
  PROVE  OnTrack'
<1>1. /\ Parsing /\ phase = "range" /\ phase' = "range" /\ doc' = doc /\ events' = Append(events, Top.first)
      /\ stack # <<>> /\ ~ StartsValue(doc, Top.first)
  BY DEF OnEnd, HandleEnd, Parsing, GoesOn
<1>2. OnTrack /\ parseStack \in Seq(Node)
  BY <1>1 DEF PathOK, PInv, HandlerOK
<1>3. parseStack # <<>>
  <2>1. Len(parseStack) = Len(stack) /\ stack \in Seq(Entry)
    BY <1>1, PathFacts DEF Agree, Parsing, Finished
  <2> QED
    BY <1>1, <1>2, <2>1
<1>4. parseStack' = Front(parseStack) /\ lastPopped' = <<Last(parseStack)>> /\ state' = Last(parseStack)
  BY <1>3 DEF OnEnd
<1>5. /\ Valid(doc) /\ Told \in Nat /\ Told \in 0 .. ValueEnd(doc, 1) /\ Told + 1 \in 1 .. ValueEnd(doc, 1)
      /\ Top.first = Told + 1
  BY <1>1, Whereabouts
<1>6. Told' = Told + 1
  BY <1>1 DEF Told, PInv, DepthsCountStack, TypeOK
<1>7. doc[Told + 1] \in Closings
  <2>1. Told + 1 \in 1 .. Len(doc)
    BY <1>5, ValidFacts
  <2> QED
    BY <1>1, <1>5, <2>1 DEF StartsValue
<1> DEFINE k == Last(parseStack).start
<1>8. k \in OpenAt(doc, Told) /\ \A j \in OpenAt(doc, Told) : j <= k
  BY <1>2, <1>3, <1>5, PathToTop DEF OnTrack
<1>9. OpenAt(doc, Told + 1) = OpenAt(doc, Told) \ {k}
  <2> HIDE DEF k
  <2> QED
    BY <1>5, <1>7, <1>8, OpenAtEnd
<1>10. Enclosing(doc, k) = OpenAt(doc, Told + 1) /\ Cardinality(Begun(doc, Told + 1)) = Cardinality(Before(doc, k)) + 1
  <2> HIDE DEF k
  <2> QED
    BY <1>5, <1>7, <1>8, BegunEnd
<1>11. /\ Front(parseStack) \in Seq(Node) /\ Last(parseStack) = NodeIn(doc, k)
       /\ AreNodes(doc, Front(parseStack))
       /\ Climbs(Front(parseStack), OpenAt(doc, Told + 1))
  <2>1. /\ Front(parseStack) \in Seq(Node) /\ Last(parseStack) = parseStack[Len(parseStack)]
        /\ Len(parseStack) \in DOMAIN parseStack /\ DOMAIN Front(parseStack) = 1 .. Len(parseStack) - 1
        /\ \A i \in 1 .. Len(parseStack) - 1 : i \in DOMAIN parseStack /\ Front(parseStack)[i] = parseStack[i]
    BY <1>2, <1>3, FrontFacts
  <2>2. Last(parseStack) = NodeIn(doc, k) /\ AreNodes(doc, Front(parseStack))
    BY <1>2, <2>1 DEF OnTrack, AreNodes
  <2>3. OpenAt(doc, Told) \in SUBSET Int
    BY DEF OpenAt
  <2>4. Climbs(Front(parseStack), OpenAt(doc, Told) \ {k})
    BY <1>2, <1>3, <2>3, ClimbsPopped DEF OnTrack
  <2> QED
    BY <1>9, <2>1, <2>2, <2>4
<1>12. ChildOf' = Parent(doc, k)
  <2> HIDE DEF k
  <2>1. Parent(doc, k) = IF Front(parseStack) = <<>> THEN "none" ELSE doc[Last(Front(parseStack)).start]
    BY <1>10, <1>11, ParentIs
  <2> QED
    BY <1>1, <1>4, <2>1 DEF ChildOf
<1>13. ChildOf' = "[" => state'.index + 1 = Cardinality(Begun(doc, Told + 1))
  <2> HIDE DEF k
  <2> QED
    BY <1>4, <1>10, <1>11, <1>12 DEF NodeIn
<1>14. ASSUME NEW i \in DOMAIN lastPopped'
       PROVE  /\ lastPopped'[i] = NodeIn(doc, lastPopped'[i].start)
              /\ Enclosing(doc, lastPopped'[i].start) = OpenAt(doc, Told + 1)
  <2>1. lastPopped'[i] = Last(parseStack)
    BY <1>4
  <2> QED
    BY <1>10, <1>11, <2>1
<1> HIDE DEF k
<1> QED
  BY <1>1, <1>4, <1>6, <1>11, <1>13, <1>14 DEF OnTrack

LEMMA TrackElement ==
  ASSUME PathOK, NextElement \/ UNCHANGED vars, UNCHANGED handler, ValueEnd(doc, 1) # 0, Parsing'
  PROVE  OnTrack'
<1>1. /\ Parsing /\ doc' = doc /\ events' = events /\ ChildOf' = ChildOf
      /\ (phase # "typed" /\ phase' # "typed") \/ (phase' = phase /\ value' = value)
      /\ parseStack' = parseStack /\ lastPopped' = lastPopped /\ state' = state
  BY DEF NextElement, vars, Parsing, GoesOn, handler, ChildOf
<1> QED
  BY <1>1 DEF PathOK, OnTrack, Told
(* Where the parse ends: the handler answers Complete, or the loop ends.   *)
LEMMA CompletedInValue ==
  ASSUME PInv, InOrder, NotBeyond, PathOK, OnScalar, ~ Parsing', Parsing, ValueEnd(doc, 1) # 0
  PROVE  Result' # <<>> /\ Last(Result') = state /\ PathIn(doc, Result', state.start)
<1>1. /\ HandleScalar("Complete") /\ parseStack' = Append(parseStack, state)
      /\ UNCHANGED <<loc, lastPopped, state>>
  <2>1. ~ (HandleScalar("Continue") /\ UNCHANGED handler)
    BY DEF HandleScalar, React, Parsing, GoesOn
  <2> QED
    BY <2>1 DEF OnScalar
<1>2. phase = "typed" /\ doc' = doc
  BY <1>1 DEF HandleScalar
<1>3. OnTrack /\ state = NodeIn(doc, value) /\ lastPopped = <<>>
  BY <1>2 DEF PathOK, OnTrack
<1>4. parseStack \in Seq(Node) /\ state \in Node /\ state.start = value /\ value \in Nat
  BY <1>2, PathFacts DEF HandlerOK
<1>5. /\ Valid(doc) /\ Told \in Nat /\ value = Told + 1 /\ Told + 1 \in 1 .. ValueEnd(doc, 1)
      /\ doc[Told + 1] \notin Closings
  BY <1>2, Whereabouts
<1>6. Enclosing(doc, value) = OpenAt(doc, Told)
  BY <1>5, OpenAtNext
<1>7. state.start \in Int /\ state = NodeIn(doc, state.start) /\ Climbs(parseStack, Enclosing(doc, state.start)) /\ AreNodes(doc, parseStack)
  BY <1>3, <1>4, <1>6 DEF OnTrack
<1>8. /\ Climbs(Append(parseStack, state), Enclosing(doc, state.start) \cup {state.start})
      /\ AreNodes(doc, Append(parseStack, state))
      /\ Append(parseStack, state) # <<>> /\ Last(Append(parseStack, state)) = state
  BY <1>4, <1>7, PathToChild
<1>9. Result' = Append(parseStack, state)
  <2>1. Append(parseStack, state) \in Seq(Node)
    BY <1>4
  <2>2. Append(parseStack, state) \o <<>> = Append(parseStack, state)
    BY <2>1, ConcatEmptySeq
  <2> QED
    BY <1>1, <1>3, <2>2 DEF Result
<1> QED
  BY <1>8, <1>9 DEF PathIn
LEMMA NothingFollows ==
  ASSUME Stopped, NotBeyond, [PathNext]_pathVars, ~ Parsing, phase \in Phases
  PROVE  UNCHANGED handler /\ doc' = doc /\ ~ Parsing'
<1>1. CASE ~ GoesOn
  <2>1. "Complete" \in answers
    BY <1>1 DEF GoesOn, NotBeyond
  <2>2. stack = <<>> /\ phase \notin {"value", "typed"}
    BY <2>1 DEF Stopped
  <2>3. ~ OnValue /\ ~ OnStart /\ ~ OnScalar /\ ~ OnEnd /\ ~ NextElement /\ ~ RejectEnd
    BY <2>2 DEF OnValue, OnStart, OnScalar, OnEnd, HandleValue, HandleStart, HandleScalar, HandleEnd, NextElement, RejectEnd
  <2>4. (Finish \/ Terminated \/ UNCHANGED vars) /\ UNCHANGED handler
    BY <2>3 DEF PathNext, pathVars
  <2>5. answers' = answers /\ doc' = doc
    BY <2>4 DEF Finish, Terminated, vars
  <2> QED
    BY <1>1, <2>4, <2>5 DEF Parsing, GoesOn
<1>2. CASE GoesOn
  <2>1. phase \notin {"value", "typed", "range"}
    BY <1>2 DEF Parsing
  <2>2. ~ OnValue /\ ~ OnStart /\ ~ OnScalar /\ ~ OnEnd /\ ~ NextElement /\ ~ RejectEnd /\ ~ Finish
    BY <2>1 DEF OnValue, OnStart, OnScalar, OnEnd, HandleValue, HandleStart, HandleScalar, HandleEnd, NextElement, RejectEnd, Finish
  <2>3. UNCHANGED vars /\ UNCHANGED handler
    BY <2>2 DEF PathNext, pathVars, Terminated
  <2> QED
    BY <2>1, <2>3 DEF vars, Parsing
<1> QED
  BY <1>1, <1>2

LEMMA WhatEnds ==
  ASSUME Accepting', PathNext, Parsing, ~ Parsing', ValueEnd(doc, 1) # 0
  PROVE  \/ OnScalar
         \/ OnValue /\ UNCHANGED handler /\ phase = "value" /\ (value > Len(doc) \/ loc.token < value)
         \/ Finish /\ UNCHANGED handler
<1>1. ~ OnStart
  BY DEF OnStart, HandleStart, React, Parsing, GoesOn
<1>2. ~ OnEnd
  BY DEF OnEnd, HandleEnd, Parsing, GoesOn
<1>3. ASSUME NextElement \/ RejectEnd PROVE FALSE
  <2>1. phase' \in {"value", "failed"} /\ GoesOn' /\ doc' = doc
    BY <1>3 DEF NextElement, RejectEnd, Parsing, GoesOn
  <2> QED
    BY <2>1 DEF Parsing, Accepting
<1>4. ~ Terminated
  BY DEF Terminated, vars, Parsing, Finished
<1>5. ASSUME OnValue PROVE UNCHANGED handler /\ phase = "value" /\ (value > Len(doc) \/ loc.token < value)
  BY <1>5 DEF OnValue, HandleValue, React, Parsing, GoesOn
<1> QED
  BY <1>1, <1>2, <1>3, <1>4, <1>5 DEF PathNext

LEMMA PathOKInit == PathInit => PathOK
<1> SUFFICES ASSUME PathInit PROVE OnTrack
  BY DEF PathOK, PathInit, Init, Parsing, GoesOn
<1>1. parseStack = <<>> /\ lastPopped = <<>> /\ phase = "value" /\ Told = 0
  BY DEF PathInit, Init, Told
<1>2. OpenAt(doc, 0) = {}
  BY DEF OpenAt
<1>3. Climbs(<<>>, {})
  BY DEF Climbs
<1> QED
  BY <1>1, <1>2, <1>3 DEF OnTrack, AreNodes, ChildOf

LEMMA PathOKStep ==
  PInv /\ InOrder /\ NotBeyond /\ Accepting' /\ Stopped /\ PathOK /\ [PathNext]_pathVars => PathOK'
<1> SUFFICES ASSUME PInv, InOrder, NotBeyond, Accepting', Stopped, PathOK, [PathNext]_pathVars, (ValueEnd(doc, 1) # 0)'
             PROVE  IF Parsing' THEN OnTrack' ELSE Result' # <<>> => PathIn(doc', Result', Last(Result').start)
  BY DEF PathOK
<1>1. doc' = doc /\ ValueEnd(doc, 1) # 0 /\ phase \in Phases
  BY PathStep DEF PathNext, OnValue, OnStart, OnScalar, OnEnd, HandleValue, HandleStart, HandleScalar, HandleEnd,
         NextElement, RejectEnd, Finish, Terminated, vars, handler, pathVars, PInv, DepthsCountStack, TypeOK
<1>2. UNCHANGED handler => Result' = Result
  BY DEF handler, Result
<1>3. CASE ~ Parsing
  BY <1>1, <1>2, <1>3, NothingFollows DEF PathOK
<1>4. CASE Parsing /\ Parsing'
  <2>1. ~ RejectEnd /\ ~ Finish /\ ~ Terminated
    BY <1>4 DEF RejectEnd, Finish, Terminated, vars, Parsing, Finished
  <2>2. OnTrack'
    BY <1>1, <1>4, <2>1, TrackValue, TrackStart, TrackScalar, TrackEnd, TrackElement DEF PathNext, pathVars
  <2> QED
    BY <1>4, <2>2
<1>5. CASE Parsing /\ ~ Parsing'
  <2>1. PathNext
    BY <1>5 DEF pathVars, vars, Parsing, GoesOn
  <2>2. CASE OnScalar
    BY <1>1, <1>5, <2>2, CompletedInValue
  <2>3. CASE UNCHANGED handler
    <3>1. Result # <<>> => PathIn(doc, Result, Last(Result).start)
      BY <1>1, <1>5, ReturnsPath DEF PathOK
    <3> QED
      BY <1>1, <1>2, <1>5, <2>3, <3>1
  <2> QED
    BY <1>1, <1>5, <2>1, <2>2, <2>3, WhatEnds
<1> QED
  BY <1>3, <1>4, <1>5
-----------------------------------------------------------------------------
(* The value at the location is found.                                     *)

(* The location is in a scalar value of a document that is a value.        *)
Sought == IsValue(doc) /\ doc[loc.token] = "v" /\ ~ loc.late

(* The parse does not go past it, and ends in it.                          *)
Pursued ==
  Sought => IF Parsing THEN Told < loc.token ELSE Result # <<>> /\ Last(Result).start = loc.token

LEMMA PursuedInit == PathInit => Pursued
<1> SUFFICES ASSUME PathInit PROVE Told < loc.token
  BY DEF Pursued, PathInit, Init, Parsing, GoesOn
<1>1. doc \in Seq(Tokens) /\ loc.token \in DOMAIN doc /\ Told = 0
  BY EventAssumption DEF PathInit, Init, Told
<1> QED
  BY <1>1

(* Where the location is and which token is next, while the parse goes on. *)
LEMMA Ahead ==
  ASSUME PInv, InOrder, NotBeyond, Parsing, Sought, Pursued
  PROVE  /\ Told \in Nat /\ loc.token \in Nat /\ loc.token <= Len(doc) /\ Len(doc) \in Nat /\ Told < loc.token
         /\ ValueEnd(doc, 1) = Len(doc)
         /\ loc = [token |-> loc.token, late |-> FALSE]
         /\ phase # "range" => value = Told + 1 /\ value \in DOMAIN doc /\ doc[value] \notin Closings /\ value <= loc.token
         /\ phase = "range" => stack # <<>> /\ Top.first = Told + 1
<1>1. doc \in Seq(Tokens) /\ Len(doc) \in Nat /\ loc.token \in DOMAIN doc /\ loc \in Locations
  BY PathFacts DEF NotBeyond, HandlerOK
<1>2. ValueEnd(doc, 1) = Len(doc) /\ ValueEnd(doc, 1) # 0
  <2>1. doc # <<>> /\ ValueEnd(doc, 1) = Len(doc)
    BY DEF Sought, IsValue
  <2> QED
    BY <1>1, <2>1, EmptySeq
<1>3. loc.token \in Nat /\ loc.token <= Len(doc) /\ Told < loc.token
  BY <1>1 DEF Pursued
<1>4. loc = [token |-> loc.token, late |-> FALSE]
  <2>1. loc \in [token : Nat, late : BOOLEAN] /\ ~ loc.late
    BY <1>1, LocationAssumption DEF Sought
  <2>2. loc = [token |-> loc.token, late |-> loc.late] /\ loc.late \in BOOLEAN
    BY <2>1
  <2>3. loc.late = FALSE
    BY <2>1, <2>2
  <2> QED
    BY <2>2, <2>3
<1>5. /\ Told \in Nat
      /\ phase # "range" => value = Told + 1 /\ Told + 1 \in 1 .. ValueEnd(doc, 1) /\ doc[Told + 1] \notin Closings
      /\ phase = "range" /\ stack # <<>> => Top.first = Told + 1
      /\ phase = "range" /\ stack = <<>> => Told = ValueEnd(doc, 1)
  BY <1>2, Whereabouts
<1>6. phase = "range" => stack # <<>>
  BY <1>1, <1>2, <1>3, <1>5
<1>7. phase # "range" => value \in DOMAIN doc /\ value <= loc.token
  BY <1>1, <1>2, <1>3, <1>5
<1> QED
  BY <1>1, <1>2, <1>3, <1>4, <1>5, <1>6, <1>7

LEMMA PursuedStep ==
  PInv /\ InOrder /\ NotBeyond /\ Accepting' /\ Stopped /\ PathOK /\ Pursued /\ [PathNext]_pathVars => Pursued'
<1> SUFFICES ASSUME PInv, InOrder, NotBeyond, Accepting', Stopped, PathOK, Pursued, [PathNext]_pathVars, Sought'
             PROVE  Pursued'
  BY DEF Pursued
<1>1. loc' = loc /\ doc' = doc /\ phase \in Phases
  BY DEF PathNext, OnValue, OnStart, OnScalar, OnEnd, HandleValue, HandleStart, HandleScalar, HandleEnd,
         NextElement, RejectEnd, Finish, Terminated, vars, handler, pathVars, PInv, DepthsCountStack, TypeOK
<1> SUFFICES IF Parsing' THEN Told' < loc.token ELSE Result' # <<>> /\ Last(Result').start = loc.token
  BY <1>1 DEF Pursued
<1>2. Sought
  BY <1>1 DEF Sought
<1>3. UNCHANGED handler => Result' = Result
  BY DEF handler, Result
<1>4. CASE ~ Parsing
  BY <1>1, <1>2, <1>3, <1>4, NothingFollows DEF Pursued
<1>5. ASSUME Parsing
      PROVE  /\ Told \in Nat /\ loc.token \in Nat /\ loc.token <= Len(doc) /\ Len(doc) \in Nat /\ Told < loc.token
             /\ ValueEnd(doc, 1) # 0
             /\ loc = [token |-> loc.token, late |-> FALSE] /\ doc[loc.token] = "v"
             /\ phase # "range" => value = Told + 1 /\ value \in DOMAIN doc /\ doc[value] \notin Closings /\ value <= loc.token
             /\ phase = "range" => stack # <<>> /\ Top.first = Told + 1
             /\ doc \in Seq(Tokens) /\ events \in Seq(0 .. Len(doc) + 1)
  <2>1. doc \in Seq(Tokens) /\ events \in Seq(0 .. Len(doc) + 1)
    BY PathFacts DEF TypeOK
  <2>2. /\ Told \in Nat /\ loc.token \in Nat /\ loc.token <= Len(doc) /\ Len(doc) \in Nat /\ Told < loc.token
        /\ ValueEnd(doc, 1) = Len(doc)
        /\ loc = [token |-> loc.token, late |-> FALSE]
        /\ phase # "range" => value = Told + 1 /\ value \in DOMAIN doc /\ doc[value] \notin Closings /\ value <= loc.token
        /\ phase = "range" => stack # <<>> /\ Top.first = Told + 1
    BY <1>2, <1>5, Ahead
  <2>3. ValueEnd(doc, 1) # 0
    BY <2>2
  <2> QED
    BY <1>2, <2>1, <2>2, <2>3 DEF Sought
<1>6. ASSUME Parsing, OnStart \/ OnScalar \/ OnEnd, ~ (OnScalar /\ value = loc.token)
      PROVE  Told' < loc.token
  <2>1. PICK x : /\ events' = Append(events, x) /\ x = Told + 1
                 /\ (phase # "range" /\ x = value /\ (doc[x] \in Openings \/ x # loc.token)) \/ (phase = "range" /\ doc[x] \in Closings)
    <3>1. CASE OnStart
      BY <1>5, <1>6, <3>1 DEF OnStart, HandleStart, AtOpening
    <3>2. CASE OnScalar
      BY <1>5, <1>6, <3>2 DEF OnScalar, HandleScalar
    <3>3. CASE OnEnd
      <4>1. Top.kind \in Openings /\ phase = "range"
        BY <1>5, <3>3, PathFacts, TypeFacts DEF OnEnd, HandleEnd
      <4>2. doc[Top.first] \in Closings
        BY <3>3, <4>1, KindFacts DEF OnEnd, HandleEnd, AtItsEnd
      <4> QED
        BY <1>5, <1>6, <3>3, <4>1, <4>2 DEF OnEnd, HandleEnd
    <3> QED
      BY <1>6, <3>1, <3>2, <3>3
  <2>2. Told' = Told + 1
    BY <1>5, <1>6, <2>1 DEF Told
  <2>3. x # loc.token
    BY <1>5, <1>6, <2>1 DEF Openings, Closings
  <2> QED
    BY <1>5, <1>6, <2>1, <2>2, <2>3
<1>7. ASSUME Parsing, OnScalar, value = loc.token PROVE ~ Parsing'
  <2>1. value \in DOMAIN doc /\ doc[value] = "v" /\ loc = [token |-> value, late |-> FALSE] /\ "v" \in Scalars
    BY <1>5, <1>7 DEF OnScalar, HandleScalar, Scalars
  <2>2. InValue
    BY <2>1 DEF InValue
  <2>3. HandleScalar("Complete")
    BY <1>7, <2>2 DEF OnScalar
  <2> QED
    BY <2>3 DEF HandleScalar, React, Parsing, GoesOn
<1>8. ASSUME Parsing, OnScalar, ~ Parsing' PROVE value = loc.token
  <2>1. phase = "typed" /\ InValue
    <3>1. ~ HandleScalar("Continue")
      BY <1>8 DEF HandleScalar, React, Parsing, GoesOn
    <3> QED
      BY <3>1, <1>8 DEF OnScalar, HandleScalar
  <2>2. CASE loc = [token |-> value, late |-> FALSE]
    BY <2>2
  <2>3. CASE SkipValue(doc, value) = 0
    <3>1. value \in DOMAIN doc /\ doc[value] \in Scalars /\ ~ (value > Len(doc)) /\ value <= loc.token /\ value \in Nat
      BY <1>5, <1>8, <2>1 DEF InValue
    <3>2. SkipScalar(doc, value) = 0
      BY <2>3, <3>1, KindFacts, Zenon DEF SkipValue
    <3>3. value = Len(doc)
      BY <3>1, <3>2 DEF SkipScalar
    <3> QED
      BY <1>5, <1>8, <3>1, <3>3
  <2> QED
    BY <2>1, <2>2, <2>3 DEF InValue
<1>9. CASE Parsing /\ Parsing'
  <2>1. ~ RejectEnd /\ ~ Finish /\ ~ Terminated
    BY <1>9 DEF RejectEnd, Finish, Terminated, vars, Parsing, Finished
  <2>2. CASE OnValue \/ NextElement \/ UNCHANGED vars
    <3>1. events' = events
      BY <2>2 DEF OnValue, HandleValue, NextElement, vars
    <3> QED
      BY <1>5, <1>9, <3>1 DEF Told
  <2>3. CASE OnStart \/ OnScalar \/ OnEnd
    BY <1>6, <1>7, <1>9, <2>3
  <2> QED
    BY <2>1, <2>2, <2>3 DEF PathNext, pathVars
<1>10. CASE Parsing /\ ~ Parsing'
  <2>1. PathNext /\ phase \in {"value", "typed", "range"}
    BY <1>10 DEF pathVars, vars, Parsing, GoesOn
  <2>2. CASE OnScalar
    <3>1. Result' # <<>> /\ Last(Result') = state
      BY <1>5, <1>10, <2>2, CompletedInValue
    <3>2. state.start = value
      BY <2>2 DEF OnScalar, HandleScalar, PInv, HandlerOK
    <3> QED
      BY <1>8, <1>10, <2>2, <3>1, <3>2
  <2>3. ~ (phase = "value" /\ (value > Len(doc) \/ loc.token < value))
    BY <1>5, <1>10
  <2>4. ~ Finish
    BY <1>5, <1>10 DEF Finish
  <2> QED
    BY <1>5, <1>10, <2>1, <2>2, <2>3, <2>4, WhatEnds
<1> QED
  BY <1>4, <1>9, <1>10

LEMMA LastOfConcat ==
  ASSUME NEW T, NEW s \in Seq(T), NEW t \in Seq(T), t # <<>>
  PROVE  s \o t \in Seq(T) /\ Last(s \o t) = Last(t)
<1>1. /\ s \o t \in Seq(T) /\ Len(s \o t) = Len(s) + Len(t)
      /\ \A i \in 1 .. Len(s) + Len(t) : (s \o t)[i] = IF i <= Len(s) THEN s[i] ELSE t[i - Len(s)]
  BY ConcatProperties
<1> DEFINE m == Len(s)
           n == Len(t)
<1>2. m \in Nat /\ n \in Nat /\ n # 0
  BY EmptySeq
<1> HIDE DEF m, n
<1>3. m + n \in 1 .. m + n /\ ~ (m + n <= m) /\ (m + n) - m = n
  BY <1>2
<1>4. (s \o t)[m + n] = t[n]
  BY <1>1, <1>3 DEF m, n
<1> QED
  BY <1>1, <1>4 DEF Last, m, n

(***************************************************************************)
(* What find_json_path_stack_to returns, for every document and every      *)
(* position: in a scalar value other than null, the path to that value,    *)
(* with every index and name on it; anywhere else the path to some value   *)
(* that begins no later; in a text that does not begin with a value,       *)
(* nothing that begins later (daw_json_find_path.h, the handler).          *)
(***************************************************************************)
THEOREM PathCorrect == PathSpec => []FindsThePath
<1> DEFINE FInv == PInv /\ InOrder /\ Accepting /\ Stopped /\ NotBeyond /\ PathOK /\ Pursued
<1>1. PathInit => FInv
  <2>1. PathInit => Init /\ Accepting
    BY DEF PathInit, Init, Accepting
  <2> QED
    BY <2>1, PInvInit, OrderInit, StoppedInit, BeyondInit, PathOKInit, PursuedInit
<1>2. FInv /\ [PathNext]_pathVars => FInv'
  <2> SUFFICES ASSUME FInv, [PathNext]_pathVars PROVE FInv'
    OBVIOUS
  <2>1. Step
    BY PathStep DEF pathVars, Step
  <2>2. Accepting'
    BY <2>1, AcceptStep DEF PInv
  <2>3. PInv' /\ InOrder' /\ Stopped'
    BY <2>1, PInvNext, OrderStep, StoppedStep DEF PInv
  <2> QED
    BY <2>2, <2>3, BeyondStep, PathOKStep, PursuedStep
<1>3. FInv => FindsThePath
  <2> SUFFICES ASSUME FInv, Finished PROVE ScalarIsFound /\ ResultIsAPath
    BY DEF FindsThePath, ScalarIsFound, ResultIsAPath
  <2>1. ~ Parsing
    BY DEF Finished, Parsing
  <2>2. ASSUME Sought PROVE IsPathTo(Result, loc.token)
    <3>1. ValueEnd(doc, 1) # 0
      <4>1. doc \in Seq(Tokens) /\ doc # <<>> /\ ValueEnd(doc, 1) = Len(doc)
        BY <2>2, PathFacts DEF Sought, IsValue
      <4> QED
        BY <4>1, EmptySeq
    <3> QED
      BY <2>1, <2>2, <3>1, IsPathToIs DEF PathOK, Pursued
  <2>3. ASSUME Result # <<>> PROVE Last(Result).start <= loc.token
    <3>1. parseStack \in Seq(Node) /\ lastPopped \in Seq(Node)
      BY DEF PInv, HandlerOK, NotBeyond
    <3>2. CASE lastPopped = <<>>
      <4>1. Result = parseStack
        BY <3>1, <3>2, ConcatEmptySeq DEF Result
      <4>2. Len(parseStack) \in DOMAIN parseStack /\ Last(parseStack) = parseStack[Len(parseStack)]
        BY <2>3, <3>1, <4>1, FrontFacts
      <4> QED
        BY <4>1, <4>2 DEF NotBeyond
    <3>3. CASE lastPopped # <<>>
      <4>1. Result \in Seq(Node) /\ Last(Result) = Last(lastPopped)
        BY <3>1, <3>3, LastOfConcat DEF Result
      <4>2. Len(lastPopped) \in DOMAIN lastPopped /\ Last(lastPopped) = lastPopped[Len(lastPopped)]
        BY <3>1, <3>3, FrontFacts
      <4> QED
        BY <4>1, <4>2 DEF NotBeyond
    <3> QED
      BY <3>2, <3>3
  <2>4. Result # <<>> /\ ValueEnd(doc, 1) # 0 => IsPathTo(Result, Last(Result).start)
    BY <2>1, IsPathToIs DEF PathOK
  <2> QED
    BY <2>2, <2>3, <2>4 DEF ScalarIsFound, ResultIsAPath, Sought
<1> QED
  BY <1>1, <1>2, <1>3, PTL DEF PathSpec

===============================================================================
