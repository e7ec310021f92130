----------------------------- MODULE JsonTokens -----------------------------
(***************************************************************************)
(* JSON text as a sequence of tokens: brackets, the literal null ("null")  *)
(* and the other scalar values ("v").  A member's name, the comma before a *)
(* value and white space belong to the token they precede.  Brackets need  *)
(* not match: the operators are those the parser uses to step over text it *)
(* has not looked at yet (daw_json_skip.h,                                 *)
(* daw_json_parse_policy_no_comments.h).  Nothing follows the last token.  *)
(***************************************************************************)
EXTENDS Integers, Sequences, FiniteSets

Scalars  == {"v", "null"}
Openings == {"[", "{"}
Closings == {"]", "}"}
Tokens   == Openings \cup Closings \cup Scalars

Partner == [t \in Openings |-> IF t = "[" THEN "]" ELSE "}"]
Other   == [t \in Openings |-> IF t = "[" THEN "{" ELSE "["]

\* How many more brackets of kind open there are than brackets that close them,
\* among the tokens i .. j of d.
Balance(d, open, i, j) ==
  Cardinality({k \in i .. j : d[k] = open})
    - Cardinality({k \in i .. j : d[k] = Partner[open]})

\* skip_bracketed_item_checked: the closing bracket that balances the opening
\* one at i.  The brackets of the other kind must balance up to there, whatever
\* their order; 0 is the exception InvalidBracketing.
ClosingOf(d, i) ==
  LET closes == {j \in i .. Len(d) : Balance(d, d[i], i, j) = 0}
  IN  IF closes = {} THEN 0
      ELSE LET close == CHOOSE j \in closes : \A k \in closes : j <= k
           IN  IF Balance(d, Other[d[i]], i, close) = 0 THEN close ELSE 0

\* skip_null requires something behind the null.
SkipScalar(d, i) == IF d[i] = "null" /\ i = Len(d) THEN 0 ELSE i + 1

\* Mutant: the closing bracket is not part of the value.
SkipToClosing(d, i) ==
  IF i > Len(d) THEN 0
  ELSE CASE d[i] \in Scalars  -> SkipScalar(d, i)
         [] d[i] \in Openings -> ClosingOf(d, i)
         [] d[i] \in Closings -> 0

\* skip_value: the token behind the value at i; 0 is an exception.
SkipValue(d, i) ==
  IF i > Len(d) THEN 0
  ELSE CASE d[i] \in Scalars  -> SkipScalar(d, i)
         [] d[i] \in Openings -> IF ClosingOf(d, i) = 0 THEN 0 ELSE ClosingOf(d, i) + 1
         [] d[i] \in Closings -> 0

\* A value starts at token i (basic_json_value_iterator::good).
StartsValue(d, i) == i \in 1 .. Len(d) /\ d[i] \notin Closings

-----------------------------------------------------------------------------
(* What a JSON value is, to compare with.                                  *)

\* The bracket that ends what bracket i begins, whatever its kind; 0 if none does.
MatchOf(d, i) ==
  LET nest(j) == Cardinality({k \in i .. j : d[k] \in Openings})
                   - Cardinality({k \in i .. j : d[k] \in Closings})
      ends    == {j \in i .. Len(d) : nest(j) = 0}
  IN  IF ends = {} THEN 0 ELSE CHOOSE j \in ends : \A k \in ends : j <= k

\* The last token of the value that starts at token i; 0 if none does.
ValueEnd(d, i) ==
  IF ~StartsValue(d, i) THEN 0
  ELSE IF d[i] \in Scalars THEN i
  ELSE IF \A k \in i .. MatchOf(d, i) :
            d[k] \in Openings => MatchOf(d, k) # 0 /\ d[MatchOf(d, k)] = Partner[d[k]]
       THEN MatchOf(d, i) ELSE 0

\* The containers token i lies in, from the outside in.
Enclosing(d, i) == {k \in 1 .. i - 1 : d[k] \in Openings /\ MatchOf(d, k) > i}

IsValue(d) == d # <<>> /\ ValueEnd(d, 1) = Len(d)
=============================================================================
