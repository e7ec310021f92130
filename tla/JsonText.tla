------------------------------- MODULE JsonText -------------------------------
(***************************************************************************)
(* Texts on the level of characters, and what their characters are.        *)
(*                                                                         *)
(* A text is a sequence of one-character strings, a position an index into *)
(* it; At reads a terminator behind its end. Mode says of every character  *)
(* whether it is code, part of a string or part of a comment, Brackets     *)
(* which brackets are open behind it. Both read the text once, from the    *)
(* left, and know nothing of the ways in which the library scans it: they  *)
(* are the reference the scanners are compared with.                       *)
(***************************************************************************)
EXTENDS Naturals, Sequences

NUL == "NUL"        \* the terminator
Space == {" ", "\n"}
Left == {"[", "{"}
Right == {"]", "}"}
Partner(b) == IF b = "[" THEN "]" ELSE "}"

At(text, p) == IF p \in 1..Len(text) THEN text[p] ELSE NUL

(* What a character is that does not continue what is before it.           *)
Fresh(text, comments, p) ==
  CASE text[p] = "\"" -> "open"
    [] comments = "hash" /\ text[p] = "#" -> "line"
    [] comments = "cpp" /\ text[p] = "/" /\ At(text, p + 1) = "/" -> "line"
    [] comments = "cpp" /\ text[p] = "/" /\ At(text, p + 1) = "*" -> "slash"
    [] OTHER -> "code"

InString == {"open", "in", "escaped"}

(* What a character is that follows one that is what before says.          *)
ModeAfter(text, comments, before, p) ==
  CASE before \in InString ->
         (IF before = "in" /\ text[p - 1] = "\\" THEN "escaped"
          ELSE IF text[p] = "\"" THEN "close" ELSE "in")
    [] before = "line" /\ text[p - 1] # "\n" -> "line"
    [] before = "slash" -> "star"
    [] before = "star" -> "block"
    [] before = "block" -> (IF text[p - 1] = "*" /\ text[p] = "/" THEN "endblock" ELSE "block")
    [] OTHER -> Fresh(text, comments, p)

(* What every character of a text is: code, the quotes and characters of   *)
(* a string, those of a comment up to the end of the line, or of one       *)
(* between slashes and stars.                                              *)
Mode(text, comments) ==
  LET read[p \in 0..Len(text)] ==
        IF p = 0 THEN <<>>
        ELSE LET done == read[p - 1]
             IN Append(done, ModeAfter(text, comments, IF p = 1 THEN "code" ELSE done[p - 1], p))
  IN read[Len(text)]

Comment == {"line", "slash", "star", "block", "endblock"}

(* The brackets open behind a character, innermost first, from those that  *)
(* were open in front of it; <<"bad">> as soon as one is closed by the     *)
(* wrong one or a backslash is outside of strings.                         *)
BracketsAfter(text, mode, before, p) ==
  IF before = <<"bad">> \/ mode[p] # "code" THEN before
  ELSE CASE text[p] \in Left -> <<text[p]>> \o before
         [] text[p] \in Right ->
              (IF before # <<>> /\ text[p] = Partner(before[1]) THEN Tail(before) ELSE <<"bad">>)
         [] text[p] = "\\" -> <<"bad">>
         [] OTHER -> before
Brackets(text, comments) ==
  LET mode == Mode(text, comments)
      read[p \in 0..Len(text)] ==
        IF p = 0 THEN <<>>
        ELSE LET done == read[p - 1]
             IN Append(done, BracketsAfter(text, mode, IF p = 1 THEN <<>> ELSE done[p - 1], p))
  IN read[Len(text)]

(* The position of the bracket that closes the one a text begins with, or  *)
(* 0 if there is none.                                                     *)
ItemEnd(text, comments) ==
  LET open == Brackets(text, comments)
      ends == {p \in 1..Len(text) : open[p] = <<>>}
  IN IF ends = {} \/ text[1] \notin Left THEN 0 ELSE CHOOSE p \in ends : \A q \in ends : p <= q

(* How many commas there are between the elements of the item a text       *)
(* begins with.                                                            *)
Commas(text, comments) ==
  LET open == Brackets(text, comments)
      mode == Mode(text, comments)
  IN {p \in 1..ItemEnd(text, comments) : text[p] = "," /\ mode[p] = "code" /\ Len(open[p]) = 1}

(* The first position from p on that is neither white space nor comment.   *)
NextToken(text, comments, p) ==
  LET mode == Mode(text, comments)
      tokens == {q \in p..Len(text) : mode[q] \notin Comment /\ text[q] \notin Space}
  IN IF tokens = {} THEN Len(text) + 1 ELSE CHOOSE q \in tokens : \A r \in tokens : q <= r
===============================================================================
