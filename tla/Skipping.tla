------------------------------ MODULE Skipping ------------------------------
(***************************************************************************)
(* Moving the cursor over the characters of a text: over an array or class *)
(* whose value is not wanted yet (skip_bracketed_item), over white space   *)
(* and comments (trim_left), to the next of several characters             *)
(* (move_to_next_of), and over a string (skip_string).                     *)
(*                                                                         *)
(* comments is the comment policy, bound how the end of the text is found: *)
(* by its length, by its terminator, or not at all, which is the unchecked *)
(* parse. exec is the way strings are searched. One turn of a loop is one  *)
(* action. A cursor that has left the text is "astray".                    *)
(***************************************************************************)
EXTENDS StringSearch

CONSTANTS Texts(_, _), Execs, Keys
ASSUME TextsAssumption ==
  \A what \in {"item", "trim", "next", "string"}, c \in {"none", "cpp", "hash"} :
    Texts(what, c) \subseteq Seq(STRING \ {NUL}) \ {<<>>}
ASSUME KeysAssumption == Keys \subseteq STRING \ {NUL} /\ "\"" \in Keys
ASSUME ExecsAssumption == Execs \subseteq {"constant", "strict", "runtime", "block"}

VARIABLES call, text, comments, bound, exec, start, first, prim, sec, cnt, phase
vars == <<call, text, comments, bound, exec, start, first, prim, sec, cnt, phase>>
given == <<call, text, comments, bound, exec, start>>

Last == Len(text) + 1
Checked == bound # "none"
Opening == text[1]
Closing == Partner(Opening)
Other == CHOOSE b \in Left : b # Opening

Init ==
  /\ comments \in {"none", "cpp", "hash"}
  /\ call \in {"item", "trim", "next", "string"}
  /\ text \in Texts(call, comments)
  /\ bound \in {"range", "none"} \cup (IF comments = "none" THEN {"zero"} ELSE {})
  /\ exec \in Execs
  /\ call = "trim" \/ (call = "next" /\ comments # "none") => exec = "constant"    \* no strings
  /\ exec = "strict" => call = "string" /\ bound # "none"
  /\ call = "string" => text[1] = "\"" /\ comments = "none"
  /\ start \in (IF call = "item" THEN {1, 2} ELSE {2})
  /\ call # "string" => text[1] \in Left    \* behind a bracket, or at it
  /\ first = start /\ prim = 1 /\ sec = 0 /\ cnt = 0
  /\ phase = "called"

Move(p) == /\ first' = p
           /\ phase' = IF bound # "range" /\ p > Last THEN "astray" ELSE phase
           /\ UNCHANGED given
Return(p) == first' = p /\ phase' = "done" /\ UNCHANGED given
Fail == first' = first /\ phase' = "failed" /\ UNCHANGED given
Counters == <<prim, sec, cnt>>

------------------------------------------------------------------------------
(* The next c from p on; without it the end of the range or, unchecked, a  *)
(* position that is not in the text.                                       *)
NextOf(c, p) ==
  LET found == {q \in p..Len(text) : text[q] = c}
  IN IF found # {} THEN Min(found) ELSE IF Checked THEN Max({p, Last}) ELSE Last + 1

(* A search for one of several characters that does not look for the end:  *)
(* the one used where strings are not searched at compile time.            *)
Unbounded == ~Checked \/ (comments = "none" /\ (exec # "constant" \/ bound = "zero"))

IsCommentLine(p) ==    \* mutant: comments between stars are overlooked
  At(text, p) = "#" \/ (At(text, p) = "/" /\ At(text, p + 1) = "/")
IsComment(p) == \/ comments = "hash" /\ At(text, p) = "#"
                \/ comments = "cpp" /\ At(text, p) = "/" /\ At(text, p + 1) \in {"/", "*"}

(* Behind the line a comment is on.                                        *)
BehindLineUnchecked(p) == NextOf("\n", p) + 1    \* mutant: the line always has an end
BehindLine(p) ==
  LET end == NextOf("\n", p) IN IF Checked /\ At(text, end) # "\n" THEN end ELSE end + 1

(* Behind a star and a slash, looked for from p on.                        *)
BehindStars(p) ==
  LET behind[q \in p..(Last + 2)] ==
        LET star == NextOf("*", q)
            next == IF Checked /\ star >= Last THEN star ELSE star + 1
        IN IF next >= Last THEN next
           ELSE IF text[next] = "/" THEN next + 1 ELSE behind[next + 1]
  IN behind[p]

BehindCommentShort(p) ==    \* mutant: the star that begins a comment may end it
  IF comments = "hash" THEN BehindLine(p + 1)
  ELSE IF At(text, p + 1) = "/" THEN BehindLine(p) ELSE BehindStars(p + 1)
BehindComment(p) ==
  IF comments = "hash" THEN BehindLine(p + 1)
  ELSE IF At(text, p + 1) = "/" THEN BehindLine(p) ELSE BehindStars(p + 2)

------------------------------------------------------------------------------
(* trim_left: comments and white space in turn; unchecked, comments behind *)
(* white space stay.                                                       *)
TrimComment ==
  /\ call = "trim" /\ phase = "called"
  /\ IsComment(first)
  /\ Move(BehindComment(first))
  /\ UNCHANGED Counters
TrimSpace ==
  /\ call = "trim" /\ phase \in {"called", "spaces"}
  /\ phase = "called" => ~IsComment(first)
  /\ At(text, first) \in Space
  /\ first' = first + 1
  /\ phase' = IF Checked THEN phase ELSE "spaces"
  /\ UNCHANGED <<Counters, given>>
TrimEnd ==
  /\ call = "trim" /\ phase \in {"called", "spaces"}
  /\ At(text, first) \notin Space
  /\ phase = "called" => ~IsComment(first)
  /\ Return(first)
  /\ UNCHANGED Counters

------------------------------------------------------------------------------
(* move_to_next_of: comments are passed with what is in them.              *)
NextComment ==
  /\ call = "next" /\ phase = "called"
  /\ IsComment(first)
  /\ Move(BehindComment(first))
  /\ UNCHANGED Counters
NextOther ==
  /\ call = "next" /\ phase = "called"
  /\ ~IsComment(first) /\ At(text, first) \notin Keys
  /\ first < Last \/ Unbounded
  /\ first' = first + 1
  /\ phase' = IF first >= Last THEN "astray" ELSE phase
  /\ UNCHANGED <<Counters, given>>
NextFound ==
  /\ call = "next" /\ phase = "called"
  /\ ~IsComment(first) /\ At(text, first) \in Keys
  /\ Return(first)
  /\ UNCHANGED Counters
NextMissing ==
  /\ call = "next" /\ phase = "called"
  /\ ~IsComment(first) /\ first >= Last /\ ~Unbounded
  /\ Fail
  /\ UNCHANGED Counters

------------------------------------------------------------------------------
(* skip_string, behind the opening quote: the counter tells where the first*)
(* escape is, or is negative.                                              *)
SkipStringAtEnd ==    \* mutant: a string that is cut off ends with the text
  /\ call = "string" /\ phase = "called"
  /\ \E found \in {Search(exec, text, first, Last, bound)} : Return(found.end + 1) /\ cnt' = found.escape
  /\ UNCHANGED <<prim, sec>>
SkipString ==
  /\ call = "string" /\ phase = "called"
  /\ \E found \in {Search(exec, text, first, Last, bound)} :
       /\ IF At(text, found.end) = "\"" THEN Return(found.end + 1)
          ELSE IF bound # "range" /\ found.end > Last THEN Move(found.end)
          ELSE Fail
       /\ cnt' = found.escape
  /\ UNCHANGED <<prim, sec>>

------------------------------------------------------------------------------
(* skip_bracketed_item: the opening bracket may have been passed already.  *)
Enter ==
  /\ call = "item" /\ phase = "called"
  /\ first' = IF first < Last /\ At(text, first) = Opening THEN first + 1 ELSE first
  /\ phase' = IF Checked /\ first >= Last THEN "nothing"
              ELSE IF bound = "zero" /\ first' >= Last THEN "failed"
              ELSE "inside"
  /\ UNCHANGED <<Counters, given>>

AtEnd == CASE bound = "range" -> first >= Last
           [] bound = "zero" -> At(text, first) = NUL
           [] OTHER -> FALSE
Reads(c) == call = "item" /\ phase = "inside" /\ ~AtEnd /\ At(text, first) = c

Escape == Reads("\\") /\ Move(first + 2) /\ UNCHANGED Counters

(* The quote that ends a string that begins in front of p.                 *)
EndOfString(p) ==
  IF exec = "constant" THEN End(text, Last, bound)[p]
  ELSE Search(exec, text, p, Last, bound).end

String ==
  /\ Reads("\"")
  /\ \E end \in {EndOfString(first + 1)} :
       IF Checked /\ (end >= Last \/ At(text, end) # "\"") THEN Fail ELSE Move(end + 1)
  /\ UNCHANGED Counters

Comma ==
  /\ Reads(",")
  /\ cnt' = IF prim = 1 /\ sec = 0 THEN cnt + 1 ELSE cnt
  /\ Move(first + 1)
  /\ UNCHANGED <<prim, sec>>

PrimLeft == Reads(Opening) /\ prim' = prim + 1 /\ Move(first + 1) /\ UNCHANGED <<sec, cnt>>
PrimRight ==
  /\ Reads(Closing)
  /\ prim' = prim - 1
  /\ CASE prim > 1 -> Move(first + 1)
       [] prim = 1 /\ Checked /\ sec # 0 -> Fail
       [] OTHER -> Return(first + 1)
  /\ UNCHANGED <<sec, cnt>>
SecLeft == Reads(Other) /\ sec' = sec + 1 /\ Move(first + 1) /\ UNCHANGED <<prim, cnt>>
SecRight == Reads(Partner(Other)) /\ sec' = sec - 1 /\ Move(first + 1) /\ UNCHANGED <<prim, cnt>>

(* The comment that begins with the slash in front of p. Of one between    *)
(* stars, only what is in front of the first star, or of the character     *)
(* before a slash, is passed, and then one more.                           *)
PassedLine(p) ==
  LET stops == {q \in p..Last : At(text, q) = "\n" \/ (Checked /\ Last - q <= 1)}
  IN IF stops = {} THEN Last + 1 ELSE Min(stops)
PassedBlock(p) ==
  LET stops == {q \in p..Last : At(text, q) = "*" \/ At(text, q + 1) = "/" \/ (Checked /\ Last - q < 3)}
  IN IF stops = {} THEN Last + 1 ELSE Min(stops)
SlashComment ==
  /\ comments = "cpp" /\ Reads("/")
  /\ IF Checked /\ first + 1 >= Last THEN Fail
     ELSE CASE At(text, first + 1) = "/" -> Move(PassedLine(first + 2) + 1)
            [] At(text, first + 1) = "*" -> Move(PassedBlock(first + 2) + 1)
            [] OTHER -> Move(first + 3)
  /\ UNCHANGED Counters

HashComment ==
  /\ comments = "hash" /\ Reads("#")
  /\ LET end == NextOf("\n", first + 1) IN Move(IF Checked /\ end < Last THEN end ELSE end + 1)
  /\ UNCHANGED Counters

Significant == {"\\", "\"", ","} \cup Left \cup Right
               \cup (CASE comments = "cpp" -> {"/"} [] comments = "hash" -> {"#"} [] OTHER -> {})
Pass ==
  /\ call = "item" /\ phase = "inside" /\ ~AtEnd
  /\ At(text, first) \notin Significant
  /\ Move(first + 1)
  /\ UNCHANGED Counters

RunOutClosed == call = "item" /\ phase = "inside" /\ AtEnd /\ sec = 0 /\ Fail /\ UNCHANGED Counters    \* mutant: an open bracket is waited for
RunOut == call = "item" /\ phase = "inside" /\ AtEnd /\ Fail /\ UNCHANGED Counters

Next == \/ TrimComment \/ TrimSpace \/ TrimEnd \/ SkipString
        \/ NextComment \/ NextOther \/ NextFound \/ NextMissing
        \/ Enter \/ Escape \/ String \/ Comma \/ PrimLeft \/ PrimRight \/ SecLeft \/ SecRight
        \/ SlashComment \/ HashComment \/ Pass \/ RunOut

Spec == Init /\ [][Next]_vars /\ WF_vars(Next)
------------------------------------------------------------------------------
TypeOK ==
  /\ phase \in {"called", "spaces", "inside", "done", "failed", "nothing", "astray"}
  /\ first \in 1..(2 * Len(text) + 4)
  /\ prim \in 0..Len(text) /\ sec \in -Len(text)..Len(text) /\ cnt \in -Len(text)..Len(text)

(* The character behind the last whole block of a string is escaped.       *)
IsSplit ==
  LET mode == Mode(text, comments)
      opens == {q \in 1..Len(text) : mode[q] = "open"}
  IN \E p \in {q \in 1..Len(text) : Last - q < Block /\ mode[q] = "escaped"} :
       (p - Max({q \in opens : q < p}) - 1) % Block = 0

(* Texts whose item is closed, and in which, with the policy for them,     *)
(* slashes belong to strings and to comments up to the end of a line. An   *)
(* item that is entered behind its bracket does not begin with another. By *)
(* blocks, the character behind the last whole one is not escaped.         *)
Scannable ==
  /\ ItemEnd(text, comments) > start
  /\ comments = "cpp" => \A p \in 1..Len(text) : text[p] = "/" => Mode(text, comments)[p] \in {"line"} \cup InString
  /\ start = 2 => text[2] # text[1]
  /\ exec = "block" => ~IsSplit

(* A skipped array or class ends behind its own closing bracket, whatever  *)
(* strings and comments contain, and its elements have been counted; the   *)
(* checked, unchecked and zero terminated variants of each comment policy  *)
(* agree on this.                                                          *)
SkipsWholeItem ==
  call = "item" /\ Scannable =>
    /\ phase \in {"called", "inside", "done"}
    /\ phase = "done" => first = ItemEnd(text, comments) + 1 /\ cnt = Cardinality(Commas(text, comments))

(* A checked call that returns leaves the cursor in the text or at its end,*)
(* however the text is broken: escapes, strings and comments cut off at the*)
(* end do not carry it further without a failure.                          *)
EndsInText == TypeOK /\ (Checked /\ phase = "done" => first \in start..Last)

(* No comment in front of p has two stars in a row, apart from the one it  *)
(* begins with.                                                            *)
Starless(p) ==
  LET mode == Mode(text, comments)
  IN \A q \in 2..(p - 2) : mode[q] = "block" => ~(text[q] = "*" /\ text[q + 1] = "*")

(* Comments that trim_left can pass: without two stars in a row; unchecked,*)
(* closed, and not behind white space.                                     *)
Trimmable ==
  LET mode == Mode(text, comments)
      end == NextToken(text, comments, 2)
  IN /\ Starless(end)
     /\ ~Checked => /\ end <= Len(text)
                    /\ \A p \in 2..(end - 2) : mode[p] \notin Comment => mode[p + 1] \notin Comment

(* White space and comments are removed as far as the next token, which is *)
(* left in place.                                                          *)
TrimsToToken == call = "trim" /\ phase = "done" /\ Trimmable => first = NextToken(text, comments, 2)

(* The next quote or brace found is not one of a comment, and it is the    *)
(* first, if no comment in front of it has two stars in a row.             *)
KeyPlaces == {p \in 2..Len(text) : text[p] \in Keys /\ Mode(text, comments)[p] \notin Comment}
FirstKey == IF KeyPlaces = {} THEN Last ELSE Min(KeyPlaces)
FindsNextKey == call = "next" /\ phase = "done" /\ Starless(FirstKey) => KeyPlaces # {} /\ first = FirstKey

(* The counter is used as the place of the first escape: what is in front  *)
(* of it is copied as it is. At run time it is negative although there are *)
(* escapes, and by blocks it may be of an escape behind the string.        *)
NotesEscape(escapes) ==
  /\ (exec = "block" /\ first <= Len(text)) \/ (cnt >= 0 => escapes # {} /\ \A p \in escapes : start + cnt <= p)
  /\ exec \in {"constant", "strict"} => IF escapes = {} THEN cnt < 0 ELSE start + cnt = Min(escapes)

(* Each way to skip a string ends behind the quote that is not escaped, and*)
(* not at all without one, and stores the first escaped element's position *)
(* (impl/daw_json_skip.h:52) so that none is taken for plain text. Strict, *)
(* only escapes of JSON pass.                                              *)
SkipsToQuote ==
  call = "string" /\ (exec = "block" => ~IsSplit) =>
    LET mode == Mode(text, comments)
        closing == {p \in 2..Len(text) : mode[p] = "close"}
        escapes == {p \in 2..(Min(closing) - 1) : mode[p + 1] = "escaped"}
    IN IF closing = {} THEN phase # "done"
       ELSE /\ exec # "strict" => phase \in {"called", "done"}
            /\ phase = "done" =>
                 /\ first = Min(closing) + 1
                 /\ NotesEscape(escapes)
                 /\ exec = "strict" => \A p \in escapes : text[p + 1] \in Escapable

(* No call stops in a comment, in front of the token or quote or behind it.*)
StopsAtToken == TrimsToToken /\ FindsNextKey /\ SkipsToQuote

(* Every call ends, however the text is broken off.                        *)
Ends == <>(phase \notin {"called", "spaces", "inside"})
=============================================================================
