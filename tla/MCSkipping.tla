---------------------------- MODULE MCSkipping ----------------------------
(* Instances of Skipping. Texts begin with an opening bracket. Those that  *)
(* are skipped are all short ones, those of more characters that go on as  *)
(* the beginning of an item does, and longer ones still of the characters  *)
(* that strings and comments turn on.                                      *)
EXTENDS Skipping

Characters(c) ==
  CASE c = "none" -> {"[", "]", "{", "}", ",", "\"", "\\", " "}
    [] c = "cpp"  -> {"]", "{", "}", ",", "\"", "/", "*", "\n"}
    [] c = "hash" -> {"[", "]", "}", ",", "\"", "#", "\n", " "}
Deep(c) ==
  CASE c = "none" -> {"]", ",", "\"", "\\"}
    [] c = "cpp"  -> {"]", "\"", "/", "\n"}
    [] c = "hash" -> {"]", "\"", "#", "\n"}

All(S, n) == {<<"[">> \o s : s \in UNION {[1..k -> S] : k \in 0..n}}

(* The texts of n more characters whose brackets are right so far.         *)
Alive(c, S, n) ==
  LET texts[k \in 0..n] ==
        IF k = 0 THEN {<<"[">>}
        ELSE {t \in {Append(s, x) : s \in texts[k - 1], x \in S} :
                /\ ItemEnd(t, c) \in {0, Len(t)}
                /\ Brackets(t, c)[Len(t)] # <<"bad">>}
  IN UNION {texts[k] : k \in 0..n}

TextsOf == [c \in {"none", "cpp", "hash"} |->
              All(Characters(c), 3) \cup Alive(c, Characters(c), 4) \cup Alive(c, Deep(c), IF c = "none" THEN 6 ELSE 5)]

(* Strings of some blocks with escapes in each place, in an array and      *)
(* alone.                                                                  *)
Blocks(S, n) == UNION {[1..k -> S] : k \in 0..n}
InArray == {<<"[", "\"">> \o s \o <<"\"", "]">> : s \in Blocks({",", "\"", "\\"}, 6)}
Strings ==     \* those that are closed go on for at most one character
  {t \in {<<"\"">> \o s : s \in Blocks({",", "\"", "\\", "\n"}, 5) \cup Blocks({",", "\"", "\\"}, 8)} :
     \A p \in 1..(Len(t) - 2) : Mode(t, "none")[p] # "close"}

MCTexts(what, c) ==
  CASE what = "item" -> TextsOf[c] \cup (IF c = "none" THEN InArray ELSE {})
    [] what = "string" -> IF c = "none" THEN Strings ELSE {}
    [] OTHER -> All(Characters(c), 4)
(* Words added place by place are added as numbers.                        *)
Number(bits) == SumSet({2 ^ i : i \in bits})
ASSUME WordsAdd ==
  \A a, b \in SUBSET (0..(Block - 1)) :
    Number(a) + Number(b) = Number(SumBits(a, b)) + Carries(a, b)[Block] * 2 ^ Block

MCKeys == {"\"", "}"}
===========================================================================
