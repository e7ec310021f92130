----------------------------- MODULE MCDocuments -----------------------------
(* Instances of Documents: lists of up to three elements of any kind, as   *)
(* arrays, behind paths into classes and arrays, and as lines in up to     *)
(* three parts.                                                            *)
EXTENDS Documents

Lists == SeqOf(Values, 2) \cup {<<"n", "n", "n">>, <<"o", "s", "o">>, <<"s", "n", "s">>}
Joined(list, sep) == IF list = <<>> THEN <<>> ELSE FoldLeft(LAMBDA s, e : s \o sep \o <<e>>, <<list[1]>>, Tail(list))

Brackets2(list, sep) == <<"[">> \o Joined(list, sep) \o <<"]">>
Arrays ==
  {[text |-> Brackets2(list, sep), form |-> "array", type |-> type, path |-> <<>>, parts |-> 0, list |-> 1] :
     list \in Lists, sep \in {<<",">>, <<" ", ",", " ">>}, type \in {"number", "string", "class", "any"}}

(* What is in front of and behind the list, the path, and whether it leads *)
(* to the list.                                                            *)
Index(n) == [name |-> "", index |-> n]
Name(k) == [name |-> k, index |-> 0]
Places ==
  LET member(x) == <<"{", "k", ":">> \o x
  IN {<<member(<<>>), <<"}">>, <<Name("k")>>, TRUE>>,
      <<member(<<"n", ",", " ", "l", " ", ":", " ">>), <<"}">>, <<Name("l")>>, TRUE>>,
      <<member(<<"{", "l", ":", "[", "n", "]", "}", ",", "l", ":">>), <<" ", "}">>, <<Name("l")>>, TRUE>>,
      <<member(<<"{", "l", ":">>), <<"}", ",", "l", ":", "n", "}">>, <<Name("k"), Name("l")>>, TRUE>>,
      <<member(<<"[", " ", "n", ",", "[", "]", ",", "b", " ", ",", " ">>), <<"]", "}">>, <<Name("k"), Index(3)>>, TRUE>>,
      <<member(<<"[", "{", "l", ":">>), <<"}", ",", "s", "]", "}">>, <<Name("k"), Index(0), Name("l")>>, TRUE>>,
      <<member(<<"[", "s", ",", "{", "m", ":", "n", ",", "l", ":">>), <<"}", "]", "}">>, <<Name("k"), Index(1), Name("l")>>, TRUE>>,
      <<member(<<>>), <<"}">>, <<Name("l")>>, FALSE>>,
      <<member(<<>>), <<"}">>, <<Name("k"), Name("l")>>, FALSE>>,
      <<member(<<"n", ",", "l", ":">>), <<"}">>, <<Name("k")>>, FALSE>>,
      <<member(<<"[">>), <<"]", "}">>, <<Name("k"), Index(1)>>, FALSE>>,
      <<member(<<"[">>), <<"]", "}">>, <<Name("k"), Index(2)>>, FALSE>>,
      <<member(<<"[">>), <<"]", "}">>, <<Name("k"), Index(0), Name("l")>>, FALSE>>}
Members ==
  {[text |-> place[1] \o Brackets2(list, <<",">>) \o place[2], form |-> "array", type |-> "number", path |-> place[3],
    parts |-> 0, list |-> IF place[4] THEN Len(place[1]) + 1 ELSE 0] :
     place \in Places, list \in {<<>>, <<"n">>, <<"n", "s">>}}

(* What is no array, or neither array nor class although a path goes on.   *)
Others ==
  {[text |-> text, form |-> "array", type |-> "any", path |-> path, parts |-> 0, list |-> 0] :
     text \in {<<"n">>, <<" ">>, <<" ", "{", "}">>, <<"{", "k", ":", "n", "}">>}, path \in {<<>>, <<Name("k")>>, <<Name("k"), Index(1)>>}}

Lines ==
  {[text |-> front \o Joined(list, sep) \o back, form |-> "lines", type |-> type, path |-> <<>>, parts |-> n, list |-> 1] :
     list \in Lists \cup {<<"o", "o", "o", "o">>}, sep \in {<<"\n">>, <<" ", "\n", "\n">>}, front \in {<<>>, <<"\n">>},
     back \in {<<>>, <<"\n">>}, type \in {"number", "string", "class", "any"}, n \in 1..3}
Whole(d) == d.parts = 1 \/ d.type \in {"string", "class"}    \* numbers are not followed by the end otherwise

MCDocs == Arrays \cup Members \cup Others \cup {d \in Lines : d.text # <<>> /\ Whole(d)}

(* The instance is one of those the theorems are about.                    *)
ASSUME InstanceAssumption == GivenWellWritten
=============================================================================
