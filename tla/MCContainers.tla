---------------------------- MODULE MCContainers ----------------------------
(* Instances of Containers: types of up to three levels, the texts of      *)
(* their values with up to two elements each, and those one token away.    *)
EXTENDS Containers, SequencesExt

Level(k, n) == [kind |-> k, limit |-> n]
Array(n, t) == <<Level("array", n)>> \o t
Map(t) == <<Level("map", Unlimited)>> \o t
Pairs(n) == <<Level("pairs", n), Level("pair", Unlimited)>>
Number == <<Level("number", Unlimited)>>
String == <<Level("string", Unlimited)>>

MCTypes == {Array(Unlimited, Number), Array(2, Number), Array(Unlimited, Array(1, Number)),
            Array(2, Map(Number)), Array(Unlimited, Map(String)),
            Map(Number), Map(Array(1, String)), Map(Map(Number)),
            Pairs(Unlimited), Pairs(1), Array(Unlimited, Pairs(Unlimited)), Map(Pairs(1))}

(* The texts of the values of a type with up to two elements each.         *)
Joined(parts) == IF Len(parts) = 2 THEN parts[1] \o <<",">> \o parts[2] ELSE FlattenSeq(parts)
Bracketed(t, parts) == <<Opener(t)>> \o Joined(parts) \o <<ClosingOf(t)>>
Written(t) ==
  LET written[i \in DOMAIN t] ==
        IF i = Len(t) THEN {<<Opener(t[i])>>}
        ELSE LET keyed == {IF t[i].kind = "map" THEN <<"s", ":">> \o s ELSE s : s \in written[i + 1]}
             IN {Bracketed(t[i], parts) : parts \in SeqOf(keyed, 2)}
  IN written[1]

(* Those texts, also with something behind them and with one token too     *)
(* many, missing or changed.                                               *)
Edited(texts) ==
  LET places == {<<s, i>> : s \in texts, i \in 1..14}
      inside == {x \in places : x[2] \in DOMAIN x[1]}
      symbols == Symbols \ {"\n"}
  IN texts \cup {RemoveAt(x[1], x[2]) : x \in inside}
           \cup {ReplaceAt(x[1], x[2], c) : x \in inside, c \in symbols}
           \cup {InsertAt(x[1], x[2], c) : x \in inside, c \in symbols}
           \cup {Append(s, c) : s \in texts, c \in symbols}

MCTexts == [t \in MCTypes |-> Edited(Written(t)) \ {<<>>}]
=============================================================================
