-------------------------- MODULE Containers_proofs --------------------------
(***************************************************************************)
(* Proofs about Containers, for types of any depth and texts of any length.*)
(*                                                                         *)
(* What has been accepted is JSON: the brackets that are open where the    *)
(* cursor is are those of the containers on the stack, and the last token  *)
(* is one behind which the phase may be (OnTrack). That is lost when an    *)
(* inner container is short of room, so it is claimed of types where none  *)
(* can be.                                                                 *)
(*                                                                         *)
(* A text that is JSON and of the type is accepted, with all its elements: *)
(* the cursor is where the next element begins or behind the container     *)
(* (Ready), every container on the stack has taken its elements up to the  *)
(* cursor or to the container inside it, and the containers noted as       *)
(* filled have all of theirs (Kept). From there on the cursor goes astray  *)
(* only where there is an excuse, and then the text is refused. Of the     *)
(* brackets, which are defined by recursion, only the step from one        *)
(* character to the next is used.                                          *)
(***************************************************************************)
EXTENDS Containers, Positions, FiniteSetTheorems

------------------------------------------------------------------------------
(* The text and its tokens.                                                *)

TextOK == text \in Seq(Symbols) /\ text # <<>>

(* A text and its characters: behind its end there is NUL, and its tokens  *)
(* are in it.                                                              *)
LEMMA TextFacts ==
  ASSUME TextOK
  PROVE  /\ Len(text) \in Nat \ {0} /\ EndOfText = Len(text) + 1 /\ EndOfText \in Nat
         /\ \A p \in 1 .. Len(text) : text[p] \in Symbols /\ At(text, p) = text[p]
         /\ \A p : p \notin 1 .. Len(text) => At(text, p) = NUL
         /\ Tokens \subseteq 1 .. Len(text)
<1>1. text \in Seq(Symbols) /\ text # <<>>
  BY DEF TextOK
<1>2. Len(text) \in Nat \ {0} /\ \A p \in 1 .. Len(text) : text[p] \in Symbols
  BY <1>1
<1>3. EndOfText = Len(text) + 1
  BY DEF EndOfText
<1>4. EndOfText \in Nat
  BY <1>2, <1>3
<1> QED
  BY <1>2, <1>3, <1>4 DEF At, Tokens

(* What stands behind the end is neither a space nor a token.              *)
LEMMA NulIsNothing ==
  NUL \notin Space /\ NUL \notin Starts /\ NUL \notin Right /\ NUL \notin {",", ":"}
BY DEF NUL, Space, Starts, Right

(* Trimming passes spaces only: it comes to a token or to the end of the   *)
(* text, and stays at a token.                                             *)
LEMMA TrimIs ==
  ASSUME TextOK, NEW p \in 1 .. EndOfText
  PROVE  /\ Trim(p) \in p .. EndOfText
         /\ Trim(p) # EndOfText => Trim(p) \in Tokens
         /\ \A x \in Tokens : x < Trim(p) <=> x < p
         /\ p \in Tokens => Trim(p) = p
<1> DEFINE n == Len(text)
           stops == {q \in p .. EndOfText : At(text, q) \notin Space}
<1>1. n \in Nat /\ EndOfText = n + 1
  BY TextFacts
<1>2. EndOfText \in stops
  <2>1. EndOfText \in p .. EndOfText /\ EndOfText \notin 1 .. n
    BY <1>1
  <2>2. At(text, EndOfText) = NUL
    BY <2>1, TextFacts
  <2> QED
    BY <2>1, <2>2, NulIsNothing
<1>3. PICK s \in stops : \A q \in stops : s <= q
  <2>1. stops \in SUBSET Nat
    BY <1>1
  <2> HIDE DEF stops
  <2> QED
    BY <1>2, <2>1, LeastExists
<1>4. ASSUME NEW r \in p .. (s - 1) PROVE text[r] \in Space
  <2>1. r \in p .. EndOfText /\ ~ (s <= r) /\ r \in 1 .. n
    BY <1>1
  <2>2. At(text, r) \in Space
    BY <1>3, <2>1
  <2> QED
    BY <2>1, <2>2, TextFacts
<1>5. \E q \in p .. EndOfText : At(text, q) \notin Space /\ \A r \in p .. (q - 1) : text[r] \in Space
  BY <1>3, <1>4
<1>6. Trim(p) \in p .. EndOfText /\ At(text, Trim(p)) \notin Space /\ \A r \in p .. (Trim(p) - 1) : text[r] \in Space
  <2> HIDE DEF n
  <2> QED
    BY <1>5, Zenon DEF Trim
<1> DEFINE t == Trim(p)
<1>7. t \in p .. EndOfText /\ At(text, t) \notin Space /\ \A r \in p .. (t - 1) : text[r] \in Space
  BY <1>6
<1> HIDE DEF t
<1>8. t # EndOfText => t \in Tokens
  <2>1. t # EndOfText => t \in 1 .. n
    BY <1>1, <1>7
  <2> QED
    BY <1>7, <2>1, TextFacts DEF Tokens
<1>9. ASSUME NEW x \in Tokens PROVE x < t <=> x < p
  <2>1. x \in 1 .. n /\ text[x] \notin Space
    BY DEF Tokens
  <2>2. x \notin p .. (t - 1)
    BY <1>7, <2>1
  <2> QED
    BY <1>1, <1>7, <2>1, <2>2
<1>10. p \in Tokens => t = p
  <2>1. p \in Tokens => p \notin p .. (t - 1)
    BY <1>7 DEF Tokens
  <2> QED
    BY <1>1, <1>7, <2>1
<1> QED
  BY <1>7, <1>8, <1>9, <1>10 DEF t

(* The token before a position is the last one in front of it.             *)
LEMMA BeforeIs ==
  ASSUME TextOK, NEW p \in 0 .. EndOfText
  PROVE  /\ Before(p) \in 0 .. Len(text) /\ Before(p) <= p
         /\ Before(p) # 0 => Before(p) \in Tokens /\ Before(p) < p
         /\ \A x \in Tokens : x < p => x <= Before(p)
<1> DEFINE seen == {x \in Tokens : x < p}
<1>1. Len(text) \in Nat /\ EndOfText = Len(text) + 1 /\ Tokens \subseteq 1 .. Len(text)
  BY TextFacts
<1>2. CASE seen = {}
  <2>1. Before(p) = 0
    BY <1>2 DEF Before
  <2> QED
    BY <1>1, <1>2, <2>1
<1>3. CASE seen # {}
  <2>1. \E x \in seen : \A y \in seen : y <= x
    <3>1. seen \in SUBSET (0 .. Len(text))
      <4>1. \A x \in Tokens : x \in 0 .. Len(text)
        BY <1>1
      <4> QED
        BY <4>1
    <3> HIDE DEF seen
    <3> QED
      BY <1>1, <1>3, <3>1, GreatestExists
  <2>2. Before(p) = CHOOSE x \in seen : \A y \in seen : y <= x
    BY <1>3, Zenon DEF Before
  <2>3. Before(p) \in seen /\ \A y \in seen : y <= Before(p)
    <3> HIDE DEF seen
    <3> QED
      BY <2>1, <2>2, Zenon
  <2> DEFINE b == Before(p)
  <2>4. b \in seen /\ \A y \in seen : y <= b
    BY <2>3
  <2> HIDE DEF b
  <2>5. b \in Tokens /\ b < p /\ b \in 0 .. Len(text) /\ b <= p /\ \A x \in Tokens : x < p => x <= b
    BY <1>1, <2>4
  <2> QED
    BY <2>5 DEF b
<1> QED
  BY <1>2, <1>3

(* Positions with the same tokens in front of them have the same one       *)
(* before them.                                                            *)
LEMMA BeforeSame ==
  ASSUME TextOK, NEW p \in 0 .. EndOfText, NEW q \in 0 .. EndOfText,
         \A x \in Tokens : x < p <=> x < q
  PROVE  Before(p) = Before(q)
<1> DEFINE a == Before(p)
           b == Before(q)
<1>1. /\ a \in 0 .. Len(text) /\ (a # 0 => a \in Tokens /\ a < p) /\ \A x \in Tokens : x < p => x <= a
      /\ b \in 0 .. Len(text) /\ (b # 0 => b \in Tokens /\ b < q) /\ \A x \in Tokens : x < q => x <= b
  BY BeforeIs
<1>2. Len(text) \in Nat
  BY TextFacts
<1> HIDE DEF a, b
<1>3. (a # 0 => a <= b) /\ (b # 0 => b <= a)
  BY <1>1
<1>4. a = b
  BY <1>1, <1>2, <1>3
<1> QED
  BY <1>4 DEF a, b

(* Trimming does not change the token before the cursor.                   *)
LEMMA BeforeTrim ==
  ASSUME TextOK, NEW p \in 1 .. EndOfText
  PROVE  Before(Trim(p)) = Before(p)
<1>1. Len(text) \in Nat /\ EndOfText = Len(text) + 1
  BY TextFacts
<1>2. Trim(p) \in 0 .. EndOfText /\ p \in 0 .. EndOfText /\ \A x \in Tokens : x < Trim(p) <=> x < p
  <2>1. Trim(p) \in p .. EndOfText /\ \A x \in Tokens : x < Trim(p) <=> x < p
    BY TrimIs
  <2> HIDE DEF Trim
  <2> QED
    BY <1>1, <2>1
<1> QED
  BY <1>2, BeforeSame

(* Before the position behind a token is that token.                       *)
LEMMA BeforeNext ==
  ASSUME TextOK, NEW p \in Tokens
  PROVE  /\ p + 1 \in 1 .. EndOfText /\ Before(p + 1) = p
         /\ \A x \in Tokens : x < p + 1 <=> x < p \/ x = p
<1>1. Len(text) \in Nat /\ EndOfText = Len(text) + 1 /\ Tokens \subseteq 1 .. Len(text)
  BY TextFacts
<1>2. p + 1 \in 1 .. EndOfText /\ p + 1 \in 0 .. EndOfText /\ \A x \in Tokens : x < p + 1 <=> x < p \/ x = p
  BY <1>1
<1>3. /\ Before(p + 1) # 0 => Before(p + 1) \in Tokens /\ Before(p + 1) < p + 1
      /\ \A x \in Tokens : x < p + 1 => x <= Before(p + 1)
  BY <1>2, BeforeIs
<1> DEFINE b == Before(p + 1)
<1>4. (b # 0 => b \in Tokens /\ b < p + 1) /\ \A x \in Tokens : x < p + 1 => x <= b
  BY <1>3
<1> HIDE DEF b
<1>5. b = p
  <2>1. p <= b /\ p \in 1 .. Len(text)
    BY <1>1, <1>2, <1>4
  <2>2. b # 0 => b \in 1 .. Len(text)
    BY <1>1, <1>4
  <2> QED
    BY <1>1, <1>4, <2>1, <2>2
<1> QED
  BY <1>2, <1>5 DEF b

------------------------------------------------------------------------------
(* The brackets that are open.                                             *)

(* What a character c does to the brackets that are open in front of it.   *)
Effect(before, c) ==
  IF before = <<"bad">> THEN before
  ELSE CASE c \in Left -> <<c>> \o before
         [] c \in Right -> (IF before # <<>> /\ c = Partner(before[1]) THEN Tail(before) ELSE <<"bad">>)
         [] OTHER -> before

(* A character leaves a sequence of open brackets, or the mark of a bad    *)
(* one.                                                                    *)
LEMMA EffectType ==
  ASSUME NEW b \in Seq(Left \cup {"bad"}), NEW c
  PROVE  Effect(b, c) \in Seq(Left \cup {"bad"})
<1> DEFINE X == Left \cup {"bad"}
<1>1. "bad" \in X /\ <<"bad">> \in Seq(X)
  <2>1. "bad" \in X
    OBVIOUS
  <2> HIDE DEF X
  <2> QED
    BY <2>1
<1>2. ASSUME c \in Left PROVE <<c>> \o b \in Seq(X)
  BY <1>2
<1>3. ASSUME b # <<>> PROVE Tail(b) \in Seq(X)
  BY <1>3
<1>4. Left \cap Right = {}
  BY DEF Left, Right
<1> QED
  BY <1>1, <1>2, <1>3, <1>4, Zenon DEF Effect

(* What BracketsAfter says of a character that is not in a string is its   *)
(* effect.                                                                 *)
LEMMA EffectIs ==
  ASSUME TextOK, NEW p \in 1 .. Len(text), NEW code, code[p] = "code", NEW b
  PROVE  BracketsAfter(text, code, b, p) = Effect(b, text[p])
<1>1. text[p] \in Symbols
  BY TextFacts
<1>2. text[p] # "\\"
  BY <1>1 DEF Symbols, Starts, Right, Space
<1>3. Left \cap Right = {}
  BY DEF Left, Right
<1>4. CASE b = <<"bad">>
  BY <1>4, Zenon DEF BracketsAfter, Effect
<1>5. CASE b # <<"bad">>
  <2>1. CASE text[p] \in Left
    BY <1>2, <1>3, <1>5, <2>1, Zenon DEF BracketsAfter, Effect
  <2>2. CASE text[p] \in Right
    BY <1>2, <1>3, <1>5, <2>2, Zenon DEF BracketsAfter, Effect
  <2>3. CASE text[p] \notin Left /\ text[p] \notin Right
    BY <1>2, <1>5, <2>3, Zenon DEF BracketsAfter, Effect
  <2> QED
    BY <2>1, <2>2, <2>3
<1> QED
  BY <1>4, <1>5

(* The open brackets, from each character to the next.                     *)
LEMMA OpenedIs ==
  ASSUME TextOK
  PROVE  /\ Opened[0] = <<>> /\ \A p \in 1 .. Len(text) : Opened[p] = Effect(Opened[p - 1], text[p])
         /\ \A p \in 0 .. Len(text) : Opened[p] \in Seq(Left \cup {"bad"})
<1> DEFINE n == Len(text)
           code == [p \in DOMAIN text |-> "code"]
           X == Left \cup {"bad"}
           step == [p \in 1 .. n |-> [b \in Seq(X) |-> Effect(b, text[p])]]
<1>1. n \in Nat /\ DOMAIN text = 1 .. n
  BY TextFacts DEF TextOK
<1>2. \A p \in 1 .. n : \A b : BracketsAfter(text, code, b, p) = Effect(b, text[p])
  <2> SUFFICES ASSUME NEW p \in 1 .. n, NEW b PROVE BracketsAfter(text, code, b, p) = Effect(b, text[p])
    OBVIOUS
  <2>1. code[p] = "code"
    BY <1>1
  <2> HIDE DEF code
  <2> QED
    BY <2>1, EffectIs
<1>3. PICK g : GoesUp(g, n, <<>>, step)
  <2> HIDE DEF step
  <2> QED
    BY <1>1, UpwardRecursion
<1>4. g = [p \in 0 .. n |-> g[p]] /\ g[0] = <<>> /\ \A p \in 1 .. n : g[p] = step[p][g[p - 1]]
  BY <1>3 DEF GoesUp
<1>5. \A p \in 0 .. n : g[p] \in Seq(X)
  <2> DEFINE Typed == {p \in 0 .. n : g[p] \in Seq(X)}
  <2>1. 0 \in Typed
    <3>1. <<>> \in Seq(X) /\ 0 \in 0 .. n
      BY <1>1
    <3> HIDE DEF n, X
    <3> QED
      BY <1>4, <3>1
  <2>2. ASSUME NEW p \in 1 .. n, p - 1 \in Typed PROVE p \in Typed
    <3>1. g[p - 1] \in Seq(X) /\ p \in 0 .. n
      BY <2>2
    <3>2. g[p] = Effect(g[p - 1], text[p])
      BY <1>4, <3>1
    <3> QED
      BY <3>1, <3>2, EffectType
  <2> HIDE DEF Typed
  <2>3. \A p \in (0 + 1) .. n : p - 1 \in Typed => p \in Typed
    BY <2>2
  <2>4. \A p \in 0 .. n : p \in Typed
    BY <1>1, <2>1, <2>3, UpFrom
  <2> QED
    BY <2>4 DEF Typed
<1>6. \A p \in 1 .. n : g[p] = Effect(g[p - 1], text[p])
  <2> SUFFICES ASSUME NEW p \in 1 .. n PROVE g[p] = Effect(g[p - 1], text[p])
    OBVIOUS
  <2>1. g[p - 1] \in Seq(X)
    <3>1. p - 1 \in 0 .. n
      BY <1>1
    <3> QED
      BY <1>5, <3>1
  <2> QED
    BY <1>4, <2>1
<1> HIDE DEF step, code
<1>7. g = [p \in 0 .. n |-> IF p = 0 THEN <<>> ELSE BracketsAfter(text, code, g[p - 1], p)]
  <2>1. \A p \in 0 .. n : p = 0 \/ p \in 1 .. n
    BY <1>1
  <2>2. \A p \in 0 .. n : g[p] = IF p = 0 THEN <<>> ELSE BracketsAfter(text, code, g[p - 1], p)
    <3> HIDE DEF n
    <3>1. ASSUME NEW p \in 1 .. n PROVE g[p] = BracketsAfter(text, code, g[p - 1], p) /\ p # 0
      <4>1. g[p] = Effect(g[p - 1], text[p])
        BY <1>6, Zenon
      <4>2. BracketsAfter(text, code, g[p - 1], p) = Effect(g[p - 1], text[p])
        BY <1>2, Zenon
      <4>3. p # 0
        BY <1>1
      <4> QED
        BY <4>1, <4>2, <4>3, Zenon
    <3> QED
      BY <1>4, <2>1, <3>1, Zenon
  <2> QED
    BY <1>4, <2>2, Zenon
<1> DEFINE read == CHOOSE f : f = [p \in 0 .. Len(text) |-> IF p = 0 THEN <<>> ELSE BracketsAfter(text, code, f[p - 1], p)]
<1>8. read = [p \in 0 .. n |-> IF p = 0 THEN <<>> ELSE BracketsAfter(text, code, read[p - 1], p)]
  BY <1>7, Zenon
<1>9. Opened = read
  BY Zenon DEF Opened, code
<1> HIDE DEF read
<1>10. read[0] = <<>> /\ \A p \in 1 .. n : read[p] = BracketsAfter(text, code, read[p - 1], p)
  <2>1. 0 \in 0 .. n /\ \A p \in 1 .. n : p \in 0 .. n /\ p # 0
    BY <1>1
  <2> HIDE DEF n
  <2> QED
    BY <1>8, <2>1, Zenon
<1>11. \A p \in 1 .. n : read[p] = Effect(read[p - 1], text[p])
  BY <1>2, <1>10, Zenon
<1>12. \A p \in 0 .. n : read[p] \in Seq(X)
  <2> DEFINE Typed == {p \in 0 .. n : read[p] \in Seq(X)}
  <2>1. 0 \in Typed
    <3>1. <<>> \in Seq(X) /\ 0 \in 0 .. n
      BY <1>1
    <3> HIDE DEF n, X
    <3> QED
      BY <1>10, <3>1
  <2>2. ASSUME NEW p \in 1 .. n, p - 1 \in Typed PROVE p \in Typed
    <3>1. read[p - 1] \in Seq(X) /\ p \in 0 .. n
      BY <2>2
    <3> QED
      BY <1>11, <3>1, EffectType
  <2> HIDE DEF Typed
  <2>3. \A p \in (0 + 1) .. n : p - 1 \in Typed => p \in Typed
    BY <2>2
  <2>4. \A p \in 0 .. n : p \in Typed
    BY <1>1, <2>1, <2>3, UpFrom
  <2> QED
    BY <2>4 DEF Typed
<1> QED
  BY <1>9, <1>10, <1>11, <1>12

Behind(p) == Opened[Before(p)]

(* Only tokens open and close brackets: what is open behind one follows    *)
(* from the token before it.                                               *)
LEMMA TokenOpens ==
  ASSUME TextOK, NEW q \in Tokens
  PROVE  Opened[q] = Effect(Behind(q), text[q])
<1>1. Len(text) \in Nat /\ EndOfText = Len(text) + 1 /\ q \in 1 .. Len(text)
  BY TextFacts
<1>2. q \in 0 .. EndOfText
  BY <1>1
<1> DEFINE b == Before(q)
           Same == {r \in b .. (q - 1) : Opened[r] = Opened[b]}
<1>3. b \in 0 .. Len(text) /\ b <= q /\ (b # 0 => b < q) /\ \A x \in Tokens : x < q => x <= b
  BY <1>2, BeforeIs
<1> HIDE DEF b
<1>4. b \in Same /\ b \in Nat /\ q - 1 \in Nat
  BY <1>1, <1>3
<1>5. ASSUME NEW r \in (b + 1) .. (q - 1), r - 1 \in Same PROVE r \in Same
  <2>1. r \in 1 .. Len(text) /\ r < q /\ ~ (r <= b) /\ r \in b .. (q - 1)
    BY <1>1, <1>3
  <2>2. r \notin Tokens
    BY <1>3, <2>1
  <2>3. text[r] \in Space
    BY <2>1, <2>2 DEF Tokens
  <2>4. text[r] \notin Left /\ text[r] \notin Right
    BY <2>3 DEF Space, Left, Right
  <2>5. Opened[r] = Effect(Opened[r - 1], text[r])
    BY <2>1, OpenedIs
  <2>6. Opened[r] = Opened[r - 1]
    BY <2>4, <2>5, Zenon DEF Effect
  <2>7. Opened[r - 1] = Opened[b]
    BY <1>5
  <2> QED
    BY <2>1, <2>6, <2>7
<1> HIDE DEF Same
<1>6. q - 1 \in Same
  <2>1. \A r \in b .. (q - 1) : r \in Same
    BY <1>4, <1>5, UpFrom
  <2>2. q - 1 \in b .. (q - 1)
    BY <1>1, <1>3
  <2> QED
    BY <2>1, <2>2
<1>7. Opened[q - 1] = Opened[b]
  BY <1>6 DEF Same
<1> QED
  BY <1>1, <1>7, OpenedIs, Zenon DEF Behind, b

------------------------------------------------------------------------------
(* The type and what is open in its containers.                            *)

(* The brackets of the outermost k containers of the type.                 *)
Nest(k) == [i \in 1 .. k |-> Opener(type[k + 1 - i])]

(* What a type says of each of its levels.                                 *)
LEMMA TypeFacts ==
  ASSUME IsType(type)
  PROVE  /\ Len(type) \in Nat \ {0} /\ DOMAIN type = 1 .. Len(type)
         /\ \A i \in 1 .. Len(type) :
              /\ type[i].kind \in Containers <=> i < Len(type)
              /\ type[i].kind \notin Containers => type[i].kind \in {"number", "string", "pair"}
              /\ type[i].limit \in Nat \cup {Unlimited} /\ type[i].limit # 0
              /\ type[i].kind = "map" => type[i].limit = Unlimited
              /\ type[i].kind = "pairs" => i + 1 \in 1 .. Len(type) /\ type[i + 1].kind = "pair"
<1> DEFINE Level == [kind : Containers \cup DOMAIN Token, limit : Nat \cup {Unlimited}]
<1>1. /\ type \in Seq(Level) /\ type # <<>>
      /\ \A i \in DOMAIN type : (type[i].kind \in Containers) = (i < Len(type))
      /\ \A i \in DOMAIN type : type[i].kind = "pairs" => type[i + 1].kind = "pair"
      /\ \A i \in DOMAIN type : type[i].limit # 0 /\ (type[i].kind = "map" => type[i].limit = Unlimited)
  BY DEF IsType
<1>2. \A l \in Level : l.kind \in Containers \cup DOMAIN Token /\ l.limit \in Nat \cup {Unlimited}
  OBVIOUS
<1> HIDE DEF Level
<1>3. Len(type) \in Nat \ {0} /\ DOMAIN type = 1 .. Len(type) /\ \A i \in 1 .. Len(type) : type[i] \in Level
  BY <1>1
<1>4. DOMAIN Token = {"number", "string", "pair"}
  BY DEF Token
<1>5. ASSUME NEW i \in 1 .. Len(type)
      PROVE  /\ type[i].kind \in Containers <=> i < Len(type)
             /\ type[i].kind \notin Containers => type[i].kind \in {"number", "string", "pair"}
             /\ type[i].limit \in Nat \cup {Unlimited} /\ type[i].limit # 0
             /\ type[i].kind = "map" => type[i].limit = Unlimited
             /\ type[i].kind = "pairs" => type[i + 1].kind = "pair"
  <2>1. i \in DOMAIN type /\ type[i] \in Level
    BY <1>3
  <2> QED
    BY <1>1, <1>2, <1>4, <2>1, Zenon
<1>6. ASSUME NEW i \in 1 .. Len(type), type[i].kind = "pairs" PROVE i + 1 \in 1 .. Len(type)
  <2>1. i < Len(type)
    BY <1>5, <1>6 DEF Containers
  <2> QED
    BY <1>3, <2>1
<1> QED
  BY <1>3, <1>5, <1>6

(* The levels of the containers among those of the type.                   *)
LEMMA LevelIs ==
  ASSUME IsType(type)
  PROVE  /\ Len(type) \in Nat \ {0}
         /\ \A k \in 1 .. (Len(type) - 1) :
              k \in 0 .. (Len(type) - 1) /\ k # 0 /\ k \in 1 .. Len(type) /\ k < Len(type)
<1>1. Len(type) \in Nat \ {0}
  BY TypeFacts
<1> QED
  BY <1>1

(* A container's values begin with its bracket, which its closing bracket  *)
(* matches; a scalar's with its token.                                     *)
LEMMA OpenerIs ==
  ASSUME IsType(type), NEW i \in 1 .. Len(type)
  PROVE  /\ i < Len(type) => /\ Opener(type[i]) = IF type[i].kind = "map" THEN "{" ELSE "["
                             /\ Opener(type[i]) \in Left /\ ClosingOf(type[i]) = Partner(Opener(type[i]))
                             /\ ClosingOf(type[i]) \in Right
         /\ i = Len(type) => /\ Opener(type[i]) = Token[type[i].kind] /\ Opener(type[i]) \in {"n", "s", "o"}
                             /\ Opener(type[i]) = "n" <=> type[i].kind = "number"
<1>1. CASE i < Len(type)
  <2>0. i # Len(type)
    <3>1. Len(type) \in Nat
      BY TypeFacts
    <3>2. \A m \in Nat : i < m => i # m
      OBVIOUS
    <3> QED
      BY <1>1, <3>1, <3>2, Zenon
  <2>1. type[i].kind \in Containers /\ i # Len(type)
    BY <1>1, <2>0, TypeFacts, Zenon
  <2>2. Opener(type[i]) = IF type[i].kind = "map" THEN "{" ELSE "["
    BY <2>1, Zenon DEF Opener
  <2> QED
    BY <2>1, <2>2 DEF Left, Right, ClosingOf, Partner
<1>2. CASE i = Len(type)
  <2>1. type[i].kind \notin Containers /\ type[i].kind \in {"number", "string", "pair"} /\ ~ (i < Len(type))
    BY <1>2, TypeFacts
  <2>2. type[i].kind # "map"
    BY <2>1
  <2>3. Opener(type[i]) = Token[type[i].kind]
    BY <2>1, <2>2, Zenon DEF Opener
  <2>4. Token["number"] = "n" /\ Token["string"] = "s" /\ Token["pair"] = "o"
    BY DEF Token
  <2>5. Opener(type[i]) \in {"n", "s", "o"} /\ (Opener(type[i]) = "n" <=> type[i].kind = "number")
    <3>1. CASE type[i].kind = "number"
      BY <2>3, <2>4, <3>1
    <3>2. CASE type[i].kind = "string"
      BY <2>3, <2>4, <3>2
    <3>3. CASE type[i].kind = "pair"
      BY <2>3, <2>4, <3>3
    <3> QED
      BY <2>1, <3>1, <3>2, <3>3
  <2> QED
    BY <2>1, <2>3, <2>5
<1>3. i < Len(type) \/ i = Len(type)
  <2>1. Len(type) \in Nat
    BY TypeFacts
  <2> QED
    BY <2>1
<1> QED
  BY <1>1, <1>2, <1>3

(* The brackets of the outer containers: one more is one bracket in front. *)
LEMMA NestIs ==
  ASSUME IsType(type), NEW k \in 0 .. (Len(type) - 1)
  PROVE  /\ Nest(k) \in Seq(Left) /\ Len(Nest(k)) = k /\ Nest(k) # <<"bad">>
         /\ k = 0 => Nest(k) = <<>>
         /\ k # 0 => Nest(k) # <<>> /\ Nest(k)[1] = Opener(type[k]) /\ Tail(Nest(k)) = Nest(k - 1)
         /\ k + 1 < Len(type) => <<Opener(type[k + 1])>> \o Nest(k) = Nest(k + 1)
<1>1. Len(type) \in Nat \ {0}
  BY TypeFacts
<1>2. \A i \in 1 .. k : k + 1 - i \in 1 .. Len(type) /\ k + 1 - i < Len(type)
  BY <1>1
<1>3. \A i \in 1 .. k : Opener(type[k + 1 - i]) \in Left
  BY <1>2, OpenerIs
<1>4. DOMAIN Nest(k) = 1 .. k /\ \A i \in 1 .. k : Nest(k)[i] = Opener(type[k + 1 - i])
  BY DEF Nest
<1>5. Nest(k) \in Seq(Left) /\ Len(Nest(k)) = k
  BY <1>3 DEF Nest
<1>6. Nest(k) # <<"bad">>
  <2>1. k = 1 => Nest(k)[1] # "bad"
    <3>1. k = 1 => 1 \in 1 .. k
      OBVIOUS
    <3>2. k = 1 => Nest(k)[1] \in Left
      BY <1>3, <1>4, <3>1, Zenon
    <3> QED
      BY <3>2 DEF Left
  <2>2. Len(<<"bad">>) = 1 /\ <<"bad">>[1] = "bad"
    OBVIOUS
  <2> QED
    BY <1>5, <2>1, <2>2
<1>7. k = 0 => Nest(k) = <<>>
  BY <1>5
<1>8. ASSUME k # 0 PROVE Nest(k) # <<>> /\ Nest(k)[1] = Opener(type[k]) /\ Tail(Nest(k)) = Nest(k - 1)
  <2>1. k \in Nat \ {0} /\ 1 \in 1 .. k /\ (k + 1) - 1 = k
    BY <1>1, <1>8
  <2>2. Nest(k)[1] = Opener(type[k])
    BY <1>4, <2>1
  <2>3. Len(Nest(k - 1)) = k - 1 /\ Nest(k - 1) \in Seq(Left)
    <3>1. \A i \in 1 .. (k - 1) : (k - 1) + 1 - i \in 1 .. Len(type) /\ (k - 1) + 1 - i < Len(type)
      BY <1>1, <2>1
    <3>2. \A i \in 1 .. (k - 1) : Opener(type[(k - 1) + 1 - i]) \in Left
      BY <3>1, OpenerIs
    <3> QED
      BY <2>1, <3>2 DEF Nest
  <2>4. \A i \in 1 .. (k - 1) : Nest(k - 1)[i] = Opener(type[k - i])
    <3>1. \A i \in 1 .. (k - 1) : (k - 1) + 1 - i = k - i
      BY <2>1
    <3> QED
      BY <3>1 DEF Nest
  <2>5. \A i \in 1 .. (k - 1) : Tail(Nest(k))[i] = Opener(type[k - i])
    <3>1. \A i \in 1 .. (k - 1) : i + 1 \in 1 .. k /\ (k + 1) - (i + 1) = k - i
      BY <2>1
    <3>2. \A i \in 1 .. (k - 1) : Tail(Nest(k))[i] = Nest(k)[i + 1]
      BY <1>5, <2>1
    <3> QED
      BY <1>4, <3>1, <3>2
  <2>6. Tail(Nest(k)) \in Seq(Left) /\ Len(Tail(Nest(k))) = k - 1
    BY <1>5, <2>1
  <2> DEFINE s == Tail(Nest(k))
             t == Nest(k - 1)
  <2>7. s \in Seq(Left) /\ t \in Seq(Left) /\ Len(s) = k - 1 /\ Len(t) = k - 1 /\ \A i \in 1 .. (k - 1) : s[i] = t[i]
    BY <2>3, <2>4, <2>5, <2>6
  <2> HIDE DEF s, t
  <2>8. s = t
    BY <2>7
  <2> QED
    BY <1>5, <2>1, <2>2, <2>8 DEF s, t
<1>9. ASSUME k + 1 < Len(type) PROVE <<Opener(type[k + 1])>> \o Nest(k) = Nest(k + 1)
  <2>1. k + 1 \in 1 .. Len(type) /\ k \in Nat
    BY <1>1, <1>9
  <2> DEFINE b == Opener(type[k + 1])
             s == <<b>> \o Nest(k)
             t == Nest(k + 1)
  <2>2. b \in Left
    BY <1>9, <2>1, OpenerIs
  <2>3. s \in Seq(Left) /\ Len(s) = k + 1 /\ s[1] = b /\ \A i \in 2 .. (k + 1) : s[i] = Nest(k)[i - 1]
    <3> HIDE DEF b
    <3> QED
      BY <1>5, <2>1, <2>2
  <2>4. t = [i \in 1 .. (k + 1) |-> Opener(type[(k + 1) + 1 - i])]
    BY DEF Nest
  <2>5. t[1] = b
    <3>1. 1 \in 1 .. (k + 1) /\ (k + 1) + 1 - 1 = k + 1
      BY <2>1
    <3> QED
      BY <2>4, <3>1
  <2>6. \A i \in 2 .. (k + 1) : t[i] = s[i]
    <3> SUFFICES ASSUME NEW i \in 2 .. (k + 1) PROVE t[i] = s[i]
      OBVIOUS
    <3>1. i \in 1 .. (k + 1) /\ i - 1 \in 1 .. k /\ (k + 1) + 1 - i = k + 1 - (i - 1)
      BY <2>1
    <3>2. t[i] = Opener(type[k + 1 - (i - 1)])
      BY <2>4, <3>1
    <3>3. s[i] = Opener(type[k + 1 - (i - 1)])
      BY <1>4, <2>3, <3>1
    <3> QED
      BY <3>2, <3>3
  <2>7. DOMAIN s = 1 .. (k + 1) /\ s = [i \in 1 .. (k + 1) |-> s[i]]
    <3> HIDE DEF s
    <3> QED
      BY <2>3
  <2>8. \A i \in 1 .. (k + 1) : i = 1 \/ i \in 2 .. (k + 1)
    BY <2>1
  <2> HIDE DEF s, b
  <2>9. \A i \in 1 .. (k + 1) : s[i] = t[i]
    BY <2>3, <2>5, <2>6, <2>8, Zenon
  <2>10. s = t
    BY <2>4, <2>7, <2>9
  <2> QED
    BY <2>10 DEF s, b
<1> QED
  BY <1>5, <1>6, <1>7, <1>8, <1>9

------------------------------------------------------------------------------
(* Moving the cursor over one token.                                       *)

LEMMA TokenAt ==
  ASSUME TextOK, NEW p, At(text, p) \notin Space, At(text, p) # NUL
  PROVE  p \in Tokens /\ text[p] = At(text, p)
<1>1. p \in 1 .. Len(text)
  BY TextFacts
<1>2. At(text, p) = text[p]
  BY <1>1, TextFacts
<1> QED
  BY <1>1, <1>2 DEF Tokens

(* The position behind a token, with or without what follows it trimmed.   *)
Past(q, p) == p = q + 1 \/ p = Trim(q + 1)

(* Behind a token, trimmed or not, the cursor has that token before it.    *)
LEMMA PastIs ==
  ASSUME TextOK, NEW q \in Tokens, NEW p, Past(q, p)
  PROVE  /\ p \in 1 .. EndOfText /\ q < p /\ q # 0
         /\ Before(p) = q /\ Behind(p) = Opened[q]
         /\ \A x \in Tokens : x < p <=> x < q \/ x = q
<1>1. q \in 1 .. Len(text) /\ Len(text) \in Nat /\ EndOfText = Len(text) + 1
  BY TextFacts
<1>2. /\ q + 1 \in 1 .. EndOfText /\ Before(q + 1) = q
      /\ \A x \in Tokens : x < q + 1 <=> x < q \/ x = q
  BY BeforeNext
<1>3. CASE p = q + 1
  BY <1>1, <1>2, <1>3 DEF Behind
<1>4. CASE p = Trim(q + 1)
  <2>1. p \in (q + 1) .. EndOfText /\ \A x \in Tokens : x < p <=> x < q + 1
    BY <1>2, <1>4, TrimIs
  <2>2. Before(p) = q
    BY <1>2, <1>4, BeforeTrim
  <2>3. p \in 1 .. EndOfText /\ q < p /\ q # 0
    BY <1>1, <2>1
  <2> QED
    BY <1>2, <2>1, <2>2, <2>3 DEF Behind
<1> QED
  BY <1>3, <1>4 DEF Past

(* The opening bracket of the next level, inside the outer ones, opens it. *)
LEMMA PushIs ==
  ASSUME TextOK, IsType(type), NEW q \in Tokens, NEW k \in 0 .. (Len(type) - 1), k + 1 < Len(type),
         Behind(q) = Nest(k), text[q] = Opener(type[k + 1])
  PROVE  Opened[q] = Nest(k + 1)
<1>1. Opened[q] = Effect(Nest(k), text[q])
  BY TokenOpens
<1>2. Nest(k) # <<"bad">> /\ <<Opener(type[k + 1])>> \o Nest(k) = Nest(k + 1)
  BY NestIs
<1>3. text[q] \in Left /\ text[q] \notin Right
  <2>1. k + 1 \in 1 .. Len(type)
    BY TypeFacts
  <2> QED
    BY <2>1, OpenerIs DEF Left, Right
<1> QED
  BY <1>1, <1>2, <1>3, Zenon DEF Effect

(* The closing bracket of the innermost level closes it.                   *)
LEMMA PopIs ==
  ASSUME TextOK, IsType(type), NEW q \in Tokens, NEW k \in 1 .. (Len(type) - 1),
         Behind(q) = Nest(k), text[q] = ClosingOf(type[k])
  PROVE  Opened[q] = Nest(k - 1)
<1>1. Opened[q] = Effect(Nest(k), text[q])
  BY TokenOpens
<1>0. k \in 0 .. (Len(type) - 1) /\ k # 0 /\ k \in 1 .. Len(type) /\ k < Len(type)
  BY LevelIs
<1>2. Nest(k) # <<"bad">> /\ Nest(k) # <<>> /\ Nest(k)[1] = Opener(type[k]) /\ Tail(Nest(k)) = Nest(k - 1)
  BY <1>0, NestIs
<1>3. text[q] \in Right /\ text[q] = Partner(Opener(type[k]))
  BY <1>0, OpenerIs
<1>4. text[q] \notin Left
  BY <1>3 DEF Left, Right
<1> QED
  BY <1>1, <1>2, <1>3, <1>4, Zenon DEF Effect

(* Other tokens leave the open brackets as they are.                       *)
LEMMA PassIs ==
  ASSUME TextOK, NEW q \in Tokens, text[q] \notin Left, text[q] \notin Right
  PROVE  Opened[q] = Behind(q)
BY TokenOpens, Zenon DEF Effect

------------------------------------------------------------------------------
(* The stack of containers.                                                *)

Frames == [at : Nat, live : BOOLEAN, taken : Seq(Nat)]
Frame(a, l, t) == [at |-> a, live |-> l, taken |-> t]
Took(s, e) == [s EXCEPT ![1].taken = Append(@, e)]
Became(s, l) == [s EXCEPT ![1].live = l]

(* The parts of a frame of the stack.                                      *)
LEMMA FrameIs ==
  ASSUME NEW s \in Seq(Frames), NEW i \in 1 .. Len(s)
  PROVE  s[i].at \in Nat /\ s[i].live \in BOOLEAN /\ s[i].taken \in Seq(Nat) /\ s[i] \in Frames
<1>1. s[i] \in Frames
  OBVIOUS
<1> QED
  BY <1>1 DEF Frames

IsPushed(t, s, a, l) ==
  /\ t \in Seq(Frames) /\ Len(t) = Len(s) + 1 /\ t # <<>>
  /\ t[1].at = a /\ t[1].live = l /\ t[1].taken = <<>>
  /\ \A i \in 2 .. Len(t) : t[i] = s[i - 1]

(* Pushing a frame leaves the ones below it.                               *)
LEMMA PushedIs ==
  ASSUME NEW s \in Seq(Frames), NEW a \in Nat, NEW l \in BOOLEAN
  PROVE  IsPushed(<<Frame(a, l, <<>>)>> \o s, s, a, l)
<1> DEFINE f == Frame(a, l, <<>>)
           t == <<f>> \o s
<1>1. f \in Frames /\ f.at = a /\ f.live = l /\ f.taken = <<>>
  BY DEF Frame, Frames
<1> HIDE DEF f
<1>2. t \in Seq(Frames) /\ Len(t) = Len(s) + 1 /\ t # <<>> /\ t[1] = f /\ \A i \in 2 .. Len(t) : t[i] = s[i - 1]
  BY <1>1
<1> HIDE DEF t
<1>3. IsPushed(t, s, a, l)
  BY <1>1, <1>2, Zenon DEF IsPushed
<1> QED
  BY <1>3, Zenon DEF t, f

(* Handing over an element changes what the innermost container has taken, *)
(* and nothing else.                                                       *)
LEMMA TookIs ==
  ASSUME NEW s \in Seq(Frames), s # <<>>, NEW e \in Nat
  PROVE  LET t == Took(s, e)
         IN /\ t \in Seq(Frames) /\ Len(t) = Len(s) /\ t # <<>>
            /\ t[1].at = s[1].at /\ t[1].live = s[1].live /\ t[1].taken = Append(s[1].taken, e)
            /\ \A i \in 2 .. Len(t) : t[i] = s[i]
<1> DEFINE t == Took(s, e)
           f == [s[1] EXCEPT !.taken = Append(@, e)]
<1>1. 1 \in 1 .. Len(s) /\ Len(s) \in Nat
  OBVIOUS
<1>2. s[1].at \in Nat /\ s[1].live \in BOOLEAN /\ s[1].taken \in Seq(Nat) /\ s[1] \in Frames
  BY <1>1, FrameIs
<1>3. f \in Frames /\ f.at = s[1].at /\ f.live = s[1].live /\ f.taken = Append(s[1].taken, e)
  <2> DEFINE g == s[1]
             a == Append(g.taken, e)
  <2>1. g \in Frames /\ a \in Seq(Nat) /\ f = [g EXCEPT !.taken = a]
    BY <1>2
  <2> HIDE DEF g, a, f
  <2>2. f \in Frames /\ f.at = g.at /\ f.live = g.live /\ f.taken = a
    BY <2>1 DEF Frames
  <2> QED
    BY <2>2 DEF g, a
<1>4. t = [s EXCEPT ![1] = f]
  BY DEF Took
<1> HIDE DEF t, f
<1>5. t \in Seq(Frames) /\ Len(t) = Len(s) /\ t # <<>> /\ t[1] = f /\ \A i \in 2 .. Len(t) : t[i] = s[i]
  BY <1>1, <1>3, <1>4
<1>6. t[1].at = s[1].at /\ t[1].live = s[1].live /\ t[1].taken = Append(s[1].taken, e)
  BY <1>3, <1>5
<1> QED
  BY <1>5, <1>6 DEF t

IsBecome(t, s, l) ==
  /\ t \in Seq(Frames) /\ Len(t) = Len(s) /\ t # <<>>
  /\ t[1].at = s[1].at /\ t[1].live = l /\ t[1].taken = s[1].taken
  /\ \A i \in 2 .. Len(t) : t[i] = s[i]

(* Ending the iterator of the innermost container changes that, and        *)
(* nothing else.                                                           *)
LEMMA BecameIs ==
  ASSUME NEW s \in Seq(Frames), s # <<>>, NEW l \in BOOLEAN
  PROVE  IsBecome(Became(s, l), s, l)
<1> DEFINE t == Became(s, l)
           f == [s[1] EXCEPT !.live = l]
<1>1. 1 \in 1 .. Len(s) /\ Len(s) \in Nat
  OBVIOUS
<1>2. s[1].at \in Nat /\ s[1].live \in BOOLEAN /\ s[1].taken \in Seq(Nat) /\ s[1] \in Frames
  BY <1>1, FrameIs
<1>3. f \in Frames /\ f.at = s[1].at /\ f.live = l /\ f.taken = s[1].taken
  BY <1>2 DEF Frames
<1>4. t = [s EXCEPT ![1] = f]
  BY DEF Became
<1> HIDE DEF t, f
<1>5. t \in Seq(Frames) /\ Len(t) = Len(s) /\ t # <<>> /\ t[1] = f /\ \A i \in 2 .. Len(t) : t[i] = s[i]
  BY <1>1, <1>3, <1>4
<1>6. t[1].at = s[1].at /\ t[1].live = l /\ t[1].taken = s[1].taken
  BY <1>3, <1>5
<1>7. IsBecome(t, s, l)
  BY <1>5, <1>6, Zenon DEF IsBecome
<1> QED
  BY <1>7, Zenon DEF t

(* Popping the innermost container leaves the others.                      *)
LEMMA TailIs ==
  ASSUME NEW s \in Seq(Frames), s # <<>>
  PROVE  LET t == Tail(s)
         IN /\ t \in Seq(Frames) /\ Len(t) = Len(s) - 1 /\ (t = <<>> <=> Len(s) = 1)
            /\ \A i \in 1 .. Len(t) : t[i] = s[i + 1]
<1> DEFINE t == Tail(s)
<1>1. Len(s) \in Nat \ {0}
  OBVIOUS
<1>2. t \in Seq(Frames) /\ Len(t) = Len(s) - 1
  BY <1>1
<1>3. t = <<>> <=> Len(s) = 1
  <2> HIDE DEF t
  <2>1. t = <<>> => Len(t) = 0
    OBVIOUS
  <2>2. Len(t) = 0 => t = <<>>
    BY <1>2
  <2> QED
    BY <1>1, <1>2, <2>1, <2>2
<1>4. \A i \in 1 .. Len(t) : t[i] = s[i + 1]
  BY <1>1, <1>2
<1> QED
  BY <1>2, <1>3, <1>4

------------------------------------------------------------------------------
(* What every action leaves.                                               *)

Shape(p, s, ph) ==
  /\ ph \in {"value", "fill", "step", "done", "failed"}
  /\ p \in 1 .. EndOfText
  /\ s \in Seq(Frames) /\ Len(s) < Len(type)
  /\ ph \in {"fill", "step"} => s # <<>>
  /\ \A i \in 2 .. Len(s) : s[i].live
  /\ ph \in {"value", "step"} /\ s # <<>> => s[1].live

Setting == TextOK /\ IsType(type) /\ Shape(pos, stack, phase)

(* The element e has been handed to the innermost container of s.          *)
HandedOver(e, s) ==
  \/ s = <<>> /\ stack' = <<>> /\ phase' = "done"
  \/ s # <<>> /\ stack' = Took(s, e) /\ phase' = "step"

(* The cursor has come to p in container t, or behind it if it ends there. *)
Comes(p, t, p2, live) ==
  \/ At(text, p) # ClosingOf(t) /\ p2 = p /\ live = TRUE
  \/ p \in Tokens /\ text[p] = ClosingOf(t) /\ Past(p, p2) /\ p2 = Trim(p + 1) /\ live = FALSE

(* A container that is begun, or whose iterator is stepped, ends at its    *)
(* closing bracket.                                                        *)
LEMMA ComesIs ==
  ASSUME Setting, NEW k \in 1 .. Len(type), k < Len(type), NEW p
  PROVE  \E live \in BOOLEAN : /\ Comes(p, type[k], IF live THEN p ELSE Trim(p + 1), live)
                               /\ live = (At(text, p) # ClosingOf(type[k]))
<1> DEFINE c == ClosingOf(type[k])
<1>1. c \in Right
  BY OpenerIs DEF Setting
<1>2. c \notin Space /\ c # NUL
  BY <1>1 DEF Right, Space, NUL
<1>3. CASE At(text, p) = c
  <2>1. p \in Tokens /\ text[p] = c
    BY <1>2, <1>3, TokenAt DEF Setting
  <2>2. Comes(p, type[k], Trim(p + 1), FALSE)
    BY <2>1, Zenon DEF Comes, Past
  <2> QED
    BY <1>3, <2>2
<1>4. CASE At(text, p) # c
  <2>1. Comes(p, type[k], p, TRUE)
    BY <1>4, Zenon DEF Comes
  <2> QED
    BY <1>4, <2>1
<1> QED
  BY <1>3, <1>4

(* The levels that are asked for are those of the type.                    *)
LEMMA SettingFacts ==
  ASSUME Setting
  PROVE  /\ Len(type) \in Nat \ {0} /\ Len(stack) \in Nat /\ Len(stack) < Len(type)
         /\ Len(stack) + 1 \in 1 .. Len(type)
         /\ stack # <<>> => Len(stack) \in 1 .. (Len(type) - 1) /\ Len(stack) \in 1 .. Len(type)
         /\ pos \in 1 .. EndOfText /\ stack \in Seq(Frames)
         /\ Want = type[Len(stack) + 1] /\ Mine = type[Len(stack)]
<1>1. Len(type) \in Nat \ {0}
  BY TypeFacts DEF Setting
<1>2. pos \in 1 .. EndOfText /\ stack \in Seq(Frames) /\ Len(stack) < Len(type)
  BY DEF Setting, Shape
<1>3. Len(stack) \in Nat /\ (stack # <<>> => Len(stack) # 0)
  BY <1>2
<1> QED
  BY <1>1, <1>2, <1>3 DEF Want, Mine

(* What ParseScalar does: it fails, or passes the token that the type      *)
(* wants.                                                                  *)
LEMMA ScalarStep ==
  ASSUME Setting, ParseScalar
  PROVE  /\ phase = "value" /\ Len(stack) + 1 = Len(type) /\ text' = text /\ type' = type
         /\ \/ /\ Fail
               /\ \/ At(text, pos) # Opener(Want)
                  \/ Want.kind = "number" /\ ~AtEndOfItem(Trim(pos + 1))
            \/ /\ pos \in Tokens /\ text[pos] = Opener(Want) /\ Past(pos, pos')
               /\ HandedOver(pos, stack) /\ filled' = filled
<1>1. phase = "value" /\ Want.kind \notin Containers /\ text' = text /\ type' = type
  BY DEF ParseScalar, Given
<1>2. Len(stack) + 1 = Len(type)
  <2>1. ~ (Len(stack) + 1 < Len(type))
    BY <1>1, SettingFacts, TypeFacts, Zenon DEF Setting
  <2> QED
    BY <2>1, SettingFacts
<1>3. Opener(Want) = Token[Want.kind] /\ Opener(Want) \in {"n", "s", "o"}
  <2>1. Len(stack) + 1 \in 1 .. Len(type) /\ Want = type[Len(stack) + 1] /\ IsType(type)
    BY SettingFacts DEF Setting
  <2> QED
    BY <1>2, <2>1, OpenerIs
<1>4. CASE At(text, pos) # Token[Want.kind] \/ (Want.kind = "number" /\ ~AtEndOfItem(Trim(pos + 1)))
  <2>1. Fail
    BY <1>4, Zenon DEF ParseScalar
  <2> QED
    BY <1>1, <1>2, <1>3, <1>4, <2>1, Zenon
<1>5. CASE ~ (At(text, pos) # Token[Want.kind] \/ (Want.kind = "number" /\ ~AtEndOfItem(Trim(pos + 1))))
  <2>1. /\ pos' = (IF Want.kind = "string" THEN pos + 1 ELSE Trim(pos + 1))
        /\ Take(pos, stack) /\ filled' = filled
    BY <1>5, Zenon DEF ParseScalar
  <2>2. Past(pos, pos')
    BY <2>1, Zenon DEF Past
  <2>3. HandedOver(pos, stack)
    BY <2>1, Zenon DEF Take, HandedOver, Took
  <2>4. At(text, pos) = Opener(Want)
    BY <1>3, <1>5, Zenon
  <2>5. At(text, pos) \notin Space /\ At(text, pos) # NUL
    BY <1>3, <2>4 DEF Space, NUL
  <2>6. pos \in Tokens /\ text[pos] = Opener(Want)
    BY <2>4, <2>5, TokenAt DEF Setting
  <2> QED
    BY <1>1, <1>2, <2>1, <2>2, <2>3, <2>6
<1> QED
  BY <1>4, <1>5

(* A container begins at q, and its iterator at p.                         *)
Begins(q, p) ==
  /\ q \in Tokens /\ text[q] = Opener(Want) /\ Past(q, p)
  /\ \E live \in BOOLEAN : /\ Comes(p, Want, pos', live)
                           /\ stack' = <<Frame(q, live, <<>>)>> \o stack
  /\ phase' = "fill" /\ filled' = filled

(* What Start does: the container begins at its bracket.                   *)
LEMMA StartIs ==
  ASSUME Setting, Len(stack) + 1 < Len(type), NEW q, NEW p, At(text, q) = Opener(Want), Past(q, p), Start(Want, q, p)
  PROVE  Begins(q, p)
<1>1. Len(stack) + 1 \in 1 .. Len(type) /\ Want = type[Len(stack) + 1]
  BY SettingFacts
<1>2. q \in Tokens /\ text[q] = Opener(Want)
  <2>1. Opener(Want) \in Left
    BY <1>1, OpenerIs DEF Setting
  <2>2. At(text, q) \notin Space /\ At(text, q) # NUL
    BY <2>1 DEF Left, Space, NUL
  <2> QED
    BY <2>2, TokenAt DEF Setting
<1> DEFINE l == At(text, p) # ClosingOf(Want)
<1>3. PICK live \in BOOLEAN : Comes(p, Want, IF live THEN p ELSE Trim(p + 1), live) /\ live = l
  BY <1>1, ComesIs
<1>4. /\ pos' = (IF live THEN p ELSE Trim(p + 1))
      /\ stack' = <<[at |-> q, live |-> live, taken |-> <<>>]>> \o stack
      /\ phase' = "fill" /\ filled' = filled
  BY <1>3, Zenon DEF Start
<1> QED
  BY <1>2, <1>3, <1>4, Zenon DEF Begins, Frame

(* What the actions that enter a container do: they fail, or the container *)
(* begins.                                                                 *)
LEMMA EnterStep ==
  ASSUME Setting, EnterArray \/ EnterMap \/ EnterPairs
  PROVE  /\ phase = "value" /\ Len(stack) + 1 < Len(type) /\ text' = text /\ type' = type
         /\ \/ Fail /\ At(text, Trim(pos)) # Opener(Want)
            \/ Fail /\ At(text, pos) # Opener(Want)
            \/ \E q \in {pos, Trim(pos)} : \E p \in {q + 1, Trim(q + 1)} :
                 Begins(q, p) /\ (Want.kind # "pairs" => p = Trim(q + 1))
<1>1. phase = "value" /\ Want.kind \in Containers /\ text' = text /\ type' = type
  BY DEF EnterArray, EnterMap, EnterPairs, Given, Containers
<1>2. Len(stack) + 1 < Len(type)
  BY <1>1, SettingFacts, TypeFacts, Zenon DEF Setting
<1>3. Opener(Want) = IF Want.kind = "map" THEN "{" ELSE "["
  BY <1>2, SettingFacts, OpenerIs, Zenon DEF Setting
<1>4. CASE EnterArray
  <2>1. Opener(Want) = "[" /\ Want.kind = "array"
    BY <1>3, <1>4 DEF EnterArray
  <2>2. CASE At(text, Trim(pos)) = "["
    <3>1. Start(Want, Trim(pos), Trim(Trim(pos) + 1))
      BY <1>4, <2>2, Zenon DEF EnterArray
    <3>2. Past(Trim(pos), Trim(Trim(pos) + 1))
      BY Zenon DEF Past
    <3>3. At(text, Trim(pos)) = Opener(Want)
      BY <2>1, <2>2, Zenon
    <3>4. Begins(Trim(pos), Trim(Trim(pos) + 1))
      BY <1>2, <3>1, <3>2, <3>3, StartIs
    <3> QED
      BY <1>1, <1>2, <3>4, Zenon
  <2>3. CASE At(text, Trim(pos)) # "["
    <3>1. Fail /\ At(text, Trim(pos)) # Opener(Want)
      BY <1>4, <2>1, <2>3, Zenon DEF EnterArray
    <3> QED
      BY <1>1, <1>2, <3>1
  <2> QED
    BY <2>2, <2>3
<1>5. CASE EnterMap
  <2>1. Opener(Want) = "{" /\ Want.kind = "map"
    BY <1>3, <1>5 DEF EnterMap
  <2>2. CASE At(text, pos) = "{"
    <3>1. Start(Want, pos, Trim(pos + 1))
      BY <1>5, <2>2, Zenon DEF EnterMap
    <3>2. Past(pos, Trim(pos + 1))
      BY Zenon DEF Past
    <3>3. At(text, pos) = Opener(Want)
      BY <2>1, <2>2, Zenon
    <3>4. Begins(pos, Trim(pos + 1))
      BY <1>2, <3>1, <3>2, <3>3, StartIs
    <3> QED
      BY <1>1, <1>2, <3>4, Zenon
  <2>3. CASE At(text, pos) # "{"
    <3>1. Fail /\ At(text, pos) # Opener(Want)
      BY <1>5, <2>1, <2>3, Zenon DEF EnterMap
    <3> QED
      BY <1>1, <1>2, <3>1
  <2> QED
    BY <2>2, <2>3
<1>6. CASE EnterPairs
  <2>1. Opener(Want) = "[" /\ Want.kind = "pairs"
    BY <1>3, <1>6 DEF EnterPairs
  <2>2. CASE At(text, pos) = "["
    <3>1. Start(Want, pos, pos + 1)
      BY <1>6, <2>2, Zenon DEF EnterPairs
    <3>2. Past(pos, pos + 1)
      BY Zenon DEF Past
    <3>3. At(text, pos) = Opener(Want)
      BY <2>1, <2>2, Zenon
    <3>4. Begins(pos, pos + 1)
      BY <1>2, <3>1, <3>2, <3>3, StartIs
    <3> QED
      BY <1>1, <1>2, <2>1, <3>4, Zenon
  <2>3. CASE At(text, pos) # "["
    <3>1. Fail /\ At(text, pos) # Opener(Want)
      BY <1>6, <2>1, <2>3, Zenon DEF EnterPairs
    <3> QED
      BY <1>1, <1>2, <3>1
  <2> QED
    BY <2>2, <2>3
<1> QED
  BY <1>4, <1>5, <1>6

(* What Dereference does: it fails at the end of the text, or the element  *)
(* is parsed where the cursor is.                                          *)
LEMMA DereferenceStep ==
  ASSUME Setting, Dereference
  PROVE  /\ phase = "fill" /\ stack[1].live /\ Len(stack[1].taken) # Mine.limit /\ Mine.kind # "map"
         /\ text' = text /\ type' = type
         /\ \/ Fail /\ pos = EndOfText
            \/ phase' = "value" /\ pos' = pos /\ stack' = stack /\ filled' = filled
<1>1. pos < EndOfText \/ pos = EndOfText
  <2>1. pos \in 1 .. EndOfText /\ EndOfText \in Nat
    BY SettingFacts, TextFacts DEF Setting
  <2> QED
    BY <2>1
<1>2. ~ (pos < EndOfText) => Fail
  BY Zenon DEF Dereference
<1> QED
  BY <1>1, <1>2, Zenon DEF Dereference, Wants, Given

(* A key and a colon behind it have been read.                             *)
KeyRead ==
  /\ pos \in Tokens /\ text[pos] = "s" /\ Past(pos, Trim(pos + 1))
  /\ Trim(pos + 1) \in Tokens /\ text[Trim(pos + 1)] = ":" /\ Past(Trim(pos + 1), pos')
  /\ pos' = Trim(Trim(pos + 1) + 1)
  /\ phase' = "value" /\ stack' = stack /\ filled' = filled

(* What DereferenceKey does: it fails, or reads a key and its colon.       *)
LEMMA KeyStep ==
  ASSUME Setting, DereferenceKey
  PROVE  /\ phase = "fill" /\ stack[1].live /\ Len(stack[1].taken) # Mine.limit /\ Mine.kind = "map"
         /\ text' = text /\ type' = type
         /\ \/ Fail /\ ~ (At(text, pos) = "s" /\ At(text, Trim(pos + 1)) = ":")
            \/ KeyRead
<1>1. /\ phase = "fill" /\ stack[1].live /\ Len(stack[1].taken) # Mine.limit /\ Mine.kind = "map"
      /\ text' = text /\ type' = type
  BY DEF DereferenceKey, Wants, Given
<1>2. CASE ~ (At(text, pos) = "s" /\ At(text, Trim(pos + 1)) = ":")
  <2>1. Fail
    BY <1>2, Zenon DEF DereferenceKey
  <2> QED
    BY <1>1, <1>2, <2>1
<1>3. CASE At(text, pos) = "s" /\ At(text, Trim(pos + 1)) = ":"
  <2>1. pos' = Trim(Trim(pos + 1) + 1) /\ phase' = "value" /\ stack' = stack /\ filled' = filled
    BY <1>3, Zenon DEF DereferenceKey
  <2>2. "s" \notin Space /\ "s" # NUL /\ ":" \notin Space /\ ":" # NUL
    BY DEF Space, NUL
  <2>3. pos \in Tokens /\ text[pos] = "s" /\ Trim(pos + 1) \in Tokens /\ text[Trim(pos + 1)] = ":"
    BY <1>3, <2>2, TokenAt, Zenon DEF Setting
  <2>4. KeyRead
    BY <2>1, <2>3, Zenon DEF KeyRead, Past
  <2> QED
    BY <1>1, <2>4
<1> QED
  BY <1>2, <1>3

(* Where the next element is, or the end of the container, seen from p.    *)
NextFrom(p, q) ==
  \/ At(text, p) # "," /\ q = p
  \/ p \in Tokens /\ text[p] = "," /\ q = Trim(p + 1) /\ Past(p, q)

Iterated(p) ==
  /\ NextFrom(Trim(pos), p) /\ p < EndOfText
  /\ \E live \in BOOLEAN : Comes(p, Mine, pos', live) /\ stack' = Became(stack, live)
  /\ phase' = "fill" /\ filled' = filled

(* What the steps to the next element do: they fail, or pass a comma and   *)
(* perhaps the closing bracket.                                            *)
LEMMA IterateStep ==
  ASSUME Setting, StepArray \/ StepMap
  PROVE  /\ phase = "step" /\ text' = text /\ type' = type /\ stack # <<>>
         /\ \/ Fail /\ BehindComma(Trim(pos)) >= EndOfText
            \/ Fail /\ Mine.kind # "map" /\ ~ AtNextElement(Trim(pos))
            \/ Iterated(BehindComma(Trim(pos))) /\ (Mine.kind # "map" => AtNextElement(Trim(pos)))
<1>1. phase = "step" /\ text' = text /\ type' = type
  BY DEF StepArray, StepMap, Given
<1>2. stack # <<>>
  BY <1>1 DEF Setting, Shape
<1>3. Len(stack) \in 1 .. Len(type) /\ Len(stack) < Len(type) /\ Mine = type[Len(stack)]
  BY <1>2, SettingFacts
<1> DEFINE p == BehindComma(Trim(pos))
<1>4. NextFrom(Trim(pos), p)
  <2>1. CASE At(text, Trim(pos)) = ","
    <3>1. Trim(pos) \in Tokens /\ text[Trim(pos)] = ","
      <4>1. "," \notin Space /\ "," # NUL
        BY DEF Space, NUL
      <4> QED
        BY <2>1, <4>1, TokenAt, Zenon DEF Setting
    <3> QED
      BY <2>1, <3>1, Zenon DEF NextFrom, BehindComma, Past
  <2>2. CASE At(text, Trim(pos)) # ","
    BY <2>2, Zenon DEF NextFrom, BehindComma
  <2> QED
    BY <2>1, <2>2
<1>5. ASSUME StepTo(p)
      PROVE  (Fail /\ p >= EndOfText) \/ Iterated(p)
  <2> DEFINE l == At(text, p) # ClosingOf(Mine)
  <2>1. PICK live \in BOOLEAN : Comes(p, Mine, IF live THEN p ELSE Trim(p + 1), live) /\ live = l
    BY <1>3, ComesIs
  <2>2. CASE p >= EndOfText
    <3>1. Fail
      BY <1>5, <2>2, Zenon DEF StepTo
    <3> QED
      BY <2>2, <3>1
  <2>3. CASE ~ (p >= EndOfText)
    <3>1. /\ pos' = IF At(text, p) = ClosingOf(Mine) THEN Trim(p + 1) ELSE p
          /\ stack' = [stack EXCEPT ![1].live = ~ (At(text, p) = ClosingOf(Mine))]
          /\ phase' = "fill" /\ filled' = filled
      BY <1>5, <2>3, Zenon DEF StepTo
    <3>2. live = ~ (At(text, p) = ClosingOf(Mine))
      BY <2>1
    <3>3. pos' = IF live THEN p ELSE Trim(p + 1)
      BY <3>1, <3>2, Zenon
    <3>4. stack' = Became(stack, live)
      BY <3>1, <3>2, Zenon DEF Became
    <3>5. p < EndOfText
      <4>1. p \in Int /\ EndOfText \in Int
        <5>1. EndOfText \in Nat /\ pos \in 1 .. EndOfText /\ TextOK
          BY TextFacts, SettingFacts DEF Setting
        <5>2. Trim(pos) \in Nat
          <6>1. Trim(pos) \in pos .. EndOfText
            BY <5>1, TrimIs
          <6> QED
            BY <5>1, <6>1
        <5>3. CASE At(text, Trim(pos)) = ","
          <6>1. Trim(pos) \in Tokens /\ Past(Trim(pos), p)
            BY <1>4, <5>3, Zenon DEF NextFrom
          <6>2. p \in 1 .. EndOfText
            BY <5>1, <6>1, PastIs
          <6> QED
            BY <5>1, <6>2
        <5>4. CASE At(text, Trim(pos)) # ","
          <6>1. p = Trim(pos)
            BY <5>4, Zenon DEF BehindComma
          <6> QED
            BY <5>1, <5>2, <6>1
        <5> QED
          BY <5>3, <5>4
      <4> HIDE DEF p
      <4> QED
        BY <2>3, <4>1
    <3> QED
      BY <1>4, <2>1, <3>1, <3>3, <3>4, <3>5, Zenon DEF Iterated
  <2> QED
    BY <2>2, <2>3
<1>6. CASE StepArray
  <2>1. CASE AtNextElement(Trim(pos))
    <3>1. StepTo(p)
      BY <1>6, <2>1, Zenon DEF StepArray
    <3> QED
      BY <1>1, <1>2, <1>5, <2>1, <3>1
  <2>2. CASE ~ AtNextElement(Trim(pos))
    <3>1. Fail /\ Mine.kind # "map"
      BY <1>6, <2>2, Zenon DEF StepArray
    <3> QED
      BY <1>1, <1>2, <2>2, <3>1
  <2> QED
    BY <2>1, <2>2
<1>7. CASE StepMap
  <2>1. StepTo(p) /\ Mine.kind = "map"
    BY <1>7 DEF StepMap
  <2> QED
    BY <1>1, <1>2, <1>5, <2>1
<1> QED
  BY <1>6, <1>7

(* What Complete does: the container is noted and handed to the one around *)
(* it.                                                                     *)
LEMMA CompleteStep ==
  ASSUME Setting, Complete
  PROVE  /\ phase = "fill" /\ stack # <<>> /\ text' = text /\ type' = type /\ pos' = pos
         /\ ~ stack[1].live \/ Len(stack[1].taken) = Mine.limit
         /\ filled' = filled \cup {[at |-> stack[1].at, taken |-> stack[1].taken]}
         /\ HandedOver(stack[1].at, Tail(stack))
<1>1. phase = "fill" /\ stack # <<>>
  BY DEF Complete, Setting, Shape
<1> QED
  BY <1>1, Zenon DEF Complete, Wants, Take, HandedOver, Took

------------------------------------------------------------------------------
(* The cursor, the stack and the phase stay what they are.                 *)

LEMMA HandedShape ==
  ASSUME Setting, NEW e \in Nat, NEW s \in Seq(Frames), NEW p \in 1 .. EndOfText, Len(s) < Len(type),
         \A i \in 1 .. Len(s) : s[i].live, HandedOver(e, s)
  PROVE  Shape(p, stack', phase')
<1>0. Len(type) \in Nat \ {0}
  BY SettingFacts
<1>1. CASE s = <<>>
  <2>1. stack' = <<>> /\ phase' = "done"
    BY <1>1 DEF HandedOver
  <2>2. <<>> \in Seq(Frames) /\ Len(<<>>) = 0
    OBVIOUS
  <2> QED
    BY <1>0, <2>1, <2>2 DEF Shape
<1>2. CASE s # <<>>
  <2>1. stack' = Took(s, e) /\ phase' = "step"
    BY <1>2 DEF HandedOver
  <2> DEFINE t == Took(s, e)
  <2>2. /\ t \in Seq(Frames) /\ Len(t) = Len(s) /\ t # <<>> /\ t[1].live = s[1].live
        /\ \A i \in 2 .. Len(t) : t[i] = s[i]
    BY <1>2, TookIs
  <2> HIDE DEF t
  <2>3. \A i \in 2 .. Len(t) : t[i].live
    BY <2>2
  <2>4. 1 \in 1 .. Len(s)
    BY <1>2
  <2>5. Shape(p, t, "step")
    BY <2>2, <2>3, <2>4 DEF Shape
  <2> QED
    BY <2>1, <2>5 DEF t
<1> QED
  BY <1>1, <1>2

(* Every action keeps the shape of the state.                              *)
LEMMA ShapeStep ==
  ASSUME Setting, Next
  PROVE  Shape(pos', stack', phase') /\ text' = text /\ type' = type
<1>1. /\ Len(type) \in Nat \ {0} /\ Len(stack) \in Nat /\ Len(stack) < Len(type)
      /\ pos \in 1 .. EndOfText /\ stack \in Seq(Frames) /\ EndOfText \in Nat /\ TextOK
      /\ Want = type[Len(stack) + 1] /\ Mine = type[Len(stack)]
  BY SettingFacts, TextFacts DEF Setting
<1>2. /\ \A i \in 2 .. Len(stack) : stack[i].live
      /\ phase \in {"fill", "step"} => stack # <<>>
      /\ phase \in {"value", "step"} /\ stack # <<>> => stack[1].live
  BY DEF Setting, Shape
<1>3. Fail => Shape(pos', stack', phase')
  BY <1>1, <1>2 DEF Fail, Shape
<1>4. ASSUME phase = "value" PROVE \A i \in 1 .. Len(stack) : stack[i].live
  <2>1. \A i \in 1 .. Len(stack) : i = 1 \/ i \in 2 .. Len(stack)
    OBVIOUS
  <2>2. \A i \in 1 .. Len(stack) : stack # <<>>
    OBVIOUS
  <2> QED
    BY <1>2, <1>4, <2>1, <2>2, Zenon
<1>5. CASE ParseScalar
  <2>1. phase = "value" /\ text' = text /\ type' = type
        /\ (Fail \/ (pos \in Tokens /\ Past(pos, pos') /\ HandedOver(pos, stack)))
    BY <1>5, ScalarStep
  <2>2. ASSUME pos \in Tokens, Past(pos, pos'), HandedOver(pos, stack) PROVE Shape(pos', stack', phase')
    <3>1. pos' \in 1 .. EndOfText
      BY <1>1, <2>2, PastIs
    <3>2. pos \in Nat
      BY <1>1
    <3> QED
      BY <1>1, <1>4, <2>1, <2>2, <3>1, <3>2, HandedShape
  <2> QED
    BY <1>3, <2>1, <2>2
<1>6. CASE EnterArray \/ EnterMap \/ EnterPairs
  <2>1. /\ phase = "value" /\ text' = text /\ type' = type /\ Len(stack) + 1 < Len(type)
        /\ \/ Fail
           \/ \E q \in {pos, Trim(pos)} : \E p \in {q + 1, Trim(q + 1)} : Begins(q, p)
    BY <1>6, EnterStep, Zenon
  <2>2. ASSUME NEW q, NEW p, Begins(q, p) PROVE Shape(pos', stack', phase')
    <3>1. q \in Tokens /\ Past(q, p) /\ phase' = "fill"
      BY <2>2 DEF Begins
    <3>2. PICK live \in BOOLEAN : Comes(p, Want, pos', live) /\ stack' = <<Frame(q, live, <<>>)>> \o stack
      BY <2>2 DEF Begins
    <3>3. p \in 1 .. EndOfText /\ q \in Nat
      BY <1>1, <3>1, PastIs, TextFacts
    <3>4. pos' \in 1 .. EndOfText
      BY <1>1, <3>2, <3>3, PastIs DEF Comes
    <3> DEFINE t == <<Frame(q, live, <<>>)>> \o stack
    <3>5. t \in Seq(Frames) /\ Len(t) = Len(stack) + 1 /\ t # <<>> /\ \A i \in 2 .. Len(t) : t[i] = stack[i - 1]
      BY <1>1, <3>3, PushedIs DEF IsPushed
    <3> HIDE DEF t
    <3>6. \A i \in 2 .. Len(t) : i - 1 \in 1 .. Len(stack)
      BY <1>1, <3>5
    <3>7. \A i \in 2 .. Len(t) : t[i].live
      BY <1>4, <2>1, <3>5, <3>6
    <3>8. Shape(pos', t, "fill")
      BY <1>1, <2>1, <3>4, <3>5, <3>7 DEF Shape
    <3> QED
      BY <3>1, <3>2, <3>8 DEF t
  <2> QED
    BY <1>3, <2>1, <2>2
<1>7. CASE Dereference
  <2>1. /\ phase = "fill" /\ stack[1].live /\ text' = text /\ type' = type
        /\ Fail \/ (phase' = "value" /\ pos' = pos /\ stack' = stack)
    BY <1>7, DereferenceStep
  <2> QED
    BY <1>1, <1>2, <1>3, <2>1 DEF Shape
<1>8. CASE DereferenceKey
  <2>1. /\ phase = "fill" /\ stack[1].live /\ text' = text /\ type' = type
        /\ Fail \/ KeyRead
    BY <1>8, KeyStep
  <2>2. ASSUME KeyRead PROVE Shape(pos', stack', phase')
    <3>1. Trim(pos + 1) \in Tokens /\ Past(Trim(pos + 1), pos') /\ phase' = "value" /\ stack' = stack
      BY <2>2 DEF KeyRead
    <3>2. pos' \in 1 .. EndOfText
      BY <1>1, <3>1, PastIs
    <3> QED
      BY <1>1, <1>2, <2>1, <3>1, <3>2 DEF Shape
  <2> QED
    BY <1>3, <2>1, <2>2
<1>9. CASE StepArray \/ StepMap
  <2>1. /\ phase = "step" /\ text' = text /\ type' = type /\ stack # <<>>
        /\ Fail \/ Iterated(BehindComma(Trim(pos)))
    BY <1>9, IterateStep
  <2>2. ASSUME NEW p, Iterated(p) PROVE Shape(pos', stack', phase')
    <3>1. NextFrom(Trim(pos), p) /\ phase' = "fill"
      BY <2>2 DEF Iterated
    <3>2. PICK live \in BOOLEAN : Comes(p, Mine, pos', live) /\ stack' = Became(stack, live)
      BY <2>2 DEF Iterated
    <3>3. Trim(pos) \in 1 .. EndOfText
      <4>1. Trim(pos) \in pos .. EndOfText
        BY <1>1, TrimIs
      <4> QED
        BY <1>1, <4>1
    <3>4. p \in 1 .. EndOfText
      BY <1>1, <3>1, <3>3, PastIs DEF NextFrom
    <3>5. pos' \in 1 .. EndOfText
      BY <1>1, <3>2, <3>4, PastIs DEF Comes
    <3> DEFINE t == Became(stack, live)
    <3>6. t \in Seq(Frames) /\ Len(t) = Len(stack) /\ t # <<>> /\ \A i \in 2 .. Len(t) : t[i] = stack[i]
      BY <1>1, <2>1, BecameIs DEF IsBecome
    <3> HIDE DEF t
    <3>7. \A i \in 2 .. Len(t) : t[i].live
      BY <1>2, <3>6
    <3>8. Shape(pos', t, "fill")
      BY <1>1, <3>5, <3>6, <3>7 DEF Shape
    <3> QED
      BY <3>1, <3>2, <3>8 DEF t
  <2> QED
    BY <1>3, <2>1, <2>2
<1>10. CASE Complete
  <2>1. /\ stack # <<>> /\ text' = text /\ type' = type /\ pos' = pos
        /\ HandedOver(stack[1].at, Tail(stack))
    BY <1>10, CompleteStep
  <2> DEFINE t == Tail(stack)
  <2>2. t \in Seq(Frames) /\ Len(t) = Len(stack) - 1 /\ \A i \in 1 .. Len(t) : t[i] = stack[i + 1]
    BY <1>1, <2>1, TailIs
  <2>3. stack[1].at \in Nat
    <3>1. 1 \in 1 .. Len(stack)
      BY <1>1, <2>1
    <3> QED
      BY <1>1, <3>1, FrameIs
  <2>4. HandedOver(stack[1].at, t)
    BY <2>1
  <2> HIDE DEF t
  <2>5. \A i \in 1 .. Len(t) : i + 1 \in 2 .. Len(stack)
    BY <1>1, <2>2
  <2>6. \A i \in 1 .. Len(t) : t[i].live
    BY <1>2, <2>2, <2>5
  <2>7. Len(t) < Len(type)
    BY <1>1, <2>2
  <2> QED
    BY <1>1, <2>1, <2>2, <2>3, <2>4, <2>6, <2>7, HandedShape
<1> QED
  BY <1>5, <1>6, <1>7, <1>8, <1>9, <1>10 DEF Next

------------------------------------------------------------------------------
(* What stands where.                                                      *)

LastAt(p) == text[Before(p)]

(* The bracket around a place, if the brackets open there are those of the *)
(* outer containers.                                                       *)
LEMMA AroundIs ==
  ASSUME TextOK, IsType(type), NEW k \in 0 .. (Len(type) - 1), NEW p, Behind(p) = Nest(k)
  PROVE  /\ k = 0 => Around(Opened, p) = ""
         /\ k # 0 => Around(Opened, p) = Opener(type[k]) /\ Before(p) # 0
<1>1. k = 0 => Nest(k) = <<>>
  BY NestIs
<1>2. k # 0 => Nest(k) # <<>> /\ Nest(k)[1] = Opener(type[k])
  BY NestIs
<1>3. Opened[0] = <<>>
  BY OpenedIs
<1> QED
  BY <1>1, <1>2, <1>3, Zenon DEF Around, Behind

(* It is a brace in a map written as a class, and a square bracket         *)
(* elsewhere.                                                              *)
LEMMA AroundKind ==
  ASSUME TextOK, IsType(type), NEW k \in 1 .. (Len(type) - 1), NEW p, Behind(p) = Nest(k)
  PROVE  Around(Opened, p) = (IF type[k].kind = "map" THEN "{" ELSE "[") /\ Before(p) # 0 /\ Around(Opened, p) # ""
<1>1. k \in 0 .. (Len(type) - 1) /\ k # 0 /\ k \in 1 .. Len(type) /\ k < Len(type)
  BY LevelIs
<1>2. Around(Opened, p) = Opener(type[k]) /\ Before(p) # 0
  BY <1>1, AroundIs
<1>3. Opener(type[k]) = IF type[k].kind = "map" THEN "{" ELSE "["
  BY <1>1, OpenerIs
<1> QED
  BY <1>2, <1>3

(* What is a value is no key.                                              *)
LEMMA ValueIsNotKey ==
  ASSUME NEW q, IsValue(Opened, q)
  PROVE  ~ IsKey(Opened, q)
<1>1. "{" # "["
  OBVIOUS
<1> QED
  BY <1>1, Zenon DEF IsValue, IsKey

(* The closing bracket may stand behind the opening one, a comma or a      *)
(* value.                                                                  *)
LEMMA CloserHere ==
  ASSUME TextOK, IsType(type), NEW k \in 1 .. (Len(type) - 1), NEW q \in Tokens, Behind(q) = Nest(k),
         text[q] = ClosingOf(type[k]),
         LastAt(q) \in {Opener(type[k]), ","} \/ EndsValue(Opened, Before(q))
  PROVE  Placed(Opened, q, TRUE)
<1>1. k \in 0 .. (Len(type) - 1) /\ k # 0 /\ k \in 1 .. Len(type) /\ k < Len(type)
  BY LevelIs
<1>2. text[q] \in Right
  BY <1>1, OpenerIs
<1>3. text[q] \in {",", "]", "}"} /\ text[q] # ","
  BY <1>2 DEF Right
<1>4. Around(Opened, q) = Opener(type[k]) /\ Before(q) # 0
  BY <1>1, AroundIs
<1>5. Around(Opened, q) # ""
  BY AroundKind
<1>6. LastAt(q) = text[Before(q)]
  BY DEF LastAt
<1> QED
  BY <1>2, <1>3, <1>4, <1>5, <1>6 DEF Placed

(* A comma may stand behind a value.                                       *)
LEMMA CommaHere ==
  ASSUME TextOK, IsType(type), NEW k \in 1 .. (Len(type) - 1), NEW q \in Tokens, Behind(q) = Nest(k),
         text[q] = ",", EndsValue(Opened, Before(q)), NEW l
  PROVE  Placed(Opened, q, l)
<1>1. Before(q) # 0 /\ Around(Opened, q) # ""
  BY AroundKind
<1> QED
  BY <1>1, Zenon DEF Placed

AllPlaced(p) == \A x \in Tokens : x < p => Placed(Opened, x, TRUE)

(* If all tokens up to one and that one may stand where they do, so may    *)
(* all in front of the place behind it.                                    *)
LEMMA PlacedPast ==
  ASSUME TextOK, NEW q \in Tokens, NEW p, Past(q, p), AllPlaced(q), Placed(Opened, q, TRUE)
  PROVE  AllPlaced(p)
BY PastIs DEF AllPlaced

(* Trimming passes no token.                                               *)
LEMMA PlacedTrim ==
  ASSUME TextOK, NEW p \in 1 .. EndOfText, AllPlaced(p)
  PROVE  AllPlaced(Trim(p))
BY TrimIs DEF AllPlaced

------------------------------------------------------------------------------
(* The cursor follows the containers: what is open in front of it are the  *)
(* containers that are live, and the last token is what it should be.      *)

Live(s) == IF s # <<>> /\ ~ s[1].live THEN Len(s) - 1 ELSE Len(s)

FollowsValue(s, p) ==
  IF s = <<>> THEN Before(p) = 0
  ELSE LastAt(p) \in (IF type[Len(s)].kind = "map" THEN {":"} ELSE {"[", ","})
FollowsFill(s, p) ==
  IF s[1].live THEN \/ LastAt(p) \in {Opener(type[Len(s)]), ","}
                    \/ type[Len(s)].kind = "map" /\ EndsValue(Opened, Before(p))
  ELSE LastAt(p) \in Right
OnTrack(p, s, ph) ==
  /\ Behind(p) = Nest(Live(s))
  /\ ph = "value" => FollowsValue(s, p)
  /\ ph = "fill" => FollowsFill(s, p)
  /\ ph = "step" => EndsValue(Opened, Before(p))

(* What begins a value where the cursor waits for one is a value, on the   *)
(* level it waits on.                                                      *)
LEMMA ValueHere ==
  ASSUME TextOK, IsType(type), NEW p, NEW s, Shape(p, s, "value"), OnTrack(p, s, "value"), text[p] \in Starts
  PROVE  IsValue(Opened, p) /\ Behind(p) = Nest(Len(s))
<1>1. s \in Seq(Frames) /\ Len(s) < Len(type) /\ Len(type) \in Nat \ {0} /\ (s # <<>> => s[1].live)
  BY TypeFacts DEF Shape
<1>2. Behind(p) = Nest(Len(s)) /\ FollowsValue(s, p)
  BY <1>1 DEF OnTrack, Live
<1>3. CASE s = <<>>
  <2>1. Before(p) = 0 /\ Nest(Len(s)) = Nest(0)
    BY <1>2, <1>3 DEF FollowsValue
  <2>2. 0 \in 0 .. (Len(type) - 1)
    BY <1>1
  <2>3. Around(Opened, p) = ""
    BY <1>2, <2>1, <2>2, AroundIs
  <2> QED
    BY <1>2, <2>1, <2>3 DEF IsValue
<1>4. CASE s # <<>>
  <2>1. Len(s) \in 1 .. (Len(type) - 1)
    BY <1>1, <1>4
  <2>2. Around(Opened, p) = (IF type[Len(s)].kind = "map" THEN "{" ELSE "[")
    BY <1>2, <2>1, AroundKind
  <2>3. text[Before(p)] \in (IF type[Len(s)].kind = "map" THEN {":"} ELSE {"[", ","})
    BY <1>2, <1>4, Zenon DEF FollowsValue, LastAt
  <2> QED
    BY <1>2, <2>2, <2>3 DEF IsValue
<1> QED
  BY <1>3, <1>4

(* Where the cursor is on its track depends on the token before it only.   *)
LEMMA OnTrackSame ==
  ASSUME NEW p, NEW q, Before(p) = Before(q), NEW s, NEW ph, OnTrack(p, s, ph)
  PROVE  OnTrack(q, s, ph)
BY DEF OnTrack, Behind, FollowsValue, FollowsFill, LastAt

(* The cursor comes to the next element, or to the end of a container.     *)
Arrived(p, p2, k, live) ==
  /\ live => p2 = p
  /\ ~ live => Behind(p2) = Nest(k - 1) /\ LastAt(p2) \in Right
  /\ AllPlaced(p) => AllPlaced(p2)

(* At the closing bracket the cursor is back in the container around;      *)
(* elsewhere it stays.                                                     *)
LEMMA Arrives ==
  ASSUME TextOK, IsType(type), NEW k \in 1 .. (Len(type) - 1), NEW p \in 1 .. EndOfText, Behind(p) = Nest(k),
         LastAt(p) \in {Opener(type[k]), ","} \/ EndsValue(Opened, Before(p)),
         NEW p2, NEW live \in BOOLEAN, Comes(p, type[k], p2, live)
  PROVE  Arrived(p, p2, k, live)
<1> USE DEF Arrived
<1>1. CASE live
  BY <1>1 DEF Comes
<1>2. CASE ~ live
  <2>1. p \in Tokens /\ text[p] = ClosingOf(type[k]) /\ Past(p, p2)
    BY <1>2 DEF Comes
  <2>2. Before(p2) = p /\ Behind(p2) = Opened[p]
    BY <2>1, PastIs
  <2>3. Opened[p] = Nest(k - 1)
    BY <2>1, PopIs
  <2>4. k \in 1 .. Len(type) /\ k < Len(type)
    BY LevelIs
  <2>5. text[p] \in Right
    BY <2>1, <2>4, OpenerIs
  <2>6. Placed(Opened, p, TRUE)
    BY <2>1, CloserHere
  <2>7. AllPlaced(p) => AllPlaced(p2)
    BY <2>1, <2>6, PlacedPast
  <2>8. LastAt(p2) \in Right
    BY <2>2, <2>5, Zenon DEF LastAt
  <2> QED
    BY <1>2, <2>2, <2>3, <2>7, <2>8, Zenon
<1> QED
  BY <1>1, <1>2

Active(ph) == ph \in {"value", "fill", "step"}

Tracked == Active(phase) /\ OnTrack(pos, stack, phase)
TrackedNext == /\ phase' # "failed" => (AllPlaced(pos) => AllPlaced(pos'))
               /\ Active(phase') => OnTrack(pos', stack', phase')

(* Nothing is left to show when the text is refused.                       *)
LEMMA FailTracked ==
  ASSUME Fail
  PROVE  TrackedNext
BY DEF Fail, TrackedNext, Active

(* The cursor stays on its track when a scalar is parsed.                  *)
LEMMA ScalarTracked ==
  ASSUME Setting, Tracked, ParseScalar
  PROVE  TrackedNext
<1>1. TextOK /\ IsType(type) /\ Shape(pos, stack, phase)
  BY DEF Setting
<1>2. /\ phase = "value" /\ Len(stack) + 1 = Len(type)
      /\ \/ Fail
         \/ pos \in Tokens /\ text[pos] = Opener(Want) /\ Past(pos, pos') /\ HandedOver(pos, stack)
  BY ScalarStep, Zenon
<1> SUFFICES ASSUME pos \in Tokens, text[pos] = Opener(Want), Past(pos, pos'), HandedOver(pos, stack) PROVE TrackedNext
  BY <1>2, FailTracked
<1>3. Want = type[Len(type)] /\ Len(type) \in 1 .. Len(type)
  BY <1>2, SettingFacts
<1>4. text[pos] \in {"n", "s", "o"}
  BY <1>1, <1>3, OpenerIs
<1>5. text[pos] \in Starts /\ text[pos] \notin Left /\ text[pos] \notin Right
  BY <1>4 DEF Starts, Left, Right
<1>6. IsValue(Opened, pos) /\ Behind(pos) = Nest(Len(stack))
  BY <1>1, <1>2, <1>5, ValueHere DEF Tracked
<1>7. EndsValue(Opened, pos)
  BY <1>4, <1>6, ValueIsNotKey DEF EndsValue
<1>8. Before(pos') = pos /\ Behind(pos') = Opened[pos]
  BY <1>1, PastIs
<1>9. Opened[pos] = Nest(Len(stack))
  BY <1>1, <1>5, <1>6, PassIs
<1>10. AllPlaced(pos) => AllPlaced(pos')
  <2>1. Placed(Opened, pos, TRUE)
    BY <1>6 DEF Placed
  <2> QED
    BY <1>1, <2>1, PlacedPast
<1>11. ASSUME stack # <<>>, stack' = Took(stack, pos), phase' = "step" PROVE OnTrack(pos', stack', phase')
  <2> DEFINE t == Took(stack, pos)
  <2>1. stack \in Seq(Frames) /\ pos \in Nat /\ stack[1].live
    BY <1>1, <1>2, <1>11, TextFacts DEF Shape
  <2>2. Len(t) = Len(stack) /\ t # <<>> /\ t[1].live = stack[1].live
    BY <1>11, <2>1, TookIs
  <2> HIDE DEF t
  <2>3. Live(t) = Len(stack)
    BY <2>1, <2>2 DEF Live
  <2>4. OnTrack(pos', t, "step")
    BY <1>7, <1>8, <1>9, <2>3, Zenon DEF OnTrack
  <2> QED
    BY <1>11, <2>4 DEF t
<1> QED
  BY <1>10, <1>11 DEF HandedOver, TrackedNext, Active

(* The cursor stays on its track when a container begins, which is a value *)
(* there.                                                                  *)
LEMMA BeginsTracked ==
  ASSUME Setting, phase = "value", NEW q \in Tokens, OnTrack(q, stack, "value"), Len(stack) + 1 < Len(type),
         NEW p, Begins(q, p)
  PROVE  /\ AllPlaced(q) => AllPlaced(pos')
         /\ OnTrack(pos', stack', phase')
         /\ IsValue(Opened, q) /\ Behind(q) = Nest(Len(stack)) /\ Opened[q] = Nest(Len(stack) + 1)
<1>1. TextOK /\ IsType(type) /\ Shape(pos, stack, phase)
  BY DEF Setting
<1>2. q \in Tokens /\ text[q] = Opener(Want) /\ Past(q, p) /\ phase' = "fill"
  BY DEF Begins
<1>3. PICK live \in BOOLEAN : Comes(p, Want, pos', live) /\ stack' = <<Frame(q, live, <<>>)>> \o stack
  BY DEF Begins
<1> DEFINE k == Len(stack) + 1
           t == <<Frame(q, live, <<>>)>> \o stack
<1>4. k \in 1 .. (Len(type) - 1) /\ k \in 1 .. Len(type) /\ k < Len(type) /\ Want = type[k] /\ k - 1 = Len(stack)
      /\ Len(stack) \in 0 .. (Len(type) - 1) /\ stack \in Seq(Frames)
  BY SettingFacts
<1>5. q \in Nat
  BY <1>1, TextFacts
<1>6. Len(t) = k /\ t # <<>> /\ t[1].live = live
  <2>1. IsPushed(t, stack, q, live)
    BY <1>4, <1>5, PushedIs, Zenon
  <2> HIDE DEF t
  <2>2. Len(t) = Len(stack) + 1 /\ t # <<>> /\ t[1].live = live
    BY <2>1, Zenon DEF IsPushed
  <2> QED
    BY <2>2
<1>7. text[q] \in Left
  BY <1>1, <1>2, <1>4, OpenerIs
<1>8. text[q] \in Starts
  BY <1>7 DEF Left, Starts
<1>9. q \in 1 .. EndOfText
  BY <1>1, TextFacts
<1>10. Shape(q, stack, "value")
  BY <1>1, <1>9 DEF Shape
<1>11. IsValue(Opened, q) /\ Behind(q) = Nest(Len(stack))
  BY <1>1, <1>8, <1>10, ValueHere
<1>12. Opened[q] = Nest(k)
  BY <1>1, <1>2, <1>4, <1>11, PushIs
<1>13. p \in 1 .. EndOfText /\ Before(p) = q /\ Behind(p) = Nest(k)
  BY <1>1, <1>2, <1>12, PastIs
<1>14. LastAt(p) = Opener(type[k])
  BY <1>2, <1>4, <1>13, Zenon DEF LastAt
<1> HIDE DEF k, t
<1>15. Comes(p, type[k], pos', live)
  BY <1>3, <1>4
<1>22. LastAt(p) \in {Opener(type[k]), ","} \/ EndsValue(Opened, Before(p))
  BY <1>14
<1>16. /\ live => pos' = p
       /\ ~ live => Behind(pos') = Nest(k - 1) /\ LastAt(pos') \in Right
       /\ AllPlaced(p) => AllPlaced(pos')
  <2>1. Arrived(p, pos', k, live)
    BY <1>1, <1>4, <1>13, <1>15, <1>22, Arrives, Zenon
  <2> QED
    BY <2>1 DEF Arrived
<1>17. AllPlaced(q) => AllPlaced(pos')
  <2>1. Placed(Opened, q, TRUE)
    BY <1>11 DEF Placed
  <2>2. AllPlaced(q) => AllPlaced(p)
    BY <1>1, <1>2, <2>1, PlacedPast
  <2> QED
    BY <1>16, <2>2
<1>18. Live(t) = IF live THEN k ELSE k - 1
  BY <1>6 DEF Live
<1>19. Behind(pos') = Nest(Live(t))
  BY <1>13, <1>16, <1>18, Zenon
<1>20. FollowsFill(t, pos')
  <2>1. live => LastAt(pos') \in {Opener(type[Len(t)]), ","}
    BY <1>6, <1>14, <1>16
  <2> QED
    BY <1>6, <1>16, <2>1, Zenon DEF FollowsFill
<1>21. OnTrack(pos', t, "fill")
  BY <1>19, <1>20 DEF OnTrack
<1> QED
  BY <1>2, <1>3, <1>11, <1>12, <1>17, <1>21 DEF k, t

(* So it does whichever way a container is entered.                        *)
LEMMA EnterTracked ==
  ASSUME Setting, Tracked, EnterArray \/ EnterMap \/ EnterPairs
  PROVE  TrackedNext
<1>1. TextOK /\ pos \in 1 .. EndOfText /\ EndOfText \in Nat
  BY SettingFacts, TextFacts DEF Setting
<1>2. /\ phase = "value" /\ Len(stack) + 1 < Len(type)
      /\ \/ Fail
         \/ \E q \in {pos, Trim(pos)} : \E p \in {q + 1, Trim(q + 1)} : Begins(q, p)
  BY EnterStep, Zenon
<1>3. ASSUME NEW q \in {pos, Trim(pos)}, NEW p, Begins(q, p) PROVE TrackedNext
  <2>1. q \in Tokens /\ phase' = "fill"
    BY <1>3 DEF Begins
  <2>2. Before(q) = Before(pos)
    BY <1>1, BeforeTrim
  <2>3. OnTrack(q, stack, "value")
    BY <1>2, <2>2, OnTrackSame DEF Tracked
  <2>4. AllPlaced(pos) => AllPlaced(q)
    BY <1>1, PlacedTrim
  <2>5. (AllPlaced(q) => AllPlaced(pos')) /\ OnTrack(pos', stack', phase')
    BY <1>2, <1>3, <2>1, <2>3, BeginsTracked
  <2> QED
    BY <2>4, <2>5 DEF TrackedNext
<1> QED
  BY <1>2, <1>3, FailTracked

(* The cursor stays on its track when an element of an array is asked for. *)
LEMMA DereferenceTracked ==
  ASSUME Setting, Tracked, Dereference
  PROVE  TrackedNext
<1>1. /\ phase = "fill" /\ stack[1].live /\ Mine.kind # "map"
      /\ Fail \/ (phase' = "value" /\ pos' = pos /\ stack' = stack)
  BY DereferenceStep, Zenon
<1> SUFFICES ASSUME phase' = "value", pos' = pos, stack' = stack PROVE TrackedNext
  BY <1>1, FailTracked
<1>2. stack # <<>> /\ Mine = type[Len(stack)] /\ Len(stack) \in 1 .. Len(type) /\ Len(stack) < Len(type) /\ IsType(type)
  BY <1>1, SettingFacts DEF Setting, Shape
<1>3. Opener(type[Len(stack)]) = "["
  BY <1>1, <1>2, OpenerIs
<1>4. OnTrack(pos, stack, "fill")
  BY <1>1 DEF Tracked
<1>5. LastAt(pos) \in {"[", ","}
  BY <1>1, <1>2, <1>3, <1>4 DEF OnTrack, FollowsFill
<1>6. FollowsValue(stack, pos)
  BY <1>1, <1>2, <1>5 DEF FollowsValue
<1>7. OnTrack(pos, stack, "value")
  BY <1>4, <1>6 DEF OnTrack
<1> QED
  BY <1>7 DEF TrackedNext

(* All containers of a stack are live if the innermost one is.             *)
LEMMA LiveAll ==
  ASSUME NEW s \in Seq(Frames), s # <<>>, s[1].live
  PROVE  Live(s) = Len(s)
BY DEF Live

(* The cursor stays on its track when a key is read.                       *)
LEMMA KeyTracked ==
  ASSUME Setting, Tracked, DereferenceKey
  PROVE  TrackedNext
<1>1. /\ phase = "fill" /\ stack[1].live /\ Mine.kind = "map"
      /\ Fail \/ KeyRead
  BY KeyStep, Zenon
<1> SUFFICES ASSUME KeyRead PROVE TrackedNext
  BY <1>1, FailTracked
<1>2. /\ TextOK /\ IsType(type) /\ Len(stack) \in 1 .. (Len(type) - 1) /\ Mine = type[Len(stack)] /\ stack # <<>>
      /\ stack \in Seq(Frames) /\ Len(stack) \in 1 .. Len(type) /\ Len(stack) < Len(type) /\ Len(stack) \in 0 .. (Len(type) - 1)
  BY <1>1, SettingFacts DEF Setting, Shape
<1> DEFINE c == Trim(pos + 1)
<1>3. /\ pos \in Tokens /\ text[pos] = "s" /\ Past(pos, c)
      /\ c \in Tokens /\ text[c] = ":" /\ Past(c, pos')
      /\ phase' = "value" /\ stack' = stack
  BY Zenon DEF KeyRead
<1> HIDE DEF c
<1>4. OnTrack(pos, stack, "fill")
  BY <1>1 DEF Tracked
<1>5. Behind(pos) = Nest(Len(stack))
  BY <1>1, <1>2, <1>4, LiveAll DEF OnTrack
<1>6. Around(Opened, pos) = "{"
  BY <1>1, <1>2, <1>5, AroundKind
<1>7. Opener(Mine) = "{"
  BY <1>1, <1>2, OpenerIs
<1>8. LastAt(pos) \in {"{", ","} \/ EndsValue(Opened, Before(pos))
  BY <1>1, <1>2, <1>4, <1>7 DEF OnTrack, FollowsFill
<1>9. LastAt(pos) # ":"
  BY <1>8 DEF LastAt, EndsValue
<1>10. IsKey(Opened, pos)
  BY <1>3, <1>6, <1>9 DEF IsKey, LastAt
<1>11. Placed(Opened, pos, TRUE)
  BY <1>10, Zenon DEF Placed
<1>12. Before(c) = pos /\ Behind(c) = Opened[pos] /\ pos # 0
  BY <1>2, <1>3, PastIs
<1>13. Placed(Opened, c, TRUE)
  BY <1>3, <1>10, <1>12, Zenon DEF Placed
<1>14. Before(pos') = c /\ Behind(pos') = Opened[c]
  BY <1>2, <1>3, PastIs
<1>15. Opened[c] = Nest(Len(stack))
  <2>1. "s" \notin Left /\ "s" \notin Right /\ ":" \notin Left /\ ":" \notin Right
    BY DEF Left, Right
  <2>2. Opened[pos] = Behind(pos)
    BY <1>2, <1>3, <2>1, PassIs, Zenon
  <2>3. Opened[c] = Behind(c)
    BY <1>2, <1>3, <2>1, PassIs, Zenon
  <2> QED
    BY <1>5, <1>12, <2>2, <2>3
<1>16. AllPlaced(pos) => AllPlaced(pos')
  <2>1. AllPlaced(pos) => AllPlaced(c)
    BY <1>2, <1>3, <1>11, PlacedPast
  <2>2. AllPlaced(c) => AllPlaced(pos')
    BY <1>2, <1>3, <1>13, PlacedPast
  <2> QED
    BY <2>1, <2>2
<1>17. FollowsValue(stack, pos')
  BY <1>1, <1>2, <1>3, <1>14 DEF FollowsValue, LastAt
<1>18. OnTrack(pos', stack, "value")
  <2>1. Live(stack) = Len(stack)
    BY <1>1, <1>2, LiveAll
  <2> QED
    BY <1>14, <1>15, <1>17, <2>1 DEF OnTrack
<1> QED
  BY <1>3, <1>16, <1>18 DEF TrackedNext

(* The cursor stays on its track when the iterator is stepped.             *)
LEMMA IterateTracked ==
  ASSUME Setting, Tracked, StepArray \/ StepMap
  PROVE  TrackedNext
<1> DEFINE t == Trim(pos)
           p == BehindComma(t)
           k == Len(stack)
<1>1. /\ phase = "step" /\ stack # <<>>
      /\ Fail \/ (Iterated(p) /\ (Mine.kind # "map" => AtNextElement(t)))
  BY IterateStep, Zenon
<1> SUFFICES ASSUME Iterated(p), Mine.kind # "map" => AtNextElement(t) PROVE TrackedNext
  BY <1>1, FailTracked
<1>2. /\ TextOK /\ IsType(type) /\ k \in 1 .. (Len(type) - 1) /\ Mine = type[k]
      /\ stack \in Seq(Frames) /\ k \in 1 .. Len(type) /\ k < Len(type) /\ k \in 0 .. (Len(type) - 1)
      /\ pos \in 1 .. EndOfText /\ EndOfText \in Nat
  BY <1>1, SettingFacts, TextFacts DEF Setting
<1>3. stack[1].live
  BY <1>1 DEF Setting, Shape
<1>4. OnTrack(pos, stack, "step")
  BY <1>1 DEF Tracked
<1>5. t \in 1 .. EndOfText /\ Before(t) = Before(pos)
  <2>1. t \in pos .. EndOfText
    BY <1>2, TrimIs
  <2> QED
    BY <1>2, <2>1, BeforeTrim
<1>6. Behind(t) = Nest(k) /\ EndsValue(Opened, Before(t))
  <2>1. Live(stack) = k
    BY <1>1, <1>2, <1>3, LiveAll
  <2> QED
    BY <1>4, <1>5, <2>1 DEF OnTrack, Behind
<1>7. PICK live \in BOOLEAN : Comes(p, Mine, pos', live) /\ stack' = Became(stack, live)
  BY DEF Iterated
<1>8. NextFrom(t, p) /\ phase' = "fill"
  BY DEF Iterated
<1> HIDE DEF t, p, k
<1>9. /\ p \in 1 .. EndOfText /\ Behind(p) = Nest(k)
      /\ LastAt(p) = "," \/ EndsValue(Opened, Before(p))
      /\ LastAt(p) = "," \/ (p = t /\ At(text, p) # ",")
      /\ AllPlaced(t) => AllPlaced(p)
  <2>1. CASE At(text, t) # "," /\ p = t
    BY <1>5, <1>6, <2>1
  <2>2. CASE t \in Tokens /\ text[t] = "," /\ Past(t, p)
    <3>1. p \in 1 .. EndOfText /\ Before(p) = t /\ Behind(p) = Opened[t]
      BY <1>2, <2>2, PastIs
    <3>2. Opened[t] = Behind(t)
      <4>1. "," \notin Left /\ "," \notin Right
        BY DEF Left, Right
      <4> QED
        BY <1>2, <2>2, <4>1, PassIs, Zenon
    <3>3. Placed(Opened, t, TRUE)
      BY <1>2, <1>6, <2>2, CommaHere
    <3>4. AllPlaced(t) => AllPlaced(p)
      BY <1>2, <2>2, <3>3, PlacedPast
    <3> QED
      BY <1>6, <2>2, <3>1, <3>2, <3>4 DEF LastAt
  <2> QED
    BY <1>8, <2>1, <2>2 DEF NextFrom
<1>10. Arrived(p, pos', k, live)
  <2>1. LastAt(p) \in {Opener(type[k]), ","} \/ EndsValue(Opened, Before(p))
    BY <1>9
  <2>2. Comes(p, type[k], pos', live)
    BY <1>2, <1>7, Zenon
  <2> QED
    BY <1>2, <1>7, <1>9, <2>1, <2>2, Arrives, Zenon
<1> DEFINE s == Became(stack, live)
<1>11. Len(s) = k /\ s # <<>> /\ s[1].live = live
  <2>1. IsBecome(s, stack, live)
    BY <1>1, <1>2, <1>7, BecameIs, Zenon
  <2> HIDE DEF s
  <2> QED
    BY <2>1, Zenon DEF IsBecome, k
<1> HIDE DEF s
<1>12. Live(s) = IF live THEN k ELSE k - 1
  BY <1>11, Zenon DEF Live
<1>13. FollowsFill(s, pos')
  <2>1. CASE ~ live
    BY <1>10, <1>11, <2>1, Zenon DEF FollowsFill, Arrived
  <2>2. CASE live
    <3>1. pos' = p /\ At(text, p) # ClosingOf(type[k])
      BY <1>2, <1>7, <1>10, <2>2 DEF Arrived, Comes
    <3>2. CASE LastAt(p) = ","
      BY <1>11, <2>2, <3>1, <3>2 DEF FollowsFill
    <3>3. CASE LastAt(p) # ","
      <4>1. p = t /\ At(text, p) # "," /\ EndsValue(Opened, Before(p))
        BY <1>9, <3>3
      <4>2. ASSUME Mine.kind # "map" PROVE FALSE
        <5>1. At(text, t) \in {",", "]"}
          BY <4>2 DEF AtNextElement
        <5>2. ClosingOf(type[k]) = "]"
          BY <1>2, <4>2 DEF ClosingOf
        <5> QED
          BY <3>1, <4>1, <5>1, <5>2
      <4> QED
        BY <1>2, <1>11, <2>2, <3>1, <4>1, <4>2, Zenon DEF FollowsFill
    <3> QED
      BY <3>2, <3>3
  <2> QED
    BY <2>1, <2>2
<1>14. Behind(pos') = Nest(Live(s))
  BY <1>9, <1>10, <1>12, Zenon DEF Arrived
<1>15. OnTrack(pos', s, "fill")
  BY <1>13, <1>14 DEF OnTrack
<1>16. AllPlaced(pos) => AllPlaced(pos')
  <2>1. AllPlaced(pos) => AllPlaced(t)
    BY <1>2, PlacedTrim DEF t
  <2> QED
    BY <1>9, <1>10, <2>1 DEF Arrived
<1> QED
  BY <1>7, <1>8, <1>15, <1>16 DEF TrackedNext, s

(* The cursor stays on its track when a container is complete whose        *)
(* bracket it has passed, or the outermost one.                            *)
LEMMA CompleteTracked ==
  ASSUME Setting, Tracked, Complete, ~ stack[1].live \/ Len(stack) = 1
  PROVE  TrackedNext
<1>1. /\ phase = "fill" /\ stack # <<>> /\ pos' = pos
      /\ HandedOver(stack[1].at, Tail(stack))
  BY CompleteStep
<1>2. stack \in Seq(Frames) /\ Len(stack) \in Nat
  BY SettingFacts
<1> DEFINE t == Tail(stack)
<1>3. t \in Seq(Frames) /\ Len(t) = Len(stack) - 1 /\ (t = <<>> <=> Len(stack) = 1) /\ \A i \in 1 .. Len(t) : t[i] = stack[i + 1]
  BY <1>1, <1>2, TailIs
<1>4. HandedOver(stack[1].at, t) /\ t = Tail(stack)
  BY <1>1
<1> HIDE DEF t
<1>5. ASSUME t # <<>>, stack' = Took(t, stack[1].at), phase' = "step" PROVE OnTrack(pos', stack', phase')
  <2>1. ~ stack[1].live
    BY <1>3, <1>5
  <2>2. OnTrack(pos, stack, "fill")
    BY <1>1 DEF Tracked
  <2>3. Behind(pos) = Nest(Len(t)) /\ LastAt(pos) \in Right
    BY <1>1, <1>3, <2>1, <2>2 DEF OnTrack, Live, FollowsFill
  <2>4. t[1].live
    <3>1. 1 + 1 \in 2 .. Len(stack) /\ 1 \in 1 .. Len(t)
      BY <1>2, <1>3, <1>5
    <3>2. stack[1 + 1].live
      BY <3>1 DEF Setting, Shape
    <3> QED
      BY <1>3, <3>1, <3>2
  <2>5. stack[1].at \in Nat
    <3>1. 1 \in 1 .. Len(stack)
      BY <1>1, <1>2
    <3> QED
      BY <1>2, <3>1, FrameIs
  <2> DEFINE s == Took(t, stack[1].at)
  <2>6. Len(s) = Len(t) /\ s # <<>> /\ s[1].live = t[1].live
    BY <1>3, <1>5, <2>5, TookIs
  <2> HIDE DEF s
  <2>7. Live(s) = Len(t)
    BY <2>4, <2>6 DEF Live
  <2>8. EndsValue(Opened, Before(pos))
    <3>1. text[Before(pos)] \in Right
      BY <2>3 DEF LastAt
    <3>2. text[Before(pos)] \in {"n", "s", "o", "]", "}"} /\ text[Before(pos)] # "s"
      BY <3>1 DEF Right
    <3> QED
      BY <3>2 DEF EndsValue, IsKey
  <2>9. OnTrack(pos, s, "step")
    BY <2>3, <2>7, <2>8 DEF OnTrack
  <2> QED
    BY <1>1, <1>5, <2>9 DEF s
<1> QED
  BY <1>1, <1>4, <1>5 DEF HandedOver, TrackedNext, Active

(* So no action leaves the track, unless an inner container was short of   *)
(* room.                                                                   *)
LEMMA TrackedStep ==
  ASSUME Setting, Tracked, Next, Complete => ~ stack[1].live \/ Len(stack) = 1
  PROVE  TrackedNext
BY ScalarTracked, EnterTracked, DereferenceTracked, KeyTracked, IterateTracked, CompleteTracked DEF Next

NoneShort == \A i \in 2 .. Len(type) : type[i].limit = Unlimited

(* Where no inner container is short of room, all that has been read is    *)
(* where it may be.                                                        *)
AcceptsInv ==
  NoneShort => /\ Active(phase) => OnTrack(pos, stack, phase)
               /\ phase # "failed" => AllPlaced(pos)

(* If no inner container can be short of room, no action leaves the track  *)
(* and what has been read may stand where it does.                         *)
LEMMA AcceptsStep ==
  ASSUME Setting, AcceptsInv, Next, NoneShort
  PROVE  /\ Active(phase') => OnTrack(pos', stack', phase')
         /\ phase' # "failed" => AllPlaced(pos')
<1>1. Active(phase)
  BY DEF Next, ParseScalar, EnterArray, EnterMap, EnterPairs, Dereference, DereferenceKey, StepArray, StepMap, Complete, Active
<1>2. Tracked /\ phase # "failed"
  BY <1>1 DEF AcceptsInv, Tracked, Active
<1>3. ASSUME Complete, stack[1].live, Len(stack) # 1 PROVE FALSE
  <2>1. Len(stack[1].taken) = Mine.limit /\ stack # <<>>
    BY <1>3, CompleteStep
  <2>2. stack \in Seq(Frames) /\ Len(stack) \in 1 .. Len(type) /\ Mine = type[Len(stack)] /\ Len(type) \in Nat
    BY <2>1, SettingFacts
  <2>3. Len(stack) \in 2 .. Len(type)
    <3>1. Len(stack) # 1 /\ Len(stack) \in 1 .. Len(type) /\ Len(type) \in Nat
      BY <1>3, <2>2, Zenon
    <3>2. \A m \in Nat : \A n \in 1 .. m : n # 1 => n \in 2 .. m
      OBVIOUS
    <3> QED
      BY <3>1, <3>2, Zenon
  <2>4. Mine.limit = -1
    BY <2>2, <2>3 DEF NoneShort, Unlimited
  <2>5. stack[1].taken \in Seq(Nat)
    <3>1. 1 \in 1 .. Len(stack)
      BY <2>2
    <3> QED
      BY <2>2, <3>1, FrameIs
  <2>6. Len(stack[1].taken) \in Nat
    BY <2>5
  <2> QED
    BY <2>1, <2>4, <2>6
<1>4. TrackedNext
  BY <1>2, <1>3, TrackedStep
<1> QED
  BY <1>2, <1>4 DEF AcceptsInv, TrackedNext

Setup == text' = text /\ type' = type

(* The brackets and tokens stay as long as the text does.                  *)
LEMMA OpenedKept ==
  ASSUME Setup
  PROVE  Opened' = Opened /\ Tokens' = Tokens /\ EndOfText' = EndOfText
BY DEF Setup, Opened, Tokens, EndOfText

(* Text and type stay what they are.                                       *)
LEMMA SettingKept ==
  ASSUME Setup, Setting, Shape(pos', stack', phase')
  PROVE  Setting'
<1>1. EndOfText' = EndOfText
  BY OpenedKept
<1>2. TextOK' /\ IsType(type)'
  BY DEF Setting, Setup, TextOK, IsType
<1>3. Shape(pos, stack, phase)'
  BY <1>1 DEF Shape, Setup
<1> QED
  BY <1>2, <1>3 DEF Setting

(* The token before a place stays as long as the text does.                *)
LEMMA BeforeKept ==
  ASSUME Setup
  PROVE  /\ \A p : Before(p)' = Before(p)
         /\ Before(pos)' = Before(pos')
BY OpenedKept DEF Before

(* What a token is stays as long as the text does.                         *)
LEMMA KindsKept ==
  ASSUME Setup, NEW x
  PROVE  /\ Around(Opened, x)' = Around(Opened, x)
         /\ IsKey(Opened, x)' <=> IsKey(Opened, x)
         /\ IsValue(Opened, x)' <=> IsValue(Opened, x)
         /\ EndsValue(Opened, x)' <=> EndsValue(Opened, x)
<1>1. text' = text /\ Opened' = Opened /\ Before(x)' = Before(x)
  BY OpenedKept, BeforeKept DEF Setup
<1>2. Around(Opened, x)' = Around(Opened, x)
  BY <1>1, Zenon DEF Around
<1>3. IsKey(Opened, x)' <=> IsKey(Opened, x)
  BY <1>1, <1>2, Zenon DEF IsKey
<1>4. IsValue(Opened, x)' <=> IsValue(Opened, x)
  BY <1>1, <1>2, Zenon DEF IsValue
<1>5. EndsValue(Opened, x)' <=> EndsValue(Opened, x)
  BY <1>1, <1>3, Zenon DEF EndsValue
<1> QED
  BY <1>2, <1>3, <1>4, <1>5

(* Whether a token may stand where it does stays as long as the text does. *)
LEMMA PlacedKept ==
  ASSUME Setup, NEW x, NEW l
  PROVE  Placed(Opened, x, l)' <=> Placed(Opened, x, l)
<1>1. text' = text /\ Opened' = Opened /\ Before(x)' = Before(x)
  BY OpenedKept, BeforeKept DEF Setup
<1>2. /\ Around(Opened, x)' = Around(Opened, x)
      /\ IsKey(Opened, x)' <=> IsKey(Opened, x)
      /\ IsValue(Opened, x)' <=> IsValue(Opened, x)
  BY KindsKept
<1>3. Before(Before(x))' = Before(Before(x))
  BY <1>1, OpenedKept DEF Before
<1>4. Around(Opened, Before(x))' = Around(Opened, Before(x))
  BY <1>1, <1>3, Zenon DEF Around
<1>5. IsKey(Opened, Before(x))' <=> IsKey(Opened, Before(x))
  BY <1>1, <1>3, <1>4, Zenon DEF IsKey
<1>6. EndsValue(Opened, Before(x))' <=> EndsValue(Opened, Before(x))
  BY <1>1, <1>5, Zenon DEF EndsValue
<1> QED
  BY <1>1, <1>2, <1>5, <1>6, Zenon DEF Placed

(* The track after a step, read in the state after it.                     *)
LEMMA OnTrackKept ==
  ASSUME Setup, OnTrack(pos', stack', phase')
  PROVE  OnTrack(pos, stack, phase)'
<1>1. text' = text /\ type' = type /\ Opened' = Opened /\ Before(pos)' = Before(pos')
  BY OpenedKept, BeforeKept DEF Setup
<1>2. Behind(pos)' = Behind(pos') /\ LastAt(pos)' = LastAt(pos')
  BY <1>1 DEF Behind, LastAt
<1>3. Nest(Live(stack))' = Nest(Live(stack'))
  BY <1>1 DEF Nest, Live, Opener, Containers, Token
<1>4. EndsValue(Opened, Before(pos))' <=> EndsValue(Opened, Before(pos'))
  BY <1>1, BeforeKept DEF EndsValue, IsKey, Around
<1>5. FollowsValue(stack, pos)' <=> FollowsValue(stack', pos')
  BY <1>1, <1>2 DEF FollowsValue
<1>6. FollowsFill(stack, pos)' <=> FollowsFill(stack', pos')
  BY <1>1, <1>2, <1>4 DEF FollowsFill, Opener, Containers, Token
<1> QED
  BY <1>2, <1>3, <1>4, <1>5, <1>6 DEF OnTrack

(* The tokens that have been read, read in the state after a step.         *)
LEMMA AllPlacedKept ==
  ASSUME Setup, AllPlaced(pos')
  PROVE  AllPlaced(pos)'
BY OpenedKept, PlacedKept DEF AllPlaced

(* At the beginning nothing has been read, in a text and with a type that  *)
(* are what they should be.                                                *)
LEMMA InitSetting ==
  ASSUME Init
  PROVE  Setting /\ OnTrack(pos, stack, phase) /\ AllPlaced(pos) /\ Before(pos) = 0 /\ stack = <<>> /\ phase = "value"
<1>1. /\ type \in Types /\ text \in Texts[type]
      /\ pos = Trim(1) /\ stack = <<>> /\ phase = "value"
  BY DEF Init
<1>2. TextOK /\ IsType(type)
  BY <1>1, ContainersAssumption DEF TextOK
<1>3. Len(text) \in Nat \ {0} /\ EndOfText = Len(text) + 1 /\ Tokens \subseteq 1 .. Len(text)
  BY <1>2, TextFacts
<1>4. 1 \in 1 .. EndOfText /\ 1 \in 0 .. EndOfText
  BY <1>3
<1>5. pos \in 1 .. EndOfText /\ Before(pos) = Before(1) /\ \A x \in Tokens : x < pos <=> x < 1
  BY <1>1, <1>2, <1>4, TrimIs, BeforeTrim
<1>6. \A x \in Tokens : ~ (x < 1)
  BY <1>3
<1>7. Before(1) = 0
  <2>1. Before(1) # 0 => Before(1) \in Tokens /\ Before(1) < 1
    BY <1>2, <1>4, BeforeIs
  <2> QED
    BY <1>6, <2>1, Zenon
<1>8. Behind(pos) = <<>>
  BY <1>2, <1>5, <1>7, OpenedIs DEF Behind
<1>9. Len(type) \in Nat \ {0}
  BY <1>2, TypeFacts
<1>10. Shape(pos, stack, phase)
  <2>1. <<>> \in Seq(Frames) /\ Len(<<>>) = 0
    OBVIOUS
  <2> QED
    BY <1>1, <1>5, <1>9, <2>1 DEF Shape
<1>11. OnTrack(pos, stack, phase)
  <2>1. 0 \in 0 .. (Len(type) - 1)
    BY <1>9
  <2>2. Nest(0) = <<>>
    BY <1>2, <2>1, NestIs
  <2>3. Live(stack) = 0
    BY <1>1 DEF Live
  <2>4. FollowsValue(stack, pos)
    BY <1>1, <1>5, <1>7 DEF FollowsValue
  <2> QED
    BY <1>1, <1>8, <2>2, <2>3, <2>4 DEF OnTrack
<1>12. AllPlaced(pos)
  BY <1>5, <1>6 DEF AllPlaced
<1> QED
  BY <1>1, <1>2, <1>5, <1>7, <1>10, <1>11, <1>12 DEF Setting

(* The shape of the state and the track hold in every state.               *)
LEMMA AcceptsHolds == Spec => [](Setting /\ AcceptsInv)
<1>1. Init => Setting /\ AcceptsInv
  BY InitSetting DEF AcceptsInv
<1>2. Setting /\ AcceptsInv /\ [Next]_vars => (Setting /\ AcceptsInv)'
  <2> SUFFICES ASSUME Setting, AcceptsInv, [Next]_vars PROVE (Setting /\ AcceptsInv)'
    OBVIOUS
  <2>1. CASE Next
    <3>1. Setup /\ Shape(pos', stack', phase')
      BY <2>1, ShapeStep DEF Setup
    <3>2. NoneShort' = NoneShort
      BY <3>1 DEF Setup, NoneShort
    <3>3. ASSUME NoneShort
          PROVE  /\ Active(phase)' => OnTrack(pos, stack, phase)'
                 /\ phase' # "failed" => AllPlaced(pos)'
      <4>1. /\ Active(phase') => OnTrack(pos', stack', phase')
            /\ phase' # "failed" => AllPlaced(pos')
        BY <2>1, <3>3, AcceptsStep
      <4>2. Active(phase)' <=> Active(phase')
        BY DEF Active
      <4> QED
        BY <3>1, <4>1, <4>2, OnTrackKept, AllPlacedKept
    <3> QED
      BY <3>1, <3>2, <3>3, SettingKept DEF AcceptsInv
  <2>2. CASE UNCHANGED vars
    <3>1. Setup /\ pos' = pos /\ stack' = stack /\ phase' = phase
      BY <2>2 DEF Setup, vars
    <3>2. Shape(pos', stack', phase')
      BY <3>1 DEF Setting
    <3>3. NoneShort' = NoneShort
      BY <3>1 DEF Setup, NoneShort
    <3>4. AcceptsInv'
      BY <3>1, <3>3, OnTrackKept, AllPlacedKept DEF AcceptsInv, Active
    <3> QED
      BY <3>1, <3>2, <3>4, SettingKept
  <2> QED
    BY <2>1, <2>2
<1> QED
  BY <1>1, <1>2, PTL DEF Spec

(* TypeOK: the phases, the cursor in the text, no more containers than the *)
(* type has, and all but the innermost one live.                           *)
THEOREM ContainersTypeCorrect == Spec => []TypeOK
<1>1. Setting => TypeOK
  <2> SUFFICES ASSUME Setting PROVE TypeOK
    OBVIOUS
  <2>1. Shape(pos, stack, phase) /\ stack \in Seq(Frames)
    BY DEF Setting, Shape
  <2>2. \A i \in DOMAIN stack : stack[i].live \in BOOLEAN
    BY <2>1, FrameIs
  <2>3. \A i \in DOMAIN stack : i > 1 => i \in 2 .. Len(stack)
    BY <2>1
  <2> QED
    BY <2>1, <2>2, <2>3, Zenon DEF Shape, TypeOK
<1> QED
  BY <1>1, AcceptsHolds, PTL

(* What the containers accept is JSON up to the cursor, but for the commas *)
(* they let pass, unless inner containers are short of room.               *)
THEOREM OnlyContainers == Spec => []AcceptsOnlyContainers
<1>1. AcceptsInv => AcceptsOnlyContainers
  BY DEF AcceptsInv, AcceptsOnlyContainers, AllPlaced, NoneShort
<1> QED
  BY <1>1, AcceptsHolds, PTL

------------------------------------------------------------------------------
(* Texts of the type that are JSON.                                        *)

Suited == Valid(Opened) /\ OfType(Opened)
Final == End(Opened)
AllValues == Values(Opened)
Parts(a) == Elements(Opened, a)

(* The last token of a JSON text closes its first bracket, and is the      *)
(* first to leave none open.                                               *)
LEMMA LastIs ==
  ASSUME TextOK, Suited
  PROVE  /\ Final \in Tokens /\ Final \in 1 .. Len(text) /\ Opened[Final] = <<>>
         /\ \A q \in Tokens : Opened[q] = <<>> => Final <= q
<1> DEFINE ends == {p \in Tokens : Opened[p] = <<>>}
<1>1. Final # 0
  BY DEF Suited, Valid, Final
<1>2. ends # {} /\ Final = CHOOSE p \in ends : \A q \in ends : p <= q
  BY <1>1, Zenon DEF Final, End
<1>3. ends \in SUBSET Nat
  <2>1. \A x \in Tokens : x \in Nat
    BY TextFacts
  <2> QED
    BY <2>1
<1>4. \E p \in ends : \A q \in ends : p <= q
  <2> HIDE DEF ends
  <2> QED
    BY <1>2, <1>3, LeastExists
<1>5. Final \in ends /\ \A q \in ends : Final <= q
  <2> HIDE DEF ends
  <2> QED
    BY <1>2, <1>4, Zenon
<1> QED
  BY <1>5, TextFacts

(* A bracket that matches nothing is not made good behind it.              *)
LEMMA BadStays ==
  ASSUME TextOK, NEW q \in 1 .. Len(text), Opened[q] = <<"bad">>, NEW r \in q .. Len(text)
  PROVE  Opened[r] = <<"bad">>
<1> DEFINE Bad == {x \in q .. Len(text) : Opened[x] = <<"bad">>}
<1>1. Len(text) \in Nat /\ q \in Nat /\ q \in Bad
  BY TextFacts
<1>2. ASSUME NEW x \in (q + 1) .. Len(text), x - 1 \in Bad PROVE x \in Bad
  <2>1. x \in 1 .. Len(text) /\ x \in q .. Len(text)
    BY <1>1
  <2>2. Opened[x] = Effect(Opened[x - 1], text[x])
    BY <2>1, OpenedIs
  <2>3. Opened[x - 1] = <<"bad">>
    BY <1>2
  <2>4. Opened[x] = <<"bad">>
    BY <2>2, <2>3, Zenon DEF Effect
  <2> QED
    BY <2>1, <2>4
<1> HIDE DEF Bad
<1>3. \A x \in q .. Len(text) : x \in Bad
  BY <1>1, <1>2, UpFrom
<1> QED
  BY <1>3 DEF Bad

(* Every closing bracket closes the one that is open.                      *)
LEMMA ClosesOpen ==
  ASSUME TextOK, Suited, IsType(type), NEW q \in Tokens, q <= Final,
         NEW k \in 1 .. (Len(type) - 1), Behind(q) = Nest(k), text[q] \in Right
  PROVE  text[q] = ClosingOf(type[k])
<1>1. q \in 1 .. Len(text) /\ Final \in q .. Len(text) /\ Opened[Final] = <<>>
  <2>1. q \in 1 .. Len(text) /\ Final \in 1 .. Len(text) /\ Opened[Final] = <<>>
    BY LastIs, TextFacts
  <2> QED
    BY <2>1
<1>2. Opened[q] # <<"bad">>
  <2>1. Opened[q] = <<"bad">> => Opened[Final] = <<"bad">>
    BY <1>1, BadStays
  <2> QED
    BY <1>1, <2>1
<1>3. Opened[q] = Effect(Nest(k), text[q])
  BY TokenOpens
<1>0. k \in 0 .. (Len(type) - 1) /\ k # 0 /\ k \in 1 .. Len(type) /\ k < Len(type)
  BY LevelIs
<1>4. Nest(k) # <<"bad">> /\ Nest(k) # <<>> /\ Nest(k)[1] = Opener(type[k])
  BY <1>0, NestIs
<1>5. text[q] \notin Left
  BY DEF Left, Right
<1>6. text[q] = Partner(Opener(type[k]))
  BY <1>2, <1>3, <1>4, <1>5, Zenon DEF Effect
<1> QED
  BY <1>0, <1>6, OpenerIs

(* There is a token behind p, and it may stand there.                      *)
IsNext(t, p) ==
  /\ t \in Tokens /\ t \in 1 .. EndOfText /\ t <= Final /\ Before(t) = Before(p) /\ Behind(t) = Behind(p)
  /\ Placed(Opened, t, FALSE)

(* In front of the last token there is a next one, which may stand where   *)
(* it does.                                                                *)
LEMMA TokenNext ==
  ASSUME TextOK, Suited, NEW p \in 1 .. EndOfText, Before(p) < Final
  PROVE  IsNext(Trim(p), p)
<1> DEFINE t == Trim(p)
           b == Before(p)
<1>1. EndOfText = Len(text) + 1 /\ Len(text) \in Nat /\ p \in 0 .. EndOfText
  BY TextFacts
<1>2. t \in p .. EndOfText /\ (t # EndOfText => t \in Tokens) /\ \A x \in Tokens : x < t <=> x < p
  BY TrimIs
<1>3. Before(t) = b /\ Behind(t) = Behind(p)
  BY BeforeTrim DEF Behind
<1>4. b \in 0 .. Len(text) /\ \A x \in Tokens : x < p => x <= b
  BY <1>1, BeforeIs
<1>5. Final \in Tokens /\ Final \in 1 .. Len(text) /\ b < Final
  BY LastIs
<1> HIDE DEF t, b
<1>6. ~ (Final < p)
  BY <1>4, <1>5
<1>7. ~ (Final < t)
  BY <1>2, <1>5, <1>6
<1>8. t <= Final /\ t # EndOfText /\ t \in 1 .. EndOfText
  BY <1>1, <1>2, <1>5, <1>7
<1>9. Placed(Opened, t, FALSE)
  BY <1>2, <1>8 DEF Suited, Valid, Final
<1>10. t \in Tokens
  BY <1>2, <1>8
<1>11. IsNext(t, p)
  BY <1>3, <1>8, <1>9, <1>10, Zenon DEF IsNext, b
<1> QED
  BY <1>11, Zenon DEF t

(* Brackets are open behind a token in front of the last one.              *)
LEMMA StillOpen ==
  ASSUME TextOK, Suited, IsType(type), NEW q \in Tokens, q <= Final,
         NEW k \in 1 .. (Len(type) - 1), Opened[q] = Nest(k)
  PROVE  q < Final
<1>1. Nest(k) # <<>>
  <2>1. k \in 0 .. (Len(type) - 1) /\ k # 0
    BY LevelIs
  <2> QED
    BY <2>1, NestIs
<1>2. Final \in 1 .. Len(text) /\ q \in 1 .. Len(text) /\ q # Final
  BY <1>1, LastIs, TextFacts
<1> QED
  BY <1>2

------------------------------------------------------------------------------
(* What a token may be behind another.                                     *)

LEMMA BehindValue ==
  ASSUME NEW t, Around(Opened, t) \in Left, Placed(Opened, t, FALSE), EndsValue(Opened, Before(t))
  PROVE  text[t] \in {",", "]", "}"}
<1>1. text[Before(t)] \in {"n", "s", "o", "]", "}"} /\ ~ IsKey(Opened, Before(t))
  BY DEF EndsValue
<1>2. text[Before(t)] \notin {"[", "{", ",", ":"}
  BY <1>1
<1>3. ~ IsValue(Opened, t)
  BY <1>2 DEF IsValue, Left
<1> QED
  BY <1>1, <1>2, <1>3 DEF Placed

(* Behind a key there is a colon.                                          *)
LEMMA BehindKey ==
  ASSUME NEW t, Around(Opened, t) = "{", Placed(Opened, t, FALSE), IsKey(Opened, Before(t))
  PROVE  text[t] = ":"
<1>1. text[Before(t)] = "s"
  BY DEF IsKey
<1>2. ~ IsValue(Opened, t)
  BY <1>1 DEF IsValue
<1>3. ~ EndsValue(Opened, Before(t))
  BY DEF EndsValue
<1> QED
  BY <1>1, <1>2, <1>3 DEF Placed

(* Behind the colon there is a value.                                      *)
LEMMA BehindColon ==
  ASSUME NEW t, Around(Opened, t) = "{", Placed(Opened, t, FALSE), text[Before(t)] = ":"
  PROVE  IsValue(Opened, t)
<1>1. ~ EndsValue(Opened, Before(t)) /\ ~ IsKey(Opened, Before(t)) /\ ~ IsKey(Opened, t)
  BY DEF EndsValue, IsKey
<1> QED
  BY <1>1 DEF Placed

(* Behind the opening bracket or a comma there is an element, or the       *)
(* closing bracket behind the opening one.                                 *)
LEMMA BehindStart ==
  ASSUME NEW t, NEW a \in Left, Around(Opened, t) = a, Placed(Opened, t, FALSE), text[Before(t)] \in {a, ","}
  PROVE  \/ text[t] \in Right /\ text[Before(t)] = a
         \/ a = "{" /\ IsKey(Opened, t) /\ text[Before(t)] \in {"{", ","}
         \/ a = "[" /\ IsValue(Opened, t)
<1>1. a \in {"[", "{"}
  BY DEF Left
<1>2. ~ EndsValue(Opened, Before(t)) /\ ~ IsKey(Opened, Before(t))
  BY <1>1 DEF EndsValue, IsKey
<1>3. IsValue(Opened, t) => a = "["
  BY <1>1 DEF IsValue
<1>4. IsKey(Opened, t) => a = "{"
  BY DEF IsKey
<1>5. "]" \in Right /\ "}" \in Right
  BY DEF Right
<1> QED
  BY <1>1, <1>2, <1>3, <1>4, <1>5 DEF Placed

(* What is open there says what it is.                                     *)
LEMMA AroundNest ==
  ASSUME TextOK, IsType(type), NEW k \in 1 .. (Len(type) - 1), NEW p, Behind(p) = Nest(k)
  PROVE  /\ Around(Opened, p) = Opener(type[k]) /\ Opener(type[k]) \in Left /\ Before(p) # 0
         /\ Around(Opened, p) = (IF type[k].kind = "map" THEN "{" ELSE "[")
<1>1. k \in 0 .. (Len(type) - 1) /\ k # 0 /\ k \in 1 .. Len(type) /\ k < Len(type)
  BY LevelIs
<1> QED
  BY <1>1, AroundIs, AroundKind, OpenerIs

(* Behind a value there is a comma or the end of the container.            *)
LEMMA AfterValue ==
  ASSUME TextOK, Suited, IsType(type), NEW k \in 1 .. (Len(type) - 1),
         NEW p \in 1 .. EndOfText, Behind(p) = Nest(k), EndsValue(Opened, Before(p)), Before(p) < Final
  PROVE  /\ Trim(p) \in Tokens /\ Trim(p) \in 1 .. EndOfText /\ Trim(p) <= Final
         /\ Before(Trim(p)) = Before(p) /\ Behind(Trim(p)) = Nest(k)
         /\ text[Trim(p)] \in {",", ClosingOf(type[k])} /\ text[Trim(p)] \notin Starts
<1> DEFINE t == Trim(p)
<1>1. /\ t \in Tokens /\ t \in 1 .. EndOfText /\ t <= Final /\ Before(t) = Before(p) /\ Behind(t) = Nest(k)
      /\ Placed(Opened, t, FALSE)
  BY TokenNext, Zenon DEF IsNext
<1> HIDE DEF t
<1>2. Around(Opened, t) \in Left
  BY <1>1, AroundNest
<1>3. EndsValue(Opened, Before(t))
  BY <1>1
<1>4. text[t] \in {",", "]", "}"}
  BY <1>1, <1>2, <1>3, BehindValue
<1>5. text[t] # "," => text[t] \in Right
  BY <1>4 DEF Right
<1>6. text[t] \in {",", ClosingOf(type[k])}
  BY <1>1, <1>5, ClosesOpen
<1>7. text[t] \notin Starts
  BY <1>4 DEF Starts
<1> QED
  BY <1>1, <1>6, <1>7 DEF t

(* A container is entered, or a comma passed: an element or the end.       *)
Expected(k, p) ==
  IF type[k].kind = "map" THEN IsKey(Opened, p) /\ LastAt(p) \in {"{", ","} ELSE IsValue(Opened, p)

(* Trimmed behind the opening bracket or a comma, the cursor is at an      *)
(* element or, if no comma is there, at the end of the container.          *)
LEMMA AfterStart ==
  ASSUME TextOK, Suited, IsType(type), NEW k \in 1 .. (Len(type) - 1),
         NEW p \in 1 .. EndOfText, Behind(p) = Nest(k), LastAt(p) \in {Opener(type[k]), ","}, Before(p) < Final
  PROVE  /\ Trim(p) \in Tokens /\ Trim(p) \in 1 .. EndOfText /\ Trim(p) <= Final
         /\ Before(Trim(p)) = Before(p) /\ Behind(Trim(p)) = Nest(k)
         /\ \/ text[Trim(p)] = ClosingOf(type[k]) /\ LastAt(p) # "," /\ ~ IsValue(Opened, Trim(p))
            \/ Expected(k, Trim(p)) /\ text[Trim(p)] # ClosingOf(type[k])
<1> DEFINE t == Trim(p)
           a == Opener(type[k])
<1>1. /\ t \in Tokens /\ t \in 1 .. EndOfText /\ t <= Final /\ Before(t) = Before(p) /\ Behind(t) = Nest(k)
      /\ Placed(Opened, t, FALSE)
  BY TokenNext, Zenon DEF IsNext
<1> HIDE DEF t
<1>2. Around(Opened, t) = a /\ a \in Left /\ a = IF type[k].kind = "map" THEN "{" ELSE "["
  BY <1>1, AroundNest
<1>3. text[Before(t)] = LastAt(p) /\ LastAt(t) = LastAt(p)
  BY <1>1 DEF LastAt
<1>4. text[Before(t)] \in {a, ","}
  BY <1>3
<1> HIDE DEF a
<1>5. \/ text[t] \in Right /\ text[Before(t)] = a
      \/ a = "{" /\ IsKey(Opened, t) /\ text[Before(t)] \in {"{", ","}
      \/ a = "[" /\ IsValue(Opened, t)
  BY <1>1, <1>2, <1>4, BehindStart
<1>6. CASE text[t] \in Right /\ text[Before(t)] = a
  <2>1. text[t] = ClosingOf(type[k])
    BY <1>1, <1>6, ClosesOpen
  <2>2. a # ","
    BY <1>2 DEF Left
  <2>3. text[t] \notin Starts
    BY <1>6 DEF Right, Starts
  <2> QED
    BY <1>1, <1>3, <1>6, <2>1, <2>2, <2>3 DEF t, IsValue
<1>7. CASE (a = "{" /\ IsKey(Opened, t) /\ text[Before(t)] \in {"{", ","}) \/ (a = "[" /\ IsValue(Opened, t))
  <2>1. text[t] \in Starts
    <3>1. "s" \in Starts
      BY DEF Starts
    <3> QED
      BY <1>7, <3>1, Zenon DEF IsKey, IsValue
  <2>2. ClosingOf(type[k]) \in {"}", "]"}
    BY DEF ClosingOf
  <2>3. text[t] # ClosingOf(type[k])
    BY <2>1, <2>2 DEF Starts
  <2>4. Expected(k, t)
    <3>1. CASE type[k].kind = "map"
      <4>1. IsKey(Opened, t) /\ text[Before(t)] \in {"{", ","}
        BY <1>2, <1>7, <3>1
      <4> QED
        BY <3>1, <4>1, Zenon DEF Expected, LastAt
    <3>2. CASE type[k].kind # "map"
      <4>1. IsValue(Opened, t)
        BY <1>2, <1>7, <3>2
      <4> QED
        BY <3>2, <4>1, Zenon DEF Expected
    <3> QED
      BY <3>1, <3>2
  <2> QED
    BY <1>1, <2>3, <2>4 DEF t
<1> QED
  BY <1>5, <1>6, <1>7

------------------------------------------------------------------------------
(* The values that have been taken.                                        *)

Below(a, x) == {e \in Parts(a) : e < x}
Inside(a, p) == \A r \in Tokens : a <= r /\ r < p => Len(Opened[a]) <= Len(Opened[r])
Listed(taken, S) ==
  /\ \A i \in DOMAIN taken : taken[i] \in S
  /\ \A i, j \in DOMAIN taken : i < j => taken[i] < taken[j]
  /\ \A x \in S : \E i \in DOMAIN taken : taken[i] = x

(* Values are tokens, no further than the last one.                        *)
LEMMA ValueIs ==
  ASSUME TextOK, NEW q \in AllValues
  PROVE  q \in Tokens /\ q \in Nat /\ q \in 1 .. EndOfText /\ q <= Final /\ IsValue(Opened, q)
<1>1. q \in Tokens /\ q <= Final /\ IsValue(Opened, q)
  BY DEF AllValues, Values, Final
<1> QED
  BY <1>1, TextFacts

(* A token of that kind is a value of the text.                            *)
LEMMA IsAValue ==
  ASSUME TextOK, NEW q \in Tokens, q <= Final, IsValue(Opened, q)
  PROVE  q \in AllValues
BY DEF AllValues, Values, Final

(* The elements of a container begin behind it, inside no other one, and   *)
(* in front of its closing bracket.                                        *)
LEMMA PartIs ==
  ASSUME TextOK, NEW a, NEW e \in Parts(a)
  PROVE  e \in Tokens /\ e \in Nat /\ a < e /\ IsValue(Opened, e) /\ Behind(e) = Opened[a]
         /\ \A r \in Tokens : a < r /\ r < e => Opened[r] # Tail(Opened[a])
<1>1. e \in Tokens /\ a < e /\ IsValue(Opened, e) /\ Behind(e) = Opened[a]
      /\ \A r \in Tokens : a < r /\ r < e => Opened[r] # Tail(Opened[a])
  BY DEF Parts, Elements, Behind
<1> QED
  BY <1>1, TextFacts

(* A value on the level of a container that is still open is an element of *)
(* it.                                                                     *)
LEMMA PartHere ==
  ASSUME TextOK, IsType(type), NEW k \in 1 .. (Len(type) - 1), NEW a \in Tokens, Opened[a] = Nest(k),
         NEW q \in Tokens, a < q, IsValue(Opened, q), Behind(q) = Nest(k), Inside(a, q)
  PROVE  q \in Parts(a)
<1>0. k \in 0 .. (Len(type) - 1) /\ k # 0 /\ k \in 1 .. Len(type) /\ k < Len(type)
  BY LevelIs
<1>1. Len(Nest(k)) = k /\ Nest(k) # <<>> /\ Nest(k) \in Seq(Left)
  BY <1>0, NestIs
<1>2. Len(Tail(Nest(k))) = k - 1 /\ k \in Nat
  BY <1>1
<1>3. ASSUME NEW r \in Tokens, a < r, r < q PROVE Opened[r] # Tail(Opened[a])
  <2>1. a <= r
    BY <1>3, TextFacts
  <2>2. Len(Nest(k)) <= Len(Opened[r])
    BY <1>3, <2>1 DEF Inside
  <2>3. k <= Len(Opened[r]) /\ Len(Tail(Opened[a])) = k - 1
    BY <1>1, <1>2, <2>2
  <2>4. Len(Tail(Opened[a])) # Len(Opened[r])
    <3> DEFINE x == Len(Opened[r])
               y == Len(Tail(Opened[a]))
    <3>1. k <= x /\ y = k - 1 /\ k \in Nat
      BY <1>2, <2>3
    <3> HIDE DEF x, y
    <3>2. x # y
      BY <3>1
    <3> QED
      BY <3>2 DEF x, y
  <2> QED
    BY <2>4
<1> QED
  BY <1>3 DEF Parts, Elements, Behind

(* No element is passed where no value is.                                 *)
LEMMA BelowSame ==
  ASSUME TextOK, NEW a, NEW p \in 1 .. EndOfText, NEW q \in 1 .. EndOfText,
         \A x \in Tokens : IsValue(Opened, x) => (x < q <=> x < p)
  PROVE  Below(a, q) = Below(a, p)
BY PartIs DEF Below

(* A container stays open as long as no token closes it.                   *)
LEMMA InsideMore ==
  ASSUME NEW a, NEW p, NEW q, Inside(a, p),
         \A r \in Tokens : r < q => r < p \/ Len(Opened[a]) <= Len(Opened[r])
  PROVE  Inside(a, q)
BY DEF Inside

(* Appending the next element to the list of those in front of it lists    *)
(* them all.                                                               *)
LEMMA ListedMore ==
  ASSUME NEW taken \in Seq(Nat), NEW S \in SUBSET Nat, NEW x \in Nat, Listed(taken, S), \A e \in S : e < x
  PROVE  Listed(Append(taken, x), S \cup {x})
<1> DEFINE t == Append(taken, x)
           n == Len(taken)
<1>1. n \in Nat /\ DOMAIN taken = 1 .. n
  OBVIOUS
<1>2. t \in Seq(Nat) /\ DOMAIN t = 1 .. (n + 1) /\ t[n + 1] = x /\ \A i \in 1 .. n : t[i] = taken[i]
  OBVIOUS
<1>3. /\ \A i \in 1 .. n : taken[i] \in S
      /\ \A i, j \in 1 .. n : i < j => taken[i] < taken[j]
      /\ \A e \in S : \E i \in 1 .. n : taken[i] = e
  BY <1>1 DEF Listed
<1> HIDE DEF t, n
<1>4. \A i \in 1 .. (n + 1) : i \in 1 .. n \/ i = n + 1
  BY <1>1
<1>5. \A i \in 1 .. (n + 1) : t[i] \in S \cup {x}
  BY <1>2, <1>3, <1>4, Zenon
<1>6. ASSUME NEW i \in 1 .. (n + 1), NEW j \in 1 .. (n + 1), i < j PROVE t[i] < t[j]
  <2>1. i \in 1 .. n
    BY <1>1, <1>6
  <2>2. t[i] = taken[i] /\ taken[i] \in S
    BY <1>2, <1>3, <2>1
  <2>3. CASE j \in 1 .. n
    BY <1>2, <1>3, <1>6, <2>1, <2>2, <2>3, Zenon
  <2>4. CASE j = n + 1
    BY <1>2, <2>2, <2>4, Zenon
  <2> QED
    BY <1>4, <2>3, <2>4
<1>7. ASSUME NEW e \in S \cup {x} PROVE \E i \in 1 .. (n + 1) : t[i] = e
  <2>1. n + 1 \in 1 .. (n + 1) /\ \A i \in 1 .. n : i \in 1 .. (n + 1)
    BY <1>1
  <2> QED
    BY <1>2, <1>3, <2>1, Zenon
<1>8. Listed(t, S \cup {x})
  BY <1>2, <1>5, <1>6, <1>7, Zenon DEF Listed
<1> QED
  BY <1>8 DEF t

(* There are as many elements as the list is long.                         *)
LEMMA ListedCount ==
  ASSUME NEW taken \in Seq(Nat), NEW S, Listed(taken, S)
  PROVE  IsFiniteSet(S) /\ Cardinality(S) = Len(taken)
<1> DEFINE n == Len(taken)
<1>1. n \in Nat /\ DOMAIN taken = 1 .. n /\ \A i \in 1 .. n : taken[i] \in Nat
  OBVIOUS
<1>2. /\ \A i \in 1 .. n : taken[i] \in S
      /\ \A i, j \in 1 .. n : i < j => taken[i] < taken[j]
      /\ \A e \in S : \E i \in 1 .. n : taken[i] = e
  BY <1>1 DEF Listed
<1>3. taken \in [1 .. n -> S]
  <2>1. taken = [i \in 1 .. n |-> taken[i]]
    BY <1>1
  <2> HIDE DEF n
  <2> QED
    BY <1>2, <2>1
<1> HIDE DEF n
<1>4. \A i, j \in 1 .. n : taken[i] = taken[j] => i = j
  BY <1>1, <1>2
<1>5. taken \in Bijection(1 .. n, S)
  BY <1>2, <1>3, <1>4 DEF Bijection, Injection, Surjection, IsInjective
<1>6. ExistsBijection(1 .. n, S)
  BY <1>5 DEF ExistsBijection
<1>7. IsFiniteSet(1 .. n) /\ Cardinality(1 .. n) = n
  <2>1. 1 \in Int /\ n \in Int
    BY <1>1
  <2>2. IsFiniteSet(1 .. n) /\ Cardinality(1 .. n) = IF 1 > n THEN 0 ELSE n - 1 + 1
    BY <2>1, FS_Interval
  <2> QED
    BY <1>1, <2>2
<1> QED
  BY <1>6, <1>7, FS_Bijection DEF n

(* A list of all elements is one for every limit.                          *)
LEMMA ListedLists ==
  ASSUME NEW taken, NEW S, NEW limit, Listed(taken, S)
  PROVE  Lists(taken, S, limit)
BY DEF Listed, Lists

------------------------------------------------------------------------------
(* The containers by their levels, from the outermost one.                 *)

On(s, n) == s[Len(s) + 1 - n]

(* The frames of the stack by their levels; the innermost one is the       *)
(* first.                                                                  *)
LEMMA OnIs ==
  ASSUME NEW s \in Seq(Frames)
  PROVE  /\ Len(s) \in Nat /\ (s # <<>> => Len(s) \in 1 .. Len(s) /\ On(s, Len(s)) = s[1])
         /\ \A n \in 1 .. Len(s) : /\ On(s, n) \in Frames /\ On(s, n).at \in Nat /\ On(s, n).live \in BOOLEAN
                                   /\ On(s, n).taken \in Seq(Nat) /\ n \in Nat
                                   /\ (n < Len(s) => n + 1 \in 1 .. Len(s) /\ Len(s) + 1 - n \in 2 .. Len(s))
                                   /\ (n < Len(s) \/ n = Len(s))
<1>1. Len(s) \in Nat /\ (s # <<>> => Len(s) \in 1 .. Len(s))
  OBVIOUS
<1>2. s # <<>> => On(s, Len(s)) = s[1]
  <2>1. (Len(s) + 1) - Len(s) = 1
    BY <1>1
  <2> QED
    BY <2>1 DEF On
<1>3. ASSUME NEW n \in 1 .. Len(s)
      PROVE  /\ On(s, n) \in Frames /\ On(s, n).at \in Nat /\ On(s, n).live \in BOOLEAN
             /\ On(s, n).taken \in Seq(Nat) /\ n \in Nat
             /\ (n < Len(s) => n + 1 \in 1 .. Len(s) /\ Len(s) + 1 - n \in 2 .. Len(s))
             /\ (n < Len(s) \/ n = Len(s))
  <2>1. Len(s) + 1 - n \in 1 .. Len(s) /\ n \in Nat
        /\ (n < Len(s) => n + 1 \in 1 .. Len(s) /\ Len(s) + 1 - n \in 2 .. Len(s))
        /\ (n < Len(s) \/ n = Len(s))
    BY <1>1
  <2> QED
    BY <2>1, FrameIs DEF On
<1> QED
  BY <1>1, <1>2, <1>3

(* Pushing a frame adds a level.                                           *)
LEMMA OnPushed ==
  ASSUME NEW s \in Seq(Frames), NEW t, NEW a, NEW l, IsPushed(t, s, a, l)
  PROVE  /\ Len(t) = Len(s) + 1 /\ On(t, Len(s) + 1) = t[1]
         /\ \A n \in 1 .. Len(s) : On(t, n) = On(s, n)
<1>1. t \in Seq(Frames) /\ Len(t) = Len(s) + 1 /\ t # <<>> /\ \A i \in 2 .. Len(t) : t[i] = s[i - 1]
  BY DEF IsPushed
<1>2. Len(s) \in Nat
  OBVIOUS
<1>3. On(t, Len(s) + 1) = t[1]
  <2>1. (Len(s) + 1) + 1 - (Len(s) + 1) = 1
    BY <1>2
  <2> QED
    BY <1>1, <2>1 DEF On
<1>4. ASSUME NEW n \in 1 .. Len(s) PROVE On(t, n) = On(s, n)
  <2>1. Len(t) + 1 - n \in 2 .. Len(t) /\ (Len(t) + 1 - n) - 1 = Len(s) + 1 - n
    BY <1>1, <1>2
  <2> QED
    BY <1>1, <2>1 DEF On
<1> QED
  BY <1>1, <1>3, <1>4

(* Popping one leaves the levels below it.                                 *)
LEMMA OnTail ==
  ASSUME NEW s \in Seq(Frames), s # <<>>, NEW n \in 1 .. (Len(s) - 1)
  PROVE  On(Tail(s), n) = On(s, n)
<1> DEFINE t == Tail(s)
<1>1. Len(s) \in Nat /\ Len(t) = Len(s) - 1 /\ \A i \in 1 .. Len(t) : t[i] = s[i + 1]
  BY TailIs
<1> HIDE DEF t
<1>2. Len(t) + 1 - n \in 1 .. Len(t) /\ (Len(t) + 1 - n) + 1 = Len(s) + 1 - n
  BY <1>1
<1>3. On(t, n) = On(s, n)
  BY <1>1, <1>2 DEF On
<1> QED
  BY <1>3 DEF t

(* Changing the innermost one leaves them as well.                         *)
LEMMA OnRest ==
  ASSUME NEW s \in Seq(Frames), NEW t \in Seq(Frames), Len(t) = Len(s), \A i \in 2 .. Len(t) : t[i] = s[i],
         NEW n \in 1 .. Len(s), n < Len(s)
  PROVE  On(t, n) = On(s, n)
<1>1. Len(s) + 1 - n \in 2 .. Len(t)
  BY OnIs
<1> QED
  BY <1>1 DEF On

------------------------------------------------------------------------------
(* Every container has taken its elements up to the cursor or to the       *)
(* container it has inside.                                                *)

Reach(s, n, p) == IF n = Len(s) THEN p ELSE On(s, n + 1).at
Holds(m, a) == \E c \in m : c.at = a
HasAll(m, taken) == \A i \in DOMAIN taken : text[taken[i]] \in Left => Holds(m, taken[i])

Stands(f, n, x) ==
  /\ f.at \in AllValues /\ f.at < x /\ text[f.at] \in Left
  /\ Behind(f.at) = Nest(n - 1) /\ Opened[f.at] = Nest(n)
  /\ n = 1 => f.at = Trim(1)
  /\ Listed(f.taken, Below(f.at, x))
  /\ type[n].limit # Unlimited => Len(f.taken) <= type[n].limit
Within(f, p) == IF f.live THEN Inside(f.at, p) ELSE Inside(f.at, Before(p)) /\ f.at < Before(p)
Has(f, m) == HasAll(m, f.taken) /\ ~ Holds(m, f.at)
Passed(s, n) == Len(On(s, n).taken) # type[n].limit /\ On(s, n + 1).at \in Parts(On(s, n).at)
LevelOK(s, n, p, m) ==
  /\ Stands(On(s, n), n, Reach(s, n, p)) /\ Within(On(s, n), p) /\ Has(On(s, n), m)
  /\ n # Len(s) => Passed(s, n)

FilledOK(c, p, m) ==
  /\ c.at \in AllValues /\ c.at < p /\ text[c.at] \in Left
  /\ Listed(c.taken, Parts(c.at)) /\ Roomy(Opened, c.at) /\ HasAll(m, c.taken)
Single(m) == \A c, d \in m : c.at = d.at => c = d
Seen(p, s, m) ==
  \A q \in AllValues : q < p /\ text[q] \in Left => Holds(m, q) \/ \E n \in 1 .. Len(s) : On(s, n).at = q

Takes(s) == Len(s[1].taken) # type[Len(s)].limit
Ready(p, s, ph) ==
  /\ Before(p) <= Final
  /\ ph = "value" => p \in AllValues /\ (s # <<>> => Takes(s))
  /\ ph = "fill" => IF s[1].live THEN p \in Tokens /\ p <= Final /\ Expected(Len(s), p) ELSE Trim(p) = p

Kept(p, s, m) ==
  /\ \A n \in 1 .. Len(s) : LevelOK(s, n, p, m)
  /\ \A c \in m : FilledOK(c, p, m)
  /\ Single(m) /\ Seen(p, s, m)
Exact(p, s, ph, m) == OnTrack(p, s, ph) /\ Ready(p, s, ph) /\ Kept(p, s, m)

(* A container that is not the innermost one is not touched.               *)
LEMMA LevelKept ==
  ASSUME NEW s \in Seq(Frames), NEW t \in Seq(Frames), NEW n \in 1 .. Len(s), n # Len(s), n # Len(t),
         On(t, n) = On(s, n), On(t, n + 1).at = On(s, n + 1).at,
         NEW p, NEW q, NEW m, NEW m2, LevelOK(s, n, p, m),
         On(s, n).live, Inside(On(s, n).at, p) => Inside(On(s, n).at, q), Has(On(s, n), m) => Has(On(s, n), m2)
  PROVE  LevelOK(t, n, q, m2)
<1>1. Reach(t, n, q) = Reach(s, n, p)
  BY DEF Reach
<1>2. Passed(t, n)
  BY DEF LevelOK, Passed
<1> QED
  BY <1>1, <1>2, Zenon DEF LevelOK, Within

Stacked(s) == s \in Seq(Frames) /\ s # <<>> /\ Len(s) < Len(type) /\ \A i \in 2 .. Len(s) : s[i].live

(* A stack that is not empty, and the level of the type that belongs to    *)
(* its top.                                                                *)
LEMMA StackedIs ==
  ASSUME Setting, stack # <<>>
  PROVE  /\ Stacked(stack) /\ Len(stack) \in 1 .. (Len(type) - 1) /\ Mine = type[Len(stack)]
         /\ Len(stack) \in 1 .. Len(type) /\ Len(stack) < Len(type) /\ Len(stack) \in 0 .. (Len(type) - 1)
         /\ pos \in 1 .. EndOfText /\ TextOK /\ IsType(type)
BY SettingFacts DEF Setting, Shape, Stacked

(* The containers that have others inside them.                            *)
LEMMA Outer ==
  ASSUME NEW s, Stacked(s), IsType(type), NEW n \in 1 .. Len(s), n # Len(s)
  PROVE  n + 1 \in 1 .. Len(s) /\ On(s, n).live /\ n \in 1 .. (Len(type) - 1) /\ n <= Len(s) - 1
<1>1. s \in Seq(Frames) /\ Len(s) \in Nat /\ Len(type) \in Nat /\ Len(s) < Len(type)
  BY TypeFacts DEF Stacked
<1>2. n < Len(s)
  BY <1>1
<1>3. Len(s) + 1 - n \in 2 .. Len(s) /\ n + 1 \in 1 .. Len(s)
  BY <1>1, <1>2, OnIs
<1>4. On(s, n).live
  BY <1>3 DEF Stacked, On
<1>5. n \in 1 .. (Len(type) - 1) /\ n <= Len(s) - 1
  BY <1>1, <1>2
<1> QED
  BY <1>3, <1>4, <1>5

(* A container stays open while the tokens that are passed leave as many   *)
(* brackets open as it has.                                                *)
LEMMA InsideLevel ==
  ASSUME TextOK, IsType(type), NEW n \in 1 .. (Len(type) - 1), NEW a, Opened[a] = Nest(n), NEW p, NEW q, Inside(a, p),
         NEW k \in Nat, n <= k, \A r \in Tokens : r < q => r < p \/ k <= Len(Opened[r])
  PROVE  Inside(a, q)
<1>1. Len(Opened[a]) = n
  <2>1. n \in 0 .. (Len(type) - 1)
    BY LevelIs
  <2> QED
    BY <2>1, NestIs
<1>2. ASSUME NEW r \in Tokens, r < q PROVE r < p \/ Len(Opened[a]) <= Len(Opened[r])
  <2>1. r < p \/ k <= Len(Opened[r])
    BY <1>2
  <2>2. Len(Opened[r]) \in Nat
    <3>1. r \in 0 .. Len(text)
      BY TextFacts
    <3>2. Opened[r] \in Seq(Left \cup {"bad"})
      BY <3>1, OpenedIs
    <3> QED
      BY <3>2
  <2> DEFINE y == Len(Opened[r])
  <2>3. y \in Nat /\ (r < p \/ k <= y)
    BY <2>1, <2>2
  <2> HIDE DEF y
  <2>4. k <= y => n <= y
    BY <2>3
  <2> QED
    BY <1>1, <2>3, <2>4 DEF y
<1> QED
  BY <1>2, InsideMore

(* The cursor passes tokens that are no values, in the innermost container *)
(* or at its end.                                                          *)
LEMMA Onward ==
  ASSUME TextOK, IsType(type), NEW s, Stacked(s), NEW m,
         NEW p \in 1 .. EndOfText, NEW q \in 1 .. EndOfText, p <= q, Kept(p, s, m),
         \A x \in Tokens : x < q => x < p \/ (~ IsValue(Opened, x) /\ Len(s) - 1 <= Len(Opened[x])),
         NEW t, NEW l \in BOOLEAN, IsBecome(t, s, l), Within(t[1], q)
  PROVE  Kept(q, t, m)
<1> DEFINE k == Len(s)
<1>1. /\ s \in Seq(Frames) /\ s # <<>> /\ t \in Seq(Frames) /\ t # <<>> /\ Len(t) = k
      /\ t[1].at = s[1].at /\ t[1].taken = s[1].taken /\ \A i \in 2 .. Len(t) : t[i] = s[i]
  BY DEF Stacked, IsBecome
<1>2. k \in Nat /\ k \in 1 .. k /\ On(s, k) = s[1] /\ On(t, k) = t[1]
  BY <1>1, OnIs, Zenon
<1>3. \A n \in 1 .. k : n # k => On(t, n) = On(s, n)
  <2>1. \A n \in 1 .. k : n # k => n < k
    BY <1>2
  <2> QED
    BY <1>1, <2>1, OnRest
<1>4. \A n \in 1 .. k : On(t, n).at = On(s, n).at /\ On(t, n).taken = On(s, n).taken
  BY <1>1, <1>2, <1>3
<1> HIDE DEF k
<1>5. /\ \A n \in 1 .. k : LevelOK(s, n, p, m)
      /\ \A c \in m : FilledOK(c, p, m)
      /\ Single(m) /\ Seen(p, s, m)
  BY DEF Kept, k
<1>6. \A x \in Tokens : IsValue(Opened, x) => (x < q <=> x < p)
  <2>1. Tokens \subseteq 1 .. Len(text) /\ EndOfText \in Nat
    BY TextFacts
  <2>2. ASSUME NEW x \in Tokens, x < p PROVE x < q
    BY <2>1, <2>2
  <2> QED
    BY <2>2
<1>7. ASSUME NEW n \in 1 .. k, n # k PROVE LevelOK(t, n, q, m)
  <2>1. n + 1 \in 1 .. k /\ On(s, n).live /\ n \in 1 .. (Len(type) - 1) /\ n <= k - 1
    BY <1>7, Outer DEF k
  <2>2. LevelOK(s, n, p, m) /\ Opened[On(s, n).at] = Nest(n)
    BY <1>5 DEF LevelOK, Stands
  <2>3. k - 1 \in Nat
    BY <1>2, <2>1
  <2>4. \A r \in Tokens : r < q => r < p \/ k - 1 <= Len(Opened[r])
    BY DEF k
  <2>5. Inside(On(s, n).at, p) => Inside(On(s, n).at, q)
    BY <2>1, <2>2, <2>3, <2>4, InsideLevel
  <2>6. On(t, n) = On(s, n) /\ On(t, n + 1).at = On(s, n + 1).at
    BY <1>3, <1>4, <1>7, <2>1
  <2> QED
    BY <1>1, <1>7, <2>1, <2>2, <2>5, <2>6, LevelKept DEF k
<1>8. LevelOK(t, k, q, m)
  <2>1. LevelOK(s, k, p, m) /\ Reach(s, k, p) = p /\ Reach(t, k, q) = q
    BY <1>1, <1>2, <1>5 DEF Reach, k
  <2>2. Stands(On(s, k), k, p) /\ Has(On(s, k), m)
    BY <2>1 DEF LevelOK
  <2>3. Below(On(s, k).at, q) = Below(On(s, k).at, p)
    BY <1>6, BelowSame
  <2>4. On(s, k).at < q
    <3>1. On(s, k).at < p /\ On(s, k).at \in Nat
      BY <1>1, <1>2, <2>2, OnIs DEF Stands, k
    <3> QED
      BY <3>1
  <2>5. Stands(On(t, k), k, q) /\ Has(On(t, k), m)
    BY <1>2, <1>4, <2>2, <2>3, <2>4, Zenon DEF Stands, Has
  <2>6. Within(On(t, k), q)
    BY <1>2
  <2> QED
    BY <1>1, <2>1, <2>5, <2>6, Zenon DEF LevelOK, k
<1>9. \A n \in 1 .. k : LevelOK(t, n, q, m)
  BY <1>7, <1>8
<1>10. \A c \in m : FilledOK(c, q, m)
  <2>1. \A c \in m : c.at \in AllValues /\ c.at < p
    BY <1>5 DEF FilledOK
  <2>2. \A c \in m : c.at < q
    BY <1>6, <2>1, ValueIs
  <2> QED
    BY <1>5, <2>2 DEF FilledOK
<1>11. Seen(q, t, m)
  <2> SUFFICES ASSUME NEW v \in AllValues, v < q, text[v] \in Left
               PROVE  Holds(m, v) \/ \E n \in 1 .. Len(t) : On(t, n).at = v
    BY DEF Seen
  <2>1. v < p
    BY <1>6, ValueIs
  <2>2. Holds(m, v) \/ \E n \in 1 .. k : On(s, n).at = v
    BY <1>5, <2>1 DEF Seen, k
  <2> QED
    BY <1>1, <1>4, <2>2 DEF k
<1> QED
  BY <1>1, <1>5, <1>9, <1>10, <1>11, Zenon DEF Kept, k

(* A container that is live may stay what it is.                           *)
LEMMA SameBecomes ==
  ASSUME NEW s, Stacked(s), s[1].live
  PROVE  IsBecome(s, s, TRUE)
<1>1. s[1].live = TRUE
  <2>1. 1 \in 1 .. Len(s) /\ s \in Seq(Frames)
    BY DEF Stacked
  <2>2. s[1].live \in BOOLEAN
    BY <2>1, FrameIs
  <2> QED
    BY <2>2
<1> QED
  BY <1>1 DEF IsBecome, Stacked

(* Trimming once is enough.                                                *)
LEMMA TrimTwice ==
  ASSUME TextOK, NEW p \in 1 .. EndOfText
  PROVE  Trim(Trim(p)) = Trim(p) /\ Trim(p) \in 1 .. EndOfText /\ p <= Trim(p)
<1>1. Trim(p) \in p .. EndOfText /\ (Trim(p) # EndOfText => Trim(p) \in Tokens) /\ EndOfText \in Nat
  BY TrimIs, TextFacts
<1> DEFINE t == Trim(p)
<1>2. t \in 1 .. EndOfText /\ p <= t
  BY <1>1
<1>3. Trim(t) \in t .. EndOfText /\ (t \in Tokens => Trim(t) = t)
  BY <1>2, TrimIs
<1>4. t = EndOfText => Trim(t) = t
  <2> DEFINE u == Trim(t)
  <2>1. u \in t .. EndOfText
    BY <1>3
  <2> HIDE DEF u, t
  <2>2. t = EndOfText => u = t
    BY <1>1, <2>1
  <2> QED
    BY <2>2 DEF u
<1> QED
  BY <1>1, <1>2, <1>3, <1>4

Now == Exact(pos, stack, phase, filled)
Then == Active(phase') /\ Exact(pos', stack', phase', filled')

(* Where the cursor is exactly, it is on its track.                        *)
LEMMA NowTracked ==
  ASSUME Now, Active(phase)
  PROVE  Tracked /\ Ready(pos, stack, phase) /\ Kept(pos, stack, filled)
BY DEF Now, Exact, Tracked

(* An element of an array is asked for where it begins.                    *)
LEMMA DereferenceExact ==
  ASSUME Setting, Suited, Now, Dereference
  PROVE  Then
<1>1. /\ phase = "fill" /\ stack[1].live /\ Len(stack[1].taken) # Mine.limit /\ Mine.kind # "map"
      /\ (Fail /\ pos = EndOfText) \/ (phase' = "value" /\ pos' = pos /\ stack' = stack /\ filled' = filled)
  BY DereferenceStep, Zenon
<1>2. stack # <<>> /\ Active(phase)
  BY <1>1 DEF Setting, Shape, Active
<1>3. Tracked /\ Ready(pos, stack, phase) /\ Kept(pos, stack, filled)
  BY <1>2, NowTracked
<1>4. TextOK /\ Mine = type[Len(stack)]
  BY <1>2, StackedIs
<1>5. pos \in Tokens /\ pos <= Final /\ Expected(Len(stack), pos) /\ Before(pos) <= Final
  BY <1>1, <1>3, Zenon DEF Ready
<1>6. pos # EndOfText
  <2>1. pos \in 1 .. Len(text) /\ EndOfText = Len(text) + 1 /\ Len(text) \in Nat
    BY <1>4, <1>5, TextFacts
  <2> QED
    BY <2>1
<1>7. phase' = "value" /\ pos' = pos /\ stack' = stack /\ filled' = filled
  BY <1>1, <1>6
<1>8. OnTrack(pos', stack', phase')
  BY <1>3, <1>7, DereferenceTracked DEF TrackedNext, Active
<1>9. IsValue(Opened, pos)
  BY <1>1, <1>4, <1>5, Zenon DEF Expected
<1>10. Ready(pos, stack, "value")
  <2>1. pos \in AllValues
    BY <1>4, <1>5, <1>9, IsAValue
  <2>2. Takes(stack)
    BY <1>1, <1>4, Zenon DEF Takes
  <2> QED
    BY <1>5, <2>1, <2>2, Zenon DEF Ready
<1> QED
  BY <1>3, <1>7, <1>8, <1>10, Zenon DEF Then, Exact, Active

(* The nesting that is open, as numbers.                                   *)
LEMMA NestLength ==
  ASSUME IsType(type), NEW k \in 1 .. (Len(type) - 1), NEW x, Opened[x] = Nest(k) \/ Opened[x] = Nest(k - 1)
  PROVE  k - 1 <= Len(Opened[x]) /\ (Opened[x] = Nest(k) => k <= Len(Opened[x]))
<1>1. k \in 0 .. (Len(type) - 1) /\ k - 1 \in 0 .. (Len(type) - 1) /\ k \in Nat
  BY TypeFacts
<1>2. Len(Nest(k)) = k /\ Len(Nest(k - 1)) = k - 1
  BY <1>1, NestIs
<1>3. k - 1 <= k /\ k - 1 <= k - 1 /\ k <= k
  BY <1>1
<1> QED
  BY <1>2, <1>3

(* A key is read where it begins, and the cursor comes to its value.       *)
LEMMA KeyExact ==
  ASSUME Setting, Suited, Now, DereferenceKey
  PROVE  Then
<1> DEFINE c == Trim(pos + 1)
           k == Len(stack)
           q == Trim(c + 1)
<1>1. /\ phase = "fill" /\ stack[1].live /\ Len(stack[1].taken) # Mine.limit /\ Mine.kind = "map"
      /\ (Fail /\ ~ (At(text, pos) = "s" /\ At(text, c) = ":")) \/ KeyRead
  BY KeyStep, Zenon
<1>2. stack # <<>> /\ Active(phase)
  BY <1>1 DEF Setting, Shape, Active
<1>3. Tracked /\ Ready(pos, stack, phase) /\ Kept(pos, stack, filled)
  BY <1>2, NowTracked
<1>4. /\ TextOK /\ IsType(type) /\ Mine = type[k] /\ Stacked(stack) /\ k \in 1 .. (Len(type) - 1)
      /\ k \in 0 .. (Len(type) - 1) /\ k < Len(type) /\ pos \in 1 .. EndOfText
  BY <1>2, StackedIs
<1>5. pos \in Tokens /\ pos <= Final /\ Expected(k, pos) /\ Before(pos) <= Final
  BY <1>1, <1>3, Zenon DEF Ready
<1>6. IsKey(Opened, pos)
  BY <1>1, <1>4, <1>5, Zenon DEF Expected
<1>7. Behind(pos) = Nest(k)
  <2>1. Live(stack) = k
    BY <1>1, <1>4, LiveAll DEF Stacked
  <2> QED
    BY <1>3, <2>1 DEF Tracked, OnTrack
<1>8. text[pos] = "s"
  BY <1>6 DEF IsKey
<1>9. "s" \notin Left /\ "s" \notin Right /\ ":" \notin Left /\ ":" \notin Right /\ ":" \notin Starts
  BY DEF Left, Right, Starts
<1>10. Opened[pos] = Nest(k)
  BY <1>4, <1>5, <1>7, <1>8, <1>9, PassIs
<1>11. pos < Final
  BY <1>4, <1>5, <1>10, StillOpen
<1>12. pos + 1 \in 1 .. EndOfText /\ Before(pos + 1) = pos /\ \A x \in Tokens : x < pos + 1 <=> x < pos \/ x = pos
  BY <1>4, <1>5, BeforeNext
<1>13. IsNext(c, pos + 1)
  BY <1>4, <1>11, <1>12, TokenNext
<1> HIDE DEF c, k
<1>14. c \in Tokens /\ c <= Final /\ Before(c) = pos /\ Behind(c) = Nest(k) /\ Placed(Opened, c, FALSE) /\ c \in 1 .. EndOfText
  BY <1>10, <1>12, <1>13, Zenon DEF IsNext, Behind
<1>15. text[c] = ":"
  <2>1. Around(Opened, c) = "{"
    BY <1>1, <1>4, <1>14, AroundNest
  <2>2. IsKey(Opened, Before(c))
    BY <1>6, <1>14
  <2> QED
    BY <1>14, <2>1, <2>2, BehindKey
<1>16. At(text, pos) = "s" /\ At(text, c) = ":"
  BY <1>4, <1>5, <1>8, <1>14, <1>15, TextFacts
<1>17. KeyRead
  BY <1>1, <1>16
<1>18. Opened[c] = Nest(k)
  BY <1>4, <1>9, <1>14, <1>15, PassIs
<1>19. c < Final
  BY <1>4, <1>14, <1>18, StillOpen
<1>20. c + 1 \in 1 .. EndOfText /\ Before(c + 1) = c /\ \A x \in Tokens : x < c + 1 <=> x < c \/ x = c
  BY <1>4, <1>14, BeforeNext
<1>21. IsNext(q, c + 1)
  BY <1>4, <1>19, <1>20, TokenNext
<1>22. pos' = q /\ phase' = "value" /\ stack' = stack /\ filled' = filled
  BY <1>17, Zenon DEF KeyRead, c
<1>23. \A x \in Tokens : x < q <=> x < c + 1
  BY <1>4, <1>20, TrimIs
<1>24. c + 1 <= q
  BY <1>4, <1>20, TrimTwice
<1> HIDE DEF q
<1>25. q \in Tokens /\ q <= Final /\ Before(q) = c /\ Behind(q) = Nest(k) /\ Placed(Opened, q, FALSE) /\ q \in 1 .. EndOfText
  BY <1>18, <1>20, <1>21, Zenon DEF IsNext, Behind
<1>26. IsValue(Opened, q)
  <2>1. Around(Opened, q) = "{"
    BY <1>1, <1>4, <1>25, AroundNest
  <2>2. text[Before(q)] = ":"
    BY <1>15, <1>25
  <2> QED
    BY <1>25, <2>1, <2>2, BehindColon
<1>27. OnTrack(pos', stack', phase')
  BY <1>3, <1>22, KeyTracked DEF TrackedNext, Active
<1>28. Ready(q, stack, "value")
  <2>1. q \in AllValues
    BY <1>4, <1>25, <1>26, IsAValue
  <2>2. Takes(stack)
    BY <1>1, <1>4, Zenon DEF Takes, k
  <2>3. Before(q) <= Final
    BY <1>14, <1>25
  <2> QED
    BY <2>1, <2>2, <2>3, Zenon DEF Ready
<1>29. pos <= q /\ \A x \in Tokens : x < q => x < pos \/ x = pos \/ x = c
  <2>1. c \in Nat /\ pos \in Nat
    BY <1>4, <1>5, <1>14, TextFacts
  <2>2. \A x \in Tokens : x < c <=> x < pos + 1
    BY <1>4, <1>12, TrimIs DEF c
  <2>3. pos + 1 <= c
    BY <1>4, <1>12, TrimTwice DEF c
  <2>4. q \in Nat
    BY <1>4, <1>25, TextFacts
  <2>5. pos <= q
    BY <1>24, <2>1, <2>3, <2>4
  <2> QED
    BY <1>12, <1>20, <1>23, <2>2, <2>5
<1>30. Kept(q, stack, filled)
  <2>1. ~ IsValue(Opened, pos) /\ ~ IsValue(Opened, c)
    BY <1>6, <1>9, <1>15, ValueIsNotKey DEF IsValue
  <2>2. k - 1 <= Len(Opened[pos]) /\ k - 1 <= Len(Opened[c]) /\ k <= Len(Opened[pos]) /\ k <= Len(Opened[c])
    BY <1>4, <1>10, <1>18, NestLength
  <2>3. \A x \in Tokens : x < q => x < pos \/ (~ IsValue(Opened, x) /\ Len(stack) - 1 <= Len(Opened[x]))
    BY <1>29, <2>1, <2>2 DEF k
  <2>4. Within(stack[1], q)
    <3>1. Within(stack[1], pos) /\ Opened[stack[1].at] = Nest(k)
      <4>1. k \in 1 .. k /\ On(stack, k) = stack[1]
        BY <1>4, OnIs DEF Stacked, k
      <4>2. LevelOK(stack, k, pos, filled)
        BY <1>3, <4>1 DEF Kept, k
      <4> QED
        BY <4>1, <4>2 DEF LevelOK, Stands
    <3>2. Inside(stack[1].at, pos)
      BY <1>1, <3>1 DEF Within
    <3>3. \A r \in Tokens : r < q => r < pos \/ k <= Len(Opened[r])
      BY <1>29, <2>2
    <3>4. k \in Nat /\ k <= k
      BY <1>4
    <3>5. Inside(stack[1].at, q)
      BY <1>4, <3>1, <3>2, <3>3, <3>4, InsideLevel
    <3> QED
      BY <1>1, <3>5 DEF Within
  <2>5. IsBecome(stack, stack, TRUE)
    BY <1>1, <1>4, SameBecomes
  <2> QED
    BY <1>3, <1>4, <1>25, <1>29, <2>3, <2>4, <2>5, Onward
<1> QED
  BY <1>22, <1>27, <1>28, <1>30, Zenon DEF Then, Exact, Active

(* Where the cursor is when elements are stepped.                          *)
LEMMA StepHere ==
  ASSUME Setting, Suited, Now, phase = "step"
  PROVE  LET t == Trim(pos)  k == Len(stack)
         IN /\ Behind(pos) = Nest(k) /\ stack[1].live
            /\ t \in Tokens /\ t \in 1 .. EndOfText /\ t <= Final /\ Behind(t) = Nest(k) /\ pos <= t
            /\ text[t] \in {",", ClosingOf(type[k])} /\ text[t] \notin Starts
            /\ \A x \in Tokens : x < t <=> x < pos
<1> DEFINE t == Trim(pos)
           k == Len(stack)
<1>1. stack # <<>> /\ Active(phase) /\ stack[1].live
  BY DEF Setting, Shape, Active
<1>2. Tracked /\ Ready(pos, stack, phase)
  BY <1>1, NowTracked
<1>3. /\ TextOK /\ IsType(type) /\ Stacked(stack) /\ k \in 1 .. (Len(type) - 1) /\ pos \in 1 .. EndOfText
  BY <1>1, StackedIs
<1>4. Behind(pos) = Nest(k) /\ EndsValue(Opened, Before(pos)) /\ Before(pos) <= Final
  <2>1. Live(stack) = k
    BY <1>1, <1>3, LiveAll DEF Stacked
  <2> QED
    BY <1>2, <2>1 DEF Tracked, OnTrack, Ready
<1>5. Before(pos) < Final
  <2>1. Before(pos) # 0
    BY <1>3, <1>4, AroundNest
  <2>2. pos \in 0 .. EndOfText
    BY <1>3, TextFacts
  <2>3. Before(pos) \in Tokens
    BY <1>3, <2>1, <2>2, BeforeIs
  <2>4. Opened[Before(pos)] = Nest(k)
    BY <1>4 DEF Behind
  <2> QED
    BY <1>3, <1>4, <2>3, <2>4, StillOpen
<1>6. /\ t \in Tokens /\ t \in 1 .. EndOfText /\ t <= Final /\ Behind(t) = Nest(k)
      /\ text[t] \in {",", ClosingOf(type[k])} /\ text[t] \notin Starts
  BY <1>3, <1>4, <1>5, AfterValue
<1>7. pos <= t /\ \A x \in Tokens : x < t <=> x < pos
  BY <1>3, TrimIs, TrimTwice
<1> QED
  BY <1>1, <1>4, <1>6, <1>7

(* The iterator comes to the next element, or behind the closing bracket.  *)
LEMMA IterateExact ==
  ASSUME Setting, Suited, Now, StepArray \/ StepMap
  PROVE  Then
<1> DEFINE t == Trim(pos)
           k == Len(stack)
           p == BehindComma(t)
<1>1. /\ phase = "step" /\ stack # <<>>
      /\ \/ Fail /\ p >= EndOfText
         \/ Fail /\ Mine.kind # "map" /\ ~ AtNextElement(t)
         \/ Iterated(p)
  BY IterateStep, Zenon
<1>2. Active(phase)
  BY <1>1 DEF Active
<1>3. Tracked /\ Ready(pos, stack, phase) /\ Kept(pos, stack, filled)
  BY <1>2, NowTracked
<1>4. /\ TextOK /\ IsType(type) /\ Mine = type[k] /\ Stacked(stack) /\ k \in 1 .. (Len(type) - 1)
      /\ k \in 0 .. (Len(type) - 1) /\ k < Len(type) /\ k \in 1 .. Len(type) /\ pos \in 1 .. EndOfText
  BY <1>1, StackedIs
<1>5. /\ Behind(pos) = Nest(k) /\ stack[1].live
      /\ t \in Tokens /\ t \in 1 .. EndOfText /\ t <= Final /\ Behind(t) = Nest(k) /\ pos <= t
      /\ text[t] \in {",", ClosingOf(type[k])} /\ text[t] \notin Starts
      /\ \A x \in Tokens : x < t <=> x < pos
  BY <1>1, StepHere
<1> HIDE DEF t, k
<1>6. At(text, t) = text[t] /\ ~ IsValue(Opened, t)
  BY <1>4, <1>5, TextFacts DEF IsValue
<1>7. /\ IsBecome(Became(stack, TRUE), stack, TRUE) /\ Became(stack, TRUE)[1].at = stack[1].at /\ Became(stack, TRUE)[1].live = TRUE
      /\ IsBecome(Became(stack, FALSE), stack, FALSE) /\ Became(stack, FALSE)[1].at = stack[1].at /\ Became(stack, FALSE)[1].live = FALSE
  <2>1. IsBecome(Became(stack, TRUE), stack, TRUE) /\ IsBecome(Became(stack, FALSE), stack, FALSE)
    BY <1>1, <1>4, BecameIs DEF Stacked
  <2> QED
    BY <2>1 DEF IsBecome
<1>8. Inside(stack[1].at, pos) /\ Opened[stack[1].at] = Nest(k) /\ stack[1].at < pos /\ stack[1].at \in Nat
  <2>1. k \in 1 .. k /\ On(stack, k) = stack[1] /\ On(stack, k).at \in Nat
    BY <1>4, OnIs DEF Stacked, k
  <2>2. LevelOK(stack, k, pos, filled) /\ Reach(stack, k, pos) = pos
    BY <1>3, <2>1 DEF Kept, k, Reach
  <2>3. Within(stack[1], pos) /\ Opened[stack[1].at] = Nest(k) /\ stack[1].at < pos
    BY <2>1, <2>2 DEF LevelOK, Stands
  <2> QED
    BY <1>5, <2>1, <2>3 DEF Within
<1>12. t \in Nat /\ pos \in Nat /\ pos <= t /\ t \in Tokens
  <2>1. t \in Tokens /\ pos <= t
    BY <1>5, Zenon
  <2>2. Tokens \subseteq Nat /\ EndOfText \in Nat
    BY <1>4, TextFacts
  <2>3. pos \in 1 .. EndOfText
    BY <1>4
  <2> QED
    BY <2>1, <2>2, <2>3
<1>9. t < EndOfText /\ EndOfText \in Nat /\ \A x \in Tokens : x < EndOfText /\ ~ (x >= EndOfText)
  <2>1. Tokens \subseteq 1 .. Len(text) /\ EndOfText = Len(text) + 1 /\ Len(text) \in Nat
    BY <1>4, TextFacts
  <2> QED
    BY <1>12, <2>1
<1>10. CASE text[t] = ","
  <2>1. p = Trim(t + 1)
    BY <1>6, <1>10, Zenon DEF BehindComma
  <2>2. Opened[t] = Nest(k)
    <3>1. "," \notin Left /\ "," \notin Right
      BY DEF Left, Right
    <3> QED
      BY <1>4, <1>5, <1>10, <3>1, PassIs
  <2>3. t < Final
    BY <1>4, <1>5, <2>2, StillOpen
  <2>4. t + 1 \in 1 .. EndOfText /\ Before(t + 1) = t /\ \A x \in Tokens : x < t + 1 <=> x < t \/ x = t
    BY <1>4, <1>5, BeforeNext
  <2>5. Behind(t + 1) = Nest(k) /\ LastAt(t + 1) = ","
    BY <1>10, <2>2, <2>4 DEF Behind, LastAt
  <2>6. /\ p \in Tokens /\ p \in 1 .. EndOfText /\ p <= Final
        /\ Before(p) = t /\ Behind(p) = Nest(k)
        /\ Expected(k, p) /\ text[p] # ClosingOf(type[k])
    BY <1>4, <2>1, <2>3, <2>4, <2>5, AfterStart
  <2>7. \A x \in Tokens : x < p <=> x < t + 1
    BY <1>4, <2>1, <2>4, TrimIs
  <2>8. t + 1 <= p
    BY <1>4, <2>1, <2>4, TrimTwice
  <2> HIDE DEF p
  <2>9. AtNextElement(t)
    BY <1>6, <1>9, <1>10 DEF AtNextElement
  <2>10. Iterated(p)
    BY <1>1, <1>9, <2>6, <2>9
  <2>11. /\ pos' = p /\ stack' = Became(stack, TRUE) /\ phase' = "fill" /\ filled' = filled
    <3>1. At(text, p) = text[p]
      BY <1>4, <2>6, TextFacts
    <3>2. PICK live \in BOOLEAN : Comes(p, Mine, pos', live) /\ stack' = Became(stack, live)
      BY <2>10, Zenon DEF Iterated
    <3>3. live = TRUE /\ pos' = p
      BY <1>4, <2>6, <3>1, <3>2, Zenon DEF Comes
    <3> QED
      BY <2>10, <3>2, <3>3, Zenon DEF Iterated
  <2>12. OnTrack(pos', stack', phase')
    BY <1>3, <2>11, IterateTracked DEF TrackedNext, Active
  <2>13. Ready(p, stack', "fill")
    <3>1. Len(stack') = k /\ stack'[1].live
      BY <1>7, <2>11 DEF IsBecome, k
    <3>2. Before(p) <= Final
      BY <1>5, <2>6
    <3> QED
      BY <2>6, <3>1, <3>2, Zenon DEF Ready
  <2>14. \A x \in Tokens : x < p => x < pos \/ x = t
    BY <1>5, <2>4, <2>7
  <2>15. k - 1 <= Len(Opened[t]) /\ k <= Len(Opened[t])
    BY <1>4, <2>2, NestLength
  <2>16. \A x \in Tokens : x < p => x < pos \/ (~ IsValue(Opened, x) /\ Len(stack) - 1 <= Len(Opened[x]))
    BY <1>6, <2>14, <2>15 DEF k
  <2>17. pos <= p
    <3>1. p \in Nat
      <4>1. p \in Tokens
        BY <2>6
      <4> QED
        BY <1>4, <4>1, TextFacts
    <3> QED
      BY <1>12, <2>8, <3>1
  <2>18. Within(Became(stack, TRUE)[1], p)
    <3>1. \A r \in Tokens : r < p => r < pos \/ k <= Len(Opened[r])
      BY <2>14, <2>15
    <3>2. k \in Nat /\ k <= k
      BY <1>4
    <3>3. Inside(stack[1].at, p)
      BY <1>4, <1>8, <3>1, <3>2, InsideLevel
    <3> QED
      BY <1>7, <3>3 DEF Within
  <2>19. Kept(p, Became(stack, TRUE), filled)
    BY <1>3, <1>4, <1>7, <2>6, <2>16, <2>17, <2>18, Onward
  <2> QED
    BY <2>11, <2>12, <2>13, <2>19, Zenon DEF Then, Exact, Active
<1>11. CASE text[t] # ","
  <2>1. text[t] = ClosingOf(type[k])
    BY <1>5, <1>11
  <2>2. p = t
    BY <1>6, <1>11, Zenon DEF BehindComma
  <2>3. Opened[t] = Nest(k - 1)
    BY <1>4, <1>5, <2>1, PopIs
  <2>4. Mine.kind # "map" => AtNextElement(t)
    BY <1>4, <1>6, <1>9, <2>1 DEF AtNextElement, ClosingOf
  <2>5. Iterated(t)
    BY <1>1, <1>5, <1>9, <2>2, <2>4
  <2> DEFINE q == Trim(t + 1)
  <2>6. /\ pos' = q /\ stack' = Became(stack, FALSE) /\ phase' = "fill" /\ filled' = filled
    <3>1. PICK live \in BOOLEAN : Comes(t, Mine, pos', live) /\ stack' = Became(stack, live)
      BY <2>5, Zenon DEF Iterated
    <3>2. live = FALSE /\ pos' = q
      BY <1>4, <1>6, <2>1, <3>1, Zenon DEF Comes
    <3> QED
      BY <2>5, <3>1, <3>2, Zenon DEF Iterated
  <2>7. t + 1 \in 1 .. EndOfText /\ Before(t + 1) = t /\ \A x \in Tokens : x < t + 1 <=> x < t \/ x = t
    BY <1>4, <1>5, BeforeNext
  <2>8. q \in 1 .. EndOfText /\ Before(q) = t /\ Trim(q) = q /\ t + 1 <= q /\ \A x \in Tokens : x < q <=> x < t + 1
    BY <1>4, <2>7, TrimIs, TrimTwice, BeforeTrim
  <2> HIDE DEF q, p
  <2>9. OnTrack(pos', stack', phase')
    BY <1>3, <2>6, IterateTracked DEF TrackedNext, Active
  <2>10. Ready(q, stack', "fill")
    <3>1. ~ stack'[1].live
      BY <1>7, <2>6
    <3>2. Before(q) <= Final
      BY <1>5, <2>8
    <3> QED
      BY <2>8, <3>1, <3>2, Zenon DEF Ready
  <2>11. \A x \in Tokens : x < q => x < pos \/ x = t
    BY <1>5, <2>7, <2>8
  <2>12. k - 1 <= Len(Opened[t])
    BY <1>4, <2>3, NestLength
  <2>13. \A x \in Tokens : x < q => x < pos \/ (~ IsValue(Opened, x) /\ Len(stack) - 1 <= Len(Opened[x]))
    BY <1>6, <2>11, <2>12 DEF k
  <2>14. pos <= q
    <3>1. q \in Nat
      BY <1>9, <2>8
    <3> QED
      BY <1>12, <2>8, <3>1
  <2>15. Within(Became(stack, FALSE)[1], q)
    <3>1. Inside(stack[1].at, t)
      BY <1>5, <1>8 DEF Inside
    <3>2. stack[1].at < t
      <4>1. stack[1].at < pos /\ stack[1].at \in Nat
        BY <1>8
      <4> QED
        BY <1>12, <4>1
    <3> QED
      BY <1>7, <2>8, <3>1, <3>2, Zenon DEF Within
  <2>16. Kept(q, Became(stack, FALSE), filled)
    BY <1>3, <1>4, <1>7, <2>8, <2>13, <2>14, <2>15, Onward
  <2> QED
    BY <2>6, <2>9, <2>10, <2>16, Zenon DEF Then, Exact, Active
<1> QED
  BY <1>10, <1>11

(* The level of a value by the brackets that are open there.               *)
LEMMA DepthIs ==
  ASSUME TextOK, IsType(type), NEW k \in 0 .. (Len(type) - 1), NEW p, Behind(p) = Nest(k)
  PROVE  Depth(Opened, p) = k + 1
<1>1. Len(Nest(k)) = k
  BY NestIs
<1> QED
  BY <1>1 DEF Depth, Behind

(* The first token opens a container.                                      *)
LEMMA FirstIs ==
  ASSUME TextOK, Suited
  PROVE  Trim(1) \in Tokens /\ text[Trim(1)] \in Left /\ \A x \in Tokens : Trim(1) <= x
<1>1. At(text, Trim(1)) \in Left
  BY DEF Suited, Valid
<1>2. At(text, Trim(1)) \notin Space /\ At(text, Trim(1)) # NUL
  BY <1>1 DEF Left, Space, NUL
<1>3. Trim(1) \in Tokens /\ text[Trim(1)] = At(text, Trim(1))
  BY <1>2, TokenAt
<1>4. ASSUME NEW x \in Tokens PROVE Trim(1) <= x
  <2>1. Len(text) \in Nat \ {0} /\ EndOfText = Len(text) + 1 /\ x \in 1 .. Len(text) /\ Trim(1) \in 1 .. Len(text)
    BY <1>3, TextFacts
  <2>2. 1 \in 1 .. EndOfText
    BY <2>1
  <2>3. x < Trim(1) <=> x < 1
    BY <2>2, TrimIs
  <2> DEFINE f == Trim(1)
  <2>4. f \in Nat /\ x \in Nat /\ ~ (x < f)
    BY <2>1, <2>3
  <2> HIDE DEF f
  <2>5. f <= x
    BY <2>4
  <2> QED
    BY <2>5 DEF f
<1> QED
  BY <1>1, <1>3, <1>4

(* The value at the cursor, and the container that asks for it.            *)
ValueReady ==
  /\ pos \in AllValues /\ pos \in Tokens /\ Before(pos) <= Final
  /\ Behind(pos) = Nest(Len(stack)) /\ text[pos] = Opener(Want) /\ At(text, pos) = text[pos]
  /\ stack = <<>> => pos = Trim(1)
  /\ stack # <<>> => /\ Stands(stack[1], Len(stack), pos) /\ stack[1].live /\ Inside(stack[1].at, pos)
                     /\ Has(stack[1], filled) /\ Takes(stack) /\ pos \in Parts(stack[1].at)

(* In the phase of values, the cursor is at a value the type wants, an     *)
(* element of the innermost container.                                     *)
LEMMA ValueReadyIs ==
  ASSUME Setting, Suited, Now, phase = "value"
  PROVE  ValueReady
<1> DEFINE k == Len(stack)
<1>1. Tracked /\ Ready(pos, stack, phase) /\ Kept(pos, stack, filled)
  BY NowTracked DEF Active
<1>2. /\ TextOK /\ IsType(type) /\ k \in 0 .. (Len(type) - 1) /\ k + 1 \in 1 .. Len(type) /\ Want = type[k + 1]
      /\ stack \in Seq(Frames) /\ pos \in 1 .. EndOfText /\ (stack # <<>> => stack[1].live)
  BY SettingFacts DEF Setting, Shape
<1>3. pos \in AllValues /\ (stack # <<>> => Takes(stack)) /\ Before(pos) <= Final
  BY <1>1 DEF Ready
<1>4. pos \in Tokens /\ IsValue(Opened, pos)
  BY <1>2, <1>3, ValueIs
<1>5. OnTrack(pos, stack, "value")
  BY <1>1 DEF Tracked
<1>6. Behind(pos) = Nest(k) /\ FollowsValue(stack, pos)
  BY <1>2, <1>5 DEF OnTrack, Live
<1>7. text[pos] = Opener(Want)
  <2>1. Depth(Opened, pos) = k + 1
    BY <1>2, <1>6, DepthIs
  <2>2. pos \in Values(Opened)
    BY <1>3 DEF AllValues
  <2>3. text[pos] = Opener(type[Depth(Opened, pos)])
    BY <2>2 DEF Suited, OfType
  <2> QED
    BY <1>2, <2>1, <2>3
<1>8. ASSUME stack = <<>> PROVE pos = Trim(1)
  <2>1. Before(pos) = 0
    BY <1>6, <1>8 DEF FollowsValue
  <2>2. Trim(1) \in Tokens /\ \A x \in Tokens : Trim(1) <= x
    BY <1>2, FirstIs
  <2>3. pos \in 0 .. EndOfText /\ Tokens \subseteq 1 .. Len(text)
    BY <1>2, TextFacts
  <2>4. \A x \in Tokens : x < pos => x <= Before(pos)
    BY <1>2, <2>3, BeforeIs
  <2> DEFINE f == Trim(1)
  <2>5. f \in Nat /\ pos \in Nat /\ f <= pos /\ (f < pos => f <= 0) /\ f # 0
    <3>1. f \in 1 .. Len(text) /\ pos \in 1 .. Len(text) /\ f <= pos
      BY <1>4, <2>2, <2>3
    <3>2. f < pos => f <= 0
      BY <2>1, <2>2, <2>4
    <3> QED
      BY <3>1, <3>2
  <2> HIDE DEF f
  <2>6. pos = f
    BY <2>5
  <2> QED
    BY <2>6 DEF f
<1>9. ASSUME stack # <<>>
      PROVE  /\ Stands(stack[1], k, pos) /\ Inside(stack[1].at, pos)
             /\ Has(stack[1], filled) /\ pos \in Parts(stack[1].at)
  <2>1. k \in 1 .. k /\ On(stack, k) = stack[1] /\ k \in 1 .. (Len(type) - 1)
    BY <1>2, <1>9, OnIs
  <2>2. LevelOK(stack, k, pos, filled) /\ Reach(stack, k, pos) = pos
    BY <1>1, <2>1 DEF Kept, Reach
  <2>3. Stands(stack[1], k, pos) /\ Within(stack[1], pos) /\ Has(stack[1], filled)
    BY <2>1, <2>2 DEF LevelOK
  <2>4. stack[1].at \in AllValues /\ Opened[stack[1].at] = Nest(k) /\ stack[1].at < pos /\ Inside(stack[1].at, pos)
    BY <1>2, <1>9, <2>3 DEF Stands, Within
  <2>5. stack[1].at \in Tokens
    BY <1>2, <2>4, ValueIs
  <2>6. pos \in Parts(stack[1].at)
    BY <1>2, <1>4, <1>6, <2>1, <2>4, <2>5, PartHere
  <2> QED
    BY <2>3, <2>4, <2>6
<1>10. At(text, pos) = text[pos]
  BY <1>2, <1>4, TextFacts
<1> QED
  BY <1>2, <1>3, <1>4, <1>6, <1>7, <1>8, <1>9, <1>10 DEF ValueReady

------------------------------------------------------------------------------
(* An element is handed to the container.                                  *)

LEMMA BelowMore ==
  ASSUME TextOK, NEW a, NEW e \in Parts(a), NEW q \in Nat, e < q, \A x \in Parts(a) : e < x => ~ (x < q)
  PROVE  Below(a, q) = Below(a, e) \cup {e}
<1>1. e \in Nat /\ \A x \in Parts(a) : x \in Nat
  BY PartIs
<1>2. ASSUME NEW x \in Parts(a) PROVE x < q <=> (x < e \/ x = e)
  BY <1>1, <1>2
<1>3. \A x : x \in Below(a, q) <=> x \in Parts(a) /\ x < q
  BY DEF Below
<1>4. \A x : x \in Below(a, e) <=> x \in Parts(a) /\ x < e
  BY DEF Below
<1>5. \A x : x \in Below(a, q) <=> x \in Below(a, e) \/ x = e
  BY <1>2, <1>3, <1>4, Zenon
<1> QED
  BY <1>5

(* The innermost container has taken its elements up to the cursor when it *)
(* is handed the one the cursor has passed.                                *)
LEMMA TopTakes ==
  ASSUME TextOK, IsType(type), NEW s \in Seq(Frames), s # <<>>, Len(s) < Len(type), s[1].live, Takes(s), NEW m, NEW q \in Nat,
         NEW e, e \in Parts(s[1].at), e < q, Stands(s[1], Len(s), e), Inside(s[1].at, q), Has(s[1], m),
         text[e] \in Left => Holds(m, e),
         \A x \in Parts(s[1].at) : e < x => ~ (x < q)
  PROVE  LevelOK(Took(s, e), Len(s), q, m)
<1> DEFINE t == Took(s, e)
           k == Len(s)
<1>1. e \in Nat /\ s[1].at < e
  BY PartIs
<1>2. /\ t \in Seq(Frames) /\ Len(t) = k /\ t # <<>>
      /\ t[1].at = s[1].at /\ t[1].live = s[1].live /\ t[1].taken = Append(s[1].taken, e)
  BY <1>1, TookIs
<1>3. k \in 1 .. k /\ k \in Nat /\ On(t, k) = t[1] /\ s[1].at \in Nat /\ s[1].taken \in Seq(Nat)
  <2>1. k \in 1 .. k /\ k \in Nat /\ On(t, k) = t[1]
    BY <1>2, OnIs
  <2>2. 1 \in 1 .. Len(s)
    BY <2>1
  <2> QED
    BY <2>1, <2>2, FrameIs
<1> HIDE DEF t, k
<1>4. /\ s[1].at \in AllValues /\ text[s[1].at] \in Left
      /\ Behind(s[1].at) = Nest(k - 1) /\ Opened[s[1].at] = Nest(k) /\ (k = 1 => s[1].at = Trim(1))
      /\ Listed(s[1].taken, Below(s[1].at, e))
      /\ type[k].limit # Unlimited => Len(s[1].taken) <= type[k].limit
  BY DEF Stands, k
<1>5. Listed(t[1].taken, Below(s[1].at, q))
  <2>1. Below(s[1].at, q) = Below(s[1].at, e) \cup {e}
    BY BelowMore
  <2>2. Below(s[1].at, e) \in SUBSET Nat /\ \A x \in Below(s[1].at, e) : x < e
    BY PartIs DEF Below
  <2> DEFINE taken == s[1].taken
             S == Below(s[1].at, e)
  <2>3. taken \in Seq(Nat) /\ S \in SUBSET Nat /\ e \in Nat /\ Listed(taken, S) /\ \A x \in S : x < e
    BY <1>1, <1>3, <1>4, <2>2, Zenon
  <2> HIDE DEF taken, S
  <2>4. Listed(Append(taken, e), S \cup {e})
    BY <2>3, ListedMore, Zenon
  <2> QED
    BY <1>2, <2>1, <2>4, Zenon DEF taken, S
<1>6. type[k].limit # Unlimited => Len(t[1].taken) <= type[k].limit
  <2>1. Len(t[1].taken) = Len(s[1].taken) + 1 /\ Len(s[1].taken) \in Nat
    BY <1>2, <1>3
  <2>2. Len(s[1].taken) # type[k].limit
    BY DEF Takes, k
  <2>3. type[k].limit # Unlimited => type[k].limit \in Nat
    <3>1. k \in 1 .. Len(type)
      <4>1. Len(type) \in Nat /\ k < Len(type)
        BY TypeFacts DEF k
      <4> QED
        BY <1>3, <4>1
    <3> QED
      BY <3>1, TypeFacts
  <2> DEFINE x == Len(s[1].taken)
             y == type[k].limit
             z == Len(t[1].taken)
  <2>4. ASSUME y # Unlimited PROVE x \in Nat /\ y \in Nat /\ x <= y /\ x # y /\ z = x + 1
    BY <1>4, <2>1, <2>2, <2>3, <2>4
  <2> HIDE DEF x, y, z
  <2>5. y # Unlimited => z <= y
    BY <2>4
  <2> QED
    BY <2>5 DEF y, z
<1>7. s[1].at < q
  BY <1>1, <1>3
<1>8. Stands(t[1], k, q)
  BY <1>2, <1>4, <1>5, <1>6, <1>7, Zenon DEF Stands
<1>9. Within(t[1], q)
  BY <1>2, Zenon DEF Within
<1>10. Has(t[1], m)
  <2>1. HasAll(m, s[1].taken) /\ ~ Holds(m, s[1].at)
    BY DEF Has
  <2>2. ASSUME NEW i \in DOMAIN t[1].taken, text[t[1].taken[i]] \in Left PROVE Holds(m, t[1].taken[i])
    <3>1. (i \in DOMAIN s[1].taken /\ t[1].taken[i] = s[1].taken[i]) \/ t[1].taken[i] = e
      <4> DEFINE u == s[1].taken
      <4>1. u \in Seq(Nat) /\ i \in DOMAIN Append(u, e) /\ t[1].taken = Append(u, e)
        BY <1>2, <1>3, <2>2
      <4> HIDE DEF u
      <4>2. (i \in DOMAIN u /\ Append(u, e)[i] = u[i]) \/ Append(u, e)[i] = e
        BY <1>1, <4>1
      <4> QED
        BY <4>1, <4>2 DEF u
    <3> QED
      BY <2>1, <2>2, <3>1 DEF HasAll
  <2> QED
    BY <1>2, <2>1, <2>2 DEF Has, HasAll
<1>11. LevelOK(t, k, q, m)
  <2>1. Reach(t, k, q) = q
    BY <1>2 DEF Reach
  <2> QED
    BY <1>2, <1>3, <1>8, <1>9, <1>10, <2>1, Zenon DEF LevelOK
<1> QED
  BY <1>11 DEF t, k

(* The scalar is there, what follows it ends it, and the innermost         *)
(* container takes it.                                                     *)
LEMMA ScalarExact ==
  ASSUME Setting, Suited, Now, ParseScalar
  PROVE  Then
<1> DEFINE k == Len(stack)
<1>1. /\ phase = "value" /\ k + 1 = Len(type)
      /\ \/ /\ Fail
            /\ \/ At(text, pos) # Opener(Want)
               \/ Want.kind = "number" /\ ~ AtEndOfItem(Trim(pos + 1))
         \/ Past(pos, pos') /\ HandedOver(pos, stack) /\ filled' = filled
  BY ScalarStep, Zenon
<1>2. Tracked /\ Kept(pos, stack, filled)
  BY <1>1, NowTracked DEF Active
<1>3. ValueReady
  BY <1>1, ValueReadyIs
<1>4. /\ TextOK /\ IsType(type) /\ k \in Nat /\ Want = type[Len(type)] /\ Len(type) \in 1 .. Len(type)
  BY <1>1, SettingFacts DEF Setting
<1>5. Opener(Want) \in {"n", "s", "o"}
  BY <1>4, OpenerIs
<1>6. text[pos] \in {"n", "s", "o"} /\ text[pos] \notin Left /\ text[pos] \notin Right /\ pos \in Tokens /\ pos <= Final
      /\ IsValue(Opened, pos) /\ Behind(pos) = Nest(k)
  <2>1. pos \in AllValues /\ text[pos] = Opener(Want) /\ Behind(pos) = Nest(k)
    BY <1>3 DEF ValueReady
  <2>2. pos \in Tokens /\ pos <= Final /\ IsValue(Opened, pos)
    BY <1>4, <2>1, ValueIs
  <2> QED
    BY <1>5, <2>1, <2>2 DEF Left, Right
<1>7. stack # <<>>
  <2>1. stack = <<>> => text[pos] \in Left
    BY <1>3, <1>4, FirstIs DEF ValueReady
  <2> QED
    BY <1>6, <2>1
<1>8. k \in 1 .. (Len(type) - 1) /\ k \in 0 .. (Len(type) - 1) /\ Stacked(stack) /\ pos \in 1 .. EndOfText
  BY <1>7, StackedIs
<1> HIDE DEF k
<1>9. Opened[pos] = Nest(k)
  BY <1>4, <1>6, PassIs
<1>10. pos < Final
  BY <1>4, <1>6, <1>8, <1>9, StillOpen
<1>11. pos + 1 \in 1 .. EndOfText /\ Before(pos + 1) = pos
  BY <1>4, <1>6, BeforeNext
<1>12. EndsValue(Opened, pos)
  BY <1>6, ValueIsNotKey DEF EndsValue
<1>13. AtEndOfItem(Trim(pos + 1))
  <2> DEFINE t == Trim(pos + 1)
  <2>1. Behind(pos + 1) = Nest(k) /\ EndsValue(Opened, Before(pos + 1)) /\ Before(pos + 1) < Final
    BY <1>9, <1>10, <1>11, <1>12 DEF Behind
  <2>2. t \in Tokens /\ text[t] \in {",", ClosingOf(type[k])}
    BY <1>4, <1>8, <1>11, <2>1, AfterValue
  <2>3. At(text, t) = text[t]
    BY <1>4, <2>2, TextFacts
  <2> HIDE DEF t
  <2>4. AtEndOfItem(t)
    BY <2>2, <2>3 DEF AtEndOfItem, ClosingOf
  <2> QED
    BY <2>4 DEF t
<1>14. Past(pos, pos') /\ HandedOver(pos, stack) /\ filled' = filled
  <2>1. At(text, pos) = Opener(Want)
    BY <1>3 DEF ValueReady
  <2> QED
    BY <1>1, <1>13, <2>1, Zenon
<1>15. stack' = Took(stack, pos) /\ phase' = "step"
  BY <1>7, <1>14 DEF HandedOver
<1> DEFINE t == Took(stack, pos)
           q == pos'
<1>16. OnTrack(q, t, "step")
  <2>1. OnTrack(pos', stack', phase')
    BY <1>2, <1>15, ScalarTracked DEF TrackedNext, Active
  <2> QED
    BY <1>15, <2>1
<1>17. q \in 1 .. EndOfText /\ Before(q) = pos /\ pos < q /\ \A x \in Tokens : x < q <=> x < pos \/ x = pos
  BY <1>4, <1>6, <1>14, PastIs
<1>18. stack \in Seq(Frames) /\ Len(stack) < Len(type) /\ pos \in Nat /\ q \in Nat /\ \A i \in 2 .. Len(stack) : stack[i].live
  BY <1>4, <1>6, <1>8, <1>17, TextFacts DEF Stacked
<1>19. t \in Seq(Frames) /\ Len(t) = Len(stack) /\ t # <<>> /\ t[1].at = stack[1].at /\ \A i \in 2 .. Len(t) : t[i] = stack[i]
  BY <1>7, <1>18, TookIs
<1>20. /\ Stands(stack[1], Len(stack), pos) /\ stack[1].live /\ Inside(stack[1].at, pos)
       /\ Has(stack[1], filled) /\ Takes(stack) /\ pos \in Parts(stack[1].at)
  BY <1>3, <1>7 DEF ValueReady
<1>21. k - 1 <= Len(Opened[pos]) /\ k <= Len(Opened[pos])
  BY <1>4, <1>8, <1>9, NestLength
<1> HIDE DEF t, q
<1>22. LevelOK(t, Len(stack), q, filled)
  <2>1. Inside(stack[1].at, q)
    <3>1. Opened[stack[1].at] = Nest(k)
      BY <1>20 DEF Stands, k
    <3>2. \A r \in Tokens : r < q => r < pos \/ k <= Len(Opened[r])
      BY <1>17, <1>21
    <3>3. k <= k
      BY <1>4
    <3> QED
      BY <1>4, <1>8, <1>20, <3>1, <3>2, <3>3, InsideLevel
  <2>2. \A x \in Parts(stack[1].at) : pos < x => ~ (x < q)
    <3>1. \A x \in Parts(stack[1].at) : x \in Tokens /\ x \in Nat
      BY <1>4, PartIs
    <3> QED
      BY <1>17, <1>18, <3>1
  <2>3. text[pos] \in Left => Holds(filled, pos)
    BY <1>6
  <2> QED
    BY <1>4, <1>7, <1>17, <1>18, <1>20, <2>1, <2>2, <2>3, TopTakes DEF t
<1>23. ASSUME NEW n \in 1 .. Len(stack), n # Len(stack) PROVE LevelOK(t, n, q, filled)
  <2>1. n + 1 \in 1 .. Len(stack) /\ On(stack, n).live /\ n \in 1 .. (Len(type) - 1) /\ n <= k - 1
    BY <1>4, <1>8, <1>23, Outer DEF k
  <2>2. n < Len(stack)
    BY <1>18, <1>23
  <2>3. On(t, n) = On(stack, n)
    BY <1>18, <1>19, <2>2, OnRest
  <2>4. On(t, n + 1).at = On(stack, n + 1).at
    <3>1. CASE n + 1 = Len(stack)
      <4>1. On(t, n + 1) = t[1] /\ On(stack, n + 1) = stack[1]
        BY <1>7, <1>18, <1>19, <3>1, OnIs
      <4> QED
        BY <1>19, <4>1
    <3>2. CASE n + 1 # Len(stack)
      <4>1. n + 1 < Len(stack)
        BY <1>18, <2>1, <3>2
      <4> QED
        BY <1>18, <1>19, <2>1, <4>1, OnRest
    <3> QED
      BY <3>1, <3>2
  <2>5. LevelOK(stack, n, pos, filled)
    BY <1>2 DEF Kept
  <2>6. Opened[On(stack, n).at] = Nest(n)
    BY <2>5 DEF LevelOK, Stands
  <2>7. \A r \in Tokens : r < q => r < pos \/ k - 1 <= Len(Opened[r])
    BY <1>17, <1>21
  <2>8. k - 1 \in Nat
    BY <1>8
  <2>9. Inside(On(stack, n).at, pos) => Inside(On(stack, n).at, q)
    BY <1>4, <2>1, <2>6, <2>7, <2>8, InsideLevel
  <2> QED
    BY <1>18, <1>19, <1>23, <2>1, <2>3, <2>4, <2>5, <2>9, LevelKept
<1>24. Kept(q, t, filled)
  <2>1. \A n \in 1 .. Len(t) : LevelOK(t, n, q, filled)
    BY <1>19, <1>22, <1>23
  <2>2. \A c \in filled : FilledOK(c, q, filled)
    <3>1. \A c \in filled : FilledOK(c, pos, filled) /\ c.at \in AllValues /\ c.at < pos
      BY <1>2 DEF Kept, FilledOK
    <3>2. \A c \in filled : c.at < q
      BY <1>4, <1>17, <3>1, ValueIs
    <3> QED
      BY <3>1, <3>2 DEF FilledOK
  <2>3. Seen(q, t, filled)
    <3> SUFFICES ASSUME NEW v \in AllValues, v < q, text[v] \in Left
                 PROVE  Holds(filled, v) \/ \E n \in 1 .. Len(t) : On(t, n).at = v
      BY DEF Seen
    <3>1. v < pos
      BY <1>4, <1>6, <1>17, ValueIs
    <3>2. Holds(filled, v) \/ \E n \in 1 .. Len(stack) : On(stack, n).at = v
      BY <1>2, <3>1 DEF Kept, Seen
    <3>3. \A n \in 1 .. Len(stack) : On(t, n).at = On(stack, n).at
      <4>1. ASSUME NEW n \in 1 .. Len(stack), n # Len(stack) PROVE On(t, n) = On(stack, n)
        <5>1. n < Len(stack)
          BY <1>18, <4>1
        <5> QED
          BY <1>18, <1>19, <5>1, OnRest
      <4>2. On(t, Len(stack)) = t[1] /\ On(stack, Len(stack)) = stack[1]
        BY <1>7, <1>18, <1>19, OnIs
      <4> QED
        BY <1>19, <4>1, <4>2
    <3> QED
      BY <1>19, <3>2, <3>3
  <2>4. Single(filled)
    BY <1>2 DEF Kept
  <2> QED
    BY <2>1, <2>2, <2>3, <2>4 DEF Kept
<1>25. Ready(q, t, "step")
  BY <1>6, <1>17 DEF Ready
<1>26. Exact(q, t, "step", filled)
  BY <1>16, <1>24, <1>25, Zenon DEF Exact
<1> QED
  BY <1>14, <1>15, <1>26, Zenon DEF Then, Active, t, q

(* What excuses a text from being accepted.                                *)
Excuse(p) == ~ Roomy(Opened, p) \/ (type[Depth(Opened, p)].kind = "pairs" /\ At(text, p + 1) \in Space)
Excused == \E p \in AllValues : Excuse(p)

(* In an array of pairs the cursor is at a space.                          *)
Spaced(p, s, ph) ==
  /\ ph \in {"value", "fill"} /\ s # <<>> /\ type[Len(s)].kind = "pairs"
  /\ At(text, p) \in Space /\ s[1].live /\ s[1].taken = <<>> /\ Excused

(* A container is begun inside the innermost one.                          *)
LEMMA PushKept ==
  ASSUME Setting, Suited, Now, phase = "value", NEW q \in 1 .. EndOfText, NEW t, NEW l \in BOOLEAN,
         Len(stack) + 1 < Len(type), IsPushed(t, stack, pos, l), pos < q, Opened[pos] = Nest(Len(stack) + 1), text[pos] \in Left,
         \A x \in Tokens : x < q => x < pos \/ x = pos \/ (pos < x /\ ~ IsValue(Opened, x) /\ Len(stack) <= Len(Opened[x])),
         Within(t[1], q)
  PROVE  Kept(q, t, filled)
<1> DEFINE k == Len(stack)
<1>1. Kept(pos, stack, filled)
  BY NowTracked DEF Active
<1>2. ValueReady
  BY ValueReadyIs
<1>3. /\ TextOK /\ IsType(type) /\ k \in Nat /\ stack \in Seq(Frames) /\ k + 1 \in 1 .. (Len(type) - 1)
      /\ k + 1 \in 1 .. Len(type) /\ pos \in 1 .. EndOfText /\ EndOfText \in Nat
  BY SettingFacts, TextFacts DEF Setting
<1>4. /\ t \in Seq(Frames) /\ Len(t) = k + 1 /\ t # <<>> /\ t[1].at = pos /\ t[1].taken = <<>>
      /\ On(t, k + 1) = t[1] /\ \A n \in 1 .. k : On(t, n) = On(stack, n)
  <2>1. t \in Seq(Frames) /\ Len(t) = k + 1 /\ t # <<>> /\ t[1].at = pos /\ t[1].taken = <<>>
    BY DEF IsPushed
  <2> QED
    BY <1>3, <2>1, OnPushed
<1>5. /\ pos \in AllValues /\ pos \in Tokens /\ pos \in Nat /\ q \in Nat /\ Behind(pos) = Nest(k)
      /\ (stack = <<>> => pos = Trim(1))
  BY <1>2, <1>3 DEF ValueReady
<1> HIDE DEF k
<1>6. /\ \A n \in 1 .. k : LevelOK(stack, n, pos, filled)
      /\ \A c \in filled : FilledOK(c, pos, filled)
      /\ Single(filled) /\ Seen(pos, stack, filled)
  BY <1>1 DEF Kept, k
<1>7. \A c \in filled : c.at \in AllValues /\ c.at < pos /\ c.at < q
  <2>1. \A c \in filled : c.at \in AllValues /\ c.at < pos
    BY <1>6 DEF FilledOK
  <2>2. \A x \in AllValues : x \in Nat
    BY <1>3, ValueIs
  <2>3. \A x \in Nat : x < pos => x < q
    BY <1>5
  <2> QED
    BY <2>1, <2>2, <2>3
<1>8. LevelOK(t, k + 1, q, filled)
  <2>1. Stands(t[1], k + 1, q)
    <3>1. Below(pos, q) = {}
      <4> SUFFICES ASSUME NEW e \in Below(pos, q) PROVE FALSE
        OBVIOUS
      <4>1. e \in Parts(pos) /\ e < q
        BY DEF Below
      <4>2. e \in Tokens /\ e \in Nat /\ pos < e /\ IsValue(Opened, e)
        BY <1>3, <4>1, PartIs
      <4>3. e < pos \/ e = pos \/ ~ IsValue(Opened, e)
        BY <4>1, <4>2
      <4>4. ~ (e < pos) /\ e # pos
        BY <1>5, <4>2
      <4> QED
        BY <4>2, <4>3, <4>4
    <3>2. Listed(<<>>, {})
      BY DEF Listed
    <3>3. Listed(t[1].taken, Below(t[1].at, q))
      BY <1>4, <3>1, <3>2, Zenon
    <3>4. k + 1 = 1 => t[1].at = Trim(1)
      <4>1. k + 1 = 1 => stack = <<>>
        BY <1>3 DEF k
      <4> QED
        BY <1>4, <1>5, <4>1
    <3>5. type[k + 1].limit # Unlimited => Len(t[1].taken) <= type[k + 1].limit
      <4>1. type[k + 1].limit # Unlimited => type[k + 1].limit \in Nat
        BY <1>3, TypeFacts
      <4>2. Len(t[1].taken) = 0
        BY <1>4
      <4> QED
        BY <4>1, <4>2
    <3>6. Behind(t[1].at) = Nest((k + 1) - 1)
      <4>1. (k + 1) - 1 = k
        BY <1>3
      <4> QED
        BY <1>4, <1>5, <4>1
    <3>7. Opened[t[1].at] = Nest(k + 1)
      BY <1>4 DEF k
    <3> QED
      BY <1>4, <1>5, <3>3, <3>4, <3>5, <3>6, <3>7, Zenon DEF Stands
  <2>2. Has(t[1], filled)
    <3>1. HasAll(filled, <<>>)
      BY DEF HasAll
    <3>2. ~ Holds(filled, pos)
      BY <1>5, <1>7 DEF Holds
    <3> QED
      BY <1>4, <3>1, <3>2, Zenon DEF Has
  <2>3. Reach(t, k + 1, q) = q
    BY <1>4 DEF Reach
  <2> QED
    BY <1>4, <2>1, <2>2, <2>3, Zenon DEF LevelOK
<1>9. ASSUME NEW n \in 1 .. k PROVE LevelOK(t, n, q, filled)
  <2>1. stack # <<>> /\ n \in Nat /\ n <= k /\ n # k + 1 /\ n \in 1 .. (Len(type) - 1)
    BY <1>3 DEF k
  <2>2. LevelOK(stack, n, pos, filled) /\ On(t, n) = On(stack, n)
    BY <1>4, <1>6
  <2>3. On(stack, n).live
    <3>1. CASE n = k
      BY <1>2, <1>3, <2>1, <3>1, OnIs DEF ValueReady, k
    <3>2. CASE n # k
      <4>1. Stacked(stack)
        BY <2>1, StackedIs
      <4> QED
        BY <1>3, <3>2, <4>1, Outer DEF k
    <3> QED
      BY <3>1, <3>2
  <2>4. Opened[On(stack, n).at] = Nest(n)
    BY <2>2 DEF LevelOK, Stands
  <2>5. Inside(On(stack, n).at, pos)
    BY <2>2, <2>3 DEF LevelOK, Within
  <2>6. Inside(On(stack, n).at, q)
    <3>1. k <= Len(Opened[pos])
      <4>1. (k + 1) - 1 <= Len(Opened[pos])
        BY <1>3, NestLength DEF k
      <4>2. (k + 1) - 1 = k
        BY <1>3
      <4> QED
        BY <4>1, <4>2
    <3>2. \A r \in Tokens : r < q => r < pos \/ k <= Len(Opened[r])
      BY <3>1 DEF k
    <3> QED
      BY <1>3, <2>1, <2>4, <2>5, <3>2, InsideLevel
  <2>7. CASE n # k
    <3>1. n + 1 \in 1 .. k
      BY <1>3, <2>1, <2>7
    <3>2. On(t, n + 1).at = On(stack, n + 1).at
      BY <1>4, <3>1
    <3> QED
      BY <1>3, <1>4, <2>1, <2>2, <2>3, <2>6, <2>7, <3>2, LevelKept DEF k
  <2>8. CASE n = k
    <3>1. On(stack, k) = stack[1] /\ Reach(stack, k, pos) = pos
      BY <1>3, <2>1, OnIs DEF Reach, k
    <3>2. Reach(t, k, q) = pos
      <4>1. k # Len(t)
        BY <1>4, <2>1, <2>8
      <4> QED
        BY <1>4, <4>1 DEF Reach
    <3>3. Stands(stack[1], k, pos) /\ Has(stack[1], filled)
      BY <2>2, <2>8, <3>1 DEF LevelOK
    <3>4. Passed(t, k)
      <4>1. Len(stack[1].taken) # type[k].limit /\ pos \in Parts(stack[1].at)
        BY <1>2, <2>1 DEF ValueReady, Takes, k
      <4>2. On(t, k) = stack[1] /\ On(t, k + 1).at = pos
        BY <1>4, <2>2, <2>8, <3>1
      <4> QED
        BY <4>1, <4>2 DEF Passed
    <3>5. Within(stack[1], q)
      BY <2>3, <2>6, <2>8, <3>1 DEF Within
    <3> QED
      BY <2>2, <2>8, <3>1, <3>2, <3>3, <3>4, <3>5, Zenon DEF LevelOK
  <2> QED
    BY <2>7, <2>8
<1>10. \A n \in 1 .. Len(t) : LevelOK(t, n, q, filled)
  <2>1. \A n \in 1 .. Len(t) : n \in 1 .. k \/ n = k + 1
    BY <1>3, <1>4
  <2> QED
    BY <1>8, <1>9, <2>1
<1>11. \A c \in filled : FilledOK(c, q, filled)
  BY <1>6, <1>7 DEF FilledOK
<1>12. Seen(q, t, filled)
  <2> SUFFICES ASSUME NEW v \in AllValues, v < q, text[v] \in Left
               PROVE  Holds(filled, v) \/ \E n \in 1 .. Len(t) : On(t, n).at = v
    BY DEF Seen
  <2>1. v \in Tokens /\ IsValue(Opened, v)
    BY <1>3, ValueIs
  <2>2. v < pos \/ v = pos
    BY <2>1
  <2>3. v < pos => Holds(filled, v) \/ \E n \in 1 .. k : On(stack, n).at = v
    BY <1>6 DEF Seen, k
  <2>4. k + 1 \in 1 .. Len(t) /\ \A n \in 1 .. k : n \in 1 .. Len(t)
    BY <1>3, <1>4
  <2> QED
    BY <1>4, <2>2, <2>3, <2>4
<1> QED
  BY <1>6, <1>10, <1>11, <1>12, Zenon DEF Kept

(* The container is there; its iterator is at the first element or at its  *)
(* end, unless a space is behind the bracket of an array of pairs.         *)
LEMMA EnterExact ==
  ASSUME Setting, Suited, Now, EnterArray \/ EnterMap \/ EnterPairs
  PROVE  Then \/ Spaced(pos', stack', phase')
<1> DEFINE k == Len(stack) + 1
           t == Trim(pos + 1)
<1>1. /\ phase = "value" /\ k < Len(type)
      /\ \/ At(text, Trim(pos)) # Opener(Want)
         \/ At(text, pos) # Opener(Want)
         \/ \E q \in {pos, Trim(pos)} : \E p \in {q + 1, Trim(q + 1)} :
              Begins(q, p) /\ (Want.kind # "pairs" => p = Trim(q + 1))
  BY EnterStep, Zenon
<1>2. Tracked /\ Kept(pos, stack, filled) /\ OnTrack(pos, stack, "value")
  BY <1>1, NowTracked DEF Active, Tracked
<1>3. /\ pos \in AllValues /\ pos \in Tokens /\ Behind(pos) = Nest(Len(stack))
      /\ text[pos] = Opener(Want) /\ At(text, pos) = text[pos]
  BY <1>1, ValueReadyIs DEF ValueReady
<1>4. /\ TextOK /\ IsType(type) /\ Len(stack) \in Nat /\ stack \in Seq(Frames) /\ k \in 1 .. (Len(type) - 1)
      /\ k \in 1 .. Len(type) /\ k - 1 = Len(stack) /\ pos \in 1 .. EndOfText /\ EndOfText \in Nat /\ Want = type[k]
      /\ Len(stack) \in 0 .. (Len(type) - 1)
  BY <1>1, SettingFacts, TextFacts DEF Setting
<1>5. Trim(pos) = pos
  BY <1>3, <1>4, TrimIs
<1>6. PICK p \in {pos + 1, t} : Begins(pos, p) /\ (Want.kind # "pairs" => p = t)
  BY <1>1, <1>3, <1>5, Zenon
<1>7. /\ OnTrack(pos', stack', phase') /\ Opened[pos] = Nest(k)
  BY <1>1, <1>2, <1>3, <1>4, <1>6, BeginsTracked
<1>8. PICK live \in BOOLEAN : Comes(p, Want, pos', live) /\ stack' = <<Frame(pos, live, <<>>)>> \o stack
  BY <1>6, Zenon DEF Begins
<1>9. phase' = "fill" /\ filled' = filled
  BY <1>6, Zenon DEF Begins
<1>10. text[pos] \in Left
  BY <1>1, <1>3, <1>4, OpenerIs
<1> DEFINE u == <<Frame(pos, live, <<>>)>> \o stack
<1>11. IsPushed(u, stack, pos, live)
  <2>1. pos \in Nat
    BY <1>4
  <2> QED
    BY <1>4, <1>8, <2>1, PushedIs
<1>12. u = stack'
  BY <1>8
<1> HIDE DEF u, k
<1>13. Len(u) = k /\ u # <<>> /\ u[1].at = pos /\ u[1].live = live /\ u[1].taken = <<>>
  <2>1. Len(u) = Len(stack) + 1 /\ u # <<>> /\ u[1].at = pos /\ u[1].live = live /\ u[1].taken = <<>>
    BY <1>11, Zenon DEF IsPushed
  <2> QED
    BY <2>1 DEF k
<1>14. pos <= Final /\ pos \in Nat
  BY <1>3, <1>4, ValueIs
<1>15. pos < Final
  BY <1>3, <1>4, <1>7, <1>14, StillOpen
<1>16. pos + 1 \in 1 .. EndOfText /\ Before(pos + 1) = pos /\ \A x \in Tokens : x < pos + 1 <=> x < pos \/ x = pos
  BY <1>3, <1>4, BeforeNext
<1>17. Behind(pos + 1) = Nest(k) /\ LastAt(pos + 1) = Opener(type[k])
  BY <1>3, <1>4, <1>7, <1>16 DEF Behind, LastAt
<1>18. /\ t \in Tokens /\ t \in 1 .. EndOfText /\ t <= Final /\ Before(t) = pos /\ Behind(t) = Nest(k)
       /\ \/ text[t] = ClosingOf(type[k]) /\ ~ IsValue(Opened, t)
          \/ Expected(k, t) /\ text[t] # ClosingOf(type[k])
  BY <1>4, <1>15, <1>16, <1>17, AfterStart
<1>19. At(text, t) = text[t]
  BY <1>4, <1>18, TextFacts
<1>20. \A x \in Tokens : x < t <=> x < pos \/ x = pos
  BY <1>4, <1>16, TrimIs
<1>21. pos < t /\ t \in Nat
  <2>1. pos + 1 <= t
    BY <1>4, <1>16, TrimTwice
  <2>2. t \in Tokens
    BY <1>18
  <2>3. t \in Nat
    BY <1>4, <2>2, TextFacts
  <2> HIDE DEF t
  <2> QED
    BY <1>14, <2>1, <2>3
<1>22. Inside(pos, pos + 1) /\ Inside(pos, t)
  <2>1. \A r \in Tokens : pos <= r /\ (r < t \/ r < pos + 1) => r = pos
    <3>1. \A r \in Tokens : r \in Nat
      BY <1>4, TextFacts
    <3> QED
      BY <1>14, <1>16, <1>20, <3>1
  <2>2. Len(Opened[pos]) <= Len(Opened[pos])
    <3>1. Len(Opened[pos]) \in Nat
      <4>1. k \in 0 .. (Len(type) - 1) /\ k \in Nat
        BY <1>4, LevelIs
      <4> QED
        BY <1>4, <1>7, <4>1, NestIs
    <3> QED
      BY <3>1
  <2> QED
    BY <2>1, <2>2 DEF Inside
<1>23. CASE p = t
  <2>1. CASE text[t] = ClosingOf(type[k]) /\ ~ IsValue(Opened, t)
    <3> DEFINE q == Trim(t + 1)
    <3>1. live = FALSE /\ pos' = q
      BY <1>4, <1>8, <1>19, <1>23, <2>1, Zenon DEF Comes
    <3>2. t + 1 \in 1 .. EndOfText /\ Before(t + 1) = t /\ \A x \in Tokens : x < t + 1 <=> x < t \/ x = t
      BY <1>4, <1>18, BeforeNext
    <3>3. q \in 1 .. EndOfText /\ Before(q) = t /\ Trim(q) = q /\ t + 1 <= q /\ \A x \in Tokens : x < q <=> x < t + 1
      BY <1>4, <3>2, TrimIs, TrimTwice, BeforeTrim
    <3>4. Opened[t] = Nest(k - 1)
      BY <1>4, <1>18, <2>1, PopIs
    <3>5. Len(stack) <= Len(Opened[t])
      BY <1>4, <3>4, NestLength
    <3> HIDE DEF t
    <3>6. pos < q
      <4>1. q \in Nat
        BY <1>4, <3>3
      <4> HIDE DEF q
      <4> QED
        BY <1>14, <1>21, <3>3, <4>1
    <3> HIDE DEF q
    <3>7. \A x \in Tokens : x < q => x < pos \/ x = pos \/ (pos < x /\ ~ IsValue(Opened, x) /\ Len(stack) <= Len(Opened[x]))
      <4>1. \A x \in Tokens : x < q => x < pos \/ x = pos \/ x = t
        BY <1>20, <3>2, <3>3
      <4> QED
        BY <1>21, <2>1, <3>5, <4>1
    <3>8. Within(u[1], q)
      BY <1>13, <1>21, <1>22, <3>1, <3>3, Zenon DEF Within
    <3>9. Kept(q, u, filled)
      BY <1>1, <1>4, <1>7, <1>10, <1>11, <3>3, <3>6, <3>7, <3>8, PushKept DEF k
    <3>10. Ready(q, u, "fill")
      <4>1. ~ u[1].live /\ Before(q) <= Final
        BY <1>13, <1>18, <3>1, <3>3
      <4> QED
        BY <3>3, <4>1, Zenon DEF Ready
    <3> QED
      BY <1>7, <1>9, <1>12, <3>1, <3>9, <3>10, Zenon DEF Then, Exact, Active
  <2>2. CASE Expected(k, t) /\ text[t] # ClosingOf(type[k])
    <3>1. live = TRUE /\ pos' = t
      BY <1>4, <1>8, <1>19, <1>23, <2>2, Zenon DEF Comes
    <3>2. \A x \in Tokens : x < t => x < pos \/ x = pos \/ (pos < x /\ ~ IsValue(Opened, x) /\ Len(stack) <= Len(Opened[x]))
      BY <1>20
    <3>3. Within(u[1], t)
      BY <1>13, <1>22, <3>1, Zenon DEF Within
    <3> HIDE DEF t
    <3>4. Kept(t, u, filled)
      BY <1>1, <1>4, <1>7, <1>10, <1>11, <1>18, <1>21, <3>2, <3>3, PushKept DEF k
    <3>5. Ready(t, u, "fill")
      <4>1. u[1].live /\ Before(t) <= Final /\ Len(u) = k
        BY <1>13, <1>14, <1>18, <3>1
      <4> QED
        BY <1>18, <2>2, <4>1, Zenon DEF Ready
    <3> QED
      BY <1>7, <1>9, <1>12, <3>1, <3>4, <3>5, Zenon DEF Then, Exact, Active
  <2> QED
    BY <1>18, <2>1, <2>2
<1>24. CASE p # t
  <2>1. p = pos + 1 /\ Want.kind = "pairs"
    BY <1>6, <1>24
  <2>2. At(text, pos + 1) \in Space
    <3>1. pos + 1 \in 1 .. Len(text)
      <4>1. Final \in 1 .. Len(text) /\ Len(text) \in Nat
        BY <1>1, <1>4, LastIs, TextFacts
      <4> QED
        BY <1>14, <1>15, <4>1
    <3>2. pos + 1 \notin Tokens
      <4>1. pos + 1 \in Tokens => t = pos + 1
        BY <1>4, <1>16, TrimIs
      <4> QED
        BY <1>24, <2>1, <4>1
    <3> QED
      BY <1>4, <3>1, <3>2, TextFacts DEF Tokens
  <2>3. live = TRUE /\ pos' = pos + 1
    <3>1. At(text, p) # ClosingOf(Want)
      BY <2>1, <2>2 DEF Space, ClosingOf
    <3>2. pos + 1 \notin Tokens
      BY <1>4, <2>2, TextFacts DEF Tokens
    <3> QED
      BY <1>8, <2>1, <3>1, <3>2, Zenon DEF Comes
  <2>4. Excused
    <3>1. Depth(Opened, pos) = k
      BY <1>3, <1>4, DepthIs DEF k
    <3> QED
      BY <1>3, <1>4, <2>1, <2>2, <3>1 DEF Excused, Excuse
  <2>5. Spaced(pos', stack', phase')
    <3>1. At(text, pos') \in Space /\ stack'[1].live /\ stack'[1].taken = <<>> /\ stack' # <<>> /\ type[Len(stack')].kind = "pairs"
      BY <1>4, <1>12, <1>13, <2>1, <2>2, <2>3
    <3> QED
      BY <1>9, <2>4, <3>1 DEF Spaced
  <2> QED
    BY <2>5
<1> QED
  BY <1>23, <1>24

(* The cursor is at an element of a container that was short of room, and  *)
(* the container around that is filled.                                    *)
Astray(p, s, ph) ==
  /\ p \in AllValues /\ Around(Opened, p) = "[" /\ Excused
  /\ ph = "step" \/ (ph = "fill" /\ type[Len(s)].kind = "map" /\ s[1].live)
AllIn(m) ==
  /\ Holds(m, Trim(1)) /\ Single(m)
  /\ \A c \in m : Lists(c.taken, Parts(c.at), LimitAt(Opened, c.at)) /\ HasAll(m, c.taken)
Finished(p, m) ==
  /\ AllIn(m)
  /\ Roomy(Opened, Trim(1)) => p = Trim(Final + 1)
  /\ \A q \in AllValues : q < p /\ q # Trim(1) => Roomy(Opened, q)

Entry == [at |-> stack[1].at, taken |-> stack[1].taken]
More == filled \cup {Entry}

(* The innermost container.                                                *)
LEMMA TopIs ==
  ASSUME Setting, Suited, Now, phase = "fill"
  PROVE  /\ stack # <<>> /\ Len(stack) \in 1 .. (Len(type) - 1) /\ Len(stack) \in Nat /\ Stacked(stack) /\ TextOK /\ IsType(type)
         /\ Mine = type[Len(stack)] /\ pos \in 1 .. EndOfText /\ Kept(pos, stack, filled) /\ Ready(pos, stack, "fill")
         /\ OnTrack(pos, stack, "fill") /\ LevelOK(stack, Len(stack), pos, filled) /\ On(stack, Len(stack)) = stack[1]
         /\ Stands(stack[1], Len(stack), pos) /\ Within(stack[1], pos) /\ Has(stack[1], filled)
         /\ stack[1].at \in AllValues /\ stack[1].at \in Tokens /\ stack[1].at \in Nat /\ stack[1].at < pos
         /\ stack[1].taken \in Seq(Nat) /\ LimitAt(Opened, stack[1].at) = Mine.limit
<1>1. stack # <<>> /\ Active(phase)
  BY DEF Setting, Shape, Active
<1>2. Tracked /\ Ready(pos, stack, phase) /\ Kept(pos, stack, filled)
  BY <1>1, NowTracked
<1>3. /\ Len(stack) \in 1 .. (Len(type) - 1) /\ Stacked(stack) /\ TextOK /\ IsType(type)
      /\ Mine = type[Len(stack)] /\ pos \in 1 .. EndOfText
  BY <1>1, StackedIs
<1>4. /\ Len(stack) \in 1 .. Len(stack) /\ Len(stack) \in Nat /\ On(stack, Len(stack)) = stack[1]
      /\ stack[1].at \in Nat /\ stack[1].taken \in Seq(Nat)
  BY <1>1, <1>3, OnIs DEF Stacked
<1>5. LevelOK(stack, Len(stack), pos, filled) /\ Reach(stack, Len(stack), pos) = pos
  BY <1>2, <1>4 DEF Kept, Reach
<1>6. Stands(stack[1], Len(stack), pos) /\ Within(stack[1], pos) /\ Has(stack[1], filled)
  BY <1>4, <1>5 DEF LevelOK
<1>7. stack[1].at \in AllValues /\ stack[1].at < pos /\ Behind(stack[1].at) = Nest(Len(stack) - 1)
  BY <1>6, Zenon DEF Stands
<1>8. stack[1].at \in Tokens
  BY <1>3, <1>7, ValueIs
<1>9. LimitAt(Opened, stack[1].at) = Mine.limit
  <2> DEFINE k == Len(stack)
  <2>1. k - 1 \in 0 .. (Len(type) - 1) /\ (k - 1) + 1 = k
    <3>1. Len(type) \in Nat
      BY <1>3, TypeFacts
    <3> QED
      BY <1>3, <3>1
  <2>2. Behind(stack[1].at) = Nest(k - 1)
    BY <1>7
  <2> HIDE DEF k
  <2>3. Depth(Opened, stack[1].at) = k
    BY <1>3, <2>1, <2>2, DepthIs
  <2> QED
    BY <1>3, <2>3 DEF LimitAt, k
<1> QED
  BY <1>1, <1>2, <1>3, <1>4, <1>5, <1>6, <1>7, <1>8, <1>9 DEF Tracked

(* A container the cursor has left.                                        *)
LEMMA ClosedIs ==
  ASSUME Setting, Suited, Now, phase = "fill", ~ stack[1].live
  PROVE  /\ Before(pos) \in Tokens /\ Before(pos) <= Final /\ stack[1].at < Before(pos) /\ Before(pos) < pos
         /\ Opened[Before(pos)] = Nest(Len(stack) - 1) /\ Inside(stack[1].at, Before(pos)) /\ Trim(pos) = pos
         /\ Listed(stack[1].taken, Parts(stack[1].at)) /\ Roomy(Opened, stack[1].at)
<1> DEFINE k == Len(stack)
           a == stack[1].at
           c == Before(pos)
<1>1. /\ k \in 1 .. (Len(type) - 1) /\ TextOK /\ IsType(type) /\ pos \in 1 .. EndOfText /\ stack[1].taken \in Seq(Nat)
      /\ Ready(pos, stack, "fill") /\ OnTrack(pos, stack, "fill") /\ Stands(stack[1], k, pos) /\ Within(stack[1], pos)
      /\ a \in Nat /\ a \in Tokens /\ a < pos /\ LimitAt(Opened, a) = Mine.limit /\ Mine = type[k] /\ stack # <<>>
  BY TopIs
<1>2. Inside(a, c) /\ a < c /\ c <= Final /\ Trim(pos) = pos
  BY <1>1, Zenon DEF Within, Ready
<1>3. c \in 0 .. Len(text) /\ (c # 0 => c \in Tokens /\ c < pos) /\ pos \in Nat
  <2>1. pos \in 0 .. EndOfText /\ pos \in Nat
    BY <1>1, TextFacts
  <2> QED
    BY <1>1, <2>1, BeforeIs
<1> HIDE DEF c
<1>4. c \in Tokens /\ c < pos /\ c \in Nat
  <2>1. c # 0 /\ c \in Nat
    BY <1>1, <1>2, <1>3
  <2> QED
    BY <1>3, <2>1
<1>5. Opened[c] = Nest(k - 1)
  BY <1>1 DEF OnTrack, Live, Behind, c
<1>6. Opened[c] = Tail(Opened[a])
  <2>1. k \in 0 .. (Len(type) - 1) /\ k # 0
    BY <1>1, LevelIs
  <2>2. Tail(Nest(k)) = Nest(k - 1)
    BY <1>1, <2>1, NestIs
  <2> QED
    BY <1>1, <1>5, <2>2 DEF Stands
<1>7. Parts(a) = Below(a, pos)
  <2>1. ASSUME NEW e \in Parts(a) PROVE e < pos
    <3>1. e \in Nat /\ \A r \in Tokens : a < r /\ r < e => Opened[r] # Tail(Opened[a])
      BY <1>1, <2>1, PartIs
    <3>2. ~ (c < e)
      BY <1>2, <1>4, <1>6, <3>1
    <3> QED
      BY <1>3, <1>4, <3>1, <3>2
  <2> QED
    BY <2>1 DEF Below
<1>8. Listed(stack[1].taken, Parts(a))
  BY <1>1, <1>7 DEF Stands
<1>9. Roomy(Opened, a)
  <2>1. Cardinality(Parts(a)) = Len(stack[1].taken)
    BY <1>1, <1>8, ListedCount
  <2>2. type[k].limit # Unlimited => Len(stack[1].taken) <= type[k].limit
    BY <1>1, Zenon DEF Stands
  <2>3. LimitAt(Opened, a) # Unlimited => Cardinality(Parts(a)) <= LimitAt(Opened, a)
    BY <1>1, <2>1, <2>2, Zenon
  <2> QED
    BY <2>3, Zenon DEF Roomy, Parts
<1> QED
  BY <1>2, <1>4, <1>5, <1>8, <1>9 DEF c

(* What is noted of a container when it is complete.                       *)
LEMMA MoreFilled ==
  ASSUME Setting, Suited, Now, phase = "fill"
  PROVE  /\ Entry \in More /\ Entry.at = stack[1].at /\ Entry.taken = stack[1].taken
         /\ Single(More) /\ \A t : HasAll(filled, t) => HasAll(More, t)
         /\ \A x : Holds(More, x) <=> Holds(filled, x) \/ x = stack[1].at
         /\ \A c \in filled : FilledOK(c, pos, More)
<1>1. Kept(pos, stack, filled) /\ Has(stack[1], filled)
  BY TopIs
<1>2. Entry \in More /\ Entry.at = stack[1].at /\ Entry.taken = stack[1].taken
  BY DEF Entry, More
<1>3. \A x : Holds(More, x) <=> Holds(filled, x) \/ x = stack[1].at
  BY <1>2 DEF Holds, More
<1>4. \A t : HasAll(filled, t) => HasAll(More, t)
  BY <1>3 DEF HasAll
<1>5. Single(More)
  <2>1. Single(filled) /\ \A c \in filled : c.at # stack[1].at
    BY <1>1 DEF Kept, Has, Holds
  <2>2. \A c \in More : c \in filled \/ c = Entry
    BY DEF More
  <2> QED
    BY <1>2, <2>1, <2>2 DEF Single
<1>6. \A c \in filled : FilledOK(c, pos, More)
  BY <1>1, <1>4 DEF Kept, FilledOK
<1> QED
  BY <1>2, <1>3, <1>4, <1>5, <1>6

(* The container that is noted is as it should be.                         *)
LEMMA NotedIs ==
  ASSUME Setting, Suited, Now, phase = "fill", ~ stack[1].live
  PROVE  \A c \in More : FilledOK(c, pos, More)
<1>1. /\ Stands(stack[1], Len(stack), pos) /\ Has(stack[1], filled)
  BY TopIs
<1>2. Listed(stack[1].taken, Parts(stack[1].at)) /\ Roomy(Opened, stack[1].at)
  BY ClosedIs
<1>3. /\ Entry.at = stack[1].at /\ Entry.taken = stack[1].taken
      /\ \A t : HasAll(filled, t) => HasAll(More, t)
      /\ \A c \in filled : FilledOK(c, pos, More)
  BY MoreFilled
<1>4. FilledOK(Entry, pos, More)
  <2>1. stack[1].at \in AllValues /\ stack[1].at < pos /\ text[stack[1].at] \in Left
    BY <1>1, Zenon DEF Stands
  <2>2. HasAll(More, stack[1].taken)
    BY <1>1, <1>3 DEF Has
  <2> QED
    BY <1>2, <1>3, <2>1, <2>2, Zenon DEF FilledOK
<1> QED
  BY <1>3, <1>4 DEF More

(* The container around it takes it.                                       *)
LEMMA OwnerTakes ==
  ASSUME Setting, Suited, Now, phase = "fill", ~ stack[1].live, Tail(stack) # <<>>
  PROVE  Kept(pos, Took(Tail(stack), stack[1].at), More)
<1> DEFINE k == Len(stack)
           a == stack[1].at
           s == Tail(stack)
           t == Took(s, a)
           j == k - 1
<1>1. /\ stack # <<>> /\ k \in 1 .. (Len(type) - 1) /\ k \in Nat /\ Stacked(stack) /\ TextOK /\ IsType(type)
      /\ pos \in 1 .. EndOfText /\ Kept(pos, stack, filled) /\ On(stack, k) = stack[1]
      /\ Stands(stack[1], k, pos) /\ a \in AllValues /\ a \in Tokens /\ a \in Nat /\ a < pos
  BY TopIs
<1>2. stack \in Seq(Frames) /\ Len(stack) < Len(type) /\ \A i \in 2 .. k : stack[i].live
  BY <1>1 DEF Stacked
<1>3. s \in Seq(Frames) /\ Len(s) = j /\ s # <<>> /\ \A i \in 1 .. j : s[i] = stack[i + 1]
  BY <1>1, <1>2, TailIs
<1>4. j \in Nat /\ j # 0 /\ j \in 1 .. k /\ j # k /\ j + 1 = k /\ k # 1 /\ 1 \in 1 .. j /\ Len(type) \in Nat
  <2>1. Len(type) \in Nat
    BY <1>1, TypeFacts
  <2>2. k \in Nat /\ k # 0
    BY <1>1, LevelIs
  <2>3. k - 1 # 0
    <3> HIDE DEF s
    <3> QED
      BY <1>3
  <2> HIDE DEF k
  <2> QED
    BY <2>1, <2>2, <2>3
<1> HIDE DEF s
<1>5. /\ Before(pos) \in Tokens /\ a < Before(pos) /\ Before(pos) < pos
      /\ Opened[Before(pos)] = Nest(j) /\ Inside(a, Before(pos))
  BY ClosedIs
<1>6. /\ \A c \in More : FilledOK(c, pos, More)
  BY NotedIs
<1>7. /\ Single(More) /\ \A x : HasAll(filled, x) => HasAll(More, x)
      /\ \A x : Holds(More, x) <=> Holds(filled, x) \/ x = a
  BY MoreFilled
<1>8. /\ t \in Seq(Frames) /\ Len(t) = j /\ t # <<>>
      /\ t[1].at = s[1].at /\ t[1].live = s[1].live /\ t[1].taken = Append(s[1].taken, a)
      /\ \A i \in 2 .. j : t[i] = s[i]
  <2>1. s \in Seq(Frames) /\ s # <<>> /\ a \in Nat /\ Len(s) = j
    BY <1>1, <1>3, Zenon
  <2> HIDE DEF j, a
  <2>2. /\ t \in Seq(Frames) /\ Len(t) = Len(s) /\ t # <<>>
        /\ t[1].at = s[1].at /\ t[1].live = s[1].live /\ t[1].taken = Append(s[1].taken, a)
        /\ \A i \in 2 .. Len(t) : t[i] = s[i]
    BY <2>1, TookIs, Zenon
  <2> HIDE DEF t
  <2> QED
    BY <2>1, <2>2, Zenon
<1>9. \A n \in 1 .. j : On(s, n) = On(stack, n)
  BY <1>1, <1>2, OnTail DEF s
<1> HIDE DEF t, j, k
<1>10. On(s, j) = s[1] /\ On(t, j) = t[1]
  BY <1>3, <1>8, OnIs
<1>11. \A n \in 1 .. j : n # j => On(t, n) = On(s, n)
  <2>1. \A n \in 1 .. j : n # j => n < j
    BY <1>4
  <2> QED
    BY <1>3, <1>8, <2>1, OnRest
<1>12. \A n \in 1 .. j : On(t, n).at = On(stack, n).at
  BY <1>8, <1>9, <1>10, <1>11
<1>13. \A n \in 1 .. k : LevelOK(stack, n, pos, filled)
  BY <1>1 DEF Kept, k
<1>14. Opened[a] = Nest(k)
  BY <1>1 DEF Stands
<1> HIDE DEF a
(* The other containers are not noted by that.                             *)
<1>15. ASSUME NEW n \in 1 .. j
       PROVE  /\ n \in 1 .. k /\ n # k /\ On(stack, n).live /\ Inside(On(stack, n).at, pos)
              /\ Has(On(stack, n), filled) /\ Has(On(stack, n), More)
  <2>1. n \in 1 .. k /\ n # k
    BY <1>4
  <2>2. n \in 1 .. (Len(type) - 1) /\ On(stack, n).live
    BY <1>1, <2>1, Outer DEF k
  <2>3. LevelOK(stack, n, pos, filled)
    BY <1>13, <2>1
  <2>4. Inside(On(stack, n).at, pos) /\ Has(On(stack, n), filled) /\ Opened[On(stack, n).at] = Nest(n)
    BY <2>2, <2>3 DEF LevelOK, Within, Stands
  <2>5. Nest(n) # Nest(k)
    <3>1. n \in 0 .. (Len(type) - 1) /\ k \in 0 .. (Len(type) - 1)
      BY <1>1, <2>2, LevelIs
    <3>2. Len(Nest(n)) = n /\ Len(Nest(k)) = k
      BY <1>1, <3>1, NestIs
    <3> QED
      BY <2>1, <3>2
  <2>6. On(stack, n).at # a
    BY <1>14, <2>4, <2>5
  <2>7. Has(On(stack, n), More)
    BY <1>7, <2>4, <2>6, Zenon DEF Has
  <2> QED
    BY <2>1, <2>2, <2>4, <2>7
<1>16. LevelOK(t, j, pos, More)
  <2>1. LevelOK(stack, j, pos, filled) /\ On(stack, j) = s[1] /\ On(stack, j + 1) = stack[1] /\ j \in 1 .. j
    BY <1>1, <1>4, <1>9, <1>10, <1>13
  <2>2. Reach(stack, j, pos) = a
    BY <1>4, <2>1 DEF Reach, k, a
  <2>3. Stands(s[1], j, a)
    BY <2>1, <2>2 DEF LevelOK
  <2>4. Passed(stack, j)
    BY <1>4, <2>1 DEF LevelOK, k
  <2>5. Takes(s) /\ a \in Parts(s[1].at)
    BY <1>3, <2>1, <2>4, Zenon DEF Passed, Takes, a
  <2>6. s[1].live /\ Inside(s[1].at, pos) /\ Has(s[1], More)
    BY <1>15, <2>1
  <2>7. Holds(More, a)
    BY <1>7
  <2>8. \A x \in Parts(s[1].at) : a < x => ~ (x < pos)
    <3> SUFFICES ASSUME NEW x \in Parts(s[1].at), a < x, x < pos PROVE FALSE
      OBVIOUS
    <3>1. x \in Tokens /\ x \in Nat /\ Behind(x) = Opened[s[1].at]
      BY <1>1, PartIs
    <3>2. Opened[Before(x)] = Nest(j)
      BY <2>3, <3>1 DEF Stands, Behind
    <3>3. pos \in 0 .. EndOfText /\ x \in 0 .. EndOfText /\ a \in Nat /\ Tokens \subseteq Nat
      BY <1>1, <3>1, TextFacts
    <3>4. x <= Before(pos)
      BY <1>1, <3>1, <3>3, BeforeIs
    <3>5. Before(x) # 0 => Before(x) \in Tokens /\ Before(x) < x
      BY <1>1, <3>3, BeforeIs
    <3>6. a <= Before(x) /\ Before(x) \in 0 .. Len(text)
      BY <1>1, <3>3, BeforeIs
    <3>7. a # 0
      BY <1>1, TextFacts
    <3> DEFINE b == Before(x)
               c == Before(pos)
    <3>8. b \in Nat /\ c \in Nat /\ a <= b /\ x <= c /\ (b # 0 => b < x)
      <4>1. b \in 0 .. Len(text) /\ c \in Tokens /\ c \in Nat
        BY <1>5, <3>3, <3>6
      <4>2. b \in Nat
        <5> HIDE DEF b
        <5> QED
          BY <4>1
      <4> QED
        BY <3>4, <3>5, <3>6, <4>1, <4>2, Zenon
    <3> HIDE DEF b, c
    <3>9. b # 0 /\ b < c
      BY <1>1, <3>1, <3>7, <3>8
    <3>10. b \in Tokens
      BY <3>5, <3>9 DEF b
    <3>11. Len(Opened[a]) <= Len(Opened[b])
      BY <1>5, <3>8, <3>9, <3>10 DEF Inside, c
    <3>12. Len(Opened[a]) = k /\ Len(Opened[b]) = j
      <4>1. k \in 0 .. (Len(type) - 1) /\ j \in 0 .. (Len(type) - 1)
        BY <1>1, <1>4
      <4> QED
        BY <1>1, <1>14, <3>2, <4>1, NestIs DEF b
    <3>13. k <= j
      BY <3>11, <3>12
    <3> QED
      BY <1>4, <3>13
  <2>9. pos \in Nat
    BY <1>1, TextFacts
  <2>10. j < Len(type)
    BY <1>1, <1>4
  <2> QED
    BY <1>1, <1>3, <2>3, <2>5, <2>6, <2>7, <2>8, <2>9, <2>10, TopTakes DEF t
<1>17. ASSUME NEW n \in 1 .. j, n # j PROVE LevelOK(t, n, pos, More)
  <2>1. n \in 1 .. k /\ n # k /\ On(stack, n).live /\ (Has(On(stack, n), filled) => Has(On(stack, n), More))
        /\ LevelOK(stack, n, pos, filled)
    BY <1>13, <1>15
  <2>2. n + 1 \in 1 .. j
    BY <1>4, <1>17
  <2>3. On(t, n) = On(stack, n) /\ On(t, n + 1).at = On(stack, n + 1).at
    BY <1>9, <1>11, <1>12, <1>17, <2>2
  <2> QED
    BY <1>2, <1>8, <1>17, <2>1, <2>3, LevelKept DEF k
<1>18. \A n \in 1 .. Len(t) : LevelOK(t, n, pos, More)
  BY <1>8, <1>16, <1>17
<1>19. Seen(pos, t, More)
  <2> SUFFICES ASSUME NEW v \in AllValues, v < pos, text[v] \in Left
               PROVE  Holds(More, v) \/ \E n \in 1 .. Len(t) : On(t, n).at = v
    BY DEF Seen
  <2>1. Holds(filled, v) \/ \E n \in 1 .. k : On(stack, n).at = v
    BY <1>1 DEF Kept, Seen, k
  <2>2. \A n \in 1 .. k : n \in 1 .. j \/ n = k
    BY <1>4
  <2>3. On(stack, k).at = a
    BY <1>1 DEF a
  <2> QED
    BY <1>7, <1>8, <1>12, <2>1, <2>2, <2>3
<1> QED
  BY <1>6, <1>7, <1>18, <1>19, Zenon DEF Kept, t, s, a

(* The outermost container is complete.                                    *)
LEMMA Finishes ==
  ASSUME Setting, Suited, Now, phase = "fill", Len(stack) = 1,
         Lists(stack[1].taken, Parts(stack[1].at), Mine.limit), Roomy(Opened, Trim(1)) => pos = Trim(Final + 1)
  PROVE  Finished(pos, More)
<1> DEFINE a == stack[1].at
<1>1. /\ Kept(pos, stack, filled) /\ On(stack, Len(stack)) = stack[1] /\ Stands(stack[1], Len(stack), pos)
      /\ Has(stack[1], filled) /\ LimitAt(Opened, a) = Mine.limit /\ TextOK
  BY TopIs
<1>2. a = Trim(1)
  BY <1>1, Zenon DEF Stands
<1>3. /\ Entry \in More /\ Entry.at = a /\ Entry.taken = stack[1].taken
      /\ Single(More) /\ \A t : HasAll(filled, t) => HasAll(More, t)
      /\ \A x : Holds(More, x) <=> Holds(filled, x) \/ x = a
      /\ \A c \in filled : FilledOK(c, pos, More)
  BY MoreFilled
<1>4. \A c \in filled : Lists(c.taken, Parts(c.at), LimitAt(Opened, c.at)) /\ HasAll(More, c.taken) /\ Roomy(Opened, c.at)
  BY <1>3, ListedLists DEF FilledOK
<1>5. Lists(Entry.taken, Parts(Entry.at), LimitAt(Opened, Entry.at)) /\ HasAll(More, Entry.taken)
  BY <1>1, <1>3, Zenon DEF Has
<1>6. AllIn(More)
  BY <1>2, <1>3, <1>4, <1>5 DEF AllIn, More
<1>7. ASSUME NEW q \in AllValues, q < pos, q # Trim(1) PROVE Roomy(Opened, q)
  <2>1. CASE text[q] \in Left
    <3>1. Holds(filled, q) \/ \E n \in 1 .. 1 : On(stack, n).at = q
      BY <1>1, <1>7, <2>1 DEF Kept, Seen
    <3>2. \A n \in 1 .. 1 : n = 1
      OBVIOUS
    <3>3. On(stack, 1).at = a
      BY <1>1
    <3>4. Holds(filled, q)
      BY <1>2, <1>7, <3>1, <3>2, <3>3
    <3> QED
      BY <1>4, <3>4 DEF Holds
  <2>2. CASE text[q] \notin Left
    BY <2>2 DEF Roomy
  <2> QED
    BY <2>1, <2>2
<1> QED
  BY <1>6, <1>7 DEF Finished

(* Behind the last token there are only spaces.                            *)
LEMMA BehindFinal ==
  ASSUME TextOK, Suited, NEW p \in 1 .. EndOfText, Trim(p) = p, Before(p) = Final
  PROVE  p = Trim(Final + 1)
<1> DEFINE f == Final
           u == Trim(f + 1)
<1>1. f \in Tokens /\ f \in Nat
  BY LastIs, TextFacts
<1>2. f + 1 \in 1 .. EndOfText /\ \A x \in Tokens : x < f + 1 <=> x < f \/ x = f
  BY <1>1, BeforeNext
<1>3. u \in (f + 1) .. EndOfText /\ (u # EndOfText => u \in Tokens) /\ \A x \in Tokens : x < u <=> x < f + 1
  BY <1>2, TrimIs
<1>4. (p # EndOfText => p \in Tokens) /\ EndOfText \in Nat
  BY TrimIs, TextFacts
<1>5. \A x \in Tokens : x < p => x <= f
  <2>1. p \in 0 .. EndOfText
    BY <1>4
  <2> QED
    BY <2>1, BeforeIs
<1>6. f < p
  <2>1. p \in 0 .. EndOfText
    BY <1>4
  <2>2. f # 0
    BY <1>1, TextFacts
  <2> QED
    BY <2>1, <2>2, BeforeIs
<1> HIDE DEF u, f
<1>7. ~ (u < p)
  <2> SUFFICES ASSUME u < p PROVE FALSE
    OBVIOUS
  <2>1. u \in Tokens /\ u \in Nat
    BY <1>1, <1>3, <1>4
  <2>2. u <= f
    BY <1>5, <2>1
  <2> QED
    BY <1>1, <1>3, <2>1, <2>2
<1>8. ~ (p < u)
  <2> SUFFICES ASSUME p < u PROVE FALSE
    OBVIOUS
  <2>1. p \in Tokens
    BY <1>1, <1>3, <1>4
  <2>2. p < f \/ p = f
    BY <1>2, <1>3, <2>1
  <2> QED
    BY <1>1, <1>6, <2>2
<1>9. p = u
  BY <1>1, <1>3, <1>4, <1>7, <1>8
<1> QED
  BY <1>9 DEF u, f

(* A container that has been left is taken by the one around it, or the    *)
(* outermost one is finished.                                              *)
LEMMA ClosedExact ==
  ASSUME Setting, Suited, Now, Complete, ~ stack[1].live
  PROVE  Then \/ (phase' = "done" /\ Finished(pos', filled'))
<1> DEFINE k == Len(stack)
           a == stack[1].at
           s == Tail(stack)
<1>1. phase = "fill" /\ pos' = pos /\ filled' = More /\ HandedOver(a, s) /\ stack # <<>>
  BY CompleteStep DEF More, Entry
<1>2. /\ k \in Nat /\ Stacked(stack) /\ TextOK /\ IsType(type) /\ pos \in 1 .. EndOfText /\ Ready(pos, stack, "fill")
  BY <1>1, TopIs
<1>3. /\ Before(pos) \in Tokens /\ Before(pos) <= Final
      /\ Opened[Before(pos)] = Nest(k - 1) /\ Trim(pos) = pos
      /\ Listed(stack[1].taken, Parts(a))
  BY <1>1, ClosedIs
<1>4. Tracked
  BY <1>1, NowTracked DEF Active
<1>5. TrackedNext
  BY <1>4, CompleteTracked
<1>6. s = <<>> <=> k = 1
  BY <1>1, <1>2, TailIs DEF Stacked
<1> HIDE DEF k, s
<1>7. CASE s = <<>>
  <2>1. k = 1 /\ k - 1 = 0
    BY <1>2, <1>6, <1>7
  <2>2. Opened[Before(pos)] = <<>>
    <3>1. 0 \in 0 .. (Len(type) - 1)
      BY <1>2, TypeFacts
    <3> QED
      BY <1>2, <1>3, <2>1, <3>1, NestIs
  <2>3. Before(pos) = Final
    <3> DEFINE b == Before(pos)
               f == Final
    <3>1. b \in Nat /\ f \in Nat /\ f <= b /\ b <= f
      BY <1>2, <1>3, <2>2, LastIs, TextFacts
    <3> HIDE DEF b, f
    <3>2. b = f
      BY <3>1
    <3> QED
      BY <3>2 DEF b, f
  <2>4. pos = Trim(Final + 1)
    BY <1>2, <1>3, <2>3, BehindFinal
  <2>5. Lists(stack[1].taken, Parts(a), Mine.limit)
    BY <1>3, ListedLists
  <2>6. Finished(pos, More)
    BY <1>1, <2>1, <2>4, <2>5, Finishes DEF k
  <2> QED
    BY <1>1, <1>7, <2>6 DEF HandedOver
<1>8. CASE s # <<>>
  <2>1. stack' = Took(s, a) /\ phase' = "step"
    BY <1>1, <1>8, Zenon DEF HandedOver
  <2>2. Kept(pos, Took(s, a), More)
    BY <1>1, <1>8, OwnerTakes DEF s
  <2>3. OnTrack(pos', stack', phase')
    BY <1>5, <2>1 DEF TrackedNext, Active
  <2>4. Ready(pos, Took(s, a), "step")
    BY <1>3 DEF Ready
  <2> QED
    BY <1>1, <2>1, <2>2, <2>3, <2>4, Zenon DEF Then, Exact, Active
<1> QED
  BY <1>7, <1>8

(* The cursor is at an element for which there is no room.                 *)
LEMMA ShortIs ==
  ASSUME Setting, Suited, Now, phase = "fill", stack[1].live, Len(stack[1].taken) = Mine.limit
  PROVE  /\ pos \in AllValues /\ Around(Opened, pos) = "[" /\ Excused /\ ~ Roomy(Opened, stack[1].at)
         /\ Lists(stack[1].taken, Parts(stack[1].at), Mine.limit)
<1> DEFINE k == Len(stack)
           a == stack[1].at
           taken == stack[1].taken
           limit == Mine.limit
<1>1. /\ k \in 1 .. (Len(type) - 1) /\ TextOK /\ IsType(type) /\ Mine = type[k] /\ pos \in 1 .. EndOfText
      /\ taken \in Seq(Nat) /\ Ready(pos, stack, "fill") /\ OnTrack(pos, stack, "fill")
      /\ Stands(stack[1], k, pos) /\ Within(stack[1], pos) /\ stack # <<>> /\ Stacked(stack)
      /\ a \in AllValues /\ a \in Tokens /\ a \in Nat /\ a < pos /\ LimitAt(Opened, a) = limit
  BY TopIs
<1>2. Len(taken) \in Nat /\ limit \in Nat /\ limit # Unlimited
  <2>1. Len(taken) \in Nat
    BY <1>1
  <2>2. limit \in Nat
    BY <2>1
  <2> QED
    BY <2>1, <2>2 DEF Unlimited
<1>3. Mine.kind # "map"
  <2>1. k \in 1 .. Len(type)
    BY <1>1, LevelIs
  <2>2. type[k].kind = "map" => type[k].limit = Unlimited
    BY <1>1, <2>1, TypeFacts
  <2> QED
    BY <1>1, <1>2, <2>2
<1>4. pos \in Tokens /\ pos <= Final /\ IsValue(Opened, pos)
  <2>1. pos \in Tokens /\ pos <= Final /\ Expected(k, pos)
    BY <1>1, Zenon DEF Ready
  <2> QED
    BY <1>1, <1>3, <2>1, Zenon DEF Expected
<1>5. Behind(pos) = Nest(k)
  <2>1. Live(stack) = k
    BY <1>1, LiveAll DEF Stacked
  <2> QED
    BY <1>1, <2>1 DEF OnTrack
<1>6. Around(Opened, pos) = "["
  BY <1>1, <1>3, <1>5, AroundNest
<1>7. pos \in Parts(a)
  <2>1. Opened[a] = Nest(k) /\ Inside(a, pos)
    BY <1>1 DEF Stands, Within
  <2> QED
    BY <1>1, <1>4, <1>5, <2>1, PartHere
<1>8. Listed(taken, Below(a, pos)) /\ text[a] \in Left
  BY <1>1, Zenon DEF Stands
<1>9. \A i \in DOMAIN taken : taken[i] \in Parts(a) /\ taken[i] < pos /\ taken[i] \in Nat
  BY <1>1, <1>8 DEF Listed, Below
<1>10. pos \in Nat /\ \A x \in Parts(a) : x \in Nat
  BY <1>1, PartIs, TextFacts
<1> HIDE DEF k, a, taken, limit
<1>11. Lists(taken, Parts(a), limit)
  <2>1. \A i, j \in DOMAIN taken : i < j => taken[i] < taken[j]
    BY <1>8 DEF Listed
  <2>2. Len(taken) = limit
    BY DEF taken, limit
  <2>3. ASSUME NEW x \in Parts(a)
        PROVE  (\E i \in DOMAIN taken : taken[i] = x) \/ (Len(taken) = limit /\ \A i \in DOMAIN taken : taken[i] < x)
    <3>1. CASE x < pos
      <4>1. x \in Below(a, pos)
        BY <3>1 DEF Below
      <4> QED
        BY <1>8, <4>1 DEF Listed
    <3>2. CASE ~ (x < pos)
      <4>1. \A m \in Nat : m < pos => m < x
        BY <1>10, <3>2
      <4> QED
        BY <1>9, <2>2, <4>1
    <3> QED
      BY <3>1, <3>2
  <2> QED
    BY <1>9, <2>1, <2>3, Zenon DEF Lists
<1>12. IsFiniteSet(Parts(a)) /\ Cardinality(Parts(a)) \in Nat
  <2>1. IsFiniteSet(1 .. Len(text))
    <3>1. 1 \in Int /\ Len(text) \in Int
      BY <1>1, TextFacts
    <3> QED
      BY <3>1, FS_Interval
  <2>2. Parts(a) \subseteq 1 .. Len(text)
    <3>1. \A x \in Parts(a) : x \in 1 .. Len(text)
      BY <1>1, PartIs, TextFacts
    <3> QED
      BY <3>1
  <2>3. IsFiniteSet(Parts(a))
    BY <2>1, <2>2, FS_Subset
  <2> QED
    BY <2>3, FS_CardinalityType
<1>13. Cardinality(Parts(a)) > limit
  <2>1. IsFiniteSet(Below(a, pos)) /\ Cardinality(Below(a, pos)) = limit
    BY <1>1, <1>8, ListedCount DEF taken, limit
  <2>2. pos \notin Below(a, pos)
    BY <1>10 DEF Below
  <2>3. Cardinality(Below(a, pos) \cup {pos}) = limit + 1
    BY <2>1, <2>2, FS_AddElement
  <2>4. Below(a, pos) \cup {pos} \subseteq Parts(a)
    BY <1>7 DEF Below
  <2>5. Cardinality(Below(a, pos) \cup {pos}) <= Cardinality(Parts(a))
    BY <1>12, <2>4, FS_Subset
  <2> DEFINE x == Cardinality(Below(a, pos) \cup {pos})
             y == Cardinality(Parts(a))
  <2>6. x = limit + 1 /\ x <= y /\ y \in Nat
    BY <1>12, <2>3, <2>5
  <2> HIDE DEF x, y
  <2>7. y > limit
    BY <1>2, <2>6
  <2> QED
    BY <2>7 DEF y
<1>14. ~ Roomy(Opened, a)
  <2>1. ~ (Cardinality(Parts(a)) <= limit)
    BY <1>2, <1>12, <1>13
  <2> QED
    BY <1>1, <1>2, <1>8, <2>1, Zenon DEF Roomy, Parts, a, limit
<1>15. Excused
  BY <1>1, <1>14 DEF Excused, Excuse, a
<1>16. pos \in AllValues
  BY <1>1, <1>4, IsAValue
<1> QED
  BY <1>6, <1>11, <1>14, <1>15, <1>16 DEF a, taken, limit

(* So it is when a container is short of room, but then the cursor has not *)
(* left it.                                                                *)
LEMMA CompleteExact ==
  ASSUME Setting, Suited, Now, Complete
  PROVE  Then \/ Astray(pos', stack', phase') \/ (phase' = "done" /\ Finished(pos', filled'))
<1>1. /\ phase = "fill" /\ pos' = pos /\ filled' = More /\ HandedOver(stack[1].at, Tail(stack)) /\ stack # <<>>
      /\ ~ stack[1].live \/ Len(stack[1].taken) = Mine.limit
  BY CompleteStep DEF More, Entry
<1>2. CASE ~ stack[1].live
  BY <1>2, ClosedExact
<1>3. CASE stack[1].live /\ Len(stack[1].taken) = Mine.limit
  <2>1. /\ pos \in AllValues /\ Around(Opened, pos) = "[" /\ Excused /\ ~ Roomy(Opened, stack[1].at)
        /\ Lists(stack[1].taken, Parts(stack[1].at), Mine.limit)
    BY <1>1, <1>3, ShortIs
  <2>2. Len(stack) \in Nat /\ stack \in Seq(Frames) /\ Stands(stack[1], Len(stack), pos)
    BY <1>1, TopIs DEF Stacked
  <2>3. CASE Tail(stack) = <<>>
    <3>1. Len(stack) = 1
      BY <1>1, <2>2, <2>3, TailIs
    <3>2. stack[1].at = Trim(1)
      BY <2>2, <3>1, Zenon DEF Stands
    <3>3. Finished(pos, More)
      BY <1>1, <2>1, <3>1, <3>2, Finishes
    <3> QED
      BY <1>1, <2>3, <3>3 DEF HandedOver
  <2>4. CASE Tail(stack) # <<>>
    <3>1. phase' = "step"
      BY <1>1, <2>4, Zenon DEF HandedOver
    <3> QED
      BY <1>1, <2>1, <3>1, Zenon DEF Astray
  <2> QED
    BY <2>3, <2>4
<1> QED
  BY <1>1, <1>2, <1>3

(* The cursor stays at the element until the text is refused.              *)
LEMMA AstrayStep ==
  ASSUME Setting, Suited, Astray(pos, stack, phase), Next
  PROVE  Excused /\ (phase' = "failed" \/ (Active(phase') /\ Astray(pos', stack', phase')))
<1>1. /\ pos \in AllValues /\ Around(Opened, pos) = "[" /\ Excused
      /\ phase = "step" \/ (phase = "fill" /\ type[Len(stack)].kind = "map" /\ stack[1].live)
  BY DEF Astray
<1>2. phase # "value" /\ stack # <<>> /\ (phase = "step" => phase # "fill")
  BY <1>1 DEF Setting, Shape
<1>3. /\ Stacked(stack) /\ Len(stack) \in 1 .. (Len(type) - 1) /\ Mine = type[Len(stack)]
      /\ pos \in 1 .. EndOfText /\ TextOK /\ IsType(type) /\ stack \in Seq(Frames) /\ Len(stack) \in 1 .. Len(type)
  BY <1>2, StackedIs DEF Stacked
<1>4. pos \in Tokens /\ pos <= Final /\ IsValue(Opened, pos)
  BY <1>1, <1>3, ValueIs
<1>5. text[pos] \in Starts /\ At(text, pos) = text[pos]
  BY <1>3, <1>4, TextFacts DEF IsValue
<1>6. At(text, pos) \notin {",", "]", "}", ":"}
  BY <1>5 DEF Starts
<1>7. \/ StepArray \/ StepMap
      \/ phase = "fill" /\ (Dereference \/ DereferenceKey \/ Complete)
  BY <1>2, Zenon DEF Next, ParseScalar, EnterArray, EnterMap, EnterPairs, Dereference, DereferenceKey, Complete
<1>8. CASE StepArray \/ StepMap
  <2>1. Trim(pos) = pos
    BY <1>3, <1>4, TrimIs
  <2>2. BehindComma(pos) = pos /\ ~ AtNextElement(pos)
    BY <1>6 DEF BehindComma, AtNextElement
  <2>3. Fail \/ (Iterated(pos) /\ Mine.kind = "map")
    BY <1>8, <2>1, <2>2, IterateStep
  <2>4. CASE Fail
    BY <1>1, <2>4 DEF Fail
  <2>5. CASE Iterated(pos) /\ Mine.kind = "map"
    <3>1. PICK live \in BOOLEAN : Comes(pos, Mine, pos', live) /\ stack' = Became(stack, live)
      BY <2>5, Zenon DEF Iterated
    <3>2. At(text, pos) # ClosingOf(Mine)
      BY <1>6 DEF ClosingOf
    <3>3. live = TRUE /\ pos' = pos
      BY <1>5, <3>1, <3>2, Zenon DEF Comes
    <3>4. IsBecome(Became(stack, TRUE), stack, TRUE)
      BY <1>2, <1>3, BecameIs
    <3>5. Len(stack') = Len(stack) /\ stack'[1].live
      BY <3>1, <3>3, <3>4 DEF IsBecome
    <3>6. phase' = "fill"
      BY <2>5, Zenon DEF Iterated
    <3>7. type[Len(stack')].kind = "map"
      BY <1>3, <2>5, <3>5
    <3> QED
      BY <1>1, <3>3, <3>5, <3>6, <3>7, Zenon DEF Astray, Active
  <2> QED
    BY <2>3, <2>4, <2>5
<1>9. CASE phase = "fill" /\ (Dereference \/ DereferenceKey \/ Complete)
  <2>1. Mine.kind = "map" /\ stack[1].live
    BY <1>1, <1>3, <1>9
  <2>2. CASE Dereference
    BY <2>1, <2>2, DereferenceStep
  <2>3. CASE DereferenceKey
    <3>1. ~ KeyRead
      <4> SUFFICES ASSUME KeyRead PROVE FALSE
        OBVIOUS
      <4> DEFINE t == Trim(pos + 1)
      <4>1. text[pos] = "s" /\ text[t] = ":"
        BY DEF KeyRead
      <4>2. Opened[pos] = Behind(pos)
        <5>1. "s" \notin Left /\ "s" \notin Right
          BY DEF Left, Right
        <5> QED
          BY <1>3, <1>4, <4>1, <5>1, PassIs
      <4>3. Behind(pos) # <<>>
        BY <1>1 DEF Around, Behind
      <4>4. pos < Final
        <5>1. pos # Final
          BY <1>3, <4>2, <4>3, LastIs
        <5>2. pos \in Nat /\ Final \in Nat
          BY <1>3, LastIs, TextFacts
        <5> QED
          BY <1>4, <5>1, <5>2
      <4>5. pos + 1 \in 1 .. EndOfText /\ Before(pos + 1) = pos
        BY <1>3, <1>4, BeforeNext
      <4>6. IsNext(t, pos + 1)
        BY <1>3, <4>4, <4>5, TokenNext
      <4> HIDE DEF t
      <4>7. Before(t) = pos /\ Placed(Opened, t, FALSE)
        BY <4>5, <4>6, Zenon DEF IsNext
      <4>8. ~ IsValue(Opened, t) /\ ~ IsKey(Opened, t) /\ ~ IsKey(Opened, pos)
        BY <1>1, <4>1 DEF IsValue, IsKey, Starts
      <4> QED
        BY <4>1, <4>7, <4>8 DEF Placed
    <3>2. Fail
      BY <2>3, <3>1, KeyStep
    <3> QED
      BY <1>1, <3>2 DEF Fail
  <2>4. CASE Complete
    <3>1. Len(stack[1].taken) = Mine.limit
      BY <2>1, <2>4, CompleteStep
    <3>2. Mine.limit = Unlimited
      BY <1>3, <2>1, TypeFacts
    <3>3. Len(stack[1].taken) \in Nat
      <4>1. 1 \in 1 .. Len(stack)
        BY <1>2, <1>3
      <4>2. stack[1].taken \in Seq(Nat)
        BY <1>3, <4>1, FrameIs
      <4> QED
        BY <4>2
    <3>4. Unlimited \notin Nat
      BY DEF Unlimited
    <3> QED
      BY <3>1, <3>2, <3>3, <3>4
  <2> QED
    BY <1>9, <2>2, <2>3, <2>4
<1> QED
  BY <1>7, <1>8, <1>9

(* No pair begins with a space: the text is refused.                       *)
LEMMA SpacedStep ==
  ASSUME Setting, Suited, Spaced(pos, stack, phase), Next
  PROVE  Excused /\ (phase' = "failed" \/ (Active(phase') /\ Spaced(pos', stack', phase')))
<1>1. /\ phase = "fill" \/ phase = "value"
      /\ stack # <<>> /\ type[Len(stack)].kind = "pairs"
      /\ At(text, pos) \in Space /\ stack[1].live /\ stack[1].taken = <<>> /\ Excused
  BY DEF Spaced
<1>2. /\ Stacked(stack) /\ Len(stack) \in 1 .. (Len(type) - 1) /\ Mine = type[Len(stack)]
      /\ pos \in 1 .. EndOfText /\ TextOK /\ IsType(type) /\ Len(stack) \in 1 .. Len(type)
  BY <1>1, StackedIs
<1>3. Mine.kind = "pairs" /\ Mine.limit # 0 /\ Len(stack) + 1 \in 1 .. Len(type) /\ Want.kind = "pair"
  BY <1>1, <1>2, TypeFacts DEF Want
<1>4. \/ phase = "value" /\ (ParseScalar \/ EnterArray \/ EnterMap \/ EnterPairs)
      \/ phase = "fill" /\ (Dereference \/ DereferenceKey \/ Complete)
  <2>1. phase # "step"
    BY <1>1
  <2> QED
    BY <2>1, Zenon DEF Next, ParseScalar, EnterArray, EnterMap, EnterPairs, Dereference, DereferenceKey, Complete,
                       StepArray, StepMap
<1>5. CASE EnterArray \/ EnterMap \/ EnterPairs
  BY <1>3, <1>5 DEF EnterArray, EnterMap, EnterPairs
<1>6. CASE ParseScalar
  <2>1. pos \notin Tokens
    BY <1>1, <1>2, TextFacts DEF Tokens
  <2>2. Fail
    BY <1>6, <2>1, ScalarStep
  <2> QED
    BY <1>1, <2>2 DEF Fail
<1>7. CASE Dereference
  <2>1. Fail \/ (phase' = "value" /\ pos' = pos /\ stack' = stack)
    BY <1>7, DereferenceStep
  <2> QED
    BY <1>1, <2>1 DEF Fail, Spaced, Active
<1>8. CASE DereferenceKey
  BY <1>3, <1>8 DEF DereferenceKey
<1>9. CASE Complete
  <2>1. Len(stack[1].taken) = Mine.limit
    BY <1>1, <1>9, CompleteStep
  <2>2. Len(stack[1].taken) = 0
    BY <1>1
  <2> QED
    BY <1>3, <2>1, <2>2
<1> QED
  BY <1>4, <1>5, <1>6, <1>7, <1>8, <1>9

(* What is said of places stays as long as text and type do.               *)
LEMMA PlacesKept ==
  ASSUME Setup, NEW p
  PROVE  /\ text' = text /\ type' = type /\ Opened' = Opened /\ Tokens' = Tokens /\ Before(p)' = Before(p)
         /\ Behind(p)' = Behind(p) /\ LastAt(p)' = LastAt(p) /\ Trim(p)' = Trim(p) /\ At(text, p)' = At(text, p)
         /\ Depth(Opened, p)' = Depth(Opened, p) /\ LimitAt(Opened, p)' = LimitAt(Opened, p)
         /\ Nest(p)' = Nest(p)
<1>1. text' = text /\ type' = type /\ Opened' = Opened /\ Tokens' = Tokens /\ EndOfText' = EndOfText /\ Before(p)' = Before(p)
  BY OpenedKept, BeforeKept DEF Setup
<1>2. Behind(p)' = Behind(p) /\ LastAt(p)' = LastAt(p)
  BY <1>1, Zenon DEF Behind, LastAt
<1>3. At(text, p)' = At(text, p)
  BY <1>1 DEF At, NUL
<1>4. Trim(p)' = Trim(p)
  BY <1>1 DEF Trim, At, NUL, Space
<1>5. Depth(Opened, p)' = Depth(Opened, p)
  BY <1>1, Zenon DEF Depth
<1>6. LimitAt(Opened, p)' = LimitAt(Opened, p)
  BY <1>1, <1>5, Zenon DEF LimitAt
<1>7. Nest(p)' = Nest(p)
  BY <1>1 DEF Nest, Opener, Containers, Token
<1> QED
  BY <1>1, <1>2, <1>3, <1>4, <1>5, <1>6, <1>7

(* The elements of a container stay as long as text and type do.           *)
LEMMA PartsKept ==
  ASSUME Setup, NEW p, NEW x
  PROVE  /\ Parts(p)' = Parts(p) /\ Below(p, x)' = Below(p, x) /\ (Inside(p, x)' <=> Inside(p, x))
         /\ Roomy(Opened, p)' <=> Roomy(Opened, p)
<1>1. Opened' = Opened /\ Tokens' = Tokens /\ text' = text /\ LimitAt(Opened, p)' = LimitAt(Opened, p)
  BY PlacesKept
<1>2. \A q : Before(q)' = Before(q) /\ (IsValue(Opened, q)' <=> IsValue(Opened, q))
  BY BeforeKept, KindsKept
<1>3. Elements(Opened, p)' = Elements(Opened, p)
  BY <1>1, <1>2 DEF Elements
<1>4. Parts(p)' = Parts(p)
  BY <1>3 DEF Parts
<1>5. Below(p, x)' = Below(p, x)
  BY <1>4 DEF Below
<1>6. Inside(p, x)' <=> Inside(p, x)
  BY <1>1 DEF Inside
<1>7. Roomy(Opened, p)' <=> Roomy(Opened, p)
  BY <1>1, <1>3, Zenon DEF Roomy, Left, Unlimited
<1> QED
  BY <1>4, <1>5, <1>6, <1>7

(* A text remains JSON of the type.                                        *)
LEMMA SuitedKept ==
  ASSUME Setup
  PROVE  Final' = Final /\ AllValues' = AllValues /\ (Suited' <=> Suited)
<1>1. Opened' = Opened /\ Tokens' = Tokens /\ text' = text /\ type' = type
      /\ Trim(1)' = Trim(1) /\ At(text, Trim(1))' = At(text, Trim(1))
  <2>1. Opened' = Opened /\ Tokens' = Tokens /\ text' = text /\ type' = type /\ Trim(1)' = Trim(1)
    BY PlacesKept
  <2>2. At(text, Trim(1))' = At(text, Trim(1))
    BY <2>1 DEF At, NUL
  <2> QED
    BY <2>1, <2>2
<1>2. \A q : /\ IsValue(Opened, q)' <=> IsValue(Opened, q)
             /\ Placed(Opened, q, FALSE)' <=> Placed(Opened, q, FALSE)
             /\ Depth(Opened, q)' = Depth(Opened, q)
  BY KindsKept, PlacedKept, PlacesKept
<1>3. End(Opened)' = End(Opened)
  BY <1>1 DEF End
<1>4. Values(Opened)' = Values(Opened)
  BY <1>1, <1>2, <1>3 DEF Values
<1>5. Valid(Opened)' <=> Valid(Opened)
  BY <1>1, <1>2, <1>3, Zenon DEF Valid, Left
<1>6. OfType(Opened)' <=> OfType(Opened)
  <2>1. ASSUME NEW q PROVE Opener(type[Depth(Opened, q)])' = Opener(type[Depth(Opened, q)])
    BY <1>1, <1>2, Zenon DEF Opener, Containers, Token
  <2> QED
    BY <1>1, <1>2, <1>4, <2>1, Zenon DEF OfType
<1> QED
  BY <1>3, <1>4, <1>5, <1>6 DEF Final, AllValues, Suited

(* What is said of the containers stays as long as text and type do.       *)
LEMMA LevelsKept ==
  ASSUME Setup, NEW p, NEW s, NEW m, NEW n, NEW c
  PROVE  /\ HasAll(m, c)' <=> HasAll(m, c)
         /\ LevelOK(s, n, p, m)' <=> LevelOK(s, n, p, m)
         /\ FilledOK(c, p, m)' <=> FilledOK(c, p, m)
         /\ Seen(p, s, m)' <=> Seen(p, s, m)
<1>1. text' = text /\ type' = type /\ AllValues' = AllValues /\ Trim(1)' = Trim(1) /\ Opened' = Opened
  BY SuitedKept, PlacesKept
<1>2. \A f : HasAll(m, f)' <=> HasAll(m, f)
  BY <1>1, Zenon DEF HasAll, Holds, Left
<1>3. ASSUME NEW f, NEW x PROVE Stands(f, n, x)' <=> Stands(f, n, x)
  <2>1. /\ Behind(f.at)' = Behind(f.at) /\ Nest(n)' = Nest(n) /\ Nest(n - 1)' = Nest(n - 1)
        /\ Below(f.at, x)' = Below(f.at, x)
    BY PlacesKept, PartsKept
  <2>2. Listed(f.taken, Below(f.at, x))' <=> Listed(f.taken, Below(f.at, x))
    BY <2>1, Zenon DEF Listed
  <2> QED
    BY <1>1, <2>1, <2>2, Zenon DEF Stands, Left, Unlimited
<1>4. ASSUME NEW f PROVE Within(f, p)' <=> Within(f, p)
  BY PlacesKept, PartsKept, Zenon DEF Within
<1>5. ASSUME NEW f PROVE Has(f, m)' <=> Has(f, m)
  BY <1>2, Zenon DEF Has, Holds
<1>6. Passed(s, n)' <=> Passed(s, n)
  BY <1>1, PartsKept, Zenon DEF Passed, On
<1>7. LevelOK(s, n, p, m)' <=> LevelOK(s, n, p, m)
  BY <1>3, <1>4, <1>5, <1>6, Zenon DEF LevelOK, On, Reach
<1>8. FilledOK(c, p, m)' <=> FilledOK(c, p, m)
  <2>1. Parts(c.at)' = Parts(c.at) /\ (Roomy(Opened, c.at)' <=> Roomy(Opened, c.at))
    BY PartsKept
  <2>2. Listed(c.taken, Parts(c.at))' <=> Listed(c.taken, Parts(c.at))
    BY <2>1, Zenon DEF Listed
  <2> QED
    BY <1>1, <1>2, <2>1, <2>2, Zenon DEF FilledOK, Left
<1>9. Seen(p, s, m)' <=> Seen(p, s, m)
  BY <1>1, Zenon DEF Seen, Holds, On, Left
<1> QED
  BY <1>2, <1>7, <1>8, <1>9, Zenon

(* What is said of the cursor stays as long as text and type do.           *)
LEMMA ExactKept ==
  ASSUME Setup, NEW p, NEW s, NEW ph, NEW m
  PROVE  Exact(p, s, ph, m)' <=> Exact(p, s, ph, m)
<1>1. /\ text' = text /\ type' = type /\ AllValues' = AllValues /\ Final' = Final /\ Tokens' = Tokens
      /\ Before(p)' = Before(p) /\ Behind(p)' = Behind(p) /\ LastAt(p)' = LastAt(p) /\ Trim(p)' = Trim(p)
  BY SuitedKept, PlacesKept
<1>2. \A x : EndsValue(Opened, x)' <=> EndsValue(Opened, x)
  BY KindsKept
<1>3. OnTrack(p, s, ph)' <=> OnTrack(p, s, ph)
  <2>1. Nest(Live(s))' = Nest(Live(s))
    BY <1>1 DEF Nest, Live, Opener, Containers, Token
  <2>2. EndsValue(Opened, Before(p))' <=> EndsValue(Opened, Before(p))
    <3>1. Opened' = Opened /\ Before(Before(p))' = Before(Before(p))
      BY <1>1, OpenedKept DEF Before
    <3>2. Around(Opened, Before(p))' = Around(Opened, Before(p))
      BY <1>1, <3>1, Zenon DEF Around
    <3>3. IsKey(Opened, Before(p))' <=> IsKey(Opened, Before(p))
      BY <1>1, <3>1, <3>2, Zenon DEF IsKey
    <3> QED
      BY <1>1, <3>3, Zenon DEF EndsValue
  <2>3. FollowsValue(s, p)' <=> FollowsValue(s, p)
    BY <1>1, Zenon DEF FollowsValue
  <2>4. FollowsFill(s, p)' <=> FollowsFill(s, p)
    BY <1>1, <2>2, Zenon DEF FollowsFill, Opener, Containers, Token, Right
  <2> QED
    BY <1>1, <2>1, <2>2, <2>3, <2>4, Zenon DEF OnTrack
<1>4. Ready(p, s, ph)' <=> Ready(p, s, ph)
  <2>1. Expected(Len(s), p)' <=> Expected(Len(s), p)
    BY <1>1, KindsKept, Zenon DEF Expected
  <2>2. Takes(s)' <=> Takes(s)
    BY <1>1, Zenon DEF Takes
  <2> QED
    BY <1>1, <2>1, <2>2, Zenon DEF Ready
<1>5. Kept(p, s, m)' <=> Kept(p, s, m)
  <2>1. \A n : LevelOK(s, n, p, m)' <=> LevelOK(s, n, p, m)
    BY LevelsKept
  <2>2. \A c : FilledOK(c, p, m)' <=> FilledOK(c, p, m)
    BY LevelsKept
  <2>3. Seen(p, s, m)' <=> Seen(p, s, m)
    BY LevelsKept
  <2> QED
    BY <2>1, <2>2, <2>3, Zenon DEF Kept, Single
<1> QED
  BY <1>3, <1>4, <1>5, Zenon DEF Exact

(* Where the cursor is while a text of the type is read, and at the end.   *)
Way(p, s, ph, m) ==
  /\ Active(ph) => Exact(p, s, ph, m) \/ Astray(p, s, ph) \/ Spaced(p, s, ph)
  /\ ph = "failed" => Excused
  /\ ph = "done" => Finished(p, m)

(* So does the invariant, for the same cursor, stack, phase and            *)
(* containers.                                                             *)
LEMMA WayKept ==
  ASSUME Setup, NEW p, NEW s, NEW ph, NEW m
  PROVE  Way(p, s, ph, m)' <=> Way(p, s, ph, m)
<1>1. /\ text' = text /\ type' = type /\ AllValues' = AllValues /\ Final' = Final /\ Opened' = Opened
      /\ Trim(1)' = Trim(1) /\ Trim(Final + 1)' = Trim(Final + 1)
  <2>1. text' = text /\ type' = type /\ AllValues' = AllValues /\ Final' = Final /\ Opened' = Opened /\ Trim(1)' = Trim(1)
    BY SuitedKept, PlacesKept
  <2>2. Trim(Final + 1)' = Trim(Final + 1)
    BY <2>1, OpenedKept DEF Trim, At, NUL, Space
  <2> QED
    BY <2>1, <2>2
<1>2. \A q : /\ Roomy(Opened, q)' <=> Roomy(Opened, q)
             /\ Depth(Opened, q)' = Depth(Opened, q) /\ At(text, q + 1)' = At(text, q + 1) /\ At(text, q)' = At(text, q)
  BY PartsKept, PlacesKept
<1>3. Excused' <=> Excused
  <2>1. \A q : Excuse(q)' <=> Excuse(q)
    BY <1>1, <1>2, Zenon DEF Excuse, Space
  <2> QED
    BY <1>1, <2>1, Zenon DEF Excused
<1>4. Astray(p, s, ph)' <=> Astray(p, s, ph)
  BY <1>1, <1>3, KindsKept, Zenon DEF Astray
<1>5. Spaced(p, s, ph)' <=> Spaced(p, s, ph)
  BY <1>1, <1>2, <1>3, Zenon DEF Spaced, Space
<1>6. AllIn(m)' <=> AllIn(m)
  <2>1. \A t : HasAll(m, t)' <=> HasAll(m, t)
    BY LevelsKept
  <2>2. ASSUME NEW c PROVE Lists(c.taken, Parts(c.at), LimitAt(Opened, c.at))' <=> Lists(c.taken, Parts(c.at), LimitAt(Opened, c.at))
    <3>1. Parts(c.at)' = Parts(c.at) /\ LimitAt(Opened, c.at)' = LimitAt(Opened, c.at)
      BY PartsKept, PlacesKept
    <3> QED
      BY <3>1, Zenon DEF Lists
  <2> QED
    BY <1>1, <2>1, <2>2, Zenon DEF AllIn, Holds, Single
<1>7. Roomy(Opened, Trim(1))' <=> Roomy(Opened, Trim(1))
  BY <1>1, <1>2, Zenon
<1>8. Finished(p, m)' <=> Finished(p, m)
  BY <1>1, <1>2, <1>6, <1>7, Zenon DEF Finished
<1> QED
  BY <1>3, <1>4, <1>5, <1>8, ExactKept, Zenon DEF Way, Active

(* Every action keeps the invariant.                                       *)
LEMMA WayStep ==
  ASSUME Setting, Suited, Way(pos, stack, phase, filled), Next
  PROVE  Way(pos', stack', phase', filled')
<1>1. Active(phase)
  BY Zenon DEF Next, ParseScalar, EnterArray, EnterMap, EnterPairs, Dereference, DereferenceKey, Complete,
               StepArray, StepMap, Active
<1>2. Now \/ Astray(pos, stack, phase) \/ Spaced(pos, stack, phase)
  BY <1>1, Zenon DEF Way, Now
<1>3. \A ph : Active(ph) => ph # "failed" /\ ph # "done"
  BY DEF Active
<1>4. ASSUME Then PROVE Way(pos', stack', phase', filled')
  BY <1>3, <1>4, Zenon DEF Then, Way
<1>5. ASSUME Active(phase'), Astray(pos', stack', phase') PROVE Way(pos', stack', phase', filled')
  BY <1>3, <1>5, Zenon DEF Way
<1>6. ASSUME Active(phase'), Spaced(pos', stack', phase') PROVE Way(pos', stack', phase', filled')
  BY <1>3, <1>6, Zenon DEF Way
<1>7. ASSUME phase' = "failed", Excused PROVE Way(pos', stack', phase', filled')
  BY <1>3, <1>7 DEF Way
<1>8. ASSUME phase' = "done", Finished(pos', filled') PROVE Way(pos', stack', phase', filled')
  BY <1>3, <1>8 DEF Way
<1>9. CASE Now
  <2>1. CASE ParseScalar
    BY <1>4, <1>9, <2>1, ScalarExact
  <2>2. CASE EnterArray \/ EnterMap \/ EnterPairs
    <3>1. Then \/ Spaced(pos', stack', phase')
      BY <1>9, <2>2, EnterExact
    <3>2. Spaced(pos', stack', phase') => Active(phase')
      BY DEF Spaced, Active
    <3> QED
      BY <1>4, <1>6, <3>1, <3>2
  <2>3. CASE Dereference
    BY <1>4, <1>9, <2>3, DereferenceExact
  <2>4. CASE DereferenceKey
    BY <1>4, <1>9, <2>4, KeyExact
  <2>5. CASE StepArray \/ StepMap
    BY <1>4, <1>9, <2>5, IterateExact
  <2>6. CASE Complete
    <3>1. Then \/ Astray(pos', stack', phase') \/ (phase' = "done" /\ Finished(pos', filled'))
      BY <1>9, <2>6, CompleteExact
    <3>2. Astray(pos', stack', phase') => Active(phase')
      BY DEF Astray, Active
    <3> QED
      BY <1>4, <1>5, <1>8, <3>1, <3>2
  <2> QED
    BY <2>1, <2>2, <2>3, <2>4, <2>5, <2>6 DEF Next
<1>10. CASE Astray(pos, stack, phase)
  BY <1>5, <1>7, <1>10, AstrayStep
<1>11. CASE Spaced(pos, stack, phase)
  BY <1>6, <1>7, <1>11, SpacedStep
<1> QED
  BY <1>2, <1>9, <1>10, <1>11

(* The first token is a value.                                             *)
LEMMA WayInit ==
  ASSUME Init, Suited
  PROVE  Way(pos, stack, phase, filled)
<1>1. Setting /\ OnTrack(pos, stack, phase) /\ Before(pos) = 0 /\ stack = <<>> /\ phase = "value"
  BY InitSetting
<1>2. pos = Trim(1) /\ filled = {} /\ TextOK
  BY <1>1 DEF Init, Setting
<1>3. pos \in Tokens /\ text[pos] \in Left /\ \A x \in Tokens : pos <= x
  BY <1>2, FirstIs
<1>4. Final \in Tokens /\ Final \in Nat /\ pos <= Final /\ Tokens \subseteq Nat
  BY <1>2, <1>3, LastIs, TextFacts
<1>5. Opened[0] = <<>>
  BY <1>2, OpenedIs
<1>6. IsValue(Opened, pos)
  <2>1. Around(Opened, pos) = ""
    BY <1>1, <1>5 DEF Around
  <2>2. text[pos] \in Starts
    BY <1>3 DEF Left, Starts
  <2> QED
    BY <1>1, <2>1, <2>2 DEF IsValue
<1>7. pos \in AllValues
  BY <1>2, <1>3, <1>4, <1>6, IsAValue
<1>8. Ready(pos, stack, phase)
  <2>1. 0 <= Final
    BY <1>4
  <2> QED
    BY <1>1, <1>7, <2>1, Zenon DEF Ready
<1>9. Kept(pos, stack, filled)
  <2>1. Len(stack) = 0
    BY <1>1
  <2>2. \A q \in AllValues : ~ (q < pos)
    <3>1. \A q \in AllValues : pos <= q /\ q \in Nat
      BY <1>2, <1>3, ValueIs
    <3>2. pos \in Nat
      BY <1>3, <1>4
    <3> QED
      BY <3>1, <3>2
  <2> QED
    BY <1>2, <2>1, <2>2 DEF Kept, Single, Seen
<1>10. Exact(pos, stack, phase, filled)
  BY <1>1, <1>8, <1>9, Zenon DEF Exact
<1> QED
  BY <1>1, <1>10 DEF Way, Active

(* The bound names stand for the variables.                                *)
WayInv == \E p, s, ph, m : /\ p = pos /\ s = stack /\ ph = phase /\ m = filled
                           /\ Suited => Way(p, s, ph, m)

(* The invariant, said of the variables.                                   *)
LEMMA WayIs == WayInv <=> (Suited => Way(pos, stack, phase, filled))
BY Zenon DEF WayInv

(* The invariant holds in every state.                                     *)
LEMMA WayHolds == Spec => [](Setting /\ WayInv)
<1>1. Init => Setting /\ WayInv
  BY InitSetting, WayInit, WayIs
<1>2. Setting /\ WayInv /\ [Next]_vars => WayInv'
  <2> SUFFICES ASSUME Setting, WayInv, [Next]_vars PROVE WayInv'
    OBVIOUS
  <2>1. Setup /\ (Suited => Way(pos', stack', phase', filled'))
    <3>1. CASE Next
      BY <3>1, ShapeStep, WayStep, WayIs DEF Setup
    <3>2. CASE UNCHANGED vars
      BY <3>2, WayIs DEF Setup, vars
    <3> QED
      BY <3>1, <3>2
  <2>2. Suited' <=> Suited
    BY <2>1, SuitedKept
  <2>3. \A p, s, ph, m : Way(p, s, ph, m)' <=> Way(p, s, ph, m)
    BY <2>1, WayKept
  <2> QED
    BY <2>1, <2>2, <2>3, Zenon DEF WayInv
<1>3. Setting /\ WayInv /\ [Next]_vars => WayInv'
  BY <1>2
<1>4. Spec => [](Setting /\ AcceptsInv)
  BY AcceptsHolds
<1>5. Spec => []WayInv
  BY <1>1, <1>3, <1>4, PTL DEF Spec
<1> QED
  BY <1>4, <1>5, PTL

(* A suitable text is refused for the reasons that excuse it.              *)
LEMMA SuitableAccepted == Setting /\ WayInv => AcceptsSuitable
<1> SUFFICES ASSUME Setting, WayInv, phase = "failed", Suited PROVE Excused
  BY Zenon DEF AcceptsSuitable, Excused, Excuse, AllValues, Suited
<1>1. Way(pos, stack, phase, filled)
  BY WayIs
<1> QED
  BY <1>1 DEF Way

(* Containers accept what they should: a JSON text of the type is refused  *)
(* only for lack of room or a space behind the bracket of an array of      *)
(* pairs, and what is accepted is JSON but for the commas they let pass.   *)
THEOREM AcceptsCorrect == Spec => []AcceptsContainers
<1>1. TypeOK /\ Setting /\ WayInv /\ AcceptsOnlyContainers => AcceptsContainers
  BY SuitableAccepted DEF AcceptsContainers
<1> QED
  BY <1>1, ContainersTypeCorrect, OnlyContainers, WayHolds, PTL

(* A container that is returned has the elements of the text, each once,   *)
(* in order and in the container it belongs to, as many as there is room   *)
(* for; with room for all, the cursor is behind its bracket.               *)
THEOREM TakesCorrect == Spec => []TakesElements
<1>1. Setting /\ WayInv => TakesElements
  <2> SUFFICES ASSUME WayInv, phase = "done", Suited
               PROVE  /\ AllFilled(Opened)
                      /\ Roomy(Opened, Trim(1)) => pos = Trim(Final + 1)
                      /\ \A p \in AllValues : p < pos /\ p # Trim(1) => Roomy(Opened, p)
    BY Zenon DEF TakesElements, Suited, Final, AllValues
  <2>1. Finished(pos, filled)
    BY WayIs DEF Way
  <2>2. AllFilled(Opened)
    BY <2>1, Zenon DEF Finished, AllIn, AllFilled, Holds, HasAll, Single, Parts
  <2> QED
    BY <2>1, <2>2, Zenon DEF Finished
<1> QED
  BY <1>1, WayHolds, PTL
==============================================================================
