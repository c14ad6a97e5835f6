----------------------- MODULE DotenvConsumers_proofs -----------------------
(***************************************************************************)
(* For every environment file: the consumers that are given one agree on   *)
(* every value, whatever characters, quotes and escapes it has, and docker *)
(* is given all of it.  What the three do to a text is defined by          *)
(* recursion over it, so the lemmas below are inductions over the length   *)
(* of a prefix.                                                            *)
(***************************************************************************)
EXTENDS DotenvConsumers, FiniteSetTheorems, SequenceTheorems, TLAPS

-----------------------------------------------------------------------------
(* Induction and recursion over the natural numbers.                       *)

LEMMA NatSetInduction ==
  ASSUME NEW S, 0 \in S, \A n \in Nat : n \in S => n + 1 \in S
  PROVE  Nat \subseteq S
<1>. SUFFICES ASSUME Nat \ S # {} PROVE FALSE
  OBVIOUS
<1>. DEFINE Below == {ss \in Nat \X Nat : ss[1] < ss[2]}
<1>1. IsWellFoundedOn(Below, Nat)
  BY NatLessThanWellFounded DEF OpToRel
<1>. HIDE DEF Below
<1>2. PICK n \in Nat \ S : \A m \in Nat \ S : ~(<<m, n>> \in Below)
  BY <1>1, WFMin
<1>3. \A m \in Nat \ S : ~(m < n)
  BY <1>2 DEF Below
<1>4. n # 0 /\ n - 1 \in Nat /\ n - 1 < n /\ n = (n - 1) + 1
  OBVIOUS
<1>. QED BY <1>3, <1>4

\* A function of the first N numbers that is given by its value at 0 and by a step,
\* which may look at the number.
Iterates(f, S, x, G, N) ==
  f \in [0 .. N -> S] /\ f[0] = x /\ \A n \in 1 .. N : f[n] = G[n][f[n - 1]]

LEMMA Recursion ==
  ASSUME NEW N \in Nat, NEW S, NEW x \in S, NEW G, \A n \in 1 .. N : \A y \in S : G[n][y] \in S
  PROVE  \E f : Iterates(f, S, x, G, N)
<1>. DEFINE Good == {m \in Nat : m <= N => \E f : Iterates(f, S, x, G, m)}
<1>1. 0 \in Good
  <2>1. Iterates([n \in 0 .. 0 |-> x], S, x, G, 0)
    BY DEF Iterates
  <2>. QED BY <2>1
<1>2. ASSUME NEW m \in Nat, m \in Good PROVE m + 1 \in Good
  <2>. SUFFICES ASSUME m + 1 <= N PROVE \E f : Iterates(f, S, x, G, m + 1)
    OBVIOUS
  <2>1. PICK f : Iterates(f, S, x, G, m)
    BY <1>2
  <2>2. f \in [0 .. m -> S] /\ f[0] = x /\ \A n \in 1 .. m : f[n] = G[n][f[n - 1]]
    BY <2>1 DEF Iterates
  <2>3. G[m + 1][f[m]] \in S
    <3>1. m + 1 \in 1 .. N /\ f[m] \in S
      BY <2>2
    <3>. QED BY <3>1
  <2>. DEFINE h == [n \in 0 .. m + 1 |-> IF n = m + 1 THEN G[m + 1][f[m]] ELSE f[n]]
  <2>4. h \in [0 .. m + 1 -> S]
    BY <2>2, <2>3
  <2>5. h[0] = x
    BY <2>2
  <2>6. ASSUME NEW n \in 1 .. m + 1 PROVE h[n] = G[n][h[n - 1]]
    <3>1. n \in 0 .. m + 1 /\ n - 1 \in 0 .. m + 1 /\ n - 1 # m + 1
      OBVIOUS
    <3>2. h[n - 1] = f[n - 1]
      BY <3>1
    <3>3. CASE n = m + 1
      BY <3>1, <3>2, <3>3
    <3>4. CASE n # m + 1
      <4>1. n \in 1 .. m
        BY <3>4
      <4>. QED BY <3>1, <3>2, <3>4, <4>1, <2>2
    <3>. QED BY <3>3, <3>4
  <2>7. Iterates(h, S, x, G, m + 1)
    <3>. HIDE DEF h
    <3>. QED BY <2>4, <2>5, <2>6 DEF Iterates
  <2>. QED BY <2>7
<1>3. N \in Good
  <2>. HIDE DEF Good
  <2>. QED BY <1>1, <1>2, NatSetInduction
<1>. QED BY <1>3

\* A nonempty set of numbers up to a bound has a greatest one.
LEMMA MaxOfBounded ==
  ASSUME NEW n \in Nat, NEW S \in SUBSET (1 .. n), S # {}
  PROVE  Max(S) \in S
<1>. DEFINE Good == {m \in Nat : \A T \in SUBSET (1 .. m) : T # {} => \E x \in T : \A y \in T : x >= y}
<1>1. 0 \in Good
  <2>1. 1 .. 0 = {}
    OBVIOUS
  <2>2. \A T \in SUBSET (1 .. 0) : T = {}
    BY <2>1
  <2>. QED BY <2>2
<1>2. ASSUME NEW m \in Nat, m \in Good PROVE m + 1 \in Good
  <2>. SUFFICES ASSUME NEW T \in SUBSET (1 .. m + 1), T # {} PROVE \E x \in T : \A y \in T : x >= y
    OBVIOUS
  <2>1. CASE m + 1 \in T
    BY <2>1
  <2>2. CASE m + 1 \notin T
    <3>1. T \in SUBSET (1 .. m)
      BY <2>2
    <3>. QED BY <1>2, <3>1
  <2>. QED BY <2>1, <2>2
<1>. HIDE DEF Good
<1>3. n \in Good
  BY <1>1, <1>2, NatSetInduction
<1>4. \E x \in S : \A y \in S : x >= y
  BY <1>3 DEF Good
<1>. QED BY <1>4 DEF Max

-----------------------------------------------------------------------------
(* Concatenation.                                                          *)

\* FlattenSeq puts the parts behind each other, from the first to the last.
Concatenates(F, parts) ==
  /\ F[0] = << >>
  /\ \A n \in 1 .. Len(parts) : F[n] = F[n - 1] \o parts[n]
  /\ F[Len(parts)] = FlattenSeq(parts)

LEMMA Flattened ==
  ASSUME NEW T, NEW parts \in Seq(Seq(T))
  PROVE  \E F \in [0 .. Len(parts) -> Seq(T)] : Concatenates(F, parts)
<1>. DEFINE N == Len(parts)
            G == [n \in 1 .. N |-> [y \in Seq(T) |-> y \o parts[n]]]
            Eq(f) == f = [n \in 1 .. N |-> IF n = 1 THEN parts[n] ELSE f[n - 1] \o parts[n]]
<1>1. N \in Nat /\ DOMAIN parts = 1 .. N /\ \A n \in 1 .. N : parts[n] \in Seq(T)
  OBVIOUS
<1>2. \A n \in 1 .. N : \A y \in Seq(T) : G[n][y] = y \o parts[n] /\ G[n][y] \in Seq(T)
  BY <1>1
<1>3. << >> \in Seq(T)
  OBVIOUS
<1>4. PICK F : Iterates(F, Seq(T), << >>, G, N)
  <2>. HIDE DEF N, G
  <2>. QED BY <1>1, <1>2, <1>3, Recursion
<1>5. F \in [0 .. N -> Seq(T)] /\ F[0] = << >> /\ \A n \in 1 .. N : F[n] = F[n - 1] \o parts[n]
  <2>1. \A n \in 1 .. N : n - 1 \in 0 .. N
    BY <1>1
  <2>2. F \in [0 .. N -> Seq(T)] /\ F[0] = << >> /\ \A n \in 1 .. N : F[n] = G[n][F[n - 1]]
    <3>. HIDE DEF N, G
    <3>. QED BY <1>4 DEF Iterates
  <2>3. \A n \in 1 .. N : F[n - 1] \in Seq(T)
    BY <2>1, <2>2
  <2>. HIDE DEF N, G
  <2>. QED BY <1>2, <2>2, <2>3
<1>6. CASE N = 0
  <2>1. FlattenSeq(parts) = parts /\ parts = << >>
    BY <1>6 DEF FlattenSeq
  <2>. QED BY <1>5, <1>6, <2>1 DEF Concatenates
<1>7. CASE N # 0
  <2>. DEFINE f == [n \in 1 .. N |-> F[n]]
              flatten == CHOOSE g : Eq(g)
  <2>1. Eq(f)
    <3>1. \A n \in 1 .. N : f[n] = IF n = 1 THEN parts[n] ELSE f[n - 1] \o parts[n]
      <4>. SUFFICES ASSUME NEW n \in 1 .. N PROVE f[n] = IF n = 1 THEN parts[n] ELSE f[n - 1] \o parts[n]
        OBVIOUS
      <4>1. CASE n = 1
        <5>1. F[1] = << >> \o parts[1] /\ parts[1] \in Seq(T)
          BY <1>1, <1>5, <4>1
        <5>. QED BY <4>1, <5>1
      <4>2. CASE n # 1
        <5>1. n - 1 \in 1 .. N
          BY <1>1, <4>2
        <5>. QED BY <1>5, <4>2, <5>1
      <4>. QED BY <4>1, <4>2
    <3>. QED BY <3>1
  <2>2. Eq(flatten)
    <3>. HIDE DEF f, Eq
    <3>. QED BY <2>1
  <2>3. FlattenSeq(parts) = flatten[N]
    BY <1>7 DEF FlattenSeq
  <2>. HIDE DEF flatten
  <2>4. \A n \in 1 .. N : flatten[n] = IF n = 1 THEN parts[n] ELSE flatten[n - 1] \o parts[n]
    BY <2>2
  <2>. DEFINE Good == {n \in Nat : n \in 1 .. N => flatten[n] = F[n]}
  <2>5. 0 \in Good
    OBVIOUS
  <2>6. ASSUME NEW n \in Nat, n \in Good PROVE n + 1 \in Good
    <3>. SUFFICES ASSUME n + 1 \in 1 .. N PROVE flatten[n + 1] = F[n + 1]
      OBVIOUS
    <3>1. (n + 1) - 1 = n
      OBVIOUS
    <3>. HIDE DEF N
    <3>2. F[n + 1] = F[n] \o parts[n + 1] /\ parts[n + 1] \in Seq(T)
      BY <1>1, <1>5, <3>1
    <3>3. CASE n = 0
      <4>1. flatten[n + 1] = parts[n + 1]
        BY <2>4, <3>3
      <4>2. << >> \o parts[n + 1] = parts[n + 1]
        BY <3>2
      <4>. QED BY <1>5, <3>2, <3>3, <4>1, <4>2
    <3>4. CASE n # 0
      <4>1. n \in 1 .. N /\ n + 1 # 1
        BY <1>1, <3>4
      <4>2. flatten[n + 1] = flatten[n] \o parts[n + 1]
        BY <2>4, <3>1, <4>1
      <4>. QED BY <2>6, <3>2, <4>1, <4>2
    <3>. QED BY <3>3, <3>4
  <2>7. N \in Good
    <3>. HIDE DEF Good
    <3>. QED BY <1>1, <2>5, <2>6, NatSetInduction
  <2>8. flatten[N] = F[N]
    <3>1. N \in 1 .. N
      BY <1>1, <1>7
    <3>. QED BY <2>7, <3>1
  <2>. QED BY <1>5, <2>3, <2>8 DEF Concatenates
<1>. QED BY <1>6, <1>7

LEMMA FlattenType ==
  ASSUME NEW T, NEW parts \in Seq(Seq(T))
  PROVE  FlattenSeq(parts) \in Seq(T)
<1>1. PICK F \in [0 .. Len(parts) -> Seq(T)] : Concatenates(F, parts)
  BY Flattened
<1>2. Len(parts) \in 0 .. Len(parts)
  OBVIOUS
<1>. QED BY <1>1, <1>2 DEF Concatenates
-----------------------------------------------------------------------------
(* What parse makes of a file.                                             *)

\* Step by step to a bound, instead of for every natural number.
LEMMA UpTo ==
  ASSUME NEW N \in Nat, NEW S, 0 \in S, \A n \in 1 .. N : n - 1 \in S => n \in S
  PROVE  0 .. N \subseteq S
<1>. DEFINE Good == {n \in Nat : n <= N => n \in S}
<1>1. 0 \in Good
  OBVIOUS
<1>2. ASSUME NEW n \in Nat, n \in Good PROVE n + 1 \in Good
  <2>. SUFFICES ASSUME n + 1 <= N PROVE n + 1 \in S
    OBVIOUS
  <2>1. n + 1 \in 1 .. N /\ (n + 1) - 1 = n /\ n \in S
    BY <1>2
  <2>. QED BY <2>1
<1>. HIDE DEF Good
<1>3. Nat \subseteq Good
  BY <1>1, <1>2, NatSetInduction
<1>. QED BY <1>3 DEF Good

\* A value whose escapes can be read has a text.
LEMMA TextType ==
  ASSUME NEW raw \in Raw, ~Undecodable(raw)
  PROVE  Text(raw) \in Seq(Int)
<1>. DEFINE items == raw.items
            piece(item) == IF raw.quote = "double" THEN Decoded(item) ELSE Literal(item)
            parts == [j \in DOMAIN items |-> piece(items[j])]
<1>1. items \in Seq(Item)
  BY DEF Raw
<1>2. ASSUME NEW item \in Item, raw.quote = "double" => item # [esc |-> "truncated"]
      PROVE  piece(item) \in Seq(Int)
  <2>1. CASE item \in [char : Char]
    <3>1. PICK c \in Char : item = [char |-> c]
      BY <2>1
    <3>2. c \in 0 .. 2047 /\ item.char = c /\ "char" \in DOMAIN item
      BY <3>1, CharAssumption
    <3>3. Utf8(c) \in Seq(Int)
      BY <3>2 DEF Utf8
    <3>. QED BY <3>2, <3>3 DEF Decoded, Literal
  <2>2. CASE item \in [esc : Escapes]
    <3>1. PICK e \in Escapes : item = [esc |-> e]
      BY <2>2
    <3>2. "char" \notin DOMAIN item /\ item.esc = e
      BY <3>1
    <3>3. EscapeSource[e] \in Seq(Int)
      <4>1. \A c, d \in Int : <<c, d>> \in Seq(Int)
        OBVIOUS
      <4>2. CASE e = "n"
        <5>1. EscapeSource[e] = <<92, 110>>
          BY <4>2 DEF EscapeSource, Backslash
        <5>2. <<92, 110>> \in Seq(Int)
          BY <4>1
        <5>. QED BY <5>1, <5>2, Zenon
      <4>3. CASE e = "r"
        <5>1. EscapeSource[e] = <<92, 114>>
          BY <4>3 DEF EscapeSource, Backslash
        <5>2. <<92, 114>> \in Seq(Int)
          BY <4>1
        <5>. QED BY <5>1, <5>2, Zenon
      <4>4. CASE e = "backslash"
        <5>1. EscapeSource[e] = <<92, 92>>
          BY <4>4 DEF EscapeSource, Backslash
        <5>2. <<92, 92>> \in Seq(Int)
          BY <4>1
        <5>. QED BY <5>1, <5>2, Zenon
      <4>5. CASE e = "truncated"
        <5>1. EscapeSource[e] = <<92, 120>>
          BY <4>5 DEF EscapeSource, Backslash
        <5>2. <<92, 120>> \in Seq(Int)
          BY <4>1
        <5>. QED BY <5>1, <5>2, Zenon
      <4>. QED BY <4>2, <4>3, <4>4, <4>5 DEF Escapes
    <3>4. e # "truncated" => EscapeText[e] \in Seq(Int)
      <4>1. \A c \in Int : <<c>> \in Seq(Int)
        OBVIOUS
      <4>2. CASE e = "n"
        <5>1. EscapeText[e] = <<10>>
          BY <4>2 DEF EscapeText, LineFeed
        <5>2. <<10>> \in Seq(Int)
          BY <4>1
        <5>. QED BY <5>1, <5>2, Zenon
      <4>3. CASE e = "r"
        <5>1. EscapeText[e] = <<13>>
          BY <4>3 DEF EscapeText, CarriageReturn
        <5>2. <<13>> \in Seq(Int)
          BY <4>1
        <5>. QED BY <5>1, <5>2, Zenon
      <4>4. CASE e = "backslash"
        <5>1. EscapeText[e] = <<92>>
          BY <4>4 DEF EscapeText, Backslash
        <5>2. <<92>> \in Seq(Int)
          BY <4>1
        <5>. QED BY <5>1, <5>2, Zenon
      <4>. QED BY <4>2, <4>3, <4>4 DEF Escapes
    <3>. QED BY <1>2, <3>1, <3>2, <3>3, <3>4 DEF Decoded, Literal
  <2>. QED BY <2>1, <2>2 DEF Item
<1>3. ASSUME NEW j \in DOMAIN items PROVE piece(items[j]) \in Seq(Int)
  <2>1. items[j] \in Item
    BY <1>1
  <2>2. raw.quote = "double" => items[j] # [esc |-> "truncated"]
    BY <1>3 DEF Undecodable
  <2>. HIDE DEF piece, items
  <2>. QED BY <1>2, <2>1, <2>2
<1>4. parts \in Seq(Seq(Int))
  <2>1. DOMAIN items = 1 .. Len(items) /\ Len(items) \in Nat
    BY <1>1
  <2>. HIDE DEF piece, items
  <2>. QED BY <1>3, <2>1
<1>5. FlattenSeq(parts) \in Seq(Int)
  <2>. HIDE DEF parts
  <2>. QED BY <1>4, FlattenType
<1>. QED BY <1>5 DEF Text, Concat

Pair == [key : Name \union SopsName, value : Seq(Int)]

\* The state of parse's loop after each line of the file.
Parses(out, s) ==
  /\ out[0] = << >>
  /\ \A j \in 1 .. Len(s) :
       out[j] = IF IsVariable(s[j])
                THEN Append(out[j - 1], [key |-> s[j].key, value |-> Text(s[j].value)])
                ELSE out[j - 1]
  /\ out[Len(s)] = parse(s)

LEMMA VariableType ==
  ASSUME NEW s \in Stream, ~ParseFails(s), NEW j \in 1 .. Len(s), IsVariable(s[j])
  PROVE  [key |-> s[j].key, value |-> Text(s[j].value)] \in Pair
<1>1. s[j] \in Line /\ j \in DOMAIN s
  BY DEF Stream
<1>2. s[j] \in [key : Name \union SopsName, value : Raw]
  BY <1>1 DEF Line, IsVariable, Assigns
<1>3. ~Undecodable(s[j].value)
  BY <1>1 DEF ParseFails
<1>4. Text(s[j].value) \in Seq(Int)
  BY <1>2, <1>3, TextType
<1>. QED BY <1>2, <1>4 DEF Pair

LEMMA ParseLoop ==
  ASSUME NEW s \in Stream, ~ParseFails(s)
  PROVE  \E out \in [0 .. Len(s) -> Seq(Pair)] : Parses(out, s)
<1>. DEFINE N == Len(s)
            p(j) == [key |-> s[j].key, value |-> Text(s[j].value)]
            G == [j \in 1 .. N |-> [y \in Seq(Pair) |->
                    IF IsVariable(s[j]) THEN Append(y, p(j)) ELSE y]]
            Eq(f) == f = [j \in 0 .. N |->
                            IF j = 0 THEN << >>
                            ELSE IF IsVariable(s[j]) THEN Append(f[j - 1], p(j)) ELSE f[j - 1]]
            out == CHOOSE f : Eq(f)
<1>1. N \in Nat
  BY DEF Stream
<1>2. \A j \in 1 .. N : IsVariable(s[j]) => p(j) \in Pair
  BY VariableType
<1>. HIDE DEF p
<1>3. \A j \in 1 .. N : \A y \in Seq(Pair) :
        /\ G[j][y] = IF IsVariable(s[j]) THEN Append(y, p(j)) ELSE y
        /\ G[j][y] \in Seq(Pair)
  <2>. HIDE DEF N
  <2>. QED BY <1>2
<1>4. PICK f : Iterates(f, Seq(Pair), << >>, G, N)
  <2>1. << >> \in Seq(Pair)
    OBVIOUS
  <2>. HIDE DEF N, G
  <2>. QED BY <1>1, <1>3, <2>1, Recursion
<1>5. Eq(f)
  <2>1. f \in [0 .. N -> Seq(Pair)] /\ f[0] = << >> /\ \A j \in 1 .. N : f[j] = G[j][f[j - 1]]
    <3>. HIDE DEF N, G
    <3>. QED BY <1>4 DEF Iterates
  <2>2. \A j \in 0 .. N : j # 0 => j \in 1 .. N /\ j - 1 \in 0 .. N
    BY <1>1
  <2>3. \A j \in 0 .. N : j # 0 => f[j] = IF IsVariable(s[j]) THEN Append(f[j - 1], p(j)) ELSE f[j - 1]
    <3>. HIDE DEF N, G
    <3>1. \A j \in 1 .. N : f[j - 1] \in Seq(Pair)
      BY <1>1, <2>1
    <3>2. \A j \in 1 .. N : f[j] = IF IsVariable(s[j]) THEN Append(f[j - 1], p(j)) ELSE f[j - 1]
      BY <1>3, <2>1, <3>1
    <3>. QED BY <2>2, <3>2
  <2>. HIDE DEF N, G
  <2>. QED BY <2>1, <2>3
<1>6. Eq(out)
  <2>. HIDE DEF Eq
  <2>. QED BY <1>5
<1>7. parse(s) = out[N]
  BY DEF parse, p
<1>. HIDE DEF out
<1>8. /\ out[0] = << >>
      /\ \A j \in 1 .. N : out[j] = IF IsVariable(s[j]) THEN Append(out[j - 1], p(j)) ELSE out[j - 1]
  <2>1. 0 \in 0 .. N /\ \A j \in 1 .. N : j \in 0 .. N /\ j # 0
    BY <1>1
  <2>. HIDE DEF N
  <2>. QED BY <1>6, <2>1
<1>9. \A j \in 0 .. N : out[j] \in Seq(Pair)
  <2>. DEFINE Good == {j \in 0 .. N : out[j] \in Seq(Pair)}
  <2>. HIDE DEF N
  <2>1. 0 \in Good
    <3>1. << >> \in Seq(Pair)
      BY EmptySeq
    <3>2. 0 \in 0 .. N
      BY <1>1
    <3>. QED BY <1>8, <3>1, <3>2, Zenon
  <2>2. ASSUME NEW j \in 1 .. N, j - 1 \in Good PROVE j \in Good
    <3>1. j \in 0 .. N /\ out[j - 1] \in Seq(Pair)
      BY <1>1, <2>2
    <3>2. CASE IsVariable(s[j])
      <4>1. out[j] = Append(out[j - 1], p(j)) /\ p(j) \in Pair
        BY <1>2, <1>8, <3>2
      <4>2. Append(out[j - 1], p(j)) \in Seq(Pair)
        BY <3>1, <4>1, AppendProperties
      <4>. QED BY <3>1, <4>1, <4>2
    <3>3. CASE ~IsVariable(s[j])
      BY <1>8, <3>1, <3>3
    <3>. QED BY <3>2, <3>3
  <2>. HIDE DEF Good
  <2>3. 0 .. N \subseteq Good
    BY <1>1, <2>1, <2>2, UpTo
  <2>. QED BY <2>3 DEF Good
<1>10. out \in [0 .. N -> Seq(Pair)]
  BY <1>6, <1>9
<1>11. Parses(out, s)
  BY <1>7, <1>8 DEF Parses, p
<1>. QED BY <1>10, <1>11

LEMMA ParseType ==
  ASSUME NEW s \in Stream, ~ParseFails(s)
  PROVE  parse(s) \in Seq(Pair)
<1>1. PICK out \in [0 .. Len(s) -> Seq(Pair)] : Parses(out, s)
  BY ParseLoop
<1>2. Len(s) \in 0 .. Len(s)
  BY DEF Stream
<1>. QED BY <1>1, <1>2 DEF Parses
\* No name is assigned on two lines of the file.
Distinct(s) ==
  \A j, k \in DOMAIN s :
    (IsVariable(s[j]) /\ IsVariable(s[k]) /\ s[j].key = s[k].key) => j = k

\* Then no name is in two pairs: every pair so far comes from a line so far.
LEMMA PairsDistinct ==
  ASSUME NEW s \in Stream, ~ParseFails(s), Distinct(s)
  PROVE  \A i, l \in DOMAIN parse(s) : parse(s)[i].key = parse(s)[l].key => i = l
<1>1. PICK out \in [0 .. Len(s) -> Seq(Pair)] : Parses(out, s)
  BY ParseLoop
<1>. DEFINE From(j) == \A i \in DOMAIN out[j] :
                         \E k \in 1 .. j : IsVariable(s[k]) /\ out[j][i].key = s[k].key
            Once(j) == \A i, l \in DOMAIN out[j] : out[j][i].key = out[j][l].key => i = l
            Good == {j \in 0 .. Len(s) : From(j) /\ Once(j)}
<1>2. Len(s) \in Nat /\ DOMAIN s = 1 .. Len(s)
  BY DEF Stream
<1>3. 0 \in Good
  <2>1. out[0] = << >>
    BY <1>1 DEF Parses
  <2>2. DOMAIN out[0] = {}
    BY <2>1
  <2>. QED BY <1>2, <2>2
<1>4. ASSUME NEW j \in 1 .. Len(s), j - 1 \in Good PROVE j \in Good
  <2>. DEFINE before == out[j - 1]
              p == [key |-> s[j].key, value |-> Text(s[j].value)]
  <2>1. j \in 0 .. Len(s) /\ j - 1 \in 0 .. Len(s) /\ \A k \in 1 .. (j - 1) : k \in 1 .. j /\ k # j
    BY <1>2
  <2>2. before \in Seq(Pair) /\ From(j - 1) /\ Once(j - 1)
    BY <1>4, <2>1
  <2>3. CASE ~IsVariable(s[j])
    <3>1. out[j] = before
      BY <1>1, <2>3 DEF Parses
    <3>. HIDE DEF before
    <3>2. From(j)
      BY <2>1, <2>2, <3>1 DEF before
    <3>. QED BY <2>1, <2>2, <3>1, <3>2 DEF before
  <2>4. CASE IsVariable(s[j])
    <3>1. out[j] = Append(before, p) /\ p \in Pair
      BY <1>1, <2>4, VariableType DEF Parses
    <3>2. p.key = s[j].key
      OBVIOUS
    <3>. HIDE DEF p, before
    <3>3. /\ DOMAIN out[j] = 1 .. (Len(before) + 1) /\ DOMAIN before = 1 .. Len(before)
          /\ Len(before) \in Nat /\ out[j][Len(before) + 1] = p
          /\ \A i \in 1 .. Len(before) : out[j][i] = before[i]
      BY <2>2, <3>1, AppendProperties, LenProperties
    <3>4. \A i \in DOMAIN out[j] : i \in DOMAIN before \/ i = Len(before) + 1
      BY <3>3
    <3>5. \A i \in DOMAIN before : \E k \in 1 .. (j - 1) : IsVariable(s[k]) /\ before[i].key = s[k].key
      BY <2>2 DEF before
    <3>6. \A i, l \in DOMAIN before : before[i].key = before[l].key => i = l
      BY <2>2 DEF before
    <3>7. \A i \in DOMAIN before : before[i].key # p.key
      <4>. SUFFICES ASSUME NEW i \in DOMAIN before, before[i].key = p.key PROVE FALSE
        OBVIOUS
      <4>1. PICK k \in 1 .. (j - 1) : IsVariable(s[k]) /\ before[i].key = s[k].key
        BY <3>5
      <4>2. k \in DOMAIN s /\ j \in DOMAIN s /\ k # j
        BY <1>2
      <4>. QED BY <2>4, <3>2, <4>1, <4>2 DEF Distinct
    <3>8. From(j)
      <4>. SUFFICES ASSUME NEW i \in DOMAIN out[j]
                    PROVE  \E k \in 1 .. j : IsVariable(s[k]) /\ out[j][i].key = s[k].key
        OBVIOUS
      <4>1. CASE i \in DOMAIN before
        <5>1. out[j][i] = before[i]
          BY <3>3, <4>1
        <5>. QED BY <2>1, <3>5, <4>1, <5>1
      <4>2. CASE i = Len(before) + 1
        <5>1. out[j][i].key = s[j].key /\ j \in 1 .. j
          BY <3>2, <3>3, <4>2
        <5>. QED BY <2>4, <5>1
      <4>. QED BY <3>4, <4>1, <4>2
    <3>9. Once(j)
      <4>. SUFFICES ASSUME NEW i \in DOMAIN out[j], NEW l \in DOMAIN out[j],
                           out[j][i].key = out[j][l].key
                    PROVE  i = l
        OBVIOUS
      <4>. QED BY <3>3, <3>4, <3>6, <3>7
    <3>. QED BY <2>1, <3>8, <3>9
  <2>. QED BY <2>3, <2>4
<1>5. Len(s) \in Good
  <2>1. Len(s) \in 0 .. Len(s)
    BY <1>2
  <2>. HIDE DEF Good
  <2>. QED BY <1>2, <1>3, <1>4, <2>1, UpTo
<1>6. out[Len(s)] = parse(s)
  BY <1>1 DEF Parses
<1>. QED BY <1>5, <1>6

-----------------------------------------------------------------------------
(* A word written for a shell and read by it.                              *)

ShellState == [text : Seq(Int), quoted : BOOLEAN, kept : BOOLEAN]

\* The states a shell is in after each character of a word, and after the last one.
Reads(run, w) ==
  /\ DOMAIN run = 0 .. Len(w)
  /\ run[0] = ShellStart
  /\ \A j \in 1 .. Len(w) : run[j] = ShellStep(run[j - 1], w[j])

After(w, state) == \E run : Reads(run, w) /\ run[Len(w)] = state

LEMMA AfterNothing == After(<< >>, ShellStart)
<1>. DEFINE run == [j \in 0 .. 0 |-> ShellStart]
<1>1. Reads(run, << >>) /\ run[0] = ShellStart /\ Len(<< >>) = 0
  BY DEF Reads
<1>. HIDE DEF run
<1>. QED BY <1>1 DEF After

LEMMA AfterOneMore ==
  ASSUME NEW w \in Seq(Int), NEW c \in Int, NEW state, After(w, state)
  PROVE  After(w \o <<c>>, ShellStep(state, c))
<1>1. PICK run : Reads(run, w) /\ run[Len(w)] = state
  BY DEF After
<1>. DEFINE N == Len(w)
            longer == w \o <<c>>
            next == [j \in 0 .. N + 1 |-> IF j = N + 1 THEN ShellStep(state, c) ELSE run[j]]
<1>2. /\ N \in Nat /\ Len(longer) = N + 1 /\ longer[N + 1] = c
      /\ \A j \in 1 .. N : longer[j] = w[j]
  OBVIOUS
<1>3. /\ run[0] = ShellStart /\ run[N] = state
      /\ \A j \in 1 .. N : run[j] = ShellStep(run[j - 1], w[j])
  BY <1>1 DEF Reads
<1>. HIDE DEF N, longer
<1>4. /\ DOMAIN next = 0 .. N + 1 /\ next[N + 1] = ShellStep(state, c)
      /\ \A j \in 0 .. N : next[j] = run[j]
  BY <1>2
<1>. HIDE DEF next
<1>5. ASSUME NEW j \in 1 .. N + 1 PROVE next[j] = ShellStep(next[j - 1], longer[j])
  <2>1. j - 1 \in 0 .. N
    BY <1>2
  <2>2. CASE j = N + 1
    <3>1. next[j - 1] = state
      BY <1>2, <1>3, <1>4, <2>1, <2>2
    <3>. QED BY <1>2, <1>4, <2>2, <3>1
  <2>3. CASE j # N + 1
    <3>1. j \in 1 .. N /\ j \in 0 .. N
      BY <1>2, <2>3
    <3>. QED BY <1>2, <1>3, <1>4, <2>1, <3>1
  <2>. QED BY <2>2, <2>3
<1>6. Reads(next, longer) /\ next[Len(longer)] = ShellStep(state, c)
  BY <1>2, <1>3, <1>4, <1>5 DEF Reads
<1>. QED BY <1>6 DEF After, longer

LEMMA AfterIsRead ==
  ASSUME NEW w \in Seq(Int), NEW state, After(w, state)
  PROVE  ShellReads(w) = state.text
<1>1. PICK run : Reads(run, w) /\ run[Len(w)] = state
  BY DEF After
<1>. DEFINE N == Len(w)
            Eq(f) == f = [j \in 0 .. N |-> IF j = 0 THEN ShellStart ELSE ShellStep(f[j - 1], w[j])]
            read == CHOOSE f : Eq(f)
            all == [j \in 0 .. N |-> run[j]]
<1>2. N \in Nat
  OBVIOUS
<1>3. /\ run[0] = ShellStart
      /\ \A j \in 1 .. N : run[j] = ShellStep(run[j - 1], w[j])
  BY <1>1 DEF Reads
<1>4. Eq(all)
  <2>1. \A j \in 0 .. N : j # 0 => j \in 1 .. N /\ j - 1 \in 0 .. N
    OBVIOUS
  <2>. HIDE DEF N
  <2>2. \A j \in 0 .. N : all[j] = run[j]
    OBVIOUS
  <2>3. \A j \in 0 .. N : run[j] = IF j = 0 THEN ShellStart ELSE ShellStep(all[j - 1], w[j])
    BY <1>3, <2>1, <2>2
  <2>. QED BY <2>3
<1>5. Eq(read)
  <2>. HIDE DEF Eq, all
  <2>. QED BY <1>4
<1>6. ShellReads(w) = read[N].text
  BY DEF ShellReads
<1>. HIDE DEF read
<1>7. read[0] = ShellStart /\ \A j \in 1 .. N : read[j] = ShellStep(read[j - 1], w[j])
  <2>1. 0 \in 0 .. N /\ \A j \in 1 .. N : j \in 0 .. N /\ j # 0
    BY <1>2
  <2>. HIDE DEF N
  <2>. QED BY <1>5, <2>1
<1>. DEFINE Good == {j \in 0 .. N : read[j] = run[j]}
<1>8. N \in Good
  <2>1. 0 \in Good
    BY <1>2, <1>3, <1>7
  <2>2. ASSUME NEW j \in 1 .. N, j - 1 \in Good PROVE j \in Good
    BY <1>3, <1>7, <2>2
  <2>3. N \in 0 .. N
    BY <1>2
  <2>. HIDE DEF Good, N
  <2>. QED BY <1>2, <2>1, <2>2, <2>3, UpTo
<1>. QED BY <1>1, <1>6, <1>8
ShellQuoted(text) == [text |-> text, quoted |-> TRUE, kept |-> FALSE]

\* The steps of the shell, one field at a time.
LEMMA StateSteps ==
  ASSUME NEW t, NEW q, NEW k, NEW l
  PROVE  /\ [[text |-> t, quoted |-> q, kept |-> k] EXCEPT !.quoted = l] = [text |-> t, quoted |-> l, kept |-> k]
         /\ [[text |-> t, quoted |-> q, kept |-> k] EXCEPT !.kept = l] = [text |-> t, quoted |-> q, kept |-> l]
OBVIOUS

\* Four elements one by one, or as a sequence.
OneByOne(w, a, b, c, d) == (((w \o <<a>>) \o <<b>>) \o <<c>>) \o <<d>> = w \o <<a, b, c, d>>

LEMMA FourMore ==
  ASSUME NEW w \in Seq(Int), NEW a \in Int, NEW b \in Int, NEW c \in Int, NEW d \in Int
  PROVE  OneByOne(w, a, b, c, d)
<1>. DEFINE N == Len(w)
            w1 == w \o <<a>>
            w2 == w1 \o <<b>>
            w3 == w2 \o <<c>>
            left == w3 \o <<d>>
            four == <<a, b, c, d>>
            right == w \o four
<1>1. \A u \in Seq(Int) : \A x \in Int :
        /\ u \o <<x>> \in Seq(Int) /\ Len(u \o <<x>>) = Len(u) + 1 /\ (u \o <<x>>)[Len(u) + 1] = x
        /\ \A i \in 1 .. Len(u) : (u \o <<x>>)[i] = u[i]
  OBVIOUS
<1>2. N \in Nat
  OBVIOUS
<1>3. w1 \in Seq(Int) /\ Len(w1) = N + 1 /\ w1[N + 1] = a /\ \A i \in 1 .. N : w1[i] = w[i]
  BY <1>1
<1>. HIDE DEF w1
<1>4. w2 \in Seq(Int) /\ Len(w2) = Len(w1) + 1 /\ w2[Len(w1) + 1] = b /\ \A i \in 1 .. Len(w1) : w2[i] = w1[i]
  BY <1>1, <1>3
<1>. HIDE DEF w2
<1>5. w3 \in Seq(Int) /\ Len(w3) = Len(w2) + 1 /\ w3[Len(w2) + 1] = c /\ \A i \in 1 .. Len(w2) : w3[i] = w2[i]
  BY <1>1, <1>4
<1>. HIDE DEF w3
<1>6. left \in Seq(Int) /\ Len(left) = Len(w3) + 1 /\ left[Len(w3) + 1] = d /\ \A i \in 1 .. Len(w3) : left[i] = w3[i]
  BY <1>1, <1>5
<1>. HIDE DEF left
<1>7. four \in Seq(Int) /\ Len(four) = 4 /\ four[1] = a /\ four[2] = b /\ four[3] = c /\ four[4] = d
  OBVIOUS
<1>. HIDE DEF four
<1>8. /\ right \in Seq(Int) /\ Len(right) = N + Len(four)
      /\ \A i \in 1 .. N + Len(four) : right[i] = IF i <= N THEN w[i] ELSE four[i - N]
  BY <1>7, ConcatProperties
<1>. HIDE DEF N, right
<1>9. /\ Len(left) = N + 4 /\ left[N + 1] = a /\ left[N + 2] = b /\ left[N + 3] = c /\ left[N + 4] = d
      /\ \A i \in 1 .. N : left[i] = w[i]
  BY <1>2, <1>3, <1>4, <1>5, <1>6
<1>10. /\ Len(right) = N + 4 /\ right[N + 1] = a /\ right[N + 2] = b /\ right[N + 3] = c /\ right[N + 4] = d
       /\ \A i \in 1 .. N : right[i] = w[i]
  BY <1>2, <1>7, <1>8
<1>11. \A i \in 1 .. N + 4 : i \in 1 .. N \/ i = N + 1 \/ i = N + 2 \/ i = N + 3 \/ i = N + 4
  BY <1>2
<1>12. \A i \in 1 .. Len(left) : left[i] = right[i]
  BY <1>9, <1>10, <1>11
<1>13. left = right
  BY <1>6, <1>8, <1>9, <1>10, <1>12, SeqEqual
<1>. QED BY <1>13 DEF OneByOne, left, right, w1, w2, w3, four

LEMMA Regrouped ==
  ASSUME NEW S
  PROVE  \A s, t, u \in Seq(S) : (s \o t) \o u = s \o (t \o u)
BY ConcatAssociative

LEMMA RegroupedText == \A s, t, u \in Seq(Int) : (s \o t) \o u = s \o (t \o u)
BY Regrouped

\* What v.replace("'", "'\\''") writes for one character reads as that character,
\* inside a quotation and back inside it.
LEMMA OneCharacter ==
  ASSUME NEW w \in Seq(Int), NEW text \in Seq(Int), NEW c \in Int, After(w, ShellQuoted(text))
  PROVE  After(w \o (IF c = Apostrophe THEN <<Apostrophe, Backslash, Apostrophe, Apostrophe>> ELSE <<c>>),
               ShellQuoted(Append(text, c)))
<1>1. CASE c # Apostrophe
  <2>1. After(w \o <<c>>, ShellStep(ShellQuoted(text), c))
    BY AfterOneMore
  <2>2. ShellStep(ShellQuoted(text), c) = ShellQuoted(Append(text, c))
    BY <1>1 DEF ShellStep, ShellQuoted
  <2>. QED BY <1>1, <2>1, <2>2
<1>2. CASE c = Apostrophe
  <2>. DEFINE w1 == w \o <<39>>
              w2 == w1 \o <<92>>
              w3 == w2 \o <<39>>
              w4 == w3 \o <<39>>
              s1 == [text |-> text, quoted |-> FALSE, kept |-> FALSE]
              s2 == [text |-> text, quoted |-> FALSE, kept |-> TRUE]
              s3 == [text |-> Append(text, 39), quoted |-> FALSE, kept |-> FALSE]
  <2>1. w1 \in Seq(Int) /\ w2 \in Seq(Int) /\ w3 \in Seq(Int) /\ 39 \in Int /\ 92 \in Int
    BY ConcatProperties
  <2>2. /\ ShellStep(ShellQuoted(text), 39) = s1 /\ ShellStep(s1, 92) = s2
        /\ ShellStep(s2, 39) = s3 /\ ShellStep(s3, 39) = ShellQuoted(Append(text, 39))
    <3>1. ShellStep(ShellQuoted(text), 39) = s1
      BY DEF ShellStep, ShellQuoted, Apostrophe, Backslash
    <3>2. ShellStep(s1, 92) = s2
      <4>1. ~s1.kept /\ ~s1.quoted /\ 92 # Apostrophe /\ 92 = Backslash
        BY DEF Apostrophe, Backslash
      <4>2. ShellStep(s1, 92) = [s1 EXCEPT !.kept = TRUE]
        <5>. HIDE DEF s1
        <5>. QED BY <4>1 DEF ShellStep
      <4>. QED BY <4>2, StateSteps
    <3>3. ShellStep(s2, 39) = s3
      BY DEF ShellStep, Apostrophe, Backslash
    <3>4. ShellStep(s3, 39) = ShellQuoted(Append(text, 39))
      BY DEF ShellStep, ShellQuoted, Apostrophe, Backslash
    <3>. QED BY <3>1, <3>2, <3>3, <3>4
  <2>. HIDE DEF s1, s2, s3
  <2>3. After(w1, s1)
    BY <2>1, <2>2, AfterOneMore
  <2>. HIDE DEF w1
  <2>4. After(w2, s2)
    BY <2>1, <2>2, <2>3, AfterOneMore
  <2>. HIDE DEF w2
  <2>5. After(w3, s3)
    BY <2>1, <2>2, <2>4, AfterOneMore
  <2>. HIDE DEF w3
  <2>6. After(w4, ShellQuoted(Append(text, 39)))
    BY <2>1, <2>2, <2>5, AfterOneMore
  <2>7. w4 = w \o <<39, 92, 39, 39>>
    <3>1. OneByOne(w, 39, 92, 39, 39)
      BY <2>1, FourMore
    <3>. QED BY <3>1 DEF OneByOne, w1, w2, w3
  <2>. QED BY <1>2, <2>6, <2>7 DEF Apostrophe, Backslash
<1>. QED BY <1>1, <1>2

\* Whatever a value is, a shell that reads its word gets the value.
LEMMA ShellRoundTrip ==
  ASSUME NEW v \in Seq(Int)
  PROVE  ShellTrip(v) = v
<1>. DEFINE piece(c) == IF c = Apostrophe THEN <<Apostrophe, Backslash, Apostrophe, Apostrophe>> ELSE <<c>>
            N == Len(v)
            parts == [j \in DOMAIN v |-> piece(v[j])]
<1>1. N \in Nat /\ DOMAIN v = 1 .. N /\ \A j \in 1 .. N : v[j] \in Int
  OBVIOUS
<1>2. \A c \in Int : piece(c) \in Seq(Int)
  BY DEF Apostrophe, Backslash
<1>3. /\ parts \in Seq(Seq(Int)) /\ Len(parts) = N
      /\ \A j \in 1 .. N : parts[j] = piece(v[j])
  <2>. HIDE DEF piece, N
  <2>. QED BY <1>1, <1>2
<1>4. Replaced(v) = FlattenSeq(parts)
  BY DEF Replaced, Concat
<1>. HIDE DEF parts
<1>5. PICK F \in [0 .. N -> Seq(Int)] : Concatenates(F, parts)
  BY <1>3, Flattened
<1>. DEFINE Good == {j \in 0 .. N : After(<<39>> \o F[j], ShellQuoted(SubSeq(v, 1, j)))}
<1>6. 0 \in Good
  <2>1. After(<< >> \o <<39>>, ShellStep(ShellStart, 39))
    <3>1. << >> \in Seq(Int) /\ 39 \in Int
      BY EmptySeq
    <3>. QED BY <3>1, AfterNothing, AfterOneMore
  <2>2. ShellStep(ShellStart, 39) = ShellQuoted(<< >>)
    BY DEF ShellStep, ShellStart, ShellQuoted, Apostrophe
  <2>3. << >> \o <<39>> = <<39>> /\ <<39>> \o << >> = <<39>> /\ SubSeq(v, 1, 0) = << >>
    <3>1. <<39>> \in Seq(Int)
      OBVIOUS
    <3>. QED BY <3>1, ConcatEmptySeq, SubSeqEmpty
  <2>4. F[0] = << >>
    BY <1>5 DEF Concatenates
  <2>5. After(<<39>> \o F[0], ShellQuoted(SubSeq(v, 1, 0)))
    BY <2>1, <2>2, <2>3, <2>4, Zenon
  <2>. QED BY <1>1, <2>5
<1>7. ASSUME NEW j \in 1 .. N, j - 1 \in Good PROVE j \in Good
  <2>. DEFINE before == SubSeq(v, 1, j - 1)
              w == <<39>> \o F[j - 1]
  <2>1. j \in 0 .. N /\ j - 1 \in 0 .. N /\ v[j] \in Int
    BY <1>1
  <2>2. before \in Seq(Int) /\ Append(before, v[j]) = SubSeq(v, 1, j)
    <3>1. before \in Seq(Int)
      BY <1>1
    <3>2. SubSeq(v, 1, j) = before \o <<v[j]>>
      BY <1>1, SubSeqRecursiveSecond
    <3>3. Append(before, v[j]) = before \o <<v[j]>>
      BY <2>1, <3>1, AppendIsConcat
    <3>. QED BY <3>1, <3>2, <3>3
  <2>3. F[j - 1] \in Seq(Int) /\ w \in Seq(Int) /\ <<39>> \in Seq(Int)
    BY <1>5, <2>1, ConcatProperties
  <2>4. After(w, ShellQuoted(before))
    BY <1>7
  <2>5. After(w \o piece(v[j]), ShellQuoted(Append(before, v[j])))
    <3>. HIDE DEF w, before
    <3>. QED BY <2>1, <2>2, <2>3, <2>4, OneCharacter
  <2>6. w \o piece(v[j]) = <<39>> \o F[j]
    <3>1. F[j] = F[j - 1] \o piece(v[j])
      BY <1>3, <1>5 DEF Concatenates
    <3>2. piece(v[j]) \in Seq(Int)
      BY <1>2, <2>1
    <3>3. ASSUME NEW s \in Seq(Int), NEW t \in Seq(Int), NEW u \in Seq(Int)
          PROVE  (s \o t) \o u = s \o (t \o u)
      BY RegroupedText
    <3>4. (<<39>> \o F[j - 1]) \o piece(v[j]) = <<39>> \o (F[j - 1] \o piece(v[j]))
      <4>. HIDE DEF piece
      <4>. QED BY <2>3, <3>2, <3>3
    <3>. QED BY <3>1, <3>4
  <2>. QED BY <2>1, <2>2, <2>5, <2>6
<1>8. N \in Good
  <2>1. N \in 0 .. N
    BY <1>1
  <2>. HIDE DEF Good, N
  <2>. QED BY <1>1, <1>6, <1>7, <2>1, UpTo
<1>9. After(<<39>> \o Replaced(v), ShellQuoted(v))
  <2>1. SubSeq(v, 1, N) = v
    BY SubSeqFull
  <2>2. F[N] = Replaced(v)
    BY <1>3, <1>4, <1>5 DEF Concatenates
  <2>. QED BY <1>8, <2>1, <2>2
<1>10. Replaced(v) \in Seq(Int)
  BY <1>3, <1>4, FlattenType
<1>. DEFINE w == <<39>> \o Replaced(v)
<1>11. w \in Seq(Int) /\ w \o <<39>> \in Seq(Int) /\ ShellWord(v) = w \o <<39>>
  BY <1>10, ConcatProperties DEF ShellWord, Apostrophe
<1>12. After(w \o <<39>>, ShellStep(ShellQuoted(v), 39))
  <2>1. After(w, ShellQuoted(v)) /\ 39 \in Int
    BY <1>9
  <2>. HIDE DEF w
  <2>. QED BY <1>11, <2>1, AfterOneMore
<1>13. ShellReads(w \o <<39>>) = ShellStep(ShellQuoted(v), 39).text
  <2>. HIDE DEF w
  <2>. QED BY <1>11, <1>12, AfterIsRead
<1>14. ShellStep(ShellQuoted(v), 39).text = v
  BY DEF ShellStep, ShellQuoted, Apostrophe
<1>. QED BY <1>11, <1>13, <1>14 DEF ShellTrip
-----------------------------------------------------------------------------
(* What each consumer ends up with.                                        *)

\* A value without a line break is a line of docker's file, and all of it.
LEMMA DockerKeeps ==
  ASSUME NEW v \in Seq(Int), ~Breaks(v)
  PROVE  DockerReads(v) = v
<1>1. \A j \in 1 .. Len(v) : v[j] # LineFeed /\ v[j] # CarriageReturn
  BY DEF Breaks
<1>2. {j \in DOMAIN v : v[j] = LineFeed} = {}
  BY <1>1
<1>3. CASE v = << >>
  BY <1>2, <1>3 DEF DockerReads
<1>4. CASE v # << >>
  <2>1. Len(v) \in 1 .. Len(v)
    BY <1>4
  <2>2. Last(v) # CarriageReturn
    BY <1>1, <2>1 DEF Last
  <2>. QED BY <1>2, <1>4, <2>2 DEF DockerReads
<1>. QED BY <1>3, <1>4

\* A name of the environment has the value of one of the pairs with that name.
LEMMA EnvironmentPicks ==
  ASSUME NEW pairs \in Seq(Pair), NEW name \in DOMAIN Environment(pairs)
  PROVE  \E j \in DOMAIN pairs : pairs[j].key = name /\ Environment(pairs)[name] = pairs[j].value
<1>. DEFINE J == {j \in DOMAIN pairs : pairs[j].key = name}
<1>1. name \in {pairs[j].key : j \in DOMAIN pairs}
  BY DEF Environment
<1>2. J # {} /\ J \in SUBSET (1 .. Len(pairs)) /\ Len(pairs) \in Nat
  BY <1>1
<1>3. Max(J) \in J
  <2>. HIDE DEF J
  <2>. QED BY <1>2, MaxOfBounded
<1>4. Environment(pairs)[name] = pairs[Max(J)].value
  BY <1>1 DEF Environment
<1>. HIDE DEF J
<1>5. Max(J) \in DOMAIN pairs /\ pairs[Max(J)].key = name
  BY <1>3 DEF J
<1>. QED BY <1>4, <1>5

LEMMA EnvironmentType ==
  ASSUME NEW pairs \in Seq(Pair), NEW name \in DOMAIN Environment(pairs)
  PROVE  Environment(pairs)[name] \in Seq(Int)
<1>1. PICK j \in DOMAIN pairs : Environment(pairs)[name] = pairs[j].value
  BY EnvironmentPicks
<1>2. pairs[j] \in Pair
  OBVIOUS
<1>. QED BY <1>1, <1>2 DEF Pair

LEMMA EnvironmentIsFunction ==
  ASSUME NEW pairs
  PROVE  Environment(pairs) = [name \in DOMAIN Environment(pairs) |-> Environment(pairs)[name]]
BY DEF Environment

\* A shell is given every value of the environment.
LEMMA ShellGiven ==
  ASSUME NEW pairs \in Seq(Pair)
  PROVE  Through(ShellTrip, Environment(pairs)) = Environment(pairs)
<1>. DEFINE env == Environment(pairs)
<1>1. \A name \in DOMAIN env : ShellTrip(env[name]) = env[name]
  BY EnvironmentType, ShellRoundTrip
<1>2. env = [name \in DOMAIN env |-> env[name]]
  BY EnvironmentIsFunction
<1>. HIDE DEF env
<1>3. [name \in DOMAIN env |-> ShellTrip(env[name])] = [name \in DOMAIN env |-> env[name]]
  BY <1>1
<1>4. Through(ShellTrip, env) = [name \in DOMAIN env |-> ShellTrip(env[name])]
  BY DEF Through
<1>. QED BY <1>2, <1>3, <1>4 DEF env

\* Docker is given every value of an environment that mode envfile does not refuse.
LEMMA DockerGiven ==
  ASSUME NEW pairs \in Seq(Pair), ~EnvfileRefuses(pairs)
  PROVE  Through(DockerReads, Environment(pairs)) = Environment(pairs)
<1>. DEFINE env == Environment(pairs)
<1>1. ASSUME NEW name \in DOMAIN env PROVE DockerReads(env[name]) = env[name]
  <2>1. PICK j \in DOMAIN pairs : env[name] = pairs[j].value
    BY EnvironmentPicks
  <2>2. ~Breaks(env[name])
    BY <2>1 DEF EnvfileRefuses
  <2>3. env[name] \in Seq(Int)
    BY EnvironmentType
  <2>. QED BY <2>2, <2>3, DockerKeeps
<1>2. env = [name \in DOMAIN env |-> env[name]]
  BY EnvironmentIsFunction
<1>. HIDE DEF env
<1>3. [name \in DOMAIN env |-> DockerReads(env[name])] = [name \in DOMAIN env |-> env[name]]
  BY <1>1
<1>4. Through(DockerReads, env) = [name \in DOMAIN env |-> DockerReads(env[name])]
  BY DEF Through
<1>. QED BY <1>2, <1>3, <1>4 DEF env

\* When no name is in two pairs, sorting them changes nothing.
LEMMA K8sGiven ==
  ASSUME NEW pairs \in Seq(Pair),
         \A i, l \in DOMAIN pairs : pairs[i].key = pairs[l].key => i = l
  PROVE  K8sEnvironment(pairs) = Environment(pairs)
<1>. DEFINE names == {pairs[j].key : j \in DOMAIN pairs}
            J(name) == {j \in DOMAIN pairs : pairs[j].key = name}
            V(name) == {pairs[j].value : j \in J(name)}
<1>1. ASSUME NEW name \in names PROVE Greatest(V(name)) = pairs[Max(J(name))].value
  <2>1. PICK j \in DOMAIN pairs : pairs[j].key = name
    OBVIOUS
  <2>2. J(name) = {j}
    BY <2>1
  <2>3. J(name) # {} /\ J(name) \in SUBSET (1 .. Len(pairs)) /\ Len(pairs) \in Nat
    BY <2>2
  <2>4. Max(J(name)) = j
    <3>1. Max(J(name)) \in J(name)
      <4>. HIDE DEF J
      <4>. QED BY <2>3, MaxOfBounded
    <3>. QED BY <2>2, <3>1
  <2>5. V(name) = {pairs[j].value}
    BY <2>2
  <2>6. ASSUME NEW v PROVE Greatest({v}) = v
    BY DEF Greatest
  <2>. QED BY <2>4, <2>5, <2>6
<1>2. K8sEnvironment(pairs) = [name \in names |-> Greatest(V(name))]
  BY DEF K8sEnvironment
<1>3. Environment(pairs) = [name \in names |-> pairs[Max(J(name))].value]
  BY DEF Environment
<1>. HIDE DEF names, J, V
<1>. QED BY <1>1, <1>2, <1>3

\* So a consumer that is given anything is given the environment of the file.
LEMMA ConsumerGives ==
  ASSUME NEW s \in Stream, NEW mode \in Modes, mode # "k8s" \/ Distinct(s)
  PROVE  Consumer(mode, s) = Refused \/ Consumer(mode, s) = Given(Environment(parse(s)))
<1>. SUFFICES ASSUME ~ParseFails(s)
              PROVE  Consumer(mode, s) = Refused \/ Consumer(mode, s) = Given(Environment(parse(s)))
  BY DEF Consumer
<1>1. parse(s) \in Seq(Pair)
  BY ParseType
<1>2. CASE mode = "shell"
  <2>1. Consumer(mode, s) = Given(Through(ShellTrip, Environment(parse(s))))
    BY <1>2 DEF Consumer
  <2>. QED BY <1>1, <2>1, ShellGiven
<1>3. CASE mode = "k8s"
  <2>1. Consumer(mode, s) = Given(K8sEnvironment(parse(s)))
    BY <1>3 DEF Consumer
  <2>2. \A i, l \in DOMAIN parse(s) : parse(s)[i].key = parse(s)[l].key => i = l
    BY <1>3, PairsDistinct
  <2>. QED BY <1>1, <2>1, <2>2, K8sGiven
<1>4. CASE mode = "envfile"
  <2>1. CASE EnvfileRefuses(parse(s))
    BY <1>4, <2>1 DEF Consumer
  <2>2. CASE ~EnvfileRefuses(parse(s))
    <3>1. Consumer(mode, s) = Given(Through(DockerReads, Environment(parse(s))))
      BY <1>4, <2>2 DEF Consumer
    <3>. QED BY <1>1, <2>2, <3>1, DockerGiven
  <2>. QED BY <2>1, <2>2
<1>. QED BY <1>2, <1>3, <1>4 DEF Modes

-----------------------------------------------------------------------------
(* The invariant: what a consumer holds is what its mode makes of the one  *)
(* file, which nothing changes.                                            *)

LoadedInv ==
  /\ stream \in Stream
  /\ DOMAIN loaded = Modes
  /\ \A mode \in Modes : loaded[mode] = NotLoaded \/ loaded[mode] = Consumer(mode, stream)

LEMMA LoadedInit == Init => LoadedInv
BY StreamsAssumption DEF Init, LoadedInv

LEMMA LoadedStep == LoadedInv /\ [Next]_vars => LoadedInv'
<1>. SUFFICES ASSUME LoadedInv, [Next]_vars PROVE LoadedInv'
  OBVIOUS
<1>1. ASSUME NEW mode \in Modes, Load(mode) PROVE LoadedInv'
  BY <1>1 DEF LoadedInv, Load
<1>2. CASE UNCHANGED vars
  BY <1>2 DEF LoadedInv, vars
<1>. QED BY <1>1, <1>2 DEF Next

LEMMA Loaded == Spec => []LoadedInv
BY LoadedInit, LoadedStep, PTL DEF Spec

LEMMA GivenEnv == \A e : Given(e).ok /\ Given(e).env = e /\ ~Refused.ok
BY DEF Given, Refused

LEMMA WhatIsLoaded ==
  ASSUME LoadedInv, NEW mode \in Modes, mode # "k8s" \/ NamesAreUnique,
         loaded[mode] # NotLoaded, loaded[mode].ok
  PROVE  loaded[mode].env = Environment(parse(stream))
<1>1. stream \in Stream /\ loaded[mode] = Consumer(mode, stream)
  BY DEF LoadedInv
<1>2. mode # "k8s" \/ Distinct(stream)
  BY DEF NamesAreUnique, Distinct
<1>3. Consumer(mode, stream) = Refused \/ Consumer(mode, stream) = Given(Environment(parse(stream)))
  BY <1>1, <1>2, ConsumerGives
<1>. QED BY <1>1, <1>3, GivenEnv

\* "Every consumer must agree on what a value is" (.just/dotenv.py:6): two of the
\* three consumers that were given a file in which no name is assigned twice were
\* given the same, whatever its values are made of.
THEOREM ConsumersOfAFile == Spec => []ConsumersAgree
<1>1. LoadedInv => ConsumersAgree
  <2>. SUFFICES ASSUME LoadedInv, NamesAreUnique, NEW mode \in Modes, NEW other \in Modes
                PROVE  Agree(loaded[mode], loaded[other])
    BY DEF ConsumersAgree
  <2>. SUFFICES ASSUME loaded[mode] # NotLoaded, loaded[other] # NotLoaded,
                       loaded[mode].ok, loaded[other].ok
                PROVE  loaded[mode].env = loaded[other].env
    BY DEF Agree
  <2>. QED BY WhatIsLoaded
<1>. QED BY <1>1, Loaded, PTL

\* Mode envfile "exits non-zero instead of truncating" (.just/dotenv.py:25): a
\* container that is given a file is given all of every value, repeated names or not.
THEOREM ContainerGetsAll == Spec => []NothingTruncated
<1>1. LoadedInv => NothingTruncated
  BY WhatIsLoaded DEF NothingTruncated, Modes
<1>. QED BY <1>1, Loaded, PTL
=============================================================================
