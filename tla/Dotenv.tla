------------------------------- MODULE Dotenv -------------------------------
(***************************************************************************)
(* .just/dotenv.py: the decrypted lines of an environment file turned into *)
(* what a shell, docker and a Kubernetes Secret are given.  Text is a      *)
(* sequence of code points.  A line of the file keeps what parse looks at: *)
(* whether it assigns a variable, how the value is quoted, and where an    *)
(* escape sequence stands in it.                                           *)
(***************************************************************************)
EXTENDS Integers, Sequences, SequencesExt, FiniteSetsExt

CONSTANTS Name,      \* variable names, sops_ rows aside
          SopsName,  \* the names of sops' own rows
          Char       \* the code points values are written with

ASSUME NameAssumption == Name \cap SopsName = {}
ASSUME CharAssumption == Char \subseteq (0 .. 2047) \ {10, 13, 34, 92}

LineFeed       == 10
CarriageReturn == 13
Apostrophe     == 39
Backslash      == 92

Escapes == {"n", "r", "backslash", "truncated"}

\* A raw value: its quotes and what is between them.  An escape is one item.
\* A value without quotes does not begin and end with one.
Item  == [char : Char] \union [esc : Escapes]

Enclosed(items) == Len(items) >= 2 /\ items[1] = [char |-> 39] /\ items[Len(items)] = [char |-> 39]

Raw == {raw \in [quote : {"double", "single", "none"}, items : Seq(Item)] :
          raw.quote = "none" => ~Enclosed(raw.items)}

\* A line that assigns, and every line parse skips.
Line   == [key : Name \union SopsName, value : Raw] \union {[skipped |-> TRUE]}
Stream == Seq(Line)

Assigns(line) == "key" \in DOMAIN line

Utf8(c) == IF c < 128 THEN <<c>> ELSE <<192 + (c \div 64), 128 + (c % 64)>>

EscapeText == [n |-> <<LineFeed>>, r |-> <<CarriageReturn>>, backslash |-> <<Backslash>>]

EscapeSource == [n |-> <<Backslash, 110>>, r |-> <<Backslash, 114>>,
                 backslash |-> <<Backslash, Backslash>>, truncated |-> <<Backslash, 120>>]

\* v.encode().decode("unicode_escape"): escapes are expanded, and every byte of
\* the UTF-8 encoding becomes a character of its own.
Decoded(item) == IF "char" \in DOMAIN item THEN Utf8(item.char) ELSE EscapeText[item.esc]

Literal(item) == IF "char" \in DOMAIN item THEN <<item.char>> ELSE EscapeSource[item.esc]

Concat(parts) == FlattenSeq(parts)

Undecodable(raw) ==
  raw.quote = "double" /\ \E j \in DOMAIN raw.items : raw.items[j] = [esc |-> "truncated"]

Text(raw) ==
  Concat([j \in DOMAIN raw.items |->
            IF raw.quote = "double" THEN Decoded(raw.items[j]) ELSE Literal(raw.items[j])])

IsVariable(line) == Assigns(line) /\ line.key \notin SopsName

\* An escape that unicode_escape cannot read ends the program with a traceback.
ParseFails(stream) == \E j \in DOMAIN stream : IsVariable(stream[j]) /\ Undecodable(stream[j].value)

parse(stream) ==
  LET out[j \in 0 .. Len(stream)] ==
        IF j = 0 THEN << >>
        ELSE IF IsVariable(stream[j])
             THEN Append(out[j - 1], [key |-> stream[j].key, value |-> Text(stream[j].value)])
             ELSE out[j - 1]
  IN out[Len(stream)]

-----------------------------------------------------------------------------
(* What a consumer ends up with: the last assignment of a name wins.       *)

Environment(pairs) ==
  [name \in {pairs[j].key : j \in DOMAIN pairs} |->
     pairs[Max({j \in DOMAIN pairs : pairs[j].key = name})].value]

Replaced(v) ==
  Concat([j \in DOMAIN v |->
            IF v[j] = Apostrophe THEN <<Apostrophe, Backslash, Apostrophe, Apostrophe>> ELSE <<v[j]>>])

\* Mutant of ShellWord: the value is quoted and its own quotes are left alone.
ShellWord_unescaped(v) == <<Apostrophe>> \o v \o <<Apostrophe>>

\* "'" + v.replace("'", "'\\''") + "'"
ShellWord(v) == <<Apostrophe>> \o Replaced(v) \o <<Apostrophe>>

\* A shell reads such a word character by character: an apostrophe opens and closes
\* a quotation, and outside of one a backslash keeps the next character.
ShellStart == [text |-> << >>, quoted |-> FALSE, kept |-> FALSE]

ShellStep(state, c) ==
  IF ~state.kept /\ c = Apostrophe THEN [state EXCEPT !.quoted = ~@]
  ELSE IF ~state.kept /\ ~state.quoted /\ c = Backslash THEN [state EXCEPT !.kept = TRUE]
  ELSE [state EXCEPT !.text = Append(@, c), !.kept = FALSE]

ShellReads(word) ==
  LET state[j \in 0 .. Len(word)] == IF j = 0 THEN ShellStart ELSE ShellStep(state[j - 1], word[j])
  IN state[Len(word)].text

\* What docker reads of K=V: the line, which ends at the first line feed, without
\* a carriage return at its end.
DockerReads(v) ==
  LET ends == {j \in DOMAIN v : v[j] = LineFeed}
      line == IF ends = {} THEN v ELSE SubSeq(v, 1, Min(ends) - 1)
  IN IF line # << >> /\ Last(line) = CarriageReturn THEN Front(line) ELSE line

Breaks(v) == \E j \in DOMAIN v : v[j] \in {LineFeed, CarriageReturn}

\* Mutant of EnvfileRefuses: only line feeds are looked for.
EnvfileRefuses_lf_only(pairs) ==
  \E j \in DOMAIN pairs : \E k \in DOMAIN pairs[j].value : pairs[j].value[k] = LineFeed

\* Mode envfile exits without a line of output when a value does not fit in one.
EnvfileRefuses(pairs) == \E j \in DOMAIN pairs : Breaks(pairs[j].value)

Less(v, w) ==
  \E k \in 1 .. Len(w) : /\ \A j \in 1 .. (k - 1) : j <= Len(v) /\ v[j] = w[j]
                         /\ k > Len(v) \/ v[k] < w[k]

\* Mode k8s emits sorted(pairs): values of one name in their own order.  A reader
\* of the YAML keeps the last.
Greatest(values) == CHOOSE v \in values : \A w \in values : v = w \/ Less(w, v)

K8sEnvironment(pairs) ==
  [name \in {pairs[j].key : j \in DOMAIN pairs} |->
     Greatest({pairs[j].value : j \in {k \in DOMAIN pairs : pairs[k].key = name}})]

Through(reads(_), env) == [name \in DOMAIN env |-> reads(env[name])]

ShellTrip(v) == ShellReads(ShellWord(v))

Refused == [ok |-> FALSE]
Given(env) == [ok |-> TRUE, env |-> env]

\* main: what the consumer of each mode is given, or nothing.
Consumer(mode, stream) ==
  LET pairs == parse(stream)
  IN IF ParseFails(stream) THEN Refused
     ELSE IF mode = "shell" THEN Given(Through(ShellTrip, Environment(pairs)))
     ELSE IF mode = "k8s" THEN Given(K8sEnvironment(pairs))
     ELSE IF EnvfileRefuses(pairs) THEN Refused
     ELSE Given(Through(DockerReads, Environment(pairs)))
=============================================================================
