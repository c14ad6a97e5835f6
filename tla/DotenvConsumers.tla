-------------------------- MODULE DotenvConsumers --------------------------
(***************************************************************************)
(* One environment file and its three consumers, which load it one after   *)
(* the other in any order.                                                 *)
(***************************************************************************)
EXTENDS Dotenv

CONSTANTS Streams,  \* the files considered
          NotLoaded

ASSUME StreamsAssumption == Streams \subseteq Stream

Modes == {"shell", "envfile", "k8s"}

VARIABLES stream, loaded

vars == <<stream, loaded>>

Init ==
  /\ stream \in Streams
  /\ loaded = [mode \in Modes |-> NotLoaded]

Load(mode) ==
  /\ loaded[mode] = NotLoaded
  /\ loaded' = [loaded EXCEPT ![mode] = Consumer(mode, stream)]
  /\ UNCHANGED stream

Next == \E mode \in Modes : Load(mode)

Spec == Init /\ [][Next]_vars

-----------------------------------------------------------------------------
Agree(given, other) ==
  (given # NotLoaded /\ other # NotLoaded /\ given.ok /\ other.ok) => given.env = other.env

NamesAreUnique ==
  \A j, k \in DOMAIN stream :
    (IsVariable(stream[j]) /\ IsVariable(stream[k]) /\ stream[j].key = stream[k].key) => j = k

\* "Every consumer must agree on what a value is" (.just/dotenv.py:6): two
\* consumers that were given a file without repeated names were given the same.
ConsumersAgree ==
  NamesAreUnique => \A mode, other \in Modes : Agree(loaded[mode], loaded[other])

\* Mode envfile "exits non-zero instead of truncating" (.just/dotenv.py:25): what
\* a container is given of a variable is all of it.
NothingTruncated ==
  (loaded["envfile"] # NotLoaded /\ loaded["envfile"].ok) =>
    loaded["envfile"].env = Environment(parse(stream))

\* The characters of a double-quoted value, when none is part of an escape.
PlainText(raw) == [j \in DOMAIN raw.items |-> raw.items[j].char]

\* A double-quoted value has its quotes stripped and \n \t \r \\ expanded
\* (.just/dotenv.py:10): without an escape in it, its characters are the value.
QuotedTextIsKept ==
  (loaded["k8s"] # NotLoaded /\ loaded["k8s"].ok /\ NamesAreUnique) =>
    \A j \in DOMAIN stream :
      (IsVariable(stream[j]) /\ stream[j].value.quote = "double"
         /\ \A k \in DOMAIN stream[j].value.items : "char" \in DOMAIN stream[j].value.items[k])
      => loaded["k8s"].env[stream[j].key] = PlainText(stream[j].value)
=============================================================================
