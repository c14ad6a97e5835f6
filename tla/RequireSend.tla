---------------------------- MODULE RequireSend ----------------------------
(***************************************************************************)
(* analyzeSource of require-send.mjs: the scanner that looks in Rust, Dart *)
(* and Gleam for chains of logger calls that reach a level method and      *)
(* never a terminal one. One step is one round of its loop over tokens;    *)
(* main calls it for one file after the other.                             *)
(***************************************************************************)
EXTENDS SourceTokens, PendingEvents

CONSTANTS Logger,   \* the identifiers looksLikeLogger accepts
          Source,   \* the files to scan
          Language  \* of "rust", "dart" and "gleam"

VARIABLES language, tokens, suppressions,
          i,         \* the token the loop is at
          scopes,    \* a scope per open brace, and the file's own; none once it is done
          findings

vars == <<language, tokens, suppressions, i, scopes, findings>>

LEVEL    == {"trace", "debug", "info", "log", "warn", "error", "fatal"}
TERMINAL == {"send", "send_with_store"}

Token == [type : STRING, value : STRING, line : Nat]

Scanned == scopes = <<>>

Init ==
  /\ language \in Language
  /\ tokens = <<>> /\ suppressions = collectSuppressions(<<>>)
  /\ i = 1
  /\ scopes = <<>>
  /\ findings = {}

analyzeSource(source, lang) ==
  /\ Scanned
  /\ language' = lang
  /\ tokens' = tokenize(source)
  /\ suppressions' = collectSuppressions(source)
  /\ i' = 1
  /\ scopes' = <<{}>>
  /\ findings' = {}

-----------------------------------------------------------------------------
T(k, type) == k \in DOMAIN tokens /\ tokens[k].type = type

IsIdent(k, values) == T(k, "ident") /\ tokens[k].value \in values

Closing(k) == \E type \in {")", "]", "}"} : T(k, type)
Opening(k) == \E type \in {"(", "[", "{"} : T(k, type)

\* The first k from start on with P, or the last token.
FirstToken(start, P(_)) ==
  LET found == {k \in start .. Len(tokens) : P(k)}
  IN IF found = {} THEN Len(tokens) ELSE CHOOSE k \in found : \A j \in found : k <= j

skipBalanced(start) ==
  LET Depth(k) == Cardinality({j \in start .. k : T(j, "(")}) - Cardinality({j \in start .. k : T(j, ")")})
  IN FirstToken(start, LAMBDA k : T(k, ")") /\ Depth(k) = 0)

\* Identifiers joined by dots from a to b.
Dotted(a, b) ==
  (b - a) % 2 = 0 /\ \A k \in a .. b : T(k, IF (b - k) % 2 = 0 THEN "ident" ELSE ".")

qualifiedStart(k) == CHOOSE a \in 1 .. k : Dotted(a, k) /\ \A b \in 1 .. k : Dotted(b, k) => a <= b

qualifiedEnd(k) ==
  CHOOSE b \in k .. Len(tokens) : Dotted(k, b) /\ \A c \in k .. Len(tokens) : Dotted(k, c) => c <= b

qualifiedName(k) ==
  LET a == qualifiedStart(k)
  IN [j \in 1 .. (k - a) \div 2 + 1 |-> tokens[a + 2 * (j - 1)].value]

\* Mutant of countTopLevelArgs: commas of nested calls count.
countTopLevelArgs_nested(lparen) ==
  1 + Cardinality({k \in lparen .. skipBalanced(lparen) : T(k, ",")})

countTopLevelArgs(lparen) ==
  LET Depth(k) == Cardinality({j \in lparen .. k : Opening(j)}) - Cardinality({j \in lparen .. k : Closing(j)})
      end      == FirstToken(lparen, LAMBDA k : Closing(k) /\ Depth(k) = 0)
      top      == {k \in lparen .. end : Depth(k) = 1 /\ ~Opening(k) /\ ~Closing(k)}
      commas   == {k \in top : T(k, ",")}
  IN IF top = commas THEN 0 ELSE Cardinality(commas) + 1

\* The methods called on the logger that the chain from start begins with, and its
\* last token.
walkMethodChain(start) ==
  LET Called(k) == T(k + 1, ".") /\ T(k + 2, "ident")
      Root[k \in DOMAIN tokens] ==
        IF Called(k) /\ ~T(k + 3, "(") /\ tokens[k + 2].value \notin LEVEL \union TERMINAL
        THEN Root[k + 2] ELSE k
      After(k) == IF T(k + 3, "(") THEN skipBalanced(k + 3) ELSE k + 2
      Methods[k \in DOMAIN tokens] ==
        IF ~Called(k) THEN [end |-> k, methods |-> <<>>]
        ELSE LET rest == Methods[After(k)]
             IN [end |-> rest.end, methods |-> <<tokens[k + 2].value>> \o rest.methods]
      root  == Root[start]
      chain == Methods[root]
  IN [root |-> qualifiedName(root), methods |-> chain.methods, end |-> chain.end,
      firstArgCount |-> IF T(root + 3, "(") THEN countTopLevelArgs(root + 3) ELSE 0]

\* A call, and what it is piped into; <<>> if there is no call.
walkGleamPipe(start) ==
  LET callee == qualifiedEnd(start)
      Skip(k) == IF T(k + 1, "(") THEN skipBalanced(k + 1) ELSE k
      Pipe[k \in DOMAIN tokens] ==
        IF ~T(k + 1, "|>") THEN [end |-> k, methods |-> <<>>]
        ELSE IF ~T(k + 2, "ident") THEN [end |-> k + 1, methods |-> <<>>]
        ELSE LET step == qualifiedEnd(k + 2)
                 rest == Pipe[Skip(step)]
             IN [end |-> rest.end, methods |-> <<tokens[step].value>> \o rest.methods]
      rest == Pipe[Skip(callee)]
  IN IF T(callee + 1, "(")
     THEN [end |-> rest.end, methods |-> <<tokens[callee].value>> \o rest.methods]
     ELSE [end |-> callee, methods |-> <<>>]

Calls(chain, names) == \E k \in DOMAIN chain.methods : chain.methods[k] \in names

precedingAssignment(start) == IF T(start - 1, "=") /\ T(start - 2, "ident") THEN <<tokens[start - 2].value>> ELSE <<>>

isReturnish(start) == T(start - 1, "=>") \/ IsIdent(start - 1, {"return"})

IsArgument(start) == T(start - 1, "(") \/ T(start - 1, ",")

\* The calls that deliver inside: logger.log(level, message, context).
IsConvenience(chain) == Len(chain.methods) = 1 /\ chain.firstArgCount >= 3
-----------------------------------------------------------------------------
Enabled(event) == ~isDisabled(suppressions, event.line)

\* What a scope still holds when it ends is reported.
flushScope(scope) == {event \in EventsIn(scope) : Enabled(event)}

Unchanged == UNCHANGED <<language, tokens, suppressions>>

OpenScope ==
  /\ ~Scanned /\ T(i, "{")
  /\ scopes' = Enter(scopes)
  /\ i' = i + 1
  /\ UNCHANGED findings /\ Unchanged

\* Mutant of CloseScope: the scope of the file goes with a brace too many.
CloseScope_unguarded ==
  /\ ~Scanned /\ T(i, "}")
  /\ findings' = findings \union flushScope(scopes[Len(scopes)])
  /\ scopes' = Exit(scopes)
  /\ i' = i + 1
  /\ Unchanged

\* A brace without its opening one leaves the scope of the file alone.
CloseScope ==
  /\ ~Scanned /\ T(i, "}")
  /\ IF Len(scopes) > 1
     THEN /\ findings' = findings \union flushScope(scopes[Len(scopes)])
          /\ scopes' = Exit(scopes)
     ELSE UNCHANGED <<findings, scopes>>
  /\ i' = i + 1
  /\ Unchanged

\* Mutant of TerminalUse: the argument of send(...) is not settled.
TerminalUse_no_argument ==
  /\ ~Scanned /\ IsIdent(i, TERMINAL)
  /\ scopes' = IF T(i - 1, ".") /\ T(i - 2, "ident") THEN Clear(scopes, qualifiedName(i - 2)) ELSE scopes
  /\ i' = i + 1
  /\ UNCHANGED findings /\ Unchanged

\* name.send(...), send(name), logging.send(name)
TerminalUse ==
  /\ ~Scanned /\ IsIdent(i, TERMINAL)
  /\ LET receiver == IF T(i - 1, ".") /\ T(i - 2, "ident") THEN Clear(scopes, qualifiedName(i - 2)) ELSE scopes
     IN scopes' = IF T(i + 1, "(") /\ T(i + 2, "ident") THEN Clear(receiver, <<tokens[i + 2].value>>) ELSE receiver
  /\ i' = i + 1
  /\ UNCHANGED findings /\ Unchanged

\* A level method that is called, or piped into, at token i.
LevelMethod ==
  /\ IsIdent(i, LEVEL)
  /\ IF language = "gleam"
     THEN ~IsIdent(i - 1, {"fn"}) /\ (T(i + 1, "(") \/ T(qualifiedStart(i) - 1, "|>"))
     ELSE T(i - 1, ".") /\ T(i + 1, "(") /\ T(i - 2, "ident")

\* Its chain: whether it is a logger's, where it starts and ends, whether it delivers,
\* and whether its value goes to whoever stands around it.
GleamChain ==
  LET start == qualifiedStart(i)
      pipe  == walkGleamPipe(start)
  IN [tracked |-> Calls(pipe, LEVEL),
      start |-> start, end |-> pipe.end,
      delivered |-> Calls(pipe, TERMINAL),
      handedOff |-> isReturnish(start) \/ IsArgument(start) \/ T(pipe.end + 1, "}")]

MethodChain ==
  LET start == qualifiedStart(i - 2)
      chain == walkMethodChain(start)
  IN [tracked |-> chain.root[Len(chain.root)] \in Logger /\ Calls(chain, LEVEL),
      start |-> start, end |-> chain.end,
      delivered |-> Calls(chain, TERMINAL) \/ IsConvenience(chain),
      handedOff |-> \/ isReturnish(start) \/ IsArgument(start)
                    \/ language = "rust" /\ ~T(chain.end + 1, ";")]

LevelChain == IF language = "gleam" THEN GleamChain ELSE MethodChain

Event(start) == [at |-> start, line |-> tokens[start].line]

\* Mutant of LevelCall: the scan goes on inside the chain it has just read.
LevelCall_rescan ==
  /\ ~Scanned /\ LevelMethod
  /\ LevelChain.tracked
  /\ i' = LevelChain.start + 1
  /\ UNCHANGED <<scopes, findings>> /\ Unchanged

\* The chain is delivered, or bound to a name, or handed off, or dropped.
LevelCall ==
  /\ ~Scanned /\ LevelMethod
  /\ LevelChain.tracked
  /\ LET chain == LevelChain
         name  == precedingAssignment(chain.start)
         event == Event(chain.start)
     IN /\ i' = chain.end + 1
        /\ scopes' = IF ~chain.delivered /\ name # <<>> THEN Mark(scopes, name, event) ELSE scopes
        /\ findings' =
             IF ~chain.delivered /\ name = <<>> /\ ~chain.handedOff /\ Enabled(event)
             THEN findings \union {event} ELSE findings
  /\ Unchanged

Skip ==
  /\ ~Scanned /\ i \in DOMAIN tokens
  /\ ~T(i, "{") /\ ~T(i, "}") /\ ~IsIdent(i, TERMINAL)
  /\ ~(LevelMethod /\ LevelChain.tracked)
  /\ i' = i + 1
  /\ UNCHANGED <<scopes, findings>> /\ Unchanged

EndOfFile ==
  /\ i > Len(tokens)
  /\ scopes # <<>>
  /\ findings' = findings \union UNION {flushScope(scopes[k]) : k \in DOMAIN scopes}
  /\ scopes' = <<>>
  /\ UNCHANGED i /\ Unchanged

Round == OpenScope \/ CloseScope \/ TerminalUse \/ LevelCall \/ Skip \/ EndOfFile

Next == Round \/ \E source \in Source, lang \in Language : analyzeSource(source, lang)

Spec == Init /\ [][Next]_vars
=============================================================================
