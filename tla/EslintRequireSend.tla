------------------------- MODULE EslintRequireSend -------------------------
(***************************************************************************)
(* ores/require-send of plugin.mjs, the rule ESLint runs on JavaScript and *)
(* TypeScript: its listeners, called while ESLint walks the syntax tree.   *)
(*                                                                         *)
(* The walk is ESLint's: here it is a sequence of visits, each a listener  *)
(* with the parts of its node the rule reads. An expression is what        *)
(* collectCallChain sees through the wrappers: a root name, the methods    *)
(* called on it from left to right, and the names among the arguments of   *)
(* the last call; a name that one call uses twice counts once. A name is a *)
(* sequence of identifiers, empty when the code gets undefined.            *)
(***************************************************************************)
EXTENDS PendingEvents

CONSTANTS Walk,           \* the sequences of visits of the files to check
          Ident,          \* identifiers
          LevelMethods,   \* options.levelMethods
          TerminalMethods \* options.terminalMethods

VARIABLES visits, at,
          scopes,                                       \* a scope for each function ESLint is in
          knownLoggers, knownFactories, knownClasses,
          reports                                       \* the visits whose nodes are reported

vars == <<visits, at, scopes, knownLoggers, knownFactories, knownClasses, reports>>

Name == Seq(Ident)

Expression == [type : {"Name", "Call", "New", "Other"}, root : Name, methods : Seq(Ident), args : SUBSET Name]

LOGGER_EXPORTS  == {"logger", "browserLogger", "edgeLogger", "cloudflareWorkerLogger", "nodeLogger",
                    "bunLogger", "denoLogger"}
FACTORY_EXPORTS == {"createLogger", "createBrowserLogger", "createEdgeLogger",
                    "createCloudflareWorkerLogger", "createNodeLogger", "createBunLogger", "createDenoLogger"}
CLASS_EXPORTS   == {"BaseLogger", "BrowserLogger", "EdgeLogger", "CloudflareWorkerLogger", "NodeLogger",
                    "BunLogger", "DenoLogger"}

Visit ==
  [on : {"FunctionEnter", "FunctionExit", "Program:exit"}]
    \union [on : {"ArrowFunctionExpression", "CallExpression", "ExpressionStatement", "ReturnStatement"},
            node : Expression]
    \union [on : {"VariableDeclarator", "AssignmentExpression"}, name : Name, node : Expression]
    \union [on : {"ImportDeclaration"}, tracked : BOOLEAN, specifiers : Seq([type : {"default", "namespace", "named"},
                                                                            local : Ident, imported : Ident])]

Checked == at > Len(visits)

Init ==
  /\ visits = <<>>
  /\ at = 1
  /\ scopes = <<>>
  /\ knownLoggers = {} /\ knownFactories = {} /\ knownClasses = {}
  /\ reports = {}

\* ESLint makes the listeners anew for each file; Program() enters the first scope.
create(walk) ==
  /\ Checked
  /\ visits' = walk
  /\ at' = 1
  /\ scopes' = <<{}>>
  /\ knownLoggers' = {<<"log">>, <<"logger">>, <<"ddlog">>}
  /\ knownFactories' = {}
  /\ knownClasses' = {}
  /\ reports' = {}

-----------------------------------------------------------------------------
Call(node) == node.type = "Call"

\* isEvent and ~delivered of inspectChain: a chain on a known logger that reaches a
\* level method and no terminal one after it.
Undelivered(node) ==
  /\ node.root \in knownLoggers
  /\ \E k \in DOMAIN node.methods : node.methods[k] \in LevelMethods
  /\ LET levelIndex == CHOOSE k \in DOMAIN node.methods :
                         /\ node.methods[k] \in LevelMethods
                         /\ \A j \in 1 .. k - 1 : node.methods[j] \notin LevelMethods
     IN \A j \in levelIndex + 1 .. Len(node.methods) : node.methods[j] \notin TerminalMethods

\* Mutant of Undelivered: a terminal method counts wherever it is in the chain.
Undelivered_anywhere(node) ==
  /\ node.root \in knownLoggers
  /\ \E k \in DOMAIN node.methods : node.methods[k] \in LevelMethods
  /\ \A k \in DOMAIN node.methods : node.methods[k] \notin TerminalMethods

Innermost == scopes[Len(scopes)]

\* The callee of a call read as one name: namespace.createLogger. A factory's name has
\* one dot at most, so a longer chain is none.
CalleeName(node) == node.root \o node.methods

isLoggerProducer(node) ==
  \/ node.type = "Name" /\ node.root \in knownLoggers
  \/ node.type = "New" /\ node.root \in knownClasses
  \/ Call(node) /\ CalleeName(node) \in knownFactories
  \/ Call(node) /\ node.methods = <<"anew">> /\ node.root \in knownLoggers

\* Mutant of Consumed: the arguments of a call stay pending.
Consumed_root_only(node) ==
  IF \E k \in DOMAIN node.methods : node.methods[k] \in TerminalMethods THEN {node.root} ELSE {}

\* The names whose pending events a node settles (consumeTerminalUse): the root of a
\* chain with a terminal method, and every argument of a call.
Consumed(node) ==
  (IF \E k \in DOMAIN node.methods : node.methods[k] \in TerminalMethods THEN {node.root} ELSE {})
    \union (IF Call(node) THEN node.args ELSE {})

-----------------------------------------------------------------------------
On(listener) == at \in DOMAIN visits /\ visits[at].on = listener

Done == UNCHANGED visits /\ at' = at + 1

UnchangedNames == UNCHANGED <<knownLoggers, knownFactories, knownClasses>>

FunctionEnter ==
  /\ On("FunctionEnter")
  /\ scopes' = Enter(scopes)
  /\ UNCHANGED reports /\ UnchangedNames /\ Done

\* What a scope still holds when it ends is reported.
exitScope ==
  /\ reports' = reports \union EventsIn(IF scopes = <<>> THEN {} ELSE Innermost)
  /\ scopes' = Exit(scopes)

FunctionExit ==
  /\ On("FunctionExit")
  /\ exitScope
  /\ UnchangedNames /\ Done

\* An arrow function whose body is an expression hands that value to its caller.
ArrowFunctionExpression ==
  /\ On("ArrowFunctionExpression")
  /\ LET node == visits[at].node
     IN scopes' = IF node.type = "Name" THEN Clear(Enter(scopes), node.root) ELSE Enter(scopes)
  /\ UNCHANGED reports /\ UnchangedNames /\ Done

\* Names of a tracked module become known, under the names the file gives them.
Imported(specifiers, exports, default) ==
  {<<specifiers[k].local>> : k \in {j \in DOMAIN specifiers :
       \/ specifiers[j].type = "named" /\ specifiers[j].imported \in exports
       \/ specifiers[j].type = "default" /\ default}}
    \union {<<specifiers[k].local, export>> :
              k \in {j \in DOMAIN specifiers : specifiers[j].type = "namespace"}, export \in exports}

ImportDeclaration ==
  /\ On("ImportDeclaration")
  /\ IF visits[at].tracked
     THEN LET specifiers == visits[at].specifiers
          IN /\ knownLoggers' = knownLoggers \union Imported(specifiers, LOGGER_EXPORTS, TRUE)
             /\ knownFactories' = knownFactories \union Imported(specifiers, FACTORY_EXPORTS, FALSE)
             /\ knownClasses' = knownClasses \union Imported(specifiers, CLASS_EXPORTS, FALSE)
     ELSE UnchangedNames
  /\ UNCHANGED <<scopes, reports>> /\ Done

\* Mutant of VariableDeclarator: a child logger is not learnt.
VariableDeclarator_forgetful ==
  /\ On("VariableDeclarator")
  /\ LET name == visits[at].name
     IN scopes' = IF name # <<>> /\ Undelivered(visits[at].node) THEN Mark(scopes, name, at) ELSE scopes
  /\ UNCHANGED reports /\ UnchangedNames /\ Done

Learn(name, node) ==
  /\ knownLoggers' = IF name # <<>> /\ isLoggerProducer(node) THEN knownLoggers \union {name} ELSE knownLoggers
  /\ UNCHANGED <<knownFactories, knownClasses>>

VariableDeclarator ==
  /\ On("VariableDeclarator")
  /\ LET name == visits[at].name
         node == visits[at].node
     IN /\ Learn(name, node)
        /\ scopes' = IF name # <<>> /\ Undelivered(node) THEN Mark(scopes, name, at) ELSE scopes
  /\ UNCHANGED reports /\ Done

AssignmentExpression ==
  /\ On("AssignmentExpression")
  /\ LET name == visits[at].name
         node == visits[at].node
     IN /\ Learn(name, node)
        /\ scopes' = IF name # <<>> /\ Undelivered(node) THEN Mark(scopes, name, at)
                     ELSE Settle(scopes, Consumed(node))
  /\ UNCHANGED reports /\ Done

\* Returning a pending event, or a chain that builds one, hands it to the caller.
ReturnStatement ==
  /\ On("ReturnStatement")
  /\ LET node == visits[at].node
     IN scopes' = IF node.type = "Name" THEN Clear(scopes, node.root)
                  ELSE IF Undelivered(node) THEN scopes
                  ELSE Settle(scopes, Consumed(node))
  /\ UNCHANGED reports /\ UnchangedNames /\ Done

CallExpression ==
  /\ On("CallExpression")
  /\ scopes' = Settle(scopes, Consumed(visits[at].node))
  /\ UNCHANGED reports /\ UnchangedNames /\ Done

\* A chain that stands alone and delivers nothing is reported at once.
ExpressionStatement ==
  /\ On("ExpressionStatement")
  /\ LET node == visits[at].node
     IN IF Undelivered(node)
        THEN reports' = reports \union {at} /\ UNCHANGED scopes
        ELSE scopes' = Settle(scopes, Consumed(node)) /\ UNCHANGED reports
  /\ UnchangedNames /\ Done

ProgramExit ==
  /\ On("Program:exit")
  /\ exitScope
  /\ UnchangedNames /\ Done

Listener ==
  \/ FunctionEnter \/ FunctionExit \/ ArrowFunctionExpression
  \/ ImportDeclaration \/ VariableDeclarator \/ AssignmentExpression
  \/ ReturnStatement \/ CallExpression \/ ExpressionStatement \/ ProgramExit

Next == Listener \/ \E walk \in Walk : create(walk)

Spec == Init /\ [][Next]_vars

-----------------------------------------------------------------------------
\* Visit j is of a call that sends the event of a name, or gets it as an argument.
Delivers(j, name) ==
  /\ visits[j].on = "CallExpression"
  /\ LET node == visits[j].node
     IN \/ name = node.root /\ \E m \in DOMAIN node.methods : node.methods[m] \in TerminalMethods
        \/ Call(node) /\ name \in node.args

Rebinds(j, name) == visits[j].on \in {"VariableDeclarator", "AssignmentExpression"} /\ visits[j].name = name

\* No call after visit k sends the event visit k bound, or hands it on, up to visit m,
\* unless the name is another event's by then.
UnusedUntil(k, m) ==
  \A j \in k + 1 .. m : Delivers(j, visits[k].name) => \E r \in k + 1 .. j : Rebinds(r, visits[k].name)

\* No false alarm: what a step reports is a chain that stands alone, or an event
\* that no call delivered between the visit that bound it and the end of its scope.
AlarmsAreJustified == [][\A n \in reports' \ reports : n = at \/ UnusedUntil(n, at)]_vars
=============================================================================
