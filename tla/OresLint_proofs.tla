--------------------------- MODULE OresLint_proofs ---------------------------
(***************************************************************************)
(* A run of the linter, over any repository: ores/require-send raises no   *)
(* false alarm, ignored files stay ignored and TypeScript gets no parser   *)
(* of JavaScript, the two semicolon rules agree, the report hides nothing  *)
(* of what ESLint found, and every step leaves the run at a later place,   *)
(* with a scope exactly while a file is walked.                            *)
(***************************************************************************)
EXTENDS OresLint, FiniteSetTheorems, SequenceTheorems, TLAPS

-----------------------------------------------------------------------------
(* ores/require-send.  The rule searches its scopes from the inside out,   *)
(* so that an event of an outer scope survives a call that names it when   *)
(* an inner scope holds that name too.  The invariant says why this is     *)
(* right: an entry further in was bound later, and took the name.          *)

NamesOf(walk) == {walk[v].name : v \in DOMAIN walk}

Pending == [name : NamesOf(visits), event : Nat]

ScopesType == at \in Nat /\ scopes \in Seq(SUBSET Pending)

\* An entry stands for a visit already made that bound its name, and no call has
\* delivered its event under that name since.
EntriesPending ==
  \A s \in DOMAIN scopes : \A p \in scopes[s] :
    p.event < at /\ Rebinds(p.event, p.name) /\ UnusedUntil(p.event, at - 1)

\* A name held by two scopes was bound later in the inner one.
InnerIsLater ==
  \A s, t \in DOMAIN scopes :
    s < t => \A p \in scopes[s] : \A q \in scopes[t] : p.name = q.name => p.event < q.event

IInv == ScopesType /\ EntriesPending /\ InnerIsLater

-----------------------------------------------------------------------------
\* Scopes after a listener that hold no more than those before it.
Within(new, old) ==
  \A s \in DOMAIN new : \A p \in new[s] : s \in DOMAIN old /\ p \in old[s]

LEMMA SettleWithin ==
  ASSUME NEW P, NEW old \in Seq(SUBSET P), NEW names
  PROVE  Settle(old, names) \in Seq(SUBSET P) /\ Within(Settle(old, names), old)
<1>1. Settle(old, names) \in [1 .. Len(old) -> SUBSET P]
  BY DEF Settle
<1>2. Len(old) \in Nat
  OBVIOUS
<1> QED
  BY <1>1, <1>2, SeqDef DEF Settle, Within

LEMMA ExitWithin ==
  ASSUME NEW P, NEW old \in Seq(SUBSET P)
  PROVE  Exit(old) \in Seq(SUBSET P) /\ Within(Exit(old), old)
<1>1. CASE old = <<>>
  BY <1>1 DEF Exit, Within
<1>2. CASE old # <<>>
  BY <1>2 DEF Exit, Within
<1> QED
  BY <1>1, <1>2

LEMMA EnterWithin ==
  ASSUME NEW P, NEW old \in Seq(SUBSET P)
  PROVE  Enter(old) \in Seq(SUBSET P) /\ Within(Enter(old), old)
  BY DEF Enter, Within

-----------------------------------------------------------------------------
\* The facts about a step that leaves the walk alone: what each entry needs to be
\* pending still.
LEMMA EntryStaysPending ==
  ASSUME at \in Nat, NEW s \in DOMAIN scopes, NEW p \in scopes[s],
         p.event \in Nat, EntriesPending,
         Delivers(at, p.name) => \E r \in p.event + 1 .. at : Rebinds(r, p.name)
  PROVE  p.event < at + 1 /\ Rebinds(p.event, p.name) /\ UnusedUntil(p.event, at)
<1>1. p.event < at /\ Rebinds(p.event, p.name) /\ UnusedUntil(p.event, at - 1)
  BY DEF EntriesPending
<1>2. visits[p.event].name = p.name
  BY <1>1 DEF Rebinds
<1>3. ASSUME NEW j \in p.event + 1 .. at, Delivers(j, p.name)
      PROVE  \E r \in p.event + 1 .. j : Rebinds(r, p.name)
  <2>1. CASE j = at
    BY <1>3, <2>1
  <2>2. CASE j \in p.event + 1 .. at - 1
    BY <1>1, <1>2, <1>3, <2>2 DEF UnusedUntil
  <2> QED
    BY <2>1, <2>2, <1>3
<1> QED
  BY <1>1, <1>2, <1>3 DEF UnusedUntil

\* A call that delivers a name leaves the name's event only to a scope further out.
LEMMA SettledUnlessCovered ==
  ASSUME IInv, NEW names, NEW s \in DOMAIN scopes, NEW p \in Settle(scopes, names)[s],
         p.name \in names
  PROVE  \E r \in p.event + 1 .. at : Rebinds(r, p.name)
<1>1. Settle(scopes, names) \in Seq(SUBSET Pending) /\ Within(Settle(scopes, names), scopes)
  BY SettleWithin DEF IInv, ScopesType
<1>2. p \in scopes[s] /\ p \in Pending
  BY DEF Settle, IInv, ScopesType
<1>3. PICK t \in s + 1 .. Len(scopes) : Holds(scopes[t], p.name)
  BY DEF Settle
<1>4. PICK q \in scopes[t] : q.name = p.name
  BY <1>3 DEF Holds
<1>5. t \in DOMAIN scopes /\ s \in Nat /\ t \in Nat /\ s < t
  BY <1>3 DEF IInv, ScopesType
<1>6. q \in Pending
  BY <1>4, <1>5 DEF IInv, ScopesType
<1>7. p.event < q.event
  BY <1>2, <1>4, <1>5 DEF IInv, InnerIsLater
<1>8. q.event < at /\ Rebinds(q.event, q.name)
  BY <1>4, <1>5 DEF IInv, EntriesPending
<1>9. q.event \in p.event + 1 .. at
  BY <1>2, <1>6, <1>7, <1>8 DEF IInv, ScopesType, Pending
<1> QED
  BY <1>4, <1>8, <1>9

\* The step of a listener keeps the invariant if it adds nothing to the scopes and
\* settles what its visit delivers.
LEMMA StepWithin ==
  ASSUME IInv, Done, scopes' \in Seq(SUBSET Pending), Within(scopes', scopes),
         \A s \in DOMAIN scopes' : \A p \in scopes'[s] :
           Delivers(at, p.name) => \E r \in p.event + 1 .. at : Rebinds(r, p.name)
  PROVE  IInv'
<1>1. at \in Nat /\ at' = at + 1 /\ visits' = visits
  BY DEF IInv, ScopesType, Done
<1>2. ScopesType'
  BY <1>1 DEF ScopesType, Pending, NamesOf
<1>3. EntriesPending'
  <2>1. at' - 1 = at
    BY <1>1
  <2> SUFFICES ASSUME NEW s \in DOMAIN scopes', NEW p \in scopes'[s]
               PROVE  p.event < at + 1 /\ Rebinds(p.event, p.name) /\ UnusedUntil(p.event, at)
    BY <1>1, <2>1 DEF EntriesPending, Rebinds, UnusedUntil, Delivers
  <2>2. s \in DOMAIN scopes /\ p \in scopes[s]
    BY DEF Within
  <2>3. p.event \in Nat
    BY DEF Pending
  <2> QED
    BY <1>1, <2>2, <2>3, EntryStaysPending DEF IInv
<1>4. InnerIsLater'
  BY DEF InnerIsLater, IInv, Within
<1> QED
  BY <1>2, <1>3, <1>4 DEF IInv

\* What a call delivers is what the code settles.
LEMMA DeliversConsumed ==
  ASSUME NEW name, Delivers(at, name)
  PROVE  visits[at].on = "CallExpression" /\ name \in Consumed(visits[at].node)
  BY DEF Delivers, Consumed

LEMMA StepSettles ==
  ASSUME IInv, Done, NEW names, scopes' = Settle(scopes, names),
         visits[at].on = "CallExpression" => names = Consumed(visits[at].node)
  PROVE  IInv'
<1>1. scopes' \in Seq(SUBSET Pending) /\ Within(scopes', scopes)
  BY SettleWithin DEF IInv, ScopesType
<1>2. ASSUME NEW s \in DOMAIN scopes', NEW p \in scopes'[s], Delivers(at, p.name)
      PROVE  \E r \in p.event + 1 .. at : Rebinds(r, p.name)
  <2>1. s \in DOMAIN scopes
    BY <1>1 DEF Within
  <2>2. p.name \in names
    BY <1>2, DeliversConsumed
  <2> QED
    BY <2>1, <2>2, SettledUnlessCovered
<1> QED
  BY <1>1, <1>2, StepWithin

LEMMA StepDropsOthers ==
  ASSUME IInv, Done, visits[at].on # "CallExpression",
         scopes' \in Seq(SUBSET Pending), Within(scopes', scopes)
  PROVE  IInv'
<1>1. \A name : ~Delivers(at, name)
  BY DEF Delivers
<1> QED
  BY <1>1, StepWithin

\* A binding visit adds an event later than all that are pending.
LEMMA StepMarks ==
  ASSUME IInv, Done, On("VariableDeclarator") \/ On("AssignmentExpression"),
         scopes' = Mark(scopes, visits[at].name, at)
  PROVE  IInv'
<1> DEFINE entry == [name |-> visits[at].name, event |-> at]
<1>1. at \in Nat /\ at' = at + 1 /\ visits' = visits
  BY DEF IInv, ScopesType, Done
<1>2. entry \in Pending /\ Rebinds(at, visits[at].name)
  BY <1>1 DEF Pending, NamesOf, On, Rebinds
<1>3. /\ scopes' \in Seq(SUBSET Pending)
      /\ DOMAIN scopes' = DOMAIN scopes
      /\ \A s \in DOMAIN scopes : \A p \in scopes'[s] :
           p \in scopes[s] \/ (s = Len(scopes) /\ p = entry)
  <2> DEFINE added == Without(scopes[Len(scopes)], visits[at].name) \union {entry}
  <2>1. scopes \in Seq(SUBSET Pending) /\ scopes' = [scopes EXCEPT ![Len(scopes)] = added]
    BY DEF IInv, ScopesType, Mark
  <2> HIDE DEF entry
  <2>2. CASE scopes = <<>>
    <3>1. DOMAIN scopes = {} /\ scopes' = scopes
      BY <2>1, <2>2
    <3> QED
      BY <2>1, <3>1
  <2>3. CASE scopes # <<>>
    <3>1. Len(scopes) \in DOMAIN scopes /\ scopes[Len(scopes)] \in SUBSET Pending
      BY <2>1, <2>3
    <3>2. added \in SUBSET Pending
      BY <1>2, <3>1 DEF Without
    <3> QED
      BY <2>1, <3>1, <3>2 DEF Without
  <2> QED
    BY <2>2, <2>3
<1>4. \A name : ~Delivers(at, name)
  BY DEF Delivers, On
<1>5. ScopesType'
  BY <1>1, <1>3 DEF ScopesType, Pending, NamesOf
<1>6. EntriesPending'
  <2>1. at' - 1 = at
    BY <1>1
  <2> SUFFICES ASSUME NEW s \in DOMAIN scopes', NEW p \in scopes'[s]
               PROVE  p.event < at + 1 /\ Rebinds(p.event, p.name) /\ UnusedUntil(p.event, at)
    BY <1>1, <2>1 DEF EntriesPending, Rebinds, UnusedUntil, Delivers
  <2>2. CASE p \in scopes[s]
    <3>1. p.event \in Nat
      BY <1>3, <2>2 DEF Pending
    <3> QED
      BY <1>1, <1>3, <1>4, <2>2, <3>1, EntryStaysPending DEF IInv
  <2>3. CASE p = entry
    <3>1. at + 1 .. at = {}
      BY <1>1
    <3> QED
      BY <1>1, <1>2, <2>3, <3>1 DEF UnusedUntil
  <2> QED
    BY <1>3, <2>2, <2>3
<1>7. InnerIsLater'
  <2> SUFFICES ASSUME NEW s \in DOMAIN scopes', NEW t \in DOMAIN scopes', s < t,
                      NEW p \in scopes'[s], NEW q \in scopes'[t], p.name = q.name
               PROVE  p.event < q.event
    BY DEF InnerIsLater
  <2>1. p \in scopes[s]
    BY <1>3 DEF IInv, ScopesType
  <2>2. CASE q \in scopes[t]
    BY <1>3, <2>1, <2>2 DEF IInv, InnerIsLater
  <2>3. CASE q = entry
    BY <1>3, <2>1, <2>3 DEF IInv, EntriesPending
  <2> QED
    BY <1>3, <2>2, <2>3
<1> QED
  BY <1>5, <1>6, <1>7 DEF IInv

-----------------------------------------------------------------------------
LEMMA InitEstablishes == Init => IInv
<1> SUFFICES ASSUME Init PROVE IInv
  OBVIOUS
<1>1. scopes = <<>> /\ at = 1
  BY DEF Init
<1>2. DOMAIN scopes = {}
  BY <1>1
<1> QED
  BY <1>1, <1>2 DEF IInv, ScopesType, EntriesPending, InnerIsLater

\* A new file starts with one empty scope.
LEMMA CreateEstablishes ==
  ASSUME NEW walk, create(walk)
  PROVE  IInv'
<1>1. scopes' = <<{}>> /\ at' = 1
  BY DEF create
<1>2. DOMAIN scopes' = {1} /\ scopes'[1] = {} /\ scopes' \in Seq(SUBSET (Pending'))
  BY <1>1
<1> QED
  BY <1>1, <1>2 DEF IInv, ScopesType, EntriesPending, InnerIsLater

LEMMA ListenerPreserves ==
  ASSUME IInv, Listener
  PROVE  IInv'
<1>0. scopes \in Seq(SUBSET Pending)
  BY DEF IInv, ScopesType
<1>1. CASE FunctionEnter
  <2>1. Done /\ visits[at].on # "CallExpression" /\ scopes' = Enter(scopes)
    BY <1>1 DEF FunctionEnter, On
  <2> QED
    BY <1>0, <2>1, EnterWithin, StepDropsOthers
<1>2. CASE FunctionExit \/ ProgramExit
  <2>1. Done /\ visits[at].on # "CallExpression" /\ scopes' = Exit(scopes)
    BY <1>2 DEF FunctionExit, ProgramExit, exitScope, On
  <2> QED
    BY <1>0, <2>1, ExitWithin, StepDropsOthers
<1>3. CASE ArrowFunctionExpression
  <2> DEFINE entered == Enter(scopes)
             name == visits[at].node.root
  <2>1. Done /\ visits[at].on # "CallExpression"
    BY <1>3 DEF ArrowFunctionExpression, On
  <2>2. entered \in Seq(SUBSET Pending) /\ Within(entered, scopes)
    BY <1>0, EnterWithin
  <2>3. CASE scopes' = entered
    BY <2>1, <2>2, <2>3, StepDropsOthers
  <2>4. CASE scopes' = Settle(entered, {name})
    <3> HIDE DEF entered, name
    <3>1. scopes' \in Seq(SUBSET Pending) /\ Within(scopes', entered)
      BY <2>2, <2>4, SettleWithin
    <3>2. Within(scopes', scopes)
      BY <2>2, <3>1 DEF Within
    <3> QED
      BY <2>1, <3>1, <3>2, StepDropsOthers
  <2> QED
    BY <1>3, <2>3, <2>4 DEF ArrowFunctionExpression, Clear
<1>4. CASE ImportDeclaration
  <2>1. Done /\ visits[at].on # "CallExpression" /\ scopes' = scopes
    BY <1>4 DEF ImportDeclaration, On
  <2>2. Within(scopes', scopes)
    BY <2>1 DEF Within
  <2> QED
    BY <1>0, <2>1, <2>2, StepDropsOthers
<1>5. CASE VariableDeclarator
  <2>1. Done /\ On("VariableDeclarator")
    BY <1>5 DEF VariableDeclarator
  <2>2. scopes' = Mark(scopes, visits[at].name, at) \/ scopes' = scopes
    BY <1>5 DEF VariableDeclarator
  <2>3. CASE scopes' = Mark(scopes, visits[at].name, at)
    BY <2>1, <2>3, StepMarks
  <2>4. CASE scopes' = scopes
    <3>1. visits[at].on # "CallExpression" /\ Within(scopes', scopes)
      BY <2>1, <2>4 DEF On, Within
    <3> QED
      BY <1>0, <2>1, <2>4, <3>1, StepDropsOthers
  <2> QED
    BY <2>2, <2>3, <2>4
<1>6. CASE AssignmentExpression
  <2>1. Done /\ On("AssignmentExpression") /\ visits[at].on # "CallExpression"
    BY <1>6 DEF AssignmentExpression, On
  <2>2. \/ scopes' = Mark(scopes, visits[at].name, at)
        \/ scopes' = Settle(scopes, Consumed(visits[at].node))
    BY <1>6 DEF AssignmentExpression
  <2> QED
    BY <2>1, <2>2, StepMarks, StepSettles
<1>7. CASE ReturnStatement
  <2>1. Done /\ visits[at].on # "CallExpression"
    BY <1>7 DEF ReturnStatement, On
  <2>2. scopes' = scopes \/ \E names : scopes' = Settle(scopes, names)
    BY <1>7 DEF ReturnStatement, Clear
  <2>3. CASE scopes' = scopes
    <3>1. Within(scopes', scopes)
      BY <2>3 DEF Within
    <3> QED
      BY <1>0, <2>1, <2>3, <3>1, StepDropsOthers
  <2>4. CASE \E names : scopes' = Settle(scopes, names)
    BY <2>1, <2>4, StepSettles
  <2> QED
    BY <2>2, <2>3, <2>4
<1>8. CASE CallExpression
  <2>1. Done /\ scopes' = Settle(scopes, Consumed(visits[at].node))
    BY <1>8 DEF CallExpression
  <2> QED
    BY <2>1, StepSettles
<1>9. CASE ExpressionStatement
  <2>1. Done /\ visits[at].on # "CallExpression"
    BY <1>9 DEF ExpressionStatement, On
  <2>2. scopes' = scopes \/ scopes' = Settle(scopes, Consumed(visits[at].node))
    BY <1>9 DEF ExpressionStatement
  <2>3. CASE scopes' = scopes
    <3>1. Within(scopes', scopes)
      BY <2>3 DEF Within
    <3> QED
      BY <1>0, <2>1, <2>3, <3>1, StepDropsOthers
  <2>4. CASE scopes' = Settle(scopes, Consumed(visits[at].node))
    BY <2>1, <2>4, StepSettles
  <2> QED
    BY <2>2, <2>3, <2>4
<1> QED
  BY <1>1, <1>2, <1>3, <1>4, <1>5, <1>6, <1>7, <1>8, <1>9 DEF Listener

LEMMA ExitJustified ==
  ASSUME IInv, visits[at].on # "CallExpression", exitScope, NEW n \in reports' \ reports
  PROVE  UnusedUntil(n, at)
<1>1. scopes # <<>> /\ n \in EventsIn(Innermost)
  BY DEF exitScope, EventsIn
<1>2. PICK p \in Innermost : n = p.event
  BY <1>1 DEF EventsIn
<1>3. Len(scopes) \in DOMAIN scopes /\ p \in scopes[Len(scopes)] /\ at \in Nat
  BY <1>1, <1>2 DEF Innermost, IInv, ScopesType
<1>4. p \in Pending
  BY <1>3 DEF IInv, ScopesType
<1>5. \A name : ~Delivers(at, name)
  BY DEF Delivers
<1> QED
  BY <1>2, <1>3, <1>4, <1>5, EntryStaysPending DEF IInv, Pending

-----------------------------------------------------------------------------
(* The run: the files each half has taken so far, and none it should not.  *)

\* A sequence grows by an element.
LEMMA Appended ==
  ASSUME NEW s, IsSequence(s), NEW x
  PROVE  /\ IsSequence(Append(s, x))
         /\ ToSet(Append(s, x)) = ToSet(s) \union {x}
<1>1. s \in Seq(ToSet(s) \union {x}) /\ Append(s, x) \in Seq(ToSet(s) \union {x})
  BY DEF IsSequence
<1>2. DOMAIN Append(s, x) = 1 .. Len(s) + 1 /\ DOMAIN s = 1 .. Len(s) /\ Len(s) \in Nat
  BY <1>1
<1>3. \A n \in DOMAIN Append(s, x) : Append(s, x)[n] = IF n = Len(s) + 1 THEN x ELSE s[n]
  BY <1>1
<1>4. ToSet(Append(s, x)) = ToSet(s) \union {x}
  <2>1. \A n \in 1 .. Len(s) : n \in DOMAIN Append(s, x) /\ Append(s, x)[n] = s[n]
    BY <1>2, <1>3
  <2>2. Len(s) + 1 \in DOMAIN Append(s, x) /\ Append(s, x)[Len(s) + 1] = x
    BY <1>2, <1>3
  <2>3. \A n \in DOMAIN Append(s, x) : n = Len(s) + 1 \/ n \in DOMAIN s
    BY <1>2
  <2>. QED BY <1>2, <2>1, <2>2, <2>3 DEF ToSet
<1>. QED BY <1>1, <1>4 DEF IsSequence

ESLintStages == {"eslint", "rule"}

Place ==
  /\ repo \in Repository
  /\ stage \in {"eslint", "rule", "format", "files", "scan", "done"}
  /\ k \in 1 .. Len(repo.files) + 1
  /\ stage \in {"rule", "scan"} => AtFile
  /\ stage = "rule" => LintedByEslint(File)
  /\ stage = "scan" => trackedFiles(File, repo.includeTests)

\* What ESLint has looked at so far: each was one it is configured to, with the parser
\* of its configuration and the messages of its rules.
LintedSoFar ==
  /\ IsSequence(linted)
  /\ \A done \in ToSet(linted) :
       /\ done.file \in DOMAIN repo.files
       /\ stage \in ESLintStages => done.file < k
       /\ LintedByEslint(FileOf(done))
       /\ done.parser = Parser(FileOf(done))
       /\ \E raised : done.messages = EslintMessages(FileOf(done), raised)

NoneMissed ==
  \A n \in DOMAIN repo.files :
    (stage \in ESLintStages => n < k) /\ LintedByEslint(repo.files[n]) => \E done \in ToSet(linted) : done.file = n

ScannedSoFar ==
  /\ IsSequence(scanned)
  /\ \A done \in ToSet(scanned) :
       done.file \in DOMAIN repo.files /\ trackedFiles(FileOf(done), repo.includeTests)

RunInv == Place /\ LintedSoFar /\ NoneMissed /\ ScannedSoFar

LEMMA FilesOf ==
  ASSUME repo \in Repository
  PROVE  repo.files \in Seq(SourceFile) /\ DOMAIN repo.files = 1 .. Len(repo.files) /\ Len(repo.files) \in Nat
  BY RepositoryAssumption DEF WellFormed

LEMMA RunInit == LintInit => RunInv
<1>. SUFFICES ASSUME LintInit PROVE RunInv
  OBVIOUS
<1>1. repo \in Repository /\ stage = "eslint" /\ k = 1 /\ linted = << >> /\ scanned = << >>
  BY DEF LintInit
<1>2. ToSet(<< >>) = {} /\ IsSequence(<< >>)
  BY DEF ToSet, IsSequence
<1>3. DOMAIN repo.files = 1 .. Len(repo.files) /\ Len(repo.files) \in Nat
  BY <1>1, FilesOf
<1>. QED BY <1>1, <1>2, <1>3 DEF RunInv, Place, LintedSoFar, NoneMissed, ScannedSoFar, ESLintStages

\* What a step that leaves the repository alone does not change about it.
LEMMA SameRepository ==
  ASSUME repo' = repo
  PROVE  /\ \A f : LintedByEslint(f)' = LintedByEslint(f)
         /\ \A f : Parser(f)' = Parser(f)
         /\ \A f, raised : EslintMessages(f, raised)' = EslintMessages(f, raised)
         /\ \A done : FileOf(done)' = FileOf(done)
         /\ k' = k => (AtFile' <=> AtFile) /\ File' = File
<1>1. \A f : LintedByEslint(f)' = LintedByEslint(f)
  BY DEF LintedByEslint, Config
<1>2. \A f : Parser(f)' = Parser(f)
  BY DEF Parser, Config
<1>3. \A f, raised : EslintMessages(f, raised)' = EslintMessages(f, raised)
  BY DEF EslintMessages, Parses, Parser, Config, Messages
<1>4. \A done : FileOf(done)' = FileOf(done)
  BY DEF FileOf
<1>5. k' = k => (AtFile' <=> AtFile) /\ File' = File
  BY DEF AtFile, File
<1>. QED BY <1>1, <1>2, <1>3, <1>4, <1>5

\* A step of the run that reads no further file.
LEMMA StaysAtFile ==
  ASSUME RunInv, UNCHANGED <<repo, k, linted, scanned>>,
         stage' = stage \/ (stage \in ESLintStages /\ stage' \in ESLintStages)
           \/ (stage \notin ESLintStages /\ stage' \in {"format", "files", "scan", "done"}),
         stage' \in {"eslint", "rule", "format", "files", "scan", "done"},
         stage' \in {"rule", "scan"} => AtFile,
         stage' = "rule" => LintedByEslint(File),
         stage' = "scan" => trackedFiles(File, repo.includeTests)
  PROVE  RunInv'
<1>1. repo' = repo /\ k' = k /\ linted' = linted /\ scanned' = scanned
  OBVIOUS
<1>2. Place'
  <2>1. (AtFile' <=> AtFile) /\ File' = File /\ (LintedByEslint(File)' <=> LintedByEslint(File))
    BY <1>1, SameRepository
  <2>. QED BY <1>1, <2>1 DEF RunInv, Place
<1>3. stage' \in ESLintStages <=> stage \in ESLintStages
  BY DEF ESLintStages
<1>4. LintedSoFar'
  BY <1>1, <1>3, SameRepository DEF RunInv, LintedSoFar
<1>5. NoneMissed'
  BY <1>1, <1>3, SameRepository DEF RunInv, NoneMissed
<1>6. ScannedSoFar'
  BY <1>1, SameRepository DEF RunInv, ScannedSoFar
<1>. QED BY <1>2, <1>4, <1>5, <1>6 DEF RunInv

LEMMA EslintTakesFile ==
  ASSUME RunInv, stage \in ESLintStages, AtFile, repo' = repo, scanned' = scanned, stage' = "eslint", k' = k + 1,
         \/ linted' = linted /\ ~LintedByEslint(File)
         \/ /\ LintedByEslint(File)
            /\ \E done : /\ linted' = Append(linted, done) /\ done.file = k /\ done.parser = Parser(File)
                        /\ \E raised : done.messages = EslintMessages(File, raised)
  PROVE  RunInv'
<1>1. k \in DOMAIN repo.files /\ k \in Nat /\ k' \in 1 .. Len(repo.files) + 1
  BY FilesOf DEF RunInv, Place, AtFile
<1>2. Place'
  BY <1>1 DEF RunInv, Place
<1>3. ScannedSoFar'
  BY SameRepository DEF RunInv, ScannedSoFar
<1>4. stage' \in ESLintStages
  BY DEF ESLintStages
<1>5. \A n \in DOMAIN repo.files : n < k' => n < k \/ n = k
  BY <1>1, FilesOf DEF RunInv, Place
<1>6. CASE linted' = linted /\ ~LintedByEslint(File)
  <2>1. LintedSoFar'
    <3>1. \A done \in ToSet(linted) : done.file < k'
      BY <1>1, FilesOf DEF RunInv, LintedSoFar, Place
    <3>. QED BY <1>6, <3>1, SameRepository DEF RunInv, LintedSoFar
  <2>2. NoneMissed'
    <3>. SUFFICES ASSUME NEW n \in DOMAIN repo.files, n < k', LintedByEslint(repo.files[n])
                  PROVE  \E done \in ToSet(linted) : done.file = n
      BY <1>4, <1>6, SameRepository DEF NoneMissed
    <3>1. n # k
      BY <1>6 DEF File
    <3>. QED BY <1>5, <3>1 DEF RunInv, NoneMissed
  <2>. QED BY <1>2, <1>3, <2>1, <2>2 DEF RunInv
<1>7. CASE LintedByEslint(File) /\ linted' # linted
  <2>1. PICK last : /\ linted' = Append(linted, last) /\ last.file = k /\ last.parser = Parser(File)
                    /\ \E raised : last.messages = EslintMessages(File, raised)
    BY <1>7
  <2>2. IsSequence(linted') /\ ToSet(linted') = ToSet(linted) \union {last}
    BY <2>1, Appended DEF RunInv, LintedSoFar
  <2>3. FileOf(last) = File
    BY <2>1 DEF FileOf, File
  <2>4. LintedSoFar'
    <3>1. \A done \in ToSet(linted') : done.file \in DOMAIN repo.files /\ done.file < k'
      BY <1>1, <2>1, <2>2, FilesOf DEF RunInv, LintedSoFar, Place
    <3>2. \A done \in ToSet(linted') : LintedByEslint(FileOf(done)) /\ done.parser = Parser(FileOf(done))
      BY <1>7, <2>1, <2>2, <2>3 DEF RunInv, LintedSoFar
    <3>3. \A done \in ToSet(linted') : \E raised : done.messages = EslintMessages(FileOf(done), raised)
      BY <2>1, <2>2, <2>3 DEF RunInv, LintedSoFar
    <3>. QED BY <2>2, <3>1, <3>2, <3>3, SameRepository DEF LintedSoFar
  <2>5. NoneMissed'
    <3>. SUFFICES ASSUME NEW n \in DOMAIN repo.files, n < k', LintedByEslint(repo.files[n])
                  PROVE  \E done \in ToSet(linted') : done.file = n
      BY <1>4, SameRepository DEF NoneMissed
    <3>. QED BY <1>5, <2>1, <2>2 DEF RunInv, NoneMissed
  <2>. QED BY <1>2, <1>3, <2>4, <2>5 DEF RunInv
<1>8. CASE LintedByEslint(File) /\ linted' = linted
  <2>1. PICK last : linted' = Append(linted, last)
    BY <1>8
  <2>2. Len(linted') = Len(linted) + 1 /\ Len(linted) \in Nat
    BY <2>1 DEF RunInv, LintedSoFar, IsSequence
  <2>. QED BY <1>8, <2>2
<1>. QED BY <1>6, <1>7, <1>8

LEMMA ScannerTakesFile ==
  ASSUME RunInv, stage \in {"files", "scan"}, AtFile, repo' = repo, linted' = linted, stage' = "files", k' = k + 1,
         \/ scanned' = scanned
         \/ /\ trackedFiles(File, repo.includeTests)
            /\ \E done : scanned' = Append(scanned, done) /\ done.file = k
  PROVE  RunInv'
<1>1. k \in DOMAIN repo.files /\ k' \in 1 .. Len(repo.files) + 1
  BY FilesOf DEF RunInv, Place, AtFile
<1>2. Place'
  BY <1>1 DEF RunInv, Place
<1>3. stage' \notin ESLintStages /\ stage \notin ESLintStages
  BY DEF ESLintStages
<1>4. LintedSoFar'
  BY <1>3, SameRepository DEF RunInv, LintedSoFar
<1>5. NoneMissed'
  BY <1>3, SameRepository DEF RunInv, NoneMissed
<1>6. ScannedSoFar'
  <2>1. CASE scanned' = scanned
    BY <2>1, SameRepository DEF RunInv, ScannedSoFar
  <2>2. CASE scanned' # scanned
    <3>1. PICK last : scanned' = Append(scanned, last) /\ last.file = k
      BY <2>2
    <3>2. IsSequence(scanned') /\ ToSet(scanned') = ToSet(scanned) \union {last}
      BY <3>1, Appended DEF RunInv, ScannedSoFar
    <3>3. FileOf(last) = File /\ trackedFiles(File, repo.includeTests)
      BY <2>2, <3>1 DEF FileOf, File
    <3>. QED BY <1>1, <3>1, <3>2, <3>3, SameRepository DEF RunInv, ScannedSoFar
  <2>. QED BY <2>1, <2>2
<1>. QED BY <1>2, <1>4, <1>5, <1>6 DEF RunInv

LEMMA RunNext ==
  ASSUME RunInv, [LintNext]_allVars
  PROVE  RunInv'
<1>0. stage \in {"eslint", "rule", "format", "files", "scan", "done"}
  BY DEF RunInv, Place
<1>1. CASE EslintSkips
  BY <1>1, EslintTakesFile DEF EslintSkips, ESLintStages
<1>2. CASE EslintWalks
  BY <1>2, StaysAtFile DEF EslintWalks, ESLintStages
<1>3. CASE EslintListener \/ FormatStep \/ ScannerRound \/ UNCHANGED allVars
  <2>1. UNCHANGED lintVars
    BY <1>3 DEF EslintListener, FormatStep, ScannerRound, allVars
  <2>2. UNCHANGED <<repo, stage, k, linted, scanned>>
    BY <2>1 DEF lintVars
  <2>. QED BY <1>0, <2>2, StaysAtFile DEF RunInv, Place
<1>4. CASE EslintDone
  <2>1. /\ stage \in ESLintStages /\ AtFile /\ LintedByEslint(File)
        /\ UNCHANGED <<repo, scanned>> /\ stage' = "eslint" /\ k' = k + 1
    BY <1>4 DEF EslintDone, ESLintStages, RunInv, Place
  <2>2. \E done : /\ linted' = Append(linted, done) /\ done.file = k /\ done.parser = Parser(File)
                 /\ \E raised : done.messages = EslintMessages(File, raised)
    <3>. DEFINE raised == {visits[v].line : v \in reports}
                done == [file |-> k, parser |-> Parser(File), messages |-> EslintMessages(File, raised)]
    <3>1. linted' = Append(linted, done)
      BY <1>4 DEF EslintDone
    <3>. HIDE DEF raised
    <3>2. done.file = k /\ done.parser = Parser(File) /\ done.messages = EslintMessages(File, raised)
      OBVIOUS
    <3>. HIDE DEF done
    <3>. QED BY <3>1, <3>2
  <2>. QED BY <2>1, <2>2, EslintTakesFile
<1>5. CASE StartFormat
  <2>1. /\ UNCHANGED <<repo, k, linted, scanned>> /\ ~AtFile /\ stage = "eslint" /\ stage' = "format"
    BY <1>5 DEF StartFormat
  <2>2. \A n \in DOMAIN repo.files : n < k
    BY <2>1, FilesOf DEF RunInv, Place, AtFile
  <2>3. Place'
    BY <2>1 DEF RunInv, Place
  <2>4. LintedSoFar'
    BY <2>1, SameRepository DEF RunInv, LintedSoFar, ESLintStages
  <2>5. NoneMissed'
    BY <2>1, <2>2, SameRepository DEF RunInv, NoneMissed
  <2>6. ScannedSoFar'
    BY <2>1, SameRepository DEF RunInv, ScannedSoFar
  <2>. QED BY <2>3, <2>4, <2>5, <2>6 DEF RunInv
<1>6. CASE StartScanner
  <2>1. /\ UNCHANGED <<repo, linted, scanned>> /\ k' = 1 /\ stage = "format" /\ stage' = "files"
    BY <1>6 DEF StartScanner
  <2>2. stage \notin ESLintStages /\ stage' \notin ESLintStages
    BY <2>1 DEF ESLintStages
  <2>3. Place'
    BY <2>1, FilesOf DEF RunInv, Place
  <2>4. LintedSoFar'
    BY <2>1, <2>2, SameRepository DEF RunInv, LintedSoFar
  <2>5. NoneMissed'
    BY <2>1, <2>2, SameRepository DEF RunInv, NoneMissed
  <2>6. ScannedSoFar'
    BY <2>1, SameRepository DEF RunInv, ScannedSoFar
  <2>. QED BY <2>3, <2>4, <2>5, <2>6 DEF RunInv
<1>7. CASE ScannerSkips
  BY <1>7, ScannerTakesFile DEF ScannerSkips
<1>8. CASE ScannerReads
  BY <1>8, StaysAtFile DEF ScannerReads, ESLintStages
<1>9. CASE ScannerDone
  <2>1. /\ stage = "scan" /\ AtFile /\ trackedFiles(File, repo.includeTests)
        /\ UNCHANGED <<repo, linted>> /\ stage' = "files" /\ k' = k + 1
    BY <1>9 DEF ScannerDone, RunInv, Place
  <2>2. \E done : scanned' = Append(scanned, done) /\ done.file = k
    BY <1>9 DEF ScannerDone
  <2>. QED BY <2>1, <2>2, ScannerTakesFile
<1>10. CASE Finish
  BY <1>10, StaysAtFile DEF Finish, ESLintStages
<1>11. CASE Exited
  BY <1>3, <1>11 DEF Exited
<1>. QED BY <1>1, <1>2, <1>3, <1>4, <1>5, <1>6, <1>7, <1>8, <1>9, <1>10, <1>11 DEF LintNext

LEMMA RunInvariant == LintSpec => []RunInv
<1>. QED BY RunInit, RunNext, PTL DEF LintSpec

-----------------------------------------------------------------------------
(* What ESLint ignores, as globs and as their meaning.                     *)

\* A path occurs in another from a place on.
LEMMA Occurrence ==
  ASSUME NEW p \in Seq(STRING), p # << >>, NEW path \in Seq(STRING), NEW first \in DOMAIN path
  PROVE  LET rest == SubSeq(path, first, Len(path))
             last == first + Len(p) - 1
         IN /\ Len(rest) = Len(path) - first + 1
            /\ IsPrefix(p, rest) <=> last <= Len(path) /\ SubSeq(path, first, last) = p
            /\ Len(rest) > Len(p) <=> last < Len(path)
<1>. DEFINE rest == SubSeq(path, first, Len(path))
            last == first + Len(p) - 1
<1>1. /\ Len(path) \in Nat /\ first \in 1 .. Len(path) /\ Len(p) \in Nat /\ Len(p) >= 1 /\ last \in Nat
      /\ \A j \in first .. Len(path) : path[j] \in STRING
  OBVIOUS
<1>2. rest \in Seq(STRING) /\ Len(rest) = Len(path) - first + 1
  BY <1>1, SubSeqProperties
<1>3. Len(p) <= Len(rest) <=> last <= Len(path)
  BY <1>1, <1>2
<1>4. ASSUME Len(p) <= Len(rest)
      PROVE  SubSeq(rest, 1, Len(p)) = SubSeq(path, first, last)
  <2>. DEFINE left == SubSeq(rest, 1, Len(p))
              right == SubSeq(path, first, last)
  <2>1. left \in Seq(STRING) /\ Len(left) = Len(p) /\ \A j \in 1 .. Len(p) : left[j] = rest[j]
    <3>1. \A j \in 1 .. Len(p) : rest[j] \in STRING /\ 1 + j - 1 = j
      BY <1>1, <1>2, <1>4
    <3>2. 1 \in Int /\ Len(p) \in Int /\ 1 <= Len(p) /\ Len(p) - 1 + 1 = Len(p)
      BY <1>1
    <3>. HIDE DEF rest
    <3>3. /\ left \in Seq(STRING) /\ Len(left) = Len(p) - 1 + 1
          /\ \A j \in 1 .. Len(p) - 1 + 1 : left[j] = rest[1 + j - 1]
      BY <3>1, <3>2, SubSeqProperties
    <3>. QED BY <3>1, <3>2, <3>3
  <2>2. right \in Seq(STRING) /\ Len(right) = Len(p) /\ \A j \in 1 .. Len(p) : right[j] = path[first + j - 1]
    <3>1. /\ \A j \in first .. last : path[j] \in STRING
          /\ first \in Int /\ last \in Int /\ first <= last /\ last - first + 1 = Len(p)
      BY <1>1, <1>3, <1>4
    <3>. HIDE DEF last
    <3>. QED BY <3>1, SubSeqProperties
  <2>3. \A j \in 1 .. Len(p) : rest[j] = path[first + j - 1]
    <3>1. \A j \in 1 .. Len(path) - first + 1 : rest[j] = path[first + j - 1]
      BY <1>1, SubSeqProperties
    <3>. QED BY <1>1, <1>2, <1>4, <3>1
  <2>. HIDE DEF left, right, rest, last
  <2>. QED BY <2>1, <2>2, <2>3, SeqEqual DEF left, right
<1>5. SubSeq(p, 1, Len(p)) = p
  BY SubSeqFull
<1>6. IsPrefix(p, rest) <=> last <= Len(path) /\ SubSeq(path, first, last) = p
  <2>. HIDE DEF rest, last
  <2>. QED BY <1>3, <1>4, <1>5 DEF IsPrefix
<1>7. Len(rest) > Len(p) <=> last < Len(path)
  BY <1>1, <1>2
<1>. QED BY <1>2, <1>6, <1>7

LEMMA DirectoryMatches ==
  ASSUME NEW name, NEW path \in Seq(STRING)
  PROVE  Matches([anchored |-> FALSE, path |-> <<name>>, inside |-> TRUE], path) <=> name \in ToSet(Front(path))
<1>. DEFINE glob == [anchored |-> FALSE, path |-> <<name>>, inside |-> TRUE]
<1>1. /\ Len(path) \in Nat /\ DOMAIN path = 1 .. Len(path) /\ Len(<<name>>) = 1
      /\ \A j \in 1 .. Len(path) : path[j] \in STRING
  OBVIOUS
<1>2. \A first \in 1 .. Len(path) : first + Len(<<name>>) - 1 = first
  BY <1>1
<1>3. \A first \in 1 .. Len(path) : SubSeq(path, first, first) = <<path[first]>>
  <2>. SUFFICES ASSUME NEW first \in 1 .. Len(path) PROVE SubSeq(path, first, first) = <<path[first]>>
    OBVIOUS
  <2>1. first \in first .. Len(path) /\ first \in Int /\ first + 1 \in Int /\ first < first + 1
    BY <1>1
  <2>2. SubSeq(path, first, first) = <<path[first]>> \o SubSeq(path, first + 1, first)
    BY <2>1, SubSeqRecursiveFirst
  <2>3. SubSeq(path, first + 1, first) = << >>
    BY <2>1, SubSeqEmpty
  <2>4. <<path[first]>> \in Seq(STRING)
    BY <1>1
  <2>5. <<path[first]>> \o << >> = <<path[first]>>
    BY <2>4, ConcatEmptySeq
  <2>. QED BY <2>2, <2>3, <2>5
<1>4. Matches(glob, path) <=> \E first \in 1 .. Len(path) : <<path[first]>> = <<name>> /\ first < Len(path)
  BY <1>1, <1>2, <1>3 DEF Matches
<1>5. ToSet(Front(path)) = {path[j] : j \in 1 .. Len(path) - 1}
  <2>1. Front(path) = SubSeq(path, 1, Len(path) - 1) /\ Len(path) - 1 \in Int
    BY <1>1 DEF Front
  <2>2. DOMAIN SubSeq(path, 1, Len(path) - 1) = 1 .. Len(path) - 1
    BY <1>1
  <2>3. \A j \in 1 .. Len(path) - 1 : SubSeq(path, 1, Len(path) - 1)[j] = path[j]
    BY <1>1
  <2>. QED BY <2>1, <2>2, <2>3 DEF ToSet
<1>6. \A first \in 1 .. Len(path) : first < Len(path) <=> first \in 1 .. Len(path) - 1
  BY <1>1
<1>7. \A x : <<x>> = <<name>> <=> x = name
  OBVIOUS
<1>8. 1 .. Len(path) - 1 \subseteq 1 .. Len(path)
  BY <1>1
<1>. QED BY <1>4, <1>5, <1>6, <1>7, <1>8

LEMMA NestedMatches ==
  ASSUME NEW nested \in Seq(STRING), NEW path \in Seq(STRING), path # << >>
  PROVE  Matches([anchored |-> TRUE, path |-> nested, inside |-> TRUE], path) <=> IsStrictPrefix(nested, path)
<1>1. Len(path) \in Nat /\ Len(path) >= 1 /\ Len(nested) \in Nat
  OBVIOUS
<1>2. Matches([anchored |-> TRUE, path |-> nested, inside |-> TRUE], path)
        <=> SubSeq(path, 1, Len(nested)) = nested /\ Len(nested) < Len(path)
  <2>1. 1 \in 1 .. Len(path) /\ 1 + Len(nested) - 1 = Len(nested)
    BY <1>1
  <2>. QED BY <1>1, <2>1 DEF Matches
<1>3. SubSeq(nested, 1, Len(nested)) = nested /\ SubSeq(path, 1, Len(path)) = path
  BY SubSeqFull
<1>4. IsStrictPrefix(nested, path) => Len(nested) < Len(path)
  BY <1>1, <1>3 DEF IsStrictPrefix, IsPrefix
<1>. QED BY <1>1, <1>2, <1>3, <1>4 DEF IsStrictPrefix, IsPrefix

GlobOf(line) ==
  [anchored |-> line.rooted \/ line.directory \/ Len(line.path) > 1, path |-> line.path, inside |-> line.directory]

LEMMA LineMatches ==
  ASSUME NEW line \in IgnoreLine, NEW path \in Seq(STRING)
  PROVE  /\ Matches(GlobOf(line), path) => Gitignored(line, path)
         /\ Portable(line) /\ Gitignored(line, path) => Matches(GlobOf(line), path)
<1>1. line.path \in Seq(STRING) /\ line.path # << >> /\ Len(line.path) \in Nat /\ Len(line.path) >= 1
      /\ line.rooted \in BOOLEAN /\ line.directory \in BOOLEAN
  BY DEF IgnoreLine
<1>2. DOMAIN path = 1 .. Len(path) /\ Len(path) \in Nat
  OBVIOUS
<1>. DEFINE Here(first) ==
              LET last == first + Len(line.path) - 1
              IN /\ last <= Len(path) /\ SubSeq(path, first, last) = line.path
                 /\ line.directory => last < Len(path)
<1>3. Matches(GlobOf(line), path) <=>
        \E first \in DOMAIN path : (line.rooted \/ line.directory \/ Len(line.path) > 1 => first = 1) /\ Here(first)
  BY <1>1, <1>2 DEF Matches, GlobOf
<1>4. Gitignored(line, path) <=>
        \E first \in DOMAIN path : (first > 1 => ~line.rooted /\ Len(line.path) = 1) /\ Here(first)
  <2>1. \A first \in DOMAIN path :
          LET rest == SubSeq(path, first, Len(path))
          IN IsPrefix(line.path, rest) /\ (line.directory => Len(rest) > Len(line.path)) <=> Here(first)
    BY <1>1, Occurrence
  <2>. HIDE DEF Here
  <2>. QED BY <2>1 DEF Gitignored
<1>. HIDE DEF Here
<1>0. /\ \A first \in DOMAIN path : ~(first > 1) <=> first = 1
      /\ ~(Len(line.path) > 1) <=> Len(line.path) = 1
  <2>1. \A n \in Nat : n >= 1 => (~(n > 1) <=> n = 1)
    OBVIOUS
  <2>2. \A first \in DOMAIN path : first \in Nat /\ first >= 1
    BY <1>2
  <2>. QED BY <1>1, <2>1, <2>2
<1>5. ASSUME Matches(GlobOf(line), path) PROVE Gitignored(line, path)
  <2>1. PICK first \in DOMAIN path : (line.rooted \/ line.directory \/ Len(line.path) > 1 => first = 1) /\ Here(first)
    BY <1>3, <1>5
  <2>2. first > 1 => ~line.rooted /\ Len(line.path) = 1
    BY <1>0, <2>1, Zenon
  <2>. QED BY <1>4, <2>1, <2>2
<1>6. ASSUME Portable(line), Gitignored(line, path) PROVE Matches(GlobOf(line), path)
  <2>1. PICK first \in DOMAIN path : (first > 1 => ~line.rooted /\ Len(line.path) = 1) /\ Here(first)
    BY <1>4, <1>6
  <2>2. line.rooted \/ line.directory \/ Len(line.path) > 1 => first = 1
    BY <1>0, <1>6, <2>1, Zenon DEF Portable
  <2>. QED BY <1>3, <2>1, <2>2
<1>. QED BY <1>5, <1>6

LEMMA IgnoredMeans ==
  ASSUME repo \in Repository, NEW f \in SourceFile
  PROVE  /\ (\E glob \in Config.ignores : Matches(glob, f.path)) => LeftOut(f)
         /\ (\A line \in repo.legacy : Portable(line)) /\ LeftOut(f) => \E glob \in Config.ignores : Matches(glob, f.path)
<1>1. f.path \in Seq(STRING) /\ f.path # << >>
  BY DEF SourceFile
<1>2. repo.legacy \subseteq IgnoreLine
  BY RepositoryAssumption DEF WellFormed
<1>3. Config.ignores = Anywhere(IGNORES) \union nestedRepoIgnores \union legacyIgnoreFile(repo.legacy)
  BY DEF Config, oresConfig
<1>4. (\E glob \in Anywhere(IGNORES) : Matches(glob, f.path)) <=> \E name \in IGNORES : name \in ToSet(Front(f.path))
  BY <1>1, DirectoryMatches DEF Anywhere
<1>5. (\E glob \in nestedRepoIgnores : Matches(glob, f.path)) <=> \E nested \in NestedRepos : IsStrictPrefix(nested, f.path)
  BY <1>1, NestedMatches, NestedAssumption DEF nestedRepoIgnores
<1>6. (\E glob \in legacyIgnoreFile(repo.legacy) : Matches(glob, f.path))
        <=> \E line \in repo.legacy : ~line.comment /\ ~line.negated /\ Matches(GlobOf(line), f.path)
  BY DEF legacyIgnoreFile, GlobOf
<1>7. \A line \in repo.legacy :
        /\ Matches(GlobOf(line), f.path) => Gitignored(line, f.path)
        /\ Portable(line) /\ Gitignored(line, f.path) => Matches(GlobOf(line), f.path) /\ ~line.negated
  BY <1>1, <1>2, LineMatches DEF Portable
<1>. QED BY <1>3, <1>4, <1>5, <1>6, <1>7 DEF LeftOut

LEMMA NatSetInduction ==
  ASSUME NEW S, 0 \in S, \A n \in Nat : n \in S => n + 1 \in S
  PROVE  Nat \subseteq S
<1>. SUFFICES ASSUME Nat \ S # {} PROVE FALSE
  OBVIOUS
<1>. DEFINE Below == {ss \in Nat \X Nat : ss[1] < ss[2]}
<1>1. IsWellFoundedOn(Below, Nat)
  BY NatLessThanWellFounded DEF OpToRel
<1>. HIDE DEF Below
<1>2. PICK n \in Nat \ S : \A m \in Nat \ S : ~(<<m, n>> \in Below)
  BY <1>1, WFMin
<1>3. \A m \in Nat \ S : ~(m < n)
  BY <1>2 DEF Below
<1>4. n # 0 /\ n - 1 \in Nat /\ n - 1 < n /\ n = (n - 1) + 1
  OBVIOUS
<1>. QED BY <1>3, <1>4

\* A nonempty set of numbers up to a bound has a greatest one.
LEMMA MaxOfBounded ==
  ASSUME NEW n \in Nat, NEW S \in SUBSET (1 .. n), S # {}
  PROVE  Max(S) \in S
<1>. DEFINE Good == {m \in Nat : \A T \in SUBSET (1 .. m) : T # {} => \E x \in T : \A y \in T : x >= y}
<1>1. 0 \in Good
  <2>1. 1 .. 0 = {}
    OBVIOUS
  <2>2. \A T \in SUBSET (1 .. 0) : T = {}
    BY <2>1
  <2>. QED BY <2>2
<1>2. ASSUME NEW m \in Nat, m \in Good PROVE m + 1 \in Good
  <2>. SUFFICES ASSUME NEW T \in SUBSET (1 .. m + 1), T # {} PROVE \E x \in T : \A y \in T : x >= y
    OBVIOUS
  <2>1. CASE m + 1 \in T
    BY <2>1
  <2>2. CASE m + 1 \notin T
    <3>1. T \in SUBSET (1 .. m)
      BY <2>2
    <3>. QED BY <1>2, <3>1
  <2>. QED BY <2>1, <2>2
<1>. HIDE DEF Good
<1>3. n \in Good
  BY <1>1, <1>2, NatSetInduction
<1>4. \E x \in S : \A y \in S : x >= y
  BY <1>3 DEF Good
<1>. QED BY <1>4 DEF Max

\* In a finite set with a strict total order every element has a place of its own, and
\* every place is taken.
Preceding(S, R, x) == {y \in S : <<y, x>> \in R}

LEMMA Ranked ==
  ASSUME NEW S, IsFiniteSet(S), NEW R,
         \A x, y, z \in S : <<x, y>> \in R /\ <<y, z>> \in R => <<x, z>> \in R,
         \A x \in S : <<x, x>> \notin R,
         \A x, y \in S : x # y => <<x, y>> \in R \/ <<y, x>> \in R
  PROVE  /\ \A x, y \in S : <<x, y>> \in R <=> Cardinality(Preceding(S, R, x)) < Cardinality(Preceding(S, R, y))
         /\ \A x, y \in S : Cardinality(Preceding(S, R, x)) = Cardinality(Preceding(S, R, y)) => x = y
         /\ \A x \in S : Cardinality(Preceding(S, R, x)) \in 0 .. Cardinality(S) - 1
         /\ \A n \in 0 .. Cardinality(S) - 1 : \E x \in S : Cardinality(Preceding(S, R, x)) = n
<1>. DEFINE rank(x) == Cardinality(Preceding(S, R, x))
            places == 0 .. Cardinality(S) - 1
            f == [x \in S |-> rank(x)]
<1>1. Cardinality(S) \in Nat
  BY FS_CardinalityType
<1>2. ASSUME NEW x \in S PROVE IsFiniteSet(Preceding(S, R, x)) /\ rank(x) \in places
  <2>1. Preceding(S, R, x) \in SUBSET S /\ x \notin Preceding(S, R, x)
    BY DEF Preceding
  <2>2. IsFiniteSet(Preceding(S, R, x)) /\ rank(x) <= Cardinality(S) /\ rank(x) # Cardinality(S)
    BY <2>1, FS_Subset
  <2>3. rank(x) \in Nat
    BY <2>2, FS_CardinalityType
  <2>. QED BY <1>1, <2>2, <2>3
<1>3. ASSUME NEW x \in S, NEW y \in S, <<x, y>> \in R PROVE rank(x) < rank(y)
  <2>1. Preceding(S, R, x) \in SUBSET Preceding(S, R, y) /\ x \in Preceding(S, R, y) /\ x \notin Preceding(S, R, x)
    BY <1>3 DEF Preceding
  <2>2. rank(x) <= rank(y) /\ rank(x) # rank(y)
    BY <1>2, <2>1, FS_Subset
  <2>. QED BY <1>1, <1>2, <2>2
<1>. HIDE DEF rank
<1>4. \A x, y \in S : rank(x) = rank(y) => x = y
  <2>. SUFFICES ASSUME NEW x \in S, NEW y \in S, x # y PROVE rank(x) # rank(y)
    OBVIOUS
  <2>1. rank(x) < rank(y) \/ rank(y) < rank(x)
    BY <1>3
  <2>2. rank(x) \in Int /\ rank(y) \in Int
    BY <1>1, <1>2
  <2>. QED BY <2>1, <2>2
<1>5. \A x, y \in S : <<x, y>> \in R <=> rank(x) < rank(y)
  <2>. SUFFICES ASSUME NEW x \in S, NEW y \in S, rank(x) < rank(y) PROVE <<x, y>> \in R
    BY <1>3
  <2>1. x # y /\ ~(rank(y) < rank(x))
    BY <1>1, <1>2
  <2>. QED BY <1>3, <2>1
<1>6. \A n \in places : \E x \in S : rank(x) = n
  <2>1. f \in Injection(S, places)
    BY <1>2, <1>4, Zenon DEF Injection, IsInjective
  <2>2. IsFiniteSet(places) /\ Cardinality(places) = Cardinality(S)
    <3>1. 0 \in Int /\ Cardinality(S) - 1 \in Int
      BY <1>1
    <3>2. /\ IsFiniteSet(places)
          /\ Cardinality(places) = IF 0 > Cardinality(S) - 1 THEN 0 ELSE Cardinality(S) - 1 - 0 + 1
      BY <3>1, FS_Interval
    <3>. HIDE DEF places
    <3>. QED BY <1>1, <3>2
  <2>. HIDE DEF places
  <2>3. f \in Surjection(S, places)
    <3>. HIDE DEF f
    <3>. QED BY <2>1, <2>2, FS_Injection
  <2>. QED BY <2>3 DEF Surjection
<1>. QED BY <1>2, <1>4, <1>5, <1>6 DEF rank

-----------------------------------------------------------------------------
(* What the configuration says of a file.                                  *)

AllBlocks == Config.blocks \o repo.own

JsBlock == Block("js", "espree", Merged(Merged(semiRules(repo.env), correctness), repo.rules))

TsBlock == Block("ts", "typescript", Merged(tsRules(repo.env), repo.rules))

Supported == loadTsSupport(repo.env)

LEMMA BlocksAre ==
  ASSUME repo \in Repository
  PROVE  /\ \E size \in Nat : DOMAIN AllBlocks = 1 .. size
         /\ 1 \in DOMAIN AllBlocks /\ AllBlocks[1] = JsBlock
         /\ Supported => 2 \in DOMAIN AllBlocks /\ AllBlocks[2] = TsBlock
         /\ \A n \in DOMAIN AllBlocks :
              n = 1 \/ (n = 2 /\ Supported) \/ AllBlocks[n] \in ToSet(repo.own)
<1>1. repo.own \in Seq(ToSet(repo.own))
  BY RepositoryAssumption DEF WellFormed, IsSequence
<1>. DEFINE B == {JsBlock, TsBlock} \union ToSet(repo.own)
            base == Config.blocks
<1>2. base = <<JsBlock>> \o (IF Supported THEN <<TsBlock>> ELSE << >>)
  BY DEF Config, oresConfig, JsBlock, TsBlock, Supported
<1>3. <<JsBlock>> \in Seq(B) /\ <<TsBlock>> \in Seq(B) /\ << >> \in Seq(B) /\ repo.own \in Seq(B)
  <2>1. JsBlock \in B /\ TsBlock \in B
    OBVIOUS
  <2>2. repo.own \in Seq(B)
    BY <1>1, SeqMonotonic
  <2>. HIDE DEF B
  <2>. QED BY <2>1, <2>2
<1>. HIDE DEF B, base
<1>4. /\ base \in Seq(B) /\ Len(base) = (IF Supported THEN 2 ELSE 1)
      /\ base[1] = JsBlock /\ (Supported => base[2] = TsBlock)
  <2>1. CASE Supported
    BY <1>2, <1>3, <2>1
  <2>2. CASE ~Supported
    <3>1. base = <<JsBlock>>
      BY <1>2, <1>3, <2>2, ConcatEmptySeq
    <3>. QED BY <1>3, <2>2, <3>1
  <2>. QED BY <2>1, <2>2
<1>5. /\ AllBlocks \in Seq(B) /\ Len(AllBlocks) = Len(base) + Len(repo.own)
      /\ \A n \in 1 .. Len(AllBlocks) :
           AllBlocks[n] = IF n <= Len(base) THEN base[n] ELSE repo.own[n - Len(base)]
  <2>1. AllBlocks = base \o repo.own
    BY DEF AllBlocks, base
  <2>2. /\ base \o repo.own \in Seq(B) /\ Len(base \o repo.own) = Len(base) + Len(repo.own)
        /\ \A n \in 1 .. Len(base) + Len(repo.own) :
             (base \o repo.own)[n] = IF n <= Len(base) THEN base[n] ELSE repo.own[n - Len(base)]
    BY <1>3, <1>4, ConcatProperties
  <2>. QED BY <2>1, <2>2
<1>6. DOMAIN AllBlocks = 1 .. Len(AllBlocks) /\ Len(AllBlocks) \in Nat /\ Len(repo.own) \in Nat
  BY <1>1, <1>5
<1>7. ASSUME NEW n \in DOMAIN AllBlocks, n # 1, ~(n = 2 /\ Supported)
      PROVE  AllBlocks[n] \in ToSet(repo.own)
  <2>1. ~(n <= Len(base)) /\ n - Len(base) \in 1 .. Len(repo.own) /\ n \in 1 .. Len(AllBlocks)
    <3>1. Len(base) = 1 \/ (Len(base) = 2 /\ Supported)
      BY <1>4
    <3>2. Len(AllBlocks) = Len(base) + Len(repo.own) /\ n \in 1 .. Len(AllBlocks) /\ Len(repo.own) \in Nat
      BY <1>5, <1>6
    <3>3. n # Len(base)
      <4>1. CASE Supported
        BY <1>4, <1>7, <4>1
      <4>2. CASE ~Supported
        BY <1>4, <1>7, <4>2
      <4>. QED BY <4>1, <4>2
    <3>4. \A b \in {1, 2} : n # 1 /\ n # b => ~(n <= b) /\ n - b \in 1 .. Len(AllBlocks) - b
      BY <3>2
    <3>5. ~(n <= Len(base)) /\ n - Len(base) \in 1 .. Len(AllBlocks) - Len(base)
      BY <1>7, <3>1, <3>3, <3>4
    <3>6. \A b \in {1, 2} : Len(AllBlocks) = b + Len(repo.own) => Len(AllBlocks) - b = Len(repo.own)
      BY <3>2
    <3>. QED BY <3>1, <3>2, <3>5, <3>6
  <2>2. AllBlocks[n] = repo.own[n - Len(base)]
    BY <1>5, <2>1
  <2>. QED BY <1>1, <2>1, <2>2 DEF ToSet
<1>8. 1 \in 1 .. Len(AllBlocks) /\ 1 <= Len(base) /\ (Supported => 2 \in 1 .. Len(AllBlocks) /\ 2 <= Len(base))
  <2>1. Len(base) >= 1 /\ Len(base) \in Nat /\ (Supported => Len(base) = 2)
    BY <1>4
  <2>2. Len(AllBlocks) = Len(base) + Len(repo.own) /\ Len(repo.own) \in Nat
    BY <1>5, <1>6
  <2>. QED BY <2>1, <2>2
<1>. QED BY <1>4, <1>5, <1>6, <1>7, <1>8

\* The kind of a base block, and the place of the base block of a kind.
BaseOf(f) == IF f.kind = "js" THEN 1 ELSE 2

LEMMA LintedMeans ==
  ASSUME repo \in Repository, NEW f \in SourceFile, f.kind \in {"js", "ts"}
  PROVE  /\ f.kind = "js" => (LintedByEslint(f) <=> ~\E glob \in Config.ignores : Matches(glob, f.path))
         /\ f.kind = "ts" => (LintedByEslint(f) <=> Supported /\ ~\E glob \in Config.ignores : Matches(glob, f.path))
<1>1. Config.ignoresTs = ~Supported
  BY DEF Config, oresConfig, Supported
<1>2. JsBlock.kind = "js" /\ TsBlock.kind = "ts"
  BY DEF JsBlock, TsBlock, Block
<1>3. f.kind = "js" => Applying(AllBlocks, f) # {}
  BY <1>2, BlocksAre DEF Applying
<1>4. f.kind = "ts" /\ Supported => Applying(AllBlocks, f) # {}
  BY <1>2, BlocksAre DEF Applying
<1>5. LintedByEslint(f) <=>
        /\ ~((f.kind = "ts" /\ ~Supported) \/ \E glob \in Config.ignores : Matches(glob, f.path))
        /\ Applying(AllBlocks, f) # {}
  BY <1>1 DEF LintedByEslint, Linted, Ignored, AllBlocks
<1>. QED BY <1>3, <1>4, <1>5

LEMMA ParserOfTypeScript ==
  ASSUME repo \in Repository, NEW f \in SourceFile, f.kind = "ts", Supported
  PROVE  Parser(f) = "typescript"
<1>. DEFINE naming == {n \in Applying(AllBlocks, f) : AllBlocks[n].parser # "espree"}
<1>1. JsBlock.parser = "espree" /\ TsBlock.kind = "ts" /\ TsBlock.parser = "typescript"
  BY DEF JsBlock, TsBlock, Block
<1>2. PICK size \in Nat : DOMAIN AllBlocks = 1 .. size
  BY BlocksAre
<1>3. 2 \in naming /\ naming \in SUBSET (1 .. size)
  BY <1>1, <1>2, BlocksAre DEF Applying
<1>4. Max(naming) \in naming
  <2>. HIDE DEF naming
  <2>. QED BY <1>3, MaxOfBounded
<1>5. \A n \in naming : AllBlocks[n].parser = "typescript"
  <2>1. \A block \in ToSet(repo.own) : block.parser \in {"espree", "typescript"}
    BY RepositoryAssumption DEF WellFormed
  <2>. QED BY <1>1, <2>1, BlocksAre DEF Applying
<1>6. Parser(f) = IF naming = {} THEN "espree" ELSE AllBlocks[Max(naming)].parser
  BY DEF Parser, ParserOf, AllBlocks
<1>. QED BY <1>3, <1>4, <1>5, <1>6

LEMMA FileType ==
  ASSUME RunInv
  PROVE  /\ \A n \in DOMAIN repo.files : repo.files[n] \in SourceFile
         /\ \A done \in ToSet(linted) \union ToSet(scanned) : FileOf(done) \in SourceFile
  BY FilesOf DEF RunInv, Place, LintedSoFar, ScannedSoFar, FileOf

LEMMA NestedPassedOver ==
  ASSUME RunInv
  PROVE  NestedLeftAlone
<1>. SUFFICES ASSUME NEW done \in ToSet(linted) \union ToSet(scanned), NEW nested \in NestedRepos
              PROVE  ~IsPrefix(nested, FileOf(done).path)
  BY DEF NestedLeftAlone
<1>. DEFINE f == FileOf(done)
<1>1. f \in SourceFile /\ f.path \in Seq(STRING) /\ f.path # << >> /\ f.path # nested /\ nested \in Seq(STRING)
  BY FileType, NestedAssumption DEF SourceFile
<1>. HIDE DEF f
<1>2. CASE done \in ToSet(linted)
  <2>1. LintedByEslint(f) /\ f.kind \in {"js", "ts"} /\ repo \in Repository
    BY <1>2 DEF f, RunInv, LintedSoFar, Place, LintedByEslint
  <2>2. ~\E glob \in Config.ignores : Matches(glob, f.path)
    BY <1>1, <2>1, LintedMeans
  <2>3. [anchored |-> TRUE, path |-> nested, inside |-> TRUE] \in Config.ignores
    BY DEF Config, oresConfig, nestedRepoIgnores
  <2>4. ~IsStrictPrefix(nested, f.path)
    BY <1>1, <2>2, <2>3, NestedMatches
  <2>. QED BY <1>1, <2>4 DEF IsStrictPrefix, f
<1>3. CASE done \in ToSet(scanned)
  <2>1. trackedFiles(f, repo.includeTests)
    BY <1>3 DEF f, RunInv, ScannedSoFar
  <2>2. ~(Len(nested) <= Len(f.path) /\ SubSeq(f.path, 1, Len(nested)) = nested)
    BY <2>1 DEF trackedFiles
  <2>3. SubSeq(nested, 1, Len(nested)) = nested
    BY <1>1, SubSeqFull
  <2>. QED BY <2>2, <2>3 DEF IsPrefix, f
<1>. QED BY <1>2, <1>3

LEMMA IgnoredStayIgnored ==
  ASSUME RunInv
  PROVE  IgnoresKept
<1>. SUFFICES ASSUME stage = "done", \A line \in repo.legacy : Portable(line),
                     NEW n \in DOMAIN repo.files, repo.files[n].kind = "js"
              PROVE  LeftOut(repo.files[n]) <=> \A done \in ToSet(linted) : done.file # n
  BY DEF IgnoresKept
<1>. DEFINE f == repo.files[n]
<1>1. f \in SourceFile /\ repo \in Repository
  BY FileType DEF RunInv, Place
<1>. HIDE DEF f
<1>2. LeftOut(f) <=> ~LintedByEslint(f)
  BY <1>1, LintedMeans, IgnoredMeans DEF f
<1>3. LintedByEslint(f) <=> \E done \in ToSet(linted) : done.file = n
  <2>1. LintedByEslint(f) => \E done \in ToSet(linted) : done.file = n
    BY DEF f, RunInv, NoneMissed, ESLintStages
  <2>2. \A done \in ToSet(linted) : done.file = n => LintedByEslint(f)
    BY DEF f, RunInv, LintedSoFar, FileOf
  <2>. QED BY <2>1, <2>2
<1>. QED BY <1>2, <1>3 DEF f

LEMMA TypeScriptParsed ==
  ASSUME RunInv
  PROVE  TypeScriptNeverParsedAsJs
<1>0. repo \in Repository
  BY DEF RunInv, Place
<1>1. ASSUME NEW done \in ToSet(linted), FileOf(done).kind = "ts"
      PROVE  done.parser = "typescript"
  <2>1. LintedByEslint(FileOf(done)) /\ done.parser = Parser(FileOf(done)) /\ FileOf(done) \in SourceFile
    BY FileType DEF RunInv, LintedSoFar
  <2>. QED BY <1>0, <1>1, <2>1, LintedMeans, ParserOfTypeScript
<1>2. ASSUME stage = "done", NEW n \in DOMAIN repo.files, repo.files[n].kind = "ts", ~LeftOut(repo.files[n]),
             \A done \in ToSet(linted) : done.file # n
      PROVE  \/ NotePrinted(repo.env, TRUE)
             \/ \E id \in Candidates : tryResolve(repo.env, id) /\ repo.env.imported[id] # "complete"
  <2>1. ~LintedByEslint(repo.files[n])
    BY <1>2 DEF RunInv, NoneMissed, ESLintStages
  <2>2. ~Supported
    BY <1>0, <1>2, <2>1, FileType, LintedMeans, IgnoredMeans
  <2>. QED BY <2>2 DEF Supported, loadTsSupport, NotePrinted
<1>. QED BY <1>1, <1>2 DEF TypeScriptNeverParsedAsJs

\* Neither checker reports on a repository inside this one (nestedRepoIgnores of
\* base.mjs, trackedFiles of require-send.mjs), whatever is in it.
THEOREM NestedAlone == LintSpec => []NestedLeftAlone
  BY RunInvariant, NestedPassedOver, PTL

\* ESLint examines exactly the JavaScript files that neither the directories of IGNORES
\* nor a nested repository nor .eslintignore leaves out, for every .eslintignore that
\* legacyIgnoreFile of base.mjs can say in globs.
THEOREM IgnoresStay == LintSpec => []IgnoresKept
  BY RunInvariant, IgnoredStayIgnored, PTL

\* ESLint's own parser never gets TypeScript, whatever is installed (oresConfig of
\* base.mjs), and where such a file is not read the note of js.sh says so, or a
\* package is there that cannot be used.
THEOREM TypeScriptParser == LintSpec => []TypeScriptNeverParsedAsJs
  BY RunInvariant, TypeScriptParsed, PTL

-----------------------------------------------------------------------------
(* What ESLint's messages say.                                             *)

LEMMA SemicolonRuleOn ==
  ASSUME repo \in Repository, SemicolonsLeftToBase, NEW f \in SourceFile, f.kind \in {"js", "ts"},
         LintedByEslint(f), NEW name \in SemicolonRules
  PROVE  RuleOn(Config, f, repo.own, name) <=> name \in DOMAIN semiRules(repo.env)
<1>. DEFINE base == BaseOf(f)
            rules == AllBlocks[base].rules
            naming == {n \in Applying(AllBlocks, f) : name \in DOMAIN AllBlocks[n].rules}
            semi == semiRules(repo.env)
<1>1. /\ base \in DOMAIN AllBlocks /\ base \in Int
      /\ AllBlocks[base] = (IF f.kind = "js" THEN JsBlock ELSE TsBlock)
  BY BlocksAre, LintedMeans DEF BaseOf
<1>2. JsBlock.kind = "js" /\ TsBlock.kind = "ts"
  BY DEF JsBlock, TsBlock, Block
<1>3. name \notin DOMAIN repo.rules /\ \A block \in ToSet(repo.own) : name \notin DOMAIN block.rules
  BY DEF SemicolonsLeftToBase
<1>4. name \notin DOMAIN correctness /\ name # "no-unused-vars"
  BY DEF SemicolonRules, correctness
<1>5. \A r \in DOMAIN semi : semi[r] = "warn"
  BY DEF semiRules
<1>6. /\ rules = (IF f.kind = "js" THEN Merged(Merged(semi, correctness), repo.rules)
                  ELSE Merged(Merged(Merged(semi, correctness), [r \in {"no-unused-vars"} |-> "off"]), repo.rules))
  BY <1>1 DEF JsBlock, TsBlock, Block, tsRules
<1>7. (name \in DOMAIN rules <=> name \in DOMAIN semi) /\ (name \in DOMAIN semi => rules[name] = "warn")
  <2>. HIDE DEF semi, rules
  <2>. DEFINE inner == Merged(semi, correctness)
              off == [r \in {"no-unused-vars"} |-> "off"]
  <2>1. \A one, two : name \notin DOMAIN two =>
          /\ name \in DOMAIN Merged(one, two) <=> name \in DOMAIN one
          /\ name \in DOMAIN one => Merged(one, two)[name] = one[name]
    BY DEF Merged
  <2>2. name \notin DOMAIN off
    BY <1>4
  <2>. HIDE DEF off
  <2>3. CASE f.kind = "js"
    <3>1. rules = Merged(Merged(semi, correctness), repo.rules)
      BY <1>6, <2>3
    <3>. QED BY <1>3, <1>4, <1>5, <2>1, <3>1
  <2>4. CASE f.kind # "js"
    <3>1. rules = Merged(Merged(Merged(semi, correctness), off), repo.rules)
      BY <1>6, <2>4 DEF off
    <3>. QED BY <1>3, <1>4, <1>5, <2>1, <2>2, <3>1
  <2>. QED BY <2>3, <2>4
<1>8. naming = IF name \in DOMAIN rules THEN {base} ELSE {}
  <2>1. \A n \in Applying(AllBlocks, f) : n = base \/ AllBlocks[n] \in ToSet(repo.own)
    BY <1>2, BlocksAre DEF Applying, BaseOf
  <2>2. base \in Applying(AllBlocks, f)
    BY <1>1, <1>2 DEF Applying
  <2>. HIDE DEF base
  <2>. QED BY <1>3, <2>1, <2>2
<1>9. Max({base}) = base
  BY <1>1 DEF Max
<1>10. RulesFor(Config, f, repo.own) =
         [r \in UNION {DOMAIN AllBlocks[n].rules : n \in Applying(AllBlocks, f)} |->
            AllBlocks[Max({n \in Applying(AllBlocks, f) : r \in DOMAIN AllBlocks[n].rules})].rules[r]]
  BY DEF RulesFor, AllBlocks
<1>11. name \in DOMAIN RulesFor(Config, f, repo.own) <=> naming # {}
  BY <1>10
<1>12. naming # {} => RulesFor(Config, f, repo.own)[name] = AllBlocks[Max(naming)].rules[name]
  BY <1>10
<1>. HIDE DEF naming, base, semi
<1>13. naming # {} => RulesFor(Config, f, repo.own)[name] = rules[name]
  BY <1>8, <1>9, <1>12
<1>. QED BY <1>7, <1>8, <1>11, <1>13 DEF RuleOn, semi

LinesIn(said, ruleIds) == {said[n].line : n \in {m \in DOMAIN said : said[m].ruleId \in ruleIds}}

LEMMA LinesInBoth ==
  ASSUME NEW s \in Seq(LintMessage), NEW t \in Seq(LintMessage), NEW ruleIds
  PROVE  s \o t \in Seq(LintMessage) /\ LinesIn(s \o t, ruleIds) = LinesIn(s, ruleIds) \union LinesIn(t, ruleIds)
<1>. DEFINE both == s \o t
<1>1. /\ both \in Seq(LintMessage) /\ DOMAIN both = 1 .. Len(s) + Len(t)
      /\ DOMAIN s = 1 .. Len(s) /\ DOMAIN t = 1 .. Len(t) /\ Len(s) \in Nat /\ Len(t) \in Nat
  BY ConcatProperties, LenProperties
<1>2. \A n \in 1 .. Len(s) : n \in DOMAIN both /\ both[n] = s[n]
  BY <1>1, ConcatProperties
<1>3. \A n \in 1 .. Len(t) : Len(s) + n \in DOMAIN both /\ both[Len(s) + n] = t[n]
  BY <1>1, ConcatProperties
<1>4. \A n \in DOMAIN both : n \in 1 .. Len(s) \/ (n - Len(s) \in 1 .. Len(t) /\ n = Len(s) + (n - Len(s)))
  BY <1>1
<1>. HIDE DEF both
<1>5. LinesIn(both, ruleIds) \subseteq LinesIn(s, ruleIds) \union LinesIn(t, ruleIds)
  <2>. SUFFICES ASSUME NEW n \in DOMAIN both, both[n].ruleId \in ruleIds
                PROVE  both[n].line \in LinesIn(s, ruleIds) \union LinesIn(t, ruleIds)
    BY DEF LinesIn
  <2>1. CASE n \in 1 .. Len(s)
    BY <1>1, <1>2, <2>1 DEF LinesIn
  <2>2. CASE n - Len(s) \in 1 .. Len(t) /\ n = Len(s) + (n - Len(s))
    <3>. DEFINE j == n - Len(s)
    <3>1. j \in 1 .. Len(t) /\ both[n] = t[j]
      BY <1>3, <2>2
    <3>. HIDE DEF j
    <3>. QED BY <1>1, <3>1 DEF LinesIn
  <2>. QED BY <1>4, <2>1, <2>2
<1>6. LinesIn(s, ruleIds) \subseteq LinesIn(both, ruleIds)
  BY <1>1, <1>2 DEF LinesIn
<1>7. LinesIn(t, ruleIds) \subseteq LinesIn(both, ruleIds)
  BY <1>1, <1>3 DEF LinesIn
<1>. QED BY <1>1, <1>5, <1>6, <1>7 DEF both

\* A rule's messages are of that rule, and name the lines it was raised on, if it is on.
LEMMA MessagesOf ==
  ASSUME NEW f, NEW ruleId \in RuleId, NEW lines \in SUBSET Nat, IsFiniteSet(lines)
  PROVE  /\ Messages(f, ruleId, lines) \in Seq(LintMessage)
         /\ \A ruleIds : LinesIn(Messages(f, ruleId, lines), ruleIds) =
                           IF ruleId \in ruleIds /\ RuleOn(Config, f, repo.own, ruleId) THEN lines ELSE {}
<1>. DEFINE said == Messages(f, ruleId, lines)
            level == RulesFor(Config, f, repo.own)[ruleId]
            count == Cardinality(lines)
            rank(line) == Cardinality({other \in lines : other < line})
            Said(line) == [ruleId |-> ruleId, severity |-> IF level = "error" THEN 2 ELSE 1, line |-> line]
            of(n) == CHOOSE line \in lines : rank(line) = n - 1
<1>1. CASE ~RuleOn(Config, f, repo.own, ruleId)
  <2>1. said = << >>
    BY <1>1 DEF Messages
  <2>2. << >> \in Seq(LintMessage) /\ \A ruleIds : LinesIn(<< >>, ruleIds) = {}
    BY DEF LinesIn
  <2>. QED BY <1>1, <2>1, <2>2
<1>2. CASE RuleOn(Config, f, repo.own, ruleId)
  <2>1. count \in Nat
    BY FS_CardinalityType
  <2>2. said = [n \in 1 .. count |-> Said(of(n))]
    BY <1>2 DEF Messages
  <2>. DEFINE R == {p \in Nat \X Nat : p[1] < p[2]}
  <2>3. /\ \A x, y \in lines : rank(x) = rank(y) => x = y
        /\ \A x \in lines : rank(x) \in 0 .. count - 1
        /\ \A n \in 0 .. count - 1 : \E x \in lines : rank(x) = n
    <3>1. \A x, y \in Nat : <<x, y>> \in R <=> x < y
      OBVIOUS
    <3>2. \A x \in lines : Preceding(lines, R, x) = {other \in lines : other < x}
      BY <3>1 DEF Preceding
    <3>. HIDE DEF R
    <3>3. /\ \A x, y, z \in lines : <<x, y>> \in R /\ <<y, z>> \in R => <<x, z>> \in R
          /\ \A x \in lines : <<x, x>> \notin R
          /\ \A x, y \in lines : x # y => <<x, y>> \in R \/ <<y, x>> \in R
      BY <3>1
    <3>4. /\ \A x, y \in lines : Cardinality(Preceding(lines, R, x)) = Cardinality(Preceding(lines, R, y)) => x = y
          /\ \A x \in lines : Cardinality(Preceding(lines, R, x)) \in 0 .. count - 1
          /\ \A n \in 0 .. count - 1 : \E x \in lines : Cardinality(Preceding(lines, R, x)) = n
      BY <3>3, Ranked
    <3>. HIDE DEF count
    <3>. QED BY <3>2, <3>4
  <2>. HIDE DEF rank, count
  <2>4. \A n \in 1 .. count : of(n) \in lines /\ rank(of(n)) = n - 1
    <3>. SUFFICES ASSUME NEW n \in 1 .. count PROVE of(n) \in lines /\ rank(of(n)) = n - 1
      OBVIOUS
    <3>1. n - 1 \in 0 .. count - 1
      BY <2>1
    <3>2. \E line \in lines : rank(line) = n - 1
      BY <2>3, <3>1
    <3>. QED BY <3>2
  <2>5. \A line \in lines : \E n \in 1 .. count : of(n) = line
    <3>. SUFFICES ASSUME NEW line \in lines PROVE \E n \in 1 .. count : of(n) = line
      OBVIOUS
    <3>1. rank(line) \in 0 .. count - 1
      BY <2>3
    <3>2. rank(line) + 1 \in 1 .. count /\ (rank(line) + 1) - 1 = rank(line)
      BY <2>1, <3>1
    <3>. HIDE DEF of
    <3>. QED BY <2>3, <2>4, <3>2
  <2>. HIDE DEF of, said, level
  <2>6. \A line \in Nat : Said(line) \in LintMessage /\ Said(line).ruleId = ruleId /\ Said(line).line = line
    BY DEF LintMessage
  <2>. HIDE DEF Said
  <2>7. said \in Seq(LintMessage) /\ DOMAIN said = 1 .. count
    <3>1. \A n \in 1 .. count : Said(of(n)) \in LintMessage
      BY <2>4, <2>6
    <3>. QED BY <2>1, <2>2, <3>1
  <2>8. \A n \in 1 .. count : said[n].ruleId = ruleId /\ said[n].line = of(n)
    BY <2>2, <2>4, <2>6
  <2>9. ASSUME NEW ruleIds
        PROVE  LinesIn(said, ruleIds) = IF ruleId \in ruleIds THEN lines ELSE {}
    BY <2>4, <2>5, <2>7, <2>8 DEF LinesIn
  <2>. QED BY <1>2, <2>7, <2>9 DEF said
<1>. QED BY <1>1, <1>2

CoreMissing(f) == {n \in DOMAIN f.statements : CoreSemi(f.statements[n])}

FallbackMissing(f) == {n \in DOMAIN f.statements : missingSemi(f.statements[n]) # {}}

LEMMA SomeOf ==
  ASSUME NEW S, NEW s \in Seq(S), NEW T \in SUBSET DOMAIN s
  PROVE  T \in SUBSET Nat /\ IsFiniteSet(T)
<1>1. DOMAIN s = 1 .. Len(s) /\ 1 \in Int /\ Len(s) \in Int
  OBVIOUS
<1>2. IsFiniteSet(DOMAIN s)
  BY <1>1, FS_Interval
<1>. QED BY <1>1, <1>2, FS_Subset

LEMMA EslintMessagesOf ==
  ASSUME NEW f \in SourceFile, NEW raised
  PROVE  /\ EslintMessages(f, raised) \in Seq(LintMessage)
         /\ Parses(f) =>
              LinesIn(EslintMessages(f, raised), SemicolonRules) =
                (IF RuleOn(Config, f, repo.own, "semi") THEN CoreMissing(f) ELSE {})
                  \union (IF RuleOn(Config, f, repo.own, "ores/semi") THEN FallbackMissing(f) ELSE {})
                  \union LinesIn(f.others, SemicolonRules)
<1>. DEFINE undisabled == {line \in DOMAIN f.program : line \in raised /\ ~(line > 1 /\ f.program[line - 1].op = "eslint_next")}
            A == Messages(f, "ores/require-send", undisabled)
            B == Messages(f, "semi", CoreMissing(f))
            C == Messages(f, "ores/semi", FallbackMissing(f))
<1>1. f.program \in Seq([op : STRING, name : STRING]) /\ f.statements \in Seq(Statement) /\ f.others \in Seq(LintMessage)
  BY DEF SourceFile
<1>2. undisabled \in SUBSET Nat /\ IsFiniteSet(undisabled)
  <2>1. undisabled \in SUBSET DOMAIN f.program
    OBVIOUS
  <2>. HIDE DEF undisabled
  <2>. QED BY <1>1, <2>1, SomeOf
<1>3. CoreMissing(f) \in SUBSET Nat /\ IsFiniteSet(CoreMissing(f))
  BY <1>1, SomeOf DEF CoreMissing
<1>4. FallbackMissing(f) \in SUBSET Nat /\ IsFiniteSet(FallbackMissing(f))
  BY <1>1, SomeOf DEF FallbackMissing
<1>5. "ores/require-send" \in RuleId /\ "semi" \in RuleId /\ "ores/semi" \in RuleId /\ "none" \in RuleId
  BY DEF RuleId
<1>6. CASE ~Parses(f)
  <2>1. EslintMessages(f, raised) = <<[ruleId |-> "none", severity |-> 2, line |-> 0]>>
    BY <1>6 DEF EslintMessages
  <2>2. [ruleId |-> "none", severity |-> 2, line |-> 0] \in LintMessage
    BY <1>5 DEF LintMessage
  <2>. QED BY <1>6, <2>1, <2>2
<1>7. CASE Parses(f)
  <2>1. EslintMessages(f, raised) = ((A \o B) \o C) \o f.others
    BY <1>7 DEF EslintMessages, CoreMissing, FallbackMissing
  <2>2. A \in Seq(LintMessage) /\ B \in Seq(LintMessage) /\ C \in Seq(LintMessage)
    <3>. HIDE DEF undisabled
    <3>. QED BY <1>2, <1>3, <1>4, <1>5, MessagesOf
  <2>3. LinesIn(A, SemicolonRules) = {}
    <3>. HIDE DEF undisabled
    <3>1. "ores/require-send" \notin SemicolonRules
      BY DEF SemicolonRules
    <3>. QED BY <1>2, <1>5, <3>1, MessagesOf
  <2>4. LinesIn(B, SemicolonRules) = IF RuleOn(Config, f, repo.own, "semi") THEN CoreMissing(f) ELSE {}
    <3>1. "semi" \in SemicolonRules
      BY DEF SemicolonRules
    <3>. QED BY <1>3, <1>5, <3>1, MessagesOf
  <2>5. LinesIn(C, SemicolonRules) = IF RuleOn(Config, f, repo.own, "ores/semi") THEN FallbackMissing(f) ELSE {}
    <3>1. "ores/semi" \in SemicolonRules
      BY DEF SemicolonRules
    <3>. QED BY <1>4, <1>5, <3>1, MessagesOf
  <2>. HIDE DEF A, B, C
  <2>5a. \A s, t \in Seq(LintMessage) :
           s \o t \in Seq(LintMessage) /\ LinesIn(s \o t, SemicolonRules) = LinesIn(s, SemicolonRules) \union LinesIn(t, SemicolonRules)
    BY LinesInBoth
  <2>6. A \o B \in Seq(LintMessage) /\ LinesIn(A \o B, SemicolonRules) = LinesIn(B, SemicolonRules)
    <3>1. LinesIn(A \o B, SemicolonRules) = LinesIn(A, SemicolonRules) \union LinesIn(B, SemicolonRules)
      BY <2>2, <2>5a, Zenon
    <3>2. {} \union LinesIn(B, SemicolonRules) = LinesIn(B, SemicolonRules)
      OBVIOUS
    <3>. QED BY <2>2, <2>3, <2>5a, <3>1, <3>2, Zenon
  <2>7. /\ (A \o B) \o C \in Seq(LintMessage)
        /\ LinesIn((A \o B) \o C, SemicolonRules) = LinesIn(B, SemicolonRules) \union LinesIn(C, SemicolonRules)
    BY <2>2, <2>6, <2>5a, Zenon
  <2>8. /\ ((A \o B) \o C) \o f.others \in Seq(LintMessage)
        /\ LinesIn(((A \o B) \o C) \o f.others, SemicolonRules) =
             LinesIn(B, SemicolonRules) \union LinesIn(C, SemicolonRules) \union LinesIn(f.others, SemicolonRules)
    BY <1>1, <2>7, <2>5a, Zenon
  <2>. QED BY <2>1, <2>4, <2>5, <2>8
<1>. QED BY <1>6, <1>7

\* The fallback rule and ESLint's agree on every statement of JavaScript.
LEMMA FallbackAgrees ==
  ASSUME NEW s \in Statement, {s.type, s.declaration} \intersect TypeScriptOnly = {}
  PROVE  missingSemi(s) # {} <=> CoreSemi(s)
<1>. DEFINE inner == [s EXCEPT !.type = s.declaration, !.declaration = "none"]
<1>1. /\ s.declaration # "none" => s.type \in Exports
      /\ s.declaration = "ClassExpression" => s.type = "ExportDefaultDeclaration"
      /\ s.forHead => s.type = "VariableDeclaration"
      /\ s.type \notin TypeScriptOnly /\ s.declaration \notin TypeScriptOnly
  BY DEF Statement
<1>2. /\ s.type \in NEEDS_SEMI \union Bodied \union {"VariableDeclaration", "IfStatement"} \union Exports
      /\ s.declaration \in {"none", "VariableDeclaration", "ClassExpression", "TSTypeAliasDeclaration"} \union Bodied
  BY DEF Statement
<1>3. inner.type = s.declaration /\ inner.declaration = "none" /\ inner.forHead = s.forHead /\ inner.semicolon = s.semicolon
  BY DEF Statement
<1>4. missingSemi(s) # {} <=> ~s.semicolon /\ (Handled(s) \/ Handled(inner))
  <2>. HIDE DEF inner
  <2>1. Nodes(s) = {s, inner}
    BY DEF Nodes, inner
  <2>. QED BY <1>3, <2>1 DEF missingSemi
<1>5. Handled(inner) => Handled(s)
  <2>1. inner.type \in {"none", "VariableDeclaration", "ClassExpression", "FunctionDeclaration", "ClassDeclaration"}
    BY <1>1, <1>2, <1>3 DEF Bodied, TypeScriptOnly
  <2>2. Handled(inner) => s.declaration = "VariableDeclaration"
    BY <1>3, <2>1 DEF Handled, NEEDS_SEMI, Exports
  <2>3. s.declaration = "VariableDeclaration" => Handled(s)
    BY <1>1 DEF Handled, Bodied
  <2>. QED BY <2>2, <2>3
<1>6. Handled(s) <=> \/ s.type \in NEEDS_SEMI \ TypeScriptOnly
                     \/ s.type = "VariableDeclaration" /\ ~s.forHead
                     \/ s.type = "ExportNamedDeclaration" /\ s.declaration \in {"none", "VariableDeclaration"}
                     \/ s.type = "ExportDefaultDeclaration" /\ s.declaration \notin {"FunctionDeclaration", "ClassDeclaration"}
  <2>1. s.declaration \notin Bodied <=> s.declaration \notin {"FunctionDeclaration", "ClassDeclaration"}
    BY <1>1 DEF Bodied, TypeScriptOnly
  <2>2. s.type = "ExportNamedDeclaration" =>
          (s.declaration \notin {"FunctionDeclaration", "ClassDeclaration"} <=> s.declaration \in {"none", "VariableDeclaration"})
    BY <1>1, <1>2 DEF Bodied, TypeScriptOnly
  <2>3. s.type \in Exports <=> s.type = "ExportNamedDeclaration" \/ s.type = "ExportDefaultDeclaration"
    BY DEF Exports
  <2>. QED BY <1>1, <2>1, <2>2, <2>3 DEF Handled
<1>. HIDE DEF inner
<1>. QED BY <1>4, <1>5, <1>6 DEF CoreSemi

LEMMA SemicolonsAgree ==
  ASSUME RunInv
  PROVE  SemicolonsAlike
<1>. SUFFICES ASSUME NEW done \in ToSet(linted), SemicolonsLeftToBase,
                     \A m \in ToSet(FileOf(done).others) : m.ruleId \notin SemicolonRules
              PROVE  LET f  == FileOf(done)
                         js == {n \in DOMAIN f.statements :
                                  {f.statements[n].type, f.statements[n].declaration} \intersect TypeScriptOnly = {}}
                     IN LinesOf(done, SemicolonRules) \intersect js = {n \in js : CoreSemi(f.statements[n])}
  BY DEF SemicolonsAlike
<1>. DEFINE f == FileOf(done)
            js == {n \in DOMAIN f.statements :
                     {f.statements[n].type, f.statements[n].declaration} \intersect TypeScriptOnly = {}}
<1>1. /\ f \in SourceFile /\ repo \in Repository /\ LintedByEslint(f) /\ f.kind \in {"js", "ts"}
  BY FileType DEF RunInv, Place, LintedSoFar, LintedByEslint
<1>2. PICK raised : done.messages = EslintMessages(f, raised)
  BY DEF RunInv, LintedSoFar
<1>3. Parses(f)
  BY <1>1, LintedMeans, ParserOfTypeScript DEF Parses
<1>4. f.statements \in Seq(Statement) /\ f.others \in Seq(LintMessage)
  BY <1>1 DEF SourceFile
<1>5. \A n \in js : n \in DOMAIN f.statements /\ (CoreSemi(f.statements[n]) <=> missingSemi(f.statements[n]) # {})
  <2>. SUFFICES ASSUME NEW n \in js
                PROVE  CoreSemi(f.statements[n]) <=> missingSemi(f.statements[n]) # {}
    OBVIOUS
  <2>1. f.statements[n] \in Statement
    BY <1>4
  <2>. QED BY <2>1, FallbackAgrees
<1>6. LinesIn(f.others, SemicolonRules) = {}
  BY DEF LinesIn, ToSet
<1>7. DOMAIN semiRules(repo.env) \intersect SemicolonRules \in {{"semi"}, {"ores/semi"}}
  BY DEF semiRules, SemicolonRules
<1>8. /\ RuleOn(Config, f, repo.own, "semi") <=> "semi" \in DOMAIN semiRules(repo.env)
      /\ RuleOn(Config, f, repo.own, "ores/semi") <=> "ores/semi" \in DOMAIN semiRules(repo.env)
  <2>1. "semi" \in SemicolonRules /\ "ores/semi" \in SemicolonRules
    BY DEF SemicolonRules
  <2>. HIDE DEF f
  <2>. QED BY <1>1, <2>1, SemicolonRuleOn
<1>9. LinesOf(done, SemicolonRules) = LinesIn(EslintMessages(f, raised), SemicolonRules)
  BY <1>2 DEF LinesOf, LinesIn
<1>10. LinesOf(done, SemicolonRules) \in {CoreMissing(f), FallbackMissing(f)}
  <2>1. "semi" \in SemicolonRules /\ "ores/semi" \in SemicolonRules /\ "semi" # "ores/semi"
    BY DEF SemicolonRules
  <2>. HIDE DEF f
  <2>. QED BY <1>1, <1>3, <1>6, <1>7, <1>8, <1>9, <2>1, EslintMessagesOf
<1>. QED BY <1>5, <1>10 DEF CoreMissing, FallbackMissing

\* Whether ESLint has its semicolon rules or ores/semi of plugin.mjs stands in, the
\* same JavaScript statements are told that they lack a semicolon.
THEOREM SemicolonsEitherWay == LintSpec => []SemicolonsAlike
  BY RunInvariant, SemicolonsAgree, PTL

-----------------------------------------------------------------------------
(* The report of the formatter.                                            *)

Entry == [ruleId : RuleId, count : Nat, examples : Nat]

\* The place of an entry after another: the order the rules are printed in.
InOrder(a, b) ==
  \/ a.ruleId \in Report!LABELS /\ b.ruleId \notin Report!LABELS
  \/ (a.ruleId \in Report!LABELS <=> b.ruleId \in Report!LABELS) /\ a.count >= b.count

LEMMA SameCardinality ==
  ASSUME NEW S
  PROVE  Report!Cardinality(S) = Cardinality(S)
  BY DEF Report!Cardinality, Cardinality

\* The stable sort is a rearrangement, with nothing behind what it belongs before.
LEMMA OrderedIs ==
  ASSUME NEW entries \in Seq(Entry)
  PROVE  /\ DOMAIN Report!Ordered(entries) = DOMAIN entries
         /\ ToSet(Report!Ordered(entries)) = ToSet(entries)
         /\ \A m, n \in DOMAIN entries : m < n => InOrder(Report!Ordered(entries)[m], Report!Ordered(entries)[n])
<1>. DEFINE D == DOMAIN entries
            N == Len(entries)
            before(j, n) == Report!Before(entries[j], entries[n]) \/ (j < n /\ ~Report!Before(entries[n], entries[j]))
            R == {p \in D \X D : before(p[1], p[2])}
            rank(n) == Cardinality(Preceding(D, R, n))
            of(p) == CHOOSE n \in D : 1 + rank(n) = p
<1>1. D = 1 .. N /\ N \in Nat /\ \A n \in D : entries[n] \in Entry
  OBVIOUS
<1>2. IsFiniteSet(D) /\ Cardinality(D) = N
  <2>1. 1 \in Int /\ N \in Int
    BY <1>1
  <2>2. IsFiniteSet(1 .. N) /\ Cardinality(1 .. N) = IF 1 > N THEN 0 ELSE N - 1 + 1
    BY <2>1, FS_Interval
  <2>. HIDE DEF D, N
  <2>. QED BY <1>1, <2>2
<1>3. \A j, n \in D : <<j, n>> \in R <=> before(j, n)
  OBVIOUS
<1>4. /\ \A j, n, m \in D : before(j, n) /\ before(n, m) => before(j, m)
      /\ \A n \in D : ~before(n, n)
      /\ \A j, n \in D : j # n => before(j, n) \/ before(n, j)
      /\ \A j, n \in D : before(j, n) => InOrder(entries[j], entries[n])
  <2>1. \A n \in D : entries[n].count \in Nat
    BY <1>1 DEF Entry
  <2>2. \A n \in D : n \in Nat
    BY <1>1
  <2>. HIDE DEF D
  <2>3. \A j, n, m \in D : before(j, n) /\ before(n, m) => before(j, m)
    BY <2>1, <2>2 DEF Report!Before
  <2>4. \A n \in D : ~before(n, n)
    BY <2>1, <2>2 DEF Report!Before
  <2>5. \A j, n \in D : j # n => before(j, n) \/ before(n, j)
    BY <2>1, <2>2 DEF Report!Before
  <2>6. \A j, n \in D : before(j, n) => InOrder(entries[j], entries[n])
    BY <2>1, <2>2 DEF Report!Before, InOrder
  <2>. QED BY <2>3, <2>4, <2>5, <2>6
<1>5. Report!Ordered(entries) = [p \in D |-> entries[of(p)]]
  <2>1. \A n \in D : Preceding(D, R, n) = {j \in D : before(j, n)}
    BY <1>3 DEF Preceding
  <2>. DEFINE place(n) == 1 + Report!Cardinality({j \in D : before(j, n)})
  <2>2. \A n \in D : place(n) = 1 + rank(n)
    BY <2>1, SameCardinality
  <2>3. Report!Ordered(entries) = [p \in D |-> entries[CHOOSE n \in D : place(n) = p]]
    BY DEF Report!Ordered
  <2>. HIDE DEF place, rank
  <2>4. \A p \in D : (CHOOSE n \in D : place(n) = p) = (CHOOSE n \in D : 1 + rank(n) = p)
    BY <2>2
  <2>. QED BY <2>3, <2>4
<1>. HIDE DEF before, R
<1>6. /\ \A x, y \in D : <<x, y>> \in R <=> rank(x) < rank(y)
      /\ \A x, y \in D : rank(x) = rank(y) => x = y
      /\ \A x \in D : rank(x) \in 0 .. N - 1
      /\ \A n \in 0 .. N - 1 : \E x \in D : rank(x) = n
  <2>1. /\ \A x, y, z \in D : <<x, y>> \in R /\ <<y, z>> \in R => <<x, z>> \in R
        /\ \A x \in D : <<x, x>> \notin R
        /\ \A x, y \in D : x # y => <<x, y>> \in R \/ <<y, x>> \in R
    BY <1>3, <1>4
  <2>. HIDE DEF D, N
  <2>2. /\ \A x, y \in D : <<x, y>> \in R <=> Cardinality(Preceding(D, R, x)) < Cardinality(Preceding(D, R, y))
        /\ \A x, y \in D : Cardinality(Preceding(D, R, x)) = Cardinality(Preceding(D, R, y)) => x = y
        /\ \A x \in D : Cardinality(Preceding(D, R, x)) \in 0 .. Cardinality(D) - 1
        /\ \A n \in 0 .. Cardinality(D) - 1 : \E x \in D : Cardinality(Preceding(D, R, x)) = n
    BY <1>2, <2>1, Ranked
  <2>. QED BY <1>2, <2>2
<1>. HIDE DEF rank, D, N
<1>7. \A p \in D : of(p) \in D /\ rank(of(p)) = p - 1
  <2>. SUFFICES ASSUME NEW p \in D PROVE of(p) \in D /\ rank(of(p)) = p - 1
    OBVIOUS
  <2>1. p - 1 \in 0 .. N - 1 /\ p \in Nat
    BY <1>1
  <2>2. \E n \in D : rank(n) = p - 1
    BY <1>6, <2>1
  <2>3. \A n \in D : 1 + rank(n) = p <=> rank(n) = p - 1
    BY <1>1, <1>6, <2>1
  <2>. QED BY <2>2, <2>3
<1>8. \A n \in D : \E p \in D : of(p) = n
  <2>. SUFFICES ASSUME NEW n \in D PROVE \E p \in D : of(p) = n
    OBVIOUS
  <2>1. rank(n) \in 0 .. N - 1
    BY <1>6
  <2>2. rank(n) + 1 \in D /\ (rank(n) + 1) - 1 = rank(n)
    BY <1>1, <2>1
  <2>. HIDE DEF of
  <2>. QED BY <1>6, <1>7, <2>2
<1>. HIDE DEF of
<1>9. \A m, n \in D : m < n => InOrder(entries[of(m)], entries[of(n)])
  <2>. SUFFICES ASSUME NEW m \in D, NEW n \in D, m < n PROVE InOrder(entries[of(m)], entries[of(n)])
    OBVIOUS
  <2>1. rank(of(m)) < rank(of(n))
    BY <1>1, <1>7
  <2>2. <<of(m), of(n)>> \in R
    BY <1>6, <1>7, <2>1
  <2>. QED BY <1>3, <1>4, <1>7, <2>2
<1>10. DOMAIN entries = D
  BY DEF D
<1>. QED
  <2>1. ToSet(Report!Ordered(entries)) = ToSet(entries)
    BY <1>5, <1>7, <1>8, <1>10 DEF ToSet
  <2>. QED BY <1>5, <1>9, <1>10, <2>1

LEMMA MessagesTyped ==
  ASSUME RunInv
  PROVE  /\ DOMAIN linted = 1 .. Len(linted) /\ Len(linted) \in Nat
         /\ \A n \in DOMAIN linted : linted[n].messages \in Seq(LintMessage)
<1>1. linted \in Seq(ToSet(linted))
  BY DEF RunInv, LintedSoFar, IsSequence
<1>2. ASSUME NEW n \in DOMAIN linted
      PROVE  linted[n].messages \in Seq(LintMessage)
  <2>1. linted[n] \in ToSet(linted)
    BY <1>1
  <2>2. FileOf(linted[n]) \in SourceFile
    BY <2>1, FileType DEF RunInv, Place, LintedSoFar
  <2>3. PICK raised : linted[n].messages = EslintMessages(FileOf(linted[n]), raised)
    BY <2>1 DEF RunInv, LintedSoFar
  <2>. QED BY <2>2, <2>3, EslintMessagesOf
<1>. QED BY <1>1, <1>2

\* What the loops of the formatter have passed.
Passed == {p \in Places : p[1] < file \/ (p[1] = file /\ p[2] < message)}

PassedOf(ruleId) == {p \in Passed : MessageAt(p).ruleId = ruleId}

WithMessages(before) == {n \in DOMAIN linted : n < before /\ linted[n].messages # << >>}

AtPlace ==
  /\ results = [n \in DOMAIN linted |-> linted[n].messages]
  /\ file \in 1 .. Len(linted) + 1 /\ message \in Nat \ {0}
  /\ file \in DOMAIN linted => message <= Len(linted[file].messages) + 1
  /\ file \notin DOMAIN linted => message = 1

Totals ==
  /\ IsFiniteSet(Passed)
  /\ {errors, warnings} \subseteq Nat /\ errors + warnings = Cardinality(Passed)
  /\ parseErrors = Cardinality(PassedOf("none"))
  /\ files = Cardinality(WithMessages(file))

\* The rules named, how often each was, and that a rule has one entry.
Ids(entries) == {entries[n].ruleId : n \in DOMAIN entries}

Tallied(entries, tally) ==
  \A n \in DOMAIN entries :
    entries[n].count = tally[entries[n].ruleId] /\ entries[n].examples = Report!Least(entries[n].count, MAX)

OneEach(entries) == \A m, n \in DOMAIN entries : entries[m].ruleId = entries[n].ruleId => m = n

Tally == [ruleId \in RuleId |-> Cardinality(PassedOf(ruleId))]

Counts ==
  /\ byRule \in Seq(Entry) /\ OneEach(byRule) /\ Tallied(byRule, Tally)
  /\ Ids(byRule) = {MessageAt(p).ruleId : p \in Passed} \ {"none"}

Printed == report = Report!Rendered /\ file = Len(linted) + 1

FormatInv ==
  /\ stage \in ESLintStages => Report!Init
  /\ stage \notin ESLintStages => AtPlace /\ Totals /\ Counts
  /\ stage = "format" => report = Report!NoReport \/ Printed
  /\ stage \in {"files", "scan", "done"} => Printed

\* A finding's place is in a result and in its messages.
LEMMA PlaceIs ==
  ASSUME NEW p
  PROVE  p \in Places <=> \E n \in DOMAIN linted : \E m \in DOMAIN linted[n].messages : p = <<n, m>>
  BY DEF Places

\* A message the formatter takes is the next place.
LEMMA TakesPlace ==
  ASSUME RunInv, AtPlace, file \in DOMAIN linted, message \in DOMAIN linted[file].messages,
         UNCHANGED <<linted, file>>, message' = message + 1
  PROVE  /\ <<file, message>> \notin Passed /\ Passed' = Passed \union {<<file, message>>}
         /\ MessageAt(<<file, message>>) = Report!Current
         /\ MessageAt(<<file, message>>) \in LintMessage
         /\ \A p : MessageAt(p)' = MessageAt(p)
         /\ \A ruleId : PassedOf(ruleId)' = IF Report!Current.ruleId = ruleId THEN PassedOf(ruleId) \union {<<file, message>>}
                                            ELSE PassedOf(ruleId)
         /\ WithMessages(file)' = WithMessages(file)
         /\ AtPlace' <=> results' = results
<1>1. DOMAIN linted = 1 .. Len(linted) /\ Len(linted) \in Nat /\ \A n \in DOMAIN linted : linted[n].messages \in Seq(LintMessage)
  BY MessagesTyped
<1>2. file \in Nat /\ message \in Nat /\ message <= Len(linted[file].messages)
      /\ message + 1 <= Len(linted[file].messages) + 1 /\ message + 1 \in Nat \ {0}
  BY <1>1 DEF AtPlace
<1>3. Places' = Places
  BY DEF Places
<1>4. \A p \in Places : p[1] \in Nat /\ p[2] \in Nat /\ p = <<p[1], p[2]>>
  <2>. SUFFICES ASSUME NEW n \in DOMAIN linted, NEW m \in DOMAIN linted[n].messages
                PROVE  n \in Nat /\ m \in Nat
    BY PlaceIs
  <2>1. DOMAIN linted[n].messages = 1 .. Len(linted[n].messages)
    BY <1>1
  <2>. QED BY <1>1, <2>1
<1>5. <<file, message>> \in Places
  BY PlaceIs
<1>6. Passed' = {p \in Places : p[1] < file \/ (p[1] = file /\ p[2] < message + 1)}
  BY <1>3 DEF Passed
<1>7. Passed' = Passed \union {<<file, message>>} /\ <<file, message>> \notin Passed
  <2>1. \A p \in Places : p[2] < message + 1 <=> p[2] < message \/ p[2] = message
    BY <1>2, <1>4
  <2>2. \A p \in Places : p[1] = file /\ p[2] = message <=> p = <<file, message>>
    BY <1>4
  <2>3. ~(file < file) /\ ~(message < message)
    BY <1>2
  <2>. QED BY <1>5, <1>6, <2>1, <2>2, <2>3 DEF Passed
<1>8. /\ MessageAt(<<file, message>>) = Report!Current
      /\ MessageAt(<<file, message>>) \in LintMessage
  BY <1>1 DEF MessageAt, Report!Current, AtPlace
<1>9. \A p : MessageAt(p)' = MessageAt(p)
  BY DEF MessageAt
<1>10. ASSUME NEW ruleId
       PROVE  PassedOf(ruleId)' = IF Report!Current.ruleId = ruleId THEN PassedOf(ruleId) \union {<<file, message>>}
                                  ELSE PassedOf(ruleId)
  <2>1. PassedOf(ruleId)' = {p \in Passed \union {<<file, message>>} : MessageAt(p).ruleId = ruleId}
    BY <1>7, <1>9 DEF PassedOf
  <2>. QED BY <1>8, <2>1 DEF PassedOf
<1>11. WithMessages(file)' = WithMessages(file)
  BY DEF WithMessages
<1>12. AtPlace' <=> results' = results
  BY <1>1, <1>2 DEF AtPlace
<1>. QED BY <1>7, <1>8, <1>9, <1>10, <1>11, <1>12

\* One more message, of a rule or of none.
LEMMA TotalsGo ==
  ASSUME RunInv, AtPlace, Totals, file \in DOMAIN linted, message \in DOMAIN linted[file].messages,
         UNCHANGED <<linted, file, files>>, message' = message + 1, Report!CountSeverity,
         parseErrors' = IF Report!Current.ruleId = "none" THEN parseErrors + 1 ELSE parseErrors
  PROVE  Totals'
<1>. DEFINE place == <<file, message>>
<1>1. /\ place \notin Passed /\ Passed' = Passed \union {place}
      /\ PassedOf("none")' = IF Report!Current.ruleId = "none" THEN PassedOf("none") \union {place} ELSE PassedOf("none")
      /\ WithMessages(file)' = WithMessages(file)
  BY TakesPlace
<1>2. place \notin PassedOf("none") /\ IsFiniteSet(PassedOf("none")) /\ IsFiniteSet(Passed)
  <2>1. PassedOf("none") \subseteq Passed
    BY DEF PassedOf
  <2>. QED BY <1>1, <2>1, FS_Subset DEF Totals
<1>. HIDE DEF place
<1>3. IsFiniteSet(Passed') /\ Cardinality(Passed') = Cardinality(Passed) + 1
  BY <1>1, <1>2, FS_AddElement
<1>4. Cardinality(PassedOf("none")') =
        IF Report!Current.ruleId = "none" THEN Cardinality(PassedOf("none")) + 1 ELSE Cardinality(PassedOf("none"))
  BY <1>1, <1>2, FS_AddElement
<1>5. {errors', warnings'} \subseteq Nat /\ errors' + warnings' = Cardinality(Passed')
  BY <1>3 DEF Totals, Report!CountSeverity
<1>. QED BY <1>1, <1>3, <1>4, <1>5 DEF Totals

OneMore(tally, id) == [tally EXCEPT ![id] = @ + 1]

LEMMA EntryFields ==
  ASSUME NEW entry \in Entry
  PROVE  entry.ruleId \in RuleId /\ entry.count \in Nat
  BY DEF Entry

LEMMA EntryAdded ==
  ASSUME NEW entries \in Seq(Entry), NEW tally \in [RuleId -> Nat], NEW id \in RuleId,
         OneEach(entries), Tallied(entries, tally), id \notin Ids(entries), tally[id] = 0,
         NEW more, more = Append(entries, [ruleId |-> id, count |-> 1, examples |-> 1])
  PROVE  /\ more \in Seq(Entry) /\ OneEach(more) /\ Tallied(more, OneMore(tally, id))
         /\ Ids(more) = Ids(entries) \union {id}
<1>. DEFINE new == [ruleId |-> id, count |-> 1, examples |-> 1]
            last == Len(entries) + 1
<1>1. new \in Entry /\ new.ruleId = id /\ new.count = 1 /\ new.examples = 1
  BY DEF Entry
<1>2. more = Append(entries, new)
  OBVIOUS
<1>. HIDE DEF new
<1>3. /\ more \in Seq(Entry) /\ DOMAIN more = 1 .. last /\ more[last] = new /\ last \in 1 .. last
      /\ \A n \in DOMAIN entries : n \in DOMAIN more /\ more[n] = entries[n]
      /\ \A n \in DOMAIN more : n \in DOMAIN entries \/ n = last
  BY <1>1, <1>2
<1>. HIDE DEF last
<1>4. \A n \in DOMAIN entries : entries[n].ruleId # id /\ entries[n] \in Entry
  BY DEF Ids
<1>5. OneEach(more)
  BY <1>1, <1>3, <1>4 DEF OneEach
<1>6. Ids(more) = Ids(entries) \union {id}
  BY <1>1, <1>3 DEF Ids
<1>7. MAX \in Nat /\ MAX # 0
  BY MaxAssumption
<1>8. 1 = Report!Least(1, MAX)
  BY <1>7 DEF Report!Least
<1>9. OneMore(tally, id)[id] = 1 /\ \A other \in RuleId : other # id => OneMore(tally, id)[other] = tally[other]
  BY DEF OneMore
<1>10. Tallied(more, OneMore(tally, id))
  <2>1. \A n \in DOMAIN entries : entries[n].ruleId \in RuleId
    BY <1>4 DEF Entry
  <2>. QED BY <1>1, <1>3, <1>4, <1>8, <1>9, <2>1 DEF Tallied
<1>. QED BY <1>3, <1>5, <1>6, <1>10

LEMMA EntryUpdated ==
  ASSUME NEW entries \in Seq(Entry), NEW tally \in [RuleId -> Nat], NEW id \in RuleId,
         OneEach(entries), Tallied(entries, tally), NEW m \in DOMAIN entries, entries[m].ruleId = id,
         NEW more, more = [entries EXCEPT ![m] = Report!Updated(@)]
  PROVE  /\ more \in Seq(Entry) /\ OneEach(more) /\ Tallied(more, OneMore(tally, id))
         /\ Ids(more) = Ids(entries) \union {id}
<1>. DEFINE new == Report!Updated(entries[m])
<1>1. /\ DOMAIN more = DOMAIN entries /\ more[m] = new
      /\ \A n \in DOMAIN entries : n # m => more[n] = entries[n]
  <2>1. more = [entries EXCEPT ![m] = new]
    OBVIOUS
  <2>. HIDE DEF new
  <2>2. DOMAIN entries = 1 .. Len(entries) /\ entries \in [DOMAIN entries -> Entry]
    OBVIOUS
  <2>. QED BY <2>1, <2>2
<1>2. \A n \in DOMAIN entries : entries[n] \in Entry /\ entries[n].ruleId \in RuleId /\ entries[n].count \in Nat
  <2>1. \A n \in DOMAIN entries : entries[n] \in Entry
    OBVIOUS
  <2>. QED BY <2>1, EntryFields
<1>3. entries[m] \in Entry /\ entries[m].count \in Nat /\ entries[m].examples = Report!Least(entries[m].count, MAX)
      /\ entries[m].count = tally[id]
  BY <1>2 DEF Tallied
<1>4. MAX \in Nat
  BY MaxAssumption
<1>5. entries[m].examples \in Nat /\ Report!Least(entries[m].examples + 1, MAX) = Report!Least(entries[m].count + 1, MAX)
      /\ Report!Least(entries[m].count + 1, MAX) \in Nat
  BY <1>3, <1>4 DEF Report!Least
<1>6. new \in Entry /\ new.ruleId = id /\ new.count = entries[m].count + 1 /\ new.examples = Report!Least(new.count, MAX)
  <2>. DEFINE least == Report!Least(entries[m].examples + 1, MAX)
              count == entries[m].count + 1
  <2>1. new = [entries[m] EXCEPT !.count = count, !.examples = least]
    BY DEF Report!Updated
  <2>2. least \in Nat /\ count \in Nat
    BY <1>3, <1>5
  <2>. HIDE DEF least, count, new
  <2>3. new.ruleId = id /\ new.count = count /\ new.examples = least /\ new \in Entry
    BY <1>3, <2>1, <2>2 DEF Entry
  <2>. QED BY <1>5, <2>3 DEF least, count
<1>. HIDE DEF new
<1>7. \A n \in DOMAIN entries : more[n] \in Entry /\ more[n].ruleId = entries[n].ruleId
  BY <1>1, <1>2, <1>6
<1>8. more \in Seq(Entry)
  BY <1>1, <1>7
<1>9. OneEach(more)
  BY <1>1, <1>7 DEF OneEach
<1>10. Ids(more) = Ids(entries) /\ id \in Ids(entries)
  <2>1. \A x : x \in Ids(more) <=> \E n \in DOMAIN entries : more[n].ruleId = x
    BY <1>1 DEF Ids
  <2>2. \A x : x \in Ids(entries) <=> \E n \in DOMAIN entries : entries[n].ruleId = x
    BY DEF Ids
  <2>3. \A x : x \in Ids(more) <=> x \in Ids(entries)
    BY <1>7, <2>1, <2>2
  <2>. QED BY <2>2, <2>3
<1>11. /\ OneMore(tally, id)[id] = tally[id] + 1
       /\ \A other \in RuleId : other # id => OneMore(tally, id)[other] = tally[other]
  BY DEF OneMore
<1>12. Tallied(more, OneMore(tally, id))
  <2>. SUFFICES ASSUME NEW n \in DOMAIN entries
                PROVE  more[n].count = OneMore(tally, id)[more[n].ruleId] /\ more[n].examples = Report!Least(more[n].count, MAX)
    BY <1>1 DEF Tallied
  <2>1. CASE n = m
    BY <1>1, <1>3, <1>6, <1>11, <2>1
  <2>2. CASE n # m
    <3>1. entries[n].ruleId # id
      BY <2>2 DEF OneEach
    <3>. QED BY <1>1, <1>2, <1>11, <2>2, <3>1 DEF Tallied
  <2>. QED BY <2>1, <2>2
<1>. QED BY <1>8, <1>9, <1>10, <1>12

LEMMA TallyIs ==
  ASSUME Totals
  PROVE  Tally \in [RuleId -> Nat]
<1>. SUFFICES ASSUME NEW ruleId \in RuleId PROVE Cardinality(PassedOf(ruleId)) \in Nat
  BY DEF Tally
<1>1. PassedOf(ruleId) \subseteq Passed
  BY DEF PassedOf
<1>. QED BY <1>1, FS_Subset, FS_CardinalityType DEF Totals

\* A message without a rule changes no entry.
LEMMA CountsWithoutRule ==
  ASSUME RunInv, AtPlace, Counts, file \in DOMAIN linted, message \in DOMAIN linted[file].messages,
         UNCHANGED <<linted, file, byRule>>, message' = message + 1, Report!Current.ruleId = "none"
  PROVE  Counts'
<1>1. /\ Passed' = Passed \union {<<file, message>>} /\ MessageAt(<<file, message>>).ruleId = "none"
      /\ \A p : MessageAt(p)' = MessageAt(p)
  BY TakesPlace
<1>2. \A ruleId : ruleId # "none" => PassedOf(ruleId)' = PassedOf(ruleId)
  BY TakesPlace
<1>3. \A n \in DOMAIN byRule : byRule[n].ruleId # "none" /\ byRule[n].ruleId \in RuleId
  <2>1. \A n \in DOMAIN byRule : byRule[n] \in Entry
    BY DEF Counts
  <2>2. \A n \in DOMAIN byRule : byRule[n].ruleId \in Ids(byRule)
    BY DEF Ids
  <2>3. "none" \notin Ids(byRule)
    BY DEF Counts
  <2>. QED BY <2>1, <2>2, <2>3, EntryFields
<1>4. {MessageAt(p).ruleId : p \in Passed}' \ {"none"} = {MessageAt(p).ruleId : p \in Passed} \ {"none"}
  BY <1>1
<1>5. \A ruleId \in RuleId : ruleId # "none" => Tally'[ruleId] = Tally[ruleId]
  BY <1>2 DEF Tally
<1>6. Tallied(byRule, Tally')
  BY <1>3, <1>5 DEF Counts, Tallied
<1>7. OneEach(byRule)' /\ Tallied(byRule, Tally)' /\ Ids(byRule)' = Ids(byRule)
  BY <1>6 DEF OneEach, Tallied, Ids, Counts
<1>. QED BY <1>4, <1>7 DEF Counts

\* A rule's message makes its entry or is counted there.
LEMMA CountsOfRule ==
  ASSUME RunInv, AtPlace, Totals, Counts, file \in DOMAIN linted, message \in DOMAIN linted[file].messages,
         UNCHANGED <<linted, file>>, message' = message + 1, Report!Current.ruleId # "none",
         byRule' = LET seen == {n \in DOMAIN byRule : byRule[n].ruleId = Report!Current.ruleId}
                   IN IF seen = {} THEN Append(byRule, [ruleId |-> Report!Current.ruleId, count |-> 1, examples |-> 1])
                      ELSE [byRule EXCEPT ![CHOOSE n \in seen : TRUE] = Report!Updated(@)]
  PROVE  Counts'
<1>0. PICK id : id = Report!Current.ruleId
  OBVIOUS
<1>. DEFINE place == <<file, message>>
            seen == {n \in DOMAIN byRule : byRule[n].ruleId = id}
<1>1. /\ place \notin Passed /\ Passed' = Passed \union {place} /\ MessageAt(place) = Report!Current
      /\ MessageAt(place) \in LintMessage
      /\ \A p : MessageAt(p)' = MessageAt(p)
      /\ \A ruleId : PassedOf(ruleId)' = IF id = ruleId THEN PassedOf(ruleId) \union {place} ELSE PassedOf(ruleId)
  BY <1>0, TakesPlace
<1>2. IsFiniteSet(PassedOf(id)) /\ place \notin PassedOf(id)
  <2>1. PassedOf(id) \subseteq Passed
    BY DEF PassedOf
  <2>. QED BY <1>1, <2>1, FS_Subset DEF Totals
<1>3. id \in RuleId /\ id # "none"
  BY <1>0, <1>1 DEF LintMessage
<1>. HIDE DEF place
<1>4. Cardinality(PassedOf(id)') = Cardinality(PassedOf(id)) + 1
  BY <1>1, <1>2, FS_AddElement
<1>5. Tally \in [RuleId -> Nat] /\ Tally' = OneMore(Tally, id)
  <2>1. Tally \in [RuleId -> Nat]
    BY TallyIs
  <2>2. \A ruleId \in RuleId : Cardinality(PassedOf(ruleId)') = IF ruleId = id THEN Tally[id] + 1 ELSE Tally[ruleId]
    BY <1>1, <1>3, <1>4 DEF Tally
  <2>3. Tally' = [ruleId \in RuleId |-> Cardinality(PassedOf(ruleId)')]
    BY DEF Tally
  <2>. QED BY <2>1, <2>2, <2>3 DEF OneMore
<1>6. {MessageAt(p).ruleId : p \in Passed}' \ {"none"} = ({MessageAt(p).ruleId : p \in Passed} \ {"none"}) \union {id}
  <2>1. MessageAt(place).ruleId = id
    BY <1>0, <1>1
  <2>. QED BY <1>1, <1>3, <2>1
<1>7. byRule \in Seq(Entry) /\ OneEach(byRule) /\ Tallied(byRule, Tally)
  BY DEF Counts
<1>8. /\ byRule' \in Seq(Entry) /\ OneEach(byRule') /\ Tallied(byRule', OneMore(Tally, id))
      /\ Ids(byRule') = Ids(byRule) \union {id}
  <2>1. CASE seen = {}
    <3>1. byRule' = Append(byRule, [ruleId |-> id, count |-> 1, examples |-> 1])
      BY <1>0, <2>1
    <3>2. id \notin Ids(byRule)
      BY <2>1 DEF Ids
    <3>3. Tally[id] = 0
      <4>1. PassedOf(id) = {}
        BY <1>3, <3>2 DEF Counts, PassedOf
      <4>. QED BY <1>3, <4>1, FS_EmptySet DEF Tally
    <3>. QED BY <1>3, <1>5, <1>7, <3>1, <3>2, <3>3, EntryAdded
  <2>2. CASE seen # {}
    <3>1. PICK m \in DOMAIN byRule : m = CHOOSE n \in seen : TRUE
      BY <2>2
    <3>2. byRule[m].ruleId = id
      BY <2>2, <3>1
    <3>3. byRule' = [byRule EXCEPT ![m] = Report!Updated(@)]
      BY <1>0, <2>2, <3>1
    <3>. HIDE DEF seen
    <3>4. PICK entries, tally, more : entries = byRule /\ tally = Tally /\ more = byRule'
      OBVIOUS
    <3>5. /\ entries \in Seq(Entry) /\ tally \in [RuleId -> Nat] /\ OneEach(entries) /\ Tallied(entries, tally)
          /\ m \in DOMAIN entries /\ entries[m].ruleId = id
      BY <1>5, <1>7, <3>2, <3>4
    <3>6. more = [entries EXCEPT ![m] = Report!Updated(@)]
      BY <3>3, <3>4
    <3>7. /\ more \in Seq(Entry) /\ OneEach(more) /\ Tallied(more, OneMore(tally, id))
          /\ Ids(more) = Ids(entries) \union {id}
      BY ONLY <1>3, <3>5, <3>6, EntryUpdated
    <3>. QED BY <3>4, <3>7
  <2>. QED BY <2>1, <2>2
<1>9. OneEach(byRule)' /\ Tallied(byRule, Tally)' /\ Ids(byRule)' = Ids(byRule')
  BY <1>5, <1>8 DEF OneEach, Tallied, Ids
<1>. QED BY <1>6, <1>8, <1>9 DEF Counts

\* At the end of a result the loop goes on with the next one.
LEMMA PassesFile ==
  ASSUME RunInv, AtPlace, Totals, Counts, UNCHANGED linted, Report!NextFile
  PROVE  AtPlace' /\ Totals' /\ Counts'
<1>1. DOMAIN linted = 1 .. Len(linted) /\ Len(linted) \in Nat /\ \A n \in DOMAIN linted : linted[n].messages \in Seq(LintMessage)
  BY MessagesTyped
<1>2. /\ file \in DOMAIN linted /\ results[file] = linted[file].messages
      /\ file \in Nat /\ message \in Nat \ {0} /\ message > Len(linted[file].messages)
      /\ file' = file + 1 /\ message' = 1
      /\ UNCHANGED <<results, byRule, parseErrors, errors, warnings>>
      /\ files' = IF linted[file].messages = << >> THEN files ELSE files + 1
  BY <1>1 DEF AtPlace, Report!NextFile, Report!InFile
<1>3. Places' = Places /\ (\A p : MessageAt(p)' = MessageAt(p))
  BY DEF Places, MessageAt
<1>4. \A p \in Places : p[1] \in Nat /\ p[2] \in Nat \ {0} /\ p[1] \in DOMAIN linted /\ p[2] \in DOMAIN linted[p[1]].messages
  <2>. SUFFICES ASSUME NEW n \in DOMAIN linted, NEW m \in DOMAIN linted[n].messages
                PROVE  n \in Nat /\ m \in Nat \ {0}
    BY PlaceIs
  <2>1. DOMAIN linted[n].messages = 1 .. Len(linted[n].messages)
    BY <1>1
  <2>. QED BY <1>1, <2>1
<1>5. Passed' = Passed
  <2>1. Passed' = {p \in Places : p[1] < file + 1 \/ (p[1] = file + 1 /\ p[2] < 1)}
    BY <1>2, <1>3 DEF Passed
  <2>2. ASSUME NEW p \in Places
        PROVE  p[1] < file + 1 \/ (p[1] = file + 1 /\ p[2] < 1) <=> p[1] < file \/ (p[1] = file /\ p[2] < message)
    <3>1. p[1] = file => p[2] < message
      <4>1. ASSUME p[1] = file
            PROVE  p[2] <= Len(linted[file].messages) /\ Len(linted[file].messages) \in Nat
        BY <1>1, <1>2, <1>4, <4>1
      <4>. QED BY <1>2, <1>4, <4>1
    <3>. QED BY <1>2, <1>4, <3>1
  <2>. QED BY <2>1, <2>2 DEF Passed
<1>6. \A ruleId : PassedOf(ruleId)' = PassedOf(ruleId)
  BY <1>3, <1>5 DEF PassedOf
<1>7. AtPlace'
  <2>1. file + 1 \in 1 .. Len(linted) + 1
    BY <1>1, <1>2
  <2>2. ASSUME file + 1 \in DOMAIN linted
        PROVE  1 <= Len(linted[file + 1].messages) + 1
    BY <1>1, <2>2
  <2>. QED BY <1>2, <2>1, <2>2 DEF AtPlace
<1>8. files' = Cardinality(WithMessages(file)')
  <2>1. \A n \in DOMAIN linted : n < file + 1 <=> n < file \/ n = file
    BY <1>1, <1>2
  <2>2. WithMessages(file)' = {n \in DOMAIN linted : n < file + 1 /\ linted[n].messages # << >>}
    BY <1>2 DEF WithMessages
  <2>3. WithMessages(file)' = IF linted[file].messages = << >> THEN WithMessages(file) ELSE WithMessages(file) \union {file}
    BY <1>2, <2>1, <2>2 DEF WithMessages
  <2>4. file \notin WithMessages(file) /\ IsFiniteSet(WithMessages(file))
    <3>1. ~(file < file)
      BY <1>2
    <3>2. 1 \in Int /\ Len(linted) \in Int /\ WithMessages(file) \subseteq 1 .. Len(linted)
      BY <1>1 DEF WithMessages
    <3>. QED BY <3>1, <3>2, FS_Interval, FS_Subset DEF WithMessages
  <2>5. Cardinality(WithMessages(file) \union {file}) = Cardinality(WithMessages(file)) + 1
    BY <2>4, FS_AddElement
  <2>. QED BY <1>2, <2>3, <2>5 DEF Totals
<1>9. Totals'
  BY <1>2, <1>5, <1>6, <1>8 DEF Totals
<1>10. Counts'
  <2>1. Tally' = Tally
    BY <1>6 DEF Tally
  <2>2. {MessageAt(p).ruleId : p \in Passed}' = {MessageAt(p).ruleId : p \in Passed}
    BY <1>3, <1>5
  <2>3. OneEach(byRule)' = OneEach(byRule) /\ Tallied(byRule, Tally)' = Tallied(byRule, Tally) /\ Ids(byRule)' = Ids(byRule)
    BY <1>2, <2>1 DEF OneEach, Tallied, Ids
  <2>. QED BY <1>2, <2>2, <2>3 DEF Counts
<1>. QED BY <1>7, <1>9, <1>10

LEMMA FormatSteps ==
  ASSUME RunInv, AtPlace, Totals, Counts, UNCHANGED linted, Report!Format
  PROVE  AtPlace' /\ Totals' /\ Counts' /\ (report' = report \/ Printed')
<1>1. ASSUME Report!InFile /\ message \in DOMAIN results[file]
      PROVE  file \in DOMAIN linted /\ message \in DOMAIN linted[file].messages
  BY <1>1 DEF Report!InFile, AtPlace
<1>2. CASE Report!NextFile
  BY <1>2, PassesFile DEF Report!NextFile
<1>3. CASE Report!WithoutRule
  <2>1. file \in DOMAIN linted /\ message \in DOMAIN linted[file].messages
    BY <1>1, <1>3 DEF Report!WithoutRule
  <2>2. /\ UNCHANGED <<linted, file, files, results, report, byRule>> /\ message' = message + 1
        /\ Report!CountSeverity /\ Report!Current.ruleId = "none" /\ parseErrors' = parseErrors + 1
    BY <1>3 DEF Report!WithoutRule, Report!NextMessage, Report!NoRule
  <2>. QED BY <2>1, <2>2, TakesPlace, TotalsGo, CountsWithoutRule
<1>4. CASE Report!OfRule
  <2>1. file \in DOMAIN linted /\ message \in DOMAIN linted[file].messages
    BY <1>1, <1>4 DEF Report!OfRule
  <2>2. /\ UNCHANGED <<linted, file, files, results, report, parseErrors>> /\ message' = message + 1
        /\ Report!CountSeverity /\ Report!Current.ruleId # "none"
    BY <1>4 DEF Report!OfRule, Report!NextMessage, Report!NoRule
  <2>3. byRule' = LET seen == {n \in DOMAIN byRule : byRule[n].ruleId = Report!Current.ruleId}
                  IN IF seen = {} THEN Append(byRule, [ruleId |-> Report!Current.ruleId, count |-> 1, examples |-> 1])
                     ELSE [byRule EXCEPT ![CHOOSE n \in seen : TRUE] = Report!Updated(@)]
    BY <1>4 DEF Report!OfRule
  <2>4. Counts'
    BY <2>1, <2>2, <2>3, CountsOfRule
  <2>5. AtPlace' /\ Totals'
    BY <2>1, <2>2, TakesPlace, TotalsGo
  <2>. QED BY <2>2, <2>4, <2>5
<1>5. CASE Report!Render
  <2>1. UNCHANGED <<linted, results, file, message, byRule, parseErrors, files, errors, warnings>>
        /\ report' = Report!Rendered
    BY <1>5 DEF Report!Render
  <2>2. Places' = Places /\ Passed' = Passed /\ (\A p : MessageAt(p)' = MessageAt(p))
    BY <2>1 DEF Places, Passed, MessageAt
  <2>3. \A ruleId : PassedOf(ruleId)' = PassedOf(ruleId)
    BY <2>2 DEF PassedOf
  <2>4. AtPlace'
    BY <2>1 DEF AtPlace
  <2>5. Totals'
    <3>1. WithMessages(file)' = WithMessages(file)
      BY <2>1 DEF WithMessages
    <3>. QED BY <2>1, <2>2, <2>3, <3>1 DEF Totals
  <2>6. Counts'
    <3>1. Tally' = Tally
      BY <2>3 DEF Tally
    <3>2. {MessageAt(p).ruleId : p \in Passed}' = {MessageAt(p).ruleId : p \in Passed}
      BY <2>2
    <3>3. OneEach(byRule)' = OneEach(byRule) /\ Tallied(byRule, Tally)' = Tallied(byRule, Tally) /\ Ids(byRule)' = Ids(byRule)
      BY <2>1, <3>1 DEF OneEach, Tallied, Ids
    <3>. QED BY <2>1, <3>2, <3>3 DEF Counts
  <2>7. Printed'
    <3>1. Report!Rendered' = Report!Rendered
      BY <2>1 DEF Report!Rendered
    <3>2. file = Len(linted) + 1
      <4>1. DOMAIN linted = 1 .. Len(linted) /\ Len(linted) \in Nat
        BY MessagesTyped
      <4>2. Len(results) = Len(linted)
        BY <4>1 DEF AtPlace
      <4>3. file > Len(results)
        BY <1>5 DEF Report!Render
      <4>. QED BY <4>1, <4>2, <4>3 DEF AtPlace
    <3>. QED BY <2>1, <3>1, <3>2 DEF Printed
  <2>. QED BY <2>4, <2>5, <2>6, <2>7
<1>. QED BY <1>2, <1>3, <1>4, <1>5 DEF Report!Format

\* What was counted is counted still when a step leaves the formatter alone.
LEMMA ReportStays ==
  ASSUME UNCHANGED <<linted, reportVars>>
  PROVE  /\ AtPlace' <=> AtPlace
         /\ Totals' <=> Totals
         /\ Counts' <=> Counts
         /\ Printed' <=> Printed
         /\ Report!Init' <=> Report!Init
<1>1. UNCHANGED <<linted, results, file, message, byRule, parseErrors, files, errors, warnings, report>>
  BY DEF reportVars
<1>2. Places' = Places /\ Passed' = Passed /\ (\A p : MessageAt(p)' = MessageAt(p)) /\ WithMessages(file)' = WithMessages(file)
  BY <1>1 DEF Places, Passed, MessageAt, WithMessages
<1>3. \A ruleId : PassedOf(ruleId)' = PassedOf(ruleId)
  BY <1>2 DEF PassedOf
<1>4. Tally' = Tally /\ {MessageAt(p).ruleId : p \in Passed}' = {MessageAt(p).ruleId : p \in Passed}
  BY <1>2, <1>3 DEF Tally
<1>5. AtPlace' <=> AtPlace
  BY <1>1 DEF AtPlace
<1>6. Totals' <=> Totals
  BY <1>1, <1>2, <1>3 DEF Totals
<1>7. Counts' <=> Counts
  <2>1. OneEach(byRule)' = OneEach(byRule) /\ Tallied(byRule, Tally)' = Tallied(byRule, Tally) /\ Ids(byRule)' = Ids(byRule)
    BY <1>1, <1>4 DEF OneEach, Tallied, Ids
  <2>. QED BY <1>1, <1>4, <2>1 DEF Counts
<1>8. Printed' <=> Printed
  BY <1>1 DEF Printed, Report!Rendered
<1>9. Report!Init' <=> Report!Init
  BY <1>1 DEF Report!Init
<1>. QED BY <1>5, <1>6, <1>7, <1>8, <1>9

LEMMA FormatStarts ==
  ASSUME RunInv, Report!Init, UNCHANGED linted, Report!oresFormatter([n \in DOMAIN linted |-> linted[n].messages])
  PROVE  AtPlace' /\ Totals' /\ Counts' /\ report' = Report!NoReport
<1>1. DOMAIN linted = 1 .. Len(linted) /\ Len(linted) \in Nat /\ \A n \in DOMAIN linted : linted[n].messages \in Seq(LintMessage)
  BY MessagesTyped
<1>2. /\ results' = [n \in DOMAIN linted |-> linted[n].messages] /\ report' = Report!NoReport
      /\ file' = 1 /\ message' = 1 /\ byRule' = << >> /\ parseErrors' = 0 /\ files' = 0 /\ errors' = 0 /\ warnings' = 0
  BY DEF Report!oresFormatter, Report!Init
<1>3. Passed' = {} /\ \A ruleId : PassedOf(ruleId)' = {}
  <2>1. \A p \in Places : p[1] \in Nat \ {0} /\ p[2] \in Nat \ {0}
    <3>. SUFFICES ASSUME NEW n \in DOMAIN linted, NEW m \in DOMAIN linted[n].messages
                  PROVE  n \in Nat \ {0} /\ m \in Nat \ {0}
      BY PlaceIs
    <3>1. DOMAIN linted[n].messages = 1 .. Len(linted[n].messages)
      BY <1>1
    <3>. QED BY <1>1, <3>1
  <2>2. Passed' = {p \in Places : p[1] < 1 \/ (p[1] = 1 /\ p[2] < 1)}
    BY <1>2 DEF Passed, Places
  <2>3. Passed' = {}
    BY <2>1, <2>2
  <2>. QED BY <2>3 DEF PassedOf
<1>4. WithMessages(file)' = {}
  <2>1. WithMessages(file)' = {n \in DOMAIN linted : n < 1 /\ linted[n].messages # << >>}
    BY <1>2 DEF WithMessages
  <2>2. \A n \in DOMAIN linted : ~(n < 1)
    BY <1>1
  <2>. QED BY <2>1, <2>2
<1>5. AtPlace'
  <2>1. 1 \in 1 .. Len(linted) + 1 /\ (1 \in DOMAIN linted => 1 <= Len(linted[1].messages) + 1)
    BY <1>1
  <2>. QED BY <1>2, <2>1 DEF AtPlace
<1>6. Totals'
  BY <1>2, <1>3, <1>4, FS_EmptySet DEF Totals
<1>7. Counts'
  <2>1. << >> \in Seq(Entry) /\ DOMAIN << >> = {}
    OBVIOUS
  <2>2. {MessageAt(p).ruleId : p \in Passed}' = {}
    BY <1>3
  <2>. QED BY <1>2, <2>1, <2>2 DEF Counts, OneEach, Tallied, Ids
<1>. QED BY <1>2, <1>5, <1>6, <1>7

\* lint.sh exits on the two reports it has when it is done.
ExitInv == stage = "done" => exit = Report!exitStatus(repo.strict, {report, ScannerReport})

ReportInv == RunInv /\ FormatInv /\ ExitInv

LEMMA ReportInit == LintInit => ReportInv
<1>. SUFFICES ASSUME LintInit PROVE ReportInv
  OBVIOUS
<1>1. RunInv
  BY RunInit
<1>2. stage = "eslint" /\ Report!Init
  BY DEF LintInit
<1>. QED BY <1>1, <1>2 DEF ReportInv, FormatInv, ExitInv, ESLintStages

LEMMA ReportNext ==
  ASSUME ReportInv, [LintNext]_allVars
  PROVE  ReportInv'
<1>0. RunInv'
  BY RunNext DEF ReportInv
<1>1. stage \in {"eslint", "rule", "format", "files", "scan", "done"}
  BY DEF ReportInv, RunInv, Place
<1>2. ASSUME UNCHANGED reportVars, stage \in ESLintStages, stage' \in ESLintStages
      PROVE  FormatInv'
  <2>1. Report!Init
    BY <1>2 DEF ReportInv, FormatInv
  <2>2. Report!Init'
    BY <1>2, <2>1 DEF reportVars, Report!Init
  <2>. QED BY <1>2, <2>2 DEF FormatInv, ESLintStages
<1>3. ASSUME UNCHANGED <<linted, reportVars>>, stage \notin ESLintStages, stage' \in {"format", "files", "scan", "done"},
             Printed \/ (stage = "format" /\ stage' = "format")
      PROVE  FormatInv'
  <2>1. AtPlace' /\ Totals' /\ Counts'
    BY <1>3, ReportStays DEF ReportInv, FormatInv
  <2>2. Printed => Printed'
    BY <1>3, ReportStays
  <2>3. report' = report
    BY <1>3 DEF reportVars
  <2>. QED BY <1>3, <2>1, <2>2, <2>3 DEF ReportInv, FormatInv, ESLintStages, Report!NoReport
<1>4. \/ stage \in ESLintStages
      \/ stage = "format" /\ (report = Report!NoReport \/ Printed)
      \/ stage \in {"files", "scan", "done"} /\ Printed
  BY <1>1 DEF ReportInv, FormatInv, ESLintStages
<1>5. stage \in ESLintStages <=> stage \notin {"format", "files", "scan", "done"}
  BY <1>1 DEF ESLintStages
<1>6. CASE EslintSkips \/ EslintWalks \/ EslintDone
  <2>1. UNCHANGED reportVars /\ stage \in ESLintStages /\ stage' \in ESLintStages /\ stage' # "done"
    BY <1>6 DEF EslintSkips, EslintWalks, EslintDone, ESLintStages
  <2>. QED BY <1>0, <1>2, <2>1 DEF ReportInv, ExitInv
<1>7. CASE EslintListener \/ ScannerRound \/ UNCHANGED allVars
  <2>1. UNCHANGED <<lintVars, reportVars>>
    BY <1>7 DEF EslintListener, ScannerRound, allVars
  <2>2. UNCHANGED <<repo, stage, linted, scanned, exit, report, reportVars>>
    BY <2>1 DEF lintVars, reportVars
  <2>3. FormatInv'
    BY <1>2, <1>3, <1>4, <1>5, <2>2
  <2>4. ScannerReport' = ScannerReport
    BY <2>2 DEF ScannerReport
  <2>5. ExitInv'
    BY <2>2, <2>4 DEF ReportInv, ExitInv
  <2>. QED BY <1>0, <2>3, <2>5 DEF ReportInv
<1>8. CASE StartFormat
  <2>1. /\ Report!oresFormatter([n \in DOMAIN linted |-> linted[n].messages]) /\ UNCHANGED linted
        /\ stage = "eslint" /\ stage' = "format"
    BY <1>8 DEF StartFormat
  <2>2. Report!Init /\ RunInv
    BY <2>1 DEF ReportInv, FormatInv, ESLintStages
  <2>3. AtPlace' /\ Totals' /\ Counts' /\ report' = Report!NoReport
    BY <2>1, <2>2, FormatStarts
  <2>4. FormatInv'
    BY <2>1, <2>3 DEF FormatInv, ESLintStages, Report!NoReport
  <2>. QED BY <1>0, <2>1, <2>4 DEF ReportInv, ExitInv
<1>9. CASE FormatStep
  <2>1. stage = "format" /\ Report!Format /\ UNCHANGED lintVars
    BY <1>9 DEF FormatStep
  <2>2. stage' = "format" /\ UNCHANGED linted
    BY <2>1 DEF lintVars
  <2>3. RunInv /\ AtPlace /\ Totals /\ Counts
    BY <2>1 DEF ReportInv, FormatInv, ESLintStages
  <2>4. AtPlace' /\ Totals' /\ Counts' /\ (report' = report \/ Printed')
    BY <2>1, <2>2, <2>3, FormatSteps
  <2>5. report = Report!NoReport
    BY <2>1 DEF Report!Format, Report!NextFile, Report!WithoutRule, Report!OfRule, Report!Render, Report!InFile
  <2>6. FormatInv'
    BY <2>2, <2>4, <2>5 DEF FormatInv, ESLintStages, Report!NoReport
  <2>. QED BY <1>0, <2>2, <2>6 DEF ReportInv, ExitInv
<1>10. CASE StartScanner
  <2>1. UNCHANGED <<linted, reportVars>> /\ stage = "format" /\ stage' = "files" /\ report.kind # "none"
    BY <1>10 DEF StartScanner
  <2>2. Printed
    BY <1>4, <2>1 DEF Report!NoReport, ESLintStages
  <2>3. FormatInv'
    BY <1>3, <1>5, <2>1, <2>2
  <2>. QED BY <1>0, <2>1, <2>3 DEF ReportInv, ExitInv
<1>11. CASE ScannerSkips \/ ScannerReads \/ ScannerDone
  <2>1. UNCHANGED <<linted, reportVars>> /\ stage \in {"files", "scan"} /\ stage' \in {"files", "scan"}
    BY <1>11 DEF ScannerSkips, ScannerReads, ScannerDone
  <2>2. Printed
    BY <1>4, <1>5, <2>1
  <2>3. FormatInv'
    BY <1>3, <1>5, <2>1, <2>2
  <2>. QED BY <1>0, <2>1, <2>3 DEF ReportInv, ExitInv
<1>12. CASE Finish
  <2>1. /\ UNCHANGED <<repo, linted, scanned, reportVars>> /\ stage = "files" /\ stage' = "done"
        /\ exit' = Report!exitStatus(repo.strict, {report, ScannerReport})
    BY <1>12 DEF Finish
  <2>2. FormatInv'
    BY <1>3, <1>4, <1>5, <2>1
  <2>3. report' = report /\ ScannerReport' = ScannerReport
    BY <2>1 DEF reportVars, ScannerReport
  <2>. QED BY <1>0, <2>1, <2>2, <2>3 DEF ReportInv, ExitInv
<1>13. CASE Exited
  BY <1>7, <1>13 DEF Exited
<1>. QED BY <1>6, <1>7, <1>8, <1>9, <1>10, <1>11, <1>12, <1>13 DEF LintNext

LEMMA ReportInvariant == LintSpec => []ReportInv
  BY ReportInit, ReportNext, PTL DEF LintSpec

-----------------------------------------------------------------------------
\* A printed report is of all the messages.
HasReport == report.kind # "not called" /\ report.kind # "none"

LEMMA AllPassed ==
  ASSUME ReportInv, HasReport
  PROVE  /\ Printed /\ AtPlace /\ Totals /\ Counts
         /\ Passed = Places
         /\ \A ruleId : PassedOf(ruleId) = PlacesOf(ruleId)
         /\ WithMessages(file) = {n \in DOMAIN linted : linted[n].messages # << >>}
         /\ Len(results) = Len(linted) /\ (results = << >> <=> linted = << >>)
<1>1. stage \notin ESLintStages /\ Printed /\ AtPlace /\ Totals /\ Counts
  <2>1. report # Report!NotCalled /\ report # Report!NoReport
    <3>1. Report!NotCalled.kind = "not called" /\ Report!NoReport.kind = "none"
      BY DEF Report!NotCalled, Report!NoReport
    <3>. QED BY <3>1 DEF HasReport
  <2>2. stage \notin ESLintStages
    BY <2>1 DEF ReportInv, FormatInv, Report!Init
  <2>. QED BY <2>1, <2>2 DEF ReportInv, FormatInv, RunInv, Place, ESLintStages
<1>2. linted \in Seq(ToSet(linted)) /\ DOMAIN linted = 1 .. Len(linted) /\ Len(linted) \in Nat
  BY MessagesTyped DEF ReportInv, RunInv, LintedSoFar, IsSequence
<1>3. \A n \in DOMAIN linted : n < file
  <2>1. file = Len(linted) + 1
    BY <1>1 DEF Printed
  <2>2. \A n \in 1 .. Len(linted) : n < Len(linted) + 1
    BY <1>2
  <2>. QED BY ONLY <1>2, <2>1, <2>2
<1>4. Passed = Places
  <2>1. \A p \in Places : p[1] \in DOMAIN linted
    BY DEF Places
  <2>. QED BY <1>3, <2>1 DEF Passed
<1>5. \A ruleId : PassedOf(ruleId) = PlacesOf(ruleId)
  BY <1>4 DEF PassedOf, PlacesOf
<1>6. WithMessages(file) = {n \in DOMAIN linted : linted[n].messages # << >>}
  BY <1>3 DEF WithMessages
<1>7. Len(results) = Len(linted) /\ (results = << >> <=> linted = << >>)
  <2>. DEFINE M(n) == linted[n].messages
  <2>1. results = [n \in 1 .. Len(linted) |-> M(n)]
    BY <1>1, <1>2 DEF AtPlace
  <2>. HIDE DEF M
  <2>. DEFINE S == {M(n) : n \in 1 .. Len(linted)}
  <2>1a. \A n \in 1 .. Len(linted) : M(n) \in S
    OBVIOUS
  <2>. HIDE DEF S
  <2>1b. \A size \in Nat : \A s : s = [n \in 1 .. size |-> M(n)] /\ (\A n \in 1 .. size : M(n) \in S) => s \in Seq(S) /\ Len(s) = size
    OBVIOUS
  <2>2. results \in Seq(S) /\ Len(results) = Len(linted)
    BY <1>2, <2>1, <2>1a, <2>1b
  <2>3. linted = << >> <=> Len(linted) = 0
    BY <1>2, EmptySeq
  <2>4. results = << >> <=> Len(results) = 0
    BY <2>2, EmptySeq
  <2>. QED BY <2>2, <2>3, <2>4
<1>. QED BY <1>1, <1>4, <1>5, <1>6, <1>7

\* Nothing was counted exactly when there is no message.
LEMMA NothingCounted ==
  ASSUME Totals, Counts
  PROVE  byRule = << >> /\ parseErrors = 0 <=> Passed = {}
<1>1. PassedOf("none") \subseteq Passed /\ IsFiniteSet(Passed)
  BY DEF PassedOf, Totals
<1>2. parseErrors = 0 <=> PassedOf("none") = {}
  BY <1>1, FS_Subset, FS_EmptySet DEF Totals
<1>3. byRule = << >> <=> Ids(byRule) = {}
  <2>1. byRule \in Seq(Entry) /\ DOMAIN byRule = 1 .. Len(byRule) /\ Len(byRule) \in Nat
    BY DEF Counts
  <2>2. byRule = << >> <=> Len(byRule) = 0
    BY <2>1, EmptySeq
  <2>3. Ids(byRule) = {} <=> DOMAIN byRule = {}
    BY DEF Ids
  <2>. QED BY <2>1, <2>2, <2>3
<1>4. Ids(byRule) = {} <=> \A p \in Passed : MessageAt(p).ruleId = "none"
  BY DEF Counts
<1>. QED BY <1>2, <1>3, <1>4 DEF PassedOf

\* A rule's line shows some and says how many more there are.
LEMMA CappedIs ==
  ASSUME NEW id, NEW count \in Nat
  PROVE  LET rule == Report!Capped(id, count, Report!Least(count, MAX))
         IN rule.ruleId = id /\ rule.count = count /\ rule.shown + rule.more = rule.count
<1>1. MAX \in Nat
  BY MaxAssumption
<1>2. Report!Least(count, MAX) + (IF count > MAX THEN count - MAX ELSE 0) = count
  BY <1>1 DEF Report!Least
<1>. QED BY <1>2 DEF Report!Capped

\* What a printed report of findings is made of.
LEMMA RulesPrinted ==
  ASSUME ReportInv, HasReport
  PROVE  /\ report.kind = "findings" <=> Places # {}
         /\ report.kind = "clean" <=> Places = {} /\ linted # << >>
         /\ report.kind = "no lintable files" <=> Places = {} /\ linted = << >>
         /\ report.kind = "findings" =>
              /\ report.total = errors + warnings /\ report.files = files /\ report.examined = Len(linted)
              /\ report.unparsed.count = parseErrors
              /\ DOMAIN report.rules = DOMAIN byRule
              /\ \A p \in DOMAIN byRule :
                   LET entry == Report!Ordered(byRule)[p]
                   IN report.rules[p] = Report!Capped(entry.ruleId, entry.count, entry.examples)
<1>1. /\ Printed /\ AtPlace /\ Totals /\ Counts /\ Passed = Places
      /\ Len(results) = Len(linted) /\ (results = << >> <=> linted = << >>)
  BY AllPassed
<1>2. byRule = << >> /\ parseErrors = 0 <=> Places = {}
  BY <1>1, NothingCounted
<1>3. report = Report!Rendered /\ byRule \in Seq(Entry)
  BY <1>1 DEF Printed, Counts
<1>4. CASE Places = {}
  <2>1. report = [kind |-> IF results = << >> THEN "no lintable files" ELSE "clean", examined |-> Len(results)]
    BY <1>2, <1>3, <1>4 DEF Report!Rendered
  <2>2. report.kind = IF linted = << >> THEN "no lintable files" ELSE "clean"
    BY <1>1, <2>1
  <2>. QED BY <1>4, <2>2
<1>5. CASE Places # {}
  <2>. DEFINE sorted == Report!Ordered(byRule)
              printed(p) == Report!Capped(sorted[p].ruleId, sorted[p].count, sorted[p].examples)
              rules == [p \in DOMAIN sorted |-> printed(p)]
              unparsed == Report!Capped(Report!NoRule, parseErrors, Report!Least(parseErrors, MAX))
  <2>1. report = [kind |-> "findings", total |-> errors + warnings, files |-> files, examined |-> Len(results),
                  rules |-> rules, unparsed |-> unparsed]
    BY <1>2, <1>3, <1>5 DEF Report!Rendered
  <2>2. unparsed.count = parseErrors
    BY DEF Report!Capped
  <2>3. DOMAIN sorted = DOMAIN byRule
    BY <1>3, OrderedIs
  <2>4. DOMAIN rules = DOMAIN byRule /\ \A p \in DOMAIN byRule : rules[p] = printed(p)
    BY <2>3
  <2>. HIDE DEF rules, unparsed, sorted, printed
  <2>5. /\ report.kind = "findings" /\ report.total = errors + warnings /\ report.files = files
        /\ report.examined = Len(results) /\ report.rules = rules /\ report.unparsed = unparsed
    BY <2>1
  <2>6. \A p \in DOMAIN byRule : report.rules[p] = Report!Capped(sorted[p].ruleId, sorted[p].count, sorted[p].examples)
    BY <2>4, <2>5 DEF printed
  <2>. QED BY <1>1, <1>5, <2>2, <2>4, <2>5, <2>6 DEF sorted
<1>. QED BY <1>4, <1>5

\* What an entry was printed as.
LEMMA PrintedEntry ==
  ASSUME ReportInv, HasReport, Places # {}, NEW p \in DOMAIN byRule
  PROVE  /\ Report!Ordered(byRule)[p] \in ToSet(byRule)
         /\ report.rules[p].ruleId = Report!Ordered(byRule)[p].ruleId
         /\ report.rules[p].count = Report!Ordered(byRule)[p].count
         /\ report.rules[p].count = Cardinality(PlacesOf(report.rules[p].ruleId))
         /\ report.rules[p].shown + report.rules[p].more = report.rules[p].count
<1>. DEFINE entry == Report!Ordered(byRule)[p]
<1>1. byRule \in Seq(Entry) /\ Tallied(byRule, Tally) /\ \A ruleId : PassedOf(ruleId) = PlacesOf(ruleId)
  BY AllPassed DEF Counts
<1>2. entry \in ToSet(byRule)
  <2>1. DOMAIN Report!Ordered(byRule) = DOMAIN byRule /\ ToSet(Report!Ordered(byRule)) = ToSet(byRule)
    BY <1>1, OrderedIs
  <2>. QED BY <2>1 DEF ToSet
<1>3. PICK n \in DOMAIN byRule : entry = byRule[n]
  BY <1>2 DEF ToSet
<1>4. report.rules[p] = Report!Capped(entry.ruleId, entry.count, entry.examples)
  BY RulesPrinted
<1>. HIDE DEF entry
<1>5. entry.ruleId \in RuleId /\ entry.count \in Nat
  <2>1. entry \in Entry
    BY <1>1, <1>3
  <2>. QED BY <2>1, EntryFields
<1>6. entry.examples = Report!Least(entry.count, MAX) /\ entry.count = Cardinality(PlacesOf(entry.ruleId))
  BY <1>1, <1>3, <1>5 DEF Tallied, Tally
<1>7. /\ report.rules[p].ruleId = entry.ruleId /\ report.rules[p].count = entry.count
      /\ report.rules[p].shown + report.rules[p].more = report.rules[p].count
  BY <1>4, <1>5, <1>6, CappedIs
<1>. QED BY <1>2, <1>6, <1>7 DEF entry

LEMMA AddsUp ==
  ASSUME ReportInv
  PROVE  ReportAddsUp
<1>. DEFINE found == report.kind = "findings"
<1>1. CASE ~found
  BY <1>1 DEF ReportAddsUp
<1>2. CASE found
  <2>1. HasReport
    BY <1>2 DEF HasReport
  <2>2. /\ Totals /\ Counts /\ Passed = Places /\ PassedOf("none") = PlacesOf("none")
        /\ WithMessages(file) = {n \in DOMAIN linted : linted[n].messages # << >>}
    BY <2>1, AllPassed
  <2>. HIDE DEF found
  <2>3. Places # {}
    BY <1>2, <2>1, RulesPrinted DEF found
  <2>4. /\ report.total = errors + warnings /\ report.files = files /\ report.examined = Len(linted)
        /\ report.unparsed.count = parseErrors /\ DOMAIN report.rules = DOMAIN byRule
    BY <2>1, <2>3, RulesPrinted
  <2>5. /\ report.total = Cardinality(Places) /\ report.unparsed.count = Cardinality(PlacesOf("none"))
        /\ report.files = Cardinality({n \in DOMAIN linted : linted[n].messages # << >>})
    BY <2>2, <2>4 DEF Totals
  <2>. DEFINE sorted == Report!Ordered(byRule)
  <2>6. \A p \in DOMAIN byRule :
          /\ report.rules[p].ruleId = sorted[p].ruleId
          /\ report.rules[p].count = Cardinality(PlacesOf(report.rules[p].ruleId))
          /\ report.rules[p].shown + report.rules[p].more = report.rules[p].count
    BY <2>1, <2>3, PrintedEntry
  <2>7. DOMAIN sorted = DOMAIN byRule /\ ToSet(sorted) = ToSet(byRule)
    BY <2>2, OrderedIs DEF Counts
  <2>. HIDE DEF sorted
  <2>8. {report.rules[n].ruleId : n \in DOMAIN report.rules} = {MessageAt(p).ruleId : p \in Places} \ {"none"}
    <3>1. \A x : x \in {report.rules[n].ruleId : n \in DOMAIN report.rules} <=> \E n \in DOMAIN byRule : sorted[n].ruleId = x
      BY <2>4, <2>6
    <3>2. \A x : (\E n \in DOMAIN byRule : sorted[n].ruleId = x) <=> \E entry \in ToSet(sorted) : entry.ruleId = x
      BY <2>7 DEF ToSet
    <3>3. \A x : x \in Ids(byRule) <=> \E entry \in ToSet(byRule) : entry.ruleId = x
      BY DEF Ids, ToSet
    <3>4. {report.rules[n].ruleId : n \in DOMAIN report.rules} = Ids(byRule)
      BY <2>7, <3>1, <3>2, <3>3
    <3>. QED BY <2>2, <3>4 DEF Counts
  <2>9. \A rule \in ToSet(report.rules) :
          rule.count = Cardinality(PlacesOf(rule.ruleId)) /\ rule.shown + rule.more = rule.count
    BY <2>4, <2>6 DEF ToSet
  <2>. QED BY <2>4, <2>5, <2>8, <2>9 DEF ReportAddsUp
<1>. QED BY <1>1, <1>2

LEMMA HouseFirst ==
  ASSUME ReportInv
  PROVE  HouseRulesFirst
<1>. DEFINE found == report.kind = "findings"
<1>1. CASE ~found
  BY <1>1 DEF HouseRulesFirst
<1>2. CASE found
  <2>1. HasReport
    BY <1>2 DEF HasReport
  <2>. HIDE DEF found
  <2>2. Places # {} /\ DOMAIN report.rules = DOMAIN byRule /\ byRule \in Seq(Entry)
    BY <1>2, <2>1, RulesPrinted, AllPassed DEF found, Counts
  <2>. SUFFICES ASSUME NEW m \in DOMAIN byRule, NEW n \in DOMAIN byRule, m < n
                PROVE  InOrder(report.rules[m], report.rules[n])
    BY <2>2 DEF HouseRulesFirst, InOrder
  <2>3. InOrder(Report!Ordered(byRule)[m], Report!Ordered(byRule)[n])
    BY <2>2, OrderedIs
  <2>4. \A p \in DOMAIN byRule :
          /\ report.rules[p].ruleId = Report!Ordered(byRule)[p].ruleId
          /\ report.rules[p].count = Report!Ordered(byRule)[p].count
    BY <2>1, <2>2, PrintedEntry
  <2>. QED BY <2>3, <2>4 DEF InOrder
<1>. QED BY <1>1, <1>2

LEMMA CleanMeans ==
  ASSUME ReportInv
  PROVE  CleanMeansExamined
<1>1. CASE ~HasReport
  BY <1>1 DEF HasReport, CleanMeansExamined
<1>2. CASE HasReport
  BY <1>2, RulesPrinted DEF CleanMeansExamined
<1>. QED BY <1>1, <1>2

LEMMA ExactExit ==
  ASSUME ReportInv
  PROVE  StrictExact
<1>. DEFINE undelivered == \E done \in ToSet(scanned) : done.findings # {}
<1>. SUFFICES ASSUME stage = "done"
              PROVE  exit = 1 <=> repo.strict /\ (Places # {} \/ undelivered)
  BY DEF StrictExact
<1>1. HasReport
  <2>1. Printed
    BY DEF ReportInv, FormatInv
  <2>2. report = Report!Rendered
    BY <2>1 DEF Printed
  <2>3. Report!Rendered.kind \in {"no lintable files", "clean", "findings"}
    BY DEF Report!Rendered
  <2>. QED BY <2>2, <2>3 DEF HasReport
<1>2. (report.kind = "findings") <=> Places # {}
  BY <1>1, RulesPrinted
<1>3. (ScannerReport.kind = "findings") <=> undelivered
  <2>. DEFINE found == [n \in DOMAIN scanned |-> scanned[n].findings]
              all == UNION {{[finding |-> f, file |-> n] : f \in found[n]} : n \in DOMAIN found}
              none == [kind |-> IF found = << >> THEN "no source" ELSE "clean", examined |-> Len(found)]
  <2>1. all # {} <=> undelivered
    <3>1. \A x : x \in all <=> \E n \in DOMAIN scanned : \E f \in scanned[n].findings : x = [finding |-> f, file |-> n]
      OBVIOUS
    <3>. HIDE DEF all
    <3>2. all # {} <=> \E n \in DOMAIN scanned : \E f \in scanned[n].findings : TRUE
      BY <3>1
    <3>. QED BY <3>2 DEF ToSet
  <2>2. all = {} => ScannerReport = none
    BY DEF ScannerReport, Report!formatReport
  <2>3. all # {} => ScannerReport.kind = "findings"
    BY DEF ScannerReport, Report!formatReport
  <2>4. none.kind # "findings"
    OBVIOUS
  <2>. HIDE DEF all, none
  <2>. QED BY <2>1, <2>2, <2>3, <2>4
<1>4. exit = 1 <=> repo.strict /\ (report.kind = "findings" \/ ScannerReport.kind = "findings")
  BY DEF ReportInv, ExitInv, Report!exitStatus
<1>. QED BY <1>2, <1>3, <1>4

\* However often the formatter of formatter.mjs stops keeping examples, what it shows
\* and what it calls "more" make up each rule's count, and the counts are ESLint's.
THEOREM NothingHidden == LintSpec => []ReportAddsUp
  BY ReportInvariant, AddsUp, PTL

\* Its stable sort puts the rules of the house first and keeps the order by frequency.
THEOREM LabelsFirst == LintSpec => []HouseRulesFirst
  BY ReportInvariant, HouseFirst, PTL

\* It says "clean" only of files that were read.
THEOREM CleanOnlyIfRead == LintSpec => []CleanMeansExamined
  BY ReportInvariant, CleanMeans, PTL

\* lint.sh fails exactly when the repository is strict and either half found something.
THEOREM StrictExit == LintSpec => []StrictExact
  BY ReportInvariant, ExactExit, PTL

-----------------------------------------------------------------------------
(* The rule's invariant, in every walk and in a run.                       *)

\* What may happen to the rule in a run: a listener is called, or a walk begins.
RuleStep == Listener \/ (\E walk : create(walk)) \/ UNCHANGED vars

LEMMA RunStepsRule ==
  ASSUME [LintNext]_allVars
  PROVE  RuleStep
<1>1. CASE EslintWalks
  <2>1. PICK walk : create(walk)
    BY <1>1 DEF EslintWalks
  <2>. QED BY <2>1 DEF RuleStep
<1>2. CASE EslintListener
  BY <1>2 DEF EslintListener, RuleStep
<1>3. CASE EslintSkips \/ EslintDone \/ StartFormat \/ FormatStep \/ StartScanner \/ ScannerSkips \/ ScannerReads
             \/ ScannerRound \/ ScannerDone \/ Finish
  <2>1. UNCHANGED vars
    BY <1>3 DEF EslintSkips, EslintDone, StartFormat, FormatStep, StartScanner, ScannerSkips, ScannerReads,
                ScannerRound, ScannerDone, Finish
  <2>. QED BY <2>1 DEF RuleStep
<1>4. CASE Exited \/ UNCHANGED allVars
  <2>1. UNCHANGED vars
    BY <1>4 DEF Exited, allVars
  <2>. QED BY <2>1 DEF RuleStep
<1>. QED BY <1>1, <1>2, <1>3, <1>4 DEF LintNext

LEMMA RulePreserves ==
  ASSUME IInv, RuleStep
  PROVE  IInv'
<1>1. CASE Listener
  BY <1>1, ListenerPreserves
<1>2. CASE \E walk : create(walk)
  BY <1>2, CreateEstablishes
<1>3. CASE UNCHANGED vars
  BY <1>3 DEF vars, IInv, ScopesType, Pending, NamesOf, EntriesPending, InnerIsLater, Rebinds, UnusedUntil, Delivers
<1>. QED BY <1>1, <1>2, <1>3 DEF RuleStep

LEMMA RuleJustifies ==
  ASSUME IInv, RuleStep
  PROVE  [\A n \in reports' \ reports : n = at \/ UnusedUntil(n, at)]_vars
<1>. SUFFICES ASSUME NEW n \in reports' \ reports, n # at PROVE UnusedUntil(n, at)
  OBVIOUS
<1>1. reports' # reports /\ n \in reports'
  OBVIOUS
<1>2. CASE FunctionExit \/ ProgramExit
  <2>1. exitScope /\ visits[at].on # "CallExpression"
    BY <1>2 DEF FunctionExit, ProgramExit, On
  <2>. QED BY <2>1, ExitJustified
<1>3. CASE ExpressionStatement
  <2>1. reports' = reports \/ reports' = reports \union {at}
    BY <1>3 DEF ExpressionStatement
  <2>. QED BY <2>1
<1>4. CASE \E walk : create(walk)
  <2>1. reports' = {}
    BY <1>4 DEF create
  <2>. QED BY <1>1, <2>1
<1>5. CASE FunctionEnter \/ ArrowFunctionExpression \/ ImportDeclaration
  BY <1>1, <1>5 DEF FunctionEnter, ArrowFunctionExpression, ImportDeclaration
<1>6. CASE VariableDeclarator \/ AssignmentExpression
  BY <1>1, <1>6 DEF VariableDeclarator, AssignmentExpression
<1>7. CASE ReturnStatement \/ CallExpression
  BY <1>1, <1>7 DEF ReturnStatement, CallExpression
<1>8. CASE UNCHANGED vars
  BY <1>1, <1>8 DEF vars
<1>. QED BY <1>2, <1>3, <1>4, <1>5, <1>6, <1>7, <1>8 DEF RuleStep, Listener

\* The pending events of the rule are, at every moment of every walk, events whose
\* name no call has delivered since it was bound to them (mark, clear and the scopes
\* of create in plugin.mjs).
THEOREM PendingInvariant == Spec => []IInv
<1>1. Init => IInv
  BY InitEstablishes
<1>2. IInv /\ [Next]_vars => IInv'
  BY RulePreserves DEF Next, RuleStep
<1>. QED BY <1>1, <1>2, PTL DEF Spec

\* No false alarm, for every file and every choice of level and terminal methods: an
\* event the rule reports when a scope ends was delivered by no call under its name.
THEOREM NoFalseAlarm == Spec => AlarmsAreJustified
<1>1. IInv /\ [Next]_vars => [\A n \in reports' \ reports : n = at \/ UnusedUntil(n, at)]_vars
  BY RuleJustifies DEF Next, RuleStep
<1>2. Spec => [][\A n \in reports' \ reports : n = at \/ UnusedUntil(n, at)]_vars
  BY <1>1, PendingInvariant, PTL DEF Spec
<1>. QED BY <1>2 DEF AlarmsAreJustified

\* So it is when lint.sh runs the rule on the files of a repository, one after the other
\* and each with a new walk, before the formatter and the scanner.
THEOREM NoFalseAlarmInARun == LintSpec => AlarmsAreJustified
<1>1. LintInit => IInv
  BY InitEstablishes DEF LintInit
<1>2. IInv /\ [LintNext]_allVars => IInv'
  BY RunStepsRule, RulePreserves
<1>3. IInv /\ [LintNext]_allVars => [\A n \in reports' \ reports : n = at \/ UnusedUntil(n, at)]_vars
  BY RunStepsRule, RuleJustifies
<1>4. LintSpec => []IInv
  BY <1>1, <1>2, PTL DEF LintSpec
<1>5. LintSpec => [][\A n \in reports' \ reports : n = at \/ UnusedUntil(n, at)]_vars
  BY <1>3, <1>4, PTL DEF LintSpec
<1>. QED BY <1>5 DEF AlarmsAreJustified

-----------------------------------------------------------------------------
(* Functions given by their value at another place, and sequences given step by step.*)

\* A function on D that is given at the places where it stops, and elsewhere by its
\* value at the next place.
Follows(f, D, stop, base, next, step) ==
  f = [d \in D |-> IF d \in stop THEN base[d] ELSE step[d][f[next[d]]]]

\* What holds of each element if it holds of all those of a lower rank holds of all.
LEMMA RankInduction ==
  ASSUME NEW D, NEW N \in Nat, NEW rank \in [D -> 0 .. N], NEW S,
         \A d \in D : (\A c \in D : rank[c] < rank[d] => c \in S) => d \in S
  PROVE  D \subseteq S
<1>. DEFINE Good == {n \in Nat : \A d \in D : rank[d] < n => d \in S}
<1>1. 0 \in Good
  OBVIOUS
<1>2. ASSUME NEW n \in Nat, n \in Good PROVE n + 1 \in Good
  <2>. SUFFICES ASSUME NEW d \in D, rank[d] < n + 1 PROVE d \in S
    OBVIOUS
  <2>1. \A c \in D : rank[c] < rank[d] => c \in S
    BY <1>2
  <2>. QED BY <2>1
<1>3. N + 1 \in Good
  <2>. HIDE DEF Good
  <2>. QED BY <1>1, <1>2, NatSetInduction
<1>. QED BY <1>3

\* There is one if the next place always is of a lower rank.
LEMMA Followed ==
  ASSUME NEW D, NEW N \in Nat, NEW rank \in [D -> 0 .. N],
         NEW stop, NEW base, NEW next, NEW step,
         \A d \in D \ stop : next[d] \in D /\ rank[next[d]] < rank[d]
  PROVE  \E f : Follows(f, D, stop, base, next, step)
<1>. DEFINE Under(n) == {d \in D : rank[d] < n}
            Good == {n \in Nat : \E f : Follows(f, Under(n), stop, base, next, step)}
<1>1. 0 \in Good
  <2>1. Under(0) = {}
    OBVIOUS
  <2>2. Follows([d \in {} |-> d], {}, stop, base, next, step)
    BY DEF Follows
  <2>. HIDE DEF Under
  <2>. QED BY <2>1, <2>2
<1>2. ASSUME NEW n \in Nat, n \in Good PROVE n + 1 \in Good
  <2>1. PICK f : Follows(f, Under(n), stop, base, next, step)
    BY <1>2
  <2>. DEFINE h == [d \in Under(n + 1) |->
                      IF rank[d] < n THEN f[d] ELSE IF d \in stop THEN base[d] ELSE step[d][f[next[d]]]]
  <2>2. ASSUME NEW d \in Under(n + 1)
        PROVE  h[d] = IF d \in stop THEN base[d] ELSE step[d][h[next[d]]]
    <3>1. d \in D /\ rank[d] \in Nat /\ rank[d] < n + 1
      OBVIOUS
    <3>2. h[d] = IF d \in stop THEN base[d] ELSE step[d][f[next[d]]]
      <4>1. CASE rank[d] < n
        <5>1. d \in Under(n) /\ h[d] = f[d]
          BY <3>1, <4>1
        <5>. HIDE DEF Under, h
        <5>. QED BY <2>1, <5>1 DEF Follows
      <4>2. CASE ~(rank[d] < n)
        BY <4>2
      <4>. QED BY <4>1, <4>2
    <3>3. d \notin stop => h[next[d]] = f[next[d]]
      <4>. SUFFICES ASSUME d \notin stop PROVE h[next[d]] = f[next[d]]
        OBVIOUS
      <4>1. next[d] \in D /\ rank[next[d]] \in Nat /\ rank[next[d]] < rank[d]
        BY <3>1
      <4>2. next[d] \in Under(n + 1) /\ rank[next[d]] < n
        BY <3>1, <4>1
      <4>. QED BY <4>2
    <3>. HIDE DEF h, Under
    <3>. QED BY <3>2, <3>3
  <2>3. h = [d \in Under(n + 1) |-> h[d]]
    OBVIOUS
  <2>4. Follows(h, Under(n + 1), stop, base, next, step)
    <3>. HIDE DEF h, Under
    <3>. QED BY <2>2, <2>3 DEF Follows
  <2>. HIDE DEF h, Under
  <2>. QED BY <2>4
<1>3. N + 1 \in Good
  <2>. HIDE DEF Good
  <2>. QED BY <1>1, <1>2, NatSetInduction
<1>4. Under(N + 1) = D
  OBVIOUS
<1>. HIDE DEF Under
<1>. QED BY <1>3, <1>4

\* Its values are what every step makes of them.
LEMMA Recursion ==
  ASSUME NEW D, NEW N \in Nat, NEW rank \in [D -> 0 .. N], NEW V,
         NEW stop, NEW base, NEW next, NEW step,
         \A d \in D \intersect stop : base[d] \in V,
         \A d \in D \ stop : /\ next[d] \in D /\ rank[next[d]] < rank[d]
                             /\ \A v \in V : step[d][v] \in V
  PROVE  \E f \in [D -> V] : Follows(f, D, stop, base, next, step)
<1>1. PICK f : Follows(f, D, stop, base, next, step)
  BY Followed
<1>. DEFINE S == {d \in D : f[d] \in V}
<1>2. \A d \in D : f[d] = IF d \in stop THEN base[d] ELSE step[d][f[next[d]]]
  BY <1>1 DEF Follows
<1>3. ASSUME NEW d \in D, \A c \in D : rank[c] < rank[d] => c \in S PROVE d \in S
  BY <1>2, <1>3
<1>4. D \subseteq S
  <2>. HIDE DEF S
  <2>. QED BY <1>3, RankInduction
<1>5. f = [d \in D |-> f[d]]
  BY <1>1 DEF Follows
<1>. QED BY <1>1, <1>4, <1>5

\* A sequence of values of which each is made of the one before.
StepsOf(f, N, init, step) == f[0] = init /\ \A n \in 1 .. N : f[n] = step[n][f[n - 1]]

LEMMA StepByStep ==
  ASSUME NEW N \in Nat, NEW V, NEW init \in V, NEW step, \A n \in 1 .. N : \A v \in V : step[n][v] \in V
  PROVE  \E f \in [0 .. N -> V] : StepsOf(f, N, init, step)
<1>. DEFINE D == 0 .. N
            rank == [d \in D |-> d]
            stop == {0}
            base == [d \in D |-> init]
            next == [d \in D |-> d - 1]
<1>1. \A d \in D \ stop : d \in 1 .. N /\ next[d] = d - 1 /\ next[d] \in D /\ rank[next[d]] < rank[d]
  OBVIOUS
<1>2. \A d \in D \intersect stop : base[d] \in V
  OBVIOUS
<1>3. rank \in [D -> 0 .. N]
  OBVIOUS
<1>4. PICK f \in [D -> V] : Follows(f, D, stop, base, next, step)
  <2>. HIDE DEF D, rank, stop, base, next
  <2>. QED BY <1>1, <1>2, <1>3, Recursion
<1>5. \A d \in D : f[d] = IF d \in stop THEN base[d] ELSE step[d][f[next[d]]]
  <2>. HIDE DEF D, stop, base, next
  <2>. QED BY <1>4 DEF Follows
<1>6. 0 \in D /\ f[0] = init
  BY <1>5
<1>7. \A n \in 1 .. N : n \in D /\ n \notin stop
  OBVIOUS
<1>8. \A n \in 1 .. N : f[n] = step[n][f[n - 1]]
  <2>. HIDE DEF D, stop, base, next
  <2>. QED BY <1>1, <1>5, <1>7
<1>. QED BY <1>6, <1>8 DEF StepsOf

\* Two such sequences that begin alike and go on alike are alike.
LEMMA SameSteps ==
  ASSUME NEW N \in Nat, NEW f, NEW g, f[0] = g[0],
         \A n \in 1 .. N : f[n - 1] = g[n - 1] => f[n] = g[n]
  PROVE  \A n \in 0 .. N : f[n] = g[n]
<1>. DEFINE S == {n \in Nat : n <= N => f[n] = g[n]}
<1>1. 0 \in S
  OBVIOUS
<1>2. ASSUME NEW n \in Nat, n \in S PROVE n + 1 \in S
  <2>. SUFFICES ASSUME n + 1 <= N PROVE f[n + 1] = g[n + 1]
    OBVIOUS
  <2>1. n + 1 \in 1 .. N /\ (n + 1) - 1 = n /\ f[n] = g[n]
    BY <1>2
  <2>. QED BY <2>1
<1>3. Nat \subseteq S
  <2>. HIDE DEF S
  <2>. QED BY <1>1, <1>2, NatSetInduction
<1>. QED BY <1>3

\* A flattened sequence, part by part.
LEMMA Flattened ==
  ASSUME NEW T, NEW parts \in Seq(Seq(T))
  PROVE  \E flat \in [0 .. Len(parts) -> Seq(T)] :
           /\ flat[0] = << >>
           /\ \A n \in 1 .. Len(parts) : flat[n] = flat[n - 1] \o parts[n]
           /\ FlattenSeq(parts) = flat[Len(parts)]
<1>. DEFINE N == Len(parts)
            V == Seq(T)
            step == [n \in 1 .. N |-> [v \in V |-> v \o parts[n]]]
            Body(g, n) == IF n = 1 THEN parts[n] ELSE g[n - 1] \o parts[n]
            Eq(f) == f = [n \in 1 .. N |-> Body(f, n)]
            flatten == CHOOSE f : Eq(f)
            nil == << >>
<1>1. N \in Nat /\ DOMAIN parts = 1 .. N /\ \A n \in 1 .. N : parts[n] \in V
  OBVIOUS
<1>2. nil \in V
  OBVIOUS
<1>3. \A n \in 1 .. N : \A v \in V : step[n][v] \in V /\ step[n][v] = v \o parts[n]
  BY <1>1
<1>4. PICK flat \in [0 .. N -> V] : StepsOf(flat, N, nil, step)
  <2>1. N \in Nat
    BY <1>1
  <2>2. \A n \in 1 .. N : \A v \in V : step[n][v] \in V
    BY <1>3
  <2>. HIDE DEF N, V, step, nil
  <2>. QED BY <1>2, <2>1, <2>2, StepByStep
<1>5. \A n \in 1 .. N : flat[n] = flat[n - 1] \o parts[n]
  <2>1. \A n \in 1 .. N : n - 1 \in 0 .. N
    BY <1>1
  <2>2. \A n \in 1 .. N : flat[n - 1] \in V
    <3>. HIDE DEF N, V
    <3>. QED BY <1>4, <2>1
  <2>. HIDE DEF N, V, step
  <2>. QED BY <1>3, <1>4, <2>2 DEF StepsOf
<1>6. \A n \in 1 .. N : flat[n] = Body(flat, n)
  <2>1. 1 \in 1 .. N => flat[1] = parts[1]
    <3>1. \A part \in V : << >> \o part = part
      OBVIOUS
    <3>2. 1 \in 1 .. N => flat[1] = flat[0] \o parts[1] /\ parts[1] \in V
      BY <1>1, <1>5
    <3>. HIDE DEF N, V
    <3>. QED BY <1>4, <3>1, <3>2 DEF StepsOf
  <2>. HIDE DEF N
  <2>. QED BY <1>5, <2>1
<1>7. Eq(flatten)
  <2>. DEFINE f == [n \in 1 .. N |-> flat[n]]
  <2>1. \A n \in 1 .. N : n # 1 => n - 1 \in 1 .. N
    BY <1>1
  <2>2. \A n \in 1 .. N : f[n] = Body(f, n)
    <3>. HIDE DEF N
    <3>. QED BY <1>6, <2>1
  <2>3. Eq(f)
    <3>1. f = [n \in 1 .. N |-> f[n]]
      OBVIOUS
    <3>. HIDE DEF f, Body, N
    <3>. QED BY <2>2, <3>1
  <2>. HIDE DEF Eq, f
  <2>. QED BY <2>3
<1>8. FlattenSeq(parts) = IF Len(parts) = 0 THEN parts ELSE flatten[N]
  BY DEF FlattenSeq
<1>9. \A n \in 1 .. N : flatten[n] = Body(flatten, n)
  <2>. HIDE DEF flatten, Body, N
  <2>. QED BY <1>7
<1>10. \A n \in 1 .. N : flatten[n] = flat[n]
  <2>. DEFINE g == [n \in 0 .. N |-> IF n = 0 THEN << >> ELSE flatten[n]]
  <2>. HIDE DEF flatten
  <2>1. g[0] = flat[0]
    BY <1>1, <1>4 DEF StepsOf
  <2>2. ASSUME NEW n \in 1 .. N, g[n - 1] = flat[n - 1] PROVE g[n] = flat[n]
    <3>1. n \in 0 .. N /\ n # 0 /\ g[n] = flatten[n]
      BY <1>1
    <3>2. n # 1 => n - 1 \in 0 .. N /\ n - 1 # 0 /\ g[n - 1] = flatten[n - 1]
      BY <1>1
    <3>. HIDE DEF g, N
    <3>. QED BY <1>6, <1>9, <2>2, <3>1, <3>2
  <2>3. \A n \in 0 .. N : g[n] = flat[n]
    <3>1. N \in Nat
      BY <1>1
    <3>. HIDE DEF g, N, V
    <3>. QED BY <2>1, <2>2, <3>1, SameSteps
  <2>4. \A n \in 1 .. N : n \in 0 .. N /\ g[n] = flatten[n]
    BY <1>1
  <2>. HIDE DEF g, N
  <2>. QED BY <2>3, <2>4
<1>11. FlattenSeq(parts) = flat[N]
  <2>1. CASE N = 0
    <3>1. parts = << >>
      BY <2>1
    <3>. QED BY <1>4, <1>8, <2>1, <3>1 DEF StepsOf
  <2>2. CASE N # 0
    <3>1. N \in 1 .. N
      BY <1>1, <2>2
    <3>. HIDE DEF flatten
    <3>. QED BY <1>8, <1>10, <2>2, <3>1
  <2>. QED BY <2>1, <2>2
<1>. QED BY <1>4, <1>5, <1>11 DEF StepsOf

-----------------------------------------------------------------------------
(* Blocks, and the functions among them.                                   *)

\* The openers around a statement, from those around the one before.
Around(program, l, outer) ==
  IF program[l].op \in Openers THEN Append(outer, l)
  ELSE IF program[l].op = "close" /\ outer # << >> THEN Front(outer)
  ELSE outer

LEMMA FrontIs ==
  ASSUME NEW S, NEW s \in Seq(S), s # << >>
  PROVE  /\ Front(s) \in Seq(S) /\ Len(Front(s)) = Len(s) - 1 /\ Len(s) - 1 \in Nat
         /\ \A n \in 1 .. Len(s) - 1 : Front(s)[n] = s[n]
         /\ Len(s) \in DOMAIN s /\ Last(s) \in S
<1>1. Len(s) \in Nat /\ Len(s) # 0 /\ DOMAIN s = 1 .. Len(s)
  OBVIOUS
<1>2. Len(s) \in DOMAIN s
  BY <1>1
<1>. QED BY <1>1, <1>2 DEF Front, Last

LEMMA AroundType ==
  ASSUME NEW program, NEW l \in Nat, NEW outer \in Seq(Nat)
  PROVE  Around(program, l, outer) \in Seq(Nat)
<1>1. outer # << >> => Front(outer) \in Seq(Nat)
  BY FrontIs
<1>2. Append(outer, l) \in Seq(Nat)
  OBVIOUS
<1>. QED BY <1>1, <1>2 DEF Around

LEMMA NestIs ==
  ASSUME NEW program, Len(program) \in Nat
  PROVE  /\ Nest(program) \in [0 .. Len(program) -> Seq(Nat)]
         /\ Nest(program)[0] = << >>
         /\ \A l \in 1 .. Len(program) : Nest(program)[l] = Around(program, l, Nest(program)[l - 1])
<1>. DEFINE N == Len(program)
            V == Seq(Nat)
            step == [n \in 1 .. N |-> [v \in V |-> Around(program, n, v)]]
            Body(g, n) == IF n = 0 THEN << >> ELSE Around(program, n, g[n - 1])
            Eq(f) == f = [n \in 0 .. N |-> Body(f, n)]
            nest == CHOOSE f : Eq(f)
            nil == << >>
<1>1. nil \in V
  OBVIOUS
<1>2. \A n \in 1 .. N : \A v \in V : step[n][v] \in V /\ step[n][v] = Around(program, n, v)
  BY AroundType
<1>3. PICK f \in [0 .. N -> V] : StepsOf(f, N, nil, step)
  <2>1. \A n \in 1 .. N : \A v \in V : step[n][v] \in V
    BY <1>2
  <2>. HIDE DEF N, V, step, nil
  <2>. QED BY <1>1, <2>1, StepByStep DEF N
<1>4. \A n \in 1 .. N : f[n] = Around(program, n, f[n - 1])
  <2>1. \A n \in 1 .. N : n - 1 \in 0 .. N
    OBVIOUS
  <2>2. \A n \in 1 .. N : f[n - 1] \in V
    <3>. HIDE DEF N, V
    <3>. QED BY <1>3, <2>1
  <2>. HIDE DEF N, V, step
  <2>. QED BY <1>2, <1>3, <2>2 DEF StepsOf
<1>5. f[0] = << >>
  BY <1>3 DEF StepsOf
<1>6. Eq(nest)
  <2>1. \A n \in 0 .. N : f[n] = Body(f, n)
    <3>1. \A n \in 0 .. N : n # 0 => n \in 1 .. N
      OBVIOUS
    <3>. HIDE DEF N
    <3>. QED BY <1>4, <1>5, <3>1
  <2>2. Eq(f)
    <3>1. f = [n \in 0 .. N |-> f[n]]
      OBVIOUS
    <3>. HIDE DEF Body, N
    <3>. QED BY <2>1, <3>1
  <2>. HIDE DEF Eq
  <2>. QED BY <2>2
<1>7. Nest(program) = nest
  BY DEF Nest, Around
<1>8. \A n \in 0 .. N : nest[n] = Body(nest, n)
  <2>. HIDE DEF nest, Body, N
  <2>. QED BY <1>6
<1>. HIDE DEF nest
<1>9. \A n \in 0 .. N : nest[n] = f[n]
  <2>1. nest[0] = f[0]
    BY <1>5, <1>8
  <2>2. ASSUME NEW n \in 1 .. N, nest[n - 1] = f[n - 1] PROVE nest[n] = f[n]
    <3>1. n \in 0 .. N /\ n # 0
      OBVIOUS
    <3>. HIDE DEF N
    <3>. QED BY <1>4, <1>8, <2>2, <3>1
  <2>. HIDE DEF Body
  <2>. QED BY <2>1, <2>2, SameSteps
<1>10. nest \in [0 .. N -> V]
  <2>1. nest = [n \in 0 .. N |-> nest[n]]
    <3>1. nest = [n \in 0 .. N |-> Body(nest, n)]
      BY <1>6
    <3>. HIDE DEF Body, N
    <3>. QED BY <3>1
  <2>. HIDE DEF N, V
  <2>. QED BY <1>9, <2>1
<1>11. \A l \in 1 .. N : nest[l] = Around(program, l, nest[l - 1])
  <2>1. \A l \in 1 .. N : l \in 0 .. N /\ l # 0
    OBVIOUS
  <2>. HIDE DEF N
  <2>. QED BY <1>8, <2>1
<1>. QED BY <1>5, <1>7, <1>9, <1>10, <1>11

-----------------------------------------------------------------------------
(* A walk that leaves as many functions as it enters.                      *)

Deeper     == {"FunctionEnter", "ArrowFunctionExpression"}
Shallower  == {"FunctionExit", "Program:exit"}

\* The number of scopes after a visit.
LevelAfter(level, on) == IF on \in Deeper THEN level + 1 ELSE IF on \in Shallower THEN level - 1 ELSE level

\* The numbers of scopes through a walk, before each visit and at the end.
Levels(level, walk) ==
  /\ level \in [1 .. Len(walk) + 1 -> Nat]
  /\ \A n \in 1 .. Len(walk) : level[n] # 0 /\ level[n + 1] = LevelAfter(level[n], walk[n].on)

Leveled(walk, from, to) == \E level : Levels(level, walk) /\ level[1] = from /\ level[Len(walk) + 1] = to

LEMMA LeveledConcat ==
  ASSUME NEW T, NEW u \in Seq(T), NEW v \in Seq(T), NEW from \in Nat, NEW mid \in Nat, NEW to \in Nat,
         Leveled(u, from, mid), Leveled(v, mid, to)
  PROVE  Leveled(u \o v, from, to)
<1>1. PICK f : Levels(f, u) /\ f[1] = from /\ f[Len(u) + 1] = mid
  BY DEF Leveled
<1>2. PICK g : Levels(g, v) /\ g[1] = mid /\ g[Len(v) + 1] = to
  BY DEF Leveled
<1>. DEFINE m == Len(u)
            l == Len(v)
            h == [n \in 1 .. m + l + 1 |-> IF n <= m THEN f[n] ELSE g[n - m]]
<1>3. m \in Nat /\ l \in Nat /\ Len(u \o v) = m + l
  OBVIOUS
<1>4. \A n \in 1 .. m + l : (u \o v)[n] = IF n <= m THEN u[n] ELSE v[n - m]
  OBVIOUS
<1>5. \A n \in 1 .. m : f[n] \in Nat /\ f[n] # 0 /\ f[n + 1] = LevelAfter(f[n], u[n].on)
  BY <1>1 DEF Levels
<1>6. \A n \in 1 .. l + 1 : g[n] \in Nat
  BY <1>2 DEF Levels
<1>7. \A n \in 1 .. l : g[n] # 0 /\ g[n + 1] = LevelAfter(g[n], v[n].on)
  BY <1>2 DEF Levels
<1>8. f[m + 1] = g[1]
  BY <1>1, <1>2
<1>9. h \in [1 .. m + l + 1 -> Nat]
  BY <1>3, <1>5, <1>6
<1>10. ASSUME NEW n \in 1 .. m + l
       PROVE  h[n] # 0 /\ h[n + 1] = LevelAfter(h[n], (u \o v)[n].on)
  <2>1. CASE n < m
    <3>1. n \in 1 .. m /\ h[n] = f[n] /\ h[n + 1] = f[n + 1] /\ (u \o v)[n] = u[n]
      BY <1>3, <1>4, <2>1
    <3>. HIDE DEF h
    <3>. QED BY <1>5, <3>1
  <2>2. CASE n = m
    <3>1. n \in 1 .. m /\ h[n] = f[n] /\ h[n + 1] = g[1] /\ (u \o v)[n] = u[n]
      BY <1>3, <1>4, <2>2
    <3>. HIDE DEF h
    <3>. QED BY <1>5, <1>8, <2>2, <3>1
  <2>3. CASE n > m
    <3>1. n - m \in 1 .. l /\ h[n] = g[n - m] /\ h[n + 1] = g[(n - m) + 1] /\ (u \o v)[n] = v[n - m]
      BY <1>3, <1>4, <2>3
    <3>. HIDE DEF h
    <3>. QED BY <1>7, <3>1
  <2>. QED BY <1>3, <2>1, <2>2, <2>3
<1>11. h[1] = from /\ h[m + l + 1] = to
  BY <1>1, <1>2, <1>3
<1>12. Levels(h, u \o v)
  <2>. HIDE DEF h
  <2>. QED BY <1>3, <1>9, <1>10 DEF Levels
<1>. HIDE DEF h
<1>. QED BY <1>3, <1>11, <1>12 DEF Leveled

\* A part of a walk that neither enters a function nor leaves one.
QuietVisit(x) == "on" \in DOMAIN x /\ x.on \notin Deeper \union Shallower

Quiet(walk) == \E S : walk \in Seq(S) /\ \A x \in S : QuietVisit(x)

LEMMA QuietNothing == Quiet(<< >>)
<1>. DEFINE nothing == << >>
<1>1. nothing \in Seq({}) /\ \A x \in {} : QuietVisit(x)
  OBVIOUS
<1>. HIDE DEF nothing
<1>2. Quiet(nothing)
  BY <1>1 DEF Quiet
<1>. QED BY <1>2 DEF nothing

LEMMA QuietOne ==
  ASSUME NEW x, QuietVisit(x)
  PROVE  Quiet(<<x>>)
<1>. DEFINE one == <<x>>
<1>1. one \in Seq({x})
  OBVIOUS
<1>. HIDE DEF one
<1>2. Quiet(one)
  BY <1>1 DEF Quiet
<1>. QED BY <1>2 DEF one

LEMMA QuietConcat ==
  ASSUME NEW u, NEW v, Quiet(u), Quiet(v)
  PROVE  Quiet(u \o v)
<1>1. PICK S : u \in Seq(S) /\ \A x \in S : QuietVisit(x)
  BY DEF Quiet
<1>2. PICK T : v \in Seq(T) /\ \A x \in T : QuietVisit(x)
  BY DEF Quiet
<1>. DEFINE U == S \union T
<1>3. u \in Seq(U) /\ v \in Seq(U)
  BY <1>1, <1>2, SeqMonotonic
<1>4. u \o v \in Seq(U)
  <2>. HIDE DEF U
  <2>. QED BY <1>3
<1>5. \A x \in U : QuietVisit(x)
  BY <1>1, <1>2
<1>. HIDE DEF U
<1>. QED BY <1>4, <1>5 DEF Quiet

LEMMA QuietCalls ==
  ASSUME NEW node, NEW M, node.methods \in Seq(M)
  PROVE  Quiet(CallsIn(node))
<1>. DEFINE VisitOf(call) == [on |-> "CallExpression", node |-> call]
            Call_(n) == [node EXCEPT !.methods = SubSeq(@, 1, Len(@) - n + 1), !.args = IF n = 1 THEN @ ELSE {}]
            calls == [n \in DOMAIN node.methods |-> VisitOf(Call_(n))]
            S == {calls[n] : n \in DOMAIN node.methods}
<1>1. \A call : QuietVisit(VisitOf(call))
  BY DEF QuietVisit, Deeper, Shallower
<1>2. CallsIn(node) = IF node.type # "Call" THEN << >> ELSE IF node.methods = << >> THEN <<VisitOf(node)>> ELSE calls
  BY DEF CallsIn
<1>3. Quiet(<<VisitOf(node)>>)
  BY <1>1, QuietOne
<1>4. Quiet(calls)
  <2>1. DOMAIN node.methods = 1 .. Len(node.methods) /\ Len(node.methods) \in Nat
    OBVIOUS
  <2>2. calls \in [1 .. Len(node.methods) -> S]
    BY <2>1
  <2>3. calls \in Seq(S)
    <3>. HIDE DEF calls, S
    <3>. QED BY <2>1, <2>2, SeqDef
  <2>4. \A x \in S : QuietVisit(x)
    <3>. HIDE DEF VisitOf, Call_
    <3>. QED BY <1>1
  <2>. HIDE DEF calls, S
  <2>. QED BY <2>3, <2>4 DEF Quiet
<1>. HIDE DEF VisitOf, calls
<1>. QED BY <1>2, <1>3, <1>4, QuietNothing

\* Whatever is a sequence of anything is one of its own elements.
LEMMA SequenceIs ==
  ASSUME NEW S, NEW w \in Seq(S)
  PROVE  IsSequence(w)
<1>1. DOMAIN w = 1 .. Len(w) /\ Len(w) \in Nat /\ w = [n \in 1 .. Len(w) |-> w[n]]
  OBVIOUS
<1>2. \A n \in 1 .. Len(w) : w[n] \in ToSet(w)
  BY <1>1 DEF ToSet
<1>3. w \in [1 .. Len(w) -> ToSet(w)]
  BY <1>1, <1>2
<1>. QED BY <1>1, <1>3, SeqDef DEF IsSequence

LEMMA LiteralSequences ==
  /\ IsSequence(<< >>)
  /\ \A a : IsSequence(<<a>>)
  /\ \A a, b : IsSequence(<<a, b>>)
<1>1. IsSequence(<< >>)
  <2>. DEFINE none == << >>
  <2>1. none \in Seq({})
    OBVIOUS
  <2>. HIDE DEF none
  <2>2. IsSequence(none)
    BY <2>1, SequenceIs
  <2>. QED BY <2>2 DEF none
<1>2. ASSUME NEW a PROVE IsSequence(<<a>>)
  <2>. DEFINE one == <<a>>
  <2>1. one \in Seq({a})
    OBVIOUS
  <2>. HIDE DEF one
  <2>2. IsSequence(one)
    BY <2>1, SequenceIs
  <2>. QED BY <2>2 DEF one
<1>3. ASSUME NEW a, NEW b PROVE IsSequence(<<a, b>>)
  <2>. DEFINE two == <<a, b>>
  <2>1. two \in Seq({a, b})
    OBVIOUS
  <2>. HIDE DEF two
  <2>2. IsSequence(two)
    BY <2>1, SequenceIs
  <2>. QED BY <2>2 DEF two
<1>. QED BY <1>1, <1>2, <1>3

\* A node with its methods.
StatementNode(node) == IsSequence(node.methods)

LEMMA PairIs ==
  ASSUME NEW a, NEW b
  PROVE  <<a, b>> = <<a>> \o <<b>>
<1>. DEFINE pair == <<a, b>>
            joined == <<a>> \o <<b>>
            S == {a, b}
<1>1. <<a>> \in Seq(S) /\ <<b>> \in Seq(S) /\ pair \in Seq(S)
  OBVIOUS
<1>2. joined \in Seq(S)
  BY <1>1
<1>3. Len(pair) = 2 /\ Len(joined) = 2
  OBVIOUS
<1>4. \A n \in 1 .. Len(pair) : pair[n] = joined[n]
  BY <1>3
<1>5. pair = joined
  <2>. HIDE DEF pair, joined, S
  <2>. QED BY <1>1, <1>2, <1>3, <1>4, SeqEqual
<1>. QED BY <1>5

LEMMA QuietWithCalls ==
  ASSUME NEW x, QuietVisit(x), NEW node, StatementNode(node)
  PROVE  Quiet(<<x>> \o CallsIn(node))
<1>1. Quiet(<<x>>)
  BY QuietOne
<1>2. Quiet(CallsIn(node))
  BY QuietCalls DEF StatementNode, IsSequence
<1>. QED BY <1>1, <1>2, QuietConcat

LEMMA CallOfNode ==
  ASSUME NEW n, NEW methods, IsSequence(methods), NEW args
  PROVE  StatementNode(CallOf(n, methods, args))
  BY DEF StatementNode, CallOf

LEMMA QuietAlone ==
  ASSUME NEW node, StatementNode(node)
  PROVE  Quiet(<<[on |-> "ExpressionStatement", node |-> node]>> \o CallsIn(node))
<1>1. QuietVisit([on |-> "ExpressionStatement", node |-> node])
  BY DEF QuietVisit, Deeper, Shallower
<1>. QED BY <1>1, QuietWithCalls

LEMMA QuietDeclared ==
  ASSUME NEW name, NEW node, StatementNode(node)
  PROVE  Quiet(<<[on |-> "VariableDeclarator", name |-> name, node |-> node]>> \o CallsIn(node))
<1>1. QuietVisit([on |-> "VariableDeclarator", name |-> name, node |-> node])
  BY DEF QuietVisit, Deeper, Shallower
<1>. QED BY <1>1, QuietWithCalls

\* Only the ends of functions change the number of scopes.
LEMMA QuietStatement ==
  ASSUME NEW s, s.op \notin {"function", "arrow"}
  PROVE  Quiet(StatementVisits(s))
<1>. DEFINE chain == CallOf("log", <<"info">>, {})
            Alone(node) == <<[on |-> "ExpressionStatement", node |-> node]>> \o CallsIn(node)
            Declared(node) == <<[on |-> "VariableDeclarator", name |-> <<"child">>, node |-> node]>> \o CallsIn(node)
<1>1. \A node : StatementNode(node) => Quiet(Alone(node)) /\ Quiet(Declared(node))
  BY QuietAlone, QuietDeclared
<1>2. /\ IsSequence(<< >>) /\ IsSequence(<<"info">>) /\ IsSequence(<<"send">>)
      /\ IsSequence(<<"anew">>) /\ IsSequence(<<"createLogger">>)
      /\ IsSequence(<<"info", "send">>) /\ IsSequence(<<"field", "send">>)
  BY LiteralSequences
<1>3. StatementNode(chain)
  BY <1>2, CallOfNode
<1>4. CASE s.op = "child_drop"
  <2>. DEFINE node == CallOf("child", <<"info">>, {})
  <2>1. StatementVisits(s) = Alone(node)
    BY <1>4 DEF StatementVisits, CallOf
  <2>2. StatementNode(node)
    BY <1>2, CallOfNode DEF StatementNode, CallOf
  <2>. HIDE DEF node, Alone
  <2>. QED BY <1>1, <2>1, <2>2
<1>5. CASE s.op = "root_drop"
  <2>. DEFINE node == CallOf("root", <<"info">>, {})
  <2>1. StatementVisits(s) = Alone(node)
    BY <1>5 DEF StatementVisits, CallOf
  <2>2. StatementNode(node)
    BY <1>2, CallOfNode DEF StatementNode, CallOf
  <2>. HIDE DEF node, Alone
  <2>. QED BY <1>1, <2>1, <2>2
<1>6. CASE s.op = "default_drop"
  <2>. DEFINE node == CallOf("main", <<"info">>, {})
  <2>1. StatementVisits(s) = Alone(node)
    BY <1>6 DEF StatementVisits, CallOf
  <2>2. StatementNode(node)
    BY <1>2, CallOfNode DEF StatementNode, CallOf
  <2>. HIDE DEF node, Alone
  <2>. QED BY <1>1, <2>1, <2>2
<1>7. CASE s.op = "logs_drop"
  <2>. DEFINE node == [CallOf("logs", <<"info">>, {}) EXCEPT !.root = <<"logs", "logger">>]
  <2>1. StatementVisits(s) = Alone(node)
    BY <1>7 DEF StatementVisits, CallOf
  <2>2. StatementNode(node)
    BY <1>2, CallOfNode DEF StatementNode, CallOf
  <2>. HIDE DEF node, Alone
  <2>. QED BY <1>1, <2>1, <2>2
<1>8. CASE s.op = "other_call"
  <2>. DEFINE node == CallOf("other", <<"info">>, {})
  <2>1. StatementVisits(s) = Alone(node)
    BY <1>8 DEF StatementVisits, CallOf
  <2>2. StatementNode(node)
    BY <1>2, CallOfNode DEF StatementNode, CallOf
  <2>. HIDE DEF node, Alone
  <2>. QED BY <1>1, <2>1, <2>2
<1>9. CASE s.op = "emit"
  <2>. DEFINE node == CallOf("log", <<"info", "send">>, {})
  <2>1. StatementVisits(s) = Alone(node)
    BY <1>9 DEF StatementVisits, CallOf
  <2>2. StatementNode(node)
    BY <1>2, CallOfNode DEF StatementNode, CallOf
  <2>. HIDE DEF node, Alone
  <2>. QED BY <1>1, <2>1, <2>2
<1>10. CASE s.op = "send"
  <2>. DEFINE node == CallOf(s.name, <<"send">>, {})
  <2>1. StatementVisits(s) = Alone(node)
    BY <1>10 DEF StatementVisits, CallOf
  <2>2. StatementNode(node)
    BY <1>2, CallOfNode DEF StatementNode, CallOf
  <2>. HIDE DEF node, Alone
  <2>. QED BY <1>1, <2>1, <2>2
<1>11. CASE s.op = "give"
  <2>. DEFINE node == CallOf("send", << >>, {s.name})
  <2>1. StatementVisits(s) = Alone(node)
    BY <1>11 DEF StatementVisits, CallOf
  <2>2. StatementNode(node)
    BY <1>2, CallOfNode DEF StatementNode, CallOf
  <2>. HIDE DEF node, Alone
  <2>. QED BY <1>1, <2>1, <2>2
<1>12. CASE s.op = "field_send"
  <2>. DEFINE node == CallOf(s.name, <<"field", "send">>, {})
  <2>1. StatementVisits(s) = Alone(node)
    BY <1>12 DEF StatementVisits, CallOf
  <2>2. StatementNode(node)
    BY <1>2, CallOfNode DEF StatementNode, CallOf
  <2>. HIDE DEF node, Alone
  <2>. QED BY <1>1, <2>1, <2>2
<1>13. CASE s.op = "pass"
  <2>. DEFINE node == CallOf("deliver", << >>, {s.name})
  <2>1. StatementVisits(s) = Alone(node)
    BY <1>13 DEF StatementVisits, CallOf
  <2>2. StatementNode(node)
    BY <1>2, CallOfNode DEF StatementNode, CallOf
  <2>. HIDE DEF node, Alone
  <2>. QED BY <1>1, <2>1, <2>2
<1>14. CASE s.op = "child"
  <2>. DEFINE node == CallOf("log", <<"anew">>, {})
  <2>1. StatementVisits(s) = Declared(node)
    BY <1>14 DEF StatementVisits, CallOf
  <2>2. StatementNode(node)
    BY <1>2, CallOfNode DEF StatementNode, CallOf
  <2>. HIDE DEF node, Declared
  <2>. QED BY <1>1, <2>1, <2>2
<1>15. CASE s.op = "made"
  <2>. DEFINE node == CallOf("make", << >>, {})
  <2>1. StatementVisits(s) = Declared(node)
    BY <1>15 DEF StatementVisits, CallOf
  <2>2. StatementNode(node)
    BY <1>2, CallOfNode DEF StatementNode, CallOf
  <2>. HIDE DEF node, Declared
  <2>. QED BY <1>1, <2>1, <2>2
<1>16. CASE s.op = "namespaced"
  <2>. DEFINE node == CallOf("logs", <<"createLogger">>, {})
  <2>1. StatementVisits(s) = Declared(node)
    BY <1>16 DEF StatementVisits, CallOf
  <2>2. StatementNode(node)
    BY <1>2, CallOfNode DEF StatementNode, CallOf
  <2>. HIDE DEF node, Declared
  <2>. QED BY <1>1, <2>1, <2>2
<1>17. CASE s.op = "built"
  <2>. DEFINE node == [type |-> "New", root |-> <<"Base">>, methods |-> << >>, args |-> {}]
  <2>1. StatementVisits(s) = Declared(node)
    BY <1>17 DEF StatementVisits, CallOf
  <2>2. StatementNode(node)
    BY <1>2, CallOfNode DEF StatementNode, CallOf
  <2>. HIDE DEF node, Declared
  <2>. QED BY <1>1, <2>1, <2>2
<1>18. CASE s.op \in {"drop", "quoted", "two_arguments"}
  <2>1. StatementVisits(s) = Alone(chain)
    BY <1>18 DEF StatementVisits
  <2>. HIDE DEF chain, Alone
  <2>. QED BY <1>1, <1>3, <2>1
<1>19. CASE s.op = "bind"
  <2>1. StatementVisits(s) = <<[on |-> "VariableDeclarator", name |-> <<s.name>>, node |-> chain]>> \o CallsIn(chain)
    BY <1>19 DEF StatementVisits
  <2>. HIDE DEF chain
  <2>. QED BY <1>3, <2>1, QuietDeclared
<1>20. CASE s.op = "assign"
  <2>. DEFINE first == [on |-> "ExpressionStatement", node |-> OtherExpression]
              second == [on |-> "AssignmentExpression", name |-> <<s.name>>, node |-> chain]
  <2>1. StatementVisits(s) = <<first, second>> \o CallsIn(chain)
    BY <1>20 DEF StatementVisits
  <2>2. QuietVisit(first) /\ QuietVisit(second)
    BY DEF QuietVisit, Deeper, Shallower
  <2>. HIDE DEF chain, first, second
  <2>3. <<first, second>> = <<first>> \o <<second>>
    BY PairIs
  <2>4. Quiet(<<first, second>>)
    BY <2>2, <2>3, QuietOne, QuietConcat
  <2>5. Quiet(CallsIn(chain))
    BY <1>3, QuietCalls DEF StatementNode, IsSequence
  <2>. QED BY <2>1, <2>4, <2>5, QuietConcat
<1>21. CASE s.op = "return_name"
  <2>. DEFINE visit == [on |-> "ReturnStatement", node |-> NameOf(s.name)]
  <2>1. StatementVisits(s) = <<visit>>
    BY <1>21 DEF StatementVisits
  <2>2. QuietVisit(visit)
    BY DEF QuietVisit, Deeper, Shallower
  <2>. HIDE DEF visit
  <2>. QED BY <2>1, <2>2, QuietOne
<1>22. CASE s.op = "return_chain"
  <2>. DEFINE visit == [on |-> "ReturnStatement", node |-> chain]
  <2>1. StatementVisits(s) = <<visit>> \o CallsIn(chain)
    BY <1>22 DEF StatementVisits
  <2>2. QuietVisit(visit)
    BY DEF QuietVisit, Deeper, Shallower
  <2>. HIDE DEF visit, chain
  <2>. QED BY <1>3, <2>1, <2>2, QuietWithCalls
<1>23. CASE s.op = "import"
  <2>. DEFINE Import(tracked, specifiers) == [on |-> "ImportDeclaration", tracked |-> tracked, specifiers |-> specifiers]
  <2>1. \A tracked, specifiers : QuietVisit(Import(tracked, specifiers))
    BY DEF QuietVisit, Deeper, Shallower
  <2>2. \E a, b, c, d, e, f : StatementVisits(s) = <<Import(a, b), Import(c, d), Import(e, f)>>
    BY <1>23 DEF StatementVisits
  <2>. HIDE DEF Import
  <2>3. PICK a, b, c, d, e, f : StatementVisits(s) = <<Import(a, b), Import(c, d), Import(e, f)>>
    BY <2>2
  <2>4. StatementVisits(s) = (<<Import(a, b)>> \o <<Import(c, d)>>) \o <<Import(e, f)>>
    BY <2>3
  <2>5. Quiet(<<Import(a, b)>> \o <<Import(c, d)>>) /\ Quiet(<<Import(e, f)>>)
    BY <2>1, QuietOne, QuietConcat
  <2>. QED BY <2>4, <2>5, QuietConcat
<1>24. CASE s.op \notin {"child_drop", "root_drop", "default_drop", "logs_drop", "other_call", "emit", "send", "give", "field_send", "pass", "child", "made", "namespaced", "built", "drop", "quoted", "two_arguments", "bind", "assign", "return_name", "return_chain", "import"}
  <2>1. StatementVisits(s) = << >>
    BY <1>24 DEF StatementVisits
  <2>. QED BY <2>1, QuietNothing
<1>. QED BY <1>4, <1>5, <1>6, <1>7, <1>8, <1>9, <1>10, <1>11, <1>12, <1>13, <1>14, <1>15, <1>16, <1>17, <1>18, <1>19, <1>20, <1>21, <1>22, <1>23, <1>24

\* The functions among the openers around a statement.
FunctionsOpen(program, outer) == Cardinality({n \in DOMAIN outer : program[outer[n]].op = "function"})

LEMMA FunctionsPushed ==
  ASSUME NEW program, NEW inner \in Seq(Nat), NEW outer \in Seq(Nat), Len(outer) = Len(inner) + 1,
         \A n \in 1 .. Len(inner) : outer[n] = inner[n]
  PROVE  /\ FunctionsOpen(program, inner) \in Nat
         /\ FunctionsOpen(program, outer) =
              FunctionsOpen(program, inner) + IF program[outer[Len(outer)]].op = "function" THEN 1 ELSE 0
<1>. DEFINE before == {n \in DOMAIN inner : program[inner[n]].op = "function"}
            after == {n \in DOMAIN outer : program[outer[n]].op = "function"}
            last == Len(inner) + 1
<1>1. DOMAIN inner = 1 .. Len(inner) /\ DOMAIN outer = 1 .. last /\ Len(inner) \in Nat /\ last \notin before
  OBVIOUS
<1>2. IsFiniteSet(before)
  <2>1. IsFiniteSet(1 .. Len(inner))
    <3>1. 1 \in Int /\ Len(inner) \in Int
      OBVIOUS
    <3>. QED BY <3>1, FS_Interval
  <2>2. before \subseteq 1 .. Len(inner)
    BY <1>1
  <2>. HIDE DEF before
  <2>. QED BY <2>1, <2>2, FS_Subset
<1>3. after = IF program[outer[last]].op = "function" THEN before \union {last} ELSE before
  <2>1. \A n \in 1 .. last : n = last \/ n \in 1 .. Len(inner)
    BY <1>1
  <2>2. \A n \in 1 .. Len(inner) : n \in 1 .. last /\ n # last /\ outer[n] = inner[n]
    BY <1>1
  <2>3. last \in 1 .. last
    BY <1>1
  <2>. HIDE DEF last
  <2>. QED BY <1>1, <2>1, <2>2, <2>3
<1>4. Cardinality(before) \in Nat /\ Cardinality(before \union {last}) = Cardinality(before) + 1
  <2>. HIDE DEF before, last
  <2>. QED BY <1>1, <1>2, FS_CardinalityType, FS_AddElement
<1>5. Cardinality(after) = Cardinality(before) + IF program[outer[last]].op = "function" THEN 1 ELSE 0
  <2>. HIDE DEF before, last, after
  <2>. QED BY <1>3, <1>4
<1>. HIDE DEF before, after
<1>. QED BY <1>4, <1>5 DEF FunctionsOpen, before, after

LEMMA FunctionsAround ==
  ASSUME NEW program, NEW l \in Nat, NEW outer \in Seq(Nat)
  PROVE  /\ FunctionsOpen(program, outer) \in Nat
         /\ program[l].op = "function" =>
              FunctionsOpen(program, Around(program, l, outer)) = FunctionsOpen(program, outer) + 1
         /\ program[l].op \notin {"function", "close"} =>
              FunctionsOpen(program, Around(program, l, outer)) = FunctionsOpen(program, outer)
         /\ program[l].op = "close" /\ outer # << >> =>
              FunctionsOpen(program, Around(program, l, outer)) =
                FunctionsOpen(program, outer) - IF program[Last(outer)].op = "function" THEN 1 ELSE 0
<1>1. /\ FunctionsOpen(program, outer) \in Nat
      /\ FunctionsOpen(program, Append(outer, l)) =
           FunctionsOpen(program, outer) + IF program[l].op = "function" THEN 1 ELSE 0
  <2>. DEFINE deeper == Append(outer, l)
  <2>1. /\ deeper \in Seq(Nat) /\ Len(deeper) = Len(outer) + 1 /\ deeper[Len(deeper)] = l
        /\ \A n \in 1 .. Len(outer) : deeper[n] = outer[n]
    OBVIOUS
  <2>. HIDE DEF deeper
  <2>2. /\ FunctionsOpen(program, outer) \in Nat
        /\ FunctionsOpen(program, deeper) = FunctionsOpen(program, outer) + IF program[l].op = "function" THEN 1 ELSE 0
    BY <2>1, FunctionsPushed
  <2>. QED BY <2>2 DEF deeper
<1>2. ASSUME outer # << >>
      PROVE  FunctionsOpen(program, Front(outer)) =
               FunctionsOpen(program, outer) - IF program[Last(outer)].op = "function" THEN 1 ELSE 0
  <2>1. /\ Front(outer) \in Seq(Nat) /\ Len(Front(outer)) = Len(outer) - 1 /\ Len(outer) - 1 \in Nat
        /\ \A n \in 1 .. Len(outer) - 1 : Front(outer)[n] = outer[n]
    BY <1>2, FrontIs
  <2>2. Len(outer) = Len(Front(outer)) + 1 /\ \A n \in 1 .. Len(Front(outer)) : outer[n] = Front(outer)[n]
    BY <2>1
  <2>3. /\ FunctionsOpen(program, Front(outer)) \in Nat
        /\ FunctionsOpen(program, outer) =
             FunctionsOpen(program, Front(outer)) + IF program[outer[Len(outer)]].op = "function" THEN 1 ELSE 0
    BY <2>1, <2>2, FunctionsPushed
  <2>. QED BY <2>3 DEF Last
<1>. QED BY <1>1, <1>2 DEF Around, Openers

\* Each visit with the line of its node.
WithLine(visit, l) == [f \in DOMAIN visit \union {"line"} |-> IF f = "line" THEN l ELSE visit[f]]

Lined(walk, l) == [v \in DOMAIN walk |-> WithLine(walk[v], l)]

LEMMA LeveledLined ==
  ASSUME NEW walk, IsSequence(walk), NEW line, NEW from, NEW to, Leveled(walk, from, to),
         \A n \in DOMAIN walk : "on" \in DOMAIN walk[n]
  PROVE  IsSequence(Lined(walk, line)) /\ Leveled(Lined(walk, line), from, to)
<1>. DEFINE lined_ == Lined(walk, line)
<1>1. Len(walk) \in Nat /\ DOMAIN walk = 1 .. Len(walk)
  BY DEF IsSequence
<1>2. lined_ = [n \in 1 .. Len(walk) |-> lined_[n]] /\ DOMAIN lined_ = 1 .. Len(walk)
  BY <1>1 DEF Lined
<1>3. IsSequence(lined_) /\ Len(lined_) = Len(walk)
  <2>. DEFINE S == {lined_[n] : n \in 1 .. Len(walk)}
  <2>1. lined_ \in [1 .. Len(walk) -> S]
    <3>. HIDE DEF lined_
    <3>. QED BY <1>2
  <2>2. lined_ \in Seq(S)
    <3>. HIDE DEF lined_, S
    <3>. QED BY <1>1, <2>1, SeqDef
  <2>. HIDE DEF lined_, S
  <2>3. IsSequence(lined_)
    BY <2>2, SequenceIs
  <2>4. Len(lined_) = Len(walk)
    BY <1>1, <1>2, <2>2
  <2>. QED BY <2>3, <2>4
<1>4. \A n \in 1 .. Len(walk) : lined_[n].on = walk[n].on
  <2>. SUFFICES ASSUME NEW n \in 1 .. Len(walk) PROVE lined_[n].on = walk[n].on
    OBVIOUS
  <2>1. lined_[n] = WithLine(walk[n], line) /\ "on" \in DOMAIN walk[n]
    BY <1>1 DEF Lined
  <2>2. lined_[n]["on"] = walk[n]["on"]
    BY <2>1 DEF WithLine
  <2>. QED BY <2>2
<1>5. PICK level : Levels(level, walk) /\ level[1] = from /\ level[Len(walk) + 1] = to
  BY DEF Leveled
<1>6. Levels(level, lined_)
  <2>. HIDE DEF lined_
  <2>. QED BY <1>3, <1>4, <1>5 DEF Levels
<1>. HIDE DEF lined_
<1>7. Leveled(lined_, from, to)
  BY <1>3, <1>5, <1>6 DEF Leveled
<1>. QED BY <1>3, <1>7 DEF lined_

LEMMA LeveledQuiet ==
  ASSUME NEW walk, Quiet(walk), NEW from \in Nat \ {0}
  PROVE  /\ IsSequence(walk) /\ Leveled(walk, from, from)
         /\ \A n \in DOMAIN walk : "on" \in DOMAIN walk[n]
<1>1. PICK S : walk \in Seq(S) /\ \A x \in S : QuietVisit(x)
  BY DEF Quiet
<1>2. DOMAIN walk = 1 .. Len(walk) /\ Len(walk) \in Nat /\ \A n \in 1 .. Len(walk) : QuietVisit(walk[n])
  BY <1>1
<1>. DEFINE level == [n \in 1 .. Len(walk) + 1 |-> from]
<1>3. Levels(level, walk) /\ level[1] = from /\ level[Len(walk) + 1] = from
  BY <1>2 DEF Levels, LevelAfter, QuietVisit
<1>4. Leveled(walk, from, from)
  <2>. HIDE DEF level
  <2>. QED BY <1>3 DEF Leveled
<1>. QED BY <1>1, <1>2, <1>4, SequenceIs DEF QuietVisit

\* ESLint's walk over a statement of a program.
WalkOf(program, l) ==
  IF program[l].op # "close" THEN StatementVisits(program[l])
  ELSE IF program[Last(Nest(program)[l - 1])].op = "function" THEN <<[on |-> "FunctionExit"]>> ELSE << >>

\* A function is entered and left by one visit each, an arrow function in one statement.
LEMMA LeveledOne ==
  ASSUME NEW x, NEW from \in Nat \ {0}, NEW to \in Nat, to = LevelAfter(from, x.on)
  PROVE  Leveled(<<x>>, from, to)
<1>. DEFINE one == <<x>>
            level == [n \in 1 .. 2 |-> IF n = 1 THEN from ELSE to]
<1>1. Len(one) = 1 /\ one[1] = x
  OBVIOUS
<1>. HIDE DEF one
<1>2. Levels(level, one)
  BY <1>1 DEF Levels
<1>3. level[1] = from /\ level[Len(one) + 1] = to
  BY <1>1
<1>4. Leveled(one, from, to)
  <2>. HIDE DEF level
  <2>. QED BY <1>2, <1>3 DEF Leveled
<1>. QED BY <1>4 DEF one

LEMMA StatementLevels ==
  ASSUME NEW program, NEW l \in Nat \ {0}, Nest(program)[l - 1] \in Seq(Nat),
         Nest(program)[l] = Around(program, l, Nest(program)[l - 1]),
         program[l].op = "close" => Nest(program)[l - 1] # << >>
  PROVE  /\ IsSequence(WalkOf(program, l))
         /\ \A n \in DOMAIN WalkOf(program, l) : "on" \in DOMAIN WalkOf(program, l)[n]
         /\ Leveled(WalkOf(program, l), 1 + FunctionsOpen(program, Nest(program)[l - 1]), 1 + FunctionsOpen(program, Nest(program)[l]))
<1>. DEFINE outer == Nest(program)[l - 1]
            from == 1 + FunctionsOpen(program, outer)
            to == 1 + FunctionsOpen(program, Nest(program)[l])
            walk == WalkOf(program, l)
<1>1. from \in Nat \ {0}
  BY FunctionsAround
<1>2. CASE program[l].op = "function"
  <2>. DEFINE visit == [on |-> "FunctionEnter"]
  <2>1. walk = <<visit>>
    BY <1>2 DEF WalkOf, StatementVisits
  <2>2. to = from + 1
    BY <1>1, <1>2, FunctionsAround
  <2>3. visit.on = "FunctionEnter" /\ "on" \in DOMAIN visit
    OBVIOUS
  <2>. HIDE DEF visit, from, to
  <2>4. Leveled(<<visit>>, from, to)
    BY <1>1, <2>2, <2>3, LeveledOne DEF LevelAfter, Deeper
  <2>5. IsSequence(<<visit>>) /\ \A n \in DOMAIN <<visit>> : <<visit>>[n] = visit
    BY LiteralSequences
  <2>. HIDE DEF walk
  <2>6. Leveled(walk, from, to) /\ IsSequence(walk) /\ \A n \in DOMAIN walk : "on" \in DOMAIN walk[n]
    BY <2>1, <2>3, <2>4, <2>5
  <2>. QED BY <2>6 DEF walk, from, to
<1>3. CASE program[l].op = "arrow"
  <2>. DEFINE first == [on |-> "ArrowFunctionExpression", node |-> NameOf(program[l].name)]
              second == [on |-> "FunctionExit"]
  <2>1. walk = <<first, second>>
    BY <1>3 DEF WalkOf, StatementVisits
  <2>2. to = from
    BY <1>1, <1>3, FunctionsAround
  <2>3. /\ first.on = "ArrowFunctionExpression" /\ "on" \in DOMAIN first
        /\ second.on = "FunctionExit" /\ "on" \in DOMAIN second
    OBVIOUS
  <2>. HIDE DEF first, second, from, to
  <2>4. from \in Nat /\ from + 1 \in Nat \ {0} /\ from + 1 = LevelAfter(from, first.on) /\ from = LevelAfter(from + 1, second.on)
    BY <1>1, <2>3 DEF LevelAfter, Deeper, Shallower
  <2>5. Leveled(<<first>>, from, from + 1) /\ Leveled(<<second>>, from + 1, from)
    <3>. DEFINE inside == from + 1
    <3>1. inside \in Nat \ {0} /\ inside \in Nat /\ inside = LevelAfter(from, first.on) /\ from = LevelAfter(inside, second.on)
      BY <2>4
    <3>. HIDE DEF inside
    <3>2. Leveled(<<first>>, from, inside) /\ Leveled(<<second>>, inside, from)
      BY <1>1, <2>4, <3>1, LeveledOne
    <3>. QED BY <3>2 DEF inside
  <2>6. Leveled(<<first>> \o <<second>>, from, from)
    <3>. DEFINE u == <<first>>
                v == <<second>>
                T == {first, second}
                inside == from + 1
    <3>1. u \in Seq(T) /\ v \in Seq(T)
      OBVIOUS
    <3>2. inside \in Nat /\ Leveled(u, from, inside) /\ Leveled(v, inside, from)
      BY <2>4, <2>5
    <3>. HIDE DEF u, v, T, inside
    <3>3. Leveled(u \o v, from, from)
      BY <2>4, <3>1, <3>2, LeveledConcat
    <3>. QED BY <3>3 DEF u, v
  <2>7. IsSequence(<<first, second>>) /\ \A n \in DOMAIN <<first, second>> : <<first, second>>[n] \in {first, second}
    BY LiteralSequences
  <2>8. <<first, second>> = <<first>> \o <<second>>
    BY PairIs
  <2>. HIDE DEF walk
  <2>9. Leveled(walk, from, to) /\ IsSequence(walk) /\ \A n \in DOMAIN walk : "on" \in DOMAIN walk[n]
    BY <2>1, <2>2, <2>3, <2>6, <2>7, <2>8
  <2>. QED BY <2>9 DEF walk, from, to
<1>4. CASE program[l].op = "close" /\ program[Last(outer)].op = "function"
  <2>. DEFINE visit == [on |-> "FunctionExit"]
  <2>1. walk = <<visit>>
    BY <1>4 DEF WalkOf
  <2>2. to = from - 1 /\ to \in Nat
    <3>1. FunctionsOpen(program, outer) \in Nat /\ FunctionsOpen(program, Nest(program)[l]) = FunctionsOpen(program, outer) - 1
      BY <1>4, FunctionsAround
    <3>2. FunctionsOpen(program, Nest(program)[l]) \in Nat
      BY AroundType, FunctionsAround
    <3>. QED BY <3>1, <3>2
  <2>3. visit.on = "FunctionExit" /\ "on" \in DOMAIN visit
    OBVIOUS
  <2>. HIDE DEF visit, from, to
  <2>4. Leveled(<<visit>>, from, to)
    BY <1>1, <2>2, <2>3, LeveledOne DEF LevelAfter, Deeper, Shallower
  <2>5. IsSequence(<<visit>>) /\ \A n \in DOMAIN <<visit>> : <<visit>>[n] = visit
    BY LiteralSequences
  <2>. HIDE DEF walk
  <2>6. Leveled(walk, from, to) /\ IsSequence(walk) /\ \A n \in DOMAIN walk : "on" \in DOMAIN walk[n]
    BY <2>1, <2>3, <2>4, <2>5
  <2>. QED BY <2>6 DEF walk, from, to
<1>5. CASE \/ program[l].op \notin {"function", "arrow", "close"}
           \/ program[l].op = "close" /\ program[Last(outer)].op # "function"
  <2>1. Quiet(walk)
    BY <1>5, QuietStatement, QuietNothing DEF WalkOf
  <2>2. to = from
    BY <1>1, <1>5, FunctionsAround
  <2>. HIDE DEF walk, from, to
  <2>3. Leveled(walk, from, to) /\ IsSequence(walk) /\ \A n \in DOMAIN walk : "on" \in DOMAIN walk[n]
    BY <1>1, <2>1, <2>2, LeveledQuiet
  <2>. QED BY <2>3 DEF walk, from, to
<1>. QED BY <1>2, <1>3, <1>4, <1>5

\* The walk over a program whose braces match ends where it began.
LEMMA VisitsLeveled ==
  ASSUME NEW program, IsSequence(program), Matched(program)
  PROVE  IsSequence(Visits(program)) /\ Leveled(Visits(program), 1, 0)
<1>. DEFINE N == Len(program)
            nest == Nest(program)
            parts == [l \in DOMAIN program |-> Lined(WalkOf(program, l), l)]
            exit_ == [on |-> "Program:exit", line |-> N + 1]
            T == UNION {ToSet(parts[n]) : n \in DOMAIN program} \union {exit_}
            Depth(n) == 1 + FunctionsOpen(program, nest[n])
<1>1. N \in Nat /\ DOMAIN program = 1 .. N
  BY DEF IsSequence
<1>2. /\ nest \in [0 .. N -> Seq(Nat)] /\ nest[0] = << >>
      /\ \A n \in 1 .. N : nest[n] = Around(program, n, nest[n - 1])
  BY <1>1, NestIs
<1>3. \A n \in 1 .. N : IsSequence(parts[n]) /\ Leveled(parts[n], Depth(n - 1), Depth(n))
  <2>. SUFFICES ASSUME NEW n \in 1 .. N PROVE IsSequence(parts[n]) /\ Leveled(parts[n], Depth(n - 1), Depth(n))
    OBVIOUS
  <2>1. n \in Nat \ {0} /\ n - 1 \in 0 .. N
    BY <1>1
  <2>2. nest[n - 1] \in Seq(Nat)
    <3>. HIDE DEF nest, N
    <3>. QED BY <1>2, <2>1
  <2>3. program[n].op = "close" => nest[n - 1] # << >>
    BY <1>1 DEF Matched
  <2>4. nest[n] = Around(program, n, nest[n - 1])
    BY <1>2
  <2>5. /\ IsSequence(WalkOf(program, n)) /\ Leveled(WalkOf(program, n), Depth(n - 1), Depth(n))
        /\ \A v \in DOMAIN WalkOf(program, n) : "on" \in DOMAIN WalkOf(program, n)[v]
    BY <2>1, <2>2, <2>3, <2>4, StatementLevels
  <2>6. parts[n] = Lined(WalkOf(program, n), n)
    BY <1>1
  <2>. HIDE DEF parts, Depth
  <2>. QED BY <2>5, <2>6, LeveledLined
<1>4. \A n \in 0 .. N : Depth(n) \in Nat
  <2>. SUFFICES ASSUME NEW n \in 0 .. N PROVE Depth(n) \in Nat
    OBVIOUS
  <2>1. nest[n] \in Seq(Nat)
    <3>. HIDE DEF nest, N
    <3>. QED BY <1>2
  <2>2. FunctionsOpen(program, nest[n]) \in Nat
    <3>. HIDE DEF nest
    <3>. QED BY <2>1, FunctionsAround
  <2>. QED BY <2>2
<1>5. Depth(0) = 1 /\ Depth(N) = 1
  <2>1. nest[0] = << >> /\ nest[N] = << >>
    BY <1>2 DEF Matched
  <2>2. FunctionsOpen(program, << >>) = 0
    <3>1. {n \in DOMAIN << >> : program[<< >>[n]].op = "function"} = {}
      OBVIOUS
    <3>. QED BY <3>1, FS_EmptySet DEF FunctionsOpen
  <2>. QED BY <2>1, <2>2
<1>6. parts \in Seq(Seq(T)) /\ Len(parts) = N /\ \A n \in 1 .. N : parts[n] \in Seq(T)
  <2>1. \A n \in 1 .. N : parts[n] \in Seq(T)
    <3>. SUFFICES ASSUME NEW n \in 1 .. N PROVE parts[n] \in Seq(T)
      OBVIOUS
    <3>1. parts[n] \in Seq(ToSet(parts[n])) /\ ToSet(parts[n]) \subseteq T
      <4>. HIDE DEF parts
      <4>. QED BY <1>1, <1>3 DEF IsSequence
    <3>. HIDE DEF parts, T
    <3>. QED BY <3>1, SeqMonotonic
  <2>2. parts = [n \in 1 .. N |-> parts[n]]
    BY <1>1
  <2>3. parts \in [1 .. N -> Seq(T)]
    <3>. HIDE DEF parts, T, N
    <3>. QED BY <2>1, <2>2
  <2>. HIDE DEF parts, T
  <2>. QED BY <1>1, <2>1, <2>3, SeqDef
<1>7. PICK flat \in [0 .. N -> Seq(T)] :
        /\ flat[0] = << >>
        /\ \A n \in 1 .. N : flat[n] = flat[n - 1] \o parts[n]
        /\ FlattenSeq(parts) = flat[N]
  <2>. HIDE DEF parts, T, N
  <2>. QED BY <1>6, Flattened
<1>. DEFINE S == {n \in Nat : n <= N => Leveled(flat[n], 1, Depth(n))}
<1>8. 0 \in S
  <2>1. Quiet(<< >>) /\ 1 \in Nat \ {0}
    BY QuietNothing
  <2>2. Leveled(<< >>, 1, 1)
    BY <2>1, LeveledQuiet
  <2>. QED BY <1>5, <1>7, <2>2
<1>9. ASSUME NEW n \in Nat, n \in S PROVE n + 1 \in S
  <2>. SUFFICES ASSUME n + 1 <= N PROVE Leveled(flat[n + 1], 1, Depth(n + 1))
    OBVIOUS
  <2>1. n \in 0 .. N /\ n + 1 \in 1 .. N /\ n + 1 \in 0 .. N /\ (n + 1) - 1 = n /\ Leveled(flat[n], 1, Depth(n))
    BY <1>1, <1>9
  <2>2. flat[n] \in Seq(T) /\ parts[n + 1] \in Seq(T)
    <3>. DEFINE Z == Seq(T)
    <3>1. flat \in [0 .. N -> Z] /\ \A m \in 1 .. N : parts[m] \in Z
      BY <1>6, <1>7
    <3>. HIDE DEF Z, T, parts, N
    <3>2. flat[n] \in Z /\ parts[n + 1] \in Z
      BY <2>1, <3>1
    <3>. QED BY <3>2 DEF Z
  <2>3. flat[n + 1] = flat[n] \o parts[n + 1] /\ Leveled(parts[n + 1], Depth(n), Depth(n + 1))
    <3>. HIDE DEF T, parts, N, Depth
    <3>. QED BY <1>3, <1>7, <2>1
  <2>4. Depth(n) \in Nat /\ Depth(n + 1) \in Nat
    <3>. HIDE DEF Depth, N
    <3>. QED BY <1>4, <2>1
  <2>. HIDE DEF T, parts, N, Depth
  <2>. QED BY <2>1, <2>2, <2>3, <2>4, LeveledConcat
<1>10. Leveled(flat[N], 1, 1)
  <2>1. Nat \subseteq S
    <3>. HIDE DEF S
    <3>. QED BY <1>8, <1>9, NatSetInduction
  <2>. HIDE DEF Depth
  <2>. QED BY <1>1, <1>5, <2>1
<1>11. Leveled(<<exit_>>, 1, 0) /\ <<exit_>> \in Seq(T) /\ flat[N] \in Seq(T)
  <2>1. exit_.on = "Program:exit" /\ exit_ \in T
    OBVIOUS
  <2>2. N \in 0 .. N
    BY <1>1
  <2>3. flat[N] \in Seq(T)
    <3>. HIDE DEF T, N
    <3>. QED BY <1>7, <2>2
  <2>. HIDE DEF exit_, T
  <2>4. Leveled(<<exit_>>, 1, 0)
    BY <2>1, LeveledOne DEF LevelAfter, Deeper, Shallower
  <2>. QED BY <2>1, <2>3, <2>4
<1>12. Visits(program) = flat[N] \o <<exit_>>
  <2>1. Visits(program) = FlattenSeq(parts) \o <<exit_>>
    BY DEF Visits, WalkOf, Lined, WithLine
  <2>. HIDE DEF parts, exit_, N
  <2>. QED BY <1>7, <2>1
<1>13. Leveled(flat[N] \o <<exit_>>, 1, 0) /\ IsSequence(flat[N] \o <<exit_>>)
  <2>. DEFINE u == flat[N]
              v == <<exit_>>
  <2>1. u \in Seq(T) /\ v \in Seq(T) /\ Leveled(u, 1, 1) /\ Leveled(v, 1, 0)
    BY <1>10, <1>11
  <2>2. 1 \in Nat /\ 0 \in Nat
    OBVIOUS
  <2>. HIDE DEF u, v, T
  <2>3. Leveled(u \o v, 1, 0)
    BY <2>1, <2>2, LeveledConcat
  <2>4. u \o v \in Seq(T)
    BY <2>1
  <2>5. IsSequence(u \o v)
    BY <2>4, SequenceIs
  <2>. QED BY <2>3, <2>5 DEF u, v
<1>. QED BY <1>12, <1>13

-----------------------------------------------------------------------------
(* Scopes as sequences, and the events they hold.                          *)

LEMMA SettleKeeps ==
  ASSUME NEW s, IsSequence(s), NEW names
  PROVE  /\ IsSequence(Settle(s, names)) /\ Len(Settle(s, names)) = Len(s)
         /\ Within(Settle(s, names), s)
<1>. DEFINE settled == Settle(s, names)
            T == {settled[n] : n \in DOMAIN s}
<1>1. DOMAIN s = 1 .. Len(s) /\ Len(s) \in Nat
  BY DEF IsSequence
<1>2. settled \in [1 .. Len(s) -> T] /\ DOMAIN settled = DOMAIN s
  BY <1>1 DEF Settle
<1>3. settled \in Seq(T) /\ Len(settled) = Len(s)
  <2>. HIDE DEF settled, T
  <2>. QED BY <1>1, <1>2, SeqDef
<1>4. Within(settled, s)
  BY <1>2 DEF Within, Settle
<1>5. IsSequence(settled)
  <2>. HIDE DEF settled, T
  <2>. QED BY <1>3, SequenceIs
<1>. QED BY <1>3, <1>4, <1>5

LEMMA MarkKeeps ==
  ASSUME NEW s, IsSequence(s), s # << >>, NEW name, NEW event
  PROVE  /\ IsSequence(Mark(s, name, event)) /\ Len(Mark(s, name, event)) = Len(s)
         /\ \A n \in DOMAIN Mark(s, name, event) :
              n \in DOMAIN s /\ \A p \in Mark(s, name, event)[n] : p \in s[n] \/ p.event = event
<1>. DEFINE marked == Mark(s, name, event)
            T == {marked[n] : n \in DOMAIN s}
<1>1. DOMAIN s = 1 .. Len(s) /\ Len(s) \in Nat /\ s = [n \in 1 .. Len(s) |-> s[n]]
  BY DEF IsSequence
<1>2. /\ DOMAIN marked = DOMAIN s /\ marked = [n \in DOMAIN s |-> marked[n]]
      /\ \A n \in DOMAIN s : marked[n] = IF n = Len(s) THEN Without(s[n], name) \union {[name |-> name, event |-> event]} ELSE s[n]
  BY <1>1 DEF Mark
<1>3. marked \in [1 .. Len(s) -> T]
  <2>. HIDE DEF marked
  <2>. QED BY <1>1, <1>2
<1>4. marked \in Seq(T) /\ Len(marked) = Len(s)
  <2>. HIDE DEF marked, T
  <2>. QED BY <1>1, <1>3, SeqDef
<1>5. IsSequence(marked)
  <2>. HIDE DEF marked, T
  <2>. QED BY <1>4, SequenceIs
<1>6. \A n \in DOMAIN marked : n \in DOMAIN s /\ \A p \in marked[n] : p \in s[n] \/ p.event = event
  <2>. HIDE DEF marked
  <2>. QED BY <1>2 DEF Without
<1>. QED BY <1>4, <1>5, <1>6

LEMMA EnterKeeps ==
  ASSUME NEW s, IsSequence(s)
  PROVE  IsSequence(Enter(s)) /\ Len(Enter(s)) = Len(s) + 1 /\ Within(Enter(s), s)
<1>1. IsSequence(Enter(s))
  BY Appended DEF Enter
<1>2. Len(Enter(s)) = Len(s) + 1 /\ Within(Enter(s), s)
  BY DEF Enter, IsSequence, Within
<1>. QED BY <1>1, <1>2

LEMMA ExitKeeps ==
  ASSUME NEW s, IsSequence(s), s # << >>
  PROVE  IsSequence(Exit(s)) /\ Len(Exit(s)) = Len(s) - 1 /\ Within(Exit(s), s)
<1>. DEFINE T == ToSet(s)
            m == Len(s) - 1
<1>1. s \in Seq(T) /\ Len(s) \in Nat /\ DOMAIN s = 1 .. Len(s)
  BY DEF IsSequence
<1>2. m \in Nat /\ m + 1 = Len(s)
  BY <1>1
<1>3. Exit(s) = SubSeq(s, 1, m)
  BY DEF Exit
<1>. HIDE DEF T, m
<1>4. Exit(s) \in Seq(T) /\ Len(Exit(s)) = m /\ DOMAIN Exit(s) = 1 .. m
  BY <1>1, <1>2, <1>3
<1>5. \A n \in 1 .. m : Exit(s)[n] = s[n]
  BY <1>1, <1>2, <1>3
<1>6. Within(Exit(s), s)
  BY <1>1, <1>2, <1>4, <1>5 DEF Within
<1>. QED BY <1>2, <1>4, <1>6, SequenceIs

-----------------------------------------------------------------------------
\* The rule has a scope for each function ESLint is in, and one for the file.
ScopesLevel ==
  /\ IsSequence(visits) /\ IsSequence(scopes) /\ at \in 1 .. Len(visits) + 1
  /\ \E level : Levels(level, visits) /\ level[Len(visits) + 1] = 0 /\ Len(scopes) = level[at]

EventsFromOne == \A s \in DOMAIN scopes : \A p \in scopes[s] : p.event \in 1 .. at - 1

RuleInv == ScopesLevel /\ EventsFromOne

\* Whatever a listener keeps was there, or is of the node it is called on.
Kept(new, old) ==
  \A n \in DOMAIN new : \A p \in new[n] : p.event = at \/ (n \in DOMAIN old /\ p \in old[n])

LEMMA ListenerLevels ==
  ASSUME IsSequence(scopes), scopes # << >>, Listener
  PROVE  /\ IsSequence(scopes') /\ Len(scopes') = LevelAfter(Len(scopes), visits[at].on) /\ Kept(scopes', scopes)
         /\ visits' = visits /\ at' = at + 1
<1>0. Len(scopes) \in Nat
  BY DEF IsSequence
<1>1. visits' = visits /\ at' = at + 1
  BY DEF Listener, FunctionEnter, FunctionExit, ArrowFunctionExpression, ImportDeclaration, VariableDeclarator,
         AssignmentExpression, ReturnStatement, CallExpression, ExpressionStatement, ProgramExit, Done
<1>2. CASE FunctionEnter
  <2>1. visits[at].on \in Deeper /\ scopes' = Enter(scopes)
    BY <1>2 DEF FunctionEnter, On, Deeper
  <2>. QED BY <1>1, <2>1, EnterKeeps DEF LevelAfter, Kept, Within
<1>3. CASE FunctionExit \/ ProgramExit
  <2>1. visits[at].on \in Shallower /\ visits[at].on \notin Deeper /\ scopes' = Exit(scopes)
    BY <1>3 DEF FunctionExit, ProgramExit, exitScope, On, Deeper, Shallower
  <2>. QED BY <1>1, <2>1, ExitKeeps DEF LevelAfter, Kept, Within
<1>4. CASE ArrowFunctionExpression
  <2>. DEFINE entered == Enter(scopes)
  <2>1. visits[at].on \in Deeper
    BY <1>4 DEF ArrowFunctionExpression, On, Deeper
  <2>2. IsSequence(entered) /\ Len(entered) = Len(scopes) + 1 /\ Within(entered, scopes)
    BY EnterKeeps
  <2>3. scopes' = entered \/ \E names : scopes' = Settle(entered, names)
    BY <1>4 DEF ArrowFunctionExpression, Clear
  <2>. HIDE DEF entered
  <2>4. IsSequence(scopes') /\ Len(scopes') = Len(entered) /\ Within(scopes', entered)
    <3>1. CASE scopes' = entered
      BY <2>2, <3>1 DEF Within
    <3>2. CASE \E names : scopes' = Settle(entered, names)
      BY <2>2, <3>2, SettleKeeps
    <3>. QED BY <2>3, <3>1, <3>2
  <2>. QED BY <1>1, <2>1, <2>2, <2>4 DEF LevelAfter, Kept, Within
<1>5. CASE ImportDeclaration \/ VariableDeclarator \/ AssignmentExpression \/ ReturnStatement \/ CallExpression \/ ExpressionStatement
  <2>1. visits[at].on \notin Deeper /\ visits[at].on \notin Shallower
    BY <1>5 DEF ImportDeclaration, VariableDeclarator, AssignmentExpression, ReturnStatement, CallExpression,
                ExpressionStatement, On, Deeper, Shallower
  <2>2. \/ scopes' = scopes
        \/ \E name : scopes' = Mark(scopes, name, at)
        \/ \E names : scopes' = Settle(scopes, names)
    BY <1>5 DEF ImportDeclaration, VariableDeclarator, AssignmentExpression, ReturnStatement, CallExpression,
                ExpressionStatement, Clear
  <2>3. IsSequence(scopes') /\ Len(scopes') = Len(scopes) /\ Kept(scopes', scopes)
    <3>1. CASE scopes' = scopes
      BY <3>1 DEF Kept
    <3>2. CASE \E name : scopes' = Mark(scopes, name, at)
      BY <3>2, MarkKeeps DEF Kept
    <3>3. CASE \E names : scopes' = Settle(scopes, names)
      BY <3>3, SettleKeeps DEF Kept, Within
    <3>. QED BY <2>2, <3>1, <3>2, <3>3
  <2>. QED BY <1>1, <2>1, <2>3 DEF LevelAfter
<1>. QED BY <1>2, <1>3, <1>4, <1>5 DEF Listener

LEMMA LevelsListener ==
  ASSUME RuleInv, Listener
  PROVE  RuleInv'
<1>1. IsSequence(visits) /\ IsSequence(scopes) /\ at \in 1 .. Len(visits) + 1
  BY DEF RuleInv, ScopesLevel
<1>2. PICK level : Levels(level, visits) /\ level[Len(visits) + 1] = 0 /\ Len(scopes) = level[at]
  BY DEF RuleInv, ScopesLevel
<1>3. at \in DOMAIN visits
  BY DEF Listener, FunctionEnter, FunctionExit, ArrowFunctionExpression, ImportDeclaration, VariableDeclarator,
         AssignmentExpression, ReturnStatement, CallExpression, ExpressionStatement, ProgramExit, On
<1>4. DOMAIN visits = 1 .. Len(visits) /\ Len(visits) \in Nat /\ at \in Nat
  BY <1>1 DEF IsSequence
<1>5. level[at] # 0 /\ level[at + 1] = LevelAfter(level[at], visits[at].on)
  BY <1>2, <1>3, <1>4 DEF Levels
<1>6. scopes # << >>
  BY <1>2, <1>5
<1>7. /\ IsSequence(scopes') /\ Len(scopes') = level[at + 1] /\ Kept(scopes', scopes)
      /\ visits' = visits /\ at' = at + 1
  BY <1>1, <1>2, <1>5, <1>6, ListenerLevels
<1>8. ScopesLevel'
  BY <1>1, <1>2, <1>3, <1>4, <1>7 DEF ScopesLevel
<1>9. EventsFromOne'
  <2>. SUFFICES ASSUME NEW s \in DOMAIN scopes', NEW p \in scopes'[s] PROVE p.event \in 1 .. at
    BY <1>4, <1>7 DEF EventsFromOne
  <2>1. p.event = at \/ (s \in DOMAIN scopes /\ p \in scopes[s])
    BY <1>7 DEF Kept
  <2>2. s \in DOMAIN scopes /\ p \in scopes[s] => p.event \in 1 .. at - 1
    BY DEF RuleInv, EventsFromOne
  <2>. QED BY <1>3, <1>4, <2>1, <2>2
<1>. QED BY <1>8, <1>9 DEF RuleInv

LEMMA LevelsCreate ==
  ASSUME NEW program, IsSequence(program), Matched(program), create(Visits(program))
  PROVE  RuleInv'
<1>1. visits' = Visits(program) /\ at' = 1 /\ scopes' = <<{}>>
  BY DEF create
<1>2. IsSequence(visits') /\ Leveled(visits', 1, 0)
  BY <1>1, VisitsLeveled
<1>3. IsSequence(scopes') /\ Len(scopes') = 1 /\ \A n \in DOMAIN scopes' : scopes'[n] = {}
  BY <1>1, LiteralSequences
<1>4. at' \in 1 .. Len(visits') + 1
  BY <1>1, <1>2 DEF IsSequence
<1>. QED BY <1>1, <1>2, <1>3, <1>4 DEF RuleInv, ScopesLevel, Leveled, EventsFromOne

LEMMA LevelsInit ==
  ASSUME Init
  PROVE  RuleInv
<1>. DEFINE level == [n \in 1 .. 1 |-> 0]
            nothing == << >>
<1>1. visits = nothing /\ at = 1 /\ scopes = nothing /\ Len(nothing) = 0 /\ DOMAIN nothing = {}
  BY DEF Init
<1>2. IsSequence(nothing)
  BY LiteralSequences
<1>3. level \in [1 .. 1 -> Nat] /\ level[1] = 0
  OBVIOUS
<1>. HIDE DEF level, nothing
<1>4. Levels(level, visits)
  BY <1>1, <1>3 DEF Levels
<1>. QED BY <1>1, <1>2, <1>3, <1>4 DEF RuleInv, ScopesLevel, EventsFromOne

-----------------------------------------------------------------------------
\* The scanner keeps the scope of the file until the tokens end.
BracesInv ==
  /\ IsSequence(braces)
  /\ stage # "scan" => braces = << >>
  /\ braces = << >> => i > Len(tokens)

LEMMA SameScopes ==
  /\ \A s, names : Scanner!Settle(s, names) = Settle(s, names)
  /\ \A s, name, event : Scanner!Mark(s, name, event) = Mark(s, name, event)
  /\ \A s : Scanner!Enter(s) = Enter(s) /\ Scanner!Exit(s) = Exit(s)
<1>1. \A s, names : Scanner!Settle(s, names) = Settle(s, names)
  BY DEF Scanner!Settle, Settle, Scanner!Holds, Holds
<1>2. \A s, name, event : Scanner!Mark(s, name, event) = Mark(s, name, event)
  BY DEF Scanner!Mark, Mark, Scanner!Without, Without
<1>3. \A s : Scanner!Enter(s) = Enter(s) /\ Scanner!Exit(s) = Exit(s)
  BY DEF Scanner!Enter, Enter, Scanner!Exit, Exit
<1>. QED BY <1>1, <1>2, <1>3

LEMMA RoundKeepsScope ==
  ASSUME IsSequence(braces), Scanner!Round
  PROVE  /\ IsSequence(braces') /\ tokens' = tokens
         /\ braces' = << >> => i' > Len(tokens)
<1>0. Len(braces) \in Nat /\ \A s : IsSequence(s) => (s = << >> <=> Len(s) = 0)
  BY DEF IsSequence
<1>1. tokens' = tokens
  BY DEF Scanner!Round, Scanner!OpenScope, Scanner!CloseScope, Scanner!TerminalUse, Scanner!LevelCall,
         Scanner!Skip, Scanner!EndOfFile, Scanner!Unchanged
<1>2. CASE Scanner!EndOfFile
  BY <1>1, <1>2, LiteralSequences DEF Scanner!EndOfFile
<1>3. CASE Scanner!OpenScope
  <2>1. braces' = Enter(braces)
    BY <1>3, SameScopes DEF Scanner!OpenScope
  <2>2. IsSequence(braces') /\ Len(braces') = Len(braces) + 1
    BY <2>1, EnterKeeps
  <2>. QED BY <1>0, <1>1, <2>2
<1>4. CASE Scanner!CloseScope
  <2>1. braces # << >> /\ (braces' = braces \/ (Len(braces) > 1 /\ braces' = Exit(braces)))
    BY <1>4, SameScopes DEF Scanner!CloseScope, Scanner!Scanned
  <2>2. IsSequence(braces') /\ Len(braces') > 0
    BY <1>0, <2>1, ExitKeeps
  <2>. QED BY <1>0, <1>1, <2>2
<1>5. CASE Scanner!TerminalUse
  <2>1. braces # << >>
    BY <1>5 DEF Scanner!TerminalUse, Scanner!Scanned
  <2>2. \E names, more : braces' \in {braces, Settle(braces, names), Settle(Settle(braces, names), more)}
    BY <1>5, SameScopes DEF Scanner!TerminalUse, Scanner!Clear
  <2>3. IsSequence(braces') /\ Len(braces') = Len(braces)
    BY <2>2, SettleKeeps
  <2>. QED BY <1>0, <1>1, <2>1, <2>3
<1>6. CASE Scanner!LevelCall
  <2>1. braces # << >>
    BY <1>6 DEF Scanner!LevelCall, Scanner!Scanned
  <2>2. \E name, event : braces' \in {braces, Mark(braces, name, event)}
    BY <1>6, SameScopes DEF Scanner!LevelCall
  <2>3. IsSequence(braces') /\ Len(braces') = Len(braces)
    BY <2>1, <2>2, MarkKeeps
  <2>. QED BY <1>0, <1>1, <2>1, <2>3
<1>7. CASE Scanner!Skip
  BY <1>1, <1>7 DEF Scanner!Skip, Scanner!Scanned
<1>. QED BY <1>2, <1>3, <1>4, <1>5, <1>6, <1>7 DEF Scanner!Round

TypeInv ==
  /\ RunInv /\ RuleInv /\ BracesInv
  /\ exit \in {NoExit, 0, 1}

\* What ESLint walks is parsed, and its braces match.
LEMMA WalkedMatches ==
  ASSUME RunInv, AtFile, LintedByEslint(File)
  PROVE  Parses(File) /\ IsSequence(File.program) /\ Matched(File.program)
<1>1. repo \in Repository /\ File \in SourceFile /\ File.kind \in {"js", "ts"}
  BY FileType DEF RunInv, Place, AtFile, File, LintedByEslint
<1>2. IsSequence(File.program)
  BY <1>1, SequenceIs DEF SourceFile
<1>3. Matched(File.program)
  BY <1>1, RepositoryAssumption DEF WellFormed, AtFile, File
<1>4. Parses(File)
  BY <1>1, LintedMeans, ParserOfTypeScript DEF Parses
<1>. QED BY <1>2, <1>3, <1>4

LEMMA TypeInit == LintInit => TypeInv
<1>. SUFFICES ASSUME LintInit PROVE TypeInv
  OBVIOUS
<1>1. RunInv
  BY RunInit
<1>2. RuleInv
  BY LevelsInit DEF LintInit
<1>3. BracesInv /\ exit \in {NoExit, 0, 1}
  <2>1. braces = << >> /\ tokens = << >> /\ i = 1
    BY DEF LintInit, Scanner!Init
  <2>. QED BY <2>1, LiteralSequences DEF LintInit, BracesInv
<1>. QED BY <1>1, <1>2, <1>3 DEF TypeInv

LEMMA TypeNext ==
  ASSUME TypeInv, [LintNext]_allVars
  PROVE  TypeInv'
<1>0. RunInv'
  BY RunNext DEF TypeInv
<1>1. ASSUME UNCHANGED vars PROVE RuleInv'
  <2>1. visits' = visits /\ at' = at /\ scopes' = scopes
    BY <1>1 DEF vars
  <2>. QED BY <2>1 DEF TypeInv, RuleInv, ScopesLevel, EventsFromOne
<1>2. ASSUME UNCHANGED scannerVars, stage' = "scan" <=> stage = "scan" PROVE BracesInv'
  <2>1. braces' = braces /\ tokens' = tokens /\ i' = i
    BY <1>2 DEF scannerVars
  <2>. QED BY <1>2, <2>1 DEF TypeInv, BracesInv
<1>3. CASE EslintSkips \/ EslintDone \/ StartFormat \/ FormatStep \/ StartScanner \/ ScannerSkips \/ Finish \/ Exited
           \/ UNCHANGED allVars
  <2>1. UNCHANGED <<vars, scannerVars>>
    BY <1>3 DEF EslintSkips, EslintDone, StartFormat, FormatStep, StartScanner, ScannerSkips, Finish, Exited, allVars
  <2>2. stage' = "scan" <=> stage = "scan"
    BY <1>3 DEF EslintSkips, EslintDone, StartFormat, FormatStep, StartScanner, ScannerSkips, Finish, Exited, allVars, lintVars
  <2>3. exit' = exit \/ exit' \in {0, 1}
    BY <1>3 DEF EslintSkips, EslintDone, StartFormat, FormatStep, StartScanner, ScannerSkips, Finish, Exited, allVars, lintVars,
                Report!exitStatus
  <2>. QED BY <1>0, <1>1, <1>2, <2>1, <2>2, <2>3 DEF TypeInv
<1>4. CASE EslintWalks
  <2>1. /\ AtFile /\ LintedByEslint(File) /\ stage = "eslint" /\ stage' = "rule"
        /\ UNCHANGED scannerVars /\ exit' = exit
    BY <1>4 DEF EslintWalks
  <2>2. Parses(File) /\ IsSequence(File.program) /\ Matched(File.program)
    BY <2>1, WalkedMatches DEF TypeInv
  <2>3. create(Visits(File.program))
    BY <1>4, <2>2 DEF EslintWalks
  <2>4. RuleInv'
    BY <2>2, <2>3, LevelsCreate
  <2>. QED BY <1>0, <1>2, <2>1, <2>4 DEF TypeInv
<1>5. CASE EslintListener
  <2>1. Listener /\ UNCHANGED scannerVars /\ stage' = stage /\ exit' = exit
    BY <1>5 DEF EslintListener, lintVars
  <2>. QED BY <1>0, <1>2, <2>1, LevelsListener DEF TypeInv
<1>6. CASE ScannerReads
  <2>1. stage' = "scan" /\ exit' = exit /\ UNCHANGED vars /\ braces' = <<{}>>
    BY <1>6 DEF ScannerReads, Scanner!analyzeSource
  <2>2. IsSequence(braces') /\ braces' # << >>
    BY <2>1, LiteralSequences
  <2>. QED BY <1>0, <1>1, <2>1, <2>2 DEF TypeInv, BracesInv
<1>7. CASE ScannerRound
  <2>1. stage = "scan" /\ stage' = stage /\ exit' = exit /\ UNCHANGED vars /\ Scanner!Round
    BY <1>7 DEF ScannerRound, lintVars
  <2>2. IsSequence(braces') /\ tokens' = tokens /\ (braces' = << >> => i' > Len(tokens))
    BY <2>1, RoundKeepsScope DEF TypeInv, BracesInv
  <2>. QED BY <1>0, <1>1, <2>1, <2>2 DEF TypeInv, BracesInv
<1>8. CASE ScannerDone
  <2>1. stage' = "files" /\ exit' = exit /\ UNCHANGED <<vars, scannerVars>> /\ braces = << >>
    BY <1>8 DEF ScannerDone, Scanner!Scanned
  <2>2. braces' = braces /\ tokens' = tokens /\ i' = i
    BY <2>1 DEF scannerVars
  <2>. QED BY <1>0, <1>1, <2>1, <2>2 DEF TypeInv, BracesInv
<1>. QED BY <1>3, <1>4, <1>5, <1>6, <1>7, <1>8 DEF LintNext

LEMMA TypeHolds ==
  ASSUME TypeInv
  PROVE  TypeOK
<1>1. /\ stage \in {"eslint", "rule", "format", "files", "scan", "done"}
      /\ k \in 1 .. Len(repo.files) + 1
  BY DEF TypeInv, RunInv, Place
<1>2. \A n \in DOMAIN linted : linted[n].file < k \/ stage \notin {"eslint", "rule"}
  BY DEF TypeInv, RunInv, LintedSoFar, ESLintStages, ToSet
<1>3. Len(scopes) > 0 <=> ~Checked
  <2>1. PICK level : Levels(level, visits) /\ level[Len(visits) + 1] = 0 /\ Len(scopes) = level[at]
    BY DEF TypeInv, RuleInv, ScopesLevel
  <2>2. Len(visits) \in Nat /\ at \in 1 .. Len(visits) + 1
    BY DEF TypeInv, RuleInv, ScopesLevel, IsSequence
  <2>3. CASE at = Len(visits) + 1
    BY <2>1, <2>2, <2>3 DEF Checked
  <2>4. CASE at \in 1 .. Len(visits)
    <3>1. level[at] \in Nat /\ level[at] # 0
      BY <2>1, <2>2, <2>4 DEF Levels
    <3>. QED BY <2>1, <2>2, <2>4, <3>1 DEF Checked
  <2>. QED BY <2>2, <2>3, <2>4
<1>4. \A s \in DOMAIN scopes : \A p \in scopes[s] : p.event \in 1 .. at - 1
  BY DEF TypeInv, RuleInv, EventsFromOne
<1>5. (stage # "scan" => Scanner!Scanned) /\ (Scanner!Scanned => i > Len(tokens)) /\ exit \in {NoExit, 0, 1}
  BY DEF TypeInv, BracesInv, Scanner!Scanned
<1>. QED BY <1>1, <1>2, <1>3, <1>4, <1>5 DEF TypeOK

\* The state of a run is well formed at every moment: the rule has a scope exactly while
\* it walks and every event in one is of a visit made, the scanner gives up the scope of a
\* file only where the file ends, and the exit is one of lint.sh's. This holds for every
\* repository whose JavaScript has matching braces, however those of the others match.
THEOREM TypeCorrect == LintSpec => []TypeOK
<1>1. LintSpec => []TypeInv
  BY TypeInit, TypeNext, PTL DEF LintSpec
<1>. QED BY <1>1, TypeHolds, PTL

-----------------------------------------------------------------------------
(* What the scanner reads of a text is a sequence of tokens again.         *)

\* A set of numbers that is not empty has a least one, and a greatest if it is bounded.
LEMMA Least ==
  ASSUME NEW S, S \subseteq Nat, S # {}
  PROVE  \E n \in S : \A m \in S : n <= m
<1>. DEFINE Below == {ss \in Nat \X Nat : ss[1] < ss[2]}
<1>1. IsWellFoundedOn(Below, Nat)
  BY NatLessThanWellFounded DEF OpToRel
<1>. HIDE DEF Below
<1>2. PICK n \in S : \A m \in S : ~(<<m, n>> \in Below)
  BY <1>1, WFMin
<1>3. \A m \in S : ~(m < n)
  BY <1>2 DEF Below
<1>. QED BY <1>3

LEMMA Greatest ==
  ASSUME NEW S, NEW high \in Nat, S \subseteq 0 .. high, S # {}
  PROVE  \E n \in S : \A m \in S : m <= n
<1>. DEFINE T == {high - n : n \in S}
<1>1. T \subseteq Nat /\ T # {}
  <2>1. \A n \in S : high - n \in Nat
    OBVIOUS
  <2>2. PICK n \in S : TRUE
    OBVIOUS
  <2>3. high - n \in T
    OBVIOUS
  <2>. QED BY <2>1, <2>3
<1>2. PICK t \in T : \A u \in T : t <= u
  <2>. HIDE DEF T
  <2>. QED BY <1>1, Least
<1>3. PICK n \in S : t = high - n
  OBVIOUS
<1>4. ASSUME NEW m \in S PROVE m <= n
  <2>1. high - m \in T
    OBVIOUS
  <2>2. t <= high - m
    <3>. HIDE DEF T
    <3>. QED BY <1>2, <2>1
  <2>. QED BY <1>3, <2>2
<1>. QED BY <1>4

-----------------------------------------------------------------------------
\* A string ends after the quote that opens it.
LEMMA StringEnds ==
  ASSUME NEW source, IsSequence(source), NEW p \in DOMAIN source
  PROVE  Scanner!StringEnd(source, p) \in p + 1 .. Len(source) + 1
<1>. DEFINE N == Len(source)
            D == 1 .. N + 1
            rank == [q \in D |-> N + 1 - q]
            Body(g, q) ==
              IF q > N THEN q
              ELSE IF source[q] = source[p] THEN q + 1
              ELSE IF source[q] = "\\" /\ q < N THEN g[q + 2]
              ELSE IF source[q] = "\n" /\ source[p] # "backquote" THEN q
              ELSE g[q + 1]
            Eq(f) == f = [q \in D |-> Body(f, q)]
            From == CHOOSE f : Eq(f)
            escapes == {q \in D : q < N /\ source[q] = "\\"}
            stop == {q \in D : q > N \/ source[q] = source[p] \/ (q \notin escapes /\ source[q] = "\n" /\ source[p] # "backquote")}
            base == [q \in D |-> IF q <= N /\ source[q] = source[p] THEN q + 1 ELSE q]
            next == [q \in D |-> IF q \in escapes THEN q + 2 ELSE q + 1]
            step == [q \in D |-> [v \in D |-> v]]
<1>1. N \in Nat /\ DOMAIN source = 1 .. N
  BY DEF IsSequence
<1>2. \A d \in D \ stop : next[d] \in D /\ rank[next[d]] < rank[d] /\ \A v \in D : step[d][v] \in D
  BY <1>1
<1>3. \A d \in D \intersect stop : base[d] \in D
  BY <1>1
<1>4. rank \in [D -> 0 .. N + 1] /\ N + 1 \in Nat
  BY <1>1
<1>5. PICK f \in [D -> D] : Follows(f, D, stop, base, next, step)
  <2>. HIDE DEF D, rank, stop, base, next, step
  <2>. QED BY <1>2, <1>3, <1>4, Recursion
<1>6. \A q \in D : f[q] = Body(f, q)
  <2>. SUFFICES ASSUME NEW q \in D PROVE f[q] = Body(f, q)
    OBVIOUS
  <2>1. f[q] = IF q \in stop THEN base[q] ELSE step[q][f[next[q]]]
    <3>. HIDE DEF D, stop, base, next, step
    <3>. QED BY <1>5 DEF Follows
  <2>2. q \notin stop => f[next[q]] \in D /\ step[q][f[next[q]]] = f[next[q]]
    BY <1>2
  <2>. QED BY <1>1, <2>1, <2>2
<1>7. Eq(From)
  <2>1. Eq(f)
    <3>1. f = [q \in D |-> f[q]]
      OBVIOUS
    <3>. HIDE DEF Body, D
    <3>. QED BY <1>6, <3>1
  <2>. HIDE DEF Eq
  <2>. QED BY <2>1
<1>8. Scanner!StringEnd(source, p) = From[p + 1]
  BY DEF Scanner!StringEnd
<1>9. \A q \in D : From[q] = Body(From, q)
  <2>. HIDE DEF From, Body
  <2>. QED BY <1>7
<1>. HIDE DEF From
<1>. DEFINE S == {q \in D : From[q] \in q .. N + 1}
<1>10. ASSUME NEW q \in D, \A c \in D : rank[c] < rank[q] => c \in S PROVE q \in S
  <2>1. \A c \in D : c > q => From[c] \in c .. N + 1
    BY <1>1, <1>10
  <2>2. From[q] = Body(From, q)
    BY <1>9
  <2>. QED BY <1>1, <2>1, <2>2
<1>11. D \subseteq S
  <2>. HIDE DEF D, S, rank
  <2>. QED BY <1>4, <1>10, RankInduction
<1>12. p + 1 \in D
  BY <1>1
<1>. QED BY <1>8, <1>11, <1>12

\* A comment ends at the end of its line or after its closing mark.
LEMMA CommentsEnd ==
  ASSUME NEW source, IsSequence(source), NEW p \in DOMAIN source, Scanner!At(source, p, "/")
  PROVE  /\ Scanner!LineCommentEnd(source, p) \in p + 1 .. Len(source) + 1
         /\ Scanner!At(source, p + 1, "*") => Scanner!BlockCommentEnd(source, p) \in p + 1 .. Len(source) + 1
<1>1. Len(source) \in Nat /\ DOMAIN source = 1 .. Len(source) /\ source[p] = "/"
  BY DEF IsSequence, Scanner!At
<1>2. Scanner!LineCommentEnd(source, p) \in p + 1 .. Len(source) + 1
  <2>. DEFINE found == {q \in p .. Len(source) : source[q] = "\n"}
              first == CHOOSE q \in found : \A j \in found : q <= j
  <2>1. Scanner!LineCommentEnd(source, p) = IF found = {} THEN Len(source) + 1 ELSE first
    BY DEF Scanner!LineCommentEnd, Scanner!FirstFrom
  <2>2. found \subseteq p + 1 .. Len(source)
    BY <1>1
  <2>3. found # {} => first \in found
    <3>1. found \subseteq Nat
      BY <1>1, <2>2
    <3>. HIDE DEF found
    <3>. QED BY <3>1, Least
  <2>4. first \in found => first \in p + 1 .. Len(source) + 1
    <3>. HIDE DEF found, first
    <3>. QED BY <1>1, <2>2
  <2>5. Len(source) + 1 \in p + 1 .. Len(source) + 1
    BY <1>1
  <2>. HIDE DEF found, first
  <2>. QED BY <2>1, <2>3, <2>4, <2>5
<1>3. ASSUME Scanner!At(source, p + 1, "*")
      PROVE  Scanner!BlockCommentEnd(source, p) \in p + 1 .. Len(source) + 1
  <2>. DEFINE found == {q \in p + 2 .. Len(source) : source[q] = "*" /\ Scanner!At(source, q + 1, "/")}
              first == CHOOSE q \in found : \A j \in found : q <= j
              close == IF found = {} THEN Len(source) + 1 ELSE first
  <2>1. Scanner!BlockCommentEnd(source, p) = IF close > Len(source) THEN close ELSE close + 2
    BY DEF Scanner!BlockCommentEnd, Scanner!FirstFrom
  <2>2. \A q \in found : q \in p + 2 .. Len(source) /\ q + 1 <= Len(source)
    BY <1>1 DEF Scanner!At
  <2>3. found # {} => first \in found
    <3>1. found \subseteq Nat
      BY <1>1
    <3>. HIDE DEF found
    <3>. QED BY <3>1, Least
  <2>4. p + 1 <= Len(source)
    BY <1>1, <1>3 DEF Scanner!At
  <2>. HIDE DEF found, first
  <2>. QED BY <1>1, <2>1, <2>2, <2>3, <2>4
<1>. QED BY <1>2, <1>3

\* What a round of the tokenizer's loop reads is behind it, and at most one token.
LEMMA LexemeRead ==
  ASSUME NEW source, IsSequence(source), NEW p \in DOMAIN source
  PROVE  /\ Scanner!Lexeme(source, p).next \in p + 1 .. Len(source) + 1
         /\ IsSequence(Scanner!Lexeme(source, p).token)
<1>. DEFINE line == Scanner!Line(source, p)
            Tok(type, value) == <<[type |-> type, value |-> value, line |-> line]>>
            Lex(next, token) == [next |-> next, token |-> token]
            Arrow == Scanner!At(source, p, "=") /\ Scanner!At(source, p + 1, ">")
<1>1. Len(source) \in Nat /\ DOMAIN source = 1 .. Len(source)
  BY DEF IsSequence
<1>. HIDE DEF line
<1>2. \A type, value : IsSequence(Tok(type, value))
  BY LiteralSequences
<1>3. IsSequence(<< >>)
  BY LiteralSequences
<1>12. \A n \in p + 1 .. Len(source) + 1 : \A token :
        IsSequence(token) => Lex(n, token).next \in p + 1 .. Len(source) + 1 /\ IsSequence(Lex(n, token).token)
  OBVIOUS
<1>. HIDE DEF Tok
<1>4. CASE Scanner!At(source, p, "/") /\ Scanner!At(source, p + 1, "/")
  <2>1. Scanner!Lexeme(source, p) = Lex(Scanner!LineCommentEnd(source, p), << >>)
    BY <1>1, <1>4 DEF Scanner!Lexeme, Scanner!At, Scanner!Quote, Scanner!Punctuation, Words
  <2>. HIDE DEF Lex
  <2>. QED BY <1>12, <1>3, <1>4, <2>1, CommentsEnd
<1>5. CASE Scanner!At(source, p, "/") /\ Scanner!At(source, p + 1, "*")
  <2>1. Scanner!Lexeme(source, p) = Lex(Scanner!BlockCommentEnd(source, p), << >>)
    BY <1>1, <1>5 DEF Scanner!Lexeme, Scanner!At, Scanner!Quote, Scanner!Punctuation, Words
  <2>. HIDE DEF Lex
  <2>. QED BY <1>12, <1>3, <1>5, <2>1, CommentsEnd
<1>6. CASE source[p] \in Scanner!Quote
  <2>1. Scanner!Lexeme(source, p) = Lex(Scanner!StringEnd(source, p), Tok("string", ""))
    BY <1>1, <1>6 DEF Scanner!Lexeme, Scanner!At, Scanner!Quote, Scanner!Punctuation, Words, Tok, line
  <2>3. IsSequence(Tok("string", ""))
    BY <1>2
  <2>. HIDE DEF Lex
  <2>. QED BY <1>12, <2>3, <2>1, StringEnds
<1>7. CASE Scanner!At(source, p, "|") /\ Scanner!At(source, p + 1, ">")
  <2>1. Scanner!Lexeme(source, p) = Lex(p + 2, Tok("|>", ""))
    BY <1>1, <1>7 DEF Scanner!Lexeme, Scanner!At, Scanner!Quote, Scanner!Punctuation, Words, Tok, line
  <2>2. p + 2 \in p + 1 .. Len(source) + 1
    BY <1>1, <1>7 DEF Scanner!At
  <2>3. IsSequence(Tok("|>", ""))
    BY <1>2
  <2>. HIDE DEF Lex
  <2>. QED BY <1>12, <2>3, <2>1, <2>2
<1>8. CASE Arrow
  <2>1. Scanner!Lexeme(source, p) = Lex(p + 2, Tok("=>", ""))
    BY <1>1, <1>8 DEF Scanner!Lexeme, Scanner!At, Scanner!Quote, Scanner!Punctuation, Words, Tok, line
  <2>2. p + 2 \in p + 1 .. Len(source) + 1
    BY <1>1, <1>8 DEF Scanner!At
  <2>3. IsSequence(Tok("=>", ""))
    BY <1>2
  <2>. HIDE DEF Lex
  <2>. QED BY <1>12, <2>3, <2>1, <2>2
<1>9. CASE source[p] \in Words
  <2>1. Scanner!Lexeme(source, p) = Lex(p + 1, Tok("ident", source[p]))
    BY <1>1, <1>9 DEF Scanner!Lexeme, Scanner!At, Scanner!Quote, Scanner!Punctuation, Words, Tok, line
  <2>3. IsSequence(Tok("ident", source[p]))
    BY <1>2
  <2>4. p + 1 \in p + 1 .. Len(source) + 1
    BY <1>1
  <2>. HIDE DEF Lex
  <2>. QED BY <1>12, <2>1, <2>3, <2>4
<1>10. CASE source[p] \in Scanner!Punctuation /\ ~Arrow
  <2>1. Scanner!Lexeme(source, p) = Lex(p + 1, Tok(source[p], ""))
    BY <1>1, <1>10 DEF Scanner!Lexeme, Scanner!At, Scanner!Quote, Scanner!Punctuation, Words, Tok, line
  <2>3. IsSequence(Tok(source[p], ""))
    BY <1>2
  <2>4. p + 1 \in p + 1 .. Len(source) + 1
    BY <1>1
  <2>. HIDE DEF Lex
  <2>. QED BY <1>12, <2>1, <2>3, <2>4
<1>11. CASE /\ ~(Scanner!At(source, p, "/") /\ Scanner!At(source, p + 1, "/"))
           /\ ~(Scanner!At(source, p, "/") /\ Scanner!At(source, p + 1, "*"))
           /\ source[p] \notin Scanner!Quote /\ ~(Scanner!At(source, p, "|") /\ Scanner!At(source, p + 1, ">"))
           /\ ~Arrow /\ source[p] \notin Words /\ source[p] \notin Scanner!Punctuation
  <2>1. Scanner!Lexeme(source, p) = Lex(p + 1, << >>)
    BY <1>11 DEF Scanner!Lexeme
  <2>2. p + 1 \in p + 1 .. Len(source) + 1
    BY <1>1
  <2>. HIDE DEF Lex
  <2>. QED BY <1>12, <1>3, <2>1, <2>2
<1>. HIDE DEF Arrow
<1>. QED BY <1>4, <1>5, <1>6, <1>7, <1>8, <1>9, <1>10, <1>11

\* The tokenizer goes through every text, and makes tokens of it.
LEMMA TokensOf ==
  ASSUME NEW source, IsSequence(source)
  PROVE  IsSequence(Scanner!tokenize(source))
<1>. DEFINE N == Len(source)
            D == 1 .. N + 1
            U == UNION {ToSet(Scanner!Lexeme(source, p).token) : p \in 1 .. N}
            V == Seq(U)
            rank == [p \in D |-> N + 1 - p]
            Body(g, p) == IF p > N THEN << >> ELSE Scanner!Lexeme(source, p).token \o g[Scanner!Lexeme(source, p).next]
            Eq(f) == f = [p \in D |-> Body(f, p)]
            From == CHOOSE f : Eq(f)
            next == [p \in D |-> Scanner!Lexeme(source, p).next]
            step == [p \in D |-> [v \in V |-> Scanner!Lexeme(source, p).token \o v]]
            base == [p \in D |-> << >>]
            stop == {N + 1}
<1>1. N \in Nat /\ DOMAIN source = 1 .. N
  BY DEF IsSequence
<1>2. \A p \in D \ stop : /\ next[p] \in D /\ next[p] > p /\ next[p] = Scanner!Lexeme(source, p).next
                          /\ Scanner!Lexeme(source, p).token \in V
  <2>. SUFFICES ASSUME NEW p \in 1 .. N PROVE /\ Scanner!Lexeme(source, p).next \in D /\ Scanner!Lexeme(source, p).next > p
                                             /\ Scanner!Lexeme(source, p).token \in V
    BY <1>1
  <2>1. Scanner!Lexeme(source, p).next \in D /\ Scanner!Lexeme(source, p).next > p /\ IsSequence(Scanner!Lexeme(source, p).token)
    BY <1>1, LexemeRead
  <2>2. ToSet(Scanner!Lexeme(source, p).token) \subseteq U
    OBVIOUS
  <2>3. Scanner!Lexeme(source, p).token \in Seq(ToSet(Scanner!Lexeme(source, p).token))
    BY <2>1 DEF IsSequence
  <2>4. Scanner!Lexeme(source, p).token \in V
    <3>. HIDE DEF U
    <3>. QED BY <2>2, <2>3, SeqMonotonic
  <2>. QED BY <2>1, <2>4
<1>3. \A p \in D \ stop : \A v \in V : step[p][v] = Scanner!Lexeme(source, p).token \o v /\ step[p][v] \in V
  BY <1>2
<1>4. rank \in [D -> 0 .. N + 1] /\ N + 1 \in Nat
  BY <1>1
<1>5. \A p \in D \ stop : rank[next[p]] < rank[p]
  <2>1. \A p \in D \ stop : next[p] \in D /\ next[p] > p
    BY <1>2
  <2>. HIDE DEF next, V, U
  <2>. QED BY <1>1, <2>1
<1>6. \A p \in D \intersect stop : base[p] \in V
  OBVIOUS
<1>7. PICK f \in [D -> V] : Follows(f, D, stop, base, next, step)
  <2>. HIDE DEF D, rank, stop, base, next, step, V
  <2>. QED BY <1>2, <1>3, <1>4, <1>5, <1>6, Recursion
<1>8. \A p \in D : f[p] = Body(f, p)
  <2>. SUFFICES ASSUME NEW p \in D PROVE f[p] = Body(f, p)
    OBVIOUS
  <2>1. f[p] = IF p \in stop THEN base[p] ELSE step[p][f[next[p]]]
    <3>. HIDE DEF D, stop, base, next, step
    <3>. QED BY <1>7 DEF Follows
  <2>2. p \notin stop => step[p][f[next[p]]] = Scanner!Lexeme(source, p).token \o f[Scanner!Lexeme(source, p).next]
    <3>. HIDE DEF D, stop, base, next, step, V
    <3>. QED BY <1>2, <1>3, <1>7
  <2>3. p \in stop <=> p > N
    BY <1>1
  <2>4. base[p] = << >>
    OBVIOUS
  <2>. HIDE DEF D, stop, base, next, step, V
  <2>. QED BY <2>1, <2>2, <2>3, <2>4
<1>9. Eq(From)
  <2>1. Eq(f)
    <3>1. f = [p \in D |-> f[p]]
      OBVIOUS
    <3>. HIDE DEF Body, D
    <3>. QED BY <1>8, <3>1
  <2>. HIDE DEF Eq
  <2>. QED BY <2>1
<1>10. Scanner!tokenize(source) = From[1]
  BY DEF Scanner!tokenize
<1>11. \A p \in D : From[p] = Body(From, p)
  <2>. HIDE DEF From, Body
  <2>. QED BY <1>9
<1>. HIDE DEF From
<1>. DEFINE S == {p \in D : From[p] \in V}
<1>12. ASSUME NEW p \in D, \A c \in D : rank[c] < rank[p] => c \in S PROVE p \in S
  <2>1. From[p] = Body(From, p)
    BY <1>11
  <2>2. CASE p \in stop
    <3>1. From[p] = << >>
      BY <1>1, <2>1, <2>2
    <3>2. << >> \in V
      OBVIOUS
    <3>. HIDE DEF V
    <3>. QED BY <3>1, <3>2
  <2>3. CASE p \notin stop
    <3>1. p \in D \ stop /\ ~(p > N)
      BY <1>1, <2>3
    <3>2. next[p] \in D /\ rank[next[p]] < rank[p]
      <4>. HIDE DEF next, rank, D, stop
      <4>. QED BY <1>2, <1>5, <3>1
    <3>3. next[p] \in S
      <4>. HIDE DEF next, rank, S, D
      <4>. QED BY <1>12, <3>2
    <3>4. Scanner!Lexeme(source, p).token \in V /\ next[p] = Scanner!Lexeme(source, p).next
      <4>. HIDE DEF next, D, stop, V
      <4>. QED BY <1>2, <3>1
    <3>5. From[p] = Scanner!Lexeme(source, p).token \o From[next[p]]
      <4>. HIDE DEF next, stop, D
      <4>. QED BY <2>1, <3>1, <3>4
    <3>6. From[next[p]] \in V
      <4>. HIDE DEF next, D, V
      <4>. QED BY <3>3
    <3>7. From[p] \in V
      <4>. HIDE DEF next, D
      <4>. QED BY <3>4, <3>5, <3>6
    <3>. HIDE DEF V
    <3>. QED BY <3>7
  <2>. QED BY <2>2, <2>3
<1>13. D \subseteq S
  <2>. HIDE DEF D, S, rank, V
  <2>. QED BY <1>4, <1>12, RankInduction
<1>14. 1 \in D
  BY <1>1
<1>15. Scanner!tokenize(source) \in V
  <2>. HIDE DEF V, D
  <2>. QED BY <1>10, <1>13, <1>14
<1>. HIDE DEF U
<1>. QED BY <1>15, SequenceIs

-----------------------------------------------------------------------------
(* The text of a program, statement by statement.                          *)

LEMMA TupleIs ==
  ASSUME NEW t, NEW n \in Nat, DOMAIN t = 1 .. n, t = [m \in 1 .. n |-> t[m]]
  PROVE  IsSequence(t)
<1>. DEFINE S == {t[m] : m \in 1 .. n}
<1>1. t \in [1 .. n -> S]
  OBVIOUS
<1>2. t \in Seq(S)
  <2>. HIDE DEF S
  <2>. QED BY <1>1, SeqDef
<1>. HIDE DEF S
<1>. QED BY <1>2, SequenceIs

LEMMA Joined ==
  ASSUME NEW u, NEW v, IsSequence(u), IsSequence(v)
  PROVE  IsSequence(u \o v)
<1>. DEFINE S == ToSet(u) \union ToSet(v)
<1>1. u \in Seq(S) /\ v \in Seq(S)
  BY SeqMonotonic DEF IsSequence
<1>2. u \o v \in Seq(S)
  <2>. HIDE DEF S
  <2>. QED BY <1>1
<1>. HIDE DEF S
<1>. QED BY <1>2, SequenceIs

\* The text of a statement is a sequence.
\* Every statement that has a text has one that can be read.
LEMMA StatementTextIs ==
  ASSUME NEW s, s.op \in Written, NEW lang
  PROVE  IsSequence(StatementText(s, lang))
<1>. DEFINE End == IF lang = "gleam" THEN <<"\n">> ELSE <<";", "\n">>
            Sent == IF lang = "gleam" THEN <<"|", ">", "log", ".", "send">> ELSE <<".", "send", "(", ")">>
<1>1. IsSequence(End)
  BY LiteralSequences
<1>2. IsSequence(Sent)
  <2>. DEFINE piped == <<"|", ">", "log", ".", "send">>
              called == <<".", "send", "(", ")">>
  <2>1. /\ DOMAIN piped = 1 .. 5 /\ piped = [m \in 1 .. 5 |-> piped[m]]
        /\ DOMAIN called = 1 .. 4 /\ called = [m \in 1 .. 4 |-> called[m]]
    OBVIOUS
  <2>2. Sent = IF lang = "gleam" THEN piped ELSE called
    OBVIOUS
  <2>. HIDE DEF piped, called, Sent
  <2>3. IsSequence(piped) /\ IsSequence(called)
    <3>1. 5 \in Nat /\ 4 \in Nat
      OBVIOUS
    <3>. QED BY <2>1, <3>1, TupleIs
  <2>. QED BY <2>2, <2>3
<1>3. IsSequence(Message) /\ IsSequence(Chain)
  <2>. DEFINE call == <<"log", ".", "info", "(">>
  <2>1. /\ DOMAIN Message = 1 .. 3 /\ Message = [m \in 1 .. 3 |-> Message[m]]
        /\ DOMAIN call = 1 .. 4 /\ call = [m \in 1 .. 4 |-> call[m]]
    BY DEF Message
  <2>2. Chain = call \o Message \o <<")">>
    BY DEF Chain
  <2>. HIDE DEF call
  <2>3. IsSequence(Message) /\ IsSequence(call)
    <3>1. 3 \in Nat /\ 4 \in Nat
      OBVIOUS
    <3>. QED BY <2>1, <3>1, TupleIs
  <2>. QED BY <2>2, <2>3, LiteralSequences, Joined
<1>. HIDE DEF End, Sent
<1>4. CASE s.op = "drop"
  <2>1. StatementText(s, lang) = Chain \o End
    BY <1>4 DEF StatementText, Overrides, Override, End, Sent
  <2>. QED BY <1>1, <1>2, <1>3, <2>1, Joined
<1>5. CASE s.op = "quoted"
  <2>. DEFINE first == <<"log", ".", "info", "(", "double quote", "}", "\\", "double quote", "{", "double quote", ")">>
  <2>1. StatementText(s, lang) = first \o End
    BY <1>5 DEF StatementText, Overrides, Override, End, Sent
  <2>2. /\ DOMAIN first = 1 .. 11 /\ first = [m \in 1 .. 11 |-> first[m]]
    OBVIOUS
  <2>. HIDE DEF first
  <2>3. IsSequence(first)
    <3>1. 11 \in Nat
      OBVIOUS
    <3>. QED BY <2>2, <3>1, TupleIs
  <2>. QED BY <1>1, <1>2, <1>3, <2>1, <2>3, Joined
<1>6. CASE s.op = "commented"
  <2>. DEFINE first == <<"/", "*">>
              second == <<"{", "*", "/">>
              third == <<"/", "/">>
              fourth == <<"\n">>
  <2>1. StatementText(s, lang) = first \o Chain \o second \o third \o Chain \o fourth
    BY <1>6 DEF StatementText, Overrides, Override, End, Sent
  <2>2. /\ DOMAIN first = 1 .. 2 /\ first = [m \in 1 .. 2 |-> first[m]]
        /\ DOMAIN second = 1 .. 3 /\ second = [m \in 1 .. 3 |-> second[m]]
        /\ DOMAIN third = 1 .. 2 /\ third = [m \in 1 .. 2 |-> third[m]]
        /\ DOMAIN fourth = 1 .. 1 /\ fourth = [m \in 1 .. 1 |-> fourth[m]]
    OBVIOUS
  <2>. HIDE DEF first, second, third, fourth
  <2>3. IsSequence(first) /\ IsSequence(second) /\ IsSequence(third) /\ IsSequence(fourth)
    <3>1. 1 \in Nat /\ 2 \in Nat /\ 3 \in Nat
      OBVIOUS
    <3>. QED BY <2>2, <3>1, TupleIs
  <2>. QED BY <1>1, <1>2, <1>3, <2>1, <2>3, Joined
<1>7. CASE s.op = "tail"
  <2>. DEFINE first == <<"\n">>
  <2>1. StatementText(s, lang) = Chain \o first
    BY <1>7 DEF StatementText, Overrides, Override, End, Sent
  <2>2. /\ DOMAIN first = 1 .. 1 /\ first = [m \in 1 .. 1 |-> first[m]]
    OBVIOUS
  <2>. HIDE DEF first
  <2>3. IsSequence(first)
    <3>1. 1 \in Nat
      OBVIOUS
    <3>. QED BY <2>2, <3>1, TupleIs
  <2>. QED BY <1>1, <1>2, <1>3, <2>1, <2>3, Joined
<1>8. CASE s.op = "emit"
  <2>1. StatementText(s, lang) = Chain \o Sent \o End
    BY <1>8 DEF StatementText, Overrides, Override, End, Sent
  <2>. QED BY <1>1, <1>2, <1>3, <2>1, Joined
<1>9. CASE s.op = "convenience"
  <2>. DEFINE first == <<"log", ".", "log", "(", "x", ",", "f", "(", "x", ",", "e", ")", ",">>
              second == <<")">>
  <2>1. StatementText(s, lang) = first \o Message \o second \o End
    BY <1>9 DEF StatementText, Overrides, Override, End, Sent
  <2>2. /\ DOMAIN first = 1 .. 13 /\ first = [m \in 1 .. 13 |-> first[m]]
        /\ DOMAIN second = 1 .. 1 /\ second = [m \in 1 .. 1 |-> second[m]]
    OBVIOUS
  <2>. HIDE DEF first, second
  <2>3. IsSequence(first) /\ IsSequence(second)
    <3>1. 1 \in Nat /\ 13 \in Nat
      OBVIOUS
    <3>. QED BY <2>2, <3>1, TupleIs
  <2>. QED BY <1>1, <1>2, <1>3, <2>1, <2>3, Joined
<1>10. CASE s.op = "two_arguments"
  <2>. DEFINE first == <<"log", ".", "info", "(", "x", ",", "f", "(", "x", ",", "e", ")", ")">>
  <2>1. StatementText(s, lang) = first \o End
    BY <1>10 DEF StatementText, Overrides, Override, End, Sent
  <2>2. /\ DOMAIN first = 1 .. 13 /\ first = [m \in 1 .. 13 |-> first[m]]
    OBVIOUS
  <2>. HIDE DEF first
  <2>3. IsSequence(first)
    <3>1. 13 \in Nat
      OBVIOUS
    <3>. QED BY <2>2, <3>1, TupleIs
  <2>. QED BY <1>1, <1>2, <1>3, <2>1, <2>3, Joined
<1>11. CASE s.op = "bind"
  <2>. DEFINE first == <<"let", s.name, "=">>
  <2>1. StatementText(s, lang) = first \o Chain \o End
    BY <1>11 DEF StatementText, Overrides, Override, End, Sent
  <2>2. /\ DOMAIN first = 1 .. 3 /\ first = [m \in 1 .. 3 |-> first[m]]
    OBVIOUS
  <2>. HIDE DEF first
  <2>3. IsSequence(first)
    <3>1. 3 \in Nat
      OBVIOUS
    <3>. QED BY <2>2, <3>1, TupleIs
  <2>. QED BY <1>1, <1>2, <1>3, <2>1, <2>3, Joined
<1>12. CASE s.op = "assign"
  <2>. DEFINE first == <<s.name, "=">>
  <2>1. StatementText(s, lang) = first \o Chain \o End
    BY <1>12 DEF StatementText, Overrides, Override, End, Sent
  <2>2. /\ DOMAIN first = 1 .. 2 /\ first = [m \in 1 .. 2 |-> first[m]]
    OBVIOUS
  <2>. HIDE DEF first
  <2>3. IsSequence(first)
    <3>1. 2 \in Nat
      OBVIOUS
    <3>. QED BY <2>2, <3>1, TupleIs
  <2>. QED BY <1>1, <1>2, <1>3, <2>1, <2>3, Joined
<1>13. CASE s.op = "send"
  <2>. DEFINE first == <<"log", ".", "send", "(", s.name, ")">>
              second == <<s.name, ".", "send", "(", ")">>
  <2>1. StatementText(s, lang) = (IF lang = "gleam" THEN first ELSE second) \o End
    BY <1>13 DEF StatementText, Overrides, Override, End, Sent
  <2>2. /\ DOMAIN first = 1 .. 6 /\ first = [m \in 1 .. 6 |-> first[m]]
        /\ DOMAIN second = 1 .. 5 /\ second = [m \in 1 .. 5 |-> second[m]]
    OBVIOUS
  <2>. HIDE DEF first, second
  <2>3. IsSequence(first) /\ IsSequence(second)
    <3>1. 5 \in Nat /\ 6 \in Nat
      OBVIOUS
    <3>. QED BY <2>2, <3>1, TupleIs
  <2>. QED BY <1>1, <1>2, <1>3, <2>1, <2>3, Joined
<1>14. CASE s.op = "give"
  <2>. DEFINE first == <<"send", "(", s.name, ")">>
  <2>1. StatementText(s, lang) = first \o End
    BY <1>14 DEF StatementText, Overrides, Override, End, Sent
  <2>2. /\ DOMAIN first = 1 .. 4 /\ first = [m \in 1 .. 4 |-> first[m]]
    OBVIOUS
  <2>. HIDE DEF first
  <2>3. IsSequence(first)
    <3>1. 4 \in Nat
      OBVIOUS
    <3>. QED BY <2>2, <3>1, TupleIs
  <2>. QED BY <1>1, <1>2, <1>3, <2>1, <2>3, Joined
<1>15. CASE s.op = "field_send"
  <2>. DEFINE first == <<s.name, ".", "field", "(", "x", ")", ".", "send", "(", ")">>
  <2>1. StatementText(s, lang) = first \o End
    BY <1>15 DEF StatementText, Overrides, Override, End, Sent
  <2>2. /\ DOMAIN first = 1 .. 10 /\ first = [m \in 1 .. 10 |-> first[m]]
    OBVIOUS
  <2>. HIDE DEF first
  <2>3. IsSequence(first)
    <3>1. 10 \in Nat
      OBVIOUS
    <3>. QED BY <2>2, <3>1, TupleIs
  <2>. QED BY <1>1, <1>2, <1>3, <2>1, <2>3, Joined
<1>16. CASE s.op = "pass"
  <2>. DEFINE first == <<"deliver", "(", s.name, ")">>
  <2>1. StatementText(s, lang) = first \o End
    BY <1>16 DEF StatementText, Overrides, Override, End, Sent
  <2>2. /\ DOMAIN first = 1 .. 4 /\ first = [m \in 1 .. 4 |-> first[m]]
    OBVIOUS
  <2>. HIDE DEF first
  <2>3. IsSequence(first)
    <3>1. 4 \in Nat
      OBVIOUS
    <3>. QED BY <2>2, <3>1, TupleIs
  <2>. QED BY <1>1, <1>2, <1>3, <2>1, <2>3, Joined
<1>17. CASE s.op = "return_name"
  <2>. DEFINE first == <<"return", s.name>>
  <2>1. StatementText(s, lang) = first \o End
    BY <1>17 DEF StatementText, Overrides, Override, End, Sent
  <2>2. /\ DOMAIN first = 1 .. 2 /\ first = [m \in 1 .. 2 |-> first[m]]
    OBVIOUS
  <2>. HIDE DEF first
  <2>3. IsSequence(first)
    <3>1. 2 \in Nat
      OBVIOUS
    <3>. QED BY <2>2, <3>1, TupleIs
  <2>. QED BY <1>1, <1>2, <1>3, <2>1, <2>3, Joined
<1>18. CASE s.op = "return_chain"
  <2>. DEFINE first == <<"return">>
  <2>1. StatementText(s, lang) = first \o Chain \o End
    BY <1>18 DEF StatementText, Overrides, Override, End, Sent
  <2>2. /\ DOMAIN first = 1 .. 1 /\ first = [m \in 1 .. 1 |-> first[m]]
    OBVIOUS
  <2>. HIDE DEF first
  <2>3. IsSequence(first)
    <3>1. 1 \in Nat
      OBVIOUS
    <3>. QED BY <2>2, <3>1, TupleIs
  <2>. QED BY <1>1, <1>2, <1>3, <2>1, <2>3, Joined
<1>19. CASE s.op = "open_call"
  <2>. DEFINE first == <<"log", ".", "info", "(", "x", "\n">>
  <2>1. StatementText(s, lang) = first
    BY <1>19 DEF StatementText, Overrides, Override, End, Sent
  <2>2. /\ DOMAIN first = 1 .. 6 /\ first = [m \in 1 .. 6 |-> first[m]]
    OBVIOUS
  <2>. HIDE DEF first
  <2>3. IsSequence(first)
    <3>1. 6 \in Nat
      OBVIOUS
    <3>. QED BY <2>2, <3>1, TupleIs
  <2>. QED BY <1>1, <1>2, <1>3, <2>1, <2>3, Joined
<1>20. CASE s.op = "function"
  <2>. DEFINE first == <<"fn", "g", "(", ")", "{", "\n">>
  <2>1. StatementText(s, lang) = first
    BY <1>20 DEF StatementText, Overrides, Override, End, Sent
  <2>2. /\ DOMAIN first = 1 .. 6 /\ first = [m \in 1 .. 6 |-> first[m]]
    OBVIOUS
  <2>. HIDE DEF first
  <2>3. IsSequence(first)
    <3>1. 6 \in Nat
      OBVIOUS
    <3>. QED BY <2>2, <3>1, TupleIs
  <2>. QED BY <1>1, <1>2, <1>3, <2>1, <2>3, Joined
<1>21. CASE s.op = "block"
  <2>. DEFINE first == <<"if", "x", "{", "\n">>
  <2>1. StatementText(s, lang) = first
    BY <1>21 DEF StatementText, Overrides, Override, End, Sent
  <2>2. /\ DOMAIN first = 1 .. 4 /\ first = [m \in 1 .. 4 |-> first[m]]
    OBVIOUS
  <2>. HIDE DEF first
  <2>3. IsSequence(first)
    <3>1. 4 \in Nat
      OBVIOUS
    <3>. QED BY <2>2, <3>1, TupleIs
  <2>. QED BY <1>1, <1>2, <1>3, <2>1, <2>3, Joined
<1>22. CASE s.op = "close"
  <2>. DEFINE first == <<"}", "\n">>
  <2>1. StatementText(s, lang) = first
    BY <1>22 DEF StatementText, Overrides, Override, End, Sent
  <2>2. /\ DOMAIN first = 1 .. 2 /\ first = [m \in 1 .. 2 |-> first[m]]
    OBVIOUS
  <2>. HIDE DEF first
  <2>3. IsSequence(first)
    <3>1. 2 \in Nat
      OBVIOUS
    <3>. QED BY <2>2, <3>1, TupleIs
  <2>. QED BY <1>1, <1>2, <1>3, <2>1, <2>3, Joined
<1>23. CASE s.op \in Overrides
  <2>. DEFINE first == <<"/", "/", Override[s.op], "\n">>
  <2>1. StatementText(s, lang) = first
    BY <1>23 DEF StatementText, Overrides, Override, End, Sent
  <2>2. /\ DOMAIN first = 1 .. 4 /\ first = [m \in 1 .. 4 |-> first[m]]
    OBVIOUS
  <2>. HIDE DEF first
  <2>3. IsSequence(first)
    <3>1. 4 \in Nat
      OBVIOUS
    <3>. QED BY <2>2, <3>1, TupleIs
  <2>. QED BY <1>1, <1>2, <1>3, <2>1, <2>3, Joined
<1>. QED BY <1>4, <1>5, <1>6, <1>7, <1>8, <1>9, <1>10, <1>11, <1>12, <1>13, <1>14, <1>15, <1>16, <1>17, <1>18, <1>19, <1>20, <1>21, <1>22, <1>23 DEF Written

LEMMA TextIs ==
  ASSUME NEW program, IsSequence(program), \A l \in DOMAIN program : program[l].op \in Written, NEW lang
  PROVE  IsSequence(Text(program, lang))
<1>. DEFINE N == Len(program)
            parts == [l \in DOMAIN program |-> StatementText(program[l], lang)]
            T == UNION {ToSet(parts[n]) : n \in DOMAIN program}
<1>1. N \in Nat /\ DOMAIN program = 1 .. N
  BY DEF IsSequence
<1>2. \A n \in 1 .. N : IsSequence(parts[n])
  BY <1>1, StatementTextIs
<1>3. \A n \in 1 .. N : parts[n] \in Seq(T)
  <2>. SUFFICES ASSUME NEW n \in 1 .. N PROVE parts[n] \in Seq(T)
    OBVIOUS
  <2>1. parts[n] \in Seq(ToSet(parts[n])) /\ ToSet(parts[n]) \subseteq T
    <3>. HIDE DEF parts
    <3>. QED BY <1>1, <1>2 DEF IsSequence
  <2>. HIDE DEF parts, T
  <2>. QED BY <2>1, SeqMonotonic
<1>4. parts = [n \in 1 .. N |-> parts[n]]
  BY <1>1
<1>5. parts \in Seq(Seq(T)) /\ Len(parts) = N
  <2>. DEFINE Z == Seq(T)
  <2>1. \A n \in 1 .. N : parts[n] \in Z
    BY <1>3
  <2>. HIDE DEF parts, T, Z
  <2>2. parts \in [1 .. N -> Z]
    BY <1>4, <2>1
  <2>3. parts \in Seq(Z) /\ Len(parts) = N
    <3>. HIDE DEF N
    <3>. QED BY <1>1, <2>2, SeqDef
  <2>. QED BY <2>3 DEF Z
<1>6. Text(program, lang) = FlattenSeq(parts)
  BY DEF Text
<1>. HIDE DEF parts, T
<1>7. FlattenSeq(parts) \in Seq(T)
  <2>1. PICK flat \in [0 .. Len(parts) -> Seq(T)] : FlattenSeq(parts) = flat[Len(parts)]
    BY <1>5, Flattened
  <2>2. Len(parts) \in 0 .. Len(parts)
    BY <1>1, <1>5
  <2>. DEFINE Z == Seq(T)
  <2>3. flat \in [0 .. Len(parts) -> Z]
    BY <2>1
  <2>. HIDE DEF Z
  <2>4. flat[Len(parts)] \in Z
    BY <2>2, <2>3
  <2>. QED BY <2>1, <2>4 DEF Z
<1>. QED BY <1>6, <1>7, SequenceIs

-----------------------------------------------------------------------------
(* How far the scanner's walks over the tokens go.                         *)

LEMMA SkipBalancedEnds ==
  ASSUME IsSequence(tokens), NEW m \in DOMAIN tokens
  PROVE  Scanner!skipBalanced(m) \in m .. Len(tokens)
<1>. DEFINE Depth(l) == Scanner!Cardinality({j \in m .. l : Scanner!T(j, "(")}) - Scanner!Cardinality({j \in m .. l : Scanner!T(j, ")")})
            found == {l \in m .. Len(tokens) : Scanner!T(l, ")") /\ Depth(l) = 0}
            first == CHOOSE l \in found : \A j \in found : l <= j
<1>1. Len(tokens) \in Nat /\ m \in 1 .. Len(tokens)
  BY DEF IsSequence
<1>2. Scanner!skipBalanced(m) = IF found = {} THEN Len(tokens) ELSE first
  BY DEF Scanner!skipBalanced, Scanner!FirstToken
<1>. HIDE DEF Depth
<1>3. found # {} => first \in found
  <2>1. found \subseteq Nat
    BY <1>1
  <2>. HIDE DEF found
  <2>. QED BY <2>1, Least
<1>4. found \subseteq m .. Len(tokens)
  OBVIOUS
<1>5. Len(tokens) \in m .. Len(tokens)
  BY <1>1
<1>. DEFINE Z == m .. Len(tokens)
<1>6. Len(tokens) \in Z /\ found \subseteq Z
  BY <1>4, <1>5
<1>. HIDE DEF found, first, Z
<1>7. Scanner!skipBalanced(m) \in Z
  BY <1>2, <1>3, <1>6
<1>. QED BY <1>7 DEF Z

\* An identifier is the end of a dotted name, and the start of one.
LEMMA DottedAlone ==
  ASSUME NEW m \in Nat, Scanner!T(m, "ident")
  PROVE  Scanner!Dotted(m, m)
<1>1. (m - m) % 2 = 0
  OBVIOUS
<1>2. \A l \in m .. m : l = m
  OBVIOUS
<1>. QED BY <1>1, <1>2 DEF Scanner!Dotted

LEMMA QualifiedStartIs ==
  ASSUME NEW m \in Nat \ {0}, Scanner!T(m, "ident")
  PROVE  Scanner!qualifiedStart(m) \in 1 .. m /\ Scanner!Dotted(Scanner!qualifiedStart(m), m)
<1>. DEFINE starts == {a \in 1 .. m : Scanner!Dotted(a, m)}
<1>1. m \in starts
  BY DottedAlone
<1>2. starts \subseteq Nat
  OBVIOUS
<1>3. \E a \in starts : \A b \in starts : a <= b
  <2>. HIDE DEF starts
  <2>. QED BY <1>1, <1>2, Least
<1>4. \E a \in 1 .. m : Scanner!Dotted(a, m) /\ \A b \in 1 .. m : Scanner!Dotted(b, m) => a <= b
  BY <1>3
<1>. QED BY <1>4 DEF Scanner!qualifiedStart

LEMMA QualifiedEndIs ==
  ASSUME IsSequence(tokens), NEW m \in DOMAIN tokens, Scanner!T(m, "ident")
  PROVE  /\ Scanner!qualifiedEnd(m) \in m .. Len(tokens)
         /\ \A c \in m .. Len(tokens) : Scanner!Dotted(m, c) => c <= Scanner!qualifiedEnd(m)
<1>. DEFINE ends == {b \in m .. Len(tokens) : Scanner!Dotted(m, b)}
            high == Len(tokens)
<1>1. high \in Nat /\ m \in 1 .. high
  BY DEF IsSequence
<1>2. m \in ends
  BY <1>1, DottedAlone
<1>3. ends \subseteq 0 .. high
  BY <1>1
<1>4. \E b \in ends : \A c \in ends : c <= b
  <2>. HIDE DEF ends, high
  <2>. QED BY <1>1, <1>2, <1>3, Greatest
<1>5. \E b \in m .. Len(tokens) : Scanner!Dotted(m, b) /\ \A c \in m .. Len(tokens) : Scanner!Dotted(m, c) => c <= b
  BY <1>4
<1>. QED BY <1>5 DEF Scanner!qualifiedEnd

-----------------------------------------------------------------------------
\* The walks as they are written.
Called(l) == Scanner!T(l + 1, ".") /\ Scanner!T(l + 2, "ident")

PastCall(l) == IF Scanner!T(l + 3, "(") THEN Scanner!skipBalanced(l + 3) ELSE l + 2

PassesRoot(l) ==
  Called(l) /\ ~Scanner!T(l + 3, "(") /\ tokens[l + 2].value \notin Scanner!LEVEL \union Scanner!TERMINAL

RootOf(root) == root = [l \in DOMAIN tokens |-> IF PassesRoot(l) THEN root[l + 2] ELSE l]

MethodsOf(methods) ==
  methods = [l \in DOMAIN tokens |->
               IF ~Called(l) THEN [end |-> l, methods |-> << >>]
               ELSE [end |-> methods[PastCall(l)].end,
                     methods |-> <<tokens[l + 2].value>> \o methods[PastCall(l)].methods]]

LEMMA RootExists ==
  ASSUME IsSequence(tokens)
  PROVE  \E root : RootOf(root)
<1>. DEFINE N == Len(tokens)
            D == DOMAIN tokens
            rank == [l \in D |-> N - l]
            stop == {l \in D : ~PassesRoot(l)}
            base == [l \in D |-> l]
            next == [l \in D |-> l + 2]
            step == [l \in D |-> [v \in D |-> v]]
<1>1. N \in Nat /\ D = 1 .. N
  BY DEF IsSequence
<1>2. rank \in [D -> 0 .. N]
  BY <1>1
<1>3. \A l \in D \ stop : next[l] \in D /\ rank[next[l]] < rank[l]
  BY <1>1 DEF PassesRoot, Called, Scanner!T
<1>4. \A l \in D \intersect stop : base[l] \in D
  OBVIOUS
<1>5. \A l \in D \ stop : \A v \in D : step[l][v] \in D
  OBVIOUS
<1>6. PICK f \in [D -> D] : Follows(f, D, stop, base, next, step)
  <2>. HIDE DEF N, D, rank, stop, base, next, step
  <2>. QED BY <1>1, <1>2, <1>3, <1>4, <1>5, Recursion
<1>7. \A l \in D : f[l] = IF PassesRoot(l) THEN f[l + 2] ELSE l
  <2>. SUFFICES ASSUME NEW l \in D PROVE f[l] = IF PassesRoot(l) THEN f[l + 2] ELSE l
    OBVIOUS
  <2>1. f[l] = IF l \in stop THEN base[l] ELSE step[l][f[next[l]]]
    <3>. HIDE DEF D, stop, base, next, step
    <3>. QED BY <1>6 DEF Follows
  <2>2. l \notin stop => f[next[l]] \in D
    <3>. HIDE DEF D, stop, next
    <3>. QED BY <1>3
  <2>. QED BY <2>1, <2>2
<1>8. f = [l \in D |-> f[l]]
  OBVIOUS
<1>. QED BY <1>7, <1>8 DEF RootOf

LEMMA PastCallIs ==
  ASSUME IsSequence(tokens), NEW l \in DOMAIN tokens, Called(l)
  PROVE  PastCall(l) \in l + 2 .. Len(tokens) /\ PastCall(l) \in DOMAIN tokens /\ PastCall(l) > l
<1>. DEFINE N == Len(tokens)
<1>1. N \in Nat /\ DOMAIN tokens = 1 .. N /\ l \in 1 .. N /\ l + 2 \in 1 .. N
  BY DEF IsSequence, Called, Scanner!T
<1>2. CASE Scanner!T(l + 3, "(")
  <2>1. l + 3 \in DOMAIN tokens
    BY <1>2 DEF Scanner!T
  <2>2. Scanner!skipBalanced(l + 3) \in l + 3 .. N
    BY <2>1, SkipBalancedEnds
  <2>. HIDE DEF N
  <2>. QED BY <1>1, <1>2, <2>2 DEF PastCall
<1>3. CASE ~Scanner!T(l + 3, "(")
  <2>. HIDE DEF N
  <2>. QED BY <1>1, <1>3 DEF PastCall
<1>. QED BY <1>2, <1>3

\* walkMethodChain ends: it only ever goes on past what it has read.
LEMMA MethodsExists ==
  ASSUME IsSequence(tokens)
  PROVE  \E methods : MethodsOf(methods)
<1>. DEFINE N == Len(tokens)
            D == DOMAIN tokens
            W == Seq({tokens[l].value : l \in D})
            V == [end : D, methods : W]
            rank == [l \in D |-> N - l]
            stop == {l \in D : ~Called(l)}
            base == [l \in D |-> [end |-> l, methods |-> << >>]]
            next == [l \in D |-> PastCall(l)]
            Added(l, v) == [end |-> v.end, methods |-> <<tokens[l + 2].value>> \o v.methods]
            step == [l \in D |-> [v \in V |-> Added(l, v)]]
<1>1. N \in Nat /\ D = 1 .. N
  BY DEF IsSequence
<1>2. rank \in [D -> 0 .. N]
  BY <1>1
<1>3. \A l \in D \ stop : next[l] \in D /\ next[l] > l /\ next[l] = PastCall(l)
  <2>. SUFFICES ASSUME NEW l \in D, Called(l) PROVE PastCall(l) \in D /\ PastCall(l) > l
    OBVIOUS
  <2>. QED BY PastCallIs
<1>4. \A l \in D \ stop : rank[next[l]] < rank[l]
  <2>. HIDE DEF next, W, V
  <2>. QED BY <1>1, <1>3
<1>5. \A l \in D \intersect stop : base[l] \in V
  OBVIOUS
<1>6. \A l \in D \ stop : \A v \in V : Added(l, v) \in V
  <2>. SUFFICES ASSUME NEW l \in D, Called(l), NEW v \in V PROVE Added(l, v) \in V
    OBVIOUS
  <2>1. l + 2 \in D
    BY DEF Called, Scanner!T
  <2>2. <<tokens[l + 2].value>> \in W /\ v.methods \in W /\ v.end \in D
    BY <2>1
  <2>3. <<tokens[l + 2].value>> \o v.methods \in W
    BY <2>2
  <2>. HIDE DEF W, D
  <2>. QED BY <2>2, <2>3
<1>7. \A l \in D \ stop : \A v \in V : step[l][v] \in V
  <2>. HIDE DEF V, Added
  <2>. QED BY <1>6
<1>8. PICK f \in [D -> V] : Follows(f, D, stop, base, next, step)
  <2>1. \A l \in D \ stop : /\ next[l] \in D /\ rank[next[l]] < rank[l]
                            /\ \A v \in V : step[l][v] \in V
    <3>. HIDE DEF N, D, rank, stop, base, next, step, V
    <3>. QED BY <1>3, <1>4, <1>7
  <2>. HIDE DEF N, D, rank, stop, base, next, step, V
  <2>. QED BY <1>1, <1>2, <1>5, <2>1, Recursion
<1>9. \A l \in D : f[l] = IF ~Called(l) THEN [end |-> l, methods |-> << >>] ELSE Added(l, f[PastCall(l)])
  <2>. SUFFICES ASSUME NEW l \in D PROVE f[l] = IF ~Called(l) THEN [end |-> l, methods |-> << >>] ELSE Added(l, f[PastCall(l)])
    OBVIOUS
  <2>1. f[l] = IF l \in stop THEN base[l] ELSE step[l][f[next[l]]]
    <3>. HIDE DEF D, stop, base, next, step, V
    <3>. QED BY <1>8 DEF Follows
  <2>2. l \notin stop => f[PastCall(l)] \in V /\ next[l] = PastCall(l)
    <3>. HIDE DEF D, stop, next, V
    <3>. QED BY <1>3
  <2>3. \A v \in V : step[l][v] = Added(l, v)
    <3>. HIDE DEF V, Added
    <3>. QED OBVIOUS
  <2>4. base[l] = [end |-> l, methods |-> << >>] /\ (l \in stop <=> ~Called(l))
    OBVIOUS
  <2>. HIDE DEF D, V, Added, step, base, stop, next
  <2>. QED BY <2>1, <2>2, <2>3, <2>4
<1>10. f = [l \in D |-> f[l]]
  <2>. HIDE DEF V
  <2>. QED OBVIOUS
<1>11. f = [l \in D |-> IF ~Called(l) THEN [end |-> l, methods |-> << >>] ELSE Added(l, f[PastCall(l)])]
  <2>. HIDE DEF V, Added, D
  <2>. QED BY <1>9, <1>10
<1>. HIDE DEF V
<1>. QED BY <1>11 DEF MethodsOf

LEMMA MethodsPast ==
  ASSUME NEW methods, MethodsOf(methods), NEW l \in DOMAIN tokens
  PROVE  methods[l].end = IF Called(l) THEN methods[PastCall(l)].end ELSE l
<1>. DEFINE D == DOMAIN tokens
            At_(m) == IF ~Called(m) THEN [end |-> m, methods |-> << >>]
                      ELSE [end |-> methods[PastCall(m)].end,
                            methods |-> <<tokens[m + 2].value>> \o methods[PastCall(m)].methods]
<1>1. methods = [m \in D |-> At_(m)]
  BY DEF MethodsOf
<1>2. methods[l] = At_(l)
  <2>1. l \in D
    OBVIOUS
  <2>. HIDE DEF At_, D
  <2>. QED BY <1>1, <2>1
<1>. QED BY <1>2

LEMMA MethodsEnd ==
  ASSUME IsSequence(tokens), NEW methods, MethodsOf(methods)
  PROVE  \A l \in DOMAIN tokens : methods[l].end \in l .. Len(tokens)
<1>. DEFINE N == Len(tokens)
            D == DOMAIN tokens
            rank == [l \in D |-> N - l]
            S == {l \in D : methods[l].end \in l .. N}
<1>1. N \in Nat /\ D = 1 .. N
  BY DEF IsSequence
<1>2. rank \in [D -> 0 .. N]
  BY <1>1
<1>3. ASSUME NEW l \in D, \A c \in D : rank[c] < rank[l] => c \in S PROVE l \in S
  <2>0. methods[l].end = IF Called(l) THEN methods[PastCall(l)].end ELSE l
    BY MethodsPast
  <2>1. CASE ~Called(l)
    BY <1>1, <2>0, <2>1
  <2>2. CASE Called(l)
    <3>1. methods[l].end = methods[PastCall(l)].end
      BY <2>0, <2>2
    <3>2. PastCall(l) \in D /\ PastCall(l) > l
      BY <2>2, PastCallIs
    <3>3. PastCall(l) \in S
      BY <1>1, <1>3, <3>2
    <3>. QED BY <1>1, <3>1, <3>2, <3>3
  <2>. QED BY <2>1, <2>2
<1>4. D \subseteq S
  <2>1. N \in Nat
    BY <1>1
  <2>. HIDE DEF D, S, rank, N
  <2>. QED BY <1>2, <1>3, <2>1, RankInduction
<1>. QED BY <1>4

LEMMA WalksMethods ==
  ASSUME IsSequence(tokens), NEW start
  PROVE  \E root, methods : /\ RootOf(root) /\ MethodsOf(methods)
                            /\ Scanner!walkMethodChain(start).end = methods[root[start]].end
<1>. DEFINE root == CHOOSE root : RootOf(root)
            methods == CHOOSE methods : MethodsOf(methods)
<1>1. RootOf(root) /\ MethodsOf(methods)
  BY RootExists, MethodsExists
<1>2. Scanner!walkMethodChain(start).end = methods[root[start]].end
  BY DEF Scanner!walkMethodChain, RootOf, MethodsOf, PassesRoot, PastCall, Called
<1>. HIDE DEF root, methods
<1>. QED BY <1>1, <1>2

LEMMA Parity ==
  ASSUME NEW n \in Nat, n % 2 = 0, n # 0
  PROVE  n >= 2 /\ (n - 2) % 2 = 0 /\ (n - 1) % 2 # 0 /\ (n > 2 => (n - 3) % 2 # 0)
  OBVIOUS

\* The identifiers of a dotted name.
NameTokens(a, b) == {l \in a .. b : (b - l) % 2 = 0}

\* From one identifier of a dotted name to the next.
LEMMA DottedSteps ==
  ASSUME NEW b \in Nat, NEW a \in 1 .. b, Scanner!Dotted(a, b), Scanner!T(b + 1, "."),
         NEW l \in NameTokens(a, b), l # b
  PROVE  /\ l + 2 \in NameTokens(a, b) /\ Called(l)
         /\ ~Scanner!T(l + 3, "(") /\ PastCall(l) = l + 2
<1>1. b - l \in Nat /\ (b - l) % 2 = 0 /\ b - l # 0 /\ l \in Nat /\ a <= l /\ a \in Nat
  BY DEF NameTokens
<1>2. /\ b - l >= 2 /\ ((b - l) - 2) % 2 = 0 /\ ((b - l) - 1) % 2 # 0
      /\ b - l > 2 => ((b - l) - 3) % 2 # 0
  BY <1>1, Parity
<1>3. /\ b - (l + 1) = (b - l) - 1 /\ b - (l + 2) = (b - l) - 2 /\ b - (l + 3) = (b - l) - 3
      /\ l + 1 \in a .. b /\ l + 2 \in a .. b /\ (b - l > 2 => l + 3 \in a .. b) /\ (b - l = 2 => l + 3 = b + 1)
  BY <1>1, <1>2
<1>4. \A j \in a .. b : Scanner!T(j, IF (b - j) % 2 = 0 THEN "ident" ELSE ".")
  BY DEF Scanner!Dotted
<1>5. Scanner!T(l + 1, ".") /\ Scanner!T(l + 2, "ident") /\ l + 2 \in NameTokens(a, b)
  BY <1>2, <1>3, <1>4 DEF NameTokens
<1>6. Scanner!T(l + 3, ".")
  <2>1. CASE b - l = 2
    BY <1>3, <2>1
  <2>2. CASE b - l > 2
    BY <1>2, <1>3, <1>4, <2>2
  <2>. QED BY <1>1, <1>2, <2>1, <2>2
<1>7. ~Scanner!T(l + 3, "(")
  BY <1>6 DEF Scanner!T
<1>. QED BY <1>5, <1>7 DEF Called, PastCall

\* What holds at the last identifier of a dotted name, and at one if it does at the next,
\* holds at all.
LEMMA DottedInduction ==
  ASSUME NEW b \in Nat, NEW a \in 1 .. b, NEW S, b \in S,
         \A l \in NameTokens(a, b) : l # b /\ l + 2 \in NameTokens(a, b) /\ l + 2 \in S => l \in S,
         Scanner!Dotted(a, b), Scanner!T(b + 1, ".")
  PROVE  NameTokens(a, b) \subseteq S
<1>. DEFINE D == NameTokens(a, b)
            rank == [l \in D |-> b - l]
<1>1. \A l \in D : l \in a .. b
  BY DEF NameTokens
<1>2. rank \in [D -> 0 .. b]
  <2>. HIDE DEF D
  <2>. QED BY <1>1
<1>3. ASSUME NEW l \in D, \A c \in D : rank[c] < rank[l] => c \in S PROVE l \in S
  <2>1. CASE l # b
    <3>1. l + 2 \in D
      BY <2>1, DottedSteps
    <3>2. rank[l + 2] < rank[l]
      <4>. HIDE DEF D
      <4>. QED BY <1>1, <3>1
    <3>. QED BY <1>3, <2>1, <3>1, <3>2
  <2>. QED BY <2>1
<1>. HIDE DEF D, rank
<1>4. D \subseteq S
  BY <1>2, <1>3, RankInduction
<1>. QED BY <1>4 DEF D

\* The chain of a level method goes past it.
\* the level method: nothing before it in the name is taken for the end.
LEMMA MethodChainEnds ==
  ASSUME IsSequence(tokens), i \in Nat, Scanner!IsIdent(i, Scanner!LEVEL),
         Scanner!T(i - 1, "."), Scanner!T(i + 1, "("), Scanner!T(i - 2, "ident")
  PROVE  Scanner!MethodChain.end \in Nat /\ Scanner!MethodChain.end >= i
<1>. DEFINE b == i - 2
            a == Scanner!qualifiedStart(b)
            Path == NameTokens(a, b)
<1>1. Len(tokens) \in Nat /\ DOMAIN tokens = 1 .. Len(tokens)
  BY DEF IsSequence
<1>2. b \in Nat \ {0} /\ b \in DOMAIN tokens /\ b + 1 = i - 1 /\ b + 2 = i /\ b + 3 = i + 1
  BY <1>1 DEF Scanner!T
<1>3. a \in 1 .. b /\ Scanner!Dotted(a, b) /\ Scanner!T(b + 1, ".")
  BY <1>2, QualifiedStartIs
<1>4. Called(b) /\ Scanner!T(b + 3, "(")
  BY <1>2 DEF Called, Scanner!IsIdent
<1>5. PICK root, methods : /\ RootOf(root) /\ MethodsOf(methods)
                           /\ Scanner!walkMethodChain(a).end = methods[root[a]].end
  <2>. HIDE DEF a
  <2>. QED BY WalksMethods
<1>6. Scanner!MethodChain.end = methods[root[a]].end
  BY <1>5 DEF Scanner!MethodChain
<1>. HIDE DEF a, b
<1>7. Path \subseteq DOMAIN tokens /\ \A l \in Path : l \in a .. b /\ l \in Nat
  BY <1>1, <1>2, <1>3 DEF NameTokens
<1>8. a \in Path /\ b \in Path
  <2>1. (b - b) % 2 = 0
    BY <1>2
  <2>. QED BY <1>2, <1>3, <2>1 DEF NameTokens, Scanner!Dotted
<1>9. \A l \in Path : root[l] \in Path
  <2>. DEFINE S == {l \in Path : root[l] \in Path}
  <2>1. b \in S
    <3>1. root[b] = IF PassesRoot(b) THEN root[b + 2] ELSE b
      BY <1>2, <1>5 DEF RootOf
    <3>2. ~PassesRoot(b)
      BY <1>4 DEF PassesRoot
    <3>. QED BY <1>8, <3>1, <3>2
  <2>2. \A l \in Path : l # b /\ l + 2 \in Path /\ l + 2 \in S => l \in S
    <3>. SUFFICES ASSUME NEW l \in Path, root[l + 2] \in Path PROVE root[l] \in Path
      OBVIOUS
    <3>1. root[l] = IF PassesRoot(l) THEN root[l + 2] ELSE l
      BY <1>5, <1>7 DEF RootOf
    <3>. HIDE DEF Path
    <3>. QED BY <3>1
  <2>3. Path \subseteq S
    <3>. HIDE DEF S
    <3>. QED BY <1>2, <1>3, <2>1, <2>2, DottedInduction
  <2>. QED BY <2>3
<1>10. \A l \in DOMAIN tokens : methods[l].end \in l .. Len(tokens)
  BY <1>5, MethodsEnd
<1>11. \A l \in DOMAIN tokens : Called(l) => methods[l].end = methods[PastCall(l)].end
  <2>. SUFFICES ASSUME NEW l \in DOMAIN tokens, Called(l) PROVE methods[l].end = methods[PastCall(l)].end
    OBVIOUS
  <2>. QED BY <1>5, MethodsPast
<1>12. \A l \in Path : methods[l].end \in Nat /\ methods[l].end >= i
  <2>. DEFINE S == {l \in Path : methods[l].end \in Nat /\ methods[l].end >= i}
  <2>1. b \in S
    <3>1. methods[b].end = methods[PastCall(b)].end /\ PastCall(b) = Scanner!skipBalanced(b + 3)
      BY <1>2, <1>4, <1>11 DEF PastCall
    <3>2. b + 3 \in DOMAIN tokens
      BY <1>4 DEF Scanner!T
    <3>3. Scanner!skipBalanced(b + 3) \in b + 3 .. Len(tokens)
      BY <3>2, SkipBalancedEnds
    <3>4. PastCall(b) \in DOMAIN tokens /\ PastCall(b) >= b + 3 /\ PastCall(b) \in Nat
      BY <1>1, <1>2, <3>1, <3>3
    <3>5. methods[PastCall(b)].end \in PastCall(b) .. Len(tokens)
      BY <1>10, <3>4
    <3>. QED BY <1>1, <1>2, <1>8, <3>1, <3>4, <3>5
  <2>2. \A l \in Path : l # b /\ l + 2 \in Path /\ l + 2 \in S => l \in S
    <3>. SUFFICES ASSUME NEW l \in Path, l # b, l + 2 \in S PROVE l \in S
      OBVIOUS
    <3>1. Called(l) /\ PastCall(l) = l + 2
      BY <1>2, <1>3, DottedSteps
    <3>2. methods[l].end = methods[l + 2].end
      BY <1>7, <1>11, <3>1
    <3>. QED BY <3>2
  <2>3. Path \subseteq S
    <3>. HIDE DEF S
    <3>. QED BY <1>2, <1>3, <2>1, <2>2, DottedInduction
  <2>. QED BY <2>3
<1>. HIDE DEF Path
<1>. QED BY <1>6, <1>8, <1>9, <1>12

\* Past the arguments of a call, if it has any.
PastArguments(l) == IF Scanner!T(l + 1, "(") THEN Scanner!skipBalanced(l + 1) ELSE l

Piped(l) == Scanner!T(l + 1, "|>") /\ Scanner!T(l + 2, "ident")

PastPipe(l) == PastArguments(Scanner!qualifiedEnd(l + 2))

PipeOf(pipe) ==
  pipe = [l \in DOMAIN tokens |->
            IF ~Scanner!T(l + 1, "|>") THEN [end |-> l, methods |-> << >>]
            ELSE IF ~Scanner!T(l + 2, "ident") THEN [end |-> l + 1, methods |-> << >>]
            ELSE [end |-> pipe[PastPipe(l)].end,
                  methods |-> <<tokens[Scanner!qualifiedEnd(l + 2)].value>> \o pipe[PastPipe(l)].methods]]

LEMMA PastArgumentsIs ==
  ASSUME IsSequence(tokens), NEW l \in DOMAIN tokens
  PROVE  PastArguments(l) \in l .. Len(tokens)
<1>1. Len(tokens) \in Nat /\ l \in 1 .. Len(tokens)
  BY DEF IsSequence
<1>2. CASE Scanner!T(l + 1, "(")
  <2>1. l + 1 \in DOMAIN tokens
    BY <1>2 DEF Scanner!T
  <2>2. Scanner!skipBalanced(l + 1) \in l + 1 .. Len(tokens)
    BY <2>1, SkipBalancedEnds
  <2>. QED BY <1>1, <1>2, <2>2 DEF PastArguments
<1>3. CASE ~Scanner!T(l + 1, "(")
  BY <1>1, <1>3 DEF PastArguments
<1>. QED BY <1>2, <1>3

LEMMA PastPipeIs ==
  ASSUME IsSequence(tokens), NEW l \in DOMAIN tokens, Piped(l)
  PROVE  /\ PastPipe(l) \in DOMAIN tokens /\ PastPipe(l) > l
         /\ Scanner!qualifiedEnd(l + 2) \in DOMAIN tokens
<1>1. Len(tokens) \in Nat /\ DOMAIN tokens = 1 .. Len(tokens) /\ l \in 1 .. Len(tokens)
  BY DEF IsSequence
<1>2. l + 2 \in DOMAIN tokens /\ Scanner!T(l + 2, "ident")
  BY DEF Piped, Scanner!T
<1>. DEFINE m == l + 2
            step == Scanner!qualifiedEnd(m)
<1>3. step \in m .. Len(tokens)
  <2>1. m \in DOMAIN tokens /\ Scanner!T(m, "ident")
    BY <1>2
  <2>. HIDE DEF m
  <2>. QED BY <2>1, QualifiedEndIs
<1>4. step \in DOMAIN tokens /\ step >= m
  <2>. HIDE DEF step
  <2>. QED BY <1>1, <1>3
<1>5. PastArguments(step) \in step .. Len(tokens)
  <2>. HIDE DEF step
  <2>. QED BY <1>4, PastArgumentsIs
<1>6. PastPipe(l) = PastArguments(step)
  BY DEF PastPipe
<1>. HIDE DEF step
<1>7. PastPipe(l) \in DOMAIN tokens /\ PastPipe(l) > l
  BY <1>1, <1>3, <1>4, <1>5, <1>6
<1>. QED BY <1>4, <1>7 DEF step

\* So does walkGleamPipe, from pipe to pipe.
LEMMA PipeExists ==
  ASSUME IsSequence(tokens)
  PROVE  \E pipe : PipeOf(pipe)
<1>. DEFINE N == Len(tokens)
            D == DOMAIN tokens
            W == Seq({tokens[l].value : l \in D})
            V == [end : Nat, methods : W]
            rank == [l \in D |-> N - l]
            stop == {l \in D : ~Piped(l)}
            Base(l) == [end |-> IF Scanner!T(l + 1, "|>") THEN l + 1 ELSE l, methods |-> << >>]
            base == [l \in D |-> Base(l)]
            next == [l \in D |-> PastPipe(l)]
            Added(l, v) == [end |-> v.end, methods |-> <<tokens[Scanner!qualifiedEnd(l + 2)].value>> \o v.methods]
            step == [l \in D |-> [v \in V |-> Added(l, v)]]
<1>0. N \in Nat
  BY DEF IsSequence
<1>1. D = 1 .. N
  BY DEF IsSequence
<1>2. rank \in [D -> 0 .. N]
  BY <1>0, <1>1
<1>3. \A l \in D \ stop : next[l] \in D /\ next[l] > l /\ next[l] = PastPipe(l)
  <2>. SUFFICES ASSUME NEW l \in D, Piped(l) PROVE PastPipe(l) \in D /\ PastPipe(l) > l
    OBVIOUS
  <2>. QED BY PastPipeIs
<1>4. \A l \in D \ stop : rank[next[l]] < rank[l]
  <2>. HIDE DEF next, W, V
  <2>. QED BY <1>0, <1>1, <1>3
<1>5. \A l \in D \intersect stop : base[l] \in V
  BY <1>1
<1>6. \A l \in D \ stop : \A v \in V : Added(l, v) \in V
  <2>. SUFFICES ASSUME NEW l \in D, Piped(l), NEW v \in V PROVE Added(l, v) \in V
    OBVIOUS
  <2>1. Scanner!qualifiedEnd(l + 2) \in D
    BY PastPipeIs
  <2>2. <<tokens[Scanner!qualifiedEnd(l + 2)].value>> \in W /\ v.methods \in W /\ v.end \in Nat
    BY <2>1
  <2>3. <<tokens[Scanner!qualifiedEnd(l + 2)].value>> \o v.methods \in W
    BY <2>2
  <2>. HIDE DEF W, D
  <2>. QED BY <2>2, <2>3
<1>7. \A l \in D \ stop : \A v \in V : step[l][v] \in V
  <2>. HIDE DEF V, Added
  <2>. QED BY <1>6
<1>8. PICK f \in [D -> V] : Follows(f, D, stop, base, next, step)
  <2>1. \A l \in D \ stop : /\ next[l] \in D /\ rank[next[l]] < rank[l]
                            /\ \A v \in V : step[l][v] \in V
    <3>. HIDE DEF N, D, rank, stop, base, next, step, V
    <3>. QED BY <1>3, <1>4, <1>7
  <2>. HIDE DEF N, D, rank, stop, base, next, step, V
  <2>. QED BY <1>0, <1>2, <1>5, <2>1, Recursion
<1>9. \A l \in D : f[l] = IF ~Piped(l) THEN Base(l) ELSE Added(l, f[PastPipe(l)])
  <2>. SUFFICES ASSUME NEW l \in D PROVE f[l] = IF ~Piped(l) THEN Base(l) ELSE Added(l, f[PastPipe(l)])
    OBVIOUS
  <2>1. f[l] = IF l \in stop THEN base[l] ELSE step[l][f[next[l]]]
    <3>. HIDE DEF D, stop, base, next, step, V
    <3>. QED BY <1>8 DEF Follows
  <2>2. l \notin stop => f[PastPipe(l)] \in V /\ next[l] = PastPipe(l)
    <3>. HIDE DEF D, stop, next, V
    <3>. QED BY <1>3
  <2>3. \A v \in V : step[l][v] = Added(l, v)
    <3>. HIDE DEF V, Added
    <3>. QED OBVIOUS
  <2>4. base[l] = Base(l) /\ (l \in stop <=> ~Piped(l))
    <3>. HIDE DEF Base
    <3>. QED OBVIOUS
  <2>. HIDE DEF D, V, Added, Base, step, base, stop, next
  <2>. QED BY <2>1, <2>2, <2>3, <2>4
<1>10. f = [l \in D |-> f[l]]
  <2>. HIDE DEF V
  <2>. QED OBVIOUS
<1>. DEFINE At_(l) == IF ~Scanner!T(l + 1, "|>") THEN [end |-> l, methods |-> << >>]
                      ELSE IF ~Scanner!T(l + 2, "ident") THEN [end |-> l + 1, methods |-> << >>]
                      ELSE Added(l, f[PastPipe(l)])
<1>11. \A l \in D : f[l] = At_(l)
  <2>. SUFFICES ASSUME NEW l \in D PROVE f[l] = At_(l)
    OBVIOUS
  <2>1. f[l] = IF ~Piped(l) THEN Base(l) ELSE Added(l, f[PastPipe(l)])
    <3>. HIDE DEF Base, Added
    <3>. QED BY <1>9
  <2>. HIDE DEF Added, D, V
  <2>. QED BY <2>1 DEF Piped
<1>12. f = [l \in D |-> At_(l)]
  <2>. HIDE DEF V, At_, D
  <2>. QED BY <1>10, <1>11
<1>. HIDE DEF V
<1>. QED BY <1>12 DEF PipeOf

LEMMA PipePast ==
  ASSUME NEW pipe, PipeOf(pipe), NEW l \in DOMAIN tokens
  PROVE  IF Piped(l) THEN pipe[l].end = pipe[PastPipe(l)].end ELSE pipe[l].end \in {l, l + 1}
<1>. DEFINE D == DOMAIN tokens
            At_(m) == IF ~Scanner!T(m + 1, "|>") THEN [end |-> m, methods |-> << >>]
                      ELSE IF ~Scanner!T(m + 2, "ident") THEN [end |-> m + 1, methods |-> << >>]
                      ELSE [end |-> pipe[PastPipe(m)].end,
                            methods |-> <<tokens[Scanner!qualifiedEnd(m + 2)].value>> \o pipe[PastPipe(m)].methods]
<1>1. pipe = [m \in D |-> At_(m)]
  BY DEF PipeOf
<1>2. pipe[l] = At_(l)
  <2>1. l \in D
    OBVIOUS
  <2>. HIDE DEF At_, D
  <2>. QED BY <1>1, <2>1
<1>. QED BY <1>2 DEF Piped

LEMMA PipeEnd ==
  ASSUME IsSequence(tokens), NEW pipe, PipeOf(pipe)
  PROVE  \A l \in DOMAIN tokens : pipe[l].end \in Nat /\ pipe[l].end >= l
<1>. DEFINE N == Len(tokens)
            D == DOMAIN tokens
            rank == [l \in D |-> N - l]
            S == {l \in D : pipe[l].end \in Nat /\ pipe[l].end >= l}
<1>0. N \in Nat
  BY DEF IsSequence
<1>1. D = 1 .. N
  BY DEF IsSequence
<1>2. rank \in [D -> 0 .. N]
  BY <1>0, <1>1
<1>3. ASSUME NEW l \in D, \A c \in D : rank[c] < rank[l] => c \in S PROVE l \in S
  <2>0. IF Piped(l) THEN pipe[l].end = pipe[PastPipe(l)].end ELSE pipe[l].end \in {l, l + 1}
    BY PipePast
  <2>1. CASE ~Piped(l)
    BY <1>0, <1>1, <2>0, <2>1
  <2>2. CASE Piped(l)
    <3>1. pipe[l].end = pipe[PastPipe(l)].end
      BY <2>0, <2>2
    <3>2. PastPipe(l) \in D /\ PastPipe(l) > l
      BY <2>2, PastPipeIs
    <3>3. PastPipe(l) \in S
      BY <1>0, <1>1, <1>3, <3>2
    <3>. QED BY <1>0, <1>1, <3>1, <3>2, <3>3
  <2>. QED BY <2>1, <2>2
<1>4. D \subseteq S
  <2>. HIDE DEF D, S, rank, N
  <2>. QED BY <1>0, <1>2, <1>3, RankInduction
<1>. QED BY <1>4

LEMMA GleamChainEnds ==
  ASSUME IsSequence(tokens), i \in Nat \ {0}, Scanner!IsIdent(i, Scanner!LEVEL)
  PROVE  Scanner!GleamChain.end \in Nat /\ Scanner!GleamChain.end >= i
<1>. DEFINE start == Scanner!qualifiedStart(i)
            callee == Scanner!qualifiedEnd(start)
            pipe == CHOOSE pipe : PipeOf(pipe)
<1>1. Len(tokens) \in Nat /\ DOMAIN tokens = 1 .. Len(tokens) /\ Scanner!T(i, "ident") /\ i \in 1 .. Len(tokens)
  BY DEF IsSequence, Scanner!IsIdent, Scanner!T
<1>2. start \in 1 .. i /\ Scanner!Dotted(start, i)
  BY <1>1, QualifiedStartIs
<1>3. Scanner!T(start, "ident") /\ start \in DOMAIN tokens
  <2>. HIDE DEF start
  <2>1. start \in start .. i /\ (i - start) % 2 = 0
    BY <1>2 DEF Scanner!Dotted
  <2>. QED BY <1>1, <1>2, <2>1 DEF Scanner!Dotted
<1>4. callee \in start .. Len(tokens) /\ callee >= i
  <2>. HIDE DEF start
  <2>1. i \in start .. Len(tokens)
    BY <1>1, <1>2
  <2>2. callee \in start .. Len(tokens) /\ \A c \in start .. Len(tokens) : Scanner!Dotted(start, c) => c <= callee
    BY <1>3, QualifiedEndIs
  <2>. QED BY <1>2, <2>1, <2>2
<1>5. PipeOf(pipe)
  BY PipeExists
<1>6. Scanner!GleamChain.end = IF Scanner!T(callee + 1, "(") THEN pipe[PastArguments(callee)].end ELSE callee
  BY DEF Scanner!GleamChain, Scanner!walkGleamPipe, PipeOf, PastPipe, PastArguments
<1>. HIDE DEF start, callee, pipe
<1>7. callee \in DOMAIN tokens
  BY <1>1, <1>2, <1>4
<1>8. PastArguments(callee) \in DOMAIN tokens /\ PastArguments(callee) >= callee
  <2>1. PastArguments(callee) \in callee .. Len(tokens)
    BY <1>7, PastArgumentsIs
  <2>. QED BY <1>1, <1>7, <2>1
<1>9. pipe[PastArguments(callee)].end \in Nat /\ pipe[PastArguments(callee)].end >= PastArguments(callee)
  BY <1>5, <1>8, PipeEnd
<1>. QED BY <1>1, <1>4, <1>6, <1>7, <1>8, <1>9

-----------------------------------------------------------------------------
(* The places a run goes through, one after the other.                     *)

\* The scanner has a text it can read, and a place in it.
TokensInv == IsSequence(tokens) /\ i \in Nat \ {0}

AdvanceInv == TypeInv /\ ReportInv /\ TokensInv

LEMMA ChainEnds ==
  ASSUME TokensInv, Scanner!LevelMethod
  PROVE  Scanner!LevelChain.end \in Nat /\ Scanner!LevelChain.end >= i
<1>1. IsSequence(tokens) /\ i \in Nat \ {0} /\ i \in Nat /\ Scanner!IsIdent(i, Scanner!LEVEL)
  BY DEF TokensInv, Scanner!LevelMethod
<1>2. CASE language = "gleam"
  <2>1. Scanner!GleamChain.end \in Nat /\ Scanner!GleamChain.end >= i
    BY <1>1, GleamChainEnds
  <2>. QED BY <1>2, <2>1 DEF Scanner!LevelChain
<1>3. CASE language # "gleam"
  <2>1. Scanner!T(i - 1, ".") /\ Scanner!T(i + 1, "(") /\ Scanner!T(i - 2, "ident")
    BY <1>3 DEF Scanner!LevelMethod
  <2>2. Scanner!MethodChain.end \in Nat /\ Scanner!MethodChain.end >= i
    BY <1>1, <2>1, MethodChainEnds
  <2>. QED BY <1>3, <2>2 DEF Scanner!LevelChain
<1>. QED BY <1>2, <1>3

\* A round of the scanner's loop goes on in the file or ends it.
LEMMA RoundAdvances ==
  ASSUME TokensInv, Scanner!Round
  PROVE  /\ tokens' = tokens /\ i' \in Nat \ {0} /\ braces # << >>
         /\ i' > i \/ (i' = i /\ braces' = << >>)
<1>0. i \in Nat \ {0}
  BY DEF TokensInv
<1>1. tokens' = tokens /\ braces # << >>
  BY DEF Scanner!Round, Scanner!OpenScope, Scanner!CloseScope, Scanner!TerminalUse, Scanner!LevelCall,
         Scanner!Skip, Scanner!EndOfFile, Scanner!Unchanged, Scanner!Scanned
<1>2. CASE Scanner!OpenScope \/ Scanner!CloseScope \/ Scanner!TerminalUse \/ Scanner!Skip
  <2>1. i' = i + 1
    BY <1>2 DEF Scanner!OpenScope, Scanner!CloseScope, Scanner!TerminalUse, Scanner!Skip
  <2>. QED BY <1>0, <1>1, <2>1
<1>3. CASE Scanner!LevelCall
  <2>1. Scanner!LevelMethod /\ i' = Scanner!LevelChain.end + 1
    BY <1>3 DEF Scanner!LevelCall
  <2>2. Scanner!LevelChain.end \in Nat /\ Scanner!LevelChain.end >= i
    BY <2>1, ChainEnds
  <2>. QED BY <1>0, <1>1, <2>1, <2>2
<1>4. CASE Scanner!EndOfFile
  <2>1. i' = i /\ braces' = << >>
    BY <1>4 DEF Scanner!EndOfFile
  <2>. QED BY <1>0, <1>1, <2>1
<1>. QED BY <1>2, <1>3, <1>4 DEF Scanner!Round

LEMMA TokensInit == LintInit => TokensInv
<1>. SUFFICES ASSUME LintInit PROVE TokensInv
  OBVIOUS
<1>1. tokens = << >> /\ i = 1
  BY DEF LintInit, Scanner!Init
<1>. QED BY <1>1, LiteralSequences DEF TokensInv

LEMMA ScannedText ==
  ASSUME RunInv, AtFile, trackedFiles(File, repo.includeTests)
  PROVE  IsSequence(Text(File.program, File.kind))
<1>1. repo \in Repository /\ File \in SourceFile /\ File.kind \notin {"js", "ts"}
  BY FileType DEF RunInv, Place, AtFile, File, trackedFiles
<1>2. IsSequence(File.program)
  BY <1>1, SequenceIs DEF SourceFile
<1>3. \A l \in DOMAIN File.program : File.program[l].op \in Written
  BY <1>1, RepositoryAssumption DEF WellFormed, AtFile, File
<1>. DEFINE program == File.program
            lang == File.kind
<1>4. IsSequence(program) /\ \A l \in DOMAIN program : program[l].op \in Written
  BY <1>2, <1>3
<1>5. IsSequence(Text(program, lang))
  <2>. HIDE DEF program, lang
  <2>. QED BY <1>4, TextIs
<1>. QED BY <1>5

LEMMA TokensNext ==
  ASSUME RunInv, TokensInv, [LintNext]_allVars
  PROVE  TokensInv'
<1>1. CASE ScannerReads
  <2>1. AtFile /\ trackedFiles(File, repo.includeTests)
    BY <1>1 DEF ScannerReads
  <2>. DEFINE source == Text(File.program, File.kind)
  <2>2. IsSequence(source)
    BY <2>1, ScannedText
  <2>3. tokens' = Scanner!tokenize(source) /\ i' = 1
    BY <1>1 DEF ScannerReads, Scanner!analyzeSource
  <2>4. IsSequence(Scanner!tokenize(source))
    <3>. HIDE DEF source
    <3>. QED BY <2>2, TokensOf
  <2>5. IsSequence(tokens')
    <3>. HIDE DEF source
    <3>. QED BY <2>3, <2>4
  <2>. QED BY <2>3, <2>5 DEF TokensInv
<1>2. CASE ScannerRound
  <2>1. Scanner!Round
    BY <1>2 DEF ScannerRound
  <2>. QED BY <2>1, RoundAdvances DEF TokensInv
<1>3. CASE UNCHANGED scannerVars
  BY <1>3 DEF scannerVars, TokensInv
<1>. QED BY <1>1, <1>2, <1>3
     DEF LintNext, EslintSkips, EslintWalks, EslintListener, EslintDone, StartFormat, FormatStep, StartScanner,
         ScannerSkips, ScannerDone, Finish, Exited, allVars

LEMMA AdvanceInvariant == LintSpec => []AdvanceInv
<1>1. LintInit => RunInv /\ TokensInv
  BY RunInit, TokensInit
<1>2. RunInv /\ TokensInv /\ [LintNext]_allVars => (RunInv /\ TokensInv)'
  BY RunNext, TokensNext
<1>3. LintSpec => [](RunInv /\ TokensInv)
  BY <1>1, <1>2, PTL DEF LintSpec
<1>4. LintSpec => []TypeInv
  BY TypeInit, TypeNext, PTL DEF LintSpec
<1>. QED BY <1>3, <1>4, ReportInvariant, PTL DEF AdvanceInv

\* Positions are compared at the first place where they differ.
LEMMA FirstDifference ==
  ASSUME NEW p1, NEW p2, NEW p3, NEW p4, NEW p5, NEW q1, NEW q2, NEW q3, NEW q4, NEW q5,
         \/ p1 > q1
         \/ p1 = q1 /\ p2 > q2
         \/ p1 = q1 /\ p2 = q2 /\ p3 > q3
         \/ p1 = q1 /\ p2 = q2 /\ p3 = q3 /\ p4 > q4
         \/ p1 = q1 /\ p2 = q2 /\ p3 = q3 /\ p4 = q4 /\ p5 > q5
  PROVE  Later(<<p1, p2, p3, p4, p5>>, <<q1, q2, q3, q4, q5>>)
<1>. DEFINE p == <<p1, p2, p3, p4, p5>>
            q == <<q1, q2, q3, q4, q5>>
<1>1. /\ DOMAIN p = 1 .. 5
      /\ p[1] = p1 /\ p[2] = p2 /\ p[3] = p3 /\ p[4] = p4 /\ p[5] = p5
      /\ q[1] = q1 /\ q[2] = q2 /\ q[3] = q3 /\ q[4] = q4 /\ q[5] = q5
  OBVIOUS
<1>. HIDE DEF p, q
<1>2. \E n \in 1 .. 5 : p[n] > q[n] /\ \A m \in 1 .. n - 1 : p[m] = q[m]
  <2>1. CASE p[1] > q[1]
    BY <2>1
  <2>2. CASE p[1] = q[1] /\ p[2] > q[2]
    <3>1. 2 \in 1 .. 5 /\ \A m \in 1 .. 2 - 1 : m = 1
      OBVIOUS
    <3>. QED BY <2>2, <3>1
  <2>3. CASE p[1] = q[1] /\ p[2] = q[2] /\ p[3] > q[3]
    <3>1. 3 \in 1 .. 5 /\ \A m \in 1 .. 3 - 1 : m = 1 \/ m = 2
      OBVIOUS
    <3>. QED BY <2>3, <3>1
  <2>4. CASE p[1] = q[1] /\ p[2] = q[2] /\ p[3] = q[3] /\ p[4] > q[4]
    <3>1. 4 \in 1 .. 5 /\ \A m \in 1 .. 4 - 1 : m = 1 \/ m = 2 \/ m = 3
      OBVIOUS
    <3>. QED BY <2>4, <3>1
  <2>5. CASE p[1] = q[1] /\ p[2] = q[2] /\ p[3] = q[3] /\ p[4] = q[4] /\ p[5] > q[5]
    <3>1. 5 \in 1 .. 5 /\ \A m \in 1 .. 5 - 1 : m = 1 \/ m = 2 \/ m = 3 \/ m = 4
      OBVIOUS
    <3>. QED BY <2>5, <3>1
  <2>. QED BY <1>1, <2>1, <2>2, <2>3, <2>4, <2>5
<1>3. Later(p, q)
  BY <1>1, <1>2 DEF Later
<1>. QED BY <1>3 DEF p, q

LEMMA PositionIs ==
  /\ stage = "eslint" => Position = <<1, k, 0, 0, 0>>
  /\ stage = "rule" => Position = <<1, k, 1, at, 0>>
  /\ stage = "format" => Position = <<2, 0, IF report.kind = "none" THEN 0 ELSE 1, file, message>>
  /\ stage = "files" => Position = <<3, k, 0, 0, 0>>
  /\ stage = "scan" => Position = <<3, k, 1, i, IF Scanner!Scanned THEN 1 ELSE 0>>
  /\ stage = "done" => Position = <<4, 0, 0, 0, 0>>
<1>1. CASE stage = "eslint"
  BY <1>1 DEF Position
<1>2. CASE stage = "rule"
  BY <1>2 DEF Position
<1>3. CASE stage = "format"
  BY <1>3 DEF Position
<1>4. CASE stage = "files"
  BY <1>4 DEF Position
<1>5. CASE stage = "scan"
  BY <1>5 DEF Position
<1>6. CASE stage = "done"
  BY <1>6 DEF Position
<1>. QED BY <1>1, <1>2, <1>3, <1>4, <1>5, <1>6

\* The formatter goes on to the next message or the next file, or prints its report.
LEMMA FormatAdvances ==
  ASSUME RunInv, AtPlace, Report!Format
  PROVE  /\ report.kind = "none"
         /\ \/ report'.kind # "none"
            \/ report' = report /\ file' > file
            \/ report' = report /\ file' = file /\ message' > message
<1>1. file \in Nat /\ message \in Nat
  BY DEF RunInv, LintedSoFar, AtPlace, IsSequence
<1>2. report.kind = "none"
  BY DEF Report!Format, Report!NextFile, Report!WithoutRule, Report!OfRule, Report!Render, Report!InFile, Report!NoReport
<1>3. CASE Report!NextFile
  <2>1. report' = report /\ file' = file + 1
    BY <1>3 DEF Report!NextFile
  <2>. QED BY <1>1, <1>2, <2>1
<1>4. CASE Report!WithoutRule \/ Report!OfRule
  <2>1. report' = report /\ file' = file /\ message' = message + 1
    BY <1>4 DEF Report!WithoutRule, Report!OfRule, Report!NextMessage
  <2>. QED BY <1>1, <1>2, <2>1
<1>5. CASE Report!Render
  <2>1. report' = Report!Rendered
    BY <1>5 DEF Report!Render
  <2>2. Report!Rendered.kind # "none"
    BY DEF Report!Rendered
  <2>. QED BY <1>2, <2>1, <2>2
<1>. QED BY <1>3, <1>4, <1>5 DEF Report!Format

\* Every step of a run leaves it at a later place.
LEMMA Steps ==
  ASSUME AdvanceInv, [LintNext]_allVars
  PROVE  [Later(Position', Position)]_allVars
<1>. SUFFICES ASSUME LintNext PROVE Later(Position', Position) \/ UNCHANGED allVars
  OBVIOUS
<1>0. k \in Nat /\ at \in Nat /\ TokensInv /\ i \in Nat
  BY DEF AdvanceInv, TypeInv, RunInv, Place, RuleInv, ScopesLevel, TokensInv
<1>1. CASE EslintSkips
  <2>1. stage = "eslint" /\ stage' = "eslint" /\ k' > k
    BY <1>0, <1>1 DEF EslintSkips
  <2>2. Position = <<1, k, 0, 0, 0>> /\ Position' = <<1, k', 0, 0, 0>>
    BY <2>1 DEF Position
  <2>3. Later(<<1, k', 0, 0, 0>>, <<1, k, 0, 0, 0>>)
    BY <2>1, FirstDifference
  <2>. QED BY <2>2, <2>3
<1>2. CASE EslintWalks
  <2>1. stage = "eslint" /\ stage' = "rule" /\ k' = k
    BY <1>2 DEF EslintWalks
  <2>2. Position = <<1, k, 0, 0, 0>> /\ Position' = <<1, k', 1, at', 0>>
    BY <2>1 DEF Position
  <2>3. Later(<<1, k', 1, at', 0>>, <<1, k, 0, 0, 0>>)
    BY <2>1, FirstDifference
  <2>. QED BY <2>2, <2>3
<1>3. CASE EslintListener
  <2>1. stage = "rule" /\ stage' = "rule" /\ k' = k
    BY <1>3 DEF EslintListener, lintVars
  <2>2. at' > at
    <3>1. at' = at + 1
      BY <1>3 DEF EslintListener, Listener, FunctionEnter, FunctionExit, ArrowFunctionExpression, ImportDeclaration,
                  VariableDeclarator, AssignmentExpression, ReturnStatement, CallExpression, ExpressionStatement,
                  ProgramExit, Done
    <3>. QED BY <1>0, <3>1
  <2>3. Position = <<1, k, 1, at, 0>> /\ Position' = <<1, k', 1, at', 0>>
    BY <2>1 DEF Position
  <2>4. Later(<<1, k', 1, at', 0>>, <<1, k, 1, at, 0>>)
    BY <2>1, <2>2, FirstDifference
  <2>. QED BY <2>3, <2>4
<1>4. CASE EslintDone
  <2>1. stage = "rule" /\ stage' = "eslint" /\ k' > k
    BY <1>0, <1>4 DEF EslintDone
  <2>2. Position = <<1, k, 1, at, 0>> /\ Position' = <<1, k', 0, 0, 0>>
    BY <2>1 DEF Position
  <2>3. Later(<<1, k', 0, 0, 0>>, <<1, k, 1, at, 0>>)
    BY <2>1, FirstDifference
  <2>. QED BY <2>2, <2>3
<1>5. CASE StartFormat
  <2>1. stage = "eslint" /\ stage' = "format"
    BY <1>5 DEF StartFormat
  <2>2. Position = <<1, k, 0, 0, 0>> /\ Position' = <<2, 0, IF report'.kind = "none" THEN 0 ELSE 1, file', message'>>
    BY <2>1 DEF Position
  <2>3. Later(<<2, 0, IF report'.kind = "none" THEN 0 ELSE 1, file', message'>>, <<1, k, 0, 0, 0>>)
    BY FirstDifference
  <2>. QED BY <2>2, <2>3
<1>6. CASE FormatStep
  <2>. DEFINE was == IF report.kind = "none" THEN 0 ELSE 1
              is  == IF report'.kind = "none" THEN 0 ELSE 1
  <2>1. stage = "format" /\ stage' = "format" /\ Report!Format
    BY <1>6 DEF FormatStep, lintVars
  <2>2. AtPlace /\ RunInv
    BY <2>1 DEF AdvanceInv, ReportInv, FormatInv, ESLintStages
  <2>3. \/ is > was
        \/ is = was /\ file' > file
        \/ is = was /\ file' = file /\ message' > message
    BY <2>1, <2>2, FormatAdvances
  <2>4. Position = <<2, 0, was, file, message>> /\ Position' = <<2, 0, is, file', message'>>
    BY <2>1 DEF Position
  <2>. HIDE DEF was, is
  <2>5. Later(<<2, 0, is, file', message'>>, <<2, 0, was, file, message>>)
    BY <2>3, FirstDifference
  <2>. QED BY <2>4, <2>5
<1>7. CASE StartScanner
  <2>1. stage = "format" /\ stage' = "files"
    BY <1>7 DEF StartScanner
  <2>2. Position = <<2, 0, IF report.kind = "none" THEN 0 ELSE 1, file, message>> /\ Position' = <<3, k', 0, 0, 0>>
    BY <2>1 DEF Position
  <2>3. Later(<<3, k', 0, 0, 0>>, <<2, 0, IF report.kind = "none" THEN 0 ELSE 1, file, message>>)
    BY FirstDifference
  <2>. QED BY <2>2, <2>3
<1>8. CASE ScannerSkips
  <2>1. stage = "files" /\ stage' = "files" /\ k' > k
    BY <1>0, <1>8 DEF ScannerSkips
  <2>2. Position = <<3, k, 0, 0, 0>> /\ Position' = <<3, k', 0, 0, 0>>
    BY <2>1 DEF Position
  <2>3. Later(<<3, k', 0, 0, 0>>, <<3, k, 0, 0, 0>>)
    BY <2>1, FirstDifference
  <2>. QED BY <2>2, <2>3
<1>9. CASE ScannerReads
  <2>. DEFINE is == IF Scanner!Scanned' THEN 1 ELSE 0
  <2>1. stage = "files" /\ stage' = "scan" /\ k' = k
    BY <1>9 DEF ScannerReads
  <2>2. Position = <<3, k, 0, 0, 0>> /\ Position' = <<3, k', 1, i', is>>
    BY <2>1 DEF Position
  <2>. HIDE DEF is
  <2>3. Later(<<3, k', 1, i', is>>, <<3, k, 0, 0, 0>>)
    BY <2>1, FirstDifference
  <2>. QED BY <2>2, <2>3
<1>10. CASE ScannerRound
  <2>. DEFINE was == IF Scanner!Scanned THEN 1 ELSE 0
              is  == IF Scanner!Scanned' THEN 1 ELSE 0
  <2>1. stage = "scan" /\ stage' = "scan" /\ k' = k /\ Scanner!Round
    BY <1>10 DEF ScannerRound, lintVars
  <2>2. braces # << >> /\ (i' > i \/ (i' = i /\ braces' = << >>))
    BY <1>0, <2>1, RoundAdvances
  <2>3. i' > i \/ (i' = i /\ is > was)
    BY <2>2 DEF Scanner!Scanned
  <2>4. Position = <<3, k, 1, i, was>> /\ Position' = <<3, k', 1, i', is>>
    BY <2>1 DEF Position
  <2>. HIDE DEF was, is
  <2>5. Later(<<3, k', 1, i', is>>, <<3, k, 1, i, was>>)
    BY <2>1, <2>3, FirstDifference
  <2>. QED BY <2>4, <2>5
<1>11. CASE ScannerDone
  <2>. DEFINE was == IF Scanner!Scanned THEN 1 ELSE 0
  <2>1. stage = "scan" /\ stage' = "files" /\ k' > k
    BY <1>0, <1>11 DEF ScannerDone
  <2>2. Position = <<3, k, 1, i, was>> /\ Position' = <<3, k', 0, 0, 0>>
    BY <2>1 DEF Position
  <2>. HIDE DEF was
  <2>3. Later(<<3, k', 0, 0, 0>>, <<3, k, 1, i, was>>)
    BY <2>1, FirstDifference
  <2>. QED BY <2>2, <2>3
<1>12. CASE Finish
  <2>1. stage = "files" /\ stage' = "done"
    BY <1>12 DEF Finish
  <2>2. Position = <<3, k, 0, 0, 0>> /\ Position' = <<4, 0, 0, 0, 0>>
    BY <2>1 DEF Position
  <2>3. Later(<<4, 0, 0, 0, 0>>, <<3, k, 0, 0, 0>>)
    BY FirstDifference
  <2>. QED BY <2>2, <2>3
<1>13. CASE Exited
  BY <1>13 DEF Exited
<1>. QED BY <1>1, <1>2, <1>3, <1>4, <1>5, <1>6, <1>7, <1>8, <1>9, <1>10, <1>11, <1>12, <1>13 DEF LintNext

\* No repository makes a build hook hang in lint.sh: whatever the tools read, every step
\* brings the run to a later place - the rule to the next node, the formatter to the next
\* message, the scanner past the token or the whole chain it is at - until it exits.
THEOREM Advances == LintSpec => LintAdvances
<1>1. LintSpec => [][LintNext]_allVars
  BY DEF LintSpec
<1>2. LintSpec => [][Later(Position', Position)]_allVars
  BY <1>1, AdvanceInvariant, Steps, PTL
<1>. QED BY <1>2 DEF LintAdvances
=============================================================================
