------------------------------ MODULE OresLint ------------------------------
(***************************************************************************)
(* One run of lint.sh over a repository: ESLint with the configuration of  *)
(* base.mjs, the rules of plugin.mjs and the report of formatter.mjs on    *)
(* JavaScript and TypeScript, then require-send.mjs on Rust, Dart and      *)
(* Gleam, then the strict exit.                                            *)
(*                                                                         *)
(* A file is its kind, its path, the logging statements in it (program),   *)
(* the statements that may lack a semicolon, and what ESLint's other rules *)
(* say of it (others). EslintRequireSend is extended, so its vars are the  *)
(* ESLint rule's; the scanner's scopes are the braces.                     *)
(***************************************************************************)
EXTENDS EslintRequireSend, LintConfig, FallbackSemi, LoggingPrograms, Integers

CONSTANTS Repository,  \* what a run may find
          MAX          \* ORES_LINT_MAX_EXAMPLES

ASSUME MaxAssumption == MAX \in Nat \ {0}

IsSequence(s) == s \in Seq(ToSet(s))

\* No rule, the three the properties are about, and all the others of ESLint.
RuleId == {"none", "semi", "ores/semi", "ores/require-send"} \union STRING

LintMessage == [ruleId : RuleId, severity : {1, 2}, line : Nat]

\* A file is no repository.
SourceFile ==
  [kind : {"js", "ts", "rust", "dart", "gleam"}, path : Seq(STRING) \ ({<<>>} \union NestedRepos), test : BOOLEAN,
   program : Seq([op : STRING, name : STRING]), statements : Seq(Statement), others : Seq(LintMessage)]

\* The blocks a repository adds are for a parser the model knows, the braces of what
\* ESLint walks match - what it cannot parse has a message among the others instead - and
\* the statements of the scanner's languages are those with a text.
WellFormed(r) ==
  /\ r.files \in Seq(SourceFile)
  /\ \A n \in DOMAIN r.files :
       IF r.files[n].kind \in {"js", "ts"} THEN Matched(r.files[n].program)
       ELSE \A l \in DOMAIN r.files[n].program : r.files[n].program[l].op \in Written
  /\ r.env \in Environment
  /\ r.legacy \subseteq IgnoreLine
  /\ IsSequence(r.own) /\ \A block \in ToSet(r.own) : block.parser \in {"espree", "typescript"}
  /\ {r.strict, r.includeTests} \subseteq BOOLEAN

ASSUME RepositoryAssumption == \A r \in Repository : WellFormed(r)

ASSUME NestedAssumption == NestedRepos \subseteq Seq(STRING)

VARIABLES repo, stage,
          k,           \* the file the stage is at
          linted,      \* ESLint's messages, file by file
          scanned,     \* the scanner's findings, file by file
          exit,
          language, tokens, suppressions, i, braces, findings,
          results, file, message, byRule, parseErrors, files, errors, warnings, report

scannerVars == <<language, tokens, suppressions, i, braces, findings>>
reportVars  == <<results, file, message, byRule, parseErrors, files, errors, warnings, report>>
lintVars    == <<repo, stage, k, linted, scanned, exit>>

allVars == <<lintVars, scannerVars, vars, reportVars>>

Scanner == INSTANCE RequireSend
             WITH scopes <- braces, Word <- Words, Logger <- {"log"}, Source <- {}, Language <- {"rust", "dart", "gleam"}

Report == INSTANCE LintReport WITH Result <- {}

NoExit == -1

LintInit ==
  /\ repo \in Repository
  /\ stage = "eslint" /\ k = 1
  /\ linted = <<>> /\ scanned = <<>>
  /\ exit = NoExit
  /\ Scanner!Init /\ language = "rust"
  /\ Init
  /\ Report!Init

-----------------------------------------------------------------------------
AtFile == k \in DOMAIN repo.files

File == repo.files[k]

Config == oresConfig(repo.env, repo)

LintedByEslint(f) == f.kind \in {"js", "ts"} /\ Linted(Config, f, repo.own)

Parser(f) == ParserOf(Config, f, repo.own)

\* ESLint's own parser stops at the types of a TypeScript file.
Parses(f) == f.kind = "js" \/ Parser(f) = "typescript"

\* The statements in which ESLint's own semi rule misses a semicolon.
CoreSemi(s) ==
  /\ ~s.semicolon
  /\ \/ s.type \in NEEDS_SEMI \ TypeScriptOnly
     \/ s.type = "VariableDeclaration" /\ ~s.forHead
     \/ s.type = "ExportNamedDeclaration" /\ s.declaration \in {"none", "VariableDeclaration"}
     \/ s.type = "ExportDefaultDeclaration" /\ s.declaration \notin {"FunctionDeclaration", "ClassDeclaration"}

\* A rule's messages: one for each of the lines it was raised on.
Messages(f, ruleId, lines) ==
  LET level == RulesFor(Config, f, repo.own)[ruleId]
      Said(line) == [ruleId |-> ruleId, severity |-> IF level = "error" THEN 2 ELSE 1, line |-> line]
  IN IF ~RuleOn(Config, f, repo.own, ruleId) THEN <<>>
     ELSE [n \in 1 .. Cardinality(lines) |->
             Said(CHOOSE line \in lines : Cardinality({other \in lines : other < line}) = n - 1)]

\* What ESLint hands to the formatter for a file. It takes back what a comment of its
\* own disables on the next line; it knows no ores-lint comment.
EslintMessages(f, raised) ==
  LET Disabled(line) == line > 1 /\ f.program[line - 1].op = "eslint_next"
      missing(P(_)) == {n \in DOMAIN f.statements : P(f.statements[n])}
  IN IF ~Parses(f) THEN <<[ruleId |-> "none", severity |-> 2, line |-> 0]>> ELSE
     Messages(f, "ores/require-send", {line \in DOMAIN f.program : line \in raised /\ ~Disabled(line)})
       \o Messages(f, "semi", missing(CoreSemi))
       \o Messages(f, "ores/semi", missing(LAMBDA s : missingSemi(s) # {}))
       \o f.others

-----------------------------------------------------------------------------
EslintSkips ==
  /\ stage = "eslint" /\ AtFile
  /\ ~LintedByEslint(File)
  /\ k' = k + 1
  /\ UNCHANGED <<repo, stage, linted, scanned, exit, scannerVars, vars, reportVars>>

EslintWalks ==
  /\ stage = "eslint" /\ AtFile
  /\ LintedByEslint(File)
  /\ create(IF Parses(File) THEN Visits(File.program) ELSE <<>>)
  /\ stage' = "rule"
  /\ UNCHANGED <<repo, k, linted, scanned, exit, scannerVars, reportVars>>

EslintListener ==
  /\ stage = "rule"
  /\ Listener
  /\ UNCHANGED <<lintVars, scannerVars, reportVars>>

EslintDone ==
  /\ stage = "rule" /\ Checked
  /\ linted' = Append(linted, [file |-> k, parser |-> Parser(File),
                               messages |-> EslintMessages(File, {visits[v].line : v \in reports})])
  /\ stage' = "eslint" /\ k' = k + 1
  /\ UNCHANGED <<repo, scanned, exit, scannerVars, vars, reportVars>>

StartFormat ==
  /\ stage = "eslint" /\ ~AtFile
  /\ Report!oresFormatter([n \in DOMAIN linted |-> linted[n].messages])
  /\ stage' = "format"
  /\ UNCHANGED <<repo, k, linted, scanned, exit, scannerVars, vars>>

FormatStep ==
  /\ stage = "format"
  /\ Report!Format
  /\ UNCHANGED <<lintVars, scannerVars, vars>>

\* main of require-send.mjs takes the tracked files in turn.
StartScanner ==
  /\ stage = "format" /\ report.kind # "none"
  /\ stage' = "files" /\ k' = 1
  /\ UNCHANGED <<repo, linted, scanned, exit, scannerVars, vars, reportVars>>

ScannerSkips ==
  /\ stage = "files" /\ AtFile
  /\ ~trackedFiles(File, repo.includeTests)
  /\ k' = k + 1
  /\ UNCHANGED <<repo, stage, linted, scanned, exit, scannerVars, vars, reportVars>>

ScannerReads ==
  /\ stage = "files" /\ AtFile
  /\ trackedFiles(File, repo.includeTests)
  /\ Scanner!analyzeSource(Text(File.program, File.kind), File.kind)
  /\ stage' = "scan"
  /\ UNCHANGED <<repo, k, linted, scanned, exit, vars, reportVars>>

ScannerRound ==
  /\ stage = "scan"
  /\ Scanner!Round
  /\ UNCHANGED <<lintVars, vars, reportVars>>

ScannerDone ==
  /\ stage = "scan" /\ Scanner!Scanned
  /\ scanned' = Append(scanned, [file |-> k, findings |-> findings])
  /\ stage' = "files" /\ k' = k + 1
  /\ UNCHANGED <<repo, linted, exit, scannerVars, vars, reportVars>>

ScannerReport == Report!formatReport([n \in DOMAIN scanned |-> scanned[n].findings])

Finish ==
  /\ stage = "files" /\ ~AtFile
  /\ exit' = Report!exitStatus(repo.strict, {report, ScannerReport})
  /\ stage' = "done"
  /\ UNCHANGED <<repo, k, linted, scanned, scannerVars, vars, reportVars>>

Exited == stage = "done" /\ UNCHANGED allVars

LintNext ==
  \/ EslintSkips \/ EslintWalks \/ EslintListener \/ EslintDone
  \/ StartFormat \/ FormatStep
  \/ StartScanner \/ ScannerSkips \/ ScannerReads \/ ScannerRound \/ ScannerDone
  \/ Finish \/ Exited

LintSpec == LintInit /\ [][LintNext]_allVars

-----------------------------------------------------------------------------
FileOf(done) == repo.files[done.file]

LinesOf(done, ruleIds) ==
  {done.messages[n].line : n \in {m \in DOMAIN done.messages : done.messages[m].ruleId \in ruleIds}}

LinesFound(done) == {event.line : event \in done.findings}

TypeOK ==
  /\ stage \in {"eslint", "rule", "format", "files", "scan", "done"}
  /\ k \in 1 .. Len(repo.files) + 1
  /\ \A n \in DOMAIN linted : linted[n].file < k \/ stage \notin {"eslint", "rule"}
  /\ Len(scopes) > 0 <=> ~Checked
  /\ \A s \in DOMAIN scopes : \A p \in scopes[s] : p.event \in 1 .. at - 1
  /\ stage # "scan" => Scanner!Scanned
  \* the scope of the file ends with the file, however the braces match
  /\ Scanner!Scanned => i > Len(tokens)
  /\ exit \in {NoExit, 0, 1}

\* The statements of which both checkers promise the same.
BothRead == {"drop", "quoted", "commented", "emit", "bind", "send", "give", "return_chain",
             "function", "block", "close", "eslint_next"}

ScannerReadsToo == BothRead \union Overrides \union {"tail", "convenience", "two_arguments"}

\* Whatever a program does with the events it names - in scopes and blocks, under a
\* name of an outer scope too - the scanner reports only those that nothing delivers,
\* and all of them where no name is used for two events.
ScannerExact ==
  \A n \in DOMAIN scanned :
    LET f       == FileOf(scanned[n])
        ignored == NeverDelivered(f.program, f.kind) \ Overridden(f.program, Overrides)
    IN (\A s \in ToSet(f.program) : s.op \in ScannerReadsToo) =>
         /\ LinesFound(scanned[n]) \subseteq ignored
         /\ BoundOnce(f.program) => LinesFound(scanned[n]) = ignored

\* So does the ESLint rule unless a block hides a name, since its scopes are functions;
\* and it follows events that are assigned, passed to scopes, returned or sent through
\* further calls, and loggers that are imported or made from others.
RuleExact ==
  \A n \in DOMAIN linted :
    LET f       == FileOf(linted[n])
        raised  == LinesOf(linted[n], {"ores/require-send"})
        ignored == NeverDelivered(f.program, "js") \ Overridden(f.program, {"eslint_next"})
    IN (Parses(f) /\ RuleOn(Config, f, repo.own, "ores/require-send")) =>
         /\ ~BoundInBlock(f.program) => raised \subseteq ignored
         /\ BoundOnce(f.program) => raised = ignored

\* The contract the two checkers are said to share: the same program is judged alike
\* in JavaScript and in the languages of the scanner.
SameContract ==
  \A n \in DOMAIN linted, m \in DOMAIN scanned :
    FileOf(linted[n]).program = FileOf(scanned[m]).program =>
      LinesOf(linted[n], {"ores/require-send"}) = LinesFound(scanned[m])

\* What gitignore means by a line of .eslintignore.
Gitignored(line, path) ==
  \E first \in DOMAIN path :
    LET rest == SubSeq(path, first, Len(path))
    IN /\ first > 1 => ~line.rooted /\ Len(line.path) = 1
       /\ IsPrefix(line.path, rest)
       /\ line.directory => Len(rest) > Len(line.path)

\* Lines the configuration can say: without exceptions, and without directory names
\* that count anywhere.
Portable(line) == ~line.negated /\ (line.directory => line.rooted \/ Len(line.path) > 1)

LeftOut(f) ==
  \/ \E name \in IGNORES : name \in ToSet(Front(f.path))
  \/ \E nested \in NestedRepos : IsStrictPrefix(nested, f.path)
  \/ \E line \in repo.legacy : ~line.comment /\ Gitignored(line, f.path)

\* ESLint examines every JavaScript file that nobody left out and no other; whichever
\* form the repository names its ignored files in, they stay ignored.
IgnoresKept ==
  stage = "done" /\ (\A line \in repo.legacy : Portable(line)) =>
    \A n \in DOMAIN repo.files :
      repo.files[n].kind = "js" =>
        (LeftOut(repo.files[n]) <=> \A done \in ToSet(linted) : done.file # n)

\* Neither checker reports on a repository inside this one.
NestedLeftAlone ==
  \A done \in ToSet(linted) \union ToSet(scanned) :
    \A nested \in NestedRepos : ~IsPrefix(nested, FileOf(done).path)

\* Whatever is installed and whatever blocks the repository adds, JavaScript's parser
\* never gets TypeScript: such a file is left out, and then a note says so unless a
\* package is there that cannot be used.
TypeScriptNeverParsedAsJs ==
  /\ \A done \in ToSet(linted) : FileOf(done).kind = "ts" => done.parser = "typescript"
  /\ stage = "done" =>
       \A n \in DOMAIN repo.files :
         LET f == repo.files[n]
         IN (f.kind = "ts" /\ ~LeftOut(f) /\ \A done \in ToSet(linted) : done.file # n) =>
              \/ NotePrinted(repo.env, TRUE)
              \/ \E id \in Candidates : tryResolve(repo.env, id) /\ repo.env.imported[id] # "complete"

SemicolonRules == {"semi", "ores/semi"}

\* The repository leaves the semicolon rules as base.mjs has them.
SemicolonsLeftToBase ==
  \A rules \in {repo.rules} \union {block.rules : block \in ToSet(repo.own)} : SemicolonRules \intersect DOMAIN rules = {}

\* Whether ESLint still has its semicolon rules or not, the same JavaScript statements
\* are told that they lack one.
SemicolonsAlike ==
  \A done \in ToSet(linted) :
    LET f  == FileOf(done)
        js == {n \in DOMAIN f.statements : {f.statements[n].type, f.statements[n].declaration} \intersect TypeScriptOnly = {}}
    IN (SemicolonsLeftToBase /\ \A m \in ToSet(f.others) : m.ruleId \notin SemicolonRules) =>
         LinesOf(done, SemicolonRules) \intersect js = {n \in js : CoreSemi(f.statements[n])}

\* The places of ESLint's messages: the result and the message in it.
Places == UNION {{<<n, m>> : m \in DOMAIN linted[n].messages} : n \in DOMAIN linted}

MessageAt(p) == linted[p[1]].messages[p[2]]

PlacesOf(ruleId) == {p \in Places : MessageAt(p).ruleId = ruleId}

\* The report hides no message behind its cap: shown and "more" make up every rule's
\* count, the counts make up the total, and each is what ESLint found.
ReportAddsUp ==
  report.kind = "findings" =>
    /\ report.total = Cardinality(Places)
    /\ report.examined = Len(linted)
    /\ report.files = Cardinality({n \in DOMAIN linted : linted[n].messages # <<>>})
    /\ report.unparsed.count = Cardinality(PlacesOf("none"))
    /\ {report.rules[n].ruleId : n \in DOMAIN report.rules} = {MessageAt(p).ruleId : p \in Places} \ {"none"}
    /\ \A rule \in ToSet(report.rules) :
         /\ rule.count = Cardinality(PlacesOf(rule.ruleId))
         /\ rule.shown + rule.more = rule.count

\* Missing semicolons and undelivered events come before everything else.
HouseRulesFirst ==
  report.kind = "findings" =>
    \A m, n \in DOMAIN report.rules :
      m < n =>
        \/ report.rules[m].ruleId \in Report!LABELS /\ report.rules[n].ruleId \notin Report!LABELS
        \/ /\ report.rules[m].ruleId \in Report!LABELS <=> report.rules[n].ruleId \in Report!LABELS
           /\ report.rules[m].count >= report.rules[n].count

\* "clean" is said of files that were read and had nothing against them; a run that
\* read none says that.
CleanMeansExamined ==
  /\ report.kind = "clean" => linted # <<>> /\ Places = {}
  /\ report.kind = "no lintable files" => linted = <<>>

\* A build fails only where the repository asked for it, and then for whatever either
\* half found, in any file.
StrictExact ==
  stage = "done" =>
    (exit = 1 <=> repo.strict /\ (Places # {} \/ \E done \in ToSet(scanned) : done.findings # {}))

\* How far a run is: the tool, the file, whether it is open, and the place in it.
Position ==
  CASE stage = "eslint" -> <<1, k, 0, 0, 0>>
    [] stage = "rule"   -> <<1, k, 1, at, 0>>
    [] stage = "format" -> <<2, 0, IF report.kind = "none" THEN 0 ELSE 1, file, message>>
    [] stage = "files"  -> <<3, k, 0, 0, 0>>
    [] stage = "scan"   -> <<3, k, 1, i, IF Scanner!Scanned THEN 1 ELSE 0>>
    [] stage = "done"   -> <<4, 0, 0, 0, 0>>

Later(p, q) == \E n \in DOMAIN p : p[n] > q[n] /\ \A m \in 1 .. n - 1 : p[m] = q[m]

\* No source makes a build hook hang: every step of the run is one further on, in the
\* scanner past the whole of a chain it has read, and nothing but the end stops it.
LintAdvances == [][Later(Position', Position)]_allVars
=============================================================================
