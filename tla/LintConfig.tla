----------------------------- MODULE LintConfig -----------------------------
(***************************************************************************)
(* Which files are checked, by which parser and which rules: the flat      *)
(* ESLint configuration base.mjs builds from what it finds installed, the  *)
(* note of js.sh about TypeScript, and the files require-send.mjs picks.   *)
(*                                                                         *)
(* A path is a sequence of directory names and a file name.  How ESLint    *)
(* reads a configuration (Ignored, Applying, RulesFor, ParserOf) is        *)
(* external.                                                               *)
(***************************************************************************)
EXTENDS Naturals, Sequences, FiniteSetsExt

CONSTANT NestedRepos  \* nested-repos.json: paths of repositories inside this one

\* The directories ESLint leaves out, and those the scanner leaves out.
IGNORES  == {"node_modules", "dist", "build", "out", "target", "coverage", ".next", "vendor", ".ores-lint"}
SKIP_DIR == IGNORES \union {".git", ".worktrees", "_to_delete", ".vendor", "deps", "third_party",
                            "thirdparty", "external", "submodules", ".r2g"}

Candidates == {"typescript-eslint", "@typescript-eslint/parser"}

Packages == Candidates \union {"eslint/use-at-your-own-risk"}

\* Where each package is installed, what importing it gives, and whether js.sh or
\* the user named a global directory.
Environment ==
  [installed : [Packages -> {"nowhere", "local", "global"}],
   imported : [Packages -> {"throws", "complete", "incomplete"}],
   extraPaths : BOOLEAN]

Level == {"off", "warn", "error"}

-----------------------------------------------------------------------------
tryResolve(env, id) ==
  \/ env.installed[id] = "local"
  \/ env.installed[id] = "global" /\ env.extraPaths

\* What cannot be inspected is taken to have the core rule.
coreSemiAvailable(env) ==
  (tryResolve(env, "eslint/use-at-your-own-risk") /\ env.imported["eslint/use-at-your-own-risk"] # "throws")
    => env.imported["eslint/use-at-your-own-risk"] = "complete"

\* The first candidate that resolves, can be imported and has a parser.
loadTsSupport(env) == \E id \in Candidates : tryResolve(env, id) /\ env.imported[id] = "complete"

\* js.sh asks only whether a candidate resolves.
NotePrinted(env, looksTypeScript) == looksTypeScript /\ \A id \in Candidates : ~tryResolve(env, id)

-----------------------------------------------------------------------------
\* A line of .eslintignore without wildcards: /build, docs/api, dist/, !keep, # text.
IgnoreLine == [comment : BOOLEAN, negated : BOOLEAN, rooted : BOOLEAN, path : Seq(STRING) \ {<<>>}, directory : BOOLEAN]

\* A glob of path names: at the root or anywhere, the thing named or what is in it.
Glob == [anchored : BOOLEAN, path : Seq(STRING), inside : BOOLEAN]

\* Mutant of legacyIgnoreFile: every line is anchored at the root.
legacyIgnoreFile_anchored(lines) ==
  {[anchored |-> TRUE, path |-> l.path, inside |-> l.directory] :
     l \in {x \in lines : ~x.comment /\ ~x.negated}}

\* A line with any slash is anchored, one with a trailing slash names contents.
legacyIgnoreFile(lines) ==
  {[anchored |-> l.rooted \/ l.directory \/ Len(l.path) > 1, path |-> l.path, inside |-> l.directory] :
     l \in {x \in lines : ~x.comment /\ ~x.negated}}

Anywhere(names) == {[anchored |-> FALSE, path |-> <<name>>, inside |-> TRUE] : name \in names}

nestedRepoIgnores == {[anchored |-> TRUE, path |-> repo, inside |-> TRUE] : repo \in NestedRepos}

\* A file is ignored with the thing a glob names, or what contains the file.
Matches(glob, path) ==
  \E first \in 1 .. Len(path) :
    LET last == first + Len(glob.path) - 1
    IN /\ glob.anchored => first = 1
       /\ last <= Len(path) /\ SubSeq(path, first, last) = glob.path
       /\ glob.inside => last < Len(path)

Block(kind, parser, rules) == [kind |-> kind, parser |-> parser, rules |-> rules]

\* The later of two sets of rules wins.
Merged(rules, over) == [r \in DOMAIN rules \union DOMAIN over |-> IF r \in DOMAIN over THEN over[r] ELSE rules[r]]

semiRules(env) ==
  IF coreSemiAvailable(env)
  THEN [r \in {"semi", "no-extra-semi", "semi-style"} |-> "warn"]
  ELSE [r \in {"ores/semi"} |-> "warn"]

\* The other rules of the list are warnings like eqeqeq.
correctness == [r \in {"ores/require-send", "no-unused-vars", "eqeqeq"} |-> "warn"]

\* The rules of the TypeScript block: unused names are the compiler's business.
tsRules(env) == Merged(Merged(semiRules(env), correctness), [r \in {"no-unused-vars"} |-> "off"])

\* Mutant of oresConfig: TypeScript without a parser is merely not matched.
oresConfig_unmatched(env, opts) ==
  [ignores |-> Anywhere(IGNORES) \union nestedRepoIgnores \union legacyIgnoreFile(opts.legacy),
   ignoresTs |-> FALSE,
   blocks |-> <<Block("js", "espree", Merged(Merged(semiRules(env), correctness), opts.rules))>>
                \o (IF loadTsSupport(env) THEN <<Block("ts", "typescript", Merged(tsRules(env), opts.rules))>>
                    ELSE <<>>)]

\* opts: lines of .eslintignore and the rules the repository overrides.
oresConfig(env, opts) ==
  [ignores |-> Anywhere(IGNORES) \union nestedRepoIgnores \union legacyIgnoreFile(opts.legacy),
   ignoresTs |-> ~loadTsSupport(env),
   blocks |-> <<Block("js", "espree", Merged(Merged(semiRules(env), correctness), opts.rules))>>
                \o (IF loadTsSupport(env) THEN <<Block("ts", "typescript", Merged(tsRules(env), opts.rules))>>
                    ELSE <<>>)]

-----------------------------------------------------------------------------
\* ESLint: a file is linted unless it is ignored or no block names its kind; of the
\* blocks that do, own blocks of the repository last, the later ones win.
Ignored(config, file) ==
  (file.kind = "ts" /\ config.ignoresTs) \/ \E glob \in config.ignores : Matches(glob, file.path)

Applying(blocks, file) == {n \in DOMAIN blocks : blocks[n].kind = file.kind}

Linted(config, file, own) == ~Ignored(config, file) /\ Applying(config.blocks \o own, file) # {}

\* Every rule that is named, as the last block that names it has it.
RulesFor(config, file, own) ==
  LET blocks == config.blocks \o own
      naming(r) == {n \in Applying(blocks, file) : r \in DOMAIN blocks[n].rules}
  IN [r \in UNION {DOMAIN blocks[n].rules : n \in Applying(blocks, file)} |-> blocks[Max(naming(r))].rules[r]]

RuleOn(config, file, own, rule) ==
  rule \in DOMAIN RulesFor(config, file, own) /\ RulesFor(config, file, own)[rule] # "off"

\* The last block that names a parser decides; ESLint's own reads JavaScript.
ParserOf(config, file, own) ==
  LET blocks == config.blocks \o own
      naming == {n \in Applying(blocks, file) : blocks[n].parser # "espree"}
  IN IF naming = {} THEN "espree" ELSE blocks[Max(naming)].parser

-----------------------------------------------------------------------------
\* Mutant of trackedFiles: nested repositories are scanned like any directory.
trackedFiles_nested(file, includeTests) ==
  /\ file.kind \in {"rust", "dart", "gleam"}
  /\ \A k \in DOMAIN file.path : file.path[k] \notin SKIP_DIR
  /\ ~includeTests => ~file.test

\* The tracked files require-send.mjs reads.
trackedFiles(file, includeTests) ==
  /\ file.kind \in {"rust", "dart", "gleam"}
  /\ \A k \in DOMAIN file.path : file.path[k] \notin SKIP_DIR
  /\ \A repo \in NestedRepos :
       file.path # repo /\ ~(Len(repo) <= Len(file.path) /\ SubSeq(file.path, 1, Len(repo)) = repo)
  /\ ~includeTests => ~file.test
=============================================================================
