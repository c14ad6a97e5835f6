---------------------------- MODULE MC_OresLint ----------------------------
(***************************************************************************)
(* Small repositories, each made to vary one thing: what the programs log, *)
(* what is installed, what is ignored, which semicolons are missing, or    *)
(* what ESLint has to say.                                                 *)
(***************************************************************************)
EXTENDS OresLint

Installed == [installed |-> [id \in Packages |-> "global"], imported |-> [id \in Packages |-> "complete"],
              extraPaths |-> TRUE]

Plain(given) ==
  [files |-> given, env |-> Installed, legacy |-> {}, rules |-> <<>>, own |-> <<>>,
   strict |-> TRUE, includeTests |-> FALSE]

At_(kind, path, program) ==
  [kind |-> kind, path |-> path, test |-> FALSE, program |-> program, statements |-> <<>>, others |-> <<>>]

Source_(kind, program) == At_(kind, <<"src", "a">>, program)

-----------------------------------------------------------------------------
Unnamed(ops)  == {Stmt(op, "") : op \in ops}
Named(ops)    == {Stmt(op, "e") : op \in ops}

Closed(program) == program \o [n \in 1 .. Len(Nest(program)[Len(program)]) |-> Stmt("close", "")]

\* Names are used where they are bound, and braces match.
Valid(program) ==
  /\ \A n \in DOMAIN program : program[n].op \in Deliveries => Resolve(program, n) # 0
  /\ \A n \in DOMAIN program : program[n].op \in OfImport => \E l \in 1 .. n - 1 : program[l].op = "import"
  /\ \A n \in DOMAIN program :
       program[n].op = "child_drop" =>
         \E l \in 1 .. n - 1 : program[l].op \in Children /\ Visible(program, l, n)
  /\ \A n \in DOMAIN program :
       program[n].op \in {"return_name", "return_chain"} =>
         \E o \in ToSet(Nest(program)[n]) : program[o].op = "function"
  /\ \A n \in DOMAIN program : program[n].op = "import" => Nest(program)[n] = <<>>
  /\ \A n \in DOMAIN program : program[n].op = "close" => Nest(program)[n - 1] # <<>>
  /\ \A n \in DOMAIN program : program[n].op = "tail" => n < Len(program) /\ program[n + 1].op = "close"

\* JavaScript does not declare a name twice in one block.
Redeclares(program) ==
  \E l, n \in DOMAIN program :
    /\ l < n /\ Home(program, l) = Home(program, n)
    /\ \/ program[l].op = "bind" /\ program[n] = program[l]
       \/ {program[l].op, program[n].op} \subseteq Children

Programs(statements, n) ==
  {program \in {Closed(p) : p \in SeqOf(statements, n)} : Valid(program) /\ ~Redeclares(program)}

\* In the languages of the scanner statements stand in a function.
InFunction(programs) ==
  {program \in {Closed(<<Stmt("function", "")>> \o p) : p \in programs} :
     \A n \in 1 .. Len(program) - 1 : Nest(program)[n] # <<>>}

Scopes == Unnamed({"function", "block", "close"}) \union Named({"bind", "send"})

ScannerPrograms ==
  {program \in InFunction(SeqOf(Unnamed(ScannerReadsToo \ {"bind", "send", "give"})
                                  \union Named({"bind", "send", "give"}), 2)
                            \union SeqOf(Scopes, 5)) : Valid(program)}

\* Files in the middle of an edit.
Broken == {<<Stmt("close", ""), Stmt("drop", "")>>, <<Stmt("drop", ""), Stmt("open_call", ""), Stmt("drop", "")>>}

\* Blocks within functions that bind a name of their own.
HidingPrograms == Programs(Unnamed({"function", "block", "close"}) \union Named({"bind", "return_name"}), 6)

RulePrograms ==
  Programs(Unnamed({"drop", "emit", "return_chain", "function", "block", "close", "eslint_next"})
             \union Named(Bindings \union Deliveries), 3)
    \union Programs(Scopes \union Named({"assign"}), 5)
    \union HidingPrograms
    \union Programs(Unnamed(Children \union OfImport \union {"import", "child_drop", "function", "close"}), 4)

\* Statements a language does not have.
Foreign == [rust |-> {}, dart |-> {"tail"}, gleam |-> {"convenience"}]

OfPrograms ==
  UNION {{Plain(<<Source_(kind, program)>>) :
            program \in {p \in ScannerPrograms \union Broken : \A n \in DOMAIN p : p[n].op \notin Foreign[kind]}} :
           kind \in DOMAIN Foreign}
    \union {Plain(<<Source_("js", program)>>) : program \in RulePrograms}

-----------------------------------------------------------------------------
Drop == <<Stmt("drop", "")>>

OwnBlock(kind, level) == Block(kind, "espree", [r \in {"eqeqeq"} |-> level])

\* Everything that may be installed, for a file of each kind.
OfEnvironments ==
  {[Plain(<<Source_("js", Drop), Source_("ts", Drop)>>) EXCEPT !.env = env, !.own = own] :
     env \in Environment, own \in {<<>>, <<OwnBlock("ts", "error")>>}}

\* Overrides of rules, by options and by blocks.
OfRules ==
  {[Plain(<<Source_("js", Drop)>>) EXCEPT !.rules = [r \in {"ores/require-send"} |-> level],
                                          !.own = <<Block("js", "espree", [r \in {"ores/require-send"} |-> own])>>] :
     level, own \in Level}

Paths == {<<"a">>, <<"src", "a">>, <<"src", "docs", "a">>, <<"docs", "a">>, <<"docs", "src", "a">>,
          <<"build", "a">>, <<"nested", "a">>, <<"nested", "src", "a">>, <<"src", "nested", "a">>,
          <<"deps", "a">>}

Line_(negated, rooted, path, directory) ==
  [comment |-> FALSE, negated |-> negated, rooted |-> rooted, path |-> path, directory |-> directory]

IgnoreLines ==
  {Line_(FALSE, rooted, path, directory) :
     rooted, directory \in BOOLEAN, path \in {<<"a">>, <<"docs">>, <<"src">>, <<"src", "docs">>}}
    \union {Line_(TRUE, FALSE, <<"a">>, FALSE), [Line_(FALSE, FALSE, <<"a">>, FALSE) EXCEPT !.comment = TRUE]}

\* Where files are and what .eslintignore says of them; tests, which the scanner
\* passes over unless it is told not to.
OfPaths ==
  {[Plain(<<At_("js", path, Drop)>>) EXCEPT !.legacy = legacy] : path \in Paths, legacy \in {{}} \union {{l} : l \in IgnoreLines}}
    \union {[Plain(<<[At_("rust", path, Drop) EXCEPT !.test = test]>>) EXCEPT !.includeTests = included] :
              path \in Paths, test, included \in BOOLEAN}

-----------------------------------------------------------------------------
NoSemicolon(type, declaration, forHead) ==
  [type |-> type, declaration |-> declaration, forHead |-> forHead, semicolon |-> FALSE]

\* Statements of JavaScript that end without a semicolon.
JsStatements ==
  {NoSemicolon(type, "none", FALSE) :
     type \in {"ExpressionStatement", "ReturnStatement", "DoWhileStatement", "ImportDeclaration", "IfStatement",
               "FunctionDeclaration", "ClassDeclaration", "ExportNamedDeclaration"}}
    \union {NoSemicolon("VariableDeclaration", "none", head) : head \in BOOLEAN}
    \union {NoSemicolon("ExportNamedDeclaration", d, FALSE) : d \in {"VariableDeclaration", "FunctionDeclaration", "ClassDeclaration"}}
    \union {NoSemicolon("ExportDefaultDeclaration", d, FALSE) : d \in {"FunctionDeclaration", "ClassDeclaration", "ClassExpression"}}

\* Statements that only TypeScript has.
TsStatements ==
  {NoSemicolon(type, "none", FALSE) : type \in {"TSTypeAliasDeclaration", "TSInterfaceDeclaration"}}
    \union {NoSemicolon("ExportNamedDeclaration", d, FALSE) : d \in {"TSTypeAliasDeclaration", "TSEnumDeclaration"}}

OfSemicolons ==
  {[Plain(<<[Source_(kind, <<>>) EXCEPT !.statements = <<s, [s EXCEPT !.semicolon = TRUE]>>]>>)
      EXCEPT !.env.imported["eslint/use-at-your-own-risk"] = core] :
     kind \in {"js", "ts"}, s \in JsStatements, core \in {"complete", "incomplete"}}
    \union {Plain(<<[Source_("ts", <<>>) EXCEPT !.statements = <<s>>]>>) : s \in TsStatements}

Said(ruleId, severity) == [ruleId |-> ruleId, severity |-> severity, line |-> 0]

\* Whatever else ESLint may say of two files.
OfMessages ==
  {[Plain(<<[Source_("js", <<>>) EXCEPT !.others = first], [Source_("js", Drop) EXCEPT !.others = second],
            Source_("dart", after), Source_("dart", <<>>)>>)
      EXCEPT !.strict = strict, !.rules = [r \in {"ores/require-send"} |-> "off"]] :
     first \in SeqOf({Said("none", 2), Said("eqeqeq", 1), Said("no-debugger", 2), Said("semi", 1)}, 3),
     second \in SeqOf({Said("none", 1), Said("eqeqeq", 1)}, 1),
     after \in {<<>>, Drop}, strict \in BOOLEAN}

Repositories == OfPrograms \union OfEnvironments \union OfRules \union OfPaths \union OfSemicolons \union OfMessages

-----------------------------------------------------------------------------
\* One program in both halves, which may send its events through a further call.
Shared == {Plain(<<Source_("js", program), Source_("rust", program)>>) :
             program \in InFunction(SeqOf(Scopes \union Named({"field_send"}), 2)) }

SharedRepositories == {r \in Shared : Valid(r.files[1].program)}

Nested == {<<"nested">>}

Identifiers ==
  Words \union {"child", "root", "main", "other", "logs", "make", "Base", "createLogger", "logger"}
=============================================================================
