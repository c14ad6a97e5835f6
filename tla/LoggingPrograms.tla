-------------------------- MODULE LoggingPrograms --------------------------
(***************************************************************************)
(* Programs that log, for both require-send checkers: a program is a       *)
(* sequence of statements, one on each line.  Text renders it for the      *)
(* scanner, Visits as ESLint walks it, and NeverDelivered says what every  *)
(* statement does: which of them build an event that nothing delivers.     *)
(***************************************************************************)
EXTENDS Naturals, Sequences, FiniteSets, SequencesExt

\* A statement: what it does, and the name it does it to.
Stmt(op, name) == [op |-> op, name |-> name]

Words == {"log", "info", "send", "field", "let", "return", "fn", "if", "x", "e", "f", "g", "deliver"}

Message == <<"double quote", "x", "double quote">>

Chain == <<"log", ".", "info", "(">> \o Message \o <<")">>

Override == [ores_next |-> "ores-lint-disable-next-line", eslint_next |-> "eslint-disable-next-line",
             ores_line |-> "ores-lint-disable-line", ores_file |-> "ores-lint-disable-file"]

Overrides == DOMAIN Override

Bindings == {"bind", "assign"}

\* The statements that deliver the event of their name, or hand it on.
Deliveries == {"send", "give", "field_send", "pass", "return_name", "arrow"}

\* The statements that build an event and drop it.
Drops == {"drop", "quoted", "two_arguments", "child_drop", "root_drop", "default_drop", "logs_drop"}

\* The statements that declare the logger child: made of a logger, by a factory, by the
\* factory of a namespace, or of a class.
Children == {"child", "made", "namespaced", "built"}

\* The statements that use what "import" imports; other_call calls a stranger's info().
OfImport == {"made", "namespaced", "built", "root_drop", "default_drop", "logs_drop", "other_call"}

Openers == {"function", "block"}

-----------------------------------------------------------------------------
\* Blocks: the openers around each statement, from outside in.
Nest(program) ==
  LET After[k \in 0 .. Len(program)] ==
        IF k = 0 THEN <<>>
        ELSE IF program[k].op \in Openers THEN Append(After[k - 1], k)
        ELSE IF program[k].op = "close" /\ After[k - 1] # <<>> THEN Front(After[k - 1])
        ELSE After[k - 1]
  IN After

\* Every block that is closed was opened, and the other way round.
Matched(program) ==
  /\ \A k \in DOMAIN program : program[k].op = "close" => Nest(program)[k - 1] # <<>>
  /\ Nest(program)[Len(program)] = <<>>

\* The opener of the block a binding belongs to, 0 for the file: a name assigned to
\* without let belongs to the function around it.
Home(program, k) ==
  LET ofBlock == program[k].op \in {"bind"} \union Children
      around  == SelectSeq(Nest(program)[k], LAMBDA o : ofBlock \/ program[o].op = "function")
  IN IF around = <<>> THEN 0 ELSE Last(around)

Visible(program, k, j) == Home(program, k) \in {0} \union ToSet(Nest(program)[j])

Binds(program, k) == program[k].op \in Bindings

\* The binding that the name used in statement j refers to, 0 if there is none.
Resolve(program, j) ==
  LET seen == {k \in 1 .. j - 1 : /\ Binds(program, k)
                                  /\ program[k].name = program[j].name
                                  /\ Visible(program, k, j)}
  IN IF seen = {} THEN 0 ELSE CHOOSE k \in seen : \A other \in seen : other <= k

\* A chain at the end of a block without a semicolon is the value of the block; Gleam
\* has no semicolons.
IsTail(program, k, language) ==
  /\ \E c \in k + 1 .. Len(program) :
       program[c].op = "close" /\ \A j \in k + 1 .. c - 1 : program[j].op \in Overrides \union {"commented"}
  /\ program[k].op = "tail" \/ language = "gleam"

NeverDelivered(program, language) ==
  {k \in DOMAIN program :
     \/ program[k].op \in Drops /\ ~IsTail(program, k, language)
     \/ /\ Binds(program, k)
        /\ \A j \in k + 1 .. Len(program) : program[j].op \in Deliveries => Resolve(program, j) # k}

\* The statements an override is for: its own line's, which is none, and the next.
Overridden(program, overrides) ==
  {k \in DOMAIN program : \/ k > 1 /\ program[k - 1].op \in overrides \ {"ores_file"}
                          \/ "ores_file" \in overrides /\ \E j \in DOMAIN program : program[j].op = "ores_file"}

BoundOnce(program) ==
  \A j, k \in DOMAIN program : Binds(program, j) /\ Binds(program, k) /\ program[j].name = program[k].name => j = k

\* A name is bound in a block that is no function, and elsewhere too.
BoundInBlock(program) ==
  \E j, k \in DOMAIN program :
    /\ j # k /\ Binds(program, j) /\ Binds(program, k) /\ program[j].name = program[k].name
    /\ Home(program, k) # 0 /\ program[Home(program, k)].op = "block"

-----------------------------------------------------------------------------
\* The statements that the languages of the scanner have.
Written ==
  {"drop", "quoted", "commented", "tail", "emit", "convenience", "two_arguments", "bind", "assign", "send", "give",
   "field_send", "pass", "return_name", "return_chain", "open_call", "function", "block", "close"} \union Overrides

\* The text of a statement in Rust, Dart or Gleam, without what the tokens drop.
StatementText(s, language) ==
  LET End == IF language = "gleam" THEN <<"\n">> ELSE <<";", "\n">>
      Sent == IF language = "gleam" THEN <<"|", ">", "log", ".", "send">> ELSE <<".", "send", "(", ")">>
  IN CASE s.op = "drop"          -> Chain \o End
       [] s.op = "quoted"        -> <<"log", ".", "info", "(", "double quote", "}", "\\", "double quote", "{",
                                      "double quote", ")">> \o End
       [] s.op = "commented"     -> <<"/", "*">> \o Chain \o <<"{", "*", "/">> \o <<"/", "/">> \o Chain \o <<"\n">>
       [] s.op = "tail"          -> Chain \o <<"\n">>
       [] s.op = "emit"          -> Chain \o Sent \o End
       [] s.op = "convenience"   -> <<"log", ".", "log", "(", "x", ",", "f", "(", "x", ",", "e", ")", ",">> \o Message \o <<")">> \o End
       [] s.op = "two_arguments" -> <<"log", ".", "info", "(", "x", ",", "f", "(", "x", ",", "e", ")", ")">> \o End
       [] s.op = "bind"          -> <<"let", s.name, "=">> \o Chain \o End
       [] s.op = "assign"        -> <<s.name, "=">> \o Chain \o End
       [] s.op = "send"          -> (IF language = "gleam" THEN <<"log", ".", "send", "(", s.name, ")">>
                                     ELSE <<s.name, ".", "send", "(", ")">>) \o End
       [] s.op = "give"          -> <<"send", "(", s.name, ")">> \o End
       [] s.op = "field_send"    -> <<s.name, ".", "field", "(", "x", ")", ".", "send", "(", ")">> \o End
       [] s.op = "pass"          -> <<"deliver", "(", s.name, ")">> \o End
       [] s.op = "return_name"   -> <<"return", s.name>> \o End
       [] s.op = "return_chain"  -> <<"return">> \o Chain \o End
       [] s.op = "open_call"     -> <<"log", ".", "info", "(", "x", "\n">>
       [] s.op = "function"      -> <<"fn", "g", "(", ")", "{", "\n">>
       [] s.op = "block"         -> <<"if", "x", "{", "\n">>
       [] s.op = "close"         -> <<"}", "\n">>
       [] s.op \in Overrides     -> <<"/", "/", Override[s.op], "\n">>

Text(program, language) == FlattenSeq([k \in DOMAIN program |-> StatementText(program[k], language)])

-----------------------------------------------------------------------------
\* Expressions as the ESLint rule reads them.
NameOf(n)             == [type |-> "Name", root |-> <<n>>, methods |-> <<>>, args |-> {}]
CallOf(n, ms, args)   == [type |-> "Call", root |-> <<n>>, methods |-> ms, args |-> {<<a>> : a \in args}]
OtherExpression       == [type |-> "Other", root |-> <<>>, methods |-> <<>>, args |-> {}]

\* The calls within a call, outermost first.
CallsIn(node) ==
  LET Visit(call) == [on |-> "CallExpression", node |-> call]
      Call(k) == [node EXCEPT !.methods = SubSeq(@, 1, Len(@) - k + 1), !.args = IF k = 1 THEN @ ELSE {}]
  IN IF node.type # "Call" THEN <<>>
     ELSE IF node.methods = <<>> THEN <<Visit(node)>>
     ELSE [k \in DOMAIN node.methods |-> Visit(Call(k))]

\* ESLint's walk over a statement in JavaScript.
StatementVisits(s) ==
  LET chain == CallOf("log", <<"info">>, {})
      Alone(node) == <<[on |-> "ExpressionStatement", node |-> node]>> \o CallsIn(node)
      Declared(node) == <<[on |-> "VariableDeclarator", name |-> <<"child">>, node |-> node]>> \o CallsIn(node)
      Import(tracked, specifiers) == [on |-> "ImportDeclaration", tracked |-> tracked, specifiers |-> specifiers]
      Specifier(type, local, imported) == [type |-> type, local |-> local, imported |-> imported]
  IN CASE s.op = "child_drop"    -> Alone(CallOf("child", <<"info">>, {}))
       [] s.op = "root_drop"     -> Alone(CallOf("root", <<"info">>, {}))
       [] s.op = "default_drop"  -> Alone(CallOf("main", <<"info">>, {}))
       [] s.op = "logs_drop"     -> Alone([CallOf("logs", <<"info">>, {}) EXCEPT !.root = <<"logs", "logger">>])
       [] s.op = "other_call"    -> Alone(CallOf("other", <<"info">>, {}))
       [] s.op = "child"         -> Declared(CallOf("log", <<"anew">>, {}))
       [] s.op = "made"          -> Declared(CallOf("make", <<>>, {}))
       [] s.op = "namespaced"    -> Declared(CallOf("logs", <<"createLogger">>, {}))
       [] s.op = "built"         -> Declared([type |-> "New", root |-> <<"Base">>, methods |-> <<>>, args |-> {}])
       [] s.op = "import"        -> <<Import(TRUE, <<Specifier("named", "root", "logger"),
                                                     Specifier("named", "make", "createLogger"),
                                                     Specifier("named", "Base", "BaseLogger")>>),
                                      Import(TRUE, <<Specifier("default", "main", "main"),
                                                     Specifier("namespace", "logs", "logs")>>),
                                      Import(FALSE, <<Specifier("named", "other", "logger")>>)>>
       [] s.op \in {"drop", "quoted", "two_arguments"} -> Alone(chain)
       [] s.op = "emit"          -> Alone(CallOf("log", <<"info", "send">>, {}))
       [] s.op = "bind"          -> <<[on |-> "VariableDeclarator", name |-> <<s.name>>, node |-> chain]>> \o CallsIn(chain)
       [] s.op = "assign"        -> <<[on |-> "ExpressionStatement", node |-> OtherExpression],
                                      [on |-> "AssignmentExpression", name |-> <<s.name>>, node |-> chain]>> \o CallsIn(chain)
       [] s.op = "send"          -> Alone(CallOf(s.name, <<"send">>, {}))
       [] s.op = "give"          -> Alone(CallOf("send", <<>>, {s.name}))
       [] s.op = "field_send"    -> Alone(CallOf(s.name, <<"field", "send">>, {}))
       [] s.op = "pass"          -> Alone(CallOf("deliver", <<>>, {s.name}))
       [] s.op = "return_name"   -> <<[on |-> "ReturnStatement", node |-> NameOf(s.name)]>>
       [] s.op = "return_chain"  -> <<[on |-> "ReturnStatement", node |-> chain]>> \o CallsIn(chain)
       [] s.op = "arrow"         -> <<[on |-> "ArrowFunctionExpression", node |-> NameOf(s.name)], [on |-> "FunctionExit"]>>
       [] s.op = "function"      -> <<[on |-> "FunctionEnter"]>>
       [] OTHER                  -> <<>>

\* ESLint's walk over a program: each visit with the line of its node.
Visits(program) ==
  LET nest == Nest(program)
      Of(k) == IF program[k].op # "close" THEN StatementVisits(program[k])
               ELSE IF program[Last(nest[k - 1])].op = "function" THEN <<[on |-> "FunctionExit"]>> ELSE <<>>
      WithLine(visit, k) == [f \in DOMAIN visit \union {"line"} |-> IF f = "line" THEN k ELSE visit[f]]
      OnLine(k) == [v \in DOMAIN Of(k) |-> WithLine(Of(k)[v], k)]
  IN FlattenSeq([k \in DOMAIN program |-> OnLine(k)]) \o <<[on |-> "Program:exit", line |-> Len(program) + 1]>>
=============================================================================
