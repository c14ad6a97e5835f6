---------------------------- MODULE FallbackSemi ----------------------------
(***************************************************************************)
(* ores/semi of plugin.mjs, the semicolon rule for an ESLint without its   *)
(* own. A statement is its node type, what it exports or declares, whether *)
(* it is the head of a for loop, and whether its last token is a           *)
(* semicolon, which it shares with what it exports.                        *)
(***************************************************************************)

NEEDS_SEMI ==
  {"ExpressionStatement", "ReturnStatement", "ThrowStatement", "BreakStatement", "ContinueStatement",
   "DebuggerStatement", "DoWhileStatement", "ImportDeclaration", "ExportAllDeclaration",
   "PropertyDefinition", "TSTypeAliasDeclaration", "TSDeclareFunction", "TSImportEqualsDeclaration"}

Exports == {"ExportNamedDeclaration", "ExportDefaultDeclaration"}

\* Declarations that end with their body.
Bodied == {"FunctionDeclaration", "ClassDeclaration", "TSInterfaceDeclaration", "TSEnumDeclaration",
           "TSModuleDeclaration"}

\* What a statement may be by the grammar: only an export declares something else.
Statement ==
  {s \in [type : NEEDS_SEMI \union Bodied \union {"VariableDeclaration", "IfStatement"} \union Exports,
          declaration : {"none", "VariableDeclaration", "ClassExpression", "TSTypeAliasDeclaration"} \union Bodied,
          forHead : BOOLEAN, semicolon : BOOLEAN] :
     /\ s.declaration # "none" => s.type \in Exports
     /\ s.declaration = "ClassExpression" => s.type = "ExportDefaultDeclaration"
     /\ s.forHead => s.type = "VariableDeclaration"}

\* What TypeScript adds to the statements of JavaScript.
TypeScriptOnly == {"TSTypeAliasDeclaration", "TSDeclareFunction", "TSImportEqualsDeclaration",
                   "TSInterfaceDeclaration", "TSEnumDeclaration", "TSModuleDeclaration"}

\* The nodes of a statement that ESLint visits.
Nodes(s) == {s, [s EXCEPT !.type = s.declaration, !.declaration = "none"]}

\* Mutant of Handled: the head of a for loop is no exception.
Handled_for_heads(node) ==
  \/ node.type \in NEEDS_SEMI \union {"VariableDeclaration"}
  \/ node.type \in Exports /\ node.declaration \notin Bodied

\* The nodes the rule's handlers check.
Handled(node) ==
  \/ node.type \in NEEDS_SEMI
  \/ node.type = "VariableDeclaration" /\ ~node.forHead
  \/ node.type \in Exports /\ node.declaration \notin Bodied

missingSemi(s) == {node \in Nodes(s) : Handled(node) /\ ~node.semicolon}
=============================================================================
