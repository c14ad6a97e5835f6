---------------------------- MODULE SourceTokens ----------------------------
(***************************************************************************)
(* What require-send.mjs reads off a source file: its tokens, and the      *)
(* comments that switch the rule off.                                      *)
(*                                                                         *)
(* A file is a sequence of symbols: an identifier is one symbol, so is the *)
(* text of an override comment, and every other symbol is one character.   *)
(* Columns are left out; a token's type is its punctuation, "ident" or     *)
(* "string".                                                               *)
(***************************************************************************)
EXTENDS Naturals, Sequences, FiniteSets

CONSTANT Word    \* the identifiers and keywords

Quote == {"double quote", "single quote", "backquote"}

Punctuation == {".", "(", ")", "[", "]", "{", "}", ";", ",", "="}

\* The spellings of each override; the scanner takes ESLint's for its own.
DisableFile == {"ores-lint-disable-file"}
DisableLine == {"ores-lint-disable-line", "eslint-disable-line"}
DisableNext == {"ores-lint-disable-next-line", "eslint-disable-next-line"}

\* The first position from p on that satisfies P, or one past the end.
FirstFrom(source, p, P(_)) ==
  LET found == {k \in p .. Len(source) : P(k)}
  IN IF found = {} THEN Len(source) + 1 ELSE CHOOSE k \in found : \A j \in found : k <= j

Line(source, p) == 1 + Cardinality({k \in 1 .. p - 1 : source[k] = "\n"})

At(source, p, symbol) == p \in DOMAIN source /\ source[p] = symbol

\* Where the string that opens at p ends: after its unescaped quote, or before the
\* end of the line, which only a backquoted string may cross.
StringEnd(source, p) ==
  LET From[k \in 1 .. Len(source) + 1] ==
        IF k > Len(source) THEN k
        ELSE IF source[k] = source[p] THEN k + 1
        ELSE IF source[k] = "\\" /\ k < Len(source) THEN From[k + 2]
        ELSE IF source[k] = "\n" /\ source[p] # "backquote" THEN k
        ELSE From[k + 1]
  IN From[p + 1]

LineCommentEnd(source, p) == FirstFrom(source, p, LAMBDA k : source[k] = "\n")

BlockCommentEnd(source, p) ==
  LET close == FirstFrom(source, p + 2, LAMBDA k : source[k] = "*" /\ At(source, k + 1, "/"))
  IN IF close > Len(source) THEN close ELSE close + 2

\* One round of the loop: the position after the lexeme at p, and its token if it
\* has one.
Lexeme(source, p) ==
  LET Tok(type, value) == <<[type |-> type, value |-> value, line |-> Line(source, p)]>>
      Arrow == At(source, p, "=") /\ At(source, p + 1, ">")
      Lex(next, token) == [next |-> next, token |-> token]
  IN CASE At(source, p, "/") /\ At(source, p + 1, "/") -> Lex(LineCommentEnd(source, p), <<>>)
       [] At(source, p, "/") /\ At(source, p + 1, "*") -> Lex(BlockCommentEnd(source, p), <<>>)
       [] source[p] \in Quote -> Lex(StringEnd(source, p), Tok("string", ""))
       [] At(source, p, "|") /\ At(source, p + 1, ">") -> Lex(p + 2, Tok("|>", ""))
       [] Arrow -> Lex(p + 2, Tok("=>", ""))
       [] source[p] \in Word -> Lex(p + 1, Tok("ident", source[p]))
       [] source[p] \in Punctuation /\ ~Arrow -> Lex(p + 1, Tok(source[p], ""))
       [] OTHER -> Lex(p + 1, <<>>)

tokenize(source) ==
  LET From[p \in 1 .. Len(source) + 1] ==
        IF p > Len(source) THEN <<>>
        ELSE Lexeme(source, p).token \o From[Lexeme(source, p).next]
  IN From[1]

LinesWith(source, directives) ==
  {Line(source, p) : p \in {k \in DOMAIN source : source[k] \in directives}}

collectSuppressions(source) ==
  [file  |-> LinesWith(source, DisableFile) # {},
   lines |-> LinesWith(source, DisableLine),
   next  |-> LinesWith(source, DisableNext)]

isDisabled(suppressions, line) ==
  \/ suppressions.file
  \/ {line, line - 1} \intersect suppressions.lines # {}
  \/ line - 1 \in suppressions.next
=============================================================================
