----------------------------- MODULE LintReport -----------------------------
(***************************************************************************)
(* What the linter prints and how it exits: the ESLint formatter of        *)
(* formatter.mjs message by message, formatReport of require-send.mjs, and *)
(* the strict exit of lint.sh.                                             *)
(***************************************************************************)
EXTENDS Naturals, Sequences, FiniteSets, SequencesExt

CONSTANTS MAX,    \* ORES_LINT_MAX_EXAMPLES, at least 1
          Result  \* what ESLint may hand to the formatter: a sequence of messages per file

VARIABLES results, file, message,   \* the place of the two loops
          byRule, parseErrors, files, errors, warnings,
          report                    \* what is printed

vars == <<results, file, message, byRule, parseErrors, files, errors, warnings, report>>

NotCalled == [kind |-> "not called"]
NoReport  == [kind |-> "none"]

NoRule == "none"    \* a message that no rule made

\* The rules with a label of the house.
LABELS == {"semi", "ores/semi", "ores/require-send"}

Init ==
  /\ results = <<>> /\ file = 1 /\ message = 1 /\ byRule = <<>>
  /\ parseErrors = 0 /\ files = 0 /\ errors = 0 /\ warnings = 0
  /\ report = NotCalled

oresFormatter(given) ==
  /\ report = NotCalled
  /\ results' = given
  /\ report' = NoReport
  /\ UNCHANGED <<file, message, byRule, parseErrors, files, errors, warnings>>

InFile == report = NoReport /\ file \in DOMAIN results

Current == results[file][message]

NextFile ==
  /\ InFile
  /\ message > Len(results[file])
  /\ file' = file + 1
  /\ message' = 1
  /\ files' = IF results[file] = <<>> THEN files ELSE files + 1
  /\ UNCHANGED <<results, byRule, parseErrors, errors, warnings, report>>

CountSeverity ==
  /\ errors' = IF Current.severity = 2 THEN errors + 1 ELSE errors
  /\ warnings' = IF Current.severity = 2 THEN warnings ELSE warnings + 1

NextMessage ==
  /\ message' = message + 1
  /\ UNCHANGED <<results, file, files, report>>

\* Mutant of WithoutRule: the message is passed over.
WithoutRule_dropped ==
  /\ InFile /\ message \in DOMAIN results[file]
  /\ Current.ruleId = NoRule
  /\ CountSeverity
  /\ UNCHANGED <<byRule, parseErrors>> /\ NextMessage

\* A message no rule made: a file that could not be parsed, as the code takes it.
WithoutRule ==
  /\ InFile /\ message \in DOMAIN results[file]
  /\ Current.ruleId = NoRule
  /\ CountSeverity
  /\ parseErrors' = parseErrors + 1
  /\ UNCHANGED byRule /\ NextMessage

Least(m, n) == IF m < n THEN m ELSE n

\* Mutant of Updated: what is no longer shown is no longer counted.
Updated_capped(entry) == [entry EXCEPT !.count = Least(@ + 1, MAX), !.examples = Least(@ + 1, MAX)]

\* An example is kept until there are MAX of them; the count goes on.
Updated(entry) == [entry EXCEPT !.count = @ + 1, !.examples = Least(@ + 1, MAX)]

\* The rules keep the order in which they first occur.
OfRule ==
  /\ InFile /\ message \in DOMAIN results[file]
  /\ Current.ruleId # NoRule
  /\ CountSeverity
  /\ byRule' =
       LET seen == {k \in DOMAIN byRule : byRule[k].ruleId = Current.ruleId}
       IN IF seen = {} THEN Append(byRule, [ruleId |-> Current.ruleId, count |-> 1, examples |-> 1])
          ELSE [byRule EXCEPT ![CHOOSE k \in seen : TRUE] = Updated(@)]
  /\ UNCHANGED parseErrors /\ NextMessage

\* Mutant of Before: the most frequent rule first, whatever rule it is.
Before_by_count(a, b) == a.count > b.count

\* House rules first, then the rest by frequency.
Before(a, b) ==
  \/ a.ruleId \in LABELS /\ b.ruleId \notin LABELS
  \/ (a.ruleId \in LABELS <=> b.ruleId \in LABELS) /\ a.count > b.count

\* The sort is stable: entries that compare equal stay as they are.
Ordered(entries) ==
  LET Place(k) == 1 + Cardinality({j \in DOMAIN entries :
                        Before(entries[j], entries[k]) \/ (j < k /\ ~Before(entries[k], entries[j]))})
  IN [p \in DOMAIN entries |-> entries[CHOOSE k \in DOMAIN entries : Place(k) = p]]

Capped(ruleId, count, examples) ==
  [ruleId |-> ruleId, count |-> count, shown |-> examples, more |-> IF count > MAX THEN count - MAX ELSE 0]

Rendered ==
  IF byRule = <<>> /\ parseErrors = 0
  THEN [kind |-> IF results = <<>> THEN "no lintable files" ELSE "clean", examined |-> Len(results)]
  ELSE [kind |-> "findings", total |-> errors + warnings, files |-> files, examined |-> Len(results),
        rules |-> LET sorted == Ordered(byRule)
                  IN [p \in DOMAIN sorted |-> Capped(sorted[p].ruleId, sorted[p].count, sorted[p].examples)],
        unparsed |-> Capped(NoRule, parseErrors, Least(parseErrors, MAX))]

Render ==
  /\ report = NoReport
  /\ file > Len(results)
  /\ report' = Rendered
  /\ UNCHANGED <<results, file, message, byRule, parseErrors, files, errors, warnings>>

Format == NextFile \/ WithoutRule \/ OfRule \/ Render

Next == Format \/ \E given \in Result : oresFormatter(given)

Spec == Init /\ [][Next]_vars

-----------------------------------------------------------------------------
\* Mutant of formatReport: the findings of the last file alone.
formatReport_last(found) ==
  LET all == IF found = <<>> THEN {} ELSE Last(found)
  IN IF all = {} THEN [kind |-> IF found = <<>> THEN "no source" ELSE "clean", examined |-> Len(found)]
     ELSE [kind |-> "findings", total |-> Cardinality(all), files |-> 1, examined |-> Len(found),
           rules |-> <<Capped("require-send", Cardinality(all), Least(Cardinality(all), MAX))>>,
           unparsed |-> Capped(NoRule, 0, 0)]

\* The report of the scanner: the findings of each file it read.
formatReport(found) ==
  LET all   == UNION {{[finding |-> f, file |-> n] : f \in found[n]} : n \in DOMAIN found}
      count == Cardinality(all)
  IN IF all = {} THEN [kind |-> IF found = <<>> THEN "no source" ELSE "clean", examined |-> Len(found)]
     ELSE [kind |-> "findings", total |-> count, files |-> Cardinality({n \in DOMAIN found : found[n] # {}}),
           examined |-> Len(found), rules |-> <<Capped("require-send", count, Least(count, MAX))>>,
           unparsed |-> Capped(NoRule, 0, 0)]

\* lint.sh fails only where the repository opted in, on the words of a report.
exitStatus(strict, reports) == IF strict /\ \E r \in reports : r.kind = "findings" THEN 1 ELSE 0
=============================================================================
