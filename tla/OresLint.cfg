SPECIFICATION LintSpec
CONSTANTS
  Repository <- Repositories
  NestedRepos <- Nested
  MAX = 2
  Walk = {}
  Ident <- Identifiers
  LevelMethods = {"info", "log"}
  TerminalMethods = {"send"}
INVARIANTS TypeOK ScannerExact RuleExact  NestedLeftAlone  SemicolonsAlike ReportAddsUp HouseRulesFirst CleanMeansExamined StrictExact
PROPERTIES AlarmsAreJustified LintAdvances
