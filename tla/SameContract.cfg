SPECIFICATION LintSpec
CONSTANTS
  Repository <- SharedRepositories
  NestedRepos <- Nested
  MAX = 2
  Walk = {}
  Ident <- Identifiers
  LevelMethods = {"info", "log"}
  TerminalMethods = {"send"}
INVARIANT SameContract
