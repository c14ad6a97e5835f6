SPECIFICATION Spec
CONSTANTS
  Name = {x, y}
  SopsName = {sops_mac}
  Char = {97, 39}
  Escaped = {"n", "r", "backslash", "truncated"}
  MaxItems = 2
  NotLoaded = NotLoaded
  Streams <- OneOrTwoLines
INVARIANTS  NothingTruncated
\* every consumer loads the file once
CHECK_DEADLOCK FALSE
