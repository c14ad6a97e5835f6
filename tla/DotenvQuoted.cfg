SPECIFICATION Spec
CONSTANTS
  Name = {x, y}
  SopsName = {sops_mac}
  Char = {97, 233}
  Escaped = {"n", "r", "backslash", "truncated"}
  MaxItems = 2
  NotLoaded = NotLoaded
  Streams <- OneOrTwoLines
INVARIANT QuotedTextIsKept
\* every consumer loads the file once
CHECK_DEADLOCK FALSE
