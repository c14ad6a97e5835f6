SPECIFICATION Spec
CONSTANTS
  Name = {x}
  x = x
  SopsName = {}
  Char = {97, 39}
  Env = {local}
  Shell = {sh1}
  Texts <- OneText
INVARIANT CommandHasVariables
