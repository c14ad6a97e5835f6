SPECIFICATION Spec
CONSTANTS
  Name = {x}
  x = x
  SopsName = {}
  Char = {97, 39}
  Env = {local, prod}
  Shell = {sh1, sh2}
  Texts <- OneText
SYMMETRY Alike
INVARIANTS DecIsWhole 
PROPERTY CiphertextSurvives
