SPECIFICATION Spec
CONSTANTS
  Users = {u1, u2}
  Names = {a, b, c}
  None = None
  MAXORO = 1
  MaxGLD = 2
SYMMETRY Symmetry
PROPERTIES
  OnlyConfirmedTrade
