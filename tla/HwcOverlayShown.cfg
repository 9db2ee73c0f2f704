SPECIFICATION ShownSpec
CONSTANTS
  NV = 1
  NG = 2
  App = {a1, a2}
  NoApp = NoApp
  Fd = {f1, f2, f3, f4}
  MaxPlane = 1
  MaxOv = 3
  MayFail = FALSE
SYMMETRY ModelSymmetry
INVARIANT ShownStaysOpen
