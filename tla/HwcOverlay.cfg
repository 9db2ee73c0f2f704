SPECIFICATION Spec
CONSTANTS
  NV = 1
  NG = 2
  App = {a1, a2}
  NoApp = NoApp
  Fd = {f1, f2, f3}
  MaxPlane = 1
  MaxOv = 2
  MayFail = TRUE
SYMMETRY ModelSymmetry
INVARIANTS NoSharedFd FdConservation OverlayExclusive FreshFrame
