SPECIFICATION Spec
CONSTANTS
  Frames = {f1, f2, f3, f4}
  Outside = Outside
  NoFrame = NoFrame
SYMMETRY MCSymmetry
INVARIANTS
  TypeOK
  OneOwner
  CalleeAlive
  NothingForgotten
  NoStandstill
PROPERTY
  KeepsContract
