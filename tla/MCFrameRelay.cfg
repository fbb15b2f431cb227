SPECIFICATION Spec
CONSTANTS
  c1 = c1
  c2 = c2
  Connected <- TwoCaptures
  MinQueued = 1
  MaxFrames = 3
  MaxQueued = 2
INVARIANTS
  TypeOK
  FanOut
  ClearedStaysGone
PROPERTY
  NeverBackwards
