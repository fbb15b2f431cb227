SPECIFICATION FairSpec
CONSTANTS
  c1 = c1
  c2 = c2
  Connected <- OneCapture
  MinQueued = 1
  MaxFrames = 4
  MaxQueued = 2
PROPERTIES
  Relayed
  FallsBack
  StopsReturn
