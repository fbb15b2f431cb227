SPECIFICATION Spec
CONSTANTS
  c1 = c1
  c2 = c2
  Connected <- OneCapture
  MinQueued = 1
  MaxFrames = 3
  MaxQueued = 2
PROPERTY
  NoFrameOfEarlierSession
