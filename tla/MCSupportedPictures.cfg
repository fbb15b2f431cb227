SPECIFICATION MCSpec
CONSTANTS
  Inputs <- MCInputs
  Sizes = {0, 1, 2, 3, 4}
  Elements = {"a", "b"}
  Numbers <- MCNumbers
  Codes <- MCCodes
  RowFrames = 1
  Texts <- MCTexts
  Documents <- MCDocuments
  Bitmaps <- MCBitmaps
  Blocks = {1, 5, 16}
  MaxFailures = 1
INVARIANT
  SupportedPicturesLoad
CHECK_DEADLOCK FALSE
