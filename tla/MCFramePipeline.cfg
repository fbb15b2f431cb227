SPECIFICATION Spec
CONSTANTS
  Setups <- MCSetups
  CaptureChanges <- MCCaptureChanges
  OutputChanges <- MCOutputChanges
  Sources <- MCSources
  Formats <- MCFormats
INVARIANTS
  TypeOK
  WrittenIsFresh
  TablesStayInside
  UniformStaysUniform
  ColoursArePlaced
  BordersStayBlack
  GrayIsGray
  CurvesRise
  FlipsAreKnown
  LumaIsKept
CHECK_DEADLOCK FALSE
