SPECIFICATION Spec
CONSTANTS
  FormatLists <- UpToThree
  Fourccs = {"YUY2", "RGB24"}
  Sizes = {0, 4, 6, 12, 14, 15}
  Rates = {0, 1, 2, 3, 15}
  BytesPerPixel <- PixelBytes
  SizeModulus = 256
INVARIANT EnumeratedIntervalsAccepted
