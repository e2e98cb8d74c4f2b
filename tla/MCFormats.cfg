\* Short CBOR of every byte and eight-byte arguments, header arguments around each width,
\* and coordinates of two bytes.  A function that has returned does nothing more.
SPECIFICATION Spec
CONSTANTS
  CborInputs <- CborOfInterest
  Arguments = {0, 1, 23, 24, 25, 255, 256, 257, 65535, 65536, 65537}
  CoordSize = 2
  CoordBytes = {0, 1, 127, 128, 255}
  DerBytes = {0, 128}
  MaxDer = 3
INVARIANTS SkipFindsItemEnd ReadsAgreeWithSkip HeaderReadsBack KeysSortByValue SignatureReadsBack DerReadsNumbers
CHECK_DEADLOCK FALSE
