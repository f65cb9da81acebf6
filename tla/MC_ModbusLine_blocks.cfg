CONSTANTS
  ByteBits = 3
  Polynomial <- MCPolynomial
  Sections <- MCSections
  Polls <- MCTwoBlocks
  Held <- MCHeld
  Measurement <- MCMeasurement
  Ports <- MCOnePort
SPECIFICATION Spec
INVARIANT KnownRegistersDecoded
