CONSTANTS
  ByteBits = 3
  Polynomial <- MCPolynomial
  Sections <- MCSections
  Polls <- MCPolls
  Held <- MCHeld
  Measurement <- MCMeasurement
  Ports <- MCPorts
SPECIFICATION Spec
INVARIANTS TypeOK OnlyIntactFrames KnownRegistersDecoded SinglesAreAnswers StoredAsAnswered
