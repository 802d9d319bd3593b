SPECIFICATION FactSpec
CONSTANTS
  f1 = f1
  f2 = f2
  f3 = f3
  f4 = f4
  a = a
  b = b
  d1 = d1
  d2 = d2
  NoFact = NoFact
  Facts <- ThreeFacts
  Objects <- TwoObjects
  Dreamers <- TwoDreamers
  Extractions <- Contradiction
SYMMETRY Symmetry
INVARIANTS
  FactTypeOK
  SupersessionIsForward
  ValueSurvives
  Projected
PROPERTY TombstoneIsFinal
