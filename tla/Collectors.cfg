SPECIFICATION Spec
CONSTANTS
  a = a
  b = b
  p = p
  i = i
  Elements <- MCElements
  Kind <- MCKind
  OnXen <- MCOnXen
  InXml <- MCInXml
  Timeout = 2
INVARIANT TypeOK
PROPERTIES
  LostOnlyInFailure
  VanishedLeave
  GraphConverges
  MissingHidesOthers
