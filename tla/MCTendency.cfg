SPECIFICATION FuzzySpec
CONSTANTS
  Theta <- MCTheta
  Angle <- MCAngle
  Distance <- MCDistance
  Speed <- MCSpeed
INVARIANTS
  RulesAnswer
  TrustIsEarned
PROPERTIES
  NearerStaysTrusted
