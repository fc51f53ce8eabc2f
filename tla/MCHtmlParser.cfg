SPECIFICATION Spec
CONSTANT
  MaxLength = 7
INVARIANTS
  TypeOK
  MatchMeansEom
  HeaderMatchesLine
\* The input ends after MaxLength characters.
CHECK_DEADLOCK FALSE
