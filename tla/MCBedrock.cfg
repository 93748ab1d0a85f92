SPECIFICATION FairSpec
CONSTANTS
  malformed = malformed
  none = none
  Name <- Names
  Blank <- EmptyName
  Mapping <- Mappings
  Malformed <- malformed
  Region <- Regions
  Reserved <- ReservedParts
  Issued <- IssuedKeys
  Input <- Inputs
  Reply <- Replies
  Nothing <- none
INVARIANT TypeOK
INVARIANT ResolvesAsDefined
INVARIANT SentIsAuthentic
INVARIANT OnlyRegionsAreDialled
INVARIANT TurnsAreKept
INVARIANT AnswerFitsCall
PROPERTY MappingEnds
CHECK_DEADLOCK FALSE
