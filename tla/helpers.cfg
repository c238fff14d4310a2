SPECIFICATION Spec
CONSTANTS
  MaxTermLength = 3
  Tags <- AllTags
  RawTerms <- ShortTerms
  Texts <- ShortTexts
INVARIANT RefusalsAreReadable
INVARIANT StoredTextShows
INVARIANT PatternMeansContains
INVARIANT ServedAsItsContent
\* A call that was answered is where the system stops.
CHECK_DEADLOCK FALSE
