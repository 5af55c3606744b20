SPECIFICATION ReadingSpec
CONSTANTS
  Documents <- MCDocuments
  Titles <- MCTitles
  BareNames <- MCBareNames
  Articles <- MCArticles
  Paragraphs <- MCParagraphs
  Groups <- MCGroups
  Preceding <- MCPreceding
  AsArticle <- MCAsArticle
  Weight <- MCWeight
  MaxChunk = 8
  MaxHeading = 4
INVARIANTS
  RefusedForACause
  InheritanceIsNamed
  NamedLawIsClaimed
CHECK_DEADLOCK FALSE
