SPECIFICATION ReadingSpec
CONSTANTS
  Documents <- MCDocuments
  Titles <- MCTitles
  BareNames <- MCBareNames
  Articles <- MCArticles
  Paragraphs <- MCParagraphs
  Groups <- MCGroups
  Preceding <- MCPreceding
  AsArticle <- MCAsArticle
  Weight <- MCWeight
  MaxChunk = 8
  MaxHeading = 4
INVARIANT NeverRefused
CHECK_DEADLOCK FALSE
