SPECIFICATION Spec
CONSTANTS
  c1 = c1
  c2 = c2
  k1 = k1
  k2 = k2
  k3 = k3
  Claims = {c1, c2}
  Keys = {k1, k2, k3}
  Documents <- MCDocuments
INVARIANTS
  VerifiedIsLocated
  CorrectionIsItsFindings
  PassRestsOnText
  NestedFollowsParent
  ReviewsReachTheirCitation
