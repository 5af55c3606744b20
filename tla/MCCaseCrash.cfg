SPECIFICATION Spec
CONSTANTS
  none = none
  n1 = n1
  n2 = n2
  name1 = name1
  name2 = name2
  party = party
  court1 = court1
  court2 = court2
  day1 = day1
  day2 = day2
  link = link
  None = none
  Library <- MCLibrary
  Documents <- MCDocuments
  MaxAnswer = 3
  MaxShown = 3
INVARIANT FailureStaysLocal
CHECK_DEADLOCK FALSE
