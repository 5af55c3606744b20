SPECIFICATION FairSpec
CONSTANTS
  t1 = t1
  t2 = t2
  t3 = t3
  t4 = t4
  a1 = a1
  none = none
  Titles <- MCTitles
  Articles <- MCArticles
  NoArticle <- none
  FirstIdentities <- MCIdentities
  Offers <- MCOffers
  Listings <- MCListings
  MaxSources = 2
  MaxTech = 1
  MaxHyp = 2
INVARIANTS
  NeverRaises
  TrafficBounded
  HistoriesAgree
  ReasonIsTrue
PROPERTIES
  Terminates
