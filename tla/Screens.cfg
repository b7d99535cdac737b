SPECIFICATION FairScreensSpec
CONSTANTS
  o1 = o1  o2 = o2  d1 = d1  d2 = d2
  Offers <- TwoOffers
  Contacts <- TwoDevices
  ByName <- Names
  MaxStack = 3
  MaxNews = 3
  MaxKeys = 5
CHECK_DEADLOCK FALSE
PROPERTY ActsOnWhatIsShown
PROPERTY OffersAreListed
