SPECIFICATION FairSpec
CONSTANTS
  s1 = s1  s2 = s2  s3 = s3  s4 = s4
  t1 = t1  t2 = t2
  o1 = o1  o2 = o2
  UI = UI  Main = Main
  Sessions = {s1, s2, s3, s4}
  Transfers = {t1, t2}
  Offers = {o1, o2}
  TransferOf <- SessionTransfer
  OfferOf <- SessionOffer
  MaxPending = 1
CHECK_DEADLOCK FALSE
INVARIANT ConfirmedIsAnswered
INVARIANT AcceptedAsOffered
INVARIANT HistoryShowsDecision
PROPERTY SessionsEnd
