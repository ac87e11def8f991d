\* Repeated calls against failing requests and guests that hang.
SPECIFICATION FairSpec
CONSTANTS
  e = e
  p = p
  q = q
  router = router
  own = own
  mixed = mixed
  alone = alone
  ha = ha
  Null = Null
  Nodes = {e, p, q}
  Entry = e
  Guests = {router, own, mixed, alone, ha}
  Keep = {router}
  Ha = {ha}
  Places <- MCPlaces
  QVotes = 1
  FaultKinds = {"ha", "lost", "list", "post", "poll", "hang", "migrate"}
  MaxFaults = 1
INVARIANTS TypeOK KeptRunning NothingTwice EntryNeverFences
PROPERTIES ImplementsOrdered ReadyIsTrue EventuallyDown
CHECK_DEADLOCK FALSE
