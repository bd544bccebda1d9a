\* Every call and every attempt is made once, so the behaviour ends.
SPECIFICATION SessionsFairSpec
CONSTANTS
  Call = {c1, c2, c3}
  Key = {k1, k2}
  None = None
  Attempt = {"a1", "a2"}
  Root = {"r1"}
  Host = {"h1", "h2"}
  Lease = {"l1", "l2"}
  Absent = Absent
  MaxSignals = 2
  MaxChunks = 1
  Window = {"w1", "w2"}
  Session = {"s1", "s2"}
  Nothing = Nothing
  Torn = Torn
  Other = Other
INVARIANTS FirstComeFirstServed TailsMatchQueues CommitsAreFenced HostsHearInOrder MessagesArriveMostly
PROPERTIES DoneMeansQuiet  EverythingEnds
CHECK_DEADLOCK FALSE
