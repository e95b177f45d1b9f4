SPECIFICATION LiveSpec
CONSTANTS
  Process = {p1, p2}
  NoOwner = NoOwner
  Ttl = 6
  Renew = 2
  Timeout = 2
  Answer = 1
  Take = 1
INVARIANT LeaderHoldsLease
PROPERTIES LeadershipSettles PlaysRole
