SPECIFICATION HistorySpec
CONSTANTS
  Process = {p1, p2}
  NoOwner = NoOwner
  Ttl = 4
  Renew = 1
  Timeout = 2
  Answer = 2
  Take = 3
INVARIANT VacancyBounded
PROPERTIES OnlyOwnerFrees StaleLeaderStepsDown
