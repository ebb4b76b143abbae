SPECIFICATION FairSpec
CONSTANTS
  Driver = {d1, d2}
  Search = {s1}
  Count = 1
  Radius = 1
  Far = 2
INVARIANTS FreshAreMembers NobodyHidden SearchesStayBounded
PROPERTIES EverySearchReturns SilentDriversLeave
