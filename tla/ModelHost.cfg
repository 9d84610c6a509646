CONSTANT MaxFaults = 4
SPECIFICATION FairSpec
INVARIANTS ServersHaveFiles FailuresStayApart
PROPERTY EnabledServes
CHECK_DEADLOCK FALSE
