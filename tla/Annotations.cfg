CONSTANTS
  c1 = c1
  c2 = c2
  Clients <- MCClients
  Steps <- MCSteps
  Start <- MCStart
  Reach <- MCReach
  MaxMade = 2
  MaxActs = 2
  MaxLooks = 3
  MaxFaults = 1
SPECIFICATION FairSpec
INVARIANTS TypeOK ListIsStorage CommentsInOrder OnlyStoredIsTold
PROPERTIES ChangesSettle
CHECK_DEADLOCK FALSE
