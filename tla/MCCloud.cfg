SPECIFICATION CloudSpec
CONSTANTS
  Receivers = {r1, r2}
  Messages = {m1, m2}
  Timeouts <- MCTimeouts
  MaxKey = 3
  MaxWrites = 3
  PageSize = 2
  Cleaners = {c1, c2}
  Amis = {"a1", "a2"}
  Snapshots = {"s1", "s2", "s3"}
  Backing <- MCBacking
  Tests = {t1, t2}
  Items <- MCItems
  MaxSets = 3
  Instances <- MCInstances
  Addressed = {1, 2}
  GroupPage = 2
  MaxScalings = 2
  AllRegions = {"east1", "east12", "west"}
  StableRegions = {"east1", "west"}
  RegionsIn <- MCRegionsIn
  Override = "override"
INVARIANTS CloudTypeOK QueueAnswersAreTrue EmptiedIsEmpty ImagesAreDeleted GroupAnswerIsWhole PickIsAllowed
PROPERTIES PairsAreKept CloudCallsReturn
CHECK_DEADLOCK FALSE
