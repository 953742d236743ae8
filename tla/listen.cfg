SPECIFICATION FairSpec
CONSTANTS
  Branches = {b1}
  None = None
  Faults = {"loss", "refusal", "outage", "metrics", "redis", "shutdown"}
  MaxCommits = 3
CHECK_DEADLOCK FALSE
PROPERTIES ConnectsWhenReachable NotificationIsPublished
INVARIANTS OneConnection
