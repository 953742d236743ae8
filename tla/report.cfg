SPECIFICATION Spec
CONSTANTS
  Uuids = {u1, u2}
  Written <- MCVisits
  Dates = {2}
  Today = 2
  Asked <- MCRequests
  Instants <- MCInstants
  Day = 6
  Emotions = {"Neutral", "natural", "anger", "happy"}
  NaturalWords = {"Neutral", "natural"}
  AngryWords = {"anger"}
  Branches = {"b1"}
  Intervals <- MCIntervals
  Hour = 2
  NULL = NULL
  None = None
  NoRow = NoRow
SYMMETRY Symmetric
INVARIANTS PeopleWereCounted NobodyMissed PeakAgrees StockAndFlow OnlyLastBucketMissed
