SPECIFICATION LiveSpec
CONSTANTS
  s1 = s1  s2 = s2  r1 = r1  a1 = a1  k1 = k1   c1 = c1
  NoContest = NoContest
  Submission = {s1}
  Run = {r1}
  Audit = {a1}
  Key = {k1}
  Contest = {c1}
  KeyOf <- OneSub
  ContestOf <- InContest
  Outcome = {"AC"}
  MaxWorkers = 1
  Faults = {"db", "redis", "s3", "crash", "delete"}
  MaxFaults = 2
INVARIANTS PermitsConserved DroppedStaysEmpty
PROPERTIES RecordedBeforeTold QueueDrains
