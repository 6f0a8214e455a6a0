SPECIFICATION LiveSpec
CONSTANTS
  c1 = c1  c2 = c2  b1 = b1  b2 = b2
  Contest = {c1, c2}
  Daemon = {d1}
  Thread = {t1, t2}
  Batch = {b1, b2}
  BatchesOf <- TwoContests
  MossId = {"set", "missing"}
  Faults = {"db", "redis", "moss", "crash", "delete"}
  MaxFaults = 1
INVARIANTS OneJobPerContest ReportsAreWhole
PROPERTIES OutcomeStands AuditIsTold
