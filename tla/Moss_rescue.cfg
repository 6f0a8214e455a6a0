SPECIFICATION LiveSpec
CONSTANTS
  c1 = c1  c2 = c2  b1 = b1  b2 = b2
  Contest = {c1}
  Daemon = {d1}
  Thread = {t1, t2}
  Batch = {b1, b2}
  BatchesOf <- OneContest
  MossId = {"set"}
  Faults = {"db", "redis"}
  MaxFaults = 2
PROPERTIES StuckIsRescued
