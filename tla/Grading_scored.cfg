SPECIFICATION Spec
CONSTANTS
  s1 = s1  s2 = s2  r1 = r1  a1 = a1  k1 = k1   c1 = c1
  NoContest = NoContest
  Submission = {s1, s2}
  Run = {}
  Audit = {}
  Key = {k1}
  Contest = {c1}
  KeyOf <- TwoSame
  ContestOf <- InContest
  Outcome = {"AC", "WA"}
  MaxWorkers = 2
  Faults = {}
  MaxFaults = 0
INVARIANTS AcceptedIsScored
