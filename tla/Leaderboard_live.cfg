SPECIFICATION LiveSpec
CONSTANTS
  c1 = c1  u1 = u1  v1 = v1  v2 = v2
  Contest = {c1}
  User = {u1}
  Writer = {w1}
  Viewer = {v1}
  ViewOf <- OneView
  Role <- OneStudent
  Penalty = {1230}
  Problems = 2
  Buffer = 10
  Nobody = Nobody  NotListed = NotListed
  Faults = {"mark", "read", "publish"}
  MaxFaults = 1
INVARIANTS NothingForgotten BoardIsEarned AlertsStayWithFaculty
PROPERTIES ChangesArrive StreamsEnd
CHECK_DEADLOCK FALSE
