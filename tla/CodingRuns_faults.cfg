SPECIFICATION CodingFairSpec
CONSTANTS
  Sessions = {s1}
  Reservations = {v1}
  Runs = {r1}
  s1 = s1
  r1 = r1
  v1 = v1
  NoRun = NoRun
  RunSlots = 1
  MaxFaults = 3
INVARIANTS
    WorkloadIsRecoverable
PROPERTIES
    RunsEnd
    RunsAreSettled
