\* Requests one after the other; Miriada refuses, its answers get lost.
SPECIFICATION Spec
CONSTANTS
  n1 = n1
  n2 = n2
  w1 = w1
  w2 = w2
  Balloons <- TwoBalloons
  Workers <- OneWorker
  MaxBatches = 2
  MaxRequests = 8
  MaxSensor = 1
  Ttn = 2
  Cages = {2}
  EditStatuses = {}
  Faults = {"refused", "lost", "unprepared"}
INVARIANT OneActive ErrorsAreListed TtnIsBacked
PROPERTY KeepsLedger
