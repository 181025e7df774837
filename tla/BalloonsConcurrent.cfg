\* Two workers at a time.
SPECIFICATION Spec
CONSTANTS
  n1 = n1
  n2 = n2
  w1 = w1
  w2 = w2
  Balloons <- TwoBalloons
  Workers <- TwoWorkers
  MaxBatches = 2
  MaxRequests = 6
  MaxSensor = 1
  Ttn = 1
  Cages = {2}
  EditStatuses = {"paused", "miriada_error"}
  Faults = {"refused", "lost", "unprepared", "crash"}
SYMMETRY Interchangeable
INVARIANT TypeOK CompletedWasClosed FlagAgrees
