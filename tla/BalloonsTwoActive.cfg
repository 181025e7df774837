\* Two requests to resume at a time.
SPECIFICATION Spec
CONSTANTS
  n1 = n1
  n2 = n2
  w1 = w1
  w2 = w2
  Balloons <- TwoBalloons
  Workers <- TwoWorkers
  MaxBatches = 2
  MaxRequests = 4
  MaxSensor = 1
  Ttn = 0
  Cages = {}
  EditStatuses = {}
  Faults = {}
INVARIANT OneActive
