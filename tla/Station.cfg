\* One part of the station at a time, one mishap in each behaviour.
SPECIFICATION Spec
CONSTANTS
  c1 = c1
  c2 = c2
  w1 = w1
  w2 = w2
  l1 = l1
  l2 = l2
  t1 = t1
  t2 = t2
  MaxSlips = 1
  Carousels = {c1, c2}
  Values = {"a", "b"}
  Savers = {w1, w2}
  Lookers = {l1, l2}
  MaxSaves = 2
  Vehicles = {"truck"}
  Timeout = 5
  Window = 5
  MaxMinute = 16
  MaxPassages = 4
  Notes = {"a", "a2", "b"}
  Kind <- NoteKind
  Numbers = {"n1", "n2"}
  Workers = {w1, w2}
  MaxForms = 2
  MaxVersion = 1
  Readers = {5, 6}
  Tags = {t1, t2}
  MaxDoings = 3
  Layouts <- Parts
  Transponders = {0, 3, 6}
  TagLengths = {1}
  MaxRecords = 2
  Bursts = {{0}, {7}}
  Trucks = {1, 2}
  Trailers = {3, 4}
  Service = {4}
  Fleets <- AllFleets
  ListSize = 2
  Size = 3
  Stale = 2
  MaxFrames = 4
SYMMETRY Symmetry
INVARIANT StoreIsCurrent PresenceFollows  CountsAddUp  EventsAreRead ConfirmedAsShown FramesAreHeard
CHECK_DEADLOCK FALSE
