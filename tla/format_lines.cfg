SPECIFICATION Spec
CONSTANTS
  Times = {7, 45, 1000, 1123, 2099}
  Zones = {0, 60}
  Levels = {1, 7}
  LineNumbers = {0, 9}
  Callers = {c1, c2}
  ThreadHash <- Hashes
  Texts = {"one", "two"}
  MaxQueued = 1
INVARIANTS
  LineTellsCall
  TimeOfRecord
