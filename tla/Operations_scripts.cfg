SPECIFICATION Spec
CONSTANTS
  Initial = {"legacy"}
  Requests <- Mix
  c1 = c1
  c2 = c2
  k1 = k1
  v1 = v1
  Keys = {k1}
  Values = {v1}
  Absent = absent
  Calls = {c1, c2, importer}
  Importer = importer
  Entries <- LegacyFile
  MaxBackups = 2
CHECK_DEADLOCK FALSE
INVARIANTS
  TypeOK
  VisibleDumpHasChecksum
  DroppedIsSaved
PROPERTIES
  Linearizable
  ServesWhatWasRestored
