SPECIFICATION MCSpec
CONSTANTS
  r1 = r1
  r2 = r2
  m1 = m1
  s1 = s1
  s2 = s2
  Absent = Absent
  Runtime = {r1, r2, r3}
  Migrator = {m1}
  Requested <- OneOfEach
  r3 = r3
  MaxFaults = 1
  Session = {s1, s2}
  Nobody = Nobody
  Project = {1, 2}
  Home <- OneDirectory
  Dir = {"d1", "d2"}
  Manager = {h}
  Operation = {o1, o2}
  MaxNotes = 3
  MaxChanges = 2
SYMMETRY Interchangeable
INVARIANTS
  MigrationAlone
  OneRecoverer
  ClaimsConverge
  MigratedWhole
  MemorySound
CHECK_DEADLOCK FALSE
