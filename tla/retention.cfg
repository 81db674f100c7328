SPECIFICATION Spec
CONSTANTS
  o1 = o1 o2 = o2 a3 = a3 a4 = a4
  AuditRows = {a1, a2, a3}
  Attendances = {}
  Photos = {p1, p2}
  Submissions = {s1, s2}
  Recordings = {}
  Keyless = {a1, a2, a3, s1, s2}
  Young = {p2, s2}
  Old = {a1, a3, s1}
  Orgs = {o1, o2}
  Owner <- MCOwner
  Passes = {x, y}
  Timers <- MCTimers
  BatchSize = 2
  ArchiveMode = "configured"
  MaxStops = 1
INVARIANTS NothingUncopied CountedOnce OrphansAreCascaded
PROPERTIES HoldsProtect
