SPECIFICATION Spec
CONSTANTS
  a = a
  t1 = t1
  t2 = t2
  s1 = s1
  s2 = s2
  None = None
  MaxCandidates = 4
  Initial = 3
  Addresses = {a}
  Titles = {t1, t2}
  Skills = {s1, s2}
  Edits <- SomeEdits
  Resumes <- SomeResumes
  Users = {u1, u2}
  Admins = {u2}
  Notes = {n1}
  Searches = {q1}
  Sessions = {p1, p2}
  PageSize = 2
  MaxOps = 3
SYMMETRY Interchangeable
CHECK_DEADLOCK FALSE
INVARIANTS
  TypeOK
  EmailsTellApart
  EditsStand
  WalkAccounts
PROPERTIES
  ArchivedStays
