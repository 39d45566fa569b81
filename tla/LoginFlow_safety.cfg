SPECIFICATION Spec
CONSTANTS
  Uid = {u1, u2}
  Link = {c1, c2}
  Task = {t1, t2}
  Row = {r1, r2}
  NoUid = NoUid
  NoLink = NoLink
  NoRow = NoRow
  Tries = 1
  MaxCrashes = 1
  DbErrors = TRUE
SYMMETRY Symmetry
INVARIANTS TypeOK LoginRemembered DuplicatesBounded
PROPERTY VerdictOnOwn
CHECK_DEADLOCK FALSE
