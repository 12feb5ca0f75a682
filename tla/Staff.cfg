SPECIFICATION Spec
CONSTANTS
  s1 = s1
  s2 = s2
  s3 = s3
  Staff = {s1, s2, s3}
  Session = {x1, x2}
  Tab = {t1, t2}
  Desk = desk
  Call = {t1, t2, desk}
  NoSession = NoSession
  Owner = s1
  Hired <- AdminAndStaff
  StaffRoles = {"ADMIN", "STAFF"}
  Stale = {s1}
  Asked = {"create", "update", "disable", "enable", "reset"}
  MaxFailures = 1
  MaxWrong = 1
  MaxPassword = 2
  MaxSecond = 0
  Here = {s2}
  Excuses = {"lost", "slow"}
SYMMETRY Symmetry
INVARIANTS WellFormed AlwaysAnAdmin
PROPERTY NobodyIsShownOutForNoReason
