SPECIFICATION PartsSpec
CONSTANTS
  User = {a, u}
  Admins = {a}
  Token = {i1, i2, i3}
  Session = {s1, s2, s3}
  Hash = {h1, h2, h3}
  Request = {r1, r2}
  None = None
  Revoked = Revoked
  Person = {"dylan", "luden"}
  Role = {"ADMIN", "SALES"}
  Permission = {"users.roles.manage", "sales.cancel"}
  Grants <- MCGrants
  SeedRoles <- MCSeedRoles
  SeedGrants <- MCSeedGrants
  Restricted = {"users.roles.manage", "sales.cancel"}
  PanelAccess = {"users.roles.manage"}
  MaxRequests = 3
SYMMETRY Interchangeable
INVARIANTS
  LiveSessionsCurrent StatusMatchesCredential
PROPERTIES
  SoleAdminKeepsAccess CredentialsComeFromInvitations PanelHoldsAccess
CHECK_DEADLOCK FALSE
