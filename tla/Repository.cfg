SPECIFICATION Spec
CONSTANTS
  None = None
  Keep = Keep
  org1 = org1
  org2 = org2
  s1 = s1
  s2 = s2
  s3 = s3
  d1 = d1
  a1 = a1
  a2 = a2
  v1 = v1
  v2 = v2
  l1 = l1
  l2 = l2
  n1 = n1
  n2 = n2
  j1 = j1
  Scripts = {s1, s2, s3}
  Versions = {v1, v2}
  Schedules = {d1}
  Jobs = {j1}
  Agents = {a1, a2}
  Organizations = {org1, org2}
  Names = {n1, n2}
  Labels = {l1, l2}
  MaxPatching = 2
  OrgOfScript <- MCOrgOfScript
  OrgOfSchedule <- MCOrgOfSchedule
  OrgOfAgent <- MCOrgOfAgent
INVARIANTS
  TypeOK
  ReferencesHold
  OrganizationsAgree
PROPERTIES
  VersionsAreKept
SYMMETRY RepositorySymmetry
