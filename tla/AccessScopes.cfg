SPECIFICATION Spec
CONSTANTS
  a = a
  b = b
  o1 = o1
  o2 = o2
  p1 = p1
  p2 = p2
  k1 = k1
  e1 = e1
  c1 = c1
  c2 = c2
  d1 = d1
  l1 = l1
  h1 = h1
  Admin = Admin
  None = None
  Tags <- TwoTags
  Orgs <- TwoOrgs
  Projects <- TwoProjects
  OrgOf <- Homes
  Keys <- OneKey
  Idents <- OneIdent
  Claims <- OrgClaim
  Grants <- KeyKinds
  Wants <- SomeWants
  Clients <- TwoClients
  Records <- OneRecord
  Links <- OneLink
  Hooks <- OneHook
  MaxRequests = 2
  MaxTime = 1
SYMMETRY Symmetric
INVARIANTS
  TypeOK
  ScopeIsKept
  NothingOutlivesItsOwner
