------------------------------ MODULE MCAccess ------------------------------
EXTENDS Access, TLC

CONSTANTS a, b, o1, o2, p1, p2, k1, e1, c1, c2, d1, l1, h1

TwoTags == {a, b}
TwoOrgs == {o1, o2}
TwoProjects == {p1, p2}
Homes == [p \in TwoProjects |-> IF p = p1 THEN o1 ELSE o2]
OneKey == {k1}
OneIdent == {e1}
TwoClients == {c1, c2}
Symmetric == Permutations(TwoClients)
OneRecord == {d1}
OneLink == {l1}
OneHook == {h1}

\* The identity belongs to an organization; its project is a matter of membership.
OrgClaim == [e \in OneIdent |-> [tag |-> None, org |-> o1, project |-> None]]

Key(tag, org, p, role) == [tag |-> tag, org |-> org, project |-> p, role |-> role]

\* A key of a tag alone, of a tag in an organization, and of a project, that may write or not.
KeyKinds == {Key(a, None, None, "READER"), Key(a, o1, None, "READER"),
             Key(None, None, p1, "OWNER"), Key(a, None, p1, "READER")}

Wanted(tag, org, p) == [tag |-> tag, org |-> org, project |-> p]

\* A tag, with an organization, or with a project, of which one is not the organization's.
SomeWants == {Wanted(a, None, None), Wanted(b, None, None), Wanted(a, o1, None),
              Wanted(a, o1, p1), Wanted(b, None, p2), Wanted(a, o2, p1)}
=============================================================================
