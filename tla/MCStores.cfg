\* Every store; requests, users, workspaces and members are interchangeable.
CONSTANTS
    None = None
    Null = Null
    NoRow = NoRow
    Clients = {c1, c2}
    Users = {u1, u2}
    Workspaces = {w1, w2}
    MemberIds = {m1, m2, m3}
    Slugs = {"s1", "s2"}
    Requests = {"r1"}
    MaxDeaths = 0
SPECIFICATION SuiteSpec
SYMMETRY Symmetry
INVARIANTS
    WhatIsStoredComesBack
PROPERTIES
    WorkspacesStayGoverned
CHECK_DEADLOCK FALSE
