----------------------------- MODULE Membership -----------------------------
(***************************************************************************)
(* Workspaces and their members: the create route with `seed_workspace`,   *)
(* and the invite, change-role and remove routes of `api/routes/members`.  *)
(* A request is a process whose every storage statement commits on its own *)
(* (the connection is in autocommit mode), so requests interleave between  *)
(* what they check and what they write.                                    *)
(***************************************************************************)
EXTENDS Naturals, FiniteSets, TLAPS

CONSTANTS
    Users,       \* caller identities
    Workspaces,  \* workspace ids; a slug is named by the id first seeded for it
    Slugs,
    MemberIds,   \* fresh ids of Member rows
    Requests,    \* concurrent requests
    NoRow,       \* an absent row
    MaxDeaths    \* bound: requests cut off between two statements

VARIABLES
    workspaces,  \* rows of `workspaces`
    members,     \* rows of `members`
    used,        \* member ids ever handed out
    request,     \* what each request holds in memory
    deaths

vars == <<workspaces, members, used, request, deaths>>

Roles == {"viewer", "experimenter", "admin"}

\* MUTATION_ROLES, of the roles above.
MutationRoles == {"experimenter", "admin"}

Idle == [pc |-> "idle"]

Admins(w) == {m \in MemberIds : /\ members[m] # NoRow
                                /\ members[m].ws = w
                                /\ members[m].role = "admin"}

\* workspace_member_roles: the rows of one user; `None` when no such workspace.
RolesOf(w, u) ==
    {members[m].role : m \in {n \in MemberIds : /\ members[n] # NoRow
                                                /\ members[n].ws = w
                                                /\ members[n].user = u}}

At(r, pc) == request[r].pc = pc

Goto(r, pc) == request' = [request EXCEPT ![r].pc = pc]

Return(r) == request' = [request EXCEPT ![r] = Idle]

\* members_user_role_unique: one row per workspace, user and role.
Fits(m, row) == \A n \in MemberIds \ {m} : members[n] # row

(***************************************************************************)
(* Creating a workspace.  A slug the caller already owns is returned as it *)
(* is; otherwise the workspace row and the admin row are two writes.  A    *)
(* slug of another owner trips the unique constraint and the request       *)
(* fails.                                                                  *)
(***************************************************************************)
CreateStart(r, u, s) ==
    /\ At(r, "idle")
    /\ request' = [request EXCEPT ![r] = [pc |-> "find", op |-> "create",
                                          caller |-> u, slug |-> s]]
    /\ UNCHANGED <<workspaces, members, used, deaths>>

Owned(u, s) == {w \in Workspaces : workspaces[w] = [slug |-> s, owner |-> u]}

FindWorkspace(r) ==
    /\ At(r, "find")
    /\ IF Owned(request[r].caller, request[r].slug) # {}
       THEN \E w \in Owned(request[r].caller, request[r].slug) :
               request' = [request EXCEPT ![r] = [pc |-> "created", op |-> "create",
                                                  caller |-> request[r].caller, ws |-> w]]
       ELSE Goto(r, "put_workspace")
    /\ UNCHANGED <<workspaces, members, used, deaths>>

PutWorkspace(r) ==
    /\ At(r, "put_workspace")
    /\ LET row == [slug |-> request[r].slug, owner |-> request[r].caller]
           taken == \E w \in Workspaces :
                       workspaces[w] # NoRow /\ workspaces[w].slug = row.slug
       IN  IF taken
           THEN Return(r) /\ UNCHANGED workspaces
           ELSE \E w \in Workspaces :
                   /\ workspaces[w] = NoRow
                   /\ workspaces' = [workspaces EXCEPT ![w] = row]
                   /\ request' = [request EXCEPT ![r] =
                         [pc |-> "seed", op |-> "create",
                          caller |-> request[r].caller, ws |-> w]]
    /\ UNCHANGED <<members, used, deaths>>

\* The API seeds the admin role only (`assign_all_roles=False`).
SeedAdmin(r) ==
    /\ At(r, "seed")
    /\ \E m \in MemberIds \ used :
          /\ used' = used \cup {m}
          /\ members' = [members EXCEPT ![m] = [ws |-> request[r].ws,
                            user |-> request[r].caller, role |-> "admin"]]
    /\ Goto(r, "created")
    /\ UNCHANGED <<workspaces, deaths>>

CreateReturn(r) ==
    /\ At(r, "created")
    /\ Return(r)
    /\ UNCHANGED <<workspaces, members, used, deaths>>

(***************************************************************************)
(* Membership routes.  The middleware wants a role that may write, the     *)
(* handler then wants the admin role, each with a read of its own.         *)
(***************************************************************************)
ManageStart(r, u, w) ==
    /\ At(r, "idle")
    /\ \E op \in {"invite", "update", "remove"}, who \in Users, role \in Roles,
          m \in MemberIds :
          /\ op = "remove" => role = "viewer"
          /\ op = "invite" => m \notin used
          /\ op # "invite" => who = u
          /\ request' = [request EXCEPT ![r] =
                [pc |-> "authorize", op |-> op, caller |-> u, ws |-> w,
                 user |-> who, role |-> role, id |-> m, copy |-> NoRow]]
          /\ used' = IF op = "invite" THEN used \cup {m} ELSE used
    /\ UNCHANGED <<workspaces, members, deaths>>

\* authorize_workspace(write=True): 404 without the workspace, 403 without a
\* role that may write.
AuthorizeWorkspace(r) ==
    /\ At(r, "authorize")
    /\ IF /\ workspaces[request[r].ws] # NoRow
          /\ RolesOf(request[r].ws, request[r].caller) \cap MutationRoles # {}
       THEN Goto(r, "admin")
       ELSE Return(r)
    /\ UNCHANGED <<workspaces, members, used, deaths>>

\* Slip: any role that may write may manage.
AnyWriter(r) == RolesOf(request[r].ws, request[r].caller) \cap MutationRoles # {}

MayManage(r) == "admin" \in RolesOf(request[r].ws, request[r].caller)

RequireAdmin(r) ==
    /\ At(r, "admin")
    /\ IF MayManage(r)
       THEN Goto(r, IF request[r].op = "invite" THEN "existing" ELSE "get")
       ELSE Return(r)
    /\ UNCHANGED <<workspaces, members, used, deaths>>

\* invite_member reads the invited user's roles and refuses a duplicate.
CheckExisting(r) ==
    /\ At(r, "existing")
    /\ IF request[r].role \in RolesOf(request[r].ws, request[r].user)
       THEN Return(r)
       ELSE request' = [request EXCEPT ![r].pc = "put",
               ![r].copy = [ws |-> request[r].ws, user |-> request[r].user,
                            role |-> request[r].role]]
    /\ UNCHANGED <<workspaces, members, used, deaths>>

\* get_entity of update and remove: 404 for an absent row, or for a row of
\* another workspace (which `get_entity` reports as a mismatch).  Only a step
\* away from the admin role is checked further.
GetMember(r) ==
    LET row == members[request[r].id]
        leaves == row.role = "admin" /\ (request[r].op = "remove" \/ request[r].role # "admin")
        write == IF request[r].op = "remove" THEN "delete" ELSE "put"
    IN  /\ At(r, "get")
        /\ IF row = NoRow \/ (row # NoRow /\ row.ws # request[r].ws)
           THEN Return(r)
           ELSE request' = [request EXCEPT
                   ![r].pc = IF leaves THEN "last_admin" ELSE write,
                   ![r].copy = IF request[r].op = "remove" THEN row
                               ELSE [row EXCEPT !.role = request[r].role]]
        /\ UNCHANGED <<workspaces, members, used, deaths>>

OtherAdmins(r) == Admins(request[r].ws) \ {request[r].id}

\* _refuse_if_last_admin
RefuseIfLastAdmin(r) ==
    /\ At(r, "last_admin")
    /\ IF OtherAdmins(r) = {}
       THEN Return(r)
       ELSE Goto(r, IF request[r].op = "remove" THEN "delete" ELSE "put")
    /\ UNCHANGED <<workspaces, members, used, deaths>>

\* put_entity of a Member: versions are never raised, so the compare passes;
\* a row deleted in the meantime is inserted again.
PutMember(r) ==
    /\ At(r, "put")
    /\ members' = IF Fits(request[r].id, request[r].copy)
                  THEN [members EXCEPT ![request[r].id] = request[r].copy]
                  ELSE members
    /\ Return(r)
    /\ UNCHANGED <<workspaces, used, deaths>>

DeleteMember(r) ==
    /\ At(r, "delete")
    /\ members' = [members EXCEPT ![request[r].id] = NoRow]
    /\ Return(r)
    /\ UNCHANGED <<workspaces, used, deaths>>

\* The process serving the request dies between two statements.
RequestDies(r) ==
    /\ ~At(r, "idle")
    /\ deaths < MaxDeaths
    /\ deaths' = deaths + 1
    /\ Return(r)
    /\ UNCHANGED <<workspaces, members, used>>

(***************************************************************************)
(* The specification.                                                      *)
(***************************************************************************)
Init ==
    /\ workspaces = [w \in Workspaces |-> NoRow]
    /\ members = [m \in MemberIds |-> NoRow]
    /\ used = {}
    /\ request = [r \in Requests |-> Idle]
    /\ deaths = 0

Step(r) ==
    \/ \E u \in Users, s \in Slugs : CreateStart(r, u, s)
    \/ FindWorkspace(r) \/ PutWorkspace(r) \/ SeedAdmin(r) \/ CreateReturn(r)
    \/ \E u \in Users, w \in Workspaces : ManageStart(r, u, w)
    \/ AuthorizeWorkspace(r) \/ RequireAdmin(r)
    \/ CheckExisting(r) \/ GetMember(r) \/ RefuseIfLastAdmin(r)
    \/ PutMember(r) \/ DeleteMember(r)
    \/ RequestDies(r)

Next == \E r \in Requests : Step(r)

Spec == Init /\ [][Next]_vars

(***************************************************************************)
(* Properties.                                                             *)
(***************************************************************************)
Seeding(w) == \E r \in Requests : At(r, "seed") /\ request[r].ws = w

\* Every workspace that is not just being seeded has an admin: the last one is
\* neither demoted nor removed (members.py, _refuse_if_last_admin).
Administrable ==
    \A w \in Workspaces : workspaces[w] # NoRow /\ ~Seeding(w) => Admins(w) # {}

\* However requests interleave, no user holds one role twice in a workspace.
GrantsAreUnique ==
    \A m, n \in MemberIds : m # n /\ members[m] # NoRow => members[m] # members[n]

\* A member of a workspace that has some changes only by the hand of somebody
\* who is its admin at that moment.
ChangedByAnAdmin ==
    \A m \in MemberIds : members'[m] # members[m] =>
       \E r \in Requests :
          \/ At(r, "seed")
          \/ request[r].id = m /\ "admin" \in RolesOf(request[r].ws, request[r].caller)

\* Requests are served one after the other.
OneAtATime == \A r, s \in Requests : r = s

\* What the code keeps of all that: what is checked and what is written are apart, so
\* an admin is what every workspace has, and who changes its members, when requests do
\* not overlap and, for the first, when none is cut off between the two rows of a
\* create; grants are unique in any case (members routes, seed_workspace).
Governed ==
    GrantsAreUnique /\ (OneAtATime /\ MaxDeaths = 0 => Administrable)
WorkspacesStayGoverned ==
    []Governed /\ [][OneAtATime => ChangedByAnAdmin]_vars

\* A create request that returns a workspace returns one that has an admin
\* (seed.py: create-or-fetch a workspace and member rows).
\* The code does not keep it: the two rows are two commits, and a later call returns the
\* workspace as it is.
CreateReturnsAdmin ==
    [][\A r \in Requests : CreateReturn(r) => Admins(request[r].ws) # {}]_vars

(***************************************************************************)
(* Proofs, for any users, workspaces and requests.  Grants are unique      *)
(* however requests interleave, since a workspace is seeded by the one     *)
(* request that created it and only its members' routes write afterwards   *)
(* (GrantsFit).  What is said of admins needs what a lone request knows:   *)
(* nothing it has read has changed (AdmittedFit, AdminFit).                *)
(***************************************************************************)
(* No row is none at all. *)
Account == [slug : Slugs, owner : Users]
Row == [ws : Workspaces, user : Users, role : Roles]
MembershipConstants == NoRow \notin Row /\ NoRow \notin Account /\ MaxDeaths \in Nat

Finding == [pc : {"find", "put_workspace"}, op : {"create"}, caller : Users, slug : Slugs]
Founding == [pc : {"seed", "created"}, op : {"create"}, caller : Users, ws : Workspaces]

(* Past the check that the caller is an admin, and where a write is all that is left. *)
Admitted == {"existing", "get", "last_admin", "put", "delete"}
Writing == {"put", "delete"}
Holding == Writing \cup {"last_admin"}
Managing == [pc : {"authorize", "admin"} \cup Admitted, op : {"invite", "update", "remove"},
             caller : Users, ws : Workspaces, user : Users, role : Roles, id : MemberIds,
             copy : Row \cup {NoRow}]

(* A request that is to write has the row, of the workspace it was admitted to. *)
Shape(q) ==
    /\ q = Idle \/ q \in Finding \/ q \in Founding \/ q \in Managing
    /\ q.pc \in Holding => q.copy \in Row /\ q.copy.ws = q.ws

MembershipType ==
    /\ workspaces \in [Workspaces -> Account \cup {NoRow}]
    /\ members \in [MemberIds -> Row \cup {NoRow}]
    /\ DOMAIN request = Requests /\ \A r \in Requests : Shape(request[r])
    /\ deaths \in Nat

-----------------------------------------------------------------------------
(* Any requests.                                                             *)
Founded(w) == workspaces[w] # NoRow /\ ~Seeding(w)

GrantsFit ==
    /\ MembershipType
    /\ GrantsAreUnique
    /\ \A m \in MemberIds : members[m] # NoRow => Founded(members[m].ws)
    /\ \A r \in Requests : At(r, "seed") => workspaces[request[r].ws] # NoRow
    /\ \A r, s \in Requests : At(r, "seed") /\ At(s, "seed") /\ request[r].ws = request[s].ws => r = s
    /\ \A r \in Requests : request[r].pc \in Admitted => Founded(request[r].ws)

-----------------------------------------------------------------------------
(* One request at a time.                                                    *)
AdmittedFit ==
    \A r \in Requests : request[r].pc \in Admitted =>
        "admin" \in RolesOf(request[r].ws, request[r].caller)

(* What a request that has looked at a row knows of it. *)
Looked(q) ==
    /\ q.pc = "existing" => q.op = "invite"
    /\ q.op = "invite" => members[q.id] = NoRow
    /\ q.op # "invite" /\ q.pc \in Holding =>
          members[q.id] # NoRow /\ members[q.id].ws = q.ws
    /\ q.pc \in Writing /\ members[q.id] # NoRow /\ members[q.id].role = "admin"
          /\ (q.pc = "delete" \/ q.copy.role # "admin") => Admins(q.ws) \ {q.id} # {}

AdminFit ==
    /\ \A m \in MemberIds : members[m] # NoRow => m \in used
    /\ Administrable
    /\ \A r \in Requests : request[r] \in Managing => Looked(request[r])
    /\ \A r \in Requests : request[r] \in Managing /\ request[r].op = "invite" => request[r].id \in used

-----------------------------------------------------------------------------
LEMMA Shapes ==
    ASSUME NEW q, Shape(q)
    PROVE  /\ q.pc \in {"idle", "find", "put_workspace", "seed", "created", "authorize", "admin"}
                        \cup Admitted
           /\ q.pc = "idle" => q = Idle
           /\ q.pc \in {"find", "put_workspace"} => q \in Finding
           /\ q.pc \in {"seed", "created"} => q \in Founding
           /\ q.pc \in {"authorize", "admin"} \cup Admitted <=> q \in Managing
<1>1. Idle.pc = "idle"
  BY DEF Idle
<1>. QED  BY <1>1 DEF Shape, Finding, Founding, Managing, Admitted

LEMMA IdleShape == Shape(Idle) /\ Idle.pc = "idle" /\ Idle \notin Managing
BY DEF Shape, Idle, Holding, Writing, Managing, Admitted

(* A request that goes on, short of a write, keeps what it holds. *)
LEMMA GoesOn ==
    ASSUME NEW q \in Managing, NEW p \in {"admin"} \cup Admitted,
           p \in Holding => q.copy \in Row /\ q.copy.ws = q.ws
    PROVE  /\ Shape([q EXCEPT !.pc = p]) /\ [q EXCEPT !.pc = p] \in Managing
           /\ [q EXCEPT !.pc = p].pc = p
           /\ [q EXCEPT !.pc = p].op = q.op /\ [q EXCEPT !.pc = p].id = q.id
           /\ [q EXCEPT !.pc = p].ws = q.ws /\ [q EXCEPT !.pc = p].caller = q.caller
           /\ [q EXCEPT !.pc = p].copy = q.copy
BY DEF Shape, Managing

LEMMA OneRequest ==
    ASSUME MembershipType, NEW r \in Requests, NEW q, Shape(q), request' = [request EXCEPT ![r] = q]
    PROVE  /\ DOMAIN request' = Requests /\ request'[r] = q
           /\ \A s \in Requests : s # r => request'[s] = request[s]
           /\ \A s \in Requests : Shape(request'[s])
<1>1. DOMAIN request = Requests /\ \A s \in Requests : Shape(request[s])
  BY DEF MembershipType
<1>2. DOMAIN request' = Requests /\ \A s \in Requests : request'[s] = IF s = r THEN q ELSE request[s]
  BY <1>1
<1>. QED  BY <1>1, <1>2

(* A step that founds nothing, and admits only to what is founded. *)
LEMMA GrantsFrame ==
    ASSUME GrantsFit, NEW r \in Requests, NEW q, Shape(q), request' = [request EXCEPT ![r] = q],
           UNCHANGED workspaces, deaths' \in Nat,
           members' \in [MemberIds -> Row \cup {NoRow}], GrantsAreUnique',
           \A m \in MemberIds : members'[m] # NoRow => Founded(members'[m].ws),
           q.pc # "seed", q.pc \in Admitted => Founded(q.ws)
    PROVE  GrantsFit'
<1>1. /\ MembershipType /\ request'[r] = q /\ DOMAIN request' = Requests
      /\ \A s \in Requests : Shape(request'[s])
      /\ \A s \in Requests : s # r => request'[s] = request[s]
  BY OneRequest DEF GrantsFit
<1>2. ASSUME NEW w, Founded(w) PROVE Founded(w)'
  BY <1>1, <1>2 DEF Founded, Seeding, At
<1>3. MembershipType'
  <2>1. workspaces' \in [Workspaces -> Account \cup {NoRow}]
    BY <1>1 DEF MembershipType
  <2>2. \A s \in Requests : Shape(request[s])'
    BY <1>1 DEF Shape
  <2>. QED  BY <1>1, <2>1, <2>2 DEF MembershipType
<1>4. \A m \in MemberIds : members'[m] # NoRow => Founded(members[m].ws)'
  <2>1. ASSUME NEW m \in MemberIds, members'[m] # NoRow PROVE Founded(members[m].ws)'
    <3>1. PICK w : w = members'[m].ws
      OBVIOUS
    <3>2. Founded(w)
      BY <2>1, <3>1
    <3>3. Founded(w)'
      BY <1>2, <3>2
    <3>. QED  BY <3>1, <3>3 DEF Founded, Seeding, At
  <2>. QED  BY <2>1
<1>5. \A s \in Requests : request'[s].pc \in Admitted => Founded(request[s].ws)'
  <2>1. ASSUME NEW s \in Requests, request'[s].pc \in Admitted PROVE Founded(request[s].ws)'
    <3>1. PICK w : w = request'[s].ws
      OBVIOUS
    <3>2. Founded(w)
      BY <1>1, <2>1, <3>1 DEF GrantsFit
    <3>3. Founded(w)'
      BY <1>2, <3>2
    <3>. QED  BY <3>1, <3>3 DEF Founded, Seeding, At
  <2>. QED  BY <2>1
<1>6. \A s \in Requests : request'[s].pc = "seed" => s # r /\ request'[s] = request[s]
  BY <1>1
<1>. QED  BY <1>3, <1>4, <1>5, <1>6 DEF GrantsFit, At

(* ... and touches no member. *)
LEMMA GrantsQuiet ==
    ASSUME GrantsFit, NEW r \in Requests, NEW q, Shape(q), request' = [request EXCEPT ![r] = q],
           UNCHANGED <<workspaces, members>>, deaths' \in Nat,
           q.pc # "seed", q.pc \in Admitted => Founded(q.ws)
    PROVE  GrantsFit'
<1>1. /\ members' \in [MemberIds -> Row \cup {NoRow}] /\ GrantsAreUnique'
      /\ \A m \in MemberIds : members'[m] # NoRow => Founded(members'[m].ws)
  BY DEF GrantsFit, MembershipType, GrantsAreUnique
<1>. QED  BY <1>1, GrantsFrame

LEMMA CreateSteps ==
    ASSUME GrantsFit, NEW r \in Requests,
           \/ \E u \in Users, s \in Slugs : CreateStart(r, u, s)
           \/ FindWorkspace(r) \/ CreateReturn(r)
    PROVE  GrantsFit'
<1>1. MembershipType /\ Shape(request[r]) /\ deaths \in Nat
  BY DEF GrantsFit, MembershipType
<1>2. ASSUME NEW u \in Users, NEW s \in Slugs, CreateStart(r, u, s) PROVE GrantsFit'
  <2>. DEFINE q == [pc |-> "find", op |-> "create", caller |-> u, slug |-> s]
  <2>1. q \in Finding /\ q.pc = "find"
    BY DEF Finding
  <2>2. Shape(q) /\ q.pc # "seed" /\ q.pc \notin Admitted
    BY <2>1 DEF Shape, Holding, Writing, Admitted
  <2>. HIDE DEF q
  <2>3. request' = [request EXCEPT ![r] = q] /\ UNCHANGED <<workspaces, members, deaths>>
    BY <1>2 DEF CreateStart, q
  <2>. QED  BY <1>1, <2>2, <2>3, GrantsQuiet
<1>3. CASE FindWorkspace(r)
  <2>1. request[r] \in Finding
    BY <1>1, <1>3, Shapes DEF FindWorkspace, At
  <2>2. \/ request' = [request EXCEPT ![r].pc = "put_workspace"]
        \/ \E w \in Workspaces : request' = [request EXCEPT ![r] =
              [pc |-> "created", op |-> "create", caller |-> request[r].caller, ws |-> w]]
    BY <1>3 DEF FindWorkspace, Goto, Owned
  <2>3. \E q : request' = [request EXCEPT ![r] = q] /\ Shape(q) /\ q.pc \in {"put_workspace", "created"}
    <3>1. CASE request' = [request EXCEPT ![r].pc = "put_workspace"]
      <4>. DEFINE q == [request[r] EXCEPT !.pc = "put_workspace"]
      <4>1. q \in Finding /\ q.pc = "put_workspace"
        BY <2>1 DEF Finding
      <4>2. Shape(q)
        BY <4>1 DEF Shape, Holding, Writing
      <4>. QED  BY <3>1, <4>1, <4>2
    <3>2. ASSUME NEW w \in Workspaces, request' = [request EXCEPT ![r] =
                    [pc |-> "created", op |-> "create", caller |-> request[r].caller, ws |-> w]]
          PROVE  \E q : request' = [request EXCEPT ![r] = q] /\ Shape(q) /\ q.pc \in {"put_workspace", "created"}
      <4>. DEFINE q == [pc |-> "created", op |-> "create", caller |-> request[r].caller, ws |-> w]
      <4>1. q \in Founding /\ q.pc = "created"
        BY <2>1 DEF Finding, Founding
      <4>2. Shape(q)
        BY <4>1 DEF Shape, Holding, Writing
      <4>. QED  BY <3>2, <4>1, <4>2
    <3>. QED  BY <2>2, <3>1, <3>2
  <2>. QED  BY <1>1, <1>3, <2>3, GrantsQuiet DEF FindWorkspace, Admitted
<1>4. CASE CreateReturn(r)
  BY <1>1, <1>4, IdleShape, GrantsQuiet DEF CreateReturn, Return, Admitted
<1>. QED  BY <1>2, <1>3, <1>4

(* Nobody is a member before the workspace is founded. *)
LEMMA AdminsAreFounded ==
    ASSUME GrantsFit, NEW w, NEW u, "admin" \in RolesOf(w, u) PROVE Founded(w)
BY DEF RolesOf, GrantsFit

LEMMA ManageSteps ==
    ASSUME MembershipConstants, GrantsFit, NEW r \in Requests,
           \/ \E u \in Users, w \in Workspaces : ManageStart(r, u, w)
           \/ AuthorizeWorkspace(r) \/ RequireAdmin(r) \/ CheckExisting(r) \/ GetMember(r)
           \/ RefuseIfLastAdmin(r)
    PROVE  GrantsFit'
<1>1. MembershipType /\ Shape(request[r]) /\ deaths \in Nat
  BY DEF GrantsFit, MembershipType
<1>2. ASSUME NEW u \in Users, NEW w \in Workspaces, ManageStart(r, u, w) PROVE GrantsFit'
  <2>1. PICK op \in {"invite", "update", "remove"}, who \in Users, role \in Roles, m \in MemberIds :
          request' = [request EXCEPT ![r] = [pc |-> "authorize", op |-> op, caller |-> u, ws |-> w,
                                             user |-> who, role |-> role, id |-> m, copy |-> NoRow]]
    BY <1>2, ZenonT(30) DEF ManageStart
  <2>. DEFINE q == [pc |-> "authorize", op |-> op, caller |-> u, ws |-> w,
                    user |-> who, role |-> role, id |-> m, copy |-> NoRow]
  <2>2. q \in Managing /\ q.pc = "authorize"
    BY DEF Managing
  <2>3. Shape(q) /\ q.pc # "seed" /\ q.pc \notin Admitted
    BY <2>2 DEF Shape, Holding, Writing, Admitted
  <2>. HIDE DEF q
  <2>4. request' = [request EXCEPT ![r] = q] /\ UNCHANGED <<workspaces, members, deaths>>
    BY <1>2, <2>1 DEF ManageStart, q
  <2>. QED  BY <1>1, <2>3, <2>4, GrantsQuiet
<1>3. CASE AuthorizeWorkspace(r)
  <2>1. request[r] \in Managing
    BY <1>1, <1>3, Shapes DEF AuthorizeWorkspace, At
  <2>. DEFINE q == [request[r] EXCEPT !.pc = "admin"]
  <2>2. "admin" \notin Holding \cup Admitted
    BY DEF Holding, Writing, Admitted
  <2>3. Shape(q) /\ q.pc = "admin"
    BY <2>1, <2>2, GoesOn
  <2>4. request' = [request EXCEPT ![r] = q] \/ request' = [request EXCEPT ![r] = Idle]
    BY <1>3 DEF AuthorizeWorkspace, Goto, Return
  <2>. HIDE DEF q
  <2>. QED  BY <1>1, <1>3, <2>2, <2>3, <2>4, IdleShape, GrantsQuiet DEF AuthorizeWorkspace, Admitted
<1>4. CASE RequireAdmin(r)
  <2>1. request[r] \in Managing
    BY <1>1, <1>4, Shapes DEF RequireAdmin, At
  <2>. DEFINE p == IF request[r].op = "invite" THEN "existing" ELSE "get"
              q == [request[r] EXCEPT !.pc = p]
  <2>2. p \in Admitted \ Holding
    BY DEF Admitted, Holding, Writing
  <2>. HIDE DEF p
  <2>3. Shape(q) /\ q.pc # "seed" /\ q.ws = request[r].ws
    BY <2>1, <2>2, GoesOn DEF Admitted
  <2>4. \/ request' = [request EXCEPT ![r] = q] /\ MayManage(r)
        \/ request' = [request EXCEPT ![r] = Idle]
    BY <1>4 DEF RequireAdmin, Goto, Return, p
  <2>. HIDE DEF q
  <2>5. MayManage(r) => Founded(q.ws)
    BY <2>3, AdminsAreFounded DEF MayManage
  <2>. QED  BY <1>1, <1>4, <2>3, <2>4, <2>5, IdleShape, GrantsQuiet DEF RequireAdmin, Admitted
<1>5. CASE CheckExisting(r)
  <2>1. request[r] \in Managing /\ request[r].pc \in Admitted
    BY <1>1, <1>5, Shapes DEF CheckExisting, At, Admitted
  <2>2. Founded(request[r].ws)
    BY <2>1 DEF GrantsFit
  <2>. DEFINE c == [ws |-> request[r].ws, user |-> request[r].user, role |-> request[r].role]
              q == [request[r] EXCEPT !.pc = "put", !.copy = c]
  <2>3. c \in Row /\ c.ws = request[r].ws
    BY <2>1 DEF Managing, Row
  <2>. HIDE DEF c
  <2>4. q \in Managing /\ q.pc = "put" /\ q.copy = c /\ q.ws = request[r].ws
    BY <2>1, <2>3 DEF Managing, Admitted
  <2>5. Shape(q)
    BY <2>3, <2>4 DEF Shape
  <2>6. request' = [request EXCEPT ![r] = q] \/ request' = [request EXCEPT ![r] = Idle]
    BY <1>5 DEF CheckExisting, Return, c
  <2>. HIDE DEF q
  <2>. QED  BY <1>1, <1>5, <2>2, <2>4, <2>5, <2>6, IdleShape, GrantsQuiet DEF CheckExisting, Admitted
<1>6. CASE GetMember(r)
  <2>1. request[r] \in Managing /\ request[r].pc \in Admitted
    BY <1>1, <1>6, Shapes DEF GetMember, At, Admitted
  <2>2. Founded(request[r].ws)
    BY <2>1 DEF GrantsFit
  <2>. DEFINE row == members[request[r].id]
              c == IF request[r].op = "remove" THEN row ELSE [row EXCEPT !.role = request[r].role]
  <2>3. row \in Row \cup {NoRow} /\ request[r].role \in Roles /\ request[r].id \in MemberIds
    BY <1>1, <2>1 DEF MembershipType, Managing
  <2>4. CASE row = NoRow \/ row.ws # request[r].ws
    <3>1. request' = [request EXCEPT ![r] = Idle] /\ UNCHANGED <<workspaces, members, deaths>>
      BY <1>6, <2>4 DEF GetMember, Return
    <3>. QED  BY <1>1, <3>1, IdleShape, GrantsQuiet DEF Admitted
  <2>5. CASE row # NoRow /\ row.ws = request[r].ws
    <3>1. c \in Row /\ c.ws = request[r].ws
      BY <2>3, <2>5 DEF Row
    <3>2. PICK p \in {"last_admin", "delete", "put"} :
            request' = [request EXCEPT ![r] = [request[r] EXCEPT !.pc = p, !.copy = c]]
      BY <1>6, <2>5, ZenonT(30) DEF GetMember
    <3>. DEFINE q == [request[r] EXCEPT !.pc = p, !.copy = c]
    <3>. HIDE DEF c
    <3>3. q \in Managing /\ q.pc = p /\ q.copy = c /\ q.ws = request[r].ws
      BY <2>1, <3>1 DEF Managing, Admitted
    <3>4. Shape(q) /\ q.pc # "seed"
      BY <3>1, <3>3 DEF Shape
    <3>5. request' = [request EXCEPT ![r] = q] /\ UNCHANGED <<workspaces, members, deaths>>
      BY <1>6, <3>2 DEF GetMember
    <3>. HIDE DEF q
    <3>. QED  BY <1>1, <2>2, <3>3, <3>4, <3>5, GrantsQuiet
  <2>. QED  BY <2>4, <2>5
<1>7. CASE RefuseIfLastAdmin(r)
  <2>1. request[r] \in Managing /\ request[r].pc \in Admitted
    BY <1>1, <1>7, Shapes DEF RefuseIfLastAdmin, At, Admitted
  <2>2. Founded(request[r].ws) /\ request[r].copy \in Row /\ request[r].copy.ws = request[r].ws
    BY <1>1, <1>7, <2>1 DEF GrantsFit, Shape, Holding, RefuseIfLastAdmin, At
  <2>. DEFINE p == IF request[r].op = "remove" THEN "delete" ELSE "put"
              q == [request[r] EXCEPT !.pc = p]
  <2>3. p \in Admitted /\ p # "seed"
    BY DEF Admitted
  <2>. HIDE DEF p
  <2>4. Shape(q) /\ q.pc = p /\ q.ws = request[r].ws
    BY <2>1, <2>2, <2>3, GoesOn
  <2>5. request' = [request EXCEPT ![r] = q] \/ request' = [request EXCEPT ![r] = Idle]
    BY <1>7 DEF RefuseIfLastAdmin, Goto, Return, p
  <2>. HIDE DEF q
  <2>. QED  BY <1>1, <1>7, <2>2, <2>3, <2>4, <2>5, IdleShape, GrantsQuiet DEF RefuseIfLastAdmin, Admitted
<1>. QED  BY <1>2, <1>3, <1>4, <1>5, <1>6, <1>7

(* The writes: a workspace, its first admin, members. *)
LEMMA WriteSteps ==
    ASSUME MembershipConstants, GrantsFit, NEW r \in Requests,
           PutMember(r) \/ DeleteMember(r) \/ RequestDies(r)
    PROVE  GrantsFit'
<1>1. /\ MembershipType /\ Shape(request[r]) /\ deaths \in Nat /\ GrantsAreUnique
      /\ members \in [MemberIds -> Row \cup {NoRow}] /\ NoRow \notin Row
      /\ \A m \in MemberIds : members[m] # NoRow => Founded(members[m].ws)
  BY DEF GrantsFit, MembershipType, MembershipConstants
<1>2. CASE PutMember(r)
  <2>1. request[r] \in Managing /\ request[r].pc \in Admitted
    BY <1>1, <1>2, Shapes DEF PutMember, At, Admitted
  <2>. DEFINE c == request[r].copy
              i == request[r].id
  <2>2. Founded(request[r].ws) /\ c \in Row /\ c.ws = request[r].ws /\ i \in MemberIds
    BY <1>1, <1>2, <2>1 DEF GrantsFit, Shape, Holding, Writing, PutMember, At, Managing
  <2>3. /\ \/ members' = [members EXCEPT ![i] = c] /\ \A n \in MemberIds \ {i} : members[n] # c
           \/ members' = members
        /\ request' = [request EXCEPT ![r] = Idle] /\ UNCHANGED <<workspaces, deaths>>
    BY <1>2 DEF PutMember, Return, Fits
  <2>. HIDE DEF c, i
  <2>4. CASE members' = members
    BY <1>1, <2>3, <2>4, IdleShape, GrantsQuiet DEF Admitted
  <2>5. CASE members' = [members EXCEPT ![i] = c] /\ \A n \in MemberIds \ {i} : members[n] # c
    <3>1. /\ members' \in [MemberIds -> Row \cup {NoRow}]
          /\ \A m \in MemberIds : members'[m] = IF m = i THEN c ELSE members[m]
      BY <1>1, <2>2, <2>5
    <3>2. GrantsAreUnique'
      BY <1>1, <2>2, <2>5, <3>1 DEF GrantsAreUnique
    <3>3. \A m \in MemberIds : members'[m] # NoRow => Founded(members'[m].ws)
      BY <1>1, <2>2, <3>1
    <3>. QED  BY <1>1, <2>3, <3>1, <3>2, <3>3, IdleShape, GrantsFrame DEF Admitted
  <2>. QED  BY <2>3, <2>4, <2>5
<1>3. CASE DeleteMember(r)
  <2>. DEFINE i == request[r].id
  <2>1. /\ members' = [members EXCEPT ![i] = NoRow]
        /\ request' = [request EXCEPT ![r] = Idle] /\ UNCHANGED <<workspaces, deaths>>
    BY <1>3 DEF DeleteMember, Return
  <2>. HIDE DEF i
  <2>2. /\ members' \in [MemberIds -> Row \cup {NoRow}]
        /\ \A m \in MemberIds : members'[m] = IF m = i THEN NoRow ELSE members[m]
    BY <1>1, <2>1
  <2>3. GrantsAreUnique'
    BY <1>1, <2>2 DEF GrantsAreUnique
  <2>4. \A m \in MemberIds : members'[m] # NoRow => Founded(members'[m].ws)
    BY <1>1, <2>2
  <2>. QED  BY <1>1, <2>1, <2>2, <2>3, <2>4, IdleShape, GrantsFrame DEF Admitted
<1>4. CASE RequestDies(r)
  <2>1. request' = [request EXCEPT ![r] = Idle] /\ UNCHANGED <<workspaces, members>> /\ deaths' \in Nat
    BY <1>1, <1>4 DEF RequestDies, Return
  <2>. QED  BY <2>1, IdleShape, GrantsQuiet DEF Admitted
<1>. QED  BY <1>2, <1>3, <1>4

LEMMA PutWorkspaceFits ==
    ASSUME MembershipConstants, GrantsFit, NEW r \in Requests, PutWorkspace(r)
    PROVE  GrantsFit'
<1>1. /\ MembershipType /\ Shape(request[r]) /\ deaths \in Nat /\ NoRow \notin Account
      /\ workspaces \in [Workspaces -> Account \cup {NoRow}]
      /\ members \in [MemberIds -> Row \cup {NoRow}]
  BY DEF GrantsFit, MembershipType, MembershipConstants
<1>2. request[r] \in Finding
  BY <1>1, Shapes DEF PutWorkspace, At
<1>. DEFINE row == [slug |-> request[r].slug, owner |-> request[r].caller]
<1>3. row \in Account
  BY <1>2 DEF Finding, Account
<1>4. UNCHANGED <<members, deaths>>
  BY DEF PutWorkspace
<1>5. CASE request' = [request EXCEPT ![r] = Idle] /\ UNCHANGED workspaces
  BY <1>1, <1>4, <1>5, IdleShape, GrantsQuiet DEF Admitted
<1>6. ASSUME NEW w \in Workspaces, workspaces[w] = NoRow, workspaces' = [workspaces EXCEPT ![w] = row],
             request' = [request EXCEPT ![r] =
                           [pc |-> "seed", op |-> "create", caller |-> request[r].caller, ws |-> w]]
      PROVE  GrantsFit'
  <2>. DEFINE q == [pc |-> "seed", op |-> "create", caller |-> request[r].caller, ws |-> w]
  <2>1. q \in Founding /\ q.pc = "seed" /\ q.ws = w
    BY <1>2 DEF Finding, Founding
  <2>2. Shape(q)
    BY <2>1 DEF Shape, Holding, Writing
  <2>. HIDE DEF q, row
  <2>3. /\ request'[r] = q /\ DOMAIN request' = Requests /\ \A s \in Requests : Shape(request'[s])
        /\ \A s \in Requests : s # r => request'[s] = request[s]
    BY <1>1, <1>6, <2>2, OneRequest DEF q
  <2>4. /\ workspaces' \in [Workspaces -> Account \cup {NoRow}] /\ workspaces'[w] = row
        /\ \A v \in Workspaces : v # w => workspaces'[v] = workspaces[v]
    BY <1>1, <1>3, <1>6
  <2>5. MembershipType'
    <3>1. \A s \in Requests : Shape(request[s])'
      BY <2>3 DEF Shape
    <3>. QED  BY <1>1, <1>4, <2>3, <2>4, <3>1 DEF MembershipType
  <2>6. ~Founded(w)
    BY <1>6 DEF Founded
  <2>7. ASSUME NEW v, v \in Workspaces, Founded(v)
        PROVE  workspaces'[v] # NoRow /\ \A s \in Requests : ~(request'[s].pc = "seed" /\ request'[s].ws = v)
    <3>1. v # w
      BY <2>6, <2>7
    <3>. QED  BY <2>1, <2>3, <2>4, <2>7, <3>1 DEF Founded, Seeding, At
  <2>8. \A m \in MemberIds : members'[m] # NoRow => Founded(members[m].ws)'
    <3>1. \A m \in MemberIds : members[m] # NoRow => members[m].ws \in Workspaces /\ Founded(members[m].ws)
      BY <1>1 DEF GrantsFit, Row
    <3>. QED  BY <1>4, <2>7, <3>1 DEF Founded, Seeding, At
  <2>9. \A s \in Requests : request'[s].pc = "seed" => workspaces'[request'[s].ws] # NoRow
    <3>1. \A s \in Requests : request[s].pc = "seed" =>
             workspaces[request[s].ws] # NoRow /\ request[s].ws \in Workspaces
      BY <1>1, Shapes DEF GrantsFit, At, MembershipType, Founding
    <3>. QED  BY <1>1, <1>3, <2>1, <2>3, <2>4, <3>1
  <2>10. \A s, t \in Requests : request'[s].pc = "seed" /\ request'[t].pc = "seed"
                                    /\ request'[s].ws = request'[t].ws => s = t
    <3>1. \A s \in Requests : request[s].pc = "seed" => request[s].ws # w
      BY <1>6 DEF GrantsFit, At
    <3>. QED  BY <2>1, <2>3, <3>1 DEF GrantsFit, At
  <2>11. \A s \in Requests : request'[s].pc \in Admitted => Founded(request[s].ws)'
    <3>1. ASSUME NEW s \in Requests, request'[s].pc \in Admitted PROVE Founded(request[s].ws)'
      <4>1. request'[s] = request[s] /\ request[s] \in Managing
        <5>1. s # r
          BY <2>1, <2>3, <3>1 DEF Admitted
        <5>. QED  BY <2>3, <3>1, <5>1, Shapes DEF MembershipType
      <4>2. request[s].ws \in Workspaces /\ Founded(request[s].ws)
        BY <3>1, <4>1 DEF GrantsFit, Managing
      <4>. QED  BY <2>7, <4>1, <4>2 DEF Founded, Seeding, At
    <3>. QED  BY <3>1
  <2>12. GrantsAreUnique'
    BY <1>4 DEF GrantsFit, GrantsAreUnique
  <2>. QED  BY <2>5, <2>8, <2>9, <2>10, <2>11, <2>12 DEF GrantsFit, At
<1>. QED  BY <1>5, <1>6 DEF PutWorkspace, Return

LEMMA SeedAdminFits ==
    ASSUME MembershipConstants, GrantsFit, NEW r \in Requests, SeedAdmin(r)
    PROVE  GrantsFit'
<1>1. /\ MembershipType /\ Shape(request[r]) /\ deaths \in Nat /\ NoRow \notin Row
      /\ members \in [MemberIds -> Row \cup {NoRow}]
  BY DEF GrantsFit, MembershipType, MembershipConstants
<1>2. request[r] \in Founding /\ request[r].pc = "seed"
  BY <1>1, Shapes DEF SeedAdmin, At
<1>3. PICK m \in MemberIds \ used : members' = [members EXCEPT ![m] =
                                         [ws |-> request[r].ws, user |-> request[r].caller, role |-> "admin"]]
  BY DEF SeedAdmin
<1>. DEFINE w == request[r].ws
            row == [ws |-> w, user |-> request[r].caller, role |-> "admin"]
            q == [request[r] EXCEPT !.pc = "created"]
<1>4. row \in Row /\ row.ws = w /\ w \in Workspaces /\ workspaces[w] # NoRow
  BY <1>2 DEF Founding, Row, Roles, GrantsFit, At
<1>5. q \in Founding /\ q.pc = "created"
  BY <1>2 DEF Founding
<1>6. Shape(q)
  BY <1>5 DEF Shape, Holding, Writing
<1>7. request' = [request EXCEPT ![r] = q] /\ UNCHANGED <<workspaces, deaths>>
  BY DEF SeedAdmin, Goto
<1>8. ~Founded(w)
  BY <1>2 DEF Founded, Seeding, At
<1>9. \A s \in Requests : request[s].pc = "seed" /\ request[s].ws = w => s = r
  BY <1>2 DEF GrantsFit, At
<1>. HIDE DEF q, row, w
<1>10. /\ request'[r] = q /\ DOMAIN request' = Requests /\ \A s \in Requests : Shape(request'[s])
       /\ \A s \in Requests : s # r => request'[s] = request[s]
  BY <1>1, <1>6, <1>7, OneRequest
<1>11. /\ members' \in [MemberIds -> Row \cup {NoRow}]
       /\ \A n \in MemberIds : members'[n] = IF n = m THEN row ELSE members[n]
  BY <1>1, <1>3, <1>4 DEF row, w
<1>12. MembershipType'
  <2>1. \A s \in Requests : Shape(request[s])'
    BY <1>10 DEF Shape
  <2>2. workspaces' \in [Workspaces -> Account \cup {NoRow}]
    BY <1>1, <1>7 DEF MembershipType
  <2>. QED  BY <1>1, <1>7, <1>10, <1>11, <2>1, <2>2 DEF MembershipType
<1>13. \A v : v = w \/ Founded(v) =>
          workspaces'[v] # NoRow /\ \A s \in Requests : ~(request'[s].pc = "seed" /\ request'[s].ws = v)
  BY <1>4, <1>5, <1>7, <1>9, <1>10 DEF Founded, Seeding, At
<1>14. \A n \in MemberIds : members[n] # NoRow => Founded(members[n].ws) /\ members[n].ws # w
  BY <1>8 DEF GrantsFit
<1>15. \A n \in MemberIds : members'[n] # NoRow => Founded(members[n].ws)'
  BY <1>4, <1>11, <1>13, <1>14 DEF Founded, Seeding, At
<1>16. GrantsAreUnique'
  <2>1. \A n \in MemberIds : members[n] # row
    BY <1>1, <1>4, <1>14
  <2>. QED  BY <1>11, <2>1 DEF GrantsFit, GrantsAreUnique
<1>17. \A s \in Requests : request'[s].pc \in Admitted => Founded(request[s].ws)'
  <2>1. \A s \in Requests : request'[s].pc \in Admitted => request'[s] = request[s]
    BY <1>5, <1>10 DEF Admitted
  <2>2. \A s \in Requests : request'[s].pc \in Admitted => Founded(request'[s].ws)
    BY <2>1 DEF GrantsFit
  <2>. QED  BY <1>13, <2>2 DEF Founded, Seeding, At
<1>18. \A s \in Requests : request'[s].pc = "seed" => s # r /\ request'[s] = request[s]
  BY <1>5, <1>10
<1>. QED  BY <1>7, <1>12, <1>15, <1>16, <1>17, <1>18 DEF GrantsFit, At

LEMMA GrantsNext == ASSUME MembershipConstants, GrantsFit, [Next]_vars PROVE GrantsFit'
<1>1. CASE UNCHANGED vars
  BY <1>1 DEF vars, GrantsFit, MembershipType, GrantsAreUnique, Founded, Seeding, At, Shape
<1>. QED  BY <1>1, CreateSteps, ManageSteps, WriteSteps, PutWorkspaceFits, SeedAdminFits DEF Next, Step

LEMMA GrantsInit == ASSUME Init PROVE GrantsFit
BY IdleShape DEF Init, GrantsFit, MembershipType, GrantsAreUnique, Founded, At, Admitted

-----------------------------------------------------------------------------
(* One request at a time: the others are none, and what it has read is so still. *)
LEMMA AdmittedNext ==
    ASSUME MembershipConstants, OneAtATime, GrantsFit, AdmittedFit, [Next]_vars PROVE AdmittedFit'
<1>1. MembershipType
  BY DEF GrantsFit
<1>2. CASE UNCHANGED vars
  BY <1>2 DEF vars, AdmittedFit, RolesOf
<1>. SUFFICES ASSUME NEW r \in Requests, Step(r), request'[r].pc \in Admitted
              PROVE  \E m \in MemberIds : members'[m] # NoRow /\ members'[m].ws = request'[r].ws
                        /\ members'[m].user = request'[r].caller /\ members'[m].role = "admin"
  <2>1. \A r, s \in Requests : r = s
    BY DEF OneAtATime
  <2>. QED  BY <1>2, <2>1 DEF Next, AdmittedFit, RolesOf
<1>3. DOMAIN request = Requests /\ Shape(request[r])
  BY <1>1 DEF MembershipType
<1>4. /\ request[r] \in Managing /\ UNCHANGED members
      /\ request'[r].ws = request[r].ws /\ request'[r].caller = request[r].caller
      /\ request[r].pc \in Admitted \/ (request[r].pc = "admin" /\ MayManage(r))
  <2>1. request'[r] # Idle
    BY IdleShape DEF Admitted
  <2>2. ~(RequestDies(r) \/ PutMember(r) \/ DeleteMember(r) \/ CreateReturn(r) \/ PutWorkspace(r)
            \/ SeedAdmin(r) \/ FindWorkspace(r) \/ AuthorizeWorkspace(r))
    BY <1>3, <2>1, Shapes DEF RequestDies, PutMember, DeleteMember, CreateReturn, PutWorkspace, SeedAdmin,
       FindWorkspace, AuthorizeWorkspace, Return, Goto, At, Admitted, Founding, Finding, Managing
  <2>3. ASSUME NEW u \in Users, NEW s \in Slugs, CreateStart(r, u, s) PROVE FALSE
    BY <1>3, <2>3 DEF CreateStart, Admitted
  <2>4. ASSUME NEW u \in Users, NEW w \in Workspaces, ManageStart(r, u, w) PROVE FALSE
    BY <1>3, <2>4 DEF ManageStart, Admitted
  <2>5. CASE RequireAdmin(r)
    <3>1. request[r] \in Managing
      BY <1>3, <2>5, Shapes DEF RequireAdmin, At
    <3>. QED  BY <1>3, <2>1, <2>5, <3>1 DEF RequireAdmin, Return, Goto, At, Managing
  <2>6. CASE CheckExisting(r)
    <3>1. request[r] \in Managing
      BY <1>3, <2>6, Shapes DEF CheckExisting, At, Admitted
    <3>. QED  BY <1>3, <2>1, <2>6, <3>1 DEF CheckExisting, Return, At, Managing, Admitted
  <2>7. CASE GetMember(r)
    <3>1. request[r] \in Managing
      BY <1>3, <2>7, Shapes DEF GetMember, At, Admitted
    <3>. QED  BY <1>3, <2>1, <2>7, <3>1 DEF GetMember, Return, At, Managing, Admitted
  <2>8. CASE RefuseIfLastAdmin(r)
    <3>1. request[r] \in Managing
      BY <1>3, <2>8, Shapes DEF RefuseIfLastAdmin, At, Admitted
    <3>. QED  BY <1>3, <2>1, <2>8, <3>1 DEF RefuseIfLastAdmin, Return, Goto, At, Managing, Admitted
  <2>. QED  BY <2>2, <2>3, <2>4, <2>5, <2>6, <2>7, <2>8 DEF Step
<1>. QED  BY <1>4 DEF AdmittedFit, MayManage, RolesOf

(* A step changes a member only by seeding an admin or in the hands of one. *)
LEMMA HandOfAnAdmin ==
    ASSUME MembershipConstants, GrantsFit, AdmittedFit, [Next]_vars PROVE ChangedByAnAdmin
<1>. SUFFICES ASSUME NEW m \in MemberIds, members'[m] # members[m]
              PROVE  \E r \in Requests :
                        \/ At(r, "seed")
                        \/ request[r].id = m /\ "admin" \in RolesOf(request[r].ws, request[r].caller)
  BY DEF ChangedByAnAdmin
<1>1. PICK r \in Requests : SeedAdmin(r) \/ PutMember(r) \/ DeleteMember(r)
  BY ZenonT(30) DEF Next, Step, vars, CreateStart, FindWorkspace, PutWorkspace, CreateReturn, ManageStart,
     AuthorizeWorkspace, RequireAdmin, CheckExisting, GetMember, RefuseIfLastAdmin, RequestDies
<1>2. CASE SeedAdmin(r)
  BY <1>2 DEF SeedAdmin
<1>3. CASE PutMember(r) \/ DeleteMember(r)
  <2>1. request[r].pc \in Admitted
    BY <1>3 DEF PutMember, DeleteMember, At, Admitted
  <2>2. request[r].id = m
    BY <1>3 DEF PutMember, DeleteMember, GrantsFit, MembershipType
  <2>. QED  BY <2>1, <2>2 DEF AdmittedFit
<1>. QED  BY <1>1, <1>2, <1>3

LEMMA AdminFrame ==
    ASSUME OneAtATime, GrantsFit, GrantsFit', AdminFit, NEW r \in Requests,
           UNCHANGED <<workspaces, members>>, used \subseteq used', request[r].pc # "seed",
           request'[r] \in Managing =>
              Looked(request'[r]) /\ (request'[r].op = "invite" => request'[r].id \in used')
    PROVE  AdminFit'
<1>1. \A s \in Requests : s = r
  BY DEF OneAtATime
<1>2. Administrable'
  <2>1. \A w : ~Seeding(w)
    BY <1>1 DEF Seeding, At
  <2>2. \A w \in Workspaces : Admins(w)' = Admins(w)
    BY DEF Admins
  <2>. QED  BY <2>1, <2>2 DEF AdminFit, Administrable
<1>3. \A s \in Requests : request'[s] \in Managing => Looked(request[s])'
  BY <1>1 DEF Looked, Admins
<1>. QED  BY <1>1, <1>2, <1>3 DEF AdminFit

LEMMA AdminCreate ==
    ASSUME OneAtATime, GrantsFit, GrantsFit', AdminFit, NEW r \in Requests,
           \/ \E u \in Users, s \in Slugs : CreateStart(r, u, s)
           \/ FindWorkspace(r) \/ CreateReturn(r)
    PROVE  AdminFit'
<1>1. /\ Shape(request[r]) /\ Shape(request'[r]) /\ DOMAIN request = Requests
  BY DEF GrantsFit, MembershipType, Shape
<1>2. UNCHANGED <<workspaces, members>> /\ used \subseteq used' /\ request[r].pc # "seed"
  BY DEF CreateStart, FindWorkspace, CreateReturn, At
<1>3. request'[r] \notin Managing
  <2>1. ASSUME NEW u \in Users, NEW s \in Slugs, CreateStart(r, u, s) PROVE request'[r].pc = "find"
    BY <1>1, <2>1 DEF CreateStart
  <2>2. CASE FindWorkspace(r)
    <3>1. request[r] \in Finding
      BY <1>1, <2>2, Shapes DEF FindWorkspace, At
    <3>. QED  BY <1>1, <2>2, <3>1 DEF FindWorkspace, Goto, Finding, Managing, Admitted
  <2>3. CASE CreateReturn(r)
    BY <1>1, <2>3, IdleShape DEF CreateReturn, Return
  <2>. QED  BY <2>1, <2>2, <2>3 DEF Managing, Admitted
<1>. QED  BY <1>2, <1>3, AdminFrame

LEMMA AdminManage ==
    ASSUME MembershipConstants, OneAtATime, GrantsFit, GrantsFit', AdminFit, NEW r \in Requests,
           \/ \E u \in Users, w \in Workspaces : ManageStart(r, u, w)
           \/ AuthorizeWorkspace(r) \/ RequireAdmin(r) \/ CheckExisting(r) \/ GetMember(r)
           \/ RefuseIfLastAdmin(r)
    PROVE  AdminFit'
<1>1. /\ Shape(request[r]) /\ members \in [MemberIds -> Row \cup {NoRow}]
      /\ DOMAIN request = Requests /\ NoRow \notin Row
      /\ \A m \in MemberIds : members[m] # NoRow => m \in used
  BY DEF GrantsFit, MembershipType, MembershipConstants, AdminFit
<1>2. request[r] \in Managing => Looked(request[r]) /\ (request[r].op = "invite" => request[r].id \in used)
  BY DEF AdminFit
<1>3. UNCHANGED <<workspaces, members>> /\ used \subseteq used' /\ request[r].pc # "seed"
  BY DEF ManageStart, AuthorizeWorkspace, RequireAdmin, CheckExisting, GetMember, RefuseIfLastAdmin, At
<1>4. CASE request'[r] = Idle
  BY <1>3, <1>4, IdleShape, AdminFrame
<1>5. ASSUME NEW u \in Users, NEW w \in Workspaces, ManageStart(r, u, w) PROVE AdminFit'
  <2>1. PICK op \in {"invite", "update", "remove"}, who \in Users, role \in Roles, m \in MemberIds :
          /\ op = "invite" => m \notin used
          /\ request' = [request EXCEPT ![r] = [pc |-> "authorize", op |-> op, caller |-> u, ws |-> w,
                                             user |-> who, role |-> role, id |-> m, copy |-> NoRow]]
          /\ used' = IF op = "invite" THEN used \cup {m} ELSE used
    BY <1>5, ZenonT(30) DEF ManageStart
  <2>2. request'[r].pc = "authorize" /\ request'[r].op = op /\ request'[r].id = m
    BY <1>1, <2>1
  <2>3. Looked(request'[r])
    BY <1>1, <2>1, <2>2 DEF Looked, Holding, Writing
  <2>. QED  BY <1>3, <2>1, <2>2, <2>3, AdminFrame
<1>6. CASE AuthorizeWorkspace(r) \/ RequireAdmin(r)
  <2>1. request[r] \in Managing
    BY <1>1, <1>6, Shapes DEF AuthorizeWorkspace, RequireAdmin, At
  <2>2. PICK p \in {"admin", "existing", "get"} :
          /\ request'[r] = Idle \/ request'[r] = [request[r] EXCEPT !.pc = p]
          /\ p = "existing" => request[r].op = "invite"
    BY <1>1, <1>6 DEF AuthorizeWorkspace, RequireAdmin, Goto, Return
  <2>3. CASE request'[r] = [request[r] EXCEPT !.pc = p]
    <3>1. request'[r].pc = p /\ request'[r].op = request[r].op /\ request'[r].id = request[r].id
      BY <2>1, <2>3 DEF Managing
    <3>2. Looked(request'[r])
      BY <1>2, <2>1, <2>2, <3>1 DEF Looked, Holding, Writing
    <3>. QED  BY <1>2, <1>3, <2>1, <3>1, <3>2, AdminFrame
  <2>. QED  BY <1>4, <2>2, <2>3
<1>7. CASE CheckExisting(r)
  <2>1. request[r] \in Managing /\ request[r].pc = "existing"
    BY <1>1, <1>7, Shapes DEF CheckExisting, At, Admitted
  <2>2. CASE request'[r] # Idle
    <3>1. request'[r].pc = "put" /\ request'[r].op = request[r].op /\ request'[r].id = request[r].id
      BY <1>1, <1>7, <2>1, <2>2 DEF CheckExisting, Return, Managing
    <3>2. request[r].op = "invite" /\ members[request[r].id] = NoRow
      BY <1>2, <2>1 DEF Looked
    <3>3. Looked(request'[r])
      BY <3>1, <3>2 DEF Looked
    <3>. QED  BY <1>2, <1>3, <2>1, <3>1, <3>3, AdminFrame
  <2>. QED  BY <1>4, <2>2
<1>8. CASE GetMember(r)
  <2>1. request[r] \in Managing /\ request[r].id \in MemberIds
    BY <1>1, <1>8, Shapes DEF GetMember, At, Admitted, Managing
  <2>. DEFINE row == members[request[r].id]
              c == IF request[r].op = "remove" THEN row ELSE [row EXCEPT !.role = request[r].role]
              leaves == row.role = "admin" /\ (request[r].op = "remove" \/ request[r].role # "admin")
              p == IF leaves THEN "last_admin" ELSE IF request[r].op = "remove" THEN "delete" ELSE "put"
  <2>2. CASE request'[r] # Idle
    <3>1. row # NoRow /\ row.ws = request[r].ws /\ request'[r] = [request[r] EXCEPT !.pc = p, !.copy = c]
      BY <1>1, <1>8, <2>2 DEF GetMember, Return
    <3>2. row \in Row
      BY <1>1, <2>1, <3>1
    <3>3. c.role = IF request[r].op = "remove" THEN row.role ELSE request[r].role
      BY <3>2 DEF Row
    <3>. HIDE DEF c
    <3>4. /\ request'[r].pc = p /\ request'[r].op = request[r].op /\ request'[r].id = request[r].id
          /\ request'[r].ws = request[r].ws /\ request'[r].copy = c
      BY <2>1, <3>1 DEF Managing
    <3>5. p = "delete" \/ (p = "put" /\ c.role # "admin") => row.role # "admin"
      BY <3>3
    <3>6. request[r].op # "invite" /\ p \in {"last_admin", "delete", "put"}
      BY <1>2, <2>1, <3>1 DEF Looked
    <3>7. Looked(request'[r])
      <4>. HIDE DEF p
      <4>. QED  BY <3>1, <3>4, <3>5, <3>6 DEF Looked, Holding, Writing
    <3>. HIDE DEF p
    <3>. QED  BY <1>2, <1>3, <2>1, <3>4, <3>7, AdminFrame
  <2>. QED  BY <1>4, <2>2
<1>9. CASE RefuseIfLastAdmin(r)
  <2>1. request[r] \in Managing /\ request[r].pc = "last_admin"
    BY <1>1, <1>9, Shapes DEF RefuseIfLastAdmin, At, Admitted
  <2>. DEFINE p == IF request[r].op = "remove" THEN "delete" ELSE "put"
  <2>2. CASE request'[r] # Idle
    <3>1. OtherAdmins(r) # {} /\ request'[r] = [request[r] EXCEPT !.pc = p]
      BY <1>1, <1>9, <2>2 DEF RefuseIfLastAdmin, Return, Goto
    <3>2. /\ request'[r].pc = p /\ request'[r].op = request[r].op /\ request'[r].id = request[r].id
          /\ request'[r].ws = request[r].ws
      BY <2>1, <3>1 DEF Managing
    <3>3. Looked(request'[r])
      BY <1>2, <2>1, <3>1, <3>2 DEF Looked, Holding, Writing, OtherAdmins
    <3>. QED  BY <1>2, <1>3, <2>1, <3>2, <3>3, AdminFrame
  <2>. QED  BY <1>4, <2>2
<1>. QED  BY <1>5, <1>6, <1>7, <1>8, <1>9

(* A write leaves no request, and no workspace without an admin. *)
LEMMA AdminWrite ==
    ASSUME MembershipConstants, OneAtATime, GrantsFit, AdminFit, NEW r \in Requests,
           PutMember(r) \/ DeleteMember(r)
    PROVE  AdminFit'
<1>1. /\ Shape(request[r]) /\ members \in [MemberIds -> Row \cup {NoRow}]
      /\ DOMAIN request = Requests /\ NoRow \notin Row
      /\ \A m \in MemberIds : members[m] # NoRow => m \in used
  BY DEF GrantsFit, MembershipType, MembershipConstants, AdminFit
<1>2. request[r] \in Managing /\ request[r].pc \in Writing
  BY <1>1, Shapes DEF PutMember, DeleteMember, At, Admitted, Writing
<1>. DEFINE i == request[r].id
            w == request[r].ws
            c == request[r].copy
            x == IF request[r].pc = "delete" THEN NoRow ELSE c
<1>3. /\ Looked(request[r]) /\ (request[r].op = "invite" => i \in used) /\ i \in MemberIds
      /\ c \in Row /\ c.ws = w /\ w \in Workspaces
  BY <1>1, <1>2 DEF AdminFit, Managing, Shape, Holding
<1>4. /\ members[i] # NoRow => members[i].ws = w
      /\ i \in used
      /\ members[i] # NoRow /\ members[i].role = "admin" /\ (x = NoRow \/ c.role # "admin")
             => Admins(w) \ {i} # {}
  BY <1>1, <1>2, <1>3 DEF Looked, Holding, Writing
<1>5. /\ members' = members \/ members' = [members EXCEPT ![i] = x]
      /\ request' = [request EXCEPT ![r] = Idle] /\ UNCHANGED <<workspaces, used>>
  BY DEF PutMember, DeleteMember, Return, At
<1>6. /\ \A s \in Requests : s = r /\ request'[s] = Idle
      /\ \A v : ~Seeding(v)
  BY <1>1, <1>2, <1>5 DEF OneAtATime, Seeding, At, Writing
<1>7. /\ \A m \in MemberIds : members'[m] # NoRow => m \in used'
      /\ \A s \in Requests : request'[s] \notin Managing
  BY <1>1, <1>4, <1>5, <1>6, IdleShape
<1>8. \A v \in Workspaces : workspaces[v] # NoRow => Admins(v)' # {}
  <2>. SUFFICES ASSUME NEW v \in Workspaces, workspaces[v] # NoRow PROVE Admins(v)' # {}
    OBVIOUS
  <2>1. Admins(v) # {}
    BY <1>6 DEF AdminFit, Administrable
  <2>2. CASE members' = members
    BY <2>1, <2>2 DEF Admins
  <2>3. CASE members' = [members EXCEPT ![i] = x]
    <3>1. \A m \in MemberIds : members'[m] = IF m = i THEN x ELSE members[m]
      BY <1>1, <2>3
    <3>2. Admins(v) \ {i} \subseteq Admins(v)'
      BY <3>1 DEF Admins
    <3>3. CASE i \notin Admins(v)
      BY <2>1, <3>2, <3>3
    <3>4. CASE i \in Admins(v)
      <4>1. v = w /\ members[i] # NoRow /\ members[i].role = "admin"
        BY <1>4, <3>4 DEF Admins
      <4>2. CASE x = NoRow \/ c.role # "admin"
        BY <1>4, <3>2, <4>1, <4>2
      <4>3. CASE x # NoRow /\ c.role = "admin"
        <5>1. x = c
          BY <4>3
        <5>. HIDE DEF x, c, i, w
        <5>. QED  BY <1>1, <1>3, <3>1, <4>1, <4>3, <5>1 DEF Admins
      <4>. QED  BY <4>2, <4>3
    <3>. QED  BY <3>3, <3>4
  <2>. QED  BY <1>5, <2>2, <2>3
<1>9. Administrable'
  BY <1>5, <1>8 DEF Administrable
<1>. QED  BY <1>7, <1>9 DEF AdminFit

LEMMA AdminSeed ==
    ASSUME MembershipConstants, OneAtATime, GrantsFit, AdminFit, NEW r \in Requests,
           PutWorkspace(r) \/ SeedAdmin(r)
    PROVE  AdminFit'
<1>1. /\ Shape(request[r]) /\ members \in [MemberIds -> Row \cup {NoRow}]
      /\ workspaces \in [Workspaces -> Account \cup {NoRow}]
      /\ DOMAIN request = Requests /\ NoRow \notin Row
      /\ \A m \in MemberIds : members[m] # NoRow => m \in used
      /\ \A s \in Requests : s = r
  BY DEF GrantsFit, MembershipType, MembershipConstants, AdminFit, OneAtATime
<1>2. CASE PutWorkspace(r)
  <2>1. request[r].pc = "put_workspace" /\ \A v : ~Seeding(v)
    BY <1>1, <1>2 DEF PutWorkspace, At, Seeding
  <2>2. UNCHANGED <<members, used>>
    BY <1>2 DEF PutWorkspace
  <2>3. \/ request'[r] = Idle /\ UNCHANGED workspaces
        \/ \E w \in Workspaces : /\ request'[r].pc = "seed" /\ request'[r].ws = w
                                  /\ \A v \in Workspaces : v # w => workspaces'[v] = workspaces[v]
    BY <1>1, <1>2 DEF PutWorkspace, Return
  <2>4. \A s \in Requests : request'[s] \notin Managing
    BY <1>1, <2>3, IdleShape DEF Managing, Admitted
  <2>5. Administrable'
    <3>1. \A v \in Workspaces : workspaces[v] # NoRow => Admins(v)' # {}
      BY <2>1, <2>2 DEF AdminFit, Administrable, Admins
    <3>2. ASSUME NEW v \in Workspaces, workspaces'[v] # NoRow, workspaces'[v] # workspaces[v]
          PROVE  \E s \in Requests : request'[s].pc = "seed" /\ request'[s].ws = v
      BY <2>3, <3>2
    <3>. QED  BY <3>1, <3>2 DEF Administrable, Seeding, At
  <2>. QED  BY <1>1, <2>2, <2>4, <2>5 DEF AdminFit
<1>3. CASE SeedAdmin(r)
  <2>1. request[r] \in Founding /\ request[r].pc = "seed"
    BY <1>1, <1>3, Shapes DEF SeedAdmin, At
  <2>2. PICK m \in MemberIds \ used :
          /\ members' = [members EXCEPT ![m] = [ws |-> request[r].ws, user |-> request[r].caller,
                                               role |-> "admin"]]
          /\ used' = used \cup {m}
    BY <1>3 DEF SeedAdmin
  <2>. DEFINE row == [ws |-> request[r].ws, user |-> request[r].caller, role |-> "admin"]
  <2>3. row \in Row /\ row.ws = request[r].ws /\ row.role = "admin"
    BY <2>1 DEF Founding, Row, Roles
  <2>. HIDE DEF row
  <2>4. /\ members[m] = NoRow /\ \A n \in MemberIds : members'[n] = IF n = m THEN row ELSE members[n]
    BY <1>1, <2>2 DEF row
  <2>5. request'[r] = [request[r] EXCEPT !.pc = "created"] /\ UNCHANGED workspaces
    BY <1>1, <1>3 DEF SeedAdmin, Goto
  <2>6. \A s \in Requests : request'[s] \notin Managing
    BY <1>1, <2>1, <2>5 DEF Founding, Managing, Admitted
  <2>7. \A v \in Workspaces : Admins(v) \subseteq Admins(v)'
    BY <2>4 DEF Admins
  <2>9. ASSUME NEW v \in Workspaces, v = request[r].ws PROVE Admins(v)' # {}
    <3>1. m \in MemberIds /\ members'[m] = row /\ row # NoRow
      BY <1>1, <2>2, <2>3, <2>4
    <3>. QED  BY <2>3, <2>9, <3>1 DEF Admins
  <2>10. ASSUME NEW v \in Workspaces, v # request[r].ws PROVE ~Seeding(v)
    BY <1>1, <2>10 DEF Seeding
  <2>11. Administrable'
    BY <2>5, <2>7, <2>9, <2>10 DEF AdminFit, Administrable
  <2>. QED  BY <1>1, <2>2, <2>4, <2>6, <2>11 DEF AdminFit
<1>. QED  BY <1>2, <1>3

LEMMA AdminNext ==
    ASSUME MembershipConstants, OneAtATime, MaxDeaths = 0, GrantsFit, AdminFit, [Next]_vars
    PROVE  AdminFit'
<1>1. GrantsFit'
  BY GrantsNext
<1>2. CASE UNCHANGED vars
  BY <1>2 DEF vars, AdminFit, Administrable, Admins, Seeding, At, Looked
<1>3. ASSUME NEW r \in Requests, RequestDies(r) PROVE FALSE
  BY <1>3 DEF RequestDies, GrantsFit, MembershipType
<1>. QED  BY <1>1, <1>2, <1>3, AdminCreate, AdminManage, AdminWrite, AdminSeed DEF Next, Step

LEMMA AdmittedInit == ASSUME Init PROVE AdmittedFit
BY IdleShape DEF Init, AdmittedFit, Admitted

LEMMA AdminInit == ASSUME Init PROVE AdminFit
BY IdleShape DEF Init, AdminFit, Administrable

-----------------------------------------------------------------------------
(* However the routes' requests overlap and wherever they are cut off, no user  *)
(* holds one role of a workspace twice: the write is refused that would repeat  *)
(* a row (members_user_role_unique), and a create seeds a workspace of its own. *)
THEOREM GrantsStayUnique == ASSUME MembershipConstants PROVE Spec => []GrantsAreUnique
<1>1. Init => GrantsFit
  BY GrantsInit
<1>2. GrantsFit /\ [Next]_vars => GrantsFit'
  BY GrantsNext
<1>3. GrantsFit => GrantsAreUnique
  BY DEF GrantsFit
<1>. QED  BY <1>1, <1>2, <1>3, PTL DEF Spec

(* Requests one after the other, none of them cut off: every workspace has an   *)
(* admin (_refuse_if_last_admin of api/routes/members).                         *)
THEOREM AdminsAlwaysThere ==
    ASSUME MembershipConstants, OneAtATime, MaxDeaths = 0
    PROVE  Spec => []Administrable
<1>1. Init => GrantsFit /\ AdminFit
  BY GrantsInit, AdminInit
<1>2. GrantsFit /\ AdminFit /\ [Next]_vars => (GrantsFit /\ AdminFit)'
  BY GrantsNext, AdminNext
<1>3. AdminFit => Administrable
  BY DEF AdminFit
<1>. QED  BY <1>1, <1>2, <1>3, PTL DEF Spec

(* Requests one after the other: a member is changed by an admin of the         *)
(* workspace at that moment, or is the first one of a new workspace             *)
(* (_require_admin of api/routes/members).                                      *)
THEOREM ChangesByAdmins ==
    ASSUME MembershipConstants, OneAtATime
    PROVE  Spec => [][ChangedByAnAdmin]_vars
<1>1. Init => GrantsFit /\ AdmittedFit
  BY GrantsInit, AdmittedInit
<1>2. GrantsFit /\ AdmittedFit /\ [Next]_vars => (GrantsFit /\ AdmittedFit)'
  BY GrantsNext, AdmittedNext
<1>3. GrantsFit /\ AdmittedFit /\ [Next]_vars => ChangedByAnAdmin
  BY HandOfAnAdmin
<1>. QED  BY <1>1, <1>2, <1>3, PTL DEF Spec

(* The members' promises together, for any users, workspaces and requests.      *)
THEOREM GovernedForever == ASSUME MembershipConstants PROVE Spec => WorkspacesStayGoverned
<1>. DEFINE Kept == OneAtATime /\ MaxDeaths = 0 => Administrable
            Handed == OneAtATime => ChangedByAnAdmin
<1>1. Spec => []GrantsAreUnique
  BY GrantsStayUnique
<1>2. Spec => []Kept
  <2>1. CASE OneAtATime /\ MaxDeaths = 0
    <3>1. Spec => []Administrable
      BY <2>1, AdminsAlwaysThere
    <3>2. Administrable => Kept
      OBVIOUS
    <3>. HIDE DEF Kept
    <3>. QED  BY <3>1, <3>2, PTL
  <2>2. CASE ~(OneAtATime /\ MaxDeaths = 0)
    <3>1. Kept
      BY <2>2
    <3>. HIDE DEF Kept
    <3>. QED  BY <3>1, PTL
  <2>. QED  BY <2>1, <2>2
<1>3. Spec => [][Handed]_vars
  <2>1. CASE OneAtATime
    <3>1. Spec => [][ChangedByAnAdmin]_vars
      BY <2>1, ChangesByAdmins
    <3>2. ChangedByAnAdmin => Handed
      OBVIOUS
    <3>. HIDE DEF Handed
    <3>. QED  BY <3>1, <3>2, PTL
  <2>2. CASE ~OneAtATime
    <3>1. Handed
      BY <2>2
    <3>. HIDE DEF Handed
    <3>. QED  BY <3>1, PTL
  <2>. QED  BY <2>1, <2>2
<1>4. GrantsAreUnique /\ Kept <=> Governed
  BY DEF Governed
<1>. HIDE DEF Kept
<1>5. Spec => []Governed
  BY <1>1, <1>2, <1>4, PTL
<1>. QED  BY <1>3, <1>5 DEF WorkspacesStayGoverned
=============================================================================
