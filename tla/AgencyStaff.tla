---------------------------- MODULE AgencyStaff ----------------------------
(***************************************************************************)
(* Agencies and the people who work in them: app/modules/agencies, users   *)
(* and destinations.                                                       *)
(*                                                                         *)
(* Each element of Workers serves one request at a time.  A request reads  *)
(* the rows its checks are about, and later writes: what it writes are the *)
(* differences from the rows it read, in one transaction that takes no     *)
(* lock before it.  What still holds then is what the database refuses to  *)
(* break: the destination of an agency is unique, a row of user_roles can  *)
(* be inserted once, and the session rejects the deletion of one that is   *)
(* gone.  A request that changes no value its session read writes nothing  *)
(* and is left out.                                                        *)
(*                                                                         *)
(* Under READ COMMITTED every statement sees what is committed when it     *)
(* runs.  The assignment of an administrator depends on four of them, the  *)
(* row of the account, its roles, the administrators of the agency and     *)
(* their roles, and each is a step of its own: another request can commit  *)
(* between any two.  The checks of the other requests are one step.        *)
(*                                                                         *)
(* PUT /users/{id} and PATCH /users/{id}/status call a function that does  *)
(* not exist and change nothing; an account changes only through its       *)
(* agency.  The tables of roles and permissions are the seeded ones.       *)
(***************************************************************************)
EXTENDS Naturals, FiniteSets

CONSTANTS
  Workers,         \* threads that serve requests
  Agencies,        \* identifiers of rows of the table agencias
  Destinations,    \* rows of the table destinos
  Users,           \* identifiers of rows of internal_users
  DefaultAdmin,    \* the account that every start of the program looks after
  InitialRoles,    \* for the users of a new system, their roles
  AskedRoles,      \* bound: the roles that requests name
  RoleTargets,     \* bound: the users whose roles a developer changes
  NoAgency, Nowhere, Nobody

ASSUME ConstantsAssumption ==
  /\ Users # {}
  /\ NoAgency \notin Agencies
  /\ Nowhere \notin Destinations
  /\ Nobody \notin Users
  /\ DefaultAdmin \in DOMAIN InitialRoles
  /\ RoleTargets \subseteq Users
  /\ DOMAIN InitialRoles \subseteq Users
  /\ \A u \in DOMAIN InitialRoles : InitialRoles[u] \subseteq {"ADMIN_GENERAL", "DEVELOPER"}

VARIABLES
  open,       \* the active destinations
  agency,     \* the committed row of each agency
  user,       \* the committed row of each user, with its roles
  pc,         \* where each worker is in its request
  req,        \* the request, with what its session read
  disputed,   \* history: agencies whose administrators an overlap may have mixed up (Unsettled)
  contested   \* history: destinations two requests were ever busy with at once

vars == <<open, agency, user, pc, req, disputed, contested>>

------------------------------------------------------------------------------
GlobalRoles == {"ADMIN_GENERAL", "DEVELOPER"}
OPERATIONAL_ROLES == {"SECRETARIA", "ESTIBA"}
BUSINESS_ROLES == OPERATIONAL_ROLES \cup {"AGENCY_ADMIN"}

AgencyRow == [dest : Destinations \cup {Nowhere}, active : BOOLEAN]
UserRow == [born : BOOLEAN, agency : Agencies \cup {NoAgency}, active : BOOLEAN,
            roles : SUBSET (GlobalRoles \cup BUSINESS_ROLES)]

\* An agency that was never created has no destination.
Born(a) == agency[a].dest # Nowhere
Linked == {agency[a].dest : a \in {b \in Agencies : Born(b)}}

Admins(a) == {u \in Users : user[u].agency = a /\ "AGENCY_ADMIN" \in user[u].roles}

Operations == {"create", "relocate", "activate", "assign", "staff", "status", "grant", "revoke", "close"}

NoUser == [born |-> FALSE, agency |-> NoAgency, active |-> FALSE, roles |-> {}]
NoAgencyRow == [dest |-> Nowhere, active |-> FALSE]

\* `on' is the state asked for, which the session read otherwise; `was' is the
\* row of the user as the session of an assignment read it, `previous' the
\* administrators it found (in the end those whose role it takes), `awake' the
\* active ones among those it found.
NoRequest ==
  [op |-> "close", agency |-> NoAgency, dest |-> Nowhere, user |-> Nobody, role |-> "ESTIBA",
   on |-> FALSE, was |-> NoUser, previous |-> {}, awake |-> {}]

TypeOK ==
  /\ open \subseteq Destinations
  /\ agency \in [Agencies -> AgencyRow]
  /\ user \in [Users -> UserRow]
  /\ \A u \in Users : user[u].roles \cap BUSINESS_ROLES # {} => user[u].agency # NoAgency
  /\ pc \in [Workers -> {"idle", "row", "roles", "found", "checked"}]
  /\ req \in [Workers ->
                [op : Operations, agency : Agencies \cup {NoAgency},
                 dest : Destinations \cup {Nowhere}, user : Users \cup {Nobody},
                 role : GlobalRoles \cup OPERATIONAL_ROLES, on : BOOLEAN,
                 was : UserRow,
                 previous : SUBSET Users, awake : SUBSET Users]]
  /\ disputed \subseteq Agencies
  /\ contested \subseteq Destinations

Init ==
  /\ open = Destinations
  /\ agency = [a \in Agencies |-> NoAgencyRow]
  /\ user = [u \in Users |->
               IF u \in DOMAIN InitialRoles
               THEN [born |-> TRUE, agency |-> NoAgency, active |-> TRUE, roles |-> InitialRoles[u]]
               ELSE NoUser]
  /\ pc = [i \in Workers |-> "idle"]
  /\ req = [i \in Workers |-> NoRequest]
  /\ disputed = {}
  /\ contested = {}
------------------------------------------------------------------------------
\* get_current_active_user: only the administrator of an agency works while it
\* is out of service.
Admitted(u) ==
  /\ user[u].active
  /\ user[u].roles \cap BUSINESS_ROLES # {} => user[u].agency # NoAgency
  /\ user[u].roles \cap OPERATIONAL_ROLES # {} => agency[user[u].agency].active

\* Of the roles here, only the developers' and the administrators' carry a
\* permission of agencies or users; only DEVELOPER passes the guard of the roles.
IsGlobalAdmin(u) == user[u].roles \cap GlobalRoles # {}
IsDeveloper(u) == "DEVELOPER" \in user[u].roles

\* get_scoped_agency, for a caller with the permission agencias.update.
Manages(u, a) ==
  \/ IsGlobalAdmin(u)
  \/ "AGENCY_ADMIN" \in user[u].roles /\ user[u].agency = a

\* _ensure_operational_target
MayTouch(by, u) == IsGlobalAdmin(by) \/ user[u].roles \cap OPERATIONAL_ROLES # {}

\* _get_active_destination and the query for another agency there.
Vacancy(d) == d \in open /\ d \notin Linked

\* A worker starts a request.  The history of overlaps is kept here: a request
\* names its agency or its destination from its first step to its last.
Busy(field, x) == \E j \in Workers : pc[j] # "idle" /\ req[j][field] = x

NothingWritten == UNCHANGED <<open, agency, user>>

\* A session has read: its request goes to `at' and knows r.
Read(i, at, r) ==
  /\ pc' = [pc EXCEPT ![i] = at]
  /\ req' = [req EXCEPT ![i] = r]
  /\ NothingWritten

Load(i, at, r) ==
  /\ pc[i] = "idle"
  /\ Read(i, at, r)
  /\ contested' = contested \cup (IF r.dest # Nowhere /\ Busy("dest", r.dest) THEN {r.dest} ELSE {})
  /\ UNCHANGED disputed

\* Who leaves an agency for another in this step: an assignment that read the
\* account while it had none.
Movers == {u \in Users : user[u].agency # NoAgency /\ user'[u].agency # user[u].agency}

\* The assignments still reading when the one of thread i commits, of the same
\* agency or the same account.
Reading(j) == pc[j] \in {"row", "roles", "found"}
Overtaken(i) == {j \in Workers \ {i} : Reading(j) /\ (req[j].agency = req[i].agency \/ req[j].user = req[i].user)}

\* The agencies that the end of a request leaves in dispute: those somebody
\* moved between, and those an assignment was read about on both sides of the
\* commit of another.
Unsettled(i) ==
  {user[u].agency : u \in Movers} \cup {user'[u].agency : u \in Movers}
    \cup (IF req[i].op = "assign" /\ user' # user
          THEN UNION {{req[i].agency, req[j].agency} : j \in Overtaken(i)} ELSE {})

\* The request is over, answered or failed.
Answer(i) ==
  /\ pc' = [pc EXCEPT ![i] = "idle"]
  /\ req' = [req EXCEPT ![i] = NoRequest]
  /\ disputed' = disputed \cup Unsettled(i)
  /\ UNCHANGED contested

------------------------------------------------------------------------------
\* create_agency, up to its INSERT.
LoadCreate(i, by, d) ==
  /\ Admitted(by) /\ IsGlobalAdmin(by)
  /\ Vacancy(d)
  /\ Load(i, "checked", [NoRequest EXCEPT !.op = "create", !.dest = d])

\* update_agency with another destination.
LoadRelocate(i, by, a, d) ==
  /\ Admitted(by) /\ IsGlobalAdmin(by)
  /\ Born(a) /\ d # agency[a].dest
  /\ Vacancy(d)
  /\ Load(i, "checked", [NoRequest EXCEPT !.op = "relocate", !.agency = a, !.dest = d])

\* set_agency_active: an agency enters service with an active destination and
\* an active administrator.
LoadActivate(i, by, a, on) ==
  /\ Admitted(by) /\ IsGlobalAdmin(by)
  /\ Born(a) /\ agency[a].active # on
  /\ on => agency[a].dest \in open /\ \E u \in Admins(a) : user[u].active
  /\ Load(i, "checked", [NoRequest EXCEPT !.op = "activate", !.agency = a, !.on = on])

\* assign_agency_admin of a new user, or the row of one that exists.  The
\* caller's own row is in the session already, with the role that refuses it.
LoadAssign(i, by, a, u) ==
  /\ Admitted(by) /\ IsGlobalAdmin(by) /\ u # by
  /\ Born(a)
  /\ user[u].born => user[u].agency \in {NoAgency, a}
  /\ Load(i, IF user[u].born THEN "row" ELSE "roles",
          [NoRequest EXCEPT !.op = "assign", !.agency = a, !.user = u,
                            !.was = [user[u] EXCEPT !.active = FALSE, !.roles = {}]])

\* The second SELECT of _get_user, and the checks of assign_agency_admin.
ReadRoles(i) ==
  LET roles == user[req[i].user].roles IN
  /\ pc[i] = "row"
  /\ IF roles \cap GlobalRoles = {}
     THEN Read(i, "roles", [req[i] EXCEPT !.was.roles = roles]) /\ UNCHANGED <<disputed, contested>>
     ELSE NothingWritten /\ Answer(i)

\* The administrators of the agency.  Two assignments that find none are a
\* dispute.
ReadAdmins(i) ==
  LET r == req[i]
      found == Admins(r.agency)
  IN
  /\ pc[i] = "roles"
  /\ Read(i, IF found \ {r.user} = {} THEN "checked" ELSE "found",
          [r EXCEPT !.previous = found, !.awake = {p \in found : user[p].active}])
  /\ disputed' = disputed \cup
       (IF /\ found = {}
           /\ \E j \in Workers : pc[j] = "checked" /\ req[j].op = "assign" /\ req[j].agency = r.agency
        THEN {r.agency} ELSE {})
  /\ UNCHANGED contested

\* Their roles: a role that is gone meanwhile is not taken from them.
ReadTheirRoles(i) ==
  /\ pc[i] = "found"
  /\ Read(i, "checked", [req[i] EXCEPT !.previous = {p \in @ : "AGENCY_ADMIN" \in user[p].roles}])
  /\ UNCHANGED <<disputed, contested>>

\* create_agency_user
LoadStaff(i, by, a, u, role) ==
  /\ Admitted(by) /\ Manages(by, a)
  /\ Born(a) /\ ~user[u].born
  /\ Load(i, "checked", [NoRequest EXCEPT !.op = "staff", !.agency = a, !.user = u, !.role = role])

\* update_agency_user and set_agency_user_active; only the second refuses the
\* caller's own account.
LoadStatus(i, by, a, u, on) ==
  /\ Admitted(by) /\ Manages(by, a) /\ MayTouch(by, u)
  /\ Born(a) /\ user[u].agency = a /\ user[u].active # on
  /\ Load(i, "checked", [NoRequest EXCEPT !.op = "status", !.agency = a, !.user = u, !.on = on])

\* assign_role_to_user and remove_role_from_user; the roles of an agency are
\* given and taken in its context only.
LoadRole(i, by, u, role, on) ==
  /\ Admitted(by) /\ IsDeveloper(by)
  /\ user[u].born /\ on = (role \notin user[u].roles)
  /\ Load(i, "checked", [NoRequest EXCEPT !.op = IF on THEN "grant" ELSE "revoke", !.user = u, !.role = role])

\* update_destination to inactive: nobody has to be signed in.
LoadClose(i, d) ==
  /\ d \in open /\ d \notin Linked
  /\ Load(i, "checked", [NoRequest EXCEPT !.op = "close", !.dest = d])

\* create_destination of an inactive one, and update_destination to active.
Reopen(d) ==
  /\ d \notin open
  /\ open' = open \cup {d}
  /\ UNCHANGED <<agency, user, pc, req, disputed, contested>>

\* seed_initial_access_control, at the start of an instance of the program.
Seed ==
  /\ "ADMIN_GENERAL" \notin user[DefaultAdmin].roles
  /\ user' = [user EXCEPT ![DefaultAdmin].roles = @ \cup {"ADMIN_GENERAL"}]
  /\ UNCHANGED <<open, agency, pc, req, disputed, contested>>
------------------------------------------------------------------------------
\* Mutant of IndexAdmits: there is only the query before the INSERT.
IndexAdmitsAny(d) == TRUE

\* The unique column agencias.destination_id admits the destination.
IndexAdmits(d) == d \notin Linked

Create(i) ==
  /\ pc[i] = "checked" /\ req[i].op = "create"
  /\ IF IndexAdmits(req[i].dest)
     THEN /\ \E a \in Agencies :
               ~Born(a) /\ agency' = [agency EXCEPT ![a] = [dest |-> req[i].dest, active |-> FALSE]]
          /\ UNCHANGED <<open, user>>
     ELSE NothingWritten
  /\ Answer(i)

Relocate(i) ==
  /\ pc[i] = "checked" /\ req[i].op = "relocate"
  /\ IF IndexAdmits(req[i].dest)
     THEN agency' = [agency EXCEPT ![req[i].agency].dest = req[i].dest] /\ UNCHANGED <<open, user>>
     ELSE NothingWritten
  /\ Answer(i)

Activate(i) ==
  LET r == req[i] IN
  /\ pc[i] = "checked" /\ r.op = "activate"
  /\ agency' = [agency EXCEPT ![r.agency].active = r.on]
  /\ UNCHANGED <<open, user>>
  /\ Answer(i)

\* The administrators the session found, the new one aside.
Replaced(r) == r.previous \ {r.user}

\* Mutant of RowsAreThere: the session does not notice that a row is gone.
RowsMayBeGone(r) == TRUE

\* The session deletes exactly the rows of user_roles it read.
RowsAreThere(r) ==
  /\ r.was.roles \ {"AGENCY_ADMIN"} \subseteq user[r.user].roles
  /\ \A p \in Replaced(r) : "AGENCY_ADMIN" \in user[p].roles

\* Mutant of RowsAreNew: the role may be given twice.
RowsMayRepeat(r) == ~r.was.born => ~user[r.user].born

\* The keys of internal_users and user_roles admit the rows it inserts.
RowsAreNew(r) ==
  /\ ~r.was.born => ~user[r.user].born
  /\ "AGENCY_ADMIN" \notin r.was.roles => "AGENCY_ADMIN" \notin user[r.user].roles

\* The row of the new administrator after the UPDATE and the changes of roles.
Promoted(r) ==
  [born   |-> TRUE,
   agency |-> IF r.was.agency = r.agency THEN user[r.user].agency ELSE r.agency,
   active |-> IF r.was.born THEN user[r.user].active ELSE TRUE,
   roles  |-> (user[r.user].roles \ (r.was.roles \ {"AGENCY_ADMIN"}))
                \cup (IF "AGENCY_ADMIN" \in r.was.roles THEN {} ELSE {"AGENCY_ADMIN"})]

\* The row of anybody else: the administrators it found are replaced.
Demoted(r, p) ==
  [user[p] EXCEPT !.roles = IF p \in r.previous THEN @ \ {"AGENCY_ADMIN"} ELSE @,
                  !.active = @ /\ p \notin r.awake]

Assign(i) ==
  LET r == req[i] IN
  /\ pc[i] = "checked" /\ r.op = "assign"
  /\ IF RowsAreThere(r) /\ RowsAreNew(r)
     THEN /\ user' = [u \in Users |-> IF u = r.user THEN Promoted(r) ELSE Demoted(r, u)]
          /\ UNCHANGED <<open, agency>>
     ELSE NothingWritten
  /\ Answer(i)

Staff(i) ==
  LET r == req[i] IN
  /\ pc[i] = "checked" /\ r.op = "staff"
  /\ IF user[r.user].born
     THEN NothingWritten
     ELSE /\ user' = [user EXCEPT ![r.user] =
                        [born |-> TRUE, agency |-> r.agency, active |-> TRUE, roles |-> {r.role}]]
          /\ UNCHANGED <<open, agency>>
  /\ Answer(i)

Status(i) ==
  LET r == req[i] IN
  /\ pc[i] = "checked" /\ r.op = "status"
  /\ user' = [user EXCEPT ![r.user].active = r.on]
  /\ UNCHANGED <<open, agency>>
  /\ Answer(i)

\* A role that was given or taken meanwhile makes the transaction fail.
Grant(i) ==
  LET r == req[i] IN
  /\ pc[i] = "checked" /\ r.op \in {"grant", "revoke"}
  /\ user' = [user EXCEPT ![r.user].roles = IF r.op = "grant" THEN @ \cup {r.role} ELSE @ \ {r.role}]
  /\ UNCHANGED <<open, agency>>
  /\ Answer(i)

Close(i) ==
  LET r == req[i] IN
  /\ pc[i] = "checked" /\ r.op = "close"
  /\ open' = open \ {r.dest}
  /\ UNCHANGED <<agency, user>>
  /\ Answer(i)
------------------------------------------------------------------------------
Start(i) ==
  \/ \E by \in Users, d \in Destinations : LoadCreate(i, by, d)
  \/ \E by \in Users, a \in Agencies, d \in Destinations : LoadRelocate(i, by, a, d)
  \/ \E by \in Users, a \in Agencies, on \in BOOLEAN : LoadActivate(i, by, a, on)
  \/ \E by, u \in Users, a \in Agencies : LoadAssign(i, by, a, u)
  \/ \E by, u \in Users, a \in Agencies, role \in OPERATIONAL_ROLES \cap AskedRoles : LoadStaff(i, by, a, u, role)
  \/ \E by, u \in Users, a \in Agencies, on \in BOOLEAN : LoadStatus(i, by, a, u, on)
  \/ \E by \in Users, u \in RoleTargets, role \in GlobalRoles \cap AskedRoles, on \in BOOLEAN : LoadRole(i, by, u, role, on)
  \/ \E d \in Destinations : LoadClose(i, d)

Continue(i) ==
  \/ ReadRoles(i) \/ ReadAdmins(i) \/ ReadTheirRoles(i)
  \/ Create(i) \/ Relocate(i) \/ Activate(i) \/ Assign(i) \/ Staff(i)
  \/ Status(i) \/ Grant(i) \/ Close(i)

Next ==
  \/ \E i \in Workers : Start(i) \/ Continue(i)
  \/ \E d \in Destinations : Reopen(d)
  \/ Seed

Spec == Init /\ [][Next]_vars
------------------------------------------------------------------------------
\* An agency has one administrator at most, and in service it has one.
\* assign_agency_admin takes the place from those it read, without a lock; two
\* assignments that both read one administrator cannot both commit, because the
\* second deletes a row of user_roles that is gone.  So the check of
\* set_agency_active outlives every later assignment, status change and move,
\* whatever overlaps, but for three cases (`disputed').  The first
\* administrator can be assigned twice, and then two requests that confirm one
\* each remove both.  An assignment that another overtakes between its SELECTs
\* can keep the account that was just replaced and remove the new one, or keep
\* both.  And an account that requests read without agency can move from one
\* that it became the administrator of meanwhile.
OneAdministrator ==
  /\ TypeOK
  /\ \A a \in Agencies \ disputed :
       /\ Cardinality(Admins(a)) <= 1
       /\ agency[a].active => Admins(a) # {}

\* A destination with an agency stays active, and no two agencies share one.
\* The query for a linked agency and the query for an active destination are
\* each followed by a commit; what fits between the two can close a destination
\* (`contested'), but not give it a second agency.
OneOpenAgency ==
  /\ Linked \ contested \subseteq open
  /\ \A a, b \in Agencies : Born(a) /\ agency[a].dest = agency[b].dest => a = b

\* Somebody who works for an agency does not change to another, even when two
\* requests found the account without an agency and assign it to two: the role
\* cannot be inserted twice.  It can be in no other way than this: a session
\* read the row of the account before the commit of an assignment and its roles
\* after it, so that the role is there to keep (`disputed' names the agency).
StaffKeepTheirAgency ==
  [][\A u \in Users : user[u].roles \cap BUSINESS_ROLES # {} /\ user[u].agency \notin disputed
        => user'[u].agency = user[u].agency]_vars
=============================================================================
