-------------------------- MODULE AgencyStaff_proofs --------------------------
(***************************************************************************)
(* What holds of AgencyStaff for any number of threads, agencies, accounts *)
(* and destinations: who administers an agency, where an agency is, and    *)
(* where the staff of an agency stay.                                      *)
(***************************************************************************)
EXTENDS AgencyStaff, FiniteSetTheorems, TLAPS

\* An account that was at an agency is still there, unless accounts moved
\* between that agency and the one it is at now.
Followed(u, a) == user[u].agency = a \/ {a, user[u].agency} \subseteq disputed

Pending(i, op) == pc[i] = "checked" /\ req[i].op = op

\* What the sessions of the requests under way have read and still know.
IsRequest(r) ==
  /\ IF r.op \in {"create", "relocate", "close"} THEN r.dest \in Destinations ELSE r.dest = Nowhere
  /\ r.op \in {"relocate", "activate", "assign", "staff"} => r.agency \in Agencies
  /\ r.op \in {"assign", "staff", "status", "grant", "revoke"} => r.user \in Users
  /\ r.op = "staff" => r.role \in OPERATIONAL_ROLES
  /\ r.op \in {"grant", "revoke"} => r.role \in GlobalRoles
  /\ r.op \in {"status", "grant", "revoke"} => user[r.user].born

\* It read the account as an administrator of the agency.
ReadAsAdmin(r) == r.was.agency = r.agency /\ "AGENCY_ADMIN" \in r.was.roles

\* An assignment that has come to `at'.  Between its two SELECTs the account can
\* only have left the agency it was read at for one in dispute, and a role that
\* was read without an agency is one of such an account.
IsAssignment(r, at) ==
  /\ r.was.agency \in {NoAgency, r.agency}
  /\ IF r.was.born THEN user[r.user].born ELSE r.was = NoUser /\ at # "row"
  /\ r.was.agency = r.agency => Followed(r.user, r.agency)
  /\ at = "row" /\ r.was.agency = NoAgency =>
       user[r.user].agency = NoAgency \/ {r.agency, user[r.user].agency} \subseteq disputed
  /\ at # "row" =>
       /\ r.was.born => user[r.user].roles \cap OPERATIONAL_ROLES \subseteq r.was.roles
       /\ r.was.roles \cap BUSINESS_ROLES # {} =>
            r.was.agency # NoAgency \/ {r.agency, user[r.user].agency} \subseteq disputed
  /\ at \in {"found", "checked"} => \A p \in r.previous : Followed(p, r.agency)

\* What an assignment of an agency that is not in dispute has read is still so;
\* one that found no administrator has the agency for itself.
Settled(i) ==
  LET r == req[i]
  IN  r.agency \notin disputed =>
        /\ pc[i] = "roles" => (r.user \in Admins(r.agency) <=> ReadAsAdmin(r))
        /\ pc[i] \in {"found", "checked"} =>
             /\ r.user \in r.previous <=> ReadAsAdmin(r)
             /\ \A p, q \in r.previous : p = q
        /\ pc[i] = "found" => r.previous = Admins(r.agency) /\ r.previous # {}
        /\ pc[i] = "checked" /\ r.previous = {} =>
             /\ Admins(r.agency) = {}
             /\ \A k \in Workers : Pending(k, "assign") /\ req[k].agency = r.agency => k = i

\* A request that is alone with a destination still finds what it has read.
PlaceIsKept(i) ==
  LET r == req[i]
  IN  r.dest # Nowhere /\ r.dest \notin contested =>
        /\ \A k \in Workers : pc[k] # "idle" /\ req[k].dest = r.dest => k = i
        /\ IF r.op = "close" THEN r.dest \notin Linked ELSE r.dest \in open

AccountsOK ==
  /\ TypeOK
  /\ \A u \in Users : ~user[u].born => user[u] = NoUser
  /\ user[DefaultAdmin].born

\* The request of a thread.
IsSound(i) ==
  /\ IsRequest(req[i])
  /\ Reading(i) => req[i].op = "assign"
  /\ req[i].op = "assign" => IsAssignment(req[i], pc[i]) /\ Settled(i)
  /\ req[i].op = "activate" /\ req[i].on /\ req[i].agency \notin disputed => Admins(req[i].agency) # {}
  /\ PlaceIsKept(i)

RequestsOK == \A i \in Workers : pc[i] # "idle" => IsSound(i)

AtMostOne ==
  \A a \in Agencies \ disputed :
    /\ \A u, v \in Admins(a) : u = v
    /\ agency[a].active => Admins(a) # {}

AInv == AccountsOK /\ RequestsOK /\ AtMostOne /\ OneOpenAgency
-------------------------------------------------------------------------------
LEMMA Initially == Init => AInv
<1> SUFFICES ASSUME Init
             PROVE  AInv
  OBVIOUS
<1>1. \A u \in Users :
        user[u] = IF u \in DOMAIN InitialRoles
                  THEN [born |-> TRUE, agency |-> NoAgency, active |-> TRUE, roles |-> InitialRoles[u]]
                  ELSE NoUser
  BY DEF Init
<1>2. \A u \in Users : /\ user[u] \in UserRow /\ user[u].agency = NoAgency
                       /\ user[u].roles \cap BUSINESS_ROLES = {}
                       /\ ~user[u].born => user[u] = NoUser
  <2> SUFFICES ASSUME NEW u \in Users
               PROVE  /\ user[u] \in UserRow /\ user[u].agency = NoAgency
                      /\ user[u].roles \cap BUSINESS_ROLES = {}
                      /\ ~user[u].born => user[u] = NoUser
    OBVIOUS
  <2>1. CASE u \in DOMAIN InitialRoles
    <3>1. InitialRoles[u] \subseteq {"ADMIN_GENERAL", "DEVELOPER"}
      BY <2>1, ConstantsAssumption
    <3>2. user[u] = [born |-> TRUE, agency |-> NoAgency, active |-> TRUE, roles |-> InitialRoles[u]]
      BY <1>1, <2>1
    <3> QED
      BY <3>1, <3>2 DEF UserRow, GlobalRoles, BUSINESS_ROLES, OPERATIONAL_ROLES
  <2>2. CASE u \notin DOMAIN InitialRoles
    <3>1. user[u] = NoUser
      BY <1>1, <2>2
    <3> QED
      BY <3>1 DEF UserRow, NoUser
  <2> QED
    BY <2>1, <2>2
<1>3. \A a \in Agencies : /\ agency[a] \in AgencyRow /\ agency[a].dest = Nowhere
                          /\ ~agency[a].active
  BY DEF Init, NoAgencyRow, AgencyRow
<1>4. NoUser \in UserRow
  BY DEF NoUser, UserRow
<1>5. TypeOK
  <2>1. \A i \in Workers : req[i] = NoRequest /\ pc[i] = "idle"
    BY DEF Init
  <2>2. NoRequest \in [op : Operations, agency : Agencies \cup {NoAgency},
                       dest : Destinations \cup {Nowhere}, user : Users \cup {Nobody},
                       role : GlobalRoles \cup OPERATIONAL_ROLES, on : BOOLEAN, was : UserRow,
                       previous : SUBSET Users, awake : SUBSET Users]
    BY <1>4 DEF NoRequest, Operations, OPERATIONAL_ROLES
  <2> QED
    BY <1>2, <1>3, <2>1, <2>2 DEF Init, TypeOK
<1>6. AccountsOK
  <2>1. DefaultAdmin \in Users /\ DefaultAdmin \in DOMAIN InitialRoles
    BY ConstantsAssumption
  <2>2. user[DefaultAdmin] = [born |-> TRUE, agency |-> NoAgency, active |-> TRUE,
                              roles |-> InitialRoles[DefaultAdmin]]
    BY <1>1, <2>1
  <2>3. user[DefaultAdmin].born
    BY <2>2
  <2> QED
    BY <1>2, <1>5, <2>3 DEF AccountsOK
<1>7. RequestsOK
  BY DEF Init, RequestsOK
<1>8. AtMostOne
  BY <1>2, <1>3 DEF AtMostOne, Admins, BUSINESS_ROLES
<1>9. OneOpenAgency
  BY <1>3 DEF OneOpenAgency, Linked, Born
<1> QED
  BY <1>6, <1>7, <1>8, <1>9 DEF AInv
-------------------------------------------------------------------------------
(* The administrators and the places after a step. *)

AdminsNext(a) == {u \in Users : user'[u].agency = a /\ "AGENCY_ADMIN" \in user'[u].roles}
LinkedNext == {agency'[a].dest : a \in {b \in Agencies : agency'[b].dest # Nowhere}}

\* What every step leaves of the accounts and the places.
Keeps ==
  /\ disputed \subseteq disputed' /\ contested \subseteq contested'
  /\ \A u \in Users :
       /\ user[u].born => user'[u].born /\ user'[u].roles \cap OPERATIONAL_ROLES \subseteq user[u].roles
       /\ \A a \in Agencies : user[u].agency = a \/ {a, user[u].agency} \subseteq disputed
            => user'[u].agency = a \/ {a, user'[u].agency} \subseteq disputed'
  /\ \A a \in Agencies \ disputed' : Admins(a) # {} => AdminsNext(a) # {}

\* What it leaves of what a session is reading.
KeepsReads ==
  \A k \in Workers :
    /\ pc[k] = "row" /\ user[req[k].user].agency = NoAgency =>
         \/ user'[req[k].user].agency = NoAgency
         \/ {req[k].agency, user'[req[k].user].agency} \subseteq disputed'
    /\ Reading(k) /\ req[k].agency \notin disputed' =>
         AdminsNext(req[k].agency) = Admins(req[k].agency)

LEMMA KeptIsKept ==
  ASSUME Keeps
  PROVE  /\ \A r : IsRequest(r) => IsRequest(r)'
         /\ \A r, at :
              /\ IsRequest(r) /\ r.op = "assign" /\ IsAssignment(r, at) /\ r.previous \subseteq Users
              /\ at = "row" /\ user[r.user].agency = NoAgency =>
                   \/ user'[r.user].agency = NoAgency
                   \/ {r.agency, user'[r.user].agency} \subseteq disputed'
              => IsAssignment(r, at)'
<1>1. ASSUME NEW r, IsRequest(r)
      PROVE  IsRequest(r)'
  BY <1>1 DEF Keeps, IsRequest
<1>2. ASSUME NEW r, NEW at,
             IsRequest(r), r.op = "assign", IsAssignment(r, at), r.previous \subseteq Users,
             at = "row" /\ user[r.user].agency = NoAgency =>
               \/ user'[r.user].agency = NoAgency
               \/ {r.agency, user'[r.user].agency} \subseteq disputed'
      PROVE  IsAssignment(r, at)'
  <2>1. r.user \in Users /\ r.agency \in Agencies
    BY <1>2 DEF IsRequest
  <2>2. r.was.agency = r.agency => Followed(r.user, r.agency)'
    BY <1>2, <2>1 DEF Keeps, IsAssignment, Followed
  <2>3. at \in {"found", "checked"} => \A p \in r.previous : Followed(p, r.agency)'
    BY <1>2, <2>1 DEF Keeps, IsAssignment, Followed
  <2>4. {r.agency, user[r.user].agency} \subseteq disputed
          => {r.agency, user'[r.user].agency} \subseteq disputed'
    BY <2>1 DEF Keeps
  <2>5. at = "row" /\ r.was.agency = NoAgency =>
          user'[r.user].agency = NoAgency \/ {r.agency, user'[r.user].agency} \subseteq disputed'
    BY <1>2, <2>4 DEF IsAssignment
  <2> QED
    BY <1>2, <2>1, <2>2, <2>3, <2>4, <2>5 DEF Keeps, IsAssignment
<1> QED
  BY <1>1, <1>2

\* A request under way in a step of another thread or of none.
LEMMA RequestKept ==
  ASSUME AInv, Keeps, KeepsReads, NEW k \in Workers, pc[k] # "idle",
         pc'[k] = pc[k], req'[k] = req[k],
         \A x \in Workers :
           /\ pc'[x] # "idle" =>
                \/ pc[x] # "idle" /\ req'[x].dest = req[x].dest
                \/ req'[x].dest = Nowhere \/ req'[x].dest # req[k].dest \/ req'[x].dest \in contested'
           /\ pc'[x] = "checked" /\ req'[x].op = "assign" =>
                \/ pc[x] = "checked" /\ req'[x] = req[x]
                \/ req'[x].agency # req[k].agency \/ req[k].agency \in disputed' \/ ~Pending(k, "assign")
                \/ req[k].previous # {},
         Pending(k, "assign") /\ req[k].agency \notin disputed' /\ req[k].previous = {}
           => AdminsNext(req[k].agency) = Admins(req[k].agency),
         req[k].dest # Nowhere /\ req[k].dest \notin contested' =>
           /\ req[k].dest \in open => req[k].dest \in open'
           /\ req[k].dest \notin Linked => req[k].dest \notin LinkedNext
  PROVE  IsSound(k)'
<1>1. PICK r, at : r = req[k] /\ at = pc[k]
  OBVIOUS
<1>2. /\ IsRequest(r) /\ r.previous \subseteq Users
      /\ Reading(k) => r.op = "assign"
      /\ r.op = "assign" => IsAssignment(r, at) /\ Settled(k)
      /\ r.op = "activate" /\ r.on /\ r.agency \notin disputed => Admins(r.agency) # {}
      /\ PlaceIsKept(k)
  BY <1>1 DEF AInv, RequestsOK, IsSound, AccountsOK, TypeOK
<1>3. req'[k] = r /\ pc'[k] = at
  BY <1>1
<1>4. IsRequest(r)' /\ (r.op = "assign" => IsAssignment(r, at)')
  BY <1>1, <1>2, KeptIsKept DEF KeepsReads
<1>5. ASSUME r.op = "assign"
      PROVE  Settled(k)'
  <2>1. ASSUME r.agency \notin disputed'
        PROVE  /\ at = "roles" => (r.user \in AdminsNext(r.agency) <=> ReadAsAdmin(r))
               /\ at \in {"found", "checked"} =>
                    /\ r.user \in r.previous <=> ReadAsAdmin(r)
                    /\ \A p, q \in r.previous : p = q
               /\ at = "found" => r.previous = AdminsNext(r.agency) /\ r.previous # {}
               /\ at = "checked" /\ r.previous = {} =>
                    /\ AdminsNext(r.agency) = {}
                    /\ \A x \in Workers : pc'[x] = "checked" /\ req'[x].op = "assign"
                                            /\ req'[x].agency = r.agency => x = k
    <3>1. r.agency \notin disputed /\ Settled(k)
      BY <1>2, <1>5, <2>1 DEF Keeps
    <3>2. at \in {"roles", "found"} => AdminsNext(r.agency) = Admins(r.agency)
      BY <1>1, <2>1 DEF KeepsReads, Reading
    <3>3. CASE at \in {"row", "roles", "found"}
      BY <1>1, <3>1, <3>2, <3>3 DEF Settled
    <3>4. CASE at = "checked"
      <4>1. Pending(k, "assign")
        BY <1>1, <1>5, <3>4 DEF Pending
      <4>2. r.previous = {} => AdminsNext(r.agency) = Admins(r.agency)
        BY <1>1, <2>1, <4>1
      <4>3. r.previous = {} => \A x \in Workers : pc'[x] = "checked" /\ req'[x].op = "assign"
                                                   /\ req'[x].agency = r.agency => x = k
        BY <1>1, <2>1, <3>1, <3>4, <4>1 DEF Settled, Pending
      <4> QED
        BY <1>1, <3>1, <3>4, <4>2, <4>3 DEF Settled
    <3> QED
      BY <1>1, <3>1, <3>3, <3>4 DEF AInv, AccountsOK, TypeOK
  <2> QED
    BY <1>3, <2>1 DEF Settled, AdminsNext, Admins, Pending, ReadAsAdmin
<1>6. ASSUME r.op = "activate", r.on, r.agency \notin disputed'
      PROVE  AdminsNext(r.agency) # {}
  BY <1>2, <1>6 DEF Keeps, IsRequest
<1>7. PlaceIsKept(k)'
  <2>1. ASSUME r.dest # Nowhere, r.dest \notin contested'
        PROVE  /\ \A x \in Workers : pc'[x] # "idle" /\ req'[x].dest = r.dest => x = k
               /\ IF r.op = "close" THEN r.dest \notin LinkedNext ELSE r.dest \in open'
    BY <1>1, <1>2, <2>1 DEF PlaceIsKept, Keeps
  <2> QED
    BY <1>3, <2>1 DEF PlaceIsKept, LinkedNext, Linked, Born
<1> QED
  BY <1>1, <1>2, <1>3, <1>4, <1>5, <1>6, <1>7
     DEF IsSound, AdminsNext, Admins, IsRequest, IsAssignment, Followed, Reading
-------------------------------------------------------------------------------
(* The start of a request, and what it reads next. *)

Requests ==
  [op : Operations, agency : Agencies \cup {NoAgency},
   dest : Destinations \cup {Nowhere}, user : Users \cup {Nobody},
   role : GlobalRoles \cup OPERATIONAL_ROLES, on : BOOLEAN, was : UserRow,
   previous : SUBSET Users, awake : SUBSET Users]

Phases == {"row", "roles", "found", "checked"}

\* A session that reads leaves everything to the others as it was.
LEMMA ReadKeeps ==
  ASSUME AInv, NEW i \in Workers, NEW r \in Requests, NEW at \in Phases, Read(i, at, r),
         disputed \subseteq disputed', contested \subseteq contested',
         disputed' \subseteq Agencies, contested' \subseteq Destinations,
         IsSound(i)',
         \A k \in Workers \ {i} : pc[k] # "idle" =>
           /\ \/ r.dest = Nowhere \/ r.dest # req[k].dest \/ r.dest \in contested'
           /\ at = "checked" /\ r.op = "assign" =>
                \/ r.agency # req[k].agency \/ req[k].agency \in disputed' \/ ~Pending(k, "assign")
                \/ req[k].previous # {}
  PROVE  AInv'
<1>1. /\ pc' = [pc EXCEPT ![i] = at] /\ req' = [req EXCEPT ![i] = r]
      /\ open' = open /\ agency' = agency /\ user' = user
      /\ TypeOK
  BY DEF Read, NothingWritten, AInv, AccountsOK
<1>2. TypeOK'
  BY <1>1 DEF TypeOK, Requests, Phases
<1>3. Keeps /\ KeepsReads
  BY <1>1 DEF Keeps, KeepsReads, AdminsNext, Admins
<1>4. AccountsOK'
  BY <1>1, <1>2 DEF AInv, AccountsOK
<1>5. AtMostOne'
  BY <1>1 DEF AInv, AtMostOne, Admins
<1>6. OneOpenAgency'
  BY <1>1 DEF AInv, OneOpenAgency, Linked, Born
<1>7. AdminsNext(req[i].agency) = Admins(req[i].agency) /\ LinkedNext = Linked
  BY <1>1 DEF AdminsNext, Admins, LinkedNext, Linked, Born
<1>8. ASSUME NEW k \in Workers, pc'[k] # "idle"
      PROVE  IsSound(k)'
  <2>1. CASE k = i
    BY <2>1
  <2>2. CASE k # i
    <3>1. pc'[k] = pc[k] /\ req'[k] = req[k] /\ pc[k] # "idle"
      BY <1>1, <1>8, <2>2 DEF TypeOK
    <3>2. \A x \in Workers : IF x = i THEN pc'[x] = at /\ req'[x] = r
                                      ELSE pc'[x] = pc[x] /\ req'[x] = req[x]
      BY <1>1 DEF TypeOK
    <3>3. /\ \/ r.dest = Nowhere \/ r.dest # req[k].dest \/ r.dest \in contested'
          /\ at = "checked" /\ r.op = "assign" =>
               \/ r.agency # req[k].agency \/ req[k].agency \in disputed' \/ ~Pending(k, "assign")
               \/ req[k].previous # {}
      BY <2>2, <3>1
    <3>4. AdminsNext(req[k].agency) = Admins(req[k].agency)
      BY <1>1 DEF AdminsNext, Admins
    <3> QED
      BY <1>1, <1>3, <1>7, <3>1, <3>2, <3>3, <3>4, RequestKept
  <2> QED
    BY <2>1, <2>2
<1>9. RequestsOK'
  BY <1>8 DEF RequestsOK
<1> QED
  BY <1>4, <1>5, <1>6, <1>9 DEF AInv

LEMMA LoadKeeps ==
  ASSUME AInv, NEW i \in Workers, NEW r \in Requests, NEW at \in Phases, Load(i, at, r),
         IsRequest(r),
         IF r.op = "assign"
         THEN /\ at \in {"row", "roles"} /\ IsAssignment(r, at)
              /\ at = "roles" => (r.user \in Admins(r.agency) <=> ReadAsAdmin(r))
         ELSE at = "checked",
         r.op = "activate" /\ r.on => Admins(r.agency) # {},
         r.op \in {"create", "relocate"} => r.dest \in open,
         r.op = "close" => r.dest \notin Linked
  PROVE  AInv'
<1>1. /\ pc[i] = "idle" /\ Read(i, at, r)
      /\ pc' = [pc EXCEPT ![i] = at] /\ req' = [req EXCEPT ![i] = r]
      /\ open' = open /\ agency' = agency /\ user' = user /\ disputed' = disputed
      /\ TypeOK
  BY DEF Load, Read, NothingWritten, AInv, AccountsOK
<1>2. /\ contested \subseteq contested' /\ contested' \subseteq Destinations
      /\ r.dest # Nowhere /\ r.dest \notin contested' =>
           \A k \in Workers : pc[k] # "idle" => req[k].dest # r.dest
  BY <1>1 DEF Load, Busy, TypeOK, IsRequest
<1>3. pc'[i] = at /\ req'[i] = r
  BY <1>1 DEF TypeOK
<1>4. ASSUME r.dest # Nowhere, r.dest \notin contested'
      PROVE  /\ \A x \in Workers : pc'[x] # "idle" /\ req'[x].dest = r.dest => x = i
             /\ IF r.op = "close" THEN r.dest \notin Linked ELSE r.dest \in open
  <2>1. \A x \in Workers : x # i => pc'[x] = pc[x] /\ req'[x] = req[x]
    BY <1>1 DEF TypeOK
  <2> QED
    BY <1>2, <1>4, <2>1 DEF IsRequest
<1>5. PlaceIsKept(i)'
  BY <1>1, <1>3, <1>4 DEF PlaceIsKept, Linked, Born
<1>6. IsRequest(r)' /\ (r.op = "assign" => IsAssignment(r, at)')
  BY <1>1 DEF IsRequest, IsAssignment, Followed
<1>7. r.op = "assign" => Settled(i)'
  BY <1>1, <1>3 DEF Settled, Admins, ReadAsAdmin
<1>8. IsSound(i)'
  BY <1>1, <1>3, <1>5, <1>6, <1>7 DEF IsSound, Reading, Admins, IsRequest, IsAssignment, Followed
<1>9. ASSUME NEW k \in Workers \ {i}, pc[k] # "idle"
      PROVE  /\ \/ r.dest = Nowhere \/ r.dest # req[k].dest \/ r.dest \in contested'
             /\ ~(at = "checked" /\ r.op = "assign")
  BY <1>2, <1>9
<1> QED
  BY <1>1, <1>2, <1>8, <1>9, ReadKeeps DEF TypeOK

LEMMA NoRequestTyped ==
  /\ NoRequest \in Requests
  /\ NoUser \in UserRow /\ NoUser.roles = {} /\ NoUser.agency = NoAgency /\ ~NoUser.born
<1>1. NoUser \in UserRow
  BY DEF NoUser, UserRow
<1> QED
  BY <1>1 DEF NoRequest, Requests, Operations, OPERATIONAL_ROLES, NoUser

\* The requests that only look at agencies and destinations.
LEMMA LoadPlaceKeeps ==
  ASSUME AInv, NEW i \in Workers, NEW by \in Users
  PROVE  /\ \A d \in Destinations : LoadCreate(i, by, d) => AInv'
         /\ \A a \in Agencies, d \in Destinations : LoadRelocate(i, by, a, d) => AInv'
         /\ \A a \in Agencies, on \in BOOLEAN : LoadActivate(i, by, a, on) => AInv'
         /\ \A d \in Destinations : LoadClose(i, d) => AInv'
<1>1. ASSUME NEW d \in Destinations, LoadCreate(i, by, d)
      PROVE  AInv'
  <2>1. PICK r : r = [NoRequest EXCEPT !.op = "create", !.dest = d]
    OBVIOUS
  <2>2. Load(i, "checked", r) /\ d \in open
    BY <1>1, <2>1 DEF LoadCreate, Vacancy
  <2>3. IsRequest(r) /\ r.op = "create" /\ r.dest = d
    BY <2>1 DEF NoRequest, IsRequest
  <2> QED
    BY <2>1, <2>2, <2>3, NoRequestTyped, LoadKeeps DEF Operations, Requests, Phases
<1>2. ASSUME NEW a \in Agencies, NEW d \in Destinations, LoadRelocate(i, by, a, d)
      PROVE  AInv'
  <2>1. PICK r : r = [NoRequest EXCEPT !.op = "relocate", !.agency = a, !.dest = d]
    OBVIOUS
  <2>2. Load(i, "checked", r) /\ d \in open
    BY <1>2, <2>1 DEF LoadRelocate, Vacancy
  <2>3. IsRequest(r) /\ r.op = "relocate" /\ r.dest = d
    BY <2>1 DEF NoRequest, IsRequest
  <2> QED
    BY <2>1, <2>2, <2>3, NoRequestTyped, LoadKeeps DEF Operations, Requests, Phases
<1>3. ASSUME NEW a \in Agencies, NEW on \in BOOLEAN, LoadActivate(i, by, a, on)
      PROVE  AInv'
  <2>1. PICK r : r = [NoRequest EXCEPT !.op = "activate", !.agency = a, !.on = on]
    OBVIOUS
  <2>2. Load(i, "checked", r) /\ (on => Admins(a) # {})
    BY <1>3, <2>1 DEF LoadActivate
  <2>3. IsRequest(r) /\ r.op = "activate" /\ r.agency = a /\ r.on = on
    BY <2>1 DEF NoRequest, IsRequest
  <2> QED
    BY <2>1, <2>2, <2>3, NoRequestTyped, LoadKeeps DEF Operations, Requests, Phases
<1>4. ASSUME NEW d \in Destinations, LoadClose(i, d)
      PROVE  AInv'
  <2>1. PICK r : r = [NoRequest EXCEPT !.op = "close", !.dest = d]
    OBVIOUS
  <2>2. Load(i, "checked", r) /\ d \notin Linked
    BY <1>4, <2>1 DEF LoadClose
  <2>3. IsRequest(r) /\ r.op = "close" /\ r.dest = d
    BY <2>1 DEF NoRequest, IsRequest
  <2> QED
    BY <2>1, <2>2, <2>3, NoRequestTyped, LoadKeeps DEF Operations, Requests, Phases
<1> QED
  BY <1>1, <1>2, <1>3, <1>4

\* The requests that look at an account.
LEMMA LoadAccountKeeps ==
  ASSUME AInv, NEW i \in Workers, NEW by \in Users, NEW u \in Users
  PROVE  /\ \A a \in Agencies, role \in OPERATIONAL_ROLES : LoadStaff(i, by, a, u, role) => AInv'
         /\ \A a \in Agencies, on \in BOOLEAN : LoadStatus(i, by, a, u, on) => AInv'
         /\ \A role \in GlobalRoles, on \in BOOLEAN : LoadRole(i, by, u, role, on) => AInv'
<1>1. ASSUME NEW a \in Agencies, NEW role \in OPERATIONAL_ROLES, LoadStaff(i, by, a, u, role)
      PROVE  AInv'
  <2>1. PICK r : r = [NoRequest EXCEPT !.op = "staff", !.agency = a, !.user = u, !.role = role]
    OBVIOUS
  <2>2. Load(i, "checked", r)
    BY <1>1, <2>1 DEF LoadStaff
  <2>3. IsRequest(r) /\ r.op = "staff"
    BY <2>1 DEF NoRequest, IsRequest
  <2> QED
    BY <2>1, <2>2, <2>3, NoRequestTyped, LoadKeeps DEF Operations, Requests, Phases
<1>2. ASSUME NEW a \in Agencies, NEW on \in BOOLEAN, LoadStatus(i, by, a, u, on)
      PROVE  AInv'
  <2>1. PICK r : r = [NoRequest EXCEPT !.op = "status", !.agency = a, !.user = u, !.on = on]
    OBVIOUS
  <2>2. Load(i, "checked", r) /\ user[u].agency = a
    BY <1>2, <2>1 DEF LoadStatus
  <2>3. user[u].born
    BY <2>2, NoRequestTyped, ConstantsAssumption DEF AInv, AccountsOK
  <2>4. IsRequest(r) /\ r.op = "status"
    BY <2>1, <2>3 DEF NoRequest, IsRequest
  <2> QED
    BY <2>1, <2>2, <2>4, NoRequestTyped, LoadKeeps DEF Operations, Requests, Phases
<1>3. ASSUME NEW role \in GlobalRoles, NEW on \in BOOLEAN, LoadRole(i, by, u, role, on)
      PROVE  AInv'
  <2>1. PICK r : r = [NoRequest EXCEPT !.op = IF on THEN "grant" ELSE "revoke", !.user = u,
                                       !.role = role]
    OBVIOUS
  <2>2. Load(i, "checked", r) /\ user[u].born
    BY <1>3, <2>1 DEF LoadRole
  <2>3. IsRequest(r) /\ r.op \in {"grant", "revoke"}
    BY <2>1, <2>2 DEF NoRequest, IsRequest
  <2> QED
    BY <2>1, <2>2, <2>3, NoRequestTyped, LoadKeeps DEF Operations, Requests, Phases
<1> QED
  BY <1>1, <1>2, <1>3

LEMMA LoadAssignKeeps ==
  ASSUME AInv, NEW i \in Workers, NEW by \in Users, NEW a \in Agencies, NEW u \in Users,
         LoadAssign(i, by, a, u)
  PROVE  AInv'
<1>1. PICK w, at : /\ w = [user[u] EXCEPT !.active = FALSE, !.roles = {}]
                   /\ at = IF user[u].born THEN "row" ELSE "roles"
  OBVIOUS
<1>2. PICK r : r = [NoRequest EXCEPT !.op = "assign", !.agency = a, !.user = u, !.was = w]
  OBVIOUS
<1>3. TypeOK /\ user[u] \in UserRow /\ (~user[u].born => user[u] = NoUser)
  BY DEF AInv, AccountsOK, TypeOK
<1>4. /\ w \in UserRow /\ w.born = user[u].born /\ w.agency = user[u].agency
      /\ w.roles = {}
  BY <1>1, <1>3 DEF UserRow
<1>5. user[u].agency \in {NoAgency, a}
  BY <1>3, NoRequestTyped DEF LoadAssign
<1>6. ~w.born => w = NoUser
  <2>1. ~w.born => w = [NoUser EXCEPT !.active = FALSE, !.roles = {}]
    BY <1>1, <1>3, <1>4
  <2> QED
    BY <2>1 DEF NoUser
<1>7. Load(i, at, r)
  BY <1>1, <1>2 DEF LoadAssign
<1>8. /\ r.op = "assign" /\ r.agency = a /\ r.user = u /\ r.was = w /\ r.dest = Nowhere
      /\ r \in Requests /\ at \in Phases /\ at \in {"row", "roles"}
  BY <1>1, <1>2, <1>4, NoRequestTyped DEF NoRequest, Operations, Requests, Phases
<1>9. IsRequest(r)
  BY <1>8 DEF IsRequest
<1>10. IsAssignment(r, at)
  BY <1>1, <1>4, <1>5, <1>6, <1>8, NoRequestTyped DEF IsAssignment, Followed
<1>11. at = "roles" => (r.user \in Admins(r.agency) <=> ReadAsAdmin(r))
  BY <1>1, <1>3, <1>4, <1>8, NoRequestTyped DEF Admins, ReadAsAdmin
<1> QED
  BY <1>7, <1>8, <1>9, <1>10, <1>11, LoadKeeps

\* The next SELECTs of an assignment that is not refused.
LEMMA ReadRolesKeeps ==
  ASSUME AInv, NEW i \in Workers, ReadRoles(i), user[req[i].user].roles \cap GlobalRoles = {}
  PROVE  AInv'
<1>1. PICK q, u, roles : q = req[i] /\ u = q.user /\ roles = user[u].roles
  OBVIOUS
<1>2. /\ TypeOK /\ pc[i] = "row" /\ q \in Requests /\ q.op = "assign" /\ IsRequest(q)
      /\ IsAssignment(q, "row") /\ PlaceIsKept(i)
  BY <1>1 DEF ReadRoles, AInv, AccountsOK, TypeOK, Requests, RequestsOK, IsSound, Reading
<1>3. PICK r : r = [q EXCEPT !.was.roles = roles]
  OBVIOUS
<1>4. u \in Users /\ q.was \in UserRow /\ user[u] \in UserRow
  BY <1>1, <1>2 DEF IsRequest, TypeOK, Requests
<1>5. /\ r \in Requests /\ r.op = "assign" /\ r.user = u /\ r.agency = q.agency /\ r.dest = q.dest
      /\ r.was.roles = roles /\ r.was.agency = q.was.agency /\ r.was.born /\ q.was.born
      /\ r.previous = q.previous /\ q.dest = Nowhere /\ r.agency \in Agencies
  BY <1>1, <1>2, <1>3, <1>4 DEF Requests, UserRow, IsRequest, IsAssignment
<1>6. /\ Read(i, "roles", r) /\ disputed' = disputed /\ contested' = contested
      /\ user' = user
  BY <1>1, <1>3 DEF ReadRoles, Read, NothingWritten
<1>7. pc'[i] = "roles" /\ req'[i] = r
  BY <1>2, <1>6 DEF Read, TypeOK
<1>8. IsAssignment(r, "roles")
  <2>1. user[u].roles \cap BUSINESS_ROLES # {} => user[u].agency # NoAgency
    BY <1>2, <1>4 DEF TypeOK
  <2> QED
    BY <1>1, <1>2, <1>5, <2>1 DEF IsAssignment
<1>9. r.agency \notin disputed => (u \in Admins(r.agency) <=> ReadAsAdmin(r))
  <2>1. r.agency \notin disputed => user[u].agency = r.was.agency
    BY <1>1, <1>2, <1>5 DEF IsAssignment, Followed
  <2> QED
    BY <1>1, <1>4, <1>5, <2>1 DEF Admins, ReadAsAdmin
<1>10. IsSound(i)'
  <2>1. Settled(i)'
    BY <1>5, <1>6, <1>7, <1>9 DEF Settled, Admins, ReadAsAdmin
  <2>2. IsRequest(r)' /\ IsAssignment(r, "roles")'
    BY <1>1, <1>2, <1>5, <1>6, <1>8 DEF IsRequest, IsAssignment, Followed
  <2>3. PlaceIsKept(i)'
    BY <1>5, <1>7 DEF PlaceIsKept
  <2> QED
    BY <1>5, <1>7, <2>1, <2>2, <2>3 DEF IsSound
<1> QED
  BY <1>2, <1>5, <1>6, <1>10, ReadKeeps DEF Phases, TypeOK

LEMMA ReadAdminsKeeps ==
  ASSUME AInv, NEW i \in Workers, ReadAdmins(i)
  PROVE  AInv'
<1>1. PICK q, found, awake, at :
        /\ q = req[i] /\ found = Admins(q.agency) /\ awake = {p \in found : user[p].active}
        /\ at = IF found \ {q.user} = {} THEN "checked" ELSE "found"
  OBVIOUS
<1>2. /\ TypeOK /\ pc[i] = "roles" /\ q \in Requests /\ q.op = "assign" /\ IsRequest(q)
      /\ IsAssignment(q, "roles") /\ Settled(i) /\ PlaceIsKept(i)
  BY <1>1 DEF ReadAdmins, AInv, AccountsOK, TypeOK, Requests, RequestsOK, IsSound, Reading
<1>3. PICK r : r = [q EXCEPT !.previous = found, !.awake = awake]
  OBVIOUS
<1>4. found \subseteq Users /\ awake \subseteq Users /\ at \in {"checked", "found"}
  BY <1>1 DEF Admins
<1>5. /\ r \in Requests /\ r.op = "assign" /\ r.user = q.user /\ r.agency = q.agency /\ r.dest = q.dest
      /\ r.was = q.was /\ r.previous = found /\ q.dest = Nowhere /\ r.agency \in Agencies
  BY <1>2, <1>3, <1>4 DEF Requests, IsRequest
<1>6. /\ Read(i, at, r) /\ contested' = contested /\ user' = user
      /\ disputed \subseteq disputed' /\ disputed' \subseteq Agencies
      /\ found = {} /\ r.agency \notin disputed' =>
           \A k \in Workers : Pending(k, "assign") => req[k].agency # r.agency
  BY <1>1, <1>2, <1>3, <1>5 DEF ReadAdmins, Read, NothingWritten, Pending, TypeOK
<1>7. pc'[i] = at /\ req'[i] = r /\ \A k \in Workers \ {i} : pc'[k] = pc[k] /\ req'[k] = req[k]
  BY <1>2, <1>6 DEF Read, TypeOK
<1>8. IsAssignment(r, at)'
  <2>1. \A p \in found : user[p].agency = r.agency
    BY <1>1, <1>5 DEF Admins
  <2> QED
    BY <1>2, <1>4, <1>5, <1>6, <2>1 DEF IsAssignment, Followed
<1>9. Settled(i)'
  <2>1. ASSUME r.agency \notin disputed'
        PROVE  /\ r.user \in found <=> ReadAsAdmin(r)
               /\ \A x, y \in found : x = y
               /\ at = "found" => found # {}
               /\ at = "checked" /\ found = {} =>
                    \A k \in Workers : Pending(k, "assign")' /\ req'[k].agency = r.agency => k = i
    <3>1. r.agency \notin disputed
      BY <1>6, <2>1
    <3>2. \A x, y \in found : x = y
      BY <1>1, <1>5, <3>1 DEF AInv, AtMostOne
    <3>3. r.user \in found <=> ReadAsAdmin(r)
      BY <1>1, <1>2, <1>5, <3>1 DEF Settled, ReadAsAdmin
    <3>4. found = {} => \A k \in Workers : Pending(k, "assign")' /\ req'[k].agency = r.agency => k = i
      BY <1>6, <1>7, <2>1 DEF Pending
    <3> QED
      BY <1>1, <3>2, <3>3, <3>4
  <2> QED
    BY <1>1, <1>4, <1>5, <1>6, <1>7, <2>1 DEF Settled, Admins, ReadAsAdmin, Pending
<1>10. IsSound(i)'
  <2>1. IsRequest(r)'
    BY <1>2, <1>5, <1>6 DEF IsRequest
  <2>2. PlaceIsKept(i)'
    BY <1>5, <1>7 DEF PlaceIsKept
  <2> QED
    BY <1>5, <1>7, <1>8, <1>9, <2>1, <2>2 DEF IsSound
<1>11. ASSUME NEW k \in Workers \ {i}, pc[k] # "idle", at = "checked"
       PROVE  \/ r.agency # req[k].agency \/ req[k].agency \in disputed' \/ ~Pending(k, "assign")
              \/ req[k].previous # {}
  <2> SUFFICES ASSUME r.agency = req[k].agency, r.agency \notin disputed', Pending(k, "assign"),
                      req[k].previous = {}
               PROVE  FALSE
    BY <1>11
  <2>1. r.agency \notin disputed
    BY <1>6
  <2>2. Admins(req[k].agency) = {}
    <3>1. Settled(k) /\ pc[k] = "checked"
      BY <1>11 DEF AInv, RequestsOK, IsSound, Pending
    <3> QED
      BY <2>1, <3>1 DEF Settled
  <2>3. found = {}
    BY <1>1, <1>5, <2>2
  <2> QED
    BY <1>6, <2>3
<1> QED
  BY <1>2, <1>4, <1>5, <1>6, <1>10, <1>11, ReadKeeps DEF Phases, TypeOK

LEMMA ReadTheirRolesKeeps ==
  ASSUME AInv, NEW i \in Workers, ReadTheirRoles(i)
  PROVE  AInv'
<1>1. PICK q, holders : q = req[i] /\ holders = {p \in q.previous : "AGENCY_ADMIN" \in user[p].roles}
  OBVIOUS
<1>2. /\ TypeOK /\ pc[i] = "found" /\ q \in Requests /\ q.op = "assign" /\ IsRequest(q)
      /\ IsAssignment(q, "found") /\ Settled(i) /\ PlaceIsKept(i)
  BY <1>1 DEF ReadTheirRoles, AInv, AccountsOK, TypeOK, Requests, RequestsOK, IsSound, Reading
<1>3. PICK r : r = [q EXCEPT !.previous = holders]
  OBVIOUS
<1>4. holders \subseteq q.previous /\ q.previous \subseteq Users
  BY <1>1, <1>2 DEF Requests
<1>5. /\ r \in Requests /\ r.op = "assign" /\ r.user = q.user /\ r.agency = q.agency /\ r.dest = q.dest
      /\ r.was = q.was /\ r.previous = holders /\ q.dest = Nowhere /\ r.agency \in Agencies
  BY <1>2, <1>3, <1>4 DEF Requests, IsRequest
<1>6. /\ Read(i, "checked", r) /\ contested' = contested /\ user' = user /\ disputed' = disputed
  BY <1>1, <1>3 DEF ReadTheirRoles, Read, NothingWritten
<1>7. pc'[i] = "checked" /\ req'[i] = r
  BY <1>2, <1>6 DEF Read, TypeOK
\* Nobody has lost the role meanwhile.
<1>8. r.agency \notin disputed => holders = q.previous /\ q.previous # {}
  <2>1. r.agency \notin disputed => q.previous = Admins(q.agency) /\ q.previous # {}
    BY <1>1, <1>2, <1>5 DEF Settled
  <2> QED
    BY <1>1, <2>1 DEF Admins
<1>9. IsAssignment(r, "checked")'
  BY <1>2, <1>4, <1>5, <1>6 DEF IsAssignment, Followed
<1>10. Settled(i)'
  BY <1>1, <1>2, <1>5, <1>6, <1>7, <1>8 DEF Settled, ReadAsAdmin
<1>11. IsSound(i)'
  <2>1. IsRequest(r)'
    BY <1>2, <1>5, <1>6 DEF IsRequest
  <2>2. PlaceIsKept(i)'
    BY <1>5, <1>7 DEF PlaceIsKept
  <2> QED
    BY <1>5, <1>7, <1>9, <1>10, <2>1, <2>2 DEF IsSound
<1>12. ASSUME NEW k \in Workers \ {i}, pc[k] # "idle"
       PROVE  \/ r.agency # req[k].agency \/ req[k].agency \in disputed' \/ ~Pending(k, "assign")
              \/ req[k].previous # {}
  <2> SUFFICES ASSUME r.agency = req[k].agency, r.agency \notin disputed, Pending(k, "assign"),
                      req[k].previous = {}
               PROVE  FALSE
    BY <1>6, <1>12
  <2>1. Admins(r.agency) = {}
    <3>1. Settled(k) /\ pc[k] = "checked"
      BY <1>12 DEF AInv, RequestsOK, IsSound, Pending
    <3> QED
      BY <3>1 DEF Settled
  <2>2. q.previous = Admins(r.agency)
    BY <1>1, <1>2, <1>5 DEF Settled
  <2> QED
    BY <1>8, <2>1, <2>2
<1> QED
  BY <1>2, <1>5, <1>6, <1>11, <1>12, ReadKeeps DEF Phases, TypeOK
-------------------------------------------------------------------------------
(* The end of a request. *)

LEMMA EndKeeps ==
  ASSUME AInv, NEW i \in Workers, pc[i] # "idle", Answer(i), Keeps, KeepsReads,
         open' \subseteq Destinations, agency' \in [Agencies -> AgencyRow],
         user' \in [Users -> UserRow], disputed' \subseteq Agencies,
         \A u \in Users : /\ ~user'[u].born => user'[u] = NoUser
                          /\ user'[u].roles \cap BUSINESS_ROLES # {} => user'[u].agency # NoAgency,
         \A a \in Agencies \ disputed' :
           /\ AdminsNext(a) = Admins(a) \/ (Pending(i, "assign") /\ req[i].agency = a)
           /\ \A u, v \in AdminsNext(a) : u = v
           /\ agency'[a].active => AdminsNext(a) # {},
         OneOpenAgency',
         open \ {req[i].dest} \subseteq open', LinkedNext \subseteq Linked \cup {req[i].dest}
  PROVE  AInv'
<1>1. /\ TypeOK /\ AccountsOK /\ RequestsOK
      /\ pc' = [pc EXCEPT ![i] = "idle"] /\ req' = [req EXCEPT ![i] = NoRequest]
      /\ contested' = contested
  BY DEF AInv, AccountsOK, Answer
<1>2. TypeOK'
  BY <1>1, NoRequestTyped DEF TypeOK, Requests
<1>3. AccountsOK'
  BY <1>1, <1>2, ConstantsAssumption DEF AccountsOK, Keeps
<1>4. AtMostOne'
  BY DEF AtMostOne, AdminsNext, Admins
<1>5. \A x \in Workers : pc'[x] # "idle" => x # i /\ pc'[x] = pc[x] /\ req'[x] = req[x]
  BY <1>1 DEF TypeOK
<1>6. ASSUME NEW k \in Workers, pc'[k] # "idle"
      PROVE  IsSound(k)'
  <2>1. k # i /\ pc'[k] = pc[k] /\ pc[k] # "idle" /\ req'[k] = req[k]
    BY <1>5, <1>6
  <2>2. IsRequest(req[k]) /\ PlaceIsKept(k) /\ (req[k].op = "assign" => Settled(k))
    BY <1>1, <2>1 DEF RequestsOK, IsSound
  <2>3. ASSUME Pending(k, "assign"), req[k].agency \notin disputed', req[k].previous = {}
        PROVE  AdminsNext(req[k].agency) = Admins(req[k].agency)
    <3>1. req[k].agency \in Agencies /\ req[k].agency \notin disputed
      BY <2>2, <2>3 DEF IsRequest, Keeps, Pending
    <3>2. ~(Pending(i, "assign") /\ req[i].agency = req[k].agency)
      BY <2>1, <2>2, <2>3, <3>1 DEF Settled, Pending
    <3> QED
      BY <2>3, <3>1, <3>2
  <2>4. ASSUME req[k].dest # Nowhere, req[k].dest \notin contested'
        PROVE  /\ req[k].dest \in open => req[k].dest \in open'
               /\ req[k].dest \notin Linked => req[k].dest \notin LinkedNext
    <3>1. req[k].dest # req[i].dest
      BY <1>1, <2>1, <2>2, <2>4 DEF PlaceIsKept
    <3> QED
      BY <3>1
  <2>5. \A x \in Workers :
          /\ pc'[x] # "idle" => pc[x] # "idle" /\ req'[x].dest = req[x].dest
          /\ pc'[x] = "checked" => pc[x] = "checked" /\ req'[x] = req[x]
    BY <1>5
  <2> QED
    BY <2>1, <2>3, <2>4, <2>5, RequestKept
<1>7. RequestsOK'
  BY <1>6 DEF RequestsOK
<1> QED
  BY <1>3, <1>4, <1>7 DEF AInv

\* A step that touches no administrator and moves nobody.
Quiet ==
  \A u \in Users :
    /\ user'[u] \in UserRow
    /\ ~user'[u].born => user'[u] = NoUser
    /\ user'[u].roles \cap BUSINESS_ROLES # {} => user'[u].agency # NoAgency
    /\ IF user[u].born
       THEN /\ user'[u].born /\ user'[u].agency = user[u].agency
            /\ user'[u].roles \cap BUSINESS_ROLES = user[u].roles \cap BUSINESS_ROLES
       ELSE "AGENCY_ADMIN" \notin user'[u].roles

LEMMA QuietKeeps ==
  ASSUME AInv, Quiet
  PROVE  /\ \A a \in Agencies : AdminsNext(a) = Admins(a)
         /\ Movers = {}
         /\ disputed \subseteq disputed' /\ contested \subseteq contested' => Keeps /\ KeepsReads
<1>1. /\ TypeOK /\ \A u \in Users : ~user[u].born => user[u] = NoUser
  BY DEF AInv, AccountsOK
<1>2. \A u \in Users : "AGENCY_ADMIN" \in user'[u].roles <=> "AGENCY_ADMIN" \in user[u].roles
  BY <1>1, NoRequestTyped DEF Quiet, BUSINESS_ROLES
<1>3. \A u \in Users : ~user[u].born => user[u].agency = NoAgency /\ "AGENCY_ADMIN" \notin user[u].roles
  BY <1>1, NoRequestTyped
<1>4. \A a \in Agencies, u \in Users :
        u \in AdminsNext(a) <=> u \in Admins(a)
  BY <1>2, <1>3, ConstantsAssumption DEF Quiet, AdminsNext, Admins
<1>5. \A a \in Agencies : AdminsNext(a) = Admins(a)
  BY <1>4 DEF AdminsNext, Admins
<1>6. Movers = {}
  BY <1>3 DEF Quiet, Movers
<1>7. ASSUME disputed \subseteq disputed', contested \subseteq contested'
      PROVE  Keeps /\ KeepsReads
  <2>1. NoAgency \notin Agencies /\ disputed \subseteq Agencies
    BY <1>1, ConstantsAssumption DEF TypeOK
  <2>2. ASSUME NEW u \in Users
        PROVE  /\ user[u].born => /\ user'[u].born
                                  /\ user'[u].roles \cap OPERATIONAL_ROLES \subseteq user[u].roles
               /\ \A a \in Agencies : user[u].agency = a \/ {a, user[u].agency} \subseteq disputed
                    => user'[u].agency = a \/ {a, user'[u].agency} \subseteq disputed'
    BY <1>3, <1>7, <2>1 DEF Quiet, BUSINESS_ROLES
  <2>3. KeepsReads
    <3> SUFFICES ASSUME NEW k \in Workers, Reading(k)
                 PROVE  /\ pc[k] = "row" => user'[req[k].user].agency = user[req[k].user].agency
                        /\ AdminsNext(req[k].agency) = Admins(req[k].agency)
      BY DEF KeepsReads, Reading
    <3>1. /\ req[k].op = "assign" /\ IsRequest(req[k])
          /\ pc[k] = "row" => user[req[k].user].born
      BY DEF Reading, AInv, RequestsOK, IsSound, IsAssignment
    <3> QED
      BY <1>5, <3>1 DEF Quiet, IsRequest
  <2> QED
    BY <1>5, <1>7, <2>2, <2>3 DEF Keeps
<1> QED
  BY <1>5, <1>6, <1>7

LEMMA SameAccountsAreQuiet == AInv /\ user' = user => Quiet
  BY NoRequestTyped DEF AInv, AccountsOK, TypeOK, Quiet

LEMMA QuietEndKeeps ==
  ASSUME AInv, NEW i \in Workers, pc[i] # "idle", Answer(i), Quiet,
         req[i].op # "assign" \/ user' = user,
         user' \in [Users -> UserRow],
         open' \subseteq Destinations, agency' \in [Agencies -> AgencyRow],
         \A a \in Agencies \ disputed :
           agency'[a].active => agency[a].active \/ Admins(a) # {},
         OneOpenAgency',
         open \ {req[i].dest} \subseteq open', LinkedNext \subseteq Linked \cup {req[i].dest}
  PROVE  AInv'
<1>1. /\ Movers = {} /\ \A a \in Agencies : AdminsNext(a) = Admins(a)
      /\ disputed \subseteq disputed' /\ contested \subseteq contested' => Keeps /\ KeepsReads
  BY QuietKeeps
<1>2. disputed' = disputed /\ contested' = contested
  BY <1>1 DEF Answer, Unsettled
<1>3. disputed \subseteq Agencies /\ AtMostOne
  BY DEF AInv, AccountsOK, TypeOK
<1>4. \A a \in Agencies \ disputed' :
        /\ AdminsNext(a) = Admins(a)
        /\ \A u, v \in AdminsNext(a) : u = v
        /\ agency'[a].active => AdminsNext(a) # {}
  BY <1>1, <1>2, <1>3 DEF AtMostOne
<1>5. Keeps /\ KeepsReads
  BY <1>1, <1>2
<1> QED
  BY <1>2, <1>3, <1>4, <1>5, EndKeeps DEF Quiet

LEMMA NothingKeeps ==
  ASSUME AInv, NEW i \in Workers, pc[i] # "idle", Answer(i), NothingWritten
  PROVE  AInv'
<1>1. open' = open /\ agency' = agency /\ user' = user /\ TypeOK
  BY DEF NothingWritten, AInv, AccountsOK
<1>2. Movers = {}
  BY <1>1 DEF Movers
<1>3. contested' = contested
  BY DEF Answer
<1>4. OneOpenAgency'
  BY <1>1, <1>3 DEF AInv, OneOpenAgency, Linked, Born
<1>5. LinkedNext = Linked
  BY <1>1 DEF LinkedNext, Linked, Born
<1> QED
  BY <1>1, <1>4, <1>5, SameAccountsAreQuiet, QuietEndKeeps DEF TypeOK, AInv, AtMostOne

LEMMA CreateKeeps ==
  ASSUME AInv, NEW i \in Workers, Create(i) \/ Relocate(i)
  PROVE  AInv'
<1>1. /\ pc[i] = "checked" /\ req[i].op \in {"create", "relocate"} /\ Answer(i)
      /\ contested' = contested /\ TypeOK
  BY DEF Create, Relocate, Answer, AInv, AccountsOK
<1>2. CASE ~IndexAdmits(req[i].dest)
  BY <1>1, <1>2, NothingKeeps DEF Create, Relocate
<1>3. CASE IndexAdmits(req[i].dest)
  <2>1. /\ req[i].dest \in Destinations /\ req[i].dest # Nowhere /\ req[i].dest \notin Linked
        /\ req[i].dest \notin contested => req[i].dest \in open
    BY <1>1, <1>3, ConstantsAssumption DEF AInv, RequestsOK, IsSound, IsRequest, PlaceIsKept, IndexAdmits
  <2>2. PICK a \in Agencies, on \in BOOLEAN :
          /\ agency' = [agency EXCEPT ![a] = [dest |-> req[i].dest, active |-> on]]
          /\ on => agency[a].active
    <3>1. CASE Create(i)
      BY <1>3, <3>1 DEF Create
    <3>2. CASE Relocate(i)
      <4>1. req[i].agency \in Agencies
        BY <1>1, <3>2 DEF Relocate, AInv, RequestsOK, IsSound, IsRequest
      <4>2. agency' = [agency EXCEPT ![req[i].agency].dest = req[i].dest]
        BY <1>3, <3>2 DEF Relocate
      <4>3. agency[req[i].agency] \in AgencyRow
        BY <1>1, <4>1 DEF TypeOK
      <4>4. [agency[req[i].agency] EXCEPT !.dest = req[i].dest]
              = [dest |-> req[i].dest, active |-> agency[req[i].agency].active]
        BY <4>3 DEF AgencyRow
      <4> QED
        BY <4>1, <4>2, <4>3, <4>4 DEF AgencyRow
    <3> QED
      BY <3>1, <3>2
  <2>3. user' = user /\ open' = open
    BY <1>3 DEF Create, Relocate
  <2>4. /\ agency' \in [Agencies -> AgencyRow]
        /\ \A b \in Agencies : IF b = a THEN agency'[b].dest = req[i].dest /\ agency'[b].active = on
                                        ELSE agency'[b] = agency[b]
    BY <1>1, <2>1, <2>2 DEF TypeOK, AgencyRow
  <2>5. LinkedNext \subseteq Linked \cup {req[i].dest}
    BY <2>4 DEF LinkedNext, Linked, Born
  <2>6. OneOpenAgency'
    <3>1. LinkedNext \ contested' \subseteq open'
      BY <1>1, <2>1, <2>3, <2>5 DEF AInv, OneOpenAgency
    <3>2. ASSUME NEW b \in Agencies, NEW c \in Agencies, agency'[b].dest # Nowhere,
                 agency'[b].dest = agency'[c].dest
          PROVE  b = c
      <4>1. \A x \in Agencies : x # a => agency'[x].dest # req[i].dest
        BY <2>1, <2>4 DEF Linked, Born
      <4> QED
        BY <2>4, <3>2, <4>1 DEF AInv, OneOpenAgency, Born
    <3> QED
      BY <3>1, <3>2 DEF OneOpenAgency, LinkedNext, Linked, Born
  <2>7. \A b \in Agencies \ disputed : agency'[b].active => agency[b].active \/ Admins(b) # {}
    BY <2>2, <2>4
  <2> QED
    BY <1>1, <2>3, <2>4, <2>5, <2>6, <2>7, SameAccountsAreQuiet, QuietEndKeeps DEF TypeOK
<1> QED
  BY <1>2, <1>3

LEMMA ActivateKeeps ==
  ASSUME AInv, NEW i \in Workers, Activate(i)
  PROVE  AInv'
<1>1. /\ pc[i] = "checked" /\ req[i].op = "activate" /\ Answer(i) /\ TypeOK
      /\ agency' = [agency EXCEPT ![req[i].agency].active = req[i].on]
      /\ open' = open /\ user' = user /\ contested' = contested
  BY DEF Activate, Answer, AInv, AccountsOK
<1>2. /\ req[i].agency \in Agencies /\ req[i].on \in BOOLEAN
      /\ req[i].on /\ req[i].agency \notin disputed => Admins(req[i].agency) # {}
  BY <1>1 DEF AInv, RequestsOK, IsSound, IsRequest, TypeOK
<1>3. /\ agency' \in [Agencies -> AgencyRow]
      /\ \A b \in Agencies : /\ agency'[b].dest = agency[b].dest
                             /\ agency'[b].active = IF b = req[i].agency THEN req[i].on ELSE agency[b].active
  BY <1>1, <1>2 DEF TypeOK, AgencyRow
<1>4. LinkedNext = Linked
  BY <1>3 DEF LinkedNext, Linked, Born
<1>5. OneOpenAgency'
  BY <1>1, <1>3, <1>4 DEF AInv, OneOpenAgency, LinkedNext, Linked, Born
<1>6. \A b \in Agencies \ disputed : agency'[b].active => agency[b].active \/ Admins(b) # {}
  BY <1>2, <1>3
<1> QED
  BY <1>1, <1>3, <1>4, <1>5, <1>6, SameAccountsAreQuiet, QuietEndKeeps DEF TypeOK

LEMMA CloseKeeps ==
  ASSUME AInv, NEW i \in Workers, Close(i)
  PROVE  AInv'
<1>1. /\ pc[i] = "checked" /\ req[i].op = "close" /\ Answer(i) /\ TypeOK
      /\ open' = open \ {req[i].dest} /\ agency' = agency /\ user' = user
      /\ contested' = contested
  BY DEF Close, Answer, AInv, AccountsOK
<1>2. req[i].dest \notin contested => req[i].dest \notin Linked
  BY <1>1, ConstantsAssumption DEF AInv, RequestsOK, IsSound, IsRequest, PlaceIsKept
<1>3. LinkedNext = Linked
  BY <1>1 DEF LinkedNext, Linked, Born
<1>4. OneOpenAgency'
  BY <1>1, <1>2 DEF AInv, OneOpenAgency, Linked, Born
<1> QED
  BY <1>1, <1>3, <1>4, SameAccountsAreQuiet, QuietEndKeeps DEF TypeOK

\* The end of a request that writes accounts and leaves agencies and
\* destinations as they are.
LEMMA AccountEndKeeps ==
  ASSUME AInv, NEW i \in Workers, pc[i] # "idle", Answer(i), Quiet, req[i].op # "assign",
         user' \in [Users -> UserRow], UNCHANGED <<open, agency>>
  PROVE  AInv'
<1>1. TypeOK /\ contested' = contested
  BY DEF AInv, AccountsOK, Answer
<1>2. LinkedNext = Linked
  BY DEF LinkedNext, Linked, Born
<1>3. OneOpenAgency'
  BY <1>1 DEF AInv, OneOpenAgency, Linked, Born
<1> QED
  BY <1>1, <1>2, <1>3, QuietEndKeeps DEF TypeOK

\* One account gets another row that leaves its place and its administration.
LEMMA OneRowIsQuiet ==
  ASSUME AInv, NEW u \in Users, NEW row \in UserRow, user' = [user EXCEPT ![u] = row], row.born,
         row.roles \cap BUSINESS_ROLES # {} => row.agency # NoAgency,
         IF user[u].born THEN /\ row.agency = user[u].agency
                              /\ row.roles \cap BUSINESS_ROLES = user[u].roles \cap BUSINESS_ROLES
                         ELSE "AGENCY_ADMIN" \notin row.roles
  PROVE  Quiet /\ user' \in [Users -> UserRow]
<1>1. /\ TypeOK /\ \A x \in Users : ~user[x].born => user[x] = NoUser
  BY DEF AInv, AccountsOK
<1>2. user' \in [Users -> UserRow] /\ \A x \in Users : user'[x] = IF x = u THEN row ELSE user[x]
  BY <1>1 DEF TypeOK
<1> QED
  BY <1>1, <1>2, NoRequestTyped DEF Quiet, TypeOK

LEMMA StaffKeeps ==
  ASSUME AInv, NEW i \in Workers, Staff(i)
  PROVE  AInv'
<1>1. pc[i] = "checked" /\ req[i].op = "staff" /\ Answer(i)
  BY DEF Staff
<1>2. CASE user[req[i].user].born
  BY <1>1, <1>2, NothingKeeps DEF Staff
<1>3. CASE ~user[req[i].user].born
  <2>1. PICK row : row = [born |-> TRUE, agency |-> req[i].agency, active |-> TRUE,
                          roles |-> {req[i].role}]
    OBVIOUS
  <2>2. user' = [user EXCEPT ![req[i].user] = row] /\ UNCHANGED <<open, agency>>
    BY <1>3, <2>1 DEF Staff
  <2>3. req[i].user \in Users /\ req[i].agency \in Agencies /\ req[i].role \in OPERATIONAL_ROLES
    BY <1>1 DEF AInv, RequestsOK, IsSound, IsRequest
  <2>4. /\ row \in UserRow /\ row.born /\ row.agency # NoAgency
        /\ "AGENCY_ADMIN" \notin row.roles
    BY <2>1, <2>3, ConstantsAssumption DEF UserRow, BUSINESS_ROLES, OPERATIONAL_ROLES
  <2>5. Quiet /\ user' \in [Users -> UserRow]
    BY <1>3, <2>2, <2>3, <2>4, OneRowIsQuiet
  <2> QED
    BY <1>1, <2>2, <2>5, AccountEndKeeps
<1> QED
  BY <1>2, <1>3

LEMMA StatusKeeps ==
  ASSUME AInv, NEW i \in Workers, Status(i)
  PROVE  AInv'
<1>1. /\ pc[i] = "checked" /\ req[i].op = "status" /\ Answer(i) /\ UNCHANGED <<open, agency>>
      /\ user' = [user EXCEPT ![req[i].user].active = req[i].on]
  BY DEF Status
<1>2. /\ req[i].user \in Users /\ user[req[i].user].born /\ req[i].on \in BOOLEAN
      /\ user[req[i].user] \in UserRow
      /\ user[req[i].user].roles \cap BUSINESS_ROLES # {} => user[req[i].user].agency # NoAgency
  BY <1>1 DEF AInv, RequestsOK, IsSound, IsRequest, AccountsOK, TypeOK
<1>3. PICK row : row = [user[req[i].user] EXCEPT !.active = req[i].on]
  OBVIOUS
<1>4. /\ row \in UserRow /\ row.born /\ row.agency = user[req[i].user].agency
      /\ row.roles = user[req[i].user].roles
  BY <1>2, <1>3 DEF UserRow
<1>5. user' = [user EXCEPT ![req[i].user] = row]
  BY <1>1, <1>3
<1>6. Quiet /\ user' \in [Users -> UserRow]
  BY <1>2, <1>4, <1>5, OneRowIsQuiet
<1> QED
  BY <1>1, <1>6, AccountEndKeeps

LEMMA GrantKeeps ==
  ASSUME AInv, NEW i \in Workers, Grant(i)
  PROVE  AInv'
<1>1. /\ pc[i] = "checked" /\ req[i].op \in {"grant", "revoke"} /\ Answer(i)
      /\ UNCHANGED <<open, agency>>
      /\ user' = [user EXCEPT ![req[i].user].roles =
                    IF req[i].op = "grant" THEN @ \cup {req[i].role} ELSE @ \ {req[i].role}]
  BY DEF Grant
<1>2. /\ req[i].user \in Users /\ user[req[i].user].born /\ req[i].role \in GlobalRoles
      /\ user[req[i].user] \in UserRow
      /\ user[req[i].user].roles \cap BUSINESS_ROLES # {} => user[req[i].user].agency # NoAgency
  BY <1>1 DEF AInv, RequestsOK, IsSound, IsRequest, AccountsOK, TypeOK
<1>3. PICK granted : granted = IF req[i].op = "grant" THEN user[req[i].user].roles \cup {req[i].role}
                                                      ELSE user[req[i].user].roles \ {req[i].role}
  OBVIOUS
<1>4. /\ granted \subseteq GlobalRoles \cup BUSINESS_ROLES
      /\ granted \cap BUSINESS_ROLES = user[req[i].user].roles \cap BUSINESS_ROLES
  BY <1>2, <1>3 DEF UserRow, GlobalRoles, BUSINESS_ROLES, OPERATIONAL_ROLES
<1>5. PICK row : row = [user[req[i].user] EXCEPT !.roles = granted]
  OBVIOUS
<1>6. /\ row \in UserRow /\ row.born /\ row.agency = user[req[i].user].agency
      /\ row.roles = granted
  BY <1>2, <1>4, <1>5 DEF UserRow
<1>7. user' = [user EXCEPT ![req[i].user] = row]
  BY <1>1, <1>3, <1>5
<1>8. Quiet /\ user' \in [Users -> UserRow]
  BY <1>2, <1>4, <1>6, <1>7, OneRowIsQuiet
<1> QED
  BY <1>1, <1>8, AccountEndKeeps

\* The steps that belong to no request.
LEMMA OutsideKeeps ==
  ASSUME AInv, Seed \/ (\E d \in Destinations : Reopen(d))
  PROVE  AInv'
<1>1. /\ TypeOK /\ UNCHANGED <<agency, pc, req, disputed, contested>>
      /\ open \subseteq open' /\ open' \subseteq Destinations
  BY DEF Seed, Reopen, AInv, AccountsOK, TypeOK
<1>2. Quiet /\ user' \in [Users -> UserRow]
  <2>1. CASE user' = user
    BY <1>1, <2>1, SameAccountsAreQuiet DEF TypeOK
  <2>2. CASE Seed
    <3>1. DefaultAdmin \in Users /\ user[DefaultAdmin] \in UserRow /\ user[DefaultAdmin].born
          /\ (user[DefaultAdmin].roles \cap BUSINESS_ROLES # {} => user[DefaultAdmin].agency # NoAgency)
      BY <1>1, ConstantsAssumption DEF AInv, AccountsOK, TypeOK
    <3>2. PICK granted : granted = user[DefaultAdmin].roles \cup {"ADMIN_GENERAL"}
      OBVIOUS
    <3>3. /\ granted \subseteq GlobalRoles \cup BUSINESS_ROLES
          /\ granted \cap BUSINESS_ROLES = user[DefaultAdmin].roles \cap BUSINESS_ROLES
      BY <3>1, <3>2 DEF UserRow, GlobalRoles, BUSINESS_ROLES, OPERATIONAL_ROLES
    <3>4. PICK row : row = [user[DefaultAdmin] EXCEPT !.roles = granted]
      OBVIOUS
    <3>5. /\ row \in UserRow /\ row.born /\ row.agency = user[DefaultAdmin].agency
          /\ row.roles = granted
      BY <3>1, <3>3, <3>4 DEF UserRow
    <3>6. user' = [user EXCEPT ![DefaultAdmin] = row]
      BY <2>2, <3>2, <3>4 DEF Seed
    <3> QED
      BY <3>1, <3>3, <3>5, <3>6, OneRowIsQuiet
  <2> QED
    BY <2>1, <2>2 DEF Reopen
<1>3. Keeps /\ KeepsReads /\ \A a \in Agencies : AdminsNext(a) = Admins(a)
  BY <1>1, <1>2, QuietKeeps
<1>4. TypeOK'
  BY <1>1, <1>2 DEF TypeOK, Quiet
<1>5. AccountsOK'
  BY <1>2, <1>3, <1>4, ConstantsAssumption DEF AInv, AccountsOK, Keeps, Quiet
<1>6. AtMostOne'
  <2>1. \A a \in Agencies \ disputed' : /\ \A u, v \in AdminsNext(a) : u = v
                                        /\ agency'[a].active => AdminsNext(a) # {}
    BY <1>1, <1>3 DEF AInv, AtMostOne
  <2> QED
    BY <2>1 DEF AtMostOne, AdminsNext, Admins
<1>7. LinkedNext = Linked
  BY <1>1 DEF LinkedNext, Linked, Born
<1>8. OneOpenAgency'
  BY <1>1 DEF AInv, OneOpenAgency, Linked, Born
<1>9. ASSUME NEW k \in Workers, pc'[k] # "idle"
      PROVE  IsSound(k)'
  <2>1. pc'[k] = pc[k] /\ pc[k] # "idle" /\ req'[k] = req[k] /\ IsSound(k)
    BY <1>1, <1>9 DEF AInv, RequestsOK
  <2>2. Pending(k, "assign") => AdminsNext(req[k].agency) = Admins(req[k].agency)
    BY <1>3, <2>1 DEF IsSound, IsRequest, Pending
  <2> QED
    BY <1>1, <1>3, <1>7, <2>1, <2>2, RequestKept
<1>10. RequestsOK'
  BY <1>9 DEF RequestsOK
<1> QED
  BY <1>5, <1>6, <1>8, <1>10 DEF AInv
-------------------------------------------------------------------------------
(* The assignment of an administrator. *)

Commits(i) ==
  LET r == req[i]
  IN  /\ pc[i] = "checked" /\ r.op = "assign" /\ Answer(i)
      /\ RowsAreThere(r) /\ RowsAreNew(r)
      /\ user' = [u \in Users |-> IF u = r.user THEN Promoted(r) ELSE Demoted(r, u)]
      /\ UNCHANGED <<open, agency>>

\* What a committed assignment makes of the accounts.
LEMMA AssignedRows ==
  ASSUME AInv, NEW i \in Workers, Commits(i)
  PROVE  LET r == req[i]
         IN  /\ r.user \in Users /\ r.agency \in Agencies /\ r.previous \subseteq Users
             /\ IsAssignment(r, "checked") /\ Settled(i)
             /\ user' \in [Users -> UserRow]
             /\ user'[r.user].born
             /\ user'[r.user].agency = IF r.was.agency = r.agency THEN user[r.user].agency ELSE r.agency
             /\ user'[r.user].agency \in Agencies
             /\ user'[r.user].roles \subseteq user[r.user].roles \cup {"AGENCY_ADMIN"}
             /\ "AGENCY_ADMIN" \in user'[r.user].roles <=>
                  ("AGENCY_ADMIN" \in r.was.roles => "AGENCY_ADMIN" \in user[r.user].roles)
             /\ "AGENCY_ADMIN" \in user[r.user].roles => "AGENCY_ADMIN" \in r.was.roles
             /\ \A x \in Users \ {r.user} :
                  /\ user'[x].agency = user[x].agency /\ user'[x].born = user[x].born
                  /\ user'[x].roles \subseteq user[x].roles
                  /\ ~user[x].born => user'[x] = NoUser
                  /\ x \notin r.previous => user'[x].roles = user[x].roles
                  /\ x \in r.previous =>
                       /\ "AGENCY_ADMIN" \in user[x].roles /\ "AGENCY_ADMIN" \notin user'[x].roles
                       /\ user[x].born
<1>1. PICK r : r = req[i]
  OBVIOUS
<1>2. TypeOK /\ \A u \in Users : ~user[u].born => user[u] = NoUser
  BY DEF AInv, AccountsOK
<1>3. /\ r.user \in Users /\ r.agency \in Agencies /\ r.previous \subseteq Users
      /\ IsAssignment(r, "checked") /\ Settled(i)
      /\ r.was \in UserRow /\ r.awake \subseteq Users
  BY <1>1, <1>2 DEF Commits, AInv, RequestsOK, IsSound, IsRequest, TypeOK
<1>4. \A x \in Users : user'[x] = IF x = r.user THEN Promoted(r) ELSE Demoted(r, x)
  BY <1>1 DEF Commits
<1>5. /\ \A p \in Replaced(r) : "AGENCY_ADMIN" \in user[p].roles
      /\ "AGENCY_ADMIN" \in user[r.user].roles => "AGENCY_ADMIN" \in r.was.roles
  BY <1>1 DEF Commits, RowsAreThere, RowsAreNew
<1>6. r.was.agency = r.agency => user[r.user].agency \in Agencies
  BY <1>2, <1>3 DEF IsAssignment, Followed, TypeOK
<1>7. user[r.user] \in UserRow
  BY <1>2, <1>3 DEF TypeOK
<1>8. PICK given : given = (user[r.user].roles \ (r.was.roles \ {"AGENCY_ADMIN"}))
                             \cup (IF "AGENCY_ADMIN" \in r.was.roles THEN {} ELSE {"AGENCY_ADMIN"})
  OBVIOUS
<1>9. /\ given \subseteq GlobalRoles \cup BUSINESS_ROLES
      /\ given \subseteq user[r.user].roles \cup {"AGENCY_ADMIN"}
      /\ "AGENCY_ADMIN" \in given <=>
           ("AGENCY_ADMIN" \in r.was.roles => "AGENCY_ADMIN" \in user[r.user].roles)
  BY <1>7, <1>8 DEF UserRow, GlobalRoles, BUSINESS_ROLES, OPERATIONAL_ROLES
<1>10. user'[r.user] = Promoted(r)
  BY <1>3, <1>4
<1>11. /\ user'[r.user].born /\ user'[r.user].roles = given
       /\ user'[r.user].agency = IF r.was.agency = r.agency THEN user[r.user].agency ELSE r.agency
       /\ user'[r.user].active \in BOOLEAN
       /\ user'[r.user] = [born |-> TRUE, agency |-> user'[r.user].agency,
                           active |-> user'[r.user].active, roles |-> given]
  <2>1. PICK at, on : /\ at = IF r.was.agency = r.agency THEN user[r.user].agency ELSE r.agency
                      /\ on = IF r.was.born THEN user[r.user].active ELSE TRUE
    OBVIOUS
  <2>2. user'[r.user] = [born |-> TRUE, agency |-> at, active |-> on, roles |-> given]
    BY <1>8, <1>10, <2>1 DEF Promoted
  <2>3. user[r.user].active \in BOOLEAN
    BY <1>7 DEF UserRow
  <2>4. on \in BOOLEAN
    BY <2>1, <2>3
  <2>5. /\ user'[r.user].born = TRUE /\ user'[r.user].agency = at
        /\ user'[r.user].active = on /\ user'[r.user].roles = given
    BY <2>2
  <2>6. user'[r.user] = [born |-> TRUE, agency |-> user'[r.user].agency,
                         active |-> user'[r.user].active, roles |-> given]
    BY <2>2, <2>5
  <2> QED
    BY <2>1, <2>4, <2>5, <2>6
<1>12. user'[r.user] \in UserRow /\ user'[r.user].agency \in Agencies
  BY <1>3, <1>6, <1>9, <1>11 DEF UserRow
<1>13. ASSUME NEW x \in Users, x # r.user
       PROVE  /\ user'[x] \in UserRow
              /\ user'[x].agency = user[x].agency /\ user'[x].born = user[x].born
              /\ user'[x].roles \subseteq user[x].roles
              /\ ~user[x].born => user'[x] = NoUser
              /\ x \notin r.previous => user'[x].roles = user[x].roles
              /\ x \in r.previous =>
                   /\ "AGENCY_ADMIN" \in user[x].roles /\ "AGENCY_ADMIN" \notin user'[x].roles
                   /\ user[x].born
  <2>1. user[x] \in UserRow
    BY <1>2 DEF TypeOK
  <2>2. PICK on \in BOOLEAN : on = (user[x].active /\ x \notin r.awake)
    OBVIOUS
  <2>3. PICK kept : kept = IF x \in r.previous THEN user[x].roles \ {"AGENCY_ADMIN"} ELSE user[x].roles
    OBVIOUS
  <2>4. user'[x] = [user[x] EXCEPT !.roles = kept, !.active = on]
    BY <1>4, <1>13, <2>2, <2>3 DEF Demoted
  <2>5. x \in r.previous => "AGENCY_ADMIN" \in user[x].roles /\ user[x].born
    BY <1>2, <1>5, <1>13, NoRequestTyped DEF Replaced
  <2>6. ~user[x].born => user'[x] = NoUser
    <3>1. ~user[x].born => user[x] = NoUser
      BY <1>2
    <3>2. user[x] = NoUser => user[x].active = FALSE /\ user[x].roles = {}
      BY DEF NoUser
    <3>3. user[x] = NoUser => on = FALSE /\ kept = {}
      BY <2>2, <2>3, <3>2
    <3>4. user[x] = NoUser => user'[x] = [NoUser EXCEPT !.roles = {}, !.active = FALSE]
      BY <2>4, <3>3
    <3> QED
      BY <3>1, <3>4 DEF NoUser
  <2> QED
    BY <2>1, <2>3, <2>4, <2>5, <2>6 DEF UserRow
<1>14. user' \in [Users -> UserRow]
  <2>1. user' = [x \in Users |-> user'[x]]
    BY DEF Commits
  <2> QED
    BY <1>12, <1>13, <2>1
<1> QED
  BY <1>1, <1>3, <1>5, <1>9, <1>11, <1>12, <1>13, <1>14

LEMMA CommitKeeps ==
  ASSUME AInv, NEW i \in Workers, Commits(i)
  PROVE  AInv'
<1>1. PICK r : r = req[i]
  OBVIOUS
<1>2. PICK u, a, w, previous :
        u = r.user /\ a = r.agency /\ w = r.was /\ previous = r.previous
  OBVIOUS
<1>3. /\ u \in Users /\ a \in Agencies /\ previous \subseteq Users
      /\ IsAssignment(r, "checked") /\ Settled(i)
      /\ user' \in [Users -> UserRow]
  BY <1>1, <1>2, AssignedRows
<1>4. /\ user'[u].born
      /\ user'[u].agency = IF w.agency = a THEN user[u].agency ELSE a
      /\ user'[u].agency \in Agencies
      /\ user'[u].roles \subseteq user[u].roles \cup {"AGENCY_ADMIN"}
      /\ "AGENCY_ADMIN" \in user'[u].roles
           <=> ("AGENCY_ADMIN" \in w.roles => "AGENCY_ADMIN" \in user[u].roles)
      /\ "AGENCY_ADMIN" \in user[u].roles => "AGENCY_ADMIN" \in w.roles
  BY <1>1, <1>2, AssignedRows
<1>5. \A x \in Users \ {u} :
        /\ user'[x].agency = user[x].agency /\ user'[x].born = user[x].born
        /\ user'[x].roles \subseteq user[x].roles
        /\ ~user[x].born => user'[x] = NoUser
        /\ x \notin previous => user'[x].roles = user[x].roles
        /\ x \in previous => /\ "AGENCY_ADMIN" \in user[x].roles /\ "AGENCY_ADMIN" \notin user'[x].roles
                             /\ user[x].born
  BY <1>1, <1>2, AssignedRows
<1>6. /\ TypeOK /\ \A x \in Users : ~user[x].born => user[x] = NoUser
      /\ pc[i] = "checked" /\ r.op = "assign" /\ Answer(i) /\ UNCHANGED <<open, agency>>
      /\ contested' = contested
      /\ disputed \subseteq disputed' /\ disputed \subseteq Agencies /\ NoAgency \notin Agencies
  BY <1>1, ConstantsAssumption DEF Commits, AInv, AccountsOK, TypeOK, Answer
<1>7. /\ w.agency \in {NoAgency, a}
      /\ w.agency = a => user[u].agency = a \/ {a, user[u].agency} \subseteq disputed
      /\ \A p \in previous : user[p].agency = a \/ {a, user[p].agency} \subseteq disputed
      /\ a \notin disputed => (u \in previous <=> w.agency = a /\ "AGENCY_ADMIN" \in w.roles)
      /\ a \notin disputed /\ w.roles \cap BUSINESS_ROLES # {} => w.agency = a
  BY <1>1, <1>2, <1>3, <1>6 DEF Commits, IsAssignment, Followed, Settled, ReadAsAdmin
\* Whoever moves, moves between disputed agencies.
<1>8. user[u].agency # NoAgency /\ user[u].agency # user'[u].agency
        => {user[u].agency, user'[u].agency} \subseteq disputed'
  BY <1>3, <1>6 DEF Answer, Unsettled, Movers
<1>9. disputed' \subseteq Agencies
  <2>1. \A x \in Movers : user[x].agency \in Agencies /\ user'[x].agency \in Agencies
    BY <1>3, <1>4, <1>5, <1>6 DEF Movers, TypeOK, UserRow
  <2>2. \A k \in Overtaken(i) : req[k].agency \in Agencies
    BY DEF Overtaken, Reading, AInv, RequestsOK, IsSound, IsRequest
  <2> QED
    BY <1>1, <1>2, <1>3, <1>6, <2>1, <2>2 DEF Answer, Unsettled
<1>10. \A b \in Agencies \ disputed' : b # a => AdminsNext(b) = Admins(b)
  <2> SUFFICES ASSUME NEW b \in Agencies \ disputed', b # a, NEW x \in Users
               PROVE  user'[x].agency = b /\ "AGENCY_ADMIN" \in user'[x].roles
                        <=> user[x].agency = b /\ "AGENCY_ADMIN" \in user[x].roles
    BY DEF AdminsNext, Admins
  <2>1. CASE x = u
    <3>1. user[u].agency # b
      BY <1>4, <1>6, <1>7, <1>8, <2>1
    <3>2. user'[u].agency # b
      BY <1>4, <1>6, <1>7, <3>1
    <3> QED
      BY <2>1, <3>1, <3>2
  <2>2. CASE x # u /\ x \in previous
    BY <1>5, <1>6, <1>7, <2>2
  <2>3. CASE x # u /\ x \notin previous
    BY <1>5, <2>3
  <2> QED
    BY <2>1, <2>2, <2>3
<1>11. ASSUME a \notin disputed'
       PROVE  AdminsNext(a) = Admins(a) \/ AdminsNext(a) = {u}
  <2>1. /\ a \notin disputed /\ user'[u].agency = a
        /\ \A p \in previous : user[p].agency = a
        /\ \A p, q \in previous : p = q
        /\ \A x, y \in Admins(a) : x = y
        /\ previous = {} => Admins(a) = {}
    BY <1>1, <1>2, <1>3, <1>4, <1>6, <1>7, <1>8, <1>11 DEF Settled, AInv, AtMostOne
  <2>2. CASE u \in previous
    <3>1. \A x \in Users : x # u => user'[x].agency = user[x].agency /\ user'[x].roles = user[x].roles
      BY <1>5, <2>1, <2>2
    <3>2. user[u].agency = a
      BY <1>7, <2>1, <2>2
    <3>3. "AGENCY_ADMIN" \in user'[u].roles <=> "AGENCY_ADMIN" \in user[u].roles
      BY <1>4, <1>7, <2>1, <2>2
    <3>4. \A x \in Users : user'[x].agency = a /\ "AGENCY_ADMIN" \in user'[x].roles
                             <=> user[x].agency = a /\ "AGENCY_ADMIN" \in user[x].roles
      <4> SUFFICES ASSUME NEW x \in Users
                   PROVE  user'[x].agency = a /\ "AGENCY_ADMIN" \in user'[x].roles
                            <=> user[x].agency = a /\ "AGENCY_ADMIN" \in user[x].roles
        OBVIOUS
      <4>1. CASE x = u
        BY <2>1, <3>2, <3>3, <4>1
      <4>2. CASE x # u
        BY <3>1, <4>2
      <4> QED
        BY <4>1, <4>2
    <3> QED
      BY <3>4 DEF AdminsNext, Admins
  <2>3. CASE u \notin previous
    <3>1. "AGENCY_ADMIN" \notin w.roles
      BY <1>6, <1>7, <2>1, <2>3 DEF BUSINESS_ROLES
    <3>2. "AGENCY_ADMIN" \in user'[u].roles
      BY <1>4, <3>1
    <3>3. \A p \in previous : p \in Admins(a)
      BY <1>3, <1>5, <2>1, <2>3 DEF Admins
    <3>4. Admins(a) \subseteq previous
      BY <2>1, <3>3
    <3>5. \A x \in Users \ {u} : x \notin AdminsNext(a)
      BY <1>5, <3>4 DEF AdminsNext, Admins
    <3>6. u \in AdminsNext(a)
      BY <1>3, <2>1, <3>2 DEF AdminsNext
    <3>7. AdminsNext(a) \subseteq Users
      BY DEF AdminsNext
    <3> QED
      BY <3>5, <3>6, <3>7
  <2> QED
    BY <2>2, <2>3
<1>12. \A b \in Agencies \ disputed' :
         /\ AdminsNext(b) = Admins(b) \/ (Pending(i, "assign") /\ req[i].agency = b)
         /\ Admins(b) # {} => AdminsNext(b) # {}
         /\ \A x, y \in AdminsNext(b) : x = y
         /\ agency'[b].active => AdminsNext(b) # {}
  <2> SUFFICES ASSUME NEW b \in Agencies \ disputed'
               PROVE  /\ AdminsNext(b) = Admins(b) \/ (Pending(i, "assign") /\ req[i].agency = b)
                      /\ Admins(b) # {} => AdminsNext(b) # {}
                      /\ \A x, y \in AdminsNext(b) : x = y
                      /\ agency'[b].active => AdminsNext(b) # {}
    OBVIOUS
  <2>1. (\A x, y \in Admins(b) : x = y) /\ (agency[b].active => Admins(b) # {})
    BY <1>6 DEF AInv, AtMostOne
  <2>2. AdminsNext(b) = Admins(b) \/ (b = a /\ AdminsNext(b) = {u})
    BY <1>10, <1>11
  <2> QED
    BY <1>1, <1>2, <1>6, <2>1, <2>2 DEF Pending
<1>13. Keeps
  <2>1. ASSUME NEW x \in Users
        PROVE  /\ user[x].born => /\ user'[x].born
                                  /\ user'[x].roles \cap OPERATIONAL_ROLES \subseteq user[x].roles
               /\ \A b \in Agencies : user[x].agency = b \/ {b, user[x].agency} \subseteq disputed
                    => user'[x].agency = b \/ {b, user'[x].agency} \subseteq disputed'
    <3>1. CASE x = u
      BY <1>4, <1>6, <1>7, <1>8, <3>1 DEF OPERATIONAL_ROLES
    <3>2. CASE x # u
      BY <1>5, <1>6, <3>2
    <3> QED
      BY <3>1, <3>2
  <2> QED
    BY <1>6, <1>12, <2>1 DEF Keeps
\* Those still reading about the agency or the account are overtaken.
<1>14. KeepsReads
  <2>1. ASSUME NEW k \in Workers, Reading(k), user' # user, req[k].agency = a \/ req[k].user = u
        PROVE  {a, req[k].agency} \subseteq disputed'
    <3>1. k \in Overtaken(i)
      BY <1>1, <1>2, <1>6, <2>1 DEF Overtaken, Reading
    <3> QED
      BY <1>1, <1>2, <1>6, <2>1, <3>1 DEF Answer, Unsettled
  <2>2. ASSUME NEW k \in Workers, pc[k] = "row", user[req[k].user].agency = NoAgency
        PROVE  \/ user'[req[k].user].agency = NoAgency
               \/ {req[k].agency, user'[req[k].user].agency} \subseteq disputed'
    <3>1. req[k].user \in Users
      BY <2>2 DEF Reading, AInv, RequestsOK, IsSound, IsRequest
    <3>2. CASE req[k].user # u
      BY <1>5, <2>2, <3>1, <3>2
    <3>3. CASE req[k].user = u /\ user' = user
      BY <2>2, <3>3
    <3>4. CASE req[k].user = u /\ user' # user
      <4>1. user'[u].agency = a
        BY <1>4, <1>6, <1>7, <2>2, <3>4
      <4> QED
        BY <2>1, <2>2, <3>4, <4>1 DEF Reading
    <3> QED
      BY <3>2, <3>3, <3>4
  <2>3. ASSUME NEW k \in Workers, Reading(k), req[k].agency \notin disputed'
        PROVE  AdminsNext(req[k].agency) = Admins(req[k].agency)
    <3>1. req[k].agency \in Agencies
      BY <2>3 DEF Reading, AInv, RequestsOK, IsSound, IsRequest
    <3>2. CASE user' = user
      BY <3>2 DEF AdminsNext, Admins
    <3>3. CASE user' # user
      BY <1>10, <2>1, <2>3, <3>1, <3>3
    <3> QED
      BY <3>2, <3>3
  <2> QED
    BY <2>2, <2>3 DEF KeepsReads
<1>15. \A x \in Users : /\ ~user'[x].born => user'[x] = NoUser
                        /\ user'[x].roles \cap BUSINESS_ROLES # {} => user'[x].agency # NoAgency
  <2> SUFFICES ASSUME NEW x \in Users
               PROVE  /\ ~user'[x].born => user'[x] = NoUser
                      /\ user'[x].roles \cap BUSINESS_ROLES # {} => user'[x].agency # NoAgency
    OBVIOUS
  <2>1. user[x].roles \cap BUSINESS_ROLES # {} => user[x].agency # NoAgency
    BY <1>6 DEF TypeOK
  <2> QED
    BY <1>4, <1>5, <1>6, <2>1
<1>16. LinkedNext = Linked /\ OneOpenAgency'
  BY <1>6 DEF LinkedNext, Linked, Born, AInv, OneOpenAgency
<1> QED
  BY <1>3, <1>6, <1>9, <1>12, <1>13, <1>14, <1>15, <1>16, EndKeeps DEF TypeOK

LEMMA AssignKeeps ==
  ASSUME AInv, NEW i \in Workers, Assign(i)
  PROVE  AInv'
<1>1. pc[i] = "checked" /\ req[i].op = "assign" /\ Answer(i)
  BY DEF Assign
<1>2. CASE RowsAreThere(req[i]) /\ RowsAreNew(req[i])
  <2>1. Commits(i)
    BY <1>1, <1>2 DEF Assign, Commits
  <2> QED
    BY <2>1, CommitKeeps
<1>3. CASE ~(RowsAreThere(req[i]) /\ RowsAreNew(req[i]))
  BY <1>1, <1>3, NothingKeeps DEF Assign
<1> QED
  BY <1>2, <1>3

LEMMA StepKeeps == AInv /\ [Next]_vars => AInv'
<1> SUFFICES ASSUME AInv, [Next]_vars
             PROVE  AInv'
  OBVIOUS
<1>1. ASSUME NEW i \in Workers, Start(i)
      PROVE  AInv'
  BY <1>1, LoadPlaceKeeps, LoadAccountKeeps, LoadAssignKeeps, ConstantsAssumption DEF Start
<1>2. ASSUME NEW i \in Workers, Continue(i)
      PROVE  AInv'
  <2>1. ReadRoles(i) => AInv'
    <3>1. ReadRoles(i) /\ user[req[i].user].roles \cap GlobalRoles # {}
            => pc[i] # "idle" /\ Answer(i) /\ NothingWritten
      BY DEF ReadRoles
    <3> QED
      BY <1>2, <3>1, ReadRolesKeeps, NothingKeeps
  <2> QED
  BY <1>2, <2>1, ReadAdminsKeeps, ReadTheirRolesKeeps, CreateKeeps, ActivateKeeps, AssignKeeps, StaffKeeps, StatusKeeps, GrantKeeps, CloseKeeps
     DEF Continue
<1>3. CASE UNCHANGED vars
  BY <1>3 DEF vars, AInv, AccountsOK, TypeOK, RequestsOK, IsSound, IsRequest, IsAssignment, Followed,
     Settled, ReadAsAdmin, Reading, Pending, PlaceIsKept, AtMostOne, OneOpenAgency, Admins, Linked, Born
<1> QED
  BY <1>1, <1>2, <1>3, OutsideKeeps DEF Next

LEMMA AInvHolds == Spec => []AInv
  BY Initially, StepKeeps, PTL DEF Spec
-------------------------------------------------------------------------------
\* One administrator per agency at most, and one in service
\* (assign_agency_admin, set_agency_active), whatever requests overlap, except
\* where `disputed' says.
THEOREM OneAdministratorHolds == Spec => []OneAdministrator
<1>1. ASSUME AInv
      PROVE  OneAdministrator
  <2>1. ASSUME NEW a \in Agencies \ disputed
        PROVE  Cardinality(Admins(a)) <= 1 /\ (agency[a].active => Admins(a) # {})
    <3>1. (\A u, v \in Admins(a) : u = v) /\ (agency[a].active => Admins(a) # {})
      BY <1>1 DEF AInv, AtMostOne
    <3>2. CASE Admins(a) = {}
      BY <3>1, <3>2, FS_EmptySet
    <3>3. CASE Admins(a) # {}
      <4>1. PICK u : Admins(a) = {u}
        BY <3>1, <3>3
      <4> QED
        BY <3>1, <4>1, FS_Singleton
    <3> QED
      BY <3>2, <3>3
  <2> QED
    BY <1>1, <2>1 DEF AInv, AccountsOK, OneAdministrator
<1> QED
  BY <1>1, AInvHolds, PTL

\* No two agencies share a destination, and the destination of one stays active
\* (create_agency, update_agency, update_destination) but for the destinations
\* two requests met at.
THEOREM OneOpenAgencyHolds == Spec => []OneOpenAgency
<1>1. AInv => OneOpenAgency
  BY DEF AInv
<1> QED
  BY <1>1, AInvHolds, PTL

\* Whoever has a role at an agency that is not in dispute does not change to
\* another (assign_agency_admin, create_agency_user, update_agency_user).
THEOREM StaffKeepTheirAgencyHolds == Spec => StaffKeepTheirAgency
<1>1. ASSUME AInv, [Next]_vars, NEW u \in Users, user[u].roles \cap BUSINESS_ROLES # {},
             user[u].agency \notin disputed
      PROVE  user'[u].agency = user[u].agency
  <2>1. TypeOK /\ user[u].born
    BY <1>1, NoRequestTyped DEF AInv, AccountsOK
  <2>2. CASE user' = user
    BY <2>2
  <2>3. ASSUME NEW i \in Workers, Assign(i), user' # user
        PROVE  user'[u].agency = user[u].agency
    <3>1. Commits(i)
      BY <2>3 DEF Assign, Commits, NothingWritten
    <3>2. PICK r : r = req[i]
      OBVIOUS
    <3>3. CASE u = r.user
      <4>1. /\ "AGENCY_ADMIN" \in user[u].roles => "AGENCY_ADMIN" \in r.was.roles
            /\ user'[u].agency = IF r.was.agency = r.agency THEN user[u].agency ELSE r.agency
            /\ IsAssignment(r, "checked") /\ RowsAreNew(r)
        BY <1>1, <3>1, <3>2, <3>3, AssignedRows DEF Commits
      <4>2. r.was.born
        BY <2>1, <3>3, <4>1 DEF RowsAreNew
      <4>3. user[u].roles \cap BUSINESS_ROLES \subseteq r.was.roles
        BY <3>3, <4>1, <4>2 DEF IsAssignment, BUSINESS_ROLES
      <4>4. r.was.agency = r.agency
        BY <1>1, <3>3, <4>1, <4>3 DEF IsAssignment
      <4> QED
        BY <4>1, <4>4
    <3>4. CASE u # r.user
      BY <1>1, <3>1, <3>2, <3>4, AssignedRows
    <3> QED
      BY <3>3, <3>4
  <2>4. ASSUME NEW i \in Workers, Staff(i) \/ Status(i) \/ Grant(i)
        PROVE  user'[u].agency = user[u].agency
    <3>1. Staff(i) => user'[u].agency = user[u].agency
      BY <2>1 DEF Staff, NothingWritten, TypeOK
    <3>2. Status(i) \/ Grant(i) => user'[u].agency = user[u].agency
      BY <2>1 DEF Status, Grant, TypeOK, UserRow
    <3> QED
      BY <2>4, <3>1, <3>2
  <2>5. Seed => user'[u].agency = user[u].agency
    BY <2>1 DEF Seed, TypeOK, UserRow
  <2>6. \A i \in Workers : Start(i) => user' = user
    <3>1. \A i, at, r : Load(i, at, r) => user' = user
      BY DEF Load, Read, NothingWritten
    <3> QED
      BY <3>1 DEF Start, LoadCreate, LoadRelocate, LoadActivate, LoadAssign, LoadStaff, LoadStatus,
         LoadRole, LoadClose
  <2>7. \A i \in Workers : Create(i) \/ Relocate(i) \/ Activate(i) \/ Close(i) => user' = user
    BY DEF Create, Relocate, Activate, Close, NothingWritten
  <2>8. ASSUME NEW i \in Workers, Continue(i)
        PROVE  user'[u].agency = user[u].agency
    <3>1. ReadRoles(i) \/ ReadAdmins(i) \/ ReadTheirRoles(i) => user' = user
      BY DEF ReadRoles, ReadAdmins, ReadTheirRoles, Read, NothingWritten
    <3> QED
      BY <2>2, <2>3, <2>4, <2>7, <2>8, <3>1 DEF Continue
  <2>9. (\E d \in Destinations : Reopen(d)) \/ UNCHANGED vars => user' = user
    BY DEF Reopen, vars
  <2> QED
    BY <1>1, <2>2, <2>5, <2>6, <2>8, <2>9 DEF Next
<1>2. AInv /\ [Next]_vars =>
        [\A u \in Users : user[u].roles \cap BUSINESS_ROLES # {} /\ user[u].agency \notin disputed
           => user'[u].agency = user[u].agency]_vars
  BY <1>1
<1> QED
  BY <1>2, AInvHolds, PTL DEF Spec, StaffKeepTheirAgency
=============================================================================
