--------------------------- MODULE MCAgencyStaff ---------------------------
(* AgencyStaff for TLC: a technical account and one without a role exist at  *)
(* the start; the other accounts can be created.  Two agencies are explored  *)
(* with one more account and one assignment at a time, and one agency with   *)
(* two more accounts and two assignments, which is what three candidates for *)
(* one post need.  Three threads are explored from a later state, two        *)
(* agencies of which one is in service with its administrator, and with      *)
(* assignments of the accounts there are.  An initial state chooses, so that *)
(* the three spaces add up instead of multiplying.                           *)
EXTENDS AgencyStaff, TLC

CONSTANTS technical, plain

VARIABLE scope

StartRoles == [u \in {technical, plain} |-> IF u = technical THEN {"DEVELOPER"} ELSE {}]

\* Agency a is in service at destination d, with the administrator u.
LaterInit(a, d, u) ==
  /\ open = Destinations
  /\ agency \in {f \in [Agencies -> [dest : Destinations, active : BOOLEAN]] :
                   /\ f[a].dest = d
                   /\ \A b \in Agencies : (f[b].active <=> b = a) /\ (f[b].dest = d <=> b = a)}
  /\ user = [v \in Users |->
               CASE v \in DOMAIN InitialRoles ->
                      [born |-> TRUE, agency |-> NoAgency, active |-> TRUE, roles |-> InitialRoles[v]]
                 [] v = u -> [born |-> TRUE, agency |-> a, active |-> TRUE, roles |-> {"AGENCY_ADMIN"}]
                 [] OTHER -> NoUser]
  /\ pc = [i \in Workers |-> "idle"]
  /\ req = [i \in Workers |-> NoRequest]
  /\ disputed = {}
  /\ contested = {}

MCInit ==
  \/ scope \in {"wide", "narrow"} /\ Init
  \/ /\ scope = "three"
     /\ \E a \in Agencies, d \in Destinations, u \in Users \ {technical, plain} : LaterInit(a, d, u)

Asked == {i \in Workers : pc[i] # "idle"}

MCNext == Next /\ UNCHANGED scope /\ (scope # "three" => Cardinality(Asked') <= 2)
MCSpec == MCInit /\ [][MCNext]_<<vars, scope>>

\* Bound: the states whose successors are explored.
WithinScope ==
  CASE scope = "wide" -> /\ Cardinality({u \in Users : user[u].born \/ \E i \in Asked : req[i].user = u}) <= 3
                         /\ user[plain].agency # NoAgency => user[plain].roles \cap GlobalRoles = {}
                         /\ Cardinality({i \in Asked : req[i].op = "assign"}) <= 1
    [] scope = "narrow" -> /\ open = Destinations
                           /\ Cardinality(Linked) <= 1
                           /\ user[plain].roles \cap GlobalRoles = {}
                           /\ \A i \in Asked : req[i].op \in {"create", "assign"}
    [] scope = "three" -> /\ disputed # Agencies
                          /\ \A i \in Asked : req[i].op = "assign" /\ req[i].was.born

Symmetry == Permutations(Workers) \cup Permutations(Agencies) \cup Permutations(Destinations)
              \cup Permutations(Users \ {technical, plain})
=============================================================================
