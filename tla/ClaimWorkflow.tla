--------------------------- MODULE ClaimWorkflow ---------------------------
(***************************************************************************)
(* Complaints about shipments, app/modules/claims: a customer or the staff *)
(* open a case, the staff of its agency investigate it, record a solution, *)
(* verify the payment of a monetary one and close the case; both add       *)
(* pictures.                                                               *)
(*                                                                         *)
(* Each element of Workers serves one request at a time.  A request loads  *)
(* the case, and later decides on the copy it loaded; the UPDATE names the *)
(* columns that differ from that copy, and is committed together with the  *)
(* events of the case.  An upload waits for the bytes of the picture       *)
(* between the two.  A status is never read again before it is written.    *)
(***************************************************************************)
EXTENDS FiniteSets

CONSTANTS
  Workers,         \* threads and coroutines that serve requests
  Claims,          \* identifiers of rows of the table reclamos
  Shipments,       \* shipments a case may be about
  Agencies,        \* agencies, in service or not
  ActiveAgencies,  \* those in service
  ShipmentAgency,  \* the agency of each shipment, NoAgency if it has none
  Users,           \* internal users
  RolesOf,         \* the active roles of each user
  Workplace,       \* the agency of each user, NoAgency if it has none
  NoAgency, NoClaim, Nobody

ASSUME ConstantsAssumption ==
  /\ Shipments # {} /\ Agencies # {}
  /\ ActiveAgencies \subseteq Agencies
  /\ NoAgency \notin Agencies
  /\ NoClaim \notin Claims
  /\ Nobody \notin Users
  /\ ShipmentAgency \in [Shipments -> Agencies \cup {NoAgency}]
  /\ Workplace \in [Users -> Agencies \cup {NoAgency}]

VARIABLES
  claim,        \* the committed row of each case
  last,         \* the status its last event that names one leads to
  shown,        \* the same of the events the customer may see, if it is one of Solved
  proofs,       \* cases with a picture of kind COMPROBANTE_PAGO
  traces,       \* the shipments whose history the staff of an agency wrote on by hand
  pc,           \* where each worker is in its request
  req,          \* the request, with the row as its session loaded it
  checked,      \* history: cases whose present solution was verified as paid
  late,         \* history: settled cases that got evidence of the customer
  overlapped    \* history: cases two requests were ever busy with at once

rows == <<claim, last, shown, proofs, traces, checked, late>>
vars == <<rows, pc, req, overlapped>>

------------------------------------------------------------------------------
\* The statuses, and for each those that an event of the staff may lead to.
STATUS_TRANSITIONS ==
  [RECIBIDO              |-> {"EN_REVISION", "CERRADO"},
   EN_REVISION           |-> {"ESPERANDO_INFORMACION", "INVESTIGANDO", "PROPUESTA_ENVIADA",
                              "PAGO_POR_VERIFICAR", "NO_PROCEDE", "CERRADO"},
   ESPERANDO_INFORMACION |-> {"EN_REVISION", "INVESTIGANDO", "CERRADO"},
   INVESTIGANDO          |-> {"ESPERANDO_INFORMACION", "PROPUESTA_ENVIADA",
                              "PAGO_POR_VERIFICAR", "NO_PROCEDE", "CERRADO"},
   PROPUESTA_ENVIADA     |-> {"EN_REVISION", "PAGO_POR_VERIFICAR", "RESUELTO", "CERRADO"},
   PAGO_POR_VERIFICAR    |-> {"RESUELTO", "INVESTIGANDO"},
   RESUELTO              |-> {"CERRADO", "INVESTIGANDO"},
   NO_PROCEDE            |-> {"CERRADO", "EN_REVISION"},
   CERRADO               |-> {}]

Statuses == DOMAIN STATUS_TRANSITIONS
Unborn == "NONE"

\* Mutant of Settled: a closed case admits another solution.
SettledUnlessClosed == {"RESUELTO", "NO_PROCEDE"}

\* Statuses in which a case takes no solution and no evidence of the customer.
Settled == {"RESUELTO", "CERRADO", "NO_PROCEDE"}

\* Statuses of a case that has a solution to be paid or that is accepted.
Solved == {"PAGO_POR_VERIFICAR", "RESUELTO"}

Kinds == {"EVIDENCIA_CLIENTE", "COMPROBANTE_PAGO", "OTRO"}

\* The columns the guards and the properties read.  `proof' stands for the
\* amount, the method and the identifier of the proof of payment, which are set
\* and cleared together.
Row ==
  [status : Statuses \cup {Unborn}, shipment : Shipments, agency : Agencies,
   type : {"NULL", "MONETARIA", "NO_MONETARIA"}, proof : BOOLEAN,
   resolvedBy : Users \cup {Nobody}]

NewRow(status, s, g) ==
  [status |-> status, shipment |-> s, agency |-> g, type |-> "NULL", proof |-> FALSE,
   resolvedBy |-> Nobody]

NoRow == NewRow(Unborn, CHOOSE s \in Shipments : TRUE, CHOOSE g \in Agencies : TRUE)

Operations == {"event", "resolve", "verify", "attach", "evidence"}

NoRequest == [op |-> "event", user |-> Nobody, claim |-> NoClaim, seen |-> NoRow]

TypeOK ==
  /\ claim \in [Claims -> Row]
  /\ last \in [Claims -> Statuses \cup {Unborn}] /\ shown \in [Claims -> Solved \cup {Unborn}]
  /\ \A c \in Claims : claim[c].status = Unborn => last[c] = Unborn /\ c \notin proofs
  /\ proofs \cup checked \cup late \cup overlapped \subseteq Claims
  /\ traces \subseteq Shipments \X Agencies
  /\ pc \in [Workers -> {"idle", "loaded", "uploading"}]
  /\ req \in [Workers -> [op : Operations, user : Users \cup {Nobody},
                          claim : Claims \cup {NoClaim}, seen : Row]]
  /\ \A i \in Workers : pc[i] # "idle" => req[i].claim \in Claims
------------------------------------------------------------------------------
GlobalRoles == {"ADMIN_GENERAL", "DEVELOPER"}
BusinessRoles == {"AGENCY_ADMIN", "SECRETARIA"}

IsGlobalAdmin(u) == RolesOf[u] \cap GlobalRoles # {}
HasBusinessRole(u) == RolesOf[u] \cap BusinessRoles # {}

\* get_current_active_user: the staff need an agency, and all but its
\* administrator an agency in service.
Admitted(u) ==
  /\ RolesOf[u] \cap {"AGENCY_ADMIN", "SECRETARIA", "ESTIBA"} # {} => Workplace[u] # NoAgency
  /\ RolesOf[u] \cap {"SECRETARIA", "ESTIBA"} # {} => Workplace[u] \in ActiveAgencies

\* The roles that carry the permission of an operation.
RolesWith(op) ==
  IF op \in {"resolve", "verify"} THEN GlobalRoles \cup {"AGENCY_ADMIN"}
                                  ELSE GlobalRoles \cup BusinessRoles

Permits(u, op) == Admitted(u) /\ RolesOf[u] \cap RolesWith(op) # {}

\* get_scoped_claim: a global administrator names the agency of the case.
InScope(u, c) == IsGlobalAdmin(u) \/ (HasBusinessRole(u) /\ Workplace[u] = claim[c].agency)
------------------------------------------------------------------------------
Init ==
  /\ claim = [c \in Claims |-> NoRow]
  /\ last = [c \in Claims |-> Unborn] /\ shown = last
  /\ proofs = {}
  /\ traces = {}
  /\ pc = [i \in Workers |-> "idle"]
  /\ req = [i \in Workers |-> NoRequest]
  /\ checked = {}
  /\ late = {}
  /\ overlapped = {}

At(i, point) == pc' = [pc EXCEPT ![i] = point]

EndRequest(i) ==
  /\ At(i, "idle")
  /\ req' = [req EXCEPT ![i] = NoRequest]
  /\ UNCHANGED overlapped

\* The case, with an event that names no status; a shipment that has an agency
\* is only claimed there, one without at any.
Open(c, s, g) ==
  /\ claim[c].status = Unborn
  /\ ShipmentAgency[s] \in {g, NoAgency}
  /\ claim' = [claim EXCEPT ![c] = NewRow("RECIBIDO", s, g)]
  /\ UNCHANGED <<last, shown, proofs, traces, checked, late, pc, req, overlapped>>

\* create_public_claim
CreatePublicClaim(c, s, g) ==
  /\ g \in ActiveAgencies
  /\ Open(c, s, g)

\* create_in_person_claim, at the agency of the user or at the one a global
\* administrator names; it may be out of service.
CreateInPersonClaim(c, s, g) ==
  /\ \E u \in Users : Permits(u, "create") /\ (IsGlobalAdmin(u) \/ Workplace[u] = g)
  /\ Open(c, s, g)

Busy(c) == {j \in Workers : pc[j] # "idle" /\ req[j].claim = c}

\* The copy in the session; an upload uses neither it nor its user afterwards.
Load(i, op, u, c) ==
  /\ pc[i] = "idle"
  /\ claim[c].status # Unborn
  /\ LET seen == IF op \in {"attach", "evidence"} THEN NoRow ELSE claim[c]
     IN  req' = [req EXCEPT ![i] = [op |-> op, user |-> u, claim |-> c, seen |-> seen]]
  /\ overlapped' = IF Busy(c) = {} THEN overlapped ELSE overlapped \cup {c}
  /\ UNCHANGED rows

\* The endpoints of the staff, up to get_scoped_claim.
LoadScopedClaim(i, op, u, c) ==
  /\ op # "evidence"
  /\ Permits(u, op)
  /\ InScope(u, c)
  /\ Load(i, op, IF op = "attach" THEN Nobody ELSE u, c)
  /\ At(i, IF op = "attach" THEN "uploading" ELSE "loaded")

\* Mutant of LoadPublicClaim: the customer adds to a settled case.
LoadPublicClaimSettled(i, c) ==
  /\ Load(i, "evidence", Nobody, c)
  /\ At(i, "uploading")

\* upload_public_claim_evidence_endpoint, up to the await of the body.
LoadPublicClaim(i, c) ==
  /\ claim[c].status \notin Settled
  /\ Load(i, "evidence", Nobody, c)
  /\ At(i, "uploading")

Running(i, op) == pc[i] = "loaded" /\ req[i].op = op

Column(stored, loaded, assigned) == IF assigned = loaded THEN stored ELSE assigned

\* The row after the UPDATE of a session that loaded `loaded' and assigned
\* `assigned', when the table has `stored'.
Merge(stored, loaded, assigned) ==
  [k \in DOMAIN stored |-> Column(stored[k], loaded[k], assigned[k])]

Tell(c, status, visible) ==
  /\ last' = [last EXCEPT ![c] = status]
  /\ shown' = IF visible THEN [shown EXCEPT ![c] = IF status \in Solved THEN status ELSE Unborn]
              ELSE shown

\* Mutant of Save: the event is made before the status is assigned.
SaveEventFirst(i, assigned, visible) ==
  LET c == req[i].claim
  IN  /\ claim' = [claim EXCEPT ![c] = Merge(@, req[i].seen, assigned)]
      /\ Tell(c, req[i].seen.status, visible)
      /\ EndRequest(i)
      /\ UNCHANGED <<proofs, traces, late>>

\* UPDATE, the events with the status, and COMMIT; `visible' if the customer may
\* see one of them.
Save(i, assigned, visible) ==
  LET c == req[i].claim
  IN  /\ claim' = [claim EXCEPT ![c] = Merge(@, req[i].seen, assigned)]
      /\ Tell(c, assigned.status, visible)
      /\ EndRequest(i)
      /\ UNCHANGED <<proofs, traces, late>>

\* Mutant of ByEvent: an event can also mark a payment as made.
ByEventResolving(u) ==
  {"RECIBIDO", "EN_REVISION", "ESPERANDO_INFORMACION", "INVESTIGANDO", "RESUELTO"}
    \cup IF RolesOf[u] \cap (GlobalRoles \cup {"AGENCY_ADMIN"}) # {}
         THEN {"NO_PROCEDE", "CERRADO"} ELSE {}

\* The statuses a user may give by an event.
ByEvent(u) ==
  {"RECIBIDO", "EN_REVISION", "ESPERANDO_INFORMACION", "INVESTIGANDO"}
    \cup IF RolesOf[u] \cap (GlobalRoles \cup {"AGENCY_ADMIN"}) # {}
         THEN {"NO_PROCEDE", "CERRADO"} ELSE {}

\* add_claim_event that changes the status; who makes it says whether the
\* customer may see it, and by default not ...
AddClaimEvent(i, to, visible) ==
  /\ Running(i, "event")
  /\ to \in ByEvent(req[i].user)
  /\ to \in STATUS_TRANSITIONS[req[i].seen.status]
  /\ Save(i, [req[i].seen EXCEPT !.status = to], visible)
  /\ UNCHANGED checked

\* ... or only adds a note, and a request that is refused, whose input is not
\* valid, or whose process stops: nothing is committed.
FinishWithoutUpdate(i) ==
  /\ pc[i] # "idle"
  /\ EndRequest(i)
  /\ UNCHANGED rows

Resolves(i) == Running(i, "resolve") /\ req[i].seen.status \notin Settled

\* The attachment the request names is a proof of payment of this very case.
HasProof(c) == c \in proofs

\* save_claim_resolution, MONETARIA: the payment waits to be verified.
ResolveWithPayment(i) ==
  /\ Resolves(i)
  /\ HasProof(req[i].claim)
  /\ Save(i, [req[i].seen EXCEPT !.status = "PAGO_POR_VERIFICAR", !.type = "MONETARIA",
                                 !.proof = TRUE], TRUE)
  /\ checked' = checked \ {req[i].claim}

\* save_claim_resolution, NO_MONETARIA: the case is resolved at once.
ResolveWithoutPayment(i) ==
  /\ Resolves(i)
  /\ Save(i, [req[i].seen EXCEPT !.status = "RESUELTO", !.type = "NO_MONETARIA",
                                 !.proof = FALSE, !.resolvedBy = req[i].user], TRUE)
  /\ checked' = checked \ {req[i].claim}

Verifies(i) ==
  /\ Running(i, "verify")
  /\ req[i].seen.status = "PAGO_POR_VERIFICAR"
  /\ req[i].seen.type = "MONETARIA"

\* verify_claim_payment, verified ...
VerifyPayment(i) ==
  /\ Verifies(i)
  /\ Save(i, [req[i].seen EXCEPT !.status = "RESUELTO", !.resolvedBy = req[i].user], TRUE)
  /\ checked' = checked \cup {req[i].claim}

\* ... or not: the solution stays on record.
RejectPayment(i) ==
  /\ Verifies(i)
  /\ Save(i, [req[i].seen EXCEPT !.status = "INVESTIGANDO"], TRUE)
  /\ UNCHANGED checked

\* save_attachment; the status is not read again after the await.
SaveAttachment(i, kind) ==
  LET c == req[i].claim
  IN  /\ pc[i] = "uploading"
      /\ req[i].op = "evidence" => kind = "EVIDENCIA_CLIENTE"
      /\ proofs' = IF kind = "COMPROBANTE_PAGO" THEN proofs \cup {c} ELSE proofs
      /\ late' = IF req[i].op = "evidence" /\ claim[c].status \in Settled
                 THEN late \cup {c} ELSE late
      /\ EndRequest(i)
      /\ UNCHANGED <<claim, last, shown, traces, checked>>

\* A shipment of the agency, or one without agency that a case ties to it.
Traceable(s, g) ==
  \/ ShipmentAgency[s] = g
  \/ ShipmentAgency[s] = NoAgency
       /\ \E c \in Claims : /\ claim[c].status # Unborn
                            /\ claim[c].shipment = s
                            /\ claim[c].agency = g

\* add_shipment_trace_endpoint, for the staff of an agency; what a global
\* administrator writes needs no case and is not kept here.
AddShipmentTrace(u, s) ==
  /\ Permits(u, "trace")
  /\ ~IsGlobalAdmin(u)
  /\ Traceable(s, Workplace[u])
  /\ traces' = traces \cup {<<s, Workplace[u]>>}
  /\ UNCHANGED <<claim, last, shown, proofs, checked, late, pc, req, overlapped>>
------------------------------------------------------------------------------
Step(i) ==
  \/ \E to \in Statuses, visible \in BOOLEAN : AddClaimEvent(i, to, visible)
  \/ FinishWithoutUpdate(i)
  \/ ResolveWithPayment(i)
  \/ ResolveWithoutPayment(i)
  \/ VerifyPayment(i)
  \/ RejectPayment(i)
  \/ \E kind \in Kinds : SaveAttachment(i, kind)

Next ==
  \/ \E c \in Claims, s \in Shipments, g \in Agencies :
       CreatePublicClaim(c, s, g) \/ CreateInPersonClaim(c, s, g)
  \/ \E i \in Workers, op \in Operations, u \in Users, c \in Claims :
       LoadScopedClaim(i, op, u, c)
  \/ \E i \in Workers, c \in Claims : LoadPublicClaim(i, c)
  \/ \E i \in Workers : Step(i)
  \/ \E u \in Users, s \in Shipments : AddShipmentTrace(u, s)

Spec == Init /\ [][Next]_vars
------------------------------------------------------------------------------
Alone == Claims \ overlapped

\* The history the staff read leads to the status of a case: its last event that
\* names a status names that of the row, which is RECIBIDO if there is none.  It
\* needs the requests for the case not to overlap: a second monetary solution
\* recorded on a stale copy announces PAGO_POR_VERIFICAR and writes no status
\* (Column).
HistoryLeadsToStatus ==
  \A c \in Alone : \/ claim[c].status = last[c]
                   \/ claim[c].status = "RECIBIDO" /\ last[c] = Unborn

\* The customer reads the events that are visible only, and a status the staff
\* gave by an event need not be.  But a case that has its solution tells the
\* customer of one, however requests overlap, and of the step the case is at if
\* they never did (save_claim_resolution, verify_claim_payment).
SolutionsAreShown ==
  \A c \in Claims :
    claim[c].status \in Solved =>
      /\ shown[c] \in Solved
      /\ c \in Alone => shown[c] = claim[c].status

\* The events of a case agree with its row, those the staff read and those the
\* customer reads.
EventsAgree == TypeOK /\ HistoryLeadsToStatus /\ SolutionsAreShown

\* A monetary case counts as resolved only when the payment of its present
\* solution was verified, also after it was reopened and solved again
\* (verify_claim_payment; payment_verified_by is never cleared).
ResolvedWasVerified ==
  \A c \in Alone :
    claim[c].status = "RESUELTO" /\ claim[c].type = "MONETARIA" => c \in checked

\* The amount and the proof of payment on record belong to the solution on
\* record, however often solutions replaced each other (save_claim_resolution).
ProofMatchesType == \A c \in Alone : claim[c].proof <=> claim[c].type = "MONETARIA"

\* However requests overlap, a monetary solution has a proof of payment of its
\* own case, and a resolved case names a resolver who had the permission for it.
ResolvedByAdministrator ==
  \A c \in Claims :
    /\ claim[c].type = "MONETARIA" => c \in proofs
    /\ claim[c].status = "RESUELTO" =>
         /\ claim[c].resolvedBy # Nobody
         /\ RolesOf[claim[c].resolvedBy] \cap (GlobalRoles \cup {"AGENCY_ADMIN"}) # {}

\* The solution on record is sound: verified if it is resolved, with the proof
\* that belongs to it, by somebody who may record solutions.
SolutionIsSound == ResolvedWasVerified /\ ProofMatchesType /\ ResolvedByAdministrator

\* A settled case gets no more evidence of the customer, unless it was settled
\* while the picture was on its way (the await of the body).
EvidenceWhileOpen == late \subseteq overlapped

\* The staff of an agency write on the public history of a shipment that has no
\* agency only when a case ties it to theirs (add_shipment_trace_endpoint).
TracesAreTied ==
  \A t \in traces :
    \/ ShipmentAgency[t[1]] = t[2]
    \/ \E c \in Claims : /\ claim[c].status # Unborn
                         /\ claim[c].shipment = t[1]
                         /\ claim[c].agency = t[2]

\* Who has no say in a case or a shipment leaves nothing on its record: neither
\* the customer after the case is settled nor the staff of an agency without a
\* case.
RecordsAreGuarded == EvidenceWhileOpen /\ TracesAreTied

\* A closed case is frozen: its row never changes again.  It needs the requests
\* for the case not to overlap: one that loaded it before reopens it.
ClosedIsFrozen ==
  [][\A c \in Claims \ overlapped' :
       claim[c].status = "CERRADO" => claim'[c] = claim[c]]_vars
==============================================================================
