------------------------- MODULE ClaimWorkflow_proofs -------------------------
(***************************************************************************)
(* What holds of ClaimWorkflow for any number of threads, cases, shipments *)
(* and agencies, and any users with any roles: a case announces the status *)
(* it has, its solution is sound, nobody without a say writes on it, and a *)
(* closed one stays as it is.                                              *)
(***************************************************************************)
EXTENDS ClaimWorkflow, TLAPS

MaySolve(u) == RolesOf[u] \cap (GlobalRoles \cup {"AGENCY_ADMIN"}) # {}

\* What a request that is under way carries.
IsRequest(i) ==
  LET r == req[i]
  IN  /\ r.claim \in Claims /\ claim[r.claim].status # Unborn
      /\ pc[i] = "loaded" =>
           /\ r.op \in {"event", "resolve", "verify"}
           /\ r.user \in Users /\ Permits(r.user, r.op)
           /\ r.seen.status # Unborn
      /\ pc[i] = "uploading" => r.op \in {"attach", "evidence"}

\* As long as no two requests are busy with a case at once, the one that is has
\* its row as it is in the table.
Current(i) ==
  LET c == req[i].claim
  IN  c \notin overlapped =>
        /\ \A k \in Busy(c) : k = i
        /\ pc[i] = "loaded" => req[i].seen = claim[c]
        /\ req[i].op = "evidence" => claim[c].status \notin Settled

\* The resolver of a case may be replaced and is never cleared, so the copy a
\* request carries, however old, names one only if the row does.
ResolversStand ==
  /\ \A c \in Claims : claim[c].resolvedBy # Nobody => MaySolve(claim[c].resolvedBy)
  /\ \A i \in Workers :
       pc[i] = "loaded" /\ req[i].seen.resolvedBy # Nobody => claim[req[i].claim].resolvedBy # Nobody

CInv ==
  /\ EventsAgree
  /\ \A i \in Workers : pc[i] # "idle" => IsRequest(i) /\ Current(i)
  /\ ResolversStand
  /\ SolutionIsSound
  /\ RecordsAreGuarded
-------------------------------------------------------------------------------
LEMMA RowsExist ==
  /\ Shipments # {} /\ Agencies # {}
  /\ NoRow \in Row
  /\ NoRow.status = Unborn /\ NoRow.resolvedBy = Nobody /\ NoRow.type = "NULL" /\ ~NoRow.proof
<1>1. (CHOOSE s \in Shipments : TRUE) \in Shipments /\ (CHOOSE g \in Agencies : TRUE) \in Agencies
  BY ConstantsAssumption
<1> QED
  BY <1>1, ConstantsAssumption DEF NoRow, NewRow, Row

LEMMA StatusNames ==
  /\ Statuses = {"RECIBIDO", "EN_REVISION", "ESPERANDO_INFORMACION", "INVESTIGANDO",
                 "PROPUESTA_ENVIADA", "PAGO_POR_VERIFICAR", "RESUELTO", "NO_PROCEDE", "CERRADO"}
  /\ Unborn \notin Statuses
  /\ Settled \subseteq Statuses
  /\ STATUS_TRANSITIONS["CERRADO"] = {}
  /\ Solved \subseteq Statuses /\ "RECIBIDO" \notin Solved
  BY DEF Statuses, STATUS_TRANSITIONS, Unborn, Settled, Solved

LEMMA EventsMove == \A s \in Statuses : s \notin STATUS_TRANSITIONS[s]
  BY DEF Statuses, STATUS_TRANSITIONS

\* What a user may do by an event leaves the payment of a case alone.
LEMMA EventsSettleNothing ==
  ASSUME NEW u, NEW to \in ByEvent(u)
  PROVE  to \in Statuses /\ to \notin {"RESUELTO", "PAGO_POR_VERIFICAR", Unborn}
  BY StatusNames DEF ByEvent, Unborn

\* The row after an UPDATE, column by column.
LEMMA MergeFields ==
  ASSUME NEW stored \in Row, NEW loaded \in Row, NEW assigned \in Row
  PROVE  LET m == Merge(stored, loaded, assigned)
         IN  /\ m \in Row
             /\ m = [status |-> Column(stored.status, loaded.status, assigned.status),
                     shipment |-> Column(stored.shipment, loaded.shipment, assigned.shipment),
                     agency |-> Column(stored.agency, loaded.agency, assigned.agency),
                     type |-> Column(stored.type, loaded.type, assigned.type),
                     proof |-> Column(stored.proof, loaded.proof, assigned.proof),
                     resolvedBy |->
                       Column(stored.resolvedBy, loaded.resolvedBy, assigned.resolvedBy)]
             /\ stored = loaded => m = assigned
<1>1. DOMAIN stored = {"status", "shipment", "agency", "type", "proof", "resolvedBy"}
  BY DEF Row
<1> QED
  BY <1>1 DEF Merge, Row, Column

LEMMA Initially == Init => CInv
<1> SUFFICES ASSUME Init
             PROVE  CInv
  OBVIOUS
<1>1. TypeOK
  BY RowsExist, StatusNames DEF Init, TypeOK, NoRequest, Operations
<1>2. EventsAgree /\ ResolversStand /\ SolutionIsSound /\ RecordsAreGuarded
  BY <1>1, RowsExist DEF Init, EventsAgree, HistoryLeadsToStatus, SolutionsAreShown, Solved,
     ResolversStand, SolutionIsSound, ResolvedWasVerified, ProofMatchesType,
     ResolvedByAdministrator, RecordsAreGuarded, EvidenceWhileOpen, TracesAreTied, Alone, Unborn
<1> QED
  BY <1>1, <1>2 DEF Init, CInv
-------------------------------------------------------------------------------
(* The table as an UPDATE leaves it, under the conditions every endpoint meets. *)

Updates(i, a, visible) ==
  LET c == req[i].claim
      seen == req[i].seen
  IN  /\ pc[i] = "loaded"
      /\ a \in Row /\ a.status \in Statuses
      /\ a.shipment = seen.shipment /\ a.agency = seen.agency
      /\ a.type = "MONETARIA" => a.type = seen.type \/ c \in proofs
      /\ a.resolvedBy = seen.resolvedBy \/ (a.resolvedBy = req[i].user /\ MaySolve(req[i].user))
      /\ a.status = "RESUELTO" => a.resolvedBy = req[i].user /\ MaySolve(req[i].user)
      /\ IF a.status \in Solved THEN visible ELSE a.status # seen.status
      /\ Save(i, a, visible)
      /\ checked' \subseteq Claims
      /\ \A d \in Claims \ {c} : d \in checked' <=> d \in checked
      /\ c \notin overlapped =>
           /\ a.status = "RESUELTO" /\ a.type = "MONETARIA" => c \in checked'
           /\ a.proof <=> a.type = "MONETARIA"

\* No other request is busy with the case of a request that has it for itself.
LEMMA OthersAreElsewhere ==
  ASSUME CInv, NEW i \in Workers, pc[i] # "idle", NEW k \in Workers \ {i}, pc[k] # "idle",
         req[k].claim = req[i].claim
  PROVE  req[i].claim \in overlapped
<1>1. k \in Busy(req[i].claim) /\ Current(i)
  BY DEF Busy, CInv
<1> QED
  BY <1>1 DEF Current

LEMMA SaveKeeps ==
  ASSUME CInv, NEW i \in Workers, NEW a, NEW visible, Updates(i, a, visible)
  PROVE  CInv'
<1> DEFINE c == req[i].claim
<1> DEFINE m == Merge(claim[c], req[i].seen, a)
<1>1. /\ TypeOK /\ c \in Claims /\ req[i].seen \in Row /\ claim[c] \in Row /\ a \in Row
      /\ IsRequest(i) /\ Current(i)
  BY DEF CInv, EventsAgree, TypeOK, Updates
<1>2. /\ m \in Row
      /\ m = [status |-> Column(claim[c].status, req[i].seen.status, a.status),
              shipment |-> Column(claim[c].shipment, req[i].seen.shipment, a.shipment),
              agency |-> Column(claim[c].agency, req[i].seen.agency, a.agency),
              type |-> Column(claim[c].type, req[i].seen.type, a.type),
              proof |-> Column(claim[c].proof, req[i].seen.proof, a.proof),
              resolvedBy |-> Column(claim[c].resolvedBy, req[i].seen.resolvedBy, a.resolvedBy)]
      /\ claim[c] = req[i].seen => m = a
  BY <1>1, MergeFields
<1>3. /\ claim' = [claim EXCEPT ![c] = m]
      /\ last' = [last EXCEPT ![c] = a.status]
      /\ shown' = IF visible THEN [shown EXCEPT ![c] = IF a.status \in Solved THEN a.status ELSE Unborn]
                  ELSE shown
      /\ pc' = [pc EXCEPT ![i] = "idle"] /\ req' = [req EXCEPT ![i] = NoRequest]
      /\ UNCHANGED <<proofs, traces, late, overlapped>>
  BY DEF Updates, Save, Tell, EndRequest, At
<1> HIDE DEF m
<1>4. m.status \in {claim[c].status, a.status} /\ m.status # Unborn
  BY <1>1, <1>2, StatusNames DEF Column, Updates, IsRequest
<1>5. m.shipment = claim[c].shipment /\ m.agency = claim[c].agency
  BY <1>1, <1>2 DEF Column, Updates
<1>6. c \notin overlapped => m = a
  BY <1>1, <1>2 DEF Current, Updates
<1>7. TypeOK'
  BY <1>1, <1>2, <1>3, <1>4, RowsExist, StatusNames DEF TypeOK, Updates, NoRequest, Operations
<1>8. EventsAgree'
  <2>1. HistoryLeadsToStatus'
    BY <1>1, <1>3, <1>6 DEF CInv, EventsAgree, HistoryLeadsToStatus, Alone, TypeOK
  <2>2. m.status \in Solved =>
          /\ shown'[c] \in Solved
          /\ c \notin overlapped => shown'[c] = m.status
    <3>1. CASE a.status \in Solved
      BY <1>1, <1>3, <1>6, <3>1 DEF Updates, TypeOK
    <3>2. CASE a.status \notin Solved
      BY <1>1, <1>2, <3>2 DEF Updates, Column
    <3> QED
      BY <3>1, <3>2
  <2>3. SolutionsAreShown'
    BY <1>1, <1>3, <2>2 DEF CInv, EventsAgree, SolutionsAreShown, Alone, TypeOK
  <2> QED
    BY <1>7, <2>1, <2>3 DEF EventsAgree
<1>9. ASSUME NEW k \in Workers, pc'[k] # "idle"
      PROVE  IsRequest(k)' /\ Current(k)'
  <2>1. k # i /\ pc'[k] = pc[k] /\ req'[k] = req[k] /\ IsRequest(k) /\ Current(k)
    BY <1>1, <1>3, <1>9 DEF CInv, TypeOK
  <2>2. IsRequest(k)'
    BY <1>1, <1>3, <1>4, <2>1 DEF IsRequest, TypeOK, Permits, Admitted, RolesWith
  <2>3. CASE req[k].claim = c
    <3>1. c \in overlapped
      BY <1>1, <1>9, <2>1, <2>3, OthersAreElsewhere DEF Updates
    <3> QED
      BY <1>3, <2>1, <2>2, <2>3, <3>1 DEF Current
  <2>4. CASE req[k].claim # c
    <3>1. claim'[req[k].claim] = claim[req[k].claim]
      BY <1>1, <1>3, <2>1, <2>4 DEF TypeOK, IsRequest
    <3>2. \A x \in Workers : pc'[x] # "idle" => pc[x] # "idle" /\ req'[x] = req[x]
      BY <1>1, <1>3 DEF TypeOK
    <3> QED
      BY <1>3, <2>1, <2>2, <3>1, <3>2 DEF Current, Busy
  <2> QED
    BY <2>3, <2>4
<1>10. ResolversStand'
  <2>1. /\ claim[c].resolvedBy # Nobody => MaySolve(claim[c].resolvedBy)
        /\ req[i].seen.resolvedBy # Nobody => claim[c].resolvedBy # Nobody
        /\ MaySolve(req[i].user) => req[i].user # Nobody
    BY <1>1, ConstantsAssumption DEF CInv, ResolversStand, Updates, IsRequest
  <2>2. /\ m.resolvedBy # Nobody => MaySolve(m.resolvedBy)
        /\ claim[c].resolvedBy # Nobody => m.resolvedBy # Nobody
    BY <1>2, <2>1 DEF Column, Updates
  <2> QED
    BY <1>1, <1>3, <2>2 DEF ResolversStand, CInv, TypeOK, MaySolve
<1>11. SolutionIsSound'
  <2>1. ResolvedWasVerified' /\ ProofMatchesType'
    BY <1>1, <1>3, <1>6 DEF ResolvedWasVerified, ProofMatchesType, Alone, CInv, SolutionIsSound,
       TypeOK, Updates
  <2>2. m.type = "MONETARIA" => c \in proofs
    BY <1>1, <1>2 DEF Column, Updates, CInv, SolutionIsSound, ResolvedByAdministrator
  <2>3. m.status = "RESUELTO" => m.resolvedBy # Nobody /\ MaySolve(m.resolvedBy)
    <3>1. /\ claim[c].resolvedBy # Nobody => MaySolve(claim[c].resolvedBy)
          /\ req[i].seen.resolvedBy # Nobody => claim[c].resolvedBy # Nobody
          /\ req[i].user # Nobody
          /\ claim[c].status = "RESUELTO" => claim[c].resolvedBy # Nobody
      BY <1>1, ConstantsAssumption DEF CInv, ResolversStand, Updates, IsRequest, SolutionIsSound,
         ResolvedByAdministrator
    <3> QED
      BY <1>2, <3>1 DEF Column, Updates
  <2>4. ResolvedByAdministrator'
    BY <1>1, <1>3, <2>2, <2>3 DEF ResolvedByAdministrator, CInv, SolutionIsSound, TypeOK, MaySolve
  <2> QED
    BY <2>1, <2>4 DEF SolutionIsSound
<1>12. RecordsAreGuarded'
  <2>1. \A d \in Claims : /\ claim'[d].shipment = claim[d].shipment
                          /\ claim'[d].agency = claim[d].agency
                          /\ claim[d].status # Unborn => claim'[d].status # Unborn
    BY <1>1, <1>3, <1>4, <1>5 DEF TypeOK
  <2> QED
    BY <1>1, <1>3, <2>1 DEF RecordsAreGuarded, EvidenceWhileOpen, TracesAreTied, CInv
<1> QED
  BY <1>8, <1>9, <1>10, <1>11, <1>12 DEF CInv
-------------------------------------------------------------------------------
(* The steps of Next. *)

LEMMA OpenKeeps ==
  ASSUME CInv, NEW c \in Claims, NEW s \in Shipments, NEW g \in Agencies, Open(c, s, g)
  PROVE  CInv'
<1>1. PICK r : r = NewRow("RECIBIDO", s, g)
  OBVIOUS
<1>2. /\ r \in Row /\ r.status = "RECIBIDO" /\ r.type = "NULL" /\ ~r.proof /\ r.resolvedBy = Nobody
      /\ r.status # Unborn /\ r.status \in Statuses
  BY <1>1, StatusNames DEF NewRow, Row
<1>3. /\ claim[c].status = Unborn /\ TypeOK
      /\ claim' = [claim EXCEPT ![c] = r] /\ UNCHANGED <<last, shown>>
      /\ UNCHANGED <<proofs, traces, checked, late, pc, req, overlapped>>
  BY <1>1 DEF Open, CInv, EventsAgree
<1>4. TypeOK'
  BY <1>2, <1>3 DEF TypeOK
<1>5. EventsAgree'
  <2>1. r.status \notin Solved /\ last[c] = Unborn
    BY <1>2, <1>3, StatusNames DEF TypeOK
  <2> QED
    BY <1>2, <1>3, <1>4, <2>1 DEF EventsAgree, HistoryLeadsToStatus, SolutionsAreShown, Alone,
       TypeOK, CInv
<1>6. ASSUME NEW i \in Workers, pc'[i] # "idle"
      PROVE  IsRequest(i)' /\ Current(i)'
  <2>1. IsRequest(i) /\ Current(i) /\ req[i].claim # c /\ req[i].claim \in Claims
    BY <1>3, <1>6 DEF CInv, IsRequest
  <2>2. claim'[req[i].claim] = claim[req[i].claim]
    BY <1>3, <2>1 DEF TypeOK
  <2> QED
    BY <1>3, <2>1, <2>2 DEF IsRequest, Current, Busy, Permits, Admitted, RolesWith
<1>7. ResolversStand'
  <2>1. \A i \in Workers : pc[i] = "loaded" => req[i].claim # c
    BY <1>3 DEF CInv, IsRequest
  <2> QED
    BY <1>2, <1>3, <2>1 DEF ResolversStand, MaySolve, TypeOK, CInv
<1>8. SolutionIsSound'
  BY <1>2, <1>3 DEF SolutionIsSound, ResolvedWasVerified, ProofMatchesType, ResolvedByAdministrator,
     Alone, TypeOK, CInv
<1>9. RecordsAreGuarded'
  BY <1>2, <1>3 DEF RecordsAreGuarded, EvidenceWhileOpen, TracesAreTied, TypeOK, CInv
<1> QED
  BY <1>5, <1>6, <1>7, <1>8, <1>9 DEF CInv

LEMMA LoadKeeps ==
  ASSUME CInv, NEW i \in Workers, NEW op \in Operations, NEW u \in Users \cup {Nobody},
         NEW c \in Claims, NEW point \in {"loaded", "uploading"}, Load(i, op, u, c), At(i, point),
         IF point = "loaded" THEN op \in {"event", "resolve", "verify"} /\ u \in Users /\ Permits(u, op)
                             ELSE op \in {"attach", "evidence"},
         op = "evidence" => claim[c].status \notin Settled
  PROVE  CInv'
<1>1. PICK r : r = [op |-> op, user |-> u, claim |-> c,
                    seen |-> IF op \in {"attach", "evidence"} THEN NoRow ELSE claim[c]]
  OBVIOUS
<1>2. /\ pc[i] = "idle" /\ claim[c].status # Unborn /\ TypeOK
      /\ pc' = [pc EXCEPT ![i] = point] /\ req' = [req EXCEPT ![i] = r]
      /\ UNCHANGED rows
      /\ overlapped' = IF Busy(c) = {} THEN overlapped ELSE overlapped \cup {c}
  BY <1>1 DEF Load, At, CInv, EventsAgree
<1>3. TypeOK'
  BY <1>1, <1>2, RowsExist DEF TypeOK, rows
<1>4. ASSUME NEW k \in Workers, pc'[k] # "idle"
      PROVE  IsRequest(k)' /\ Current(k)'
  <2>1. CASE k = i
    <3>1. req'[k] = r /\ pc'[k] = point
      BY <1>2, <2>1 DEF TypeOK
    <3>2. IsRequest(k)'
      BY <1>1, <1>2, <3>1 DEF IsRequest, rows, Permits, Admitted, RolesWith
    <3>3. ASSUME c \notin overlapped'
          PROVE  \A x \in Workers : pc'[x] # "idle" /\ req'[x].claim = c => x = i
      BY <1>2, <3>3 DEF Busy, TypeOK
    <3> QED
      BY <1>1, <1>2, <3>1, <3>2, <3>3, <2>1 DEF Current, Busy, rows
  <2>2. CASE k # i
    <3>1. pc'[k] = pc[k] /\ req'[k] = req[k] /\ IsRequest(k) /\ Current(k)
      BY <1>2, <1>4, <2>2 DEF TypeOK, CInv
    <3>2. IsRequest(k)'
      BY <1>2, <3>1 DEF IsRequest, rows, Permits, Admitted, RolesWith
    <3>3. CASE req[k].claim = c
      <4>1. c \in overlapped'
        BY <1>2, <1>4, <3>1, <3>3 DEF Busy
      <4> QED
        BY <3>1, <3>2, <3>3, <4>1 DEF Current
    <3>4. CASE req[k].claim # c
      <4>1. req[k].claim \in overlapped' <=> req[k].claim \in overlapped
        BY <1>2, <3>4
      <4>2. \A x \in Workers : pc'[x] # "idle" /\ req'[x].claim = req[k].claim
                                 => pc[x] # "idle" /\ req[x].claim = req[k].claim
        BY <1>1, <1>2, <3>4 DEF TypeOK
      <4> QED
        BY <1>2, <3>1, <3>2, <4>1, <4>2 DEF Current, Busy, rows
    <3> QED
      BY <3>3, <3>4
  <2> QED
    BY <2>1, <2>2
<1>5. ResolversStand'
  BY <1>1, <1>2, RowsExist DEF ResolversStand, MaySolve, TypeOK, CInv, rows
<1>6. overlapped \subseteq overlapped'
  BY <1>2
<1>7. EventsAgree' /\ SolutionIsSound' /\ RecordsAreGuarded'
  BY <1>2, <1>3, <1>6 DEF CInv, rows, EventsAgree, HistoryLeadsToStatus, SolutionsAreShown,
     Alone, SolutionIsSound, ResolvedWasVerified,
     ProofMatchesType, ResolvedByAdministrator, RecordsAreGuarded, EvidenceWhileOpen, TracesAreTied
<1> QED
  BY <1>4, <1>5, <1>7 DEF CInv

\* A request that ends without an UPDATE; a picture may have come with it.
LEMMA EndKeeps ==
  ASSUME CInv, NEW i \in Workers, pc[i] # "idle", EndRequest(i), UNCHANGED <<claim, last, shown, traces, checked>>,
         proofs \subseteq proofs', proofs' \subseteq proofs \cup {req[i].claim},
         late' \subseteq late \cup (IF req[i].claim \in overlapped THEN {req[i].claim} ELSE {})
  PROVE  CInv'
<1>1. /\ TypeOK /\ IsRequest(i)
      /\ pc' = [pc EXCEPT ![i] = "idle"] /\ req' = [req EXCEPT ![i] = NoRequest]
      /\ UNCHANGED overlapped
  BY DEF CInv, EventsAgree, EndRequest, At
<1>2. TypeOK'
  BY <1>1, RowsExist DEF TypeOK, NoRequest, Operations, IsRequest
<1>3. ASSUME NEW k \in Workers, pc'[k] # "idle"
      PROVE  IsRequest(k)' /\ Current(k)'
  <2>1. k # i /\ pc'[k] = pc[k] /\ req'[k] = req[k] /\ IsRequest(k) /\ Current(k)
    BY <1>1, <1>3 DEF CInv, TypeOK
  <2>2. \A x \in Workers : pc'[x] # "idle" => pc[x] # "idle" /\ req'[x] = req[x]
    BY <1>1 DEF TypeOK
  <2> QED
    BY <1>1, <2>1, <2>2 DEF IsRequest, Current, Busy, Permits, Admitted, RolesWith
<1>4. ResolversStand'
  BY <1>1 DEF ResolversStand, MaySolve, TypeOK, CInv
<1>5. EventsAgree' /\ SolutionIsSound' /\ RecordsAreGuarded'
  BY <1>1, <1>2 DEF CInv, EventsAgree, HistoryLeadsToStatus, SolutionsAreShown,
     Alone, SolutionIsSound, ResolvedWasVerified,
     ProofMatchesType, ResolvedByAdministrator, RecordsAreGuarded, EvidenceWhileOpen, TracesAreTied
<1> QED
  BY <1>3, <1>4, <1>5 DEF CInv

LEMMA PermissionToSolve ==
  ASSUME NEW u, NEW op \in {"resolve", "verify"}, Permits(u, op)
  PROVE  MaySolve(u)
  BY DEF Permits, RolesWith, MaySolve

LEMMA AddClaimEventKeeps ==
  ASSUME CInv, NEW i \in Workers, NEW to \in Statuses, NEW visible \in BOOLEAN,
         AddClaimEvent(i, to, visible)
  PROVE  CInv'
<1>1. PICK a : a = [req[i].seen EXCEPT !.status = to]
  OBVIOUS
<1>2. /\ TypeOK /\ pc[i] = "loaded" /\ req[i].seen \in Row /\ req[i].claim \in Claims
      /\ to \notin {"RESUELTO", "PAGO_POR_VERIFICAR", Unborn} /\ checked' = checked
      /\ to \notin Solved /\ to # req[i].seen.status
      /\ req[i].claim \notin overlapped => req[i].seen = claim[req[i].claim]
  <2>1. req[i].seen \in Row /\ req[i].seen.status # Unborn
    BY DEF AddClaimEvent, Running, CInv, EventsAgree, TypeOK, IsRequest
  <2>2. req[i].seen.status \in Statuses
    BY <2>1 DEF Row
  <2>3. to # req[i].seen.status
    BY <2>2, EventsMove DEF AddClaimEvent
  <2> QED
    BY <2>1, <2>3, EventsSettleNothing
       DEF AddClaimEvent, Running, CInv, EventsAgree, TypeOK, Current, Solved
<1>3. /\ a \in Row /\ a.status = to /\ a.shipment = req[i].seen.shipment
      /\ a.agency = req[i].seen.agency /\ a.type = req[i].seen.type /\ a.proof = req[i].seen.proof
      /\ a.resolvedBy = req[i].seen.resolvedBy
  BY <1>1, <1>2 DEF Row
<1>4. Save(i, a, visible)
  BY <1>1 DEF AddClaimEvent
<1>5. Updates(i, a, visible)
  BY <1>2, <1>3, <1>4 DEF Updates, TypeOK, CInv, SolutionIsSound, ProofMatchesType, Alone
<1> QED
  BY <1>5, SaveKeeps

LEMMA ResolveWithPaymentKeeps ==
  ASSUME CInv, NEW i \in Workers, ResolveWithPayment(i)
  PROVE  CInv'
<1>1. PICK a : a = [req[i].seen EXCEPT !.status = "PAGO_POR_VERIFICAR", !.type = "MONETARIA",
                                       !.proof = TRUE]
  OBVIOUS
<1>2. /\ TypeOK /\ pc[i] = "loaded" /\ req[i].seen \in Row /\ req[i].claim \in proofs
      /\ checked' = checked \ {req[i].claim}
  BY DEF ResolveWithPayment, Resolves, HasProof, Running, CInv, EventsAgree, TypeOK
<1>3. /\ a \in Row /\ a.status = "PAGO_POR_VERIFICAR" /\ a.shipment = req[i].seen.shipment
      /\ a.agency = req[i].seen.agency /\ a.type = "MONETARIA" /\ a.proof
      /\ a.resolvedBy = req[i].seen.resolvedBy
  BY <1>1, <1>2, StatusNames DEF Row
<1>4. Save(i, a, TRUE)
  BY <1>1 DEF ResolveWithPayment
<1>5. Updates(i, a, TRUE)
  BY <1>2, <1>3, <1>4, StatusNames DEF Updates, Solved, TypeOK
<1> QED
  BY <1>5, SaveKeeps

LEMMA ResolveWithoutPaymentKeeps ==
  ASSUME CInv, NEW i \in Workers, ResolveWithoutPayment(i)
  PROVE  CInv'
<1>1. PICK a : a = [req[i].seen EXCEPT !.status = "RESUELTO", !.type = "NO_MONETARIA",
                                       !.proof = FALSE, !.resolvedBy = req[i].user]
  OBVIOUS
<1>2. /\ TypeOK /\ pc[i] = "loaded" /\ req[i].seen \in Row /\ req[i].user \in Users
      /\ MaySolve(req[i].user) /\ checked' = checked \ {req[i].claim}
  BY PermissionToSolve DEF ResolveWithoutPayment, Resolves, Running, CInv, EventsAgree, TypeOK,
     IsRequest
<1>3. /\ a \in Row /\ a.status = "RESUELTO" /\ a.shipment = req[i].seen.shipment
      /\ a.agency = req[i].seen.agency /\ a.type = "NO_MONETARIA" /\ ~a.proof
      /\ a.resolvedBy = req[i].user
  BY <1>1, <1>2, StatusNames DEF Row
<1>4. Save(i, a, TRUE)
  BY <1>1 DEF ResolveWithoutPayment
<1>5. Updates(i, a, TRUE)
  BY <1>2, <1>3, <1>4, StatusNames DEF Updates, Solved, TypeOK
<1> QED
  BY <1>5, SaveKeeps

LEMMA VerifyPaymentKeeps ==
  ASSUME CInv, NEW i \in Workers, VerifyPayment(i)
  PROVE  CInv'
<1>1. PICK a : a = [req[i].seen EXCEPT !.status = "RESUELTO", !.resolvedBy = req[i].user]
  OBVIOUS
<1>2. /\ TypeOK /\ pc[i] = "loaded" /\ req[i].seen \in Row /\ req[i].user \in Users
      /\ req[i].claim \in Claims
      /\ MaySolve(req[i].user) /\ checked' = checked \cup {req[i].claim}
      /\ req[i].claim \notin overlapped => req[i].seen = claim[req[i].claim]
  BY PermissionToSolve DEF VerifyPayment, Verifies, Running, CInv, EventsAgree, TypeOK,
     IsRequest, Current
<1>3. /\ a \in Row /\ a.status = "RESUELTO" /\ a.shipment = req[i].seen.shipment
      /\ a.agency = req[i].seen.agency /\ a.type = req[i].seen.type /\ a.proof = req[i].seen.proof
      /\ a.resolvedBy = req[i].user
  BY <1>1, <1>2, StatusNames DEF Row
<1>4. Save(i, a, TRUE)
  BY <1>1 DEF VerifyPayment
<1>5. req[i].claim \notin overlapped => (a.proof <=> a.type = "MONETARIA")
  BY <1>2, <1>3 DEF CInv, SolutionIsSound, ProofMatchesType, Alone
<1>6. Updates(i, a, TRUE)
  BY <1>2, <1>3, <1>4, <1>5, StatusNames DEF Updates, Solved, TypeOK
<1> QED
  BY <1>6, SaveKeeps

LEMMA RejectPaymentKeeps ==
  ASSUME CInv, NEW i \in Workers, RejectPayment(i)
  PROVE  CInv'
<1>1. PICK a : a = [req[i].seen EXCEPT !.status = "INVESTIGANDO"]
  OBVIOUS
<1>2. /\ TypeOK /\ pc[i] = "loaded" /\ req[i].seen \in Row /\ req[i].claim \in Claims
      /\ checked' = checked /\ req[i].seen.status = "PAGO_POR_VERIFICAR"
      /\ req[i].claim \notin overlapped => req[i].seen = claim[req[i].claim]
  BY DEF RejectPayment, Verifies, Running, CInv, EventsAgree, TypeOK, Current
<1>3. /\ a \in Row /\ a.status = "INVESTIGANDO" /\ a.shipment = req[i].seen.shipment
      /\ a.agency = req[i].seen.agency /\ a.type = req[i].seen.type /\ a.proof = req[i].seen.proof
      /\ a.resolvedBy = req[i].seen.resolvedBy
  BY <1>1, <1>2, StatusNames DEF Row
<1>4. Save(i, a, TRUE)
  BY <1>1 DEF RejectPayment
<1>5. req[i].claim \notin overlapped => (a.proof <=> a.type = "MONETARIA")
  BY <1>2, <1>3 DEF CInv, SolutionIsSound, ProofMatchesType, Alone
<1>6. Updates(i, a, TRUE)
  BY <1>2, <1>3, <1>4, <1>5, StatusNames DEF Updates, Solved, TypeOK
<1> QED
  BY <1>6, SaveKeeps

LEMMA SaveAttachmentKeeps ==
  ASSUME CInv, NEW i \in Workers, NEW kind \in Kinds, SaveAttachment(i, kind)
  PROVE  CInv'
<1>1. /\ pc[i] = "uploading" /\ EndRequest(i) /\ UNCHANGED <<claim, last, shown, traces, checked>>
      /\ proofs \subseteq proofs' /\ proofs' \subseteq proofs \cup {req[i].claim}
  BY DEF SaveAttachment
<1>2. req[i].op = "evidence" /\ claim[req[i].claim].status \in Settled
        => req[i].claim \in overlapped
  BY <1>1 DEF CInv, Current
<1>3. late' \subseteq late \cup (IF req[i].claim \in overlapped THEN {req[i].claim} ELSE {})
  BY <1>2 DEF SaveAttachment
<1> QED
  BY <1>1, <1>3, EndKeeps

LEMMA AddShipmentTraceKeeps ==
  ASSUME CInv, NEW u \in Users, NEW s \in Shipments, AddShipmentTrace(u, s)
  PROVE  CInv'
<1>1. /\ traces' = traces \cup {<<s, Workplace[u]>>} /\ Traceable(s, Workplace[u])
      /\ UNCHANGED <<claim, last, shown, proofs, checked, late, pc, req, overlapped>> /\ TypeOK
  BY DEF AddShipmentTrace, CInv, EventsAgree
<1>2. Workplace[u] \in Agencies
  BY ConstantsAssumption DEF AddShipmentTrace, Permits, Admitted, RolesWith, IsGlobalAdmin,
     BusinessRoles
<1>3. TypeOK'
  BY <1>1, <1>2 DEF TypeOK
<1>4. TracesAreTied'
  BY <1>1 DEF TracesAreTied, Traceable, CInv, RecordsAreGuarded
<1> QED
  BY <1>1, <1>3, <1>4 DEF CInv, EventsAgree, HistoryLeadsToStatus, SolutionsAreShown,
     Alone, SolutionIsSound, ResolvedWasVerified,
     ProofMatchesType, ResolvedByAdministrator, RecordsAreGuarded, EvidenceWhileOpen,
     ResolversStand, IsRequest, Current, Busy, Permits, Admitted, RolesWith, MaySolve

LEMMA StepKeeps == CInv /\ [Next]_vars => CInv'
<1> SUFFICES ASSUME CInv, [Next]_vars
             PROVE  CInv'
  OBVIOUS
<1>1. ASSUME NEW c \in Claims, NEW s \in Shipments, NEW g \in Agencies,
             CreatePublicClaim(c, s, g) \/ CreateInPersonClaim(c, s, g)
      PROVE  CInv'
  BY <1>1, OpenKeeps DEF CreatePublicClaim, CreateInPersonClaim
<1>2. ASSUME NEW i \in Workers, NEW op \in Operations, NEW u \in Users, NEW c \in Claims,
             LoadScopedClaim(i, op, u, c)
      PROVE  CInv'
  <2>1. CASE op = "attach"
    BY <1>2, <2>1, LoadKeeps DEF LoadScopedClaim
  <2>2. CASE op # "attach"
    <3>1. op \in {"event", "resolve", "verify"} /\ Permits(u, op)
          /\ Load(i, op, u, c) /\ At(i, "loaded")
      BY <1>2, <2>2 DEF LoadScopedClaim, Operations
    <3> QED
      BY <3>1, LoadKeeps
  <2> QED
    BY <2>1, <2>2
<1>3. ASSUME NEW i \in Workers, NEW c \in Claims, LoadPublicClaim(i, c)
      PROVE  CInv'
  BY <1>3, LoadKeeps DEF LoadPublicClaim, Operations
<1>4. ASSUME NEW i \in Workers, FinishWithoutUpdate(i)
      PROVE  CInv'
  BY <1>4, EndKeeps DEF FinishWithoutUpdate, rows
<1>5. ASSUME NEW i \in Workers, Step(i)
      PROVE  CInv'
  BY <1>4, <1>5, AddClaimEventKeeps, ResolveWithPaymentKeeps, ResolveWithoutPaymentKeeps,
     VerifyPaymentKeeps, RejectPaymentKeeps, SaveAttachmentKeeps DEF Step
<1>6. CASE UNCHANGED vars
  BY <1>6 DEF vars, rows, CInv, EventsAgree, HistoryLeadsToStatus, SolutionsAreShown,
     TypeOK, Alone, SolutionIsSound, ResolvedWasVerified,
     ProofMatchesType, ResolvedByAdministrator, RecordsAreGuarded, EvidenceWhileOpen, TracesAreTied,
     ResolversStand, IsRequest, Current, Busy, Permits, Admitted, RolesWith, MaySolve
<1> QED
  BY <1>1, <1>2, <1>3, <1>5, <1>6, AddShipmentTraceKeeps DEF Next

LEMMA CInvHolds == Spec => []CInv
  BY Initially, StepKeeps, PTL DEF Spec
-------------------------------------------------------------------------------
\* The history of a case leads to the status it has, as long as the requests for
\* it do not overlap (add_claim_event, save_claim_resolution and
\* verify_claim_payment commit the event with the row); and however they
\* overlap, a case that is resolved or waits for its payment tells the customer
\* of a solution by an event the customer may see.
THEOREM EventsAlwaysAgree == Spec => []EventsAgree
<1>1. CInv => EventsAgree
  BY DEF CInv
<1> QED
  BY <1>1, CInvHolds, PTL

\* A resolved monetary case was paid and verified for its present solution, with
\* the proof of payment that belongs to it, by somebody who may record solutions
\* (save_claim_resolution, verify_claim_payment).
THEOREM SolutionsAreSound == Spec => []SolutionIsSound
<1>1. CInv => SolutionIsSound
  BY DEF CInv
<1> QED
  BY <1>1, CInvHolds, PTL

\* Neither the customer after the case is settled nor the staff of an agency
\* without a case leave anything on the record
\* (upload_public_claim_evidence_endpoint, add_shipment_trace_endpoint).
THEOREM RecordsStayGuarded == Spec => []RecordsAreGuarded
<1>1. CInv => RecordsAreGuarded
  BY DEF CInv
<1> QED
  BY <1>1, CInvHolds, PTL

\* A closed case that two requests never met at stays exactly as it is
\* (STATUS_TRANSITIONS and the guards of save_claim_resolution and
\* verify_claim_payment).
THEOREM ClosedStaysFrozen == Spec => ClosedIsFrozen
<1>1. ASSUME CInv, [Next]_vars, NEW c \in Claims \ overlapped', claim[c].status = "CERRADO"
      PROVE  claim'[c] = claim[c]
  <2>1. TypeOK /\ claim[c].status # Unborn
    BY <1>1, StatusNames DEF CInv, EventsAgree
  <2>2. \A d \in Claims, s \in Shipments, g \in Agencies : Open(d, s, g) => claim'[c] = claim[c]
    BY <2>1 DEF Open, TypeOK
  <2>3. ASSUME NEW i \in Workers, Step(i)
        PROVE  claim'[c] = claim[c]
    <3>1. overlapped' = overlapped
      BY <2>3 DEF Step, AddClaimEvent, FinishWithoutUpdate, ResolveWithPayment,
         ResolveWithoutPayment, VerifyPayment, RejectPayment, SaveAttachment, Save, EndRequest
    <3>2. pc[i] = "loaded" /\ req[i].claim = c => req[i].seen.status = "CERRADO"
      BY <1>1, <3>1 DEF CInv, Current
    <3>3. ASSUME NEW a, NEW visible, Save(i, a, visible), pc[i] = "loaded", req[i].seen.status # "CERRADO"
          PROVE  claim'[c] = claim[c]
      BY <2>1, <3>2, <3>3 DEF Save, TypeOK
    <3>4. \A to \in Statuses, visible \in BOOLEAN :
            AddClaimEvent(i, to, visible) => claim'[c] = claim[c]
      BY <3>3, StatusNames DEF AddClaimEvent, Running
    <3>5. ResolveWithPayment(i) \/ ResolveWithoutPayment(i) => claim'[c] = claim[c]
      BY <3>3 DEF ResolveWithPayment, ResolveWithoutPayment, Resolves, Running, Settled
    <3>6. VerifyPayment(i) \/ RejectPayment(i) => claim'[c] = claim[c]
      BY <3>3 DEF VerifyPayment, RejectPayment, Verifies, Running
    <3>7. FinishWithoutUpdate(i) \/ (\E kind \in Kinds : SaveAttachment(i, kind))
            => claim'[c] = claim[c]
      BY DEF FinishWithoutUpdate, SaveAttachment, rows
    <3> QED
      BY <2>3, <3>4, <3>5, <3>6, <3>7 DEF Step
  <2>4. UNCHANGED claim => claim'[c] = claim[c]
    OBVIOUS
  <2> QED
    BY <1>1, <2>2, <2>3, <2>4 DEF Next, vars, rows, CreatePublicClaim, CreateInPersonClaim,
       LoadScopedClaim, LoadPublicClaim, Load, AddShipmentTrace
<1>2. CInv /\ [Next]_vars
        => [\A c \in Claims \ overlapped' : claim[c].status = "CERRADO" => claim'[c] = claim[c]]_vars
  BY <1>1
<1> QED
  BY <1>2, CInvHolds, PTL DEF Spec, ClosedIsFrozen
=============================================================================
