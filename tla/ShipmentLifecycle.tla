-------------------------- MODULE ShipmentLifecycle --------------------------
(***************************************************************************)
(* The life of a shipment (encomienda), app/modules/shipments with the     *)
(* quoting of app/modules/quotes and the pre-registration made by the chat *)
(* assistant.                                                              *)
(*                                                                         *)
(* Each element of Workers is a worker thread that serves one request at a *)
(* time.  A request loads the row into the identity map of its session,    *)
(* checks what it loaded, and writes: the UPDATE names only the columns    *)
(* whose value differs from the one loaded, carries no condition on the    *)
(* others, and is committed together with the event it adds to the         *)
(* customer's timeline.  Nothing locks the row between load and write.     *)
(*                                                                         *)
(* Of the columns, the ones kept are those the guards and the properties   *)
(* read.  Rows of the measurement module, which some of these requests     *)
(* commit apart, are not part of the state.                                *)
(***************************************************************************)
CONSTANTS
  Workers,      \* threads that serve requests
  Shipments,    \* identifiers of rows of the table encomiendas
  Bases,        \* values of orientacion_base
  NoBase,       \* orientacion_base is NULL
  Receivers,    \* documents of the people a shipment may be handed to
  Nobody,       \* dni_receptor_entrega is NULL
  NoShipment    \* a thread without a request

ASSUME ConstantsAssumption ==
  /\ NoBase \notin Bases
  /\ Nobody \notin Receivers
  /\ NoShipment \notin Shipments

VARIABLES
  row,       \* the committed row of each shipment
  events,    \* the status events on its timeline
  pc,        \* where each thread is in its request
  req        \* the request, with the row as the session loaded it

vars == <<row, events, pc, req>>

------------------------------------------------------------------------------
Statuses == {"PRE_REGISTRADA", "REGISTRADA", "COTIZADA", "ENTREGADA", "ANULADA"}

Unborn == "NONE"

Contents == {"PAQUETE", "ELECTRODOMESTICOS", "DOCUMENTOS"}

Row ==
  [status : Statuses \cup {Unborn}, content : Contents,
   base : Bases \cup {NoBase}, canceled : BOOLEAN,
   receiver : Receivers \cup {Nobody}]

NewRow(status, content, base) ==
  [status |-> status, content |-> content, base |-> base,
   canceled |-> FALSE, receiver |-> Nobody]

NoRow == NewRow(Unborn, "PAQUETE", NoBase)

\* Mutant of Accepts: a delivered shipment can be canceled.
AcceptsCancelDelivered ==
  [quote   |-> Statuses \ {"ANULADA"},
   confirm |-> {"PRE_REGISTRADA"},
   update  |-> {"PRE_REGISTRADA", "REGISTRADA"},
   cancel  |-> Statuses \ {"ANULADA"},
   expire  |-> {"PRE_REGISTRADA"},
   deliver |-> Statuses \ {"ANULADA", "ENTREGADA"}]

\* Mutant of Accepts: a delivered shipment can be handed over again.
AcceptsDeliverAgain ==
  [quote   |-> Statuses \ {"ANULADA"},
   confirm |-> {"PRE_REGISTRADA"},
   update  |-> {"PRE_REGISTRADA", "REGISTRADA"},
   cancel  |-> Statuses \ {"ANULADA", "ENTREGADA"},
   expire  |-> {"PRE_REGISTRADA"},
   deliver |-> Statuses \ {"ANULADA"}]

\* The status each operation accepts in the row it has loaded.
Accepts ==
  [quote   |-> Statuses \ {"ANULADA"},
   confirm |-> {"PRE_REGISTRADA"},
   update  |-> {"PRE_REGISTRADA", "REGISTRADA"},
   cancel  |-> Statuses \ {"ANULADA", "ENTREGADA"},
   expire  |-> {"PRE_REGISTRADA"},
   deliver |-> Statuses \ {"ANULADA", "ENTREGADA"}]

Operations == {"quote", "confirm", "update", "cancel", "expire", "deliver"}

\* Operations that can also refuse for their input: the reason is blank, the
\* pre-registration is younger than three days, the receiver's document or the
\* security key does not match.
ChecksInput == {"cancel", "expire", "deliver"}

Request ==
  [op : Operations \cup {"chat"}, shipment : Shipments \cup {NoShipment}, seen : Row]

NoRequest == [op |-> "quote", shipment |-> NoShipment, seen |-> NoRow]

TypeOK ==
  /\ row \in [Shipments -> Row]
  /\ events \in [Shipments -> SUBSET Statuses]
  /\ pc \in [Workers -> {"idle", "loaded", "quoting", "created"}]
  /\ req \in [Workers -> Request]
  /\ \A i \in Workers : pc[i] # "idle" => req[i].shipment \in Shipments

\* What ShipmentPayloadBase lets through: a package comes with its base, and
\* documents lose theirs.
ValidPayload(content, base) == content = "DOCUMENTOS" <=> base = NoBase

NeedsBase(r) == r.content # "DOCUMENTOS" /\ r.base = NoBase
------------------------------------------------------------------------------
Init ==
  /\ row = [s \in Shipments |-> NoRow]
  /\ events = [s \in Shipments |-> {}]
  /\ pc = [i \in Workers |-> "idle"]
  /\ req = [i \in Workers |-> NoRequest]

At(i, point) == pc' = [pc EXCEPT ![i] = point]

EndRequest(i) ==
  /\ At(i, "idle")
  /\ req' = [req EXCEPT ![i] = NoRequest]

\* INSERT of a new row with its first event.
Insert(s, initial, content, base) ==
  /\ row[s].status = Unborn
  /\ ValidPayload(content, base)
  /\ row' = [row EXCEPT ![s] = NewRow(initial, content, base)]
  /\ events' = [events EXCEPT ![s] = {initial}]

\* create_shipment, by the staff or by the public form.
CreateShipment(s, content, base) ==
  /\ Insert(s, "REGISTRADA", content, base)
  /\ UNCHANGED <<pc, req>>

\* create_pre_registration, from the public form.
PreRegister(s, content, base) ==
  /\ Insert(s, "PRE_REGISTRADA", content, base)
  /\ UNCHANGED <<pc, req>>

\* Mutant of ChatPreRegister: the thread goes on without the row it created.
ChatPreRegisterLost(i, s, base) ==
  /\ pc[i] = "idle"
  /\ base \in Bases
  /\ Insert(s, "PRE_REGISTRADA", "PAQUETE", base)
  /\ req' = [req EXCEPT ![i] = NoRequest]
  /\ At(i, "created")

\* _crear_preregistro_desde_chat first creates a package with a base that the
\* validation accepts ...
ChatPreRegister(i, s, base) ==
  /\ pc[i] = "idle"
  /\ base \in Bases
  /\ Insert(s, "PRE_REGISTRADA", "PAQUETE", base)
  /\ req' = [req EXCEPT ![i] = [op |-> "chat", shipment |-> s, seen |-> NoRow]]
  /\ At(i, "created")

\* ... and clears the base in a later transaction, without reading the row
\* again: the staff are to choose it when they collect the payment.
ClearBase(i) ==
  /\ pc[i] = "created"
  /\ row' = [row EXCEPT ![req[i].shipment].base = NoBase]
  /\ EndRequest(i)
  /\ UNCHANGED events

\* get_scoped_shipment; the handler's own query returns the same object.
LoadShipment(i, op, s) ==
  /\ pc[i] = "idle"
  /\ row[s].status # Unborn
  /\ req' = [req EXCEPT ![i] = [op |-> op, shipment |-> s, seen |-> row[s]]]
  /\ At(i, "loaded")
  /\ UNCHANGED <<row, events>>

Running(i, op) ==
  /\ pc[i] = "loaded"
  /\ req[i].op = op
  /\ req[i].seen.status \in Accepts[op]

\* ValueError: 400, and the transaction is rolled back.
Refuse(i) ==
  /\ pc[i] = "loaded"
  /\ \/ req[i].seen.status \notin Accepts[req[i].op]
     \/ req[i].op \in ChecksInput
  /\ EndRequest(i)
  /\ UNCHANGED <<row, events>>

\* Mutant of Column: the UPDATE writes every column.
ColumnAlways(stored, loaded, assigned) == assigned

Column(stored, loaded, assigned) == IF assigned = loaded THEN stored ELSE assigned

\* The row after the UPDATE that the session emits when its copy `loaded' has
\* become `assigned' while the table has `stored'.
Merge(stored, loaded, assigned) ==
  [status   |-> Column(stored.status, loaded.status, assigned.status),
   content  |-> Column(stored.content, loaded.content, assigned.content),
   base     |-> Column(stored.base, loaded.base, assigned.base),
   canceled |-> Column(stored.canceled, loaded.canceled, assigned.canceled),
   receiver |-> Column(stored.receiver, loaded.receiver, assigned.receiver)]

\* UPDATE and COMMIT, with the event if there is one; the request is over.
Save(i, assigned, newEvents) ==
  LET s == req[i].shipment
  IN  /\ row' = [row EXCEPT ![s] = Merge(@, req[i].seen, assigned)]
      /\ events' = [events EXCEPT ![s] = @ \cup newEvents]
      /\ EndRequest(i)

\* calculate_quote: start_service_phase commits the service log, which expires
\* the row, and mark_shipment_as_quoted reads its status again.
StartQuote(i) ==
  /\ Running(i, "quote")
  /\ req' = [req EXCEPT ![i].seen = row[req[i].shipment]]
  /\ At(i, "quoting")
  /\ UNCHANGED <<row, events>>

\* Mutant of FinishQuote: the status changes without its event.
FinishQuoteSilently(i) ==
  /\ pc[i] = "quoting"
  /\ IF req[i].seen.status = "REGISTRADA"
     THEN Save(i, [req[i].seen EXCEPT !.status = "COTIZADA"], {})
     ELSE EndRequest(i) /\ UNCHANGED <<row, events>>

\* mark_shipment_as_quoted: only a REGISTRADA changes.
FinishQuote(i) ==
  /\ pc[i] = "quoting"
  /\ IF req[i].seen.status = "REGISTRADA"
     THEN Save(i, [req[i].seen EXCEPT !.status = "COTIZADA"], {"COTIZADA"})
     ELSE EndRequest(i) /\ UNCHANGED <<row, events>>

\* confirm_pre_registration: the base of the request, if it carries one, goes
\* to a package that has none.
ConfirmWith(seen, base) ==
  [seen EXCEPT !.status = "REGISTRADA",
               !.base = IF NeedsBase(seen) THEN base ELSE @]

\* Mutant of Confirm: the base is not required.
ConfirmAnyway(i, base) ==
  /\ Running(i, "confirm")
  /\ Save(i, ConfirmWith(req[i].seen, base), {"REGISTRADA"})

Confirm(i, base) ==
  /\ Running(i, "confirm")
  /\ ~NeedsBase(ConfirmWith(req[i].seen, base))
  /\ Save(i, ConfirmWith(req[i].seen, base), {"REGISTRADA"})

\* The package still has no base: ValueError, 400.
ConfirmWithoutBase(i) ==
  /\ Running(i, "confirm")
  /\ NeedsBase(req[i].seen)
  /\ EndRequest(i)
  /\ UNCHANGED <<row, events>>

\* update_shipment: every column of the payload but the protected ones.
Update(i, content, base) ==
  /\ Running(i, "update")
  /\ ValidPayload(content, base)
  /\ Save(i, [req[i].seen EXCEPT !.content = content, !.base = base], {})

\* cancel_shipment_with_reason, also reached through DELETE, and
\* delete_expired_pre_registration.
Cancel(i) ==
  /\ Running(i, "cancel") \/ Running(i, "expire")
  /\ Save(i, [req[i].seen EXCEPT !.status = "ANULADA", !.canceled = TRUE], {"ANULADA"})

\* mark_as_delivered
Deliver(i, receiver) ==
  /\ Running(i, "deliver")
  /\ Save(i, [req[i].seen EXCEPT !.status = "ENTREGADA", !.receiver = receiver],
          {"ENTREGADA"})

\* The process stops or the connection breaks: the open transaction is rolled
\* back, what was committed before stays.
Crash(i) ==
  /\ pc[i] # "idle"
  /\ EndRequest(i)
  /\ UNCHANGED <<row, events>>
------------------------------------------------------------------------------
Step(i) ==
  \/ ClearBase(i)
  \/ Refuse(i)
  \/ StartQuote(i)
  \/ FinishQuote(i)
  \/ \E base \in Bases \cup {NoBase} : Confirm(i, base)
  \/ ConfirmWithoutBase(i)
  \/ \E content \in Contents, base \in Bases \cup {NoBase} : Update(i, content, base)
  \/ Cancel(i)
  \/ \E receiver \in Receivers : Deliver(i, receiver)
  \/ Crash(i)

Create(s) ==
  \E content \in Contents, base \in Bases \cup {NoBase} :
    CreateShipment(s, content, base) \/ PreRegister(s, content, base)

Next ==
  \/ \E s \in Shipments : Create(s)
  \/ \E i \in Workers, s \in Shipments, base \in Bases : ChatPreRegister(i, s, base)
  \/ \E i \in Workers, op \in Operations, s \in Shipments : LoadShipment(i, op, s)
  \/ \E i \in Workers : Step(i)

Spec == Init /\ [][Next]_vars

\* The executions in which no two requests are ever busy with one shipment.
Disjoint ==
  \A i, j \in Workers :
    (pc[i] # "idle" /\ pc[j] # "idle" /\ req[i].shipment = req[j].shipment) => i = j

DisjointSpec == Init /\ [][Next /\ Disjoint']_vars
------------------------------------------------------------------------------
\* The tracking page and the row tell one story, whatever requests overlap: the
\* status was announced, ENTREGADA was announced exactly if there is a receiver
\* on record, and ANULADA exactly if there is a cancellation.
TimelineAgrees ==
  \A s \in Shipments :
    /\ row[s].status # Unborn => row[s].status \in events[s]
    /\ "ENTREGADA" \in events[s] <=> row[s].receiver # Nobody
    /\ "ANULADA" \in events[s] <=> row[s].canceled

\* A pre-registration is left once and for all, and not towards a quotation: no
\* stale copy of the row, however old, brings PRE_REGISTRADA back or lets
\* a quotation skip the confirmation.
LeavesPreRegistrationOnce ==
  [][\A s \in Shipments :
       /\ row[s].status \notin {Unborn, "PRE_REGISTRADA"}
            => row'[s].status # "PRE_REGISTRADA"
       /\ row[s].status = "PRE_REGISTRADA" => row'[s].status # "COTIZADA"]_vars

\* The status column alone, as the variable of ShipmentStatus.
Machine == INSTANCE ShipmentStatus
             WITH status <- [s \in Shipments |-> row[s].status]

\* When requests for one shipment do not overlap, crashes included, it goes
\* through the state machine of ShipmentStatus.
ImplementsMachine == Machine!Spec

\* A package that is registered has the base the loading plan needs: the staff
\* cannot confirm it before (the last check of confirm_pre_registration).
RegisteredHasBase ==
  \A s \in Shipments : row[s].status \in {"REGISTRADA", "COTIZADA"} => ~NeedsBase(row[s])


\* FLU-05: a shipment that was handed to somebody is never recorded as handed to
\* somebody else, not even by a retry of the delivery; crashes change nothing of
\* it.  It needs requests for one shipment not to overlap (mark_as_delivered).
DeliveredOnce ==
  [][\A s \in Shipments :
       row[s].receiver # Nobody => row'[s].receiver = row[s].receiver]_vars
==============================================================================
