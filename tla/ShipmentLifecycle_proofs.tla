----------------------- MODULE ShipmentLifecycle_proofs -----------------------
(***************************************************************************)
(* What holds of ShipmentLifecycle for any number of threads and           *)
(* shipments: with requests that overlap freely (Spec), and with requests  *)
(* that never overlap on one shipment (DisjointSpec).                      *)
(***************************************************************************)
EXTENDS ShipmentLifecycle, TLAPS

Busy == {"loaded", "quoting"}

Open == {"PRE_REGISTRADA", "REGISTRADA", "COTIZADA"}

\* How a request may turn the copy of the row it holds into what it saves, and
\* the events it adds.
Edits(seen, new, ev) ==
  /\ ev = {} /\ new.status = seen.status
  /\ new.canceled = seen.canceled /\ new.receiver = seen.receiver
  /\ ~NeedsBase(new)

Advances(seen, new, ev) ==
  /\ ev = {new.status}
  /\ \/ seen.status = "PRE_REGISTRADA" /\ new.status = "REGISTRADA" /\ ~NeedsBase(new)
     \/ /\ seen.status = "REGISTRADA" /\ new.status = "COTIZADA"
        /\ new.content = seen.content /\ new.base = seen.base
  /\ new.canceled = seen.canceled /\ new.receiver = seen.receiver

Cancels(seen, new, ev) ==
  /\ ev = {"ANULADA"} /\ seen.status \in Open /\ new.status = "ANULADA"
  /\ new.canceled = TRUE /\ new.receiver = seen.receiver

Delivers(seen, new, ev) ==
  /\ ev = {"ENTREGADA"} /\ seen.status \in Open /\ new.status = "ENTREGADA"
  /\ new.receiver \in Receivers /\ new.canceled = seen.canceled

Writes(i, new, ev) ==
  /\ pc[i] \in Busy
  /\ new \in Row
  /\ \/ Edits(req[i].seen, new, ev)
     \/ Advances(req[i].seen, new, ev)
     \/ Cancels(req[i].seen, new, ev)
     \/ Delivers(req[i].seen, new, ev)
  /\ Save(i, new, ev)

Drops(i) == pc[i] # "idle" /\ EndRequest(i) /\ UNCHANGED <<row, events>>

Inserts(s, initial, content, base) ==
  /\ initial \in {"PRE_REGISTRADA", "REGISTRADA"}
  /\ content \in Contents
  /\ base \in Bases \cup {NoBase}
  /\ Insert(s, initial, content, base)

Chats(i, s, base) ==
  /\ pc[i] = "idle"
  /\ Inserts(s, "PRE_REGISTRADA", "PAQUETE", base)
  /\ req' = [req EXCEPT ![i] = [op |-> "chat", shipment |-> s, seen |-> NoRow]]
  /\ pc' = [pc EXCEPT ![i] = "created"]

-------------------------------------------------------------------------------
LEMMA WriteShape ==
  ASSUME TypeOK, NEW i \in Workers,
         \/ FinishQuote(i)
         \/ \E base \in Bases \cup {NoBase} : Confirm(i, base)
         \/ \E content \in Contents, base \in Bases \cup {NoBase} : Update(i, content, base)
         \/ Cancel(i)
         \/ \E receiver \in Receivers : Deliver(i, receiver)
  PROVE  Drops(i) \/ \E new \in Row, ev \in SUBSET Statuses : Writes(i, new, ev)
<1> DEFINE seen == req[i].seen
<1>0. seen \in Row
  BY DEF TypeOK, Request
<1>1. CASE FinishQuote(i)
  <2>1. CASE seen.status = "REGISTRADA"
    <3> DEFINE new == [seen EXCEPT !.status = "COTIZADA"]
    <3>1. new \in Row /\ Advances(seen, new, {"COTIZADA"})
      BY <1>0, <2>1 DEF Row, Advances, Statuses
    <3>2. Writes(i, new, {"COTIZADA"})
      BY <1>1, <2>1, <3>1 DEF FinishQuote, Writes, Busy
    <3> QED
      BY <3>1, <3>2 DEF Statuses
  <2>2. CASE seen.status # "REGISTRADA"
    BY <1>1, <2>2 DEF FinishQuote, Drops
  <2> QED
    BY <2>1, <2>2
<1>2. ASSUME NEW base \in Bases \cup {NoBase}, Confirm(i, base)
      PROVE  \E new \in Row, ev \in SUBSET Statuses : Writes(i, new, ev)
  <2> DEFINE new == ConfirmWith(seen, base)
  <2>1. new \in Row /\ Advances(seen, new, {"REGISTRADA"})
    BY <1>0, <1>2 DEF Row, Advances, Statuses, ConfirmWith, Confirm, Running, Accepts, NeedsBase
  <2>2. Writes(i, new, {"REGISTRADA"})
    BY <1>2, <2>1 DEF Confirm, Running, Writes, Busy
  <2> QED
    BY <2>1, <2>2 DEF Statuses
<1>3. ASSUME NEW content \in Contents, NEW base \in Bases \cup {NoBase},
             Update(i, content, base)
      PROVE  \E new \in Row, ev \in SUBSET Statuses : Writes(i, new, ev)
  <2> DEFINE new == [seen EXCEPT !.content = content, !.base = base]
  <2>1. new \in Row /\ Edits(seen, new, {})
    BY <1>0, <1>3 DEF Row, Edits, Update, ValidPayload, NeedsBase
  <2>2. Writes(i, new, {})
    BY <1>3, <2>1 DEF Update, Running, Writes, Busy
  <2> QED
    BY <2>1, <2>2
<1>4. CASE Cancel(i)
  <2> DEFINE new == [seen EXCEPT !.status = "ANULADA", !.canceled = TRUE]
  <2>1. seen.status \in Open
    BY <1>0, <1>4 DEF Cancel, Running, Accepts, Row, Statuses, Open, TypeOK, Unborn
  <2>2. new \in Row /\ Cancels(seen, new, {"ANULADA"})
    BY <1>0, <2>1 DEF Row, Cancels, Statuses
  <2>3. Writes(i, new, {"ANULADA"})
    BY <1>4, <2>2 DEF Cancel, Running, Writes, Busy
  <2> QED
    BY <2>2, <2>3 DEF Statuses
<1>5. ASSUME NEW receiver \in Receivers, Deliver(i, receiver)
      PROVE  \E new \in Row, ev \in SUBSET Statuses : Writes(i, new, ev)
  <2> DEFINE new == [seen EXCEPT !.status = "ENTREGADA", !.receiver = receiver]
  <2>1. seen.status \in Open
    BY <1>0, <1>5 DEF Deliver, Running, Accepts, Row, Statuses, Open
  <2>2. new \in Row /\ Delivers(seen, new, {"ENTREGADA"})
    BY <1>0, <2>1 DEF Row, Delivers, Statuses
  <2>3. Writes(i, new, {"ENTREGADA"})
    BY <1>5, <2>2 DEF Deliver, Running, Writes, Busy
  <2> QED
    BY <2>2, <2>3 DEF Statuses
<1> QED
  BY <1>1, <1>2, <1>3, <1>4, <1>5

\* The seven kinds of step.
LEMMA NextShape ==
  ASSUME TypeOK, Next
  PROVE  \/ \E s \in Shipments, initial \in Statuses, content \in Contents,
               base \in Bases \cup {NoBase} :
              Inserts(s, initial, content, base) /\ UNCHANGED <<pc, req>>
         \/ \E i \in Workers, s \in Shipments, base \in Bases : Chats(i, s, base)
         \/ \E i \in Workers, op \in Operations, s \in Shipments : LoadShipment(i, op, s)
         \/ \E i \in Workers : ClearBase(i)
         \/ \E i \in Workers : StartQuote(i)
         \/ \E i \in Workers : Drops(i)
         \/ \E i \in Workers, new \in Row, ev \in SUBSET Statuses : Writes(i, new, ev)
<1>1. CASE \E s \in Shipments : Create(s)
  BY <1>1 DEF Create, CreateShipment, PreRegister, Inserts, Statuses
<1>2. CASE \E i \in Workers, s \in Shipments, base \in Bases : ChatPreRegister(i, s, base)
  BY <1>2 DEF ChatPreRegister, Chats, Inserts, At, Contents
<1>3. ASSUME NEW i \in Workers, Step(i)
      PROVE  \/ ClearBase(i) \/ StartQuote(i) \/ Drops(i)
             \/ \E new \in Row, ev \in SUBSET Statuses : Writes(i, new, ev)
  <2>1. CASE Refuse(i) \/ ConfirmWithoutBase(i) \/ Crash(i)
    BY <2>1 DEF Refuse, ConfirmWithoutBase, Running, Crash, Drops
  <2> QED
    BY <1>3, <2>1, WriteShape DEF Step
<1> QED
  BY <1>1, <1>2, <1>3 DEF Next

-------------------------------------------------------------------------------
LEMMA MergeType ==
  ASSUME NEW stored \in Row, NEW loaded \in Row, NEW assigned \in Row
  PROVE  Merge(stored, loaded, assigned) \in Row
BY DEF Row, Merge, Column

LEMMA TypeInit == Init => TypeOK
BY DEF Init, TypeOK, NoRow, NewRow, NoRequest, Row, Request, Contents, Operations, Unborn

LEMMA TypeEnd ==
  ASSUME TypeOK, NEW i \in Workers, EndRequest(i),
         row' \in [Shipments -> Row], events' \in [Shipments -> SUBSET Statuses]
  PROVE  TypeOK'
<1>1. NoRequest \in Request
  BY DEF NoRequest, Request, NoRow, NewRow, Row, Contents, Operations, Unborn
<1> QED
  BY <1>1 DEF TypeOK, EndRequest, At

LEMMA TypeStep == TypeOK /\ [Next]_vars => TypeOK'
<1> SUFFICES ASSUME TypeOK, [Next]_vars PROVE TypeOK'
  OBVIOUS
<1>1. ASSUME NEW s \in Shipments, NEW initial \in Statuses, NEW content \in Contents,
             NEW base \in Bases \cup {NoBase}, Inserts(s, initial, content, base)
      PROVE  row' \in [Shipments -> Row] /\ events' \in [Shipments -> SUBSET Statuses]
  <2>1. NewRow(initial, content, base) \in Row
    BY DEF NewRow, Row
  <2> QED
    BY <1>1, <2>1 DEF Inserts, Insert, TypeOK
<1>2. ASSUME NEW s \in Shipments, NEW initial \in Statuses, NEW content \in Contents,
             NEW base \in Bases \cup {NoBase}, Inserts(s, initial, content, base),
             UNCHANGED <<pc, req>>
      PROVE  TypeOK'
  BY <1>1, <1>2 DEF TypeOK
<1>3. ASSUME NEW i \in Workers, NEW s \in Shipments, NEW base \in Bases, Chats(i, s, base)
      PROVE  TypeOK'
  <2>1. row' \in [Shipments -> Row] /\ events' \in [Shipments -> SUBSET Statuses]
    BY <1>1, <1>3 DEF Chats, Statuses, Contents
  <2>2. [op |-> "chat", shipment |-> s, seen |-> NoRow] \in Request
    BY DEF Request, NoRow, NewRow, Row, Contents, Unborn
  <2> QED
    BY <1>3, <2>1, <2>2 DEF Chats, TypeOK
<1>4. ASSUME NEW i \in Workers, NEW op \in Operations, NEW s \in Shipments,
             LoadShipment(i, op, s)
      PROVE  TypeOK'
  <2>1. [op |-> op, shipment |-> s, seen |-> row[s]] \in Request
    BY DEF Request, TypeOK
  <2> QED
    BY <1>4, <2>1 DEF LoadShipment, At, TypeOK
<1>5. ASSUME NEW i \in Workers, ClearBase(i)
      PROVE  TypeOK'
  <2>1. row' \in [Shipments -> Row]
    BY <1>5 DEF ClearBase, TypeOK, Row
  <2> QED
    BY <1>5, <2>1, TypeEnd DEF ClearBase, TypeOK
<1>6. ASSUME NEW i \in Workers, StartQuote(i)
      PROVE  TypeOK'
  BY <1>6 DEF StartQuote, Running, At, TypeOK, Request
<1>7. ASSUME NEW i \in Workers, Drops(i)
      PROVE  TypeOK'
  BY <1>7, TypeEnd DEF Drops, TypeOK
<1>8. ASSUME NEW i \in Workers, NEW new \in Row, NEW ev \in SUBSET Statuses, Writes(i, new, ev)
      PROVE  TypeOK'
  <2>1. req[i].shipment \in Shipments /\ req[i].seen \in Row
    BY <1>8 DEF Writes, Busy, TypeOK, Request
  <2>2. row' \in [Shipments -> Row] /\ events' \in [Shipments -> SUBSET Statuses]
    BY <1>8, <2>1, MergeType DEF Writes, Save, TypeOK
  <2> QED
    BY <1>8, <2>2, TypeEnd DEF Writes, Save
<1>9. CASE UNCHANGED vars
  BY <1>9 DEF vars, TypeOK
<1> QED
  BY <1>2, <1>3, <1>4, <1>5, <1>6, <1>7, <1>8, <1>9, NextShape

-------------------------------------------------------------------------------
\* How a committed row can differ from an earlier one of the same shipment.
Later(old, new) ==
  /\ new.status # Unborn
  /\ old.status # "PRE_REGISTRADA" => new.status # "PRE_REGISTRADA"
  /\ old.canceled => new.canceled
  /\ old.receiver # Nobody => new.receiver # Nobody

\* The copy a request holds is of the row as it is or as it was.
Stale ==
  \A i \in Workers :
    /\ pc[i] \in Busy => /\ req[i].seen.status # Unborn
                         /\ Later(req[i].seen, row[req[i].shipment])
    /\ pc[i] # "idle" => row[req[i].shipment].status # Unborn

LEMMA MergeLater ==
  ASSUME NEW stored \in Row, NEW loaded \in Row, NEW new \in Row, NEW ev,
         loaded.status # Unborn, stored.status # Unborn, Later(loaded, stored),
         \/ Edits(loaded, new, ev) \/ Advances(loaded, new, ev)
         \/ Cancels(loaded, new, ev) \/ Delivers(loaded, new, ev)
  PROVE  /\ Later(stored, Merge(stored, loaded, new))
         /\ stored.status = "PRE_REGISTRADA" => Merge(stored, loaded, new).status # "COTIZADA"
         /\ Merge(stored, loaded, new).status \in {stored.status} \cup ev
         /\ Merge(stored, loaded, new).canceled <=> (stored.canceled \/ "ANULADA" \in ev)
         /\ Merge(stored, loaded, new).receiver # Nobody
              <=> (stored.receiver # Nobody \/ "ENTREGADA" \in ev)
<1> USE DEF Merge, Column, Later, Unborn
<1>1. CASE Edits(loaded, new, ev)
  BY <1>1 DEF Edits
<1>2. CASE Advances(loaded, new, ev)
  BY <1>2 DEF Advances
<1>3. CASE Cancels(loaded, new, ev)
  BY <1>3 DEF Cancels, Row
<1>4. CASE Delivers(loaded, new, ev)
  BY <1>4, ConstantsAssumption DEF Delivers, Row
<1> QED
  BY <1>1, <1>2, <1>3, <1>4

\* Every step leaves each existing row as it is or makes a later one of it.
LEMMA RowsMove ==
  ASSUME TypeOK, Stale, [Next]_vars, NEW s \in Shipments, row[s].status # Unborn
  PROVE  /\ Later(row[s], row'[s])
         /\ row[s].status = "PRE_REGISTRADA" => row'[s].status # "COTIZADA"
<1>0. row[s] \in Row
  BY DEF TypeOK
<1>1. CASE row'[s] = row[s]
  BY <1>0, <1>1 DEF Later
<1>2. ASSUME NEW t \in Shipments, NEW initial, NEW content, NEW base,
             Inserts(t, initial, content, base)
      PROVE  row'[s] = row[s]
  BY <1>2 DEF Inserts, Insert, TypeOK
<1>3. ASSUME NEW i \in Workers, ClearBase(i)
      PROVE  /\ Later(row[s], row'[s])
             /\ row[s].status = "PRE_REGISTRADA" => row'[s].status # "COTIZADA"
  BY <1>0, <1>1, <1>3 DEF ClearBase, Later, TypeOK, Row
<1>4. ASSUME NEW i \in Workers, NEW new \in Row, NEW ev \in SUBSET Statuses, Writes(i, new, ev)
      PROVE  /\ Later(row[s], row'[s])
             /\ row[s].status = "PRE_REGISTRADA" => row'[s].status # "COTIZADA"
  <2>1. CASE s = req[i].shipment
    <3>1. row'[s] = Merge(row[s], req[i].seen, new)
      BY <1>4, <2>1 DEF Writes, Save, TypeOK
    <3>2. req[i].seen \in Row /\ req[i].seen.status # Unborn /\ Later(req[i].seen, row[s])
      BY <1>4, <2>1 DEF Writes, Stale, TypeOK, Request
    <3> QED
      BY <1>0, <1>4, <3>1, <3>2, MergeLater DEF Writes
  <2>2. CASE s # req[i].shipment
    BY <1>1, <1>4, <2>2 DEF Writes, Save, TypeOK
  <2> QED
    BY <2>1, <2>2
<1>5. CASE UNCHANGED row
  BY <1>1, <1>5
<1> QED
  BY <1>1, <1>2, <1>3, <1>4, <1>5, NextShape
     DEF Chats, LoadShipment, StartQuote, Drops, vars

LEMMA StaleStep == TypeOK /\ Stale /\ [Next]_vars => Stale'
<1> SUFFICES ASSUME TypeOK, Stale, [Next]_vars PROVE Stale'
  OBVIOUS
<1> DEFINE Good(i) == /\ pc[i] \in Busy => /\ req[i].seen.status # Unborn
                                           /\ Later(req[i].seen, row[req[i].shipment])
                      /\ pc[i] # "idle" => row[req[i].shipment].status # Unborn
\* A thread that does not move keeps its older copy.
<1>1. ASSUME NEW i \in Workers, pc'[i] = pc[i], req'[i] = req[i]
      PROVE  Good(i)'
  <2>1. CASE pc[i] = "idle"
    BY <1>1, <2>1 DEF Busy
  <2>2. CASE pc[i] # "idle"
    <3>1. req[i].shipment \in Shipments /\ row[req[i].shipment].status # Unborn
      BY <2>2 DEF TypeOK, Stale
    <3>2. Later(row[req[i].shipment], row'[req[i].shipment])
      BY <3>1, RowsMove
    <3> QED
      BY <1>1, <3>1, <3>2 DEF Stale, Later
  <2> QED
    BY <2>1, <2>2
<1>2. ASSUME NEW i \in Workers, EndRequest(i)
      PROVE  \A j \in Workers : Good(j)'
  <2>1. ASSUME NEW j \in Workers, j # i
        PROVE  pc'[j] = pc[j] /\ req'[j] = req[j]
    BY <1>2, <2>1 DEF EndRequest, At, TypeOK
  <2>2. pc'[i] = "idle"
    BY <1>2 DEF EndRequest, At, TypeOK
  <2> QED
    BY <1>1, <2>1, <2>2 DEF Busy
<1>3. ASSUME UNCHANGED <<pc, req>>
      PROVE  \A j \in Workers : Good(j)'
  BY <1>1, <1>3
<1>4. ASSUME NEW i \in Workers, NEW s \in Shipments, NEW base \in Bases, Chats(i, s, base)
      PROVE  \A j \in Workers : Good(j)'
  <2>1. ASSUME NEW j \in Workers, j # i
        PROVE  pc'[j] = pc[j] /\ req'[j] = req[j]
    BY <1>4, <2>1 DEF Chats, TypeOK
  <2>2. pc'[i] = "created" /\ req'[i].shipment = s
    BY <1>4 DEF Chats, TypeOK
  <2>3. row'[s].status # Unborn
    BY <1>4 DEF Chats, Inserts, Insert, NewRow, TypeOK, Unborn
  <2> QED
    BY <1>1, <2>1, <2>2, <2>3 DEF Busy
<1>5. ASSUME NEW i \in Workers, NEW op \in Operations, NEW s \in Shipments,
             LoadShipment(i, op, s)
      PROVE  \A j \in Workers : Good(j)'
  <2>1. ASSUME NEW j \in Workers, j # i
        PROVE  pc'[j] = pc[j] /\ req'[j] = req[j]
    BY <1>5, <2>1 DEF LoadShipment, At, TypeOK
  <2>2. /\ pc'[i] = "loaded" /\ req'[i].shipment = s /\ req'[i].seen = row[s]
        /\ row[s].status # Unborn /\ row' = row
    BY <1>5 DEF LoadShipment, At, TypeOK
  <2> QED
    BY <1>1, <2>1, <2>2 DEF Later
<1>6. ASSUME NEW i \in Workers, StartQuote(i)
      PROVE  \A j \in Workers : Good(j)'
  <2>1. ASSUME NEW j \in Workers, j # i
        PROVE  pc'[j] = pc[j] /\ req'[j] = req[j]
    BY <1>6, <2>1 DEF StartQuote, At, TypeOK
  <2>2. /\ pc'[i] = "quoting" /\ req'[i].shipment = req[i].shipment
        /\ req'[i].seen = row[req[i].shipment] /\ row' = row
    BY <1>6 DEF StartQuote, At, TypeOK, Request
  <2>3. row[req[i].shipment].status # Unborn
    BY <1>6 DEF StartQuote, Running, Stale
  <2> QED
    BY <1>1, <2>1, <2>2, <2>3 DEF Later
<1>7. \A j \in Workers : Good(j)'
  BY <1>2, <1>3, <1>4, <1>5, <1>6, NextShape DEF ClearBase, Drops, Writes, Save, vars
<1> QED
  BY <1>7 DEF Stale

LEMMA TimelineStep == TypeOK /\ Stale /\ TimelineAgrees /\ [Next]_vars => TimelineAgrees'
<1> SUFFICES ASSUME TypeOK, Stale, TimelineAgrees, [Next]_vars, NEW s \in Shipments
             PROVE  /\ row'[s].status # Unborn => row'[s].status \in events'[s]
                    /\ "ENTREGADA" \in events'[s] <=> row'[s].receiver # Nobody
                    /\ "ANULADA" \in events'[s] <=> row'[s].canceled
  BY DEF TimelineAgrees
<1> DEFINE Agrees == /\ row[s].status # Unborn => row[s].status \in events[s]
                     /\ "ENTREGADA" \in events[s] <=> row[s].receiver # Nobody
                     /\ "ANULADA" \in events[s] <=> row[s].canceled
<1>0. Agrees /\ row[s] \in Row
  BY DEF TimelineAgrees, TypeOK
<1>1. CASE row'[s] = row[s] /\ events'[s] = events[s]
  BY <1>0, <1>1
<1>2. ASSUME NEW t \in Shipments, NEW initial, NEW content, NEW base,
             Inserts(t, initial, content, base)
      PROVE  Agrees'
  <2>1. CASE s = t
    <3>1. row'[s] = NewRow(initial, content, base) /\ events'[s] = {initial}
      BY <1>2, <2>1 DEF Inserts, Insert, TypeOK
    <3> QED
      BY <1>2, <3>1 DEF Inserts, NewRow
  <2>2. CASE s # t
    BY <1>1, <1>2, <2>2 DEF Inserts, Insert, TypeOK
  <2> QED
    BY <2>1, <2>2
<1>3. ASSUME NEW i \in Workers, ClearBase(i)
      PROVE  Agrees'
  BY <1>0, <1>3 DEF ClearBase, TypeOK, Row
<1>4. ASSUME NEW i \in Workers, NEW new \in Row, NEW ev \in SUBSET Statuses, Writes(i, new, ev)
      PROVE  Agrees'
  <2>1. CASE s = req[i].shipment
    <3>1. /\ row'[s] = Merge(row[s], req[i].seen, new)
          /\ events'[s] = events[s] \cup ev
      BY <1>4, <2>1 DEF Writes, Save, TypeOK
    <3>2. /\ req[i].seen \in Row /\ req[i].seen.status # Unborn /\ Later(req[i].seen, row[s])
          /\ row[s].status # Unborn
      BY <1>4, <2>1 DEF Writes, Stale, TypeOK, Request, Later
    <3>3. /\ Merge(row[s], req[i].seen, new).status \in {row[s].status} \cup ev
          /\ Merge(row[s], req[i].seen, new).canceled <=> (row[s].canceled \/ "ANULADA" \in ev)
          /\ Merge(row[s], req[i].seen, new).receiver # Nobody
               <=> (row[s].receiver # Nobody \/ "ENTREGADA" \in ev)
      BY <1>0, <1>4, <3>2, MergeLater DEF Writes
    <3> QED
      BY <1>0, <3>1, <3>2, <3>3
  <2>2. CASE s # req[i].shipment
    BY <1>1, <1>4, <2>2 DEF Writes, Save, TypeOK
  <2> QED
    BY <2>1, <2>2
<1>5. CASE UNCHANGED <<row, events>>
  BY <1>1, <1>5
<1> QED
  BY <1>1, <1>2, <1>3, <1>4, <1>5, NextShape
     DEF Chats, LoadShipment, StartQuote, Drops, vars

IInv == TypeOK /\ Stale /\ TimelineAgrees

LEMMA Invariance == Spec => []IInv
<1>1. Init => IInv
  BY TypeInit, ConstantsAssumption
     DEF Init, IInv, Stale, Busy, TimelineAgrees, NoRow, NewRow
<1>2. IInv /\ [Next]_vars => IInv'
  BY TypeStep, StaleStep, TimelineStep DEF IInv
<1> QED
  BY <1>1, <1>2, PTL DEF Spec

\* Rows, events and requests keep their types, and a busy thread has a shipment.
THEOREM TypeCorrect == Spec => []TypeOK
BY Invariance, PTL DEF IInv

\* However many requests overlap on a shipment, its status was announced to the
\* customer, and it has a receiver or a cancellation on record exactly if the
\* timeline shows a delivery or a cancellation.
THEOREM TimelineAlwaysAgrees == Spec => []TimelineAgrees
BY Invariance, PTL DEF IInv

\* No request, however stale its copy of the row, brings a shipment back to
\* PRE_REGISTRADA or takes it from there to COTIZADA.
THEOREM PreRegistrationIsLeftOnce == Spec => LeavesPreRegistrationOnce
<1>1. IInv /\ [Next]_vars =>
        [\A s \in Shipments :
           /\ row[s].status \notin {Unborn, "PRE_REGISTRADA"}
                => row'[s].status # "PRE_REGISTRADA"
           /\ row[s].status = "PRE_REGISTRADA" => row'[s].status # "COTIZADA"]_vars
  <2> SUFFICES ASSUME IInv, [Next]_vars, NEW s \in Shipments, row[s].status # Unborn
               PROVE  /\ row[s].status # "PRE_REGISTRADA" => row'[s].status # "PRE_REGISTRADA"
                      /\ row[s].status = "PRE_REGISTRADA" => row'[s].status # "COTIZADA"
    BY DEF Unborn
  <2> QED
    BY RowsMove DEF IInv, Later
<1> QED
  BY <1>1, Invariance, PTL DEF Spec, LeavesPreRegistrationOnce
-------------------------------------------------------------------------------
\* When requests for one shipment do not overlap, what a request holds is
\* the row as it is, and nobody touches a pre-registration the chat is making.
Fresh ==
  \A i \in Workers :
    /\ pc[i] \in Busy => /\ req[i].seen.status # Unborn
                         /\ row[req[i].shipment] = req[i].seen
    /\ pc[i] = "created" => row[req[i].shipment].status = "PRE_REGISTRADA"

LEMMA MergeFresh ==
  ASSUME NEW loaded \in Row, NEW new \in Row
  PROVE  Merge(loaded, loaded, new) = new
BY DEF Merge, Column, Row

LEMMA WriteFresh ==
  ASSUME TypeOK, Fresh, NEW i \in Workers, NEW new \in Row, NEW ev, Writes(i, new, ev)
  PROVE  row' = [row EXCEPT ![req[i].shipment] = new]
<1>1. req[i].seen \in Row /\ row[req[i].shipment] = req[i].seen
  BY DEF Writes, Fresh, TypeOK, Request
<1> QED
  BY <1>1, MergeFresh DEF Writes, Save

\* A thread whose request goes on over a step in which its row stays the same.
LEMMA FreshKept ==
  ASSUME TypeOK, Fresh, NEW i \in Workers, pc'[i] = pc[i], req'[i] = req[i],
         pc[i] # "idle" => row'[req[i].shipment] = row[req[i].shipment]
  PROVE  /\ pc'[i] \in Busy => /\ req'[i].seen.status # Unborn
                               /\ row'[req'[i].shipment] = req'[i].seen
         /\ pc'[i] = "created" => row'[req'[i].shipment].status = "PRE_REGISTRADA"
BY DEF Fresh, Busy

LEMMA FreshStep == TypeOK /\ Fresh /\ Disjoint /\ [Next]_vars => Fresh'
<1> SUFFICES ASSUME TypeOK, Fresh, Disjoint, [Next]_vars PROVE Fresh'
  OBVIOUS
<1> DEFINE Good(j) == /\ pc[j] \in Busy => /\ req[j].seen.status # Unborn
                                           /\ row[req[j].shipment] = req[j].seen
                      /\ pc[j] = "created" => row[req[j].shipment].status = "PRE_REGISTRADA"
           Still(j) == pc'[j] = pc[j] /\ req'[j] = req[j]
\* A thread with a request has an existing row, so an INSERT is not about it.
<1>0. ASSUME NEW j \in Workers, pc[j] # "idle"
      PROVE  req[j].shipment \in Shipments /\ row[req[j].shipment].status # Unborn
  BY <1>0 DEF Fresh, Busy, TypeOK, Unborn
<1>1. ASSUME NEW s \in Shipments, NEW initial, NEW content, NEW base,
             Inserts(s, initial, content, base)
      PROVE  \A j \in Workers : Still(j) => Good(j)'
  <2>1. ASSUME NEW j \in Workers, pc[j] # "idle"
        PROVE  row'[req[j].shipment] = row[req[j].shipment]
    BY <1>0, <1>1, <2>1 DEF Inserts, Insert, TypeOK
  <2> QED
    BY <2>1, FreshKept
<1>2. ASSUME NEW i \in Workers, NEW s \in Shipments, NEW base \in Bases, Chats(i, s, base)
      PROVE  \A j \in Workers : Good(j)'
  <2>1. \A j \in Workers \ {i} : Still(j)
    BY <1>2 DEF Chats, TypeOK
  <2>2. /\ pc'[i] = "created" /\ req'[i].shipment = s
        /\ row'[s].status = "PRE_REGISTRADA"
    BY <1>2 DEF Chats, Inserts, Insert, NewRow, TypeOK
  <2> QED
    BY <1>1, <1>2, <2>1, <2>2 DEF Chats, Busy
<1>3. ASSUME NEW i \in Workers, NEW op \in Operations, NEW s \in Shipments,
             LoadShipment(i, op, s)
      PROVE  \A j \in Workers : Good(j)'
  <2>1. \A j \in Workers \ {i} : Still(j)
    BY <1>3 DEF LoadShipment, At, TypeOK
  <2>2. /\ pc'[i] = "loaded" /\ req'[i].shipment = s /\ req'[i].seen = row[s]
        /\ row[s].status # Unborn /\ row' = row
    BY <1>3 DEF LoadShipment, At, TypeOK
  <2> QED
    BY <2>1, <2>2, FreshKept
<1>4. ASSUME NEW i \in Workers, StartQuote(i)
      PROVE  \A j \in Workers : Good(j)'
  <2>1. \A j \in Workers \ {i} : Still(j)
    BY <1>4 DEF StartQuote, At, TypeOK
  <2>2. /\ pc'[i] = "quoting" /\ req'[i].shipment = req[i].shipment
        /\ req'[i].seen = row[req[i].shipment] /\ row' = row
        /\ row[req[i].shipment].status # Unborn
    BY <1>0, <1>4 DEF StartQuote, Running, At, TypeOK, Request
  <2> QED
    BY <2>1, <2>2, FreshKept
\* The thread that writes and ends; the others work on other rows.
<1>5. ASSUME NEW i \in Workers, EndRequest(i), pc[i] # "idle",
             \A s \in Shipments \ {req[i].shipment} : row'[s] = row[s]
      PROVE  \A j \in Workers : Good(j)'
  <2>1. ASSUME NEW j \in Workers, j # i, pc[j] # "idle"
        PROVE  row'[req[j].shipment] = row[req[j].shipment]
    BY <1>0, <1>5, <2>1 DEF Disjoint
  <2>2. \A j \in Workers \ {i} : Still(j)
    BY <1>5 DEF EndRequest, At, TypeOK
  <2>3. pc'[i] = "idle"
    BY <1>5 DEF EndRequest, At, TypeOK
  <2> QED
    BY <2>1, <2>2, <2>3, FreshKept DEF Busy
<1>6. ASSUME NEW i \in Workers, ClearBase(i)
      PROVE  \A j \in Workers : Good(j)'
  BY <1>5, <1>6 DEF ClearBase, TypeOK
<1>7. ASSUME NEW i \in Workers, Drops(i)
      PROVE  \A j \in Workers : Good(j)'
  BY <1>5, <1>7 DEF Drops
<1>8. ASSUME NEW i \in Workers, NEW new \in Row, NEW ev \in SUBSET Statuses, Writes(i, new, ev)
      PROVE  \A j \in Workers : Good(j)'
  <2>1. pc[i] # "idle" /\ EndRequest(i)
    BY <1>8 DEF Writes, Busy, Save
  <2> QED
    BY <1>5, <1>8, <2>1, WriteFresh DEF TypeOK
<1>9. CASE UNCHANGED vars
  BY <1>9 DEF vars, Fresh
<1>10. \A j \in Workers : Good(j)'
  BY <1>1, <1>2, <1>3, <1>4, <1>6, <1>7, <1>8, <1>9, NextShape DEF vars, Fresh
<1> QED
  BY <1>10 DEF Fresh

LEMMA BaseStep == TypeOK /\ Fresh /\ RegisteredHasBase /\ [Next]_vars => RegisteredHasBase'
<1> SUFFICES ASSUME TypeOK, Fresh, RegisteredHasBase, [Next]_vars, NEW s \in Shipments,
                    row'[s].status \in {"REGISTRADA", "COTIZADA"}
             PROVE  ~NeedsBase(row'[s])
  BY DEF RegisteredHasBase
<1>0. row[s] \in Row
  BY DEF TypeOK
<1>1. CASE row'[s] = row[s]
  BY <1>1 DEF RegisteredHasBase
<1>2. ASSUME NEW t \in Shipments, NEW initial, NEW content, NEW base,
             Inserts(t, initial, content, base)
      PROVE  ~NeedsBase(row'[s])
  BY <1>1, <1>2 DEF Inserts, Insert, NewRow, NeedsBase, ValidPayload, TypeOK
<1>3. ASSUME NEW i \in Workers, ClearBase(i)
      PROVE  ~NeedsBase(row'[s])
  BY <1>0, <1>1, <1>3 DEF ClearBase, Fresh, TypeOK, Row
<1>4. ASSUME NEW i \in Workers, NEW new \in Row, NEW ev \in SUBSET Statuses, Writes(i, new, ev)
      PROVE  ~NeedsBase(row'[s])
  <2>1. row' = [row EXCEPT ![req[i].shipment] = new]
    BY <1>4, WriteFresh
  <2>2. CASE s = req[i].shipment
    <3>1. row'[s] = new /\ row[s] = req[i].seen
      BY <1>4, <2>1, <2>2 DEF Writes, Fresh, TypeOK
    <3> QED
      BY <1>4, <3>1
         DEF Writes, Edits, Advances, Cancels, Delivers, RegisteredHasBase, NeedsBase
  <2> QED
    BY <1>1, <2>1, <2>2 DEF TypeOK
<1> QED
  BY <1>1, <1>2, <1>3, <1>4, NextShape DEF Chats, LoadShipment, StartQuote, Drops, vars

LEMMA MachineStep ==
  TypeOK /\ Fresh /\ [Next]_vars => [Machine!Next]_([s \in Shipments |-> row[s].status])
<1> DEFINE st == [s \in Shipments |-> row[s].status]
<1> SUFFICES ASSUME TypeOK, Fresh, [Next]_vars, st' # st PROVE Machine!Next
  OBVIOUS
<1> USE DEF Machine!Next, Machine!Move, Machine!Unborn, Machine!Open
<1>1. ASSUME NEW s \in Shipments, NEW initial, NEW content, NEW base,
             Inserts(s, initial, content, base)
      PROVE  Machine!Next
  <2>1. st[s] = Unborn /\ st' = [st EXCEPT ![s] = initial]
    BY <1>1 DEF Inserts, Insert, NewRow, TypeOK
  <2> QED
    BY <1>1, <2>1 DEF Inserts, Unborn, Machine!PreRegister, Machine!Register
<1>2. ASSUME NEW i \in Workers, ClearBase(i)
      PROVE  FALSE
  <2>1. \A s \in Shipments : row'[s].status = row[s].status
    BY <1>2 DEF ClearBase, TypeOK, Row
  <2> QED
    BY <2>1
<1>3. ASSUME NEW i \in Workers, NEW new \in Row, NEW ev \in SUBSET Statuses, Writes(i, new, ev)
      PROVE  Machine!Next
  <2> DEFINE s == req[i].shipment
  <2>1. s \in Shipments /\ row[s] = req[i].seen /\ st[s] = req[i].seen.status
    BY <1>3 DEF Writes, Busy, Fresh, TypeOK
  <2>2. row' = [row EXCEPT ![s] = new]
    BY <1>3, WriteFresh
  <2>3. st' = [st EXCEPT ![s] = new.status]
    BY <2>1, <2>2 DEF TypeOK
  <2>4. new.status # req[i].seen.status
    BY <2>1, <2>3
  <2>5. CASE Advances(req[i].seen, new, ev)
    BY <2>1, <2>3, <2>5 DEF Advances, Machine!Confirm, Machine!Quote
  <2>6. CASE Cancels(req[i].seen, new, ev)
    BY <2>1, <2>3, <2>6 DEF Cancels, Open, Machine!Cancel
  <2>7. CASE Delivers(req[i].seen, new, ev)
    BY <2>1, <2>3, <2>7 DEF Delivers, Open, Machine!Deliver
  <2> QED
    BY <1>3, <2>4, <2>5, <2>6, <2>7 DEF Writes, Edits
<1>4. ~UNCHANGED row
  OBVIOUS
<1> QED
  BY <1>1, <1>2, <1>3, <1>4, NextShape DEF Chats, LoadShipment, StartQuote, Drops, vars

DInv == TypeOK /\ Fresh /\ Disjoint /\ RegisteredHasBase

LEMMA DisjointInvariance == DisjointSpec => []DInv
<1>1. Init => DInv
  BY TypeInit DEF Init, DInv, Fresh, Busy, Disjoint, RegisteredHasBase, NoRow, NewRow, Unborn
<1>2. DInv /\ [Next /\ Disjoint']_vars => DInv'
  <2> SUFFICES ASSUME DInv, [Next /\ Disjoint']_vars PROVE DInv'
    OBVIOUS
  <2>1. [Next]_vars
    OBVIOUS
  <2>2. Disjoint'
    BY DEF DInv, Disjoint, vars
  <2> QED
    BY <2>1, <2>2, TypeStep, FreshStep, BaseStep DEF DInv
<1> QED
  BY <1>1, <1>2, PTL DEF DisjointSpec

\* A registered package always has its base, as long as the requests for one
\* shipment do not overlap; the crash of a request is no exception.
THEOREM BaseIsKept == DisjointSpec => []RegisteredHasBase
BY DisjointInvariance, PTL DEF DInv

\* Under the same assumption every shipment follows the state machine its guards
\* describe, for any number of threads and shipments.
THEOREM MachineImplemented == DisjointSpec => ImplementsMachine
<1>1. Init => Machine!Init
  BY DEF Init, Machine!Init, NoRow, NewRow, Unborn, Machine!Unborn
<1>2. DInv /\ [Next /\ Disjoint']_vars
        => [Machine!Next]_([s \in Shipments |-> row[s].status])
  BY MachineStep DEF DInv
<1> QED
  BY <1>1, <1>2, DisjointInvariance, PTL DEF DisjointSpec, ImplementsMachine, Machine!Spec

\* Only a shipment that is ENTREGADA has a receiver.
Handed == \A s \in Shipments : row[s].receiver # Nobody => row[s].status = "ENTREGADA"

LEMMA HandedStep ==
  ASSUME TypeOK, Fresh, Handed, [Next]_vars, NEW s \in Shipments
  PROVE  /\ row'[s].receiver # Nobody => row'[s].status = "ENTREGADA"
         /\ row[s].receiver # Nobody => row'[s].receiver = row[s].receiver
<1> DEFINE Goal == /\ row'[s].receiver # Nobody => row'[s].status = "ENTREGADA"
                   /\ row[s].receiver # Nobody => row'[s].receiver = row[s].receiver
<1>1. CASE row'[s] = row[s]
  BY <1>1 DEF Handed
<1>2. ASSUME NEW t \in Shipments, NEW initial, NEW content, NEW base,
             Inserts(t, initial, content, base)
      PROVE  Goal
  <2>1. CASE t = s
    <3>1. row'[s].receiver = Nobody /\ row[s].status = Unborn
      BY <1>2, <2>1 DEF Inserts, Insert, NewRow, TypeOK
    <3> QED
      BY <3>1 DEF Handed, Unborn
  <2>2. CASE t # s
    BY <1>1, <1>2, <2>2 DEF Inserts, Insert, TypeOK
  <2> QED
    BY <2>1, <2>2
<1>3. ASSUME NEW i \in Workers, ClearBase(i)
      PROVE  Goal
  <2>1. row'[s].receiver = row[s].receiver /\ row'[s].status = row[s].status
    BY <1>3 DEF ClearBase, TypeOK, Row
  <2> QED
    BY <2>1 DEF Handed
<1>4. ASSUME NEW i \in Workers, NEW new \in Row, NEW ev \in SUBSET Statuses, Writes(i, new, ev)
      PROVE  Goal
  <2>1. row' = [row EXCEPT ![req[i].shipment] = new]
    BY <1>4, WriteFresh
  <2>2. CASE s = req[i].shipment
    <3>1. row'[s] = new /\ row[s] = req[i].seen
      BY <1>4, <2>1, <2>2 DEF Writes, Fresh, TypeOK
    <3>2. row[s].receiver # Nobody => row[s].status = "ENTREGADA"
      BY DEF Handed
    <3> QED
      BY <1>4, <3>1, <3>2 DEF Writes, Edits, Advances, Cancels, Delivers, Open
  <2> QED
    BY <1>1, <2>1, <2>2 DEF TypeOK
<1> QED
  BY <1>1, <1>2, <1>3, <1>4, NextShape DEF Chats, LoadShipment, StartQuote, Drops, vars

\* The first receiver on record stays the receiver, as long as the requests for
\* one shipment do not overlap: retries and crashes do not replace it.
THEOREM FirstReceiverStays == DisjointSpec => DeliveredOnce
<1>1. Init => Handed
  BY DEF Init, Handed, NoRow, NewRow
<1>2. DInv /\ Handed /\ [Next /\ Disjoint']_vars => Handed'
  <2> SUFFICES ASSUME DInv, Handed, [Next]_vars PROVE Handed'
    OBVIOUS
  <2> QED
    BY HandedStep DEF DInv, Handed
<1>3. DInv /\ Handed /\ [Next /\ Disjoint']_vars
        => [\A s \in Shipments :
              row[s].receiver # Nobody => row'[s].receiver = row[s].receiver]_vars
  <2> SUFFICES ASSUME DInv, Handed, [Next]_vars, NEW s \in Shipments,
                      row[s].receiver # Nobody
               PROVE  row'[s].receiver = row[s].receiver
    OBVIOUS
  <2> QED
    BY HandedStep DEF DInv
<1> QED
  BY <1>1, <1>2, <1>3, DisjointInvariance, PTL DEF DisjointSpec, DeliveredOnce
===============================================================================
