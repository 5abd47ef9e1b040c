------------------------------ MODULE PaymentFlow ------------------------------
(***************************************************************************)
(* Online payments: app/modules/payments and yape, the numbering of        *)
(* app/modules/charge_logs, and the emission logs of measurement_logs that *)
(* a payment or a confirmation opens and the download of a receipt closes. *)
(*                                                                         *)
(* Each element of Cashiers is a thread that serves one request at a time. *)
(* A payment calls the gateway, then writes the charge log under a lock on *)
(* its table, then the timeline, then the emission log, each in a          *)
(* transaction of its own; a failed charge log is swallowed.  The emission *)
(* log is looked up and then inserted or closed: no constraint and no lock *)
(* protects what was found.                                                *)
(***************************************************************************)
EXTENDS Naturals, Sequences, FiniteSets, FiniteSetsExt

CONSTANTS
  Cashiers,      \* threads that serve requests
  Shipments,     \* rows of encomiendas
  NoCashier,     \* the lock on logs_de_cobro is free
  NoShipment,    \* encomienda_id is missing
  MaxRows        \* payments and confirmations come while there is room

ASSUME ConstantsAssumption ==
  /\ NoCashier \notin Cashiers
  /\ NoShipment \notin Shipments
  /\ MaxRows \in Nat

VARIABLES
  accepted,    \* payments the gateway has taken: approved or pending
  charged,     \* shipments with an approved payment at the gateway
  chargeLogs,  \* committed rows of logs_de_cobro, in the order of commit
  lock,        \* the thread that holds the EXCLUSIVE lock on that table
  announced,   \* shipments with a PAGO_APROBADO event on their timeline
  logs,        \* committed rows of logs_emision_boleta, by id
  pc,          \* where each thread is in its request
  req          \* the request and what it has read so far

vars == <<accepted, charged, chargeLogs, lock, announced, logs, pc, req>>

\* The state that a payment leaves alone once the gateway has answered.
gateway == <<accepted, charged>>

-------------------------------------------------------------------------------
Gateways == {"card", "yape"}

Operations == Gateways \cup {"confirm", "download"}

Answers == {"approved", "pending", "rejected", "error"}

ChargeLog == [number : Nat, result : {"Exitoso", "Fallido"}]

EmissionLog == [shipment : Shipments, open : BOOLEAN]

Points ==
  {"idle", "calling", "answered", "waiting", "numbered", "logged", "searching",
   "opening", "closing"}

Request ==
  [op : Operations, shipment : Shipments \cup {NoShipment}, answer : Answers,
   number : Nat, found : Nat]

NoRequest ==
  [op |-> "card", shipment |-> NoShipment, answer |-> "error", number |-> 0,
   found |-> 0]

OpenLogs(s) == {n \in DOMAIN logs : logs[n].shipment = s /\ logs[n].open}

TypeOK ==
  /\ accepted \in Nat
  /\ charged \subseteq Shipments
  /\ chargeLogs \in Seq(ChargeLog)
  /\ lock \in Cashiers \cup {NoCashier}
  /\ announced \subseteq Shipments
  /\ logs \in Seq(EmissionLog)
  /\ pc \in [Cashiers -> Points]
  /\ req \in [Cashiers -> Request]
  /\ \A i \in Cashiers :
       /\ pc[i] \in {"searching", "opening", "closing"} => req[i].shipment \in Shipments
       /\ pc[i] = "closing" => req[i].found \in DOMAIN logs
-------------------------------------------------------------------------------
Init ==
  /\ accepted = 0
  /\ charged = {}
  /\ chargeLogs = <<>>
  /\ lock = NoCashier
  /\ announced = {}
  /\ logs = <<>>
  /\ pc = [i \in Cashiers |-> "idle"]
  /\ req = [i \in Cashiers |-> NoRequest]

At(i, point) == pc' = [pc EXCEPT ![i] = point]

\* The lock goes with the transaction that took it.
Unlock(i) == lock' = IF lock = i THEN NoCashier ELSE lock

EndRequest(i) ==
  /\ At(i, "idle")
  /\ req' = [req EXCEPT ![i] = NoRequest]
  /\ Unlock(i)

\* The bound on executions: MaxRows payments taken, charge logs or emission logs.
Room ==
  /\ accepted < MaxRows
  /\ Len(chargeLogs) < MaxRows
  /\ Len(logs) < MaxRows

Start(i, op, s, point) ==
  /\ pc[i] = "idle"
  /\ req' = [req EXCEPT ![i] = [NoRequest EXCEPT !.op = op, !.shipment = s]]
  /\ At(i, point)
  /\ UNCHANGED <<gateway, chargeLogs, lock, announced, logs>>

\* POST /payments/process-payment and /yape/process-payment, with a shipment or
\* without one.
StartPayment(i, op, s) == Room /\ Start(i, op, s, "calling")

\* The tail of a confirmation, and that of the download of a receipt.
StartConfirm(i, s) == Room /\ Start(i, "confirm", s, "searching")

StartDownload(i, s) == Start(i, "download", s, "searching")

\* The gateway takes a payment: approves it or leaves it pending.
Take(i, approves) ==
  /\ accepted' = accepted + 1
  /\ charged' = IF approves /\ req[i].shipment # NoShipment
                THEN charged \cup {req[i].shipment} ELSE charged

\* Mercado Pago answers, or the simulation does in its place.
GatewayAnswers(i) ==
  /\ pc[i] = "calling"
  /\ \E a \in {"approved", "pending", "rejected"} :
       /\ IF a = "rejected" THEN UNCHANGED gateway ELSE Take(i, a = "approved")
       /\ req' = [req EXCEPT ![i].answer = a]
  /\ At(i, "answered")
  /\ UNCHANGED <<chargeLogs, lock, announced, logs>>

\* The input is not valid, the gateway returns an error, or its answer is lost:
\* it may have taken the payment all the same.
GatewayFails(i) ==
  /\ pc[i] = "calling"
  /\ UNCHANGED gateway \/ \E approves \in BOOLEAN : Take(i, approves)
  /\ req' = [req EXCEPT ![i].answer = "error"]
  /\ At(i, "answered")
  /\ UNCHANGED <<chargeLogs, lock, announced, logs>>

\* LOCK TABLE logs_de_cobro IN EXCLUSIVE MODE: the request is queued.
AskLock(i) ==
  /\ pc[i] = "answered"
  /\ At(i, "waiting")
  /\ UNCHANGED <<gateway, chargeLogs, lock, announced, logs, req>>

LastNumber == Max({chargeLogs[n].number : n \in DOMAIN chargeLogs} \cup {0})

\* Mutant of TakeNumber: the table is not locked.
TakeNumberUnlocked(i) ==
  /\ pc[i] = "waiting"
  /\ req' = [req EXCEPT ![i].number = LastNumber + 1]
  /\ At(i, "numbered")
  /\ UNCHANGED <<gateway, chargeLogs, lock, announced, logs>>

\* The lock is granted and the next number is read under it.
TakeNumber(i) ==
  /\ pc[i] = "waiting"
  /\ lock = NoCashier
  /\ lock' = i
  /\ req' = [req EXCEPT ![i].number = LastNumber + 1]
  /\ At(i, "numbered")
  /\ UNCHANGED <<gateway, chargeLogs, announced, logs>>

\* Mutant of Succeeded: whatever was answered is a success.
SucceededAlways(r) == TRUE

\* infer_card_payment_result counts a pending payment as a success,
\* infer_yape_payment_result does not.
Succeeded(r) ==
  r.answer = "approved" \/ (r.op = "card" /\ r.answer = "pending")

\* create_charge_log: INSERT and COMMIT.
InsertChargeLog(i) ==
  /\ pc[i] = "numbered"
  /\ chargeLogs' = Append(chargeLogs,
                     [number |-> req[i].number,
                      result |-> IF Succeeded(req[i]) THEN "Exitoso" ELSE "Fallido"])
  /\ Unlock(i)
  /\ At(i, "logged")
  /\ UNCHANGED <<gateway, announced, logs, req>>

\* Mutant of LogFails: the failure reaches the customer.
LogFailsLoudly(i) ==
  /\ pc[i] \in {"waiting", "numbered"}
  /\ EndRequest(i)
  /\ UNCHANGED <<gateway, chargeLogs, announced, logs>>

\* register_charge_log swallows every exception and rolls back.
LogFails(i) ==
  /\ pc[i] \in {"waiting", "numbered"}
  /\ Unlock(i)
  /\ At(i, "logged")
  /\ UNCHANGED <<gateway, chargeLogs, announced, logs, req>>

Approved(r) == r.answer = "approved" /\ r.shipment # NoShipment

\* Mutant of RecordsPayment: a pending payment is announced as well.
RecordsPending(r) == r.answer \in {"approved", "pending"} /\ r.shipment # NoShipment

\* The condition under which the endpoints go on to the shipment.
RecordsPayment(r) == Approved(r)

\* The error or the result goes back to the customer.
EndPayment(i) ==
  /\ pc[i] = "logged"
  /\ ~RecordsPayment(req[i])
  /\ EndRequest(i)
  /\ UNCHANGED <<gateway, chargeLogs, announced, logs>>

\* PAGO_APROBADO on the timeline, committed.
Announce(i) ==
  /\ pc[i] = "logged"
  /\ RecordsPayment(req[i])
  /\ announced' = announced \cup {req[i].shipment}
  /\ At(i, "searching")
  /\ UNCHANGED <<gateway, chargeLogs, lock, logs, req>>

\* start_boleta_log finds an open log of the shipment and keeps to it.
FindOpenLog(i) ==
  /\ pc[i] = "searching"
  /\ req[i].op # "download"
  /\ OpenLogs(req[i].shipment) # {}
  /\ EndRequest(i)
  /\ UNCHANGED <<gateway, chargeLogs, announced, logs>>

\* Mutant of FindNoOpenLog: whether one is open is not asked.
OpenAnother(i) ==
  /\ pc[i] = "searching"
  /\ req[i].op # "download"
  /\ At(i, "opening")
  /\ UNCHANGED <<gateway, chargeLogs, lock, announced, logs, req>>

\* It finds none ...
FindNoOpenLog(i) ==
  /\ pc[i] = "searching"
  /\ req[i].op # "download"
  /\ OpenLogs(req[i].shipment) = {}
  /\ At(i, "opening")
  /\ UNCHANGED <<gateway, chargeLogs, lock, announced, logs, req>>

\* ... and inserts one.
OpenLog(i) ==
  /\ pc[i] = "opening"
  /\ logs' = Append(logs, [shipment |-> req[i].shipment, open |-> TRUE])
  /\ EndRequest(i)
  /\ UNCHANGED <<gateway, chargeLogs, announced>>

\* finish_open_boleta_log_by_shipment takes the newest open log, if any ...
FindLogToClose(i) ==
  /\ pc[i] = "searching"
  /\ req[i].op = "download"
  /\ OpenLogs(req[i].shipment) # {}
  /\ req' = [req EXCEPT ![i].found = Max(OpenLogs(req[i].shipment))]
  /\ At(i, "closing")
  /\ UNCHANGED <<gateway, chargeLogs, lock, announced, logs>>

\* Mutant of FindNothingToClose: that there is none is not looked at.
CloseNothing(i) ==
  /\ pc[i] = "searching"
  /\ req[i].op = "download"
  /\ OpenLogs(req[i].shipment) = {}
  /\ At(i, "closing")
  /\ UNCHANGED <<gateway, chargeLogs, lock, announced, logs, req>>

\* ... and none is no error ...
FindNothingToClose(i) ==
  /\ pc[i] = "searching"
  /\ req[i].op = "download"
  /\ OpenLogs(req[i].shipment) = {}
  /\ EndRequest(i)
  /\ UNCHANGED <<gateway, chargeLogs, announced, logs>>

\* ... and closes it.
CloseLog(i) ==
  /\ pc[i] = "closing"
  /\ logs' = [logs EXCEPT ![req[i].found].open = FALSE]
  /\ EndRequest(i)
  /\ UNCHANGED <<gateway, chargeLogs, announced>>

\* The process stops or the connection breaks: the open transaction is rolled
\* back, what the gateway did and what was committed stays.
Crash(i) ==
  /\ pc[i] # "idle"
  /\ EndRequest(i)
  /\ UNCHANGED <<gateway, chargeLogs, announced, logs>>
-------------------------------------------------------------------------------
\* The steps a thread takes when nothing breaks but the gateway.
Step(i) ==
  \/ GatewayAnswers(i)
  \/ GatewayFails(i)
  \/ AskLock(i)
  \/ TakeNumber(i)
  \/ InsertChargeLog(i)
  \/ EndPayment(i)
  \/ Announce(i)
  \/ FindOpenLog(i)
  \/ FindNoOpenLog(i)
  \/ OpenLog(i)
  \/ FindLogToClose(i)
  \/ FindNothingToClose(i)
  \/ CloseLog(i)

Arrival(i) ==
  \/ \E op \in Gateways, s \in Shipments \cup {NoShipment} : StartPayment(i, op, s)
  \/ \E s \in Shipments : StartConfirm(i, s) \/ StartDownload(i, s)

CalmNext == \E i \in Cashiers : Arrival(i) \/ Step(i) \/ LogFails(i)

Next == CalmNext \/ \E i \in Cashiers : Crash(i)

Spec == Init /\ [][Next]_vars

\* The executions in which no two requests are ever busy with one shipment.
Disjoint ==
  \A i, j \in Cashiers :
    /\ pc[i] # "idle" /\ pc[j] # "idle"
    /\ req[i].shipment = req[j].shipment /\ req[i].shipment # NoShipment
    => i = j

DisjointSpec == Init /\ [][Next /\ Disjoint']_vars
-------------------------------------------------------------------------------
\* Row n of the charge log carries observation number n, in the order of commit:
\* the column has no unique constraint, so only the table lock keeps concurrent
\* payments and rolled-back attempts from repeating or skipping a number.
ChargesNumbered == \A n \in DOMAIN chargeLogs : chargeLogs[n].number = n

Successes == {n \in DOMAIN chargeLogs : chargeLogs[n].result = "Exitoso"}

\* The charge log never reports more successes than the gateway took payments,
\* however answers and rows are lost (infer_card_payment_result and
\* infer_yape_payment_result, with the roll-back of register_charge_log).
SuccessesWereAccepted == Cardinality(Successes) <= accepted

\* PAGO_APROBADO is on a shipment's timeline only if an approved payment for it
\* is on record at the gateway.
AnnouncedWasCharged == announced \subseteq charged

\* A shipment never has two open emission logs: the second would stay open for
\* ever, since a download closes the newest (test_evita_duplicado_de_log_abierto).
OneOpenLog ==
  \A s \in Shipments, m, n \in DOMAIN logs : {m, n} \subseteq OpenLogs(s) => m = n
===============================================================================
