--------------------------- MODULE ReceiptIssuance ---------------------------
(***************************************************************************)
(* The issuing of electronic receipts (boletas), app/modules/sunat.        *)
(*                                                                         *)
(* Each element of Issuers is a worker thread that serves one request at a *)
(* time, of one of the three endpoints that can issue: "issue" (emitir-    *)
(* desde-encomienda), "pdf" and "xml" (beta/pdf- and beta/xml-desde-       *)
(* encomienda).  A request runs in a database transaction of its own under *)
(* READ COMMITTED.  It reads the shipment, then the receipts, and only     *)
(* then takes the EXCLUSIVE lock on the table of receipts, which it holds  *)
(* until it commits the new row or rolls back: across the calls to Lycet.  *)
(*                                                                         *)
(* The environment changes the shipments' status, opens and closes the     *)
(* logs of the measurement module, and switches the Lycet integration on   *)
(* and off; the tax authority (SUNAT, behind Lycet) is modelled by what    *)
(* the client sends to it and accepts from it.                             *)
(***************************************************************************)
EXTENDS Naturals, FiniteSets, FiniteSetsExt

CONSTANTS
  Issuers,       \* threads that serve receipt requests
  Shipments,     \* rows of the table encomiendas
  Served,        \* the endpoints that receive requests
  LoggedShipments, \* those for which a payment opens an emission log
  SunatEnv,      \* setting SUNAT_ENV
  NoIssuer,      \* the lock is free
  NoShipment     \* a thread without a request

ASSUME ConstantsAssumption ==
  /\ Served \subseteq {"issue", "pdf", "xml"}
  /\ SunatEnv \in {"mock", "beta", "production"}
  /\ LoggedShipments \subseteq Shipments
  /\ NoIssuer \notin Issuers
  /\ NoShipment \notin Shipments

VARIABLES
  status,      \* committed status of each shipment
  receipts,    \* committed rows of boletas_electronicas
  lock,        \* the thread that holds the EXCLUSIVE table lock
  lycetOn,     \* integration setting lycet_enabled
  sunat,       \* documents SUNAT has registered, a number to at most one
  boletaLog,   \* the open emission log of a shipment, and whether it is linked
  traced,      \* shipments with a BOLETA_EMITIDA event on their timeline
  pc,          \* where each thread is in its request
  req          \* what each thread has read so far

vars == <<status, receipts, lock, lycetOn, sunat, boletaLog, traced, pc, req>>

------------------------------------------------------------------------------
Endpoints == {"issue", "pdf", "xml"}

Statuses == {"PRE_REGISTRADA", "REGISTRADA", "ANULADA"}

CannotEmit == {"PRE_REGISTRADA", "ANULADA"}

ReceiptStatuses == {"ACEPTADO_MOCK", "ACEPTADO", "ENVIADO_BETA"}

Receipt == [shipment : Shipments, number : Nat \ {0}, status : ReceiptStatuses]

Document == [shipment : Shipments, number : Nat \ {0}]

Request ==
  [endpoint : Endpoints, shipment : Shipments \cup {NoShipment},
   seen : Statuses, lycet : BOOLEAN, number : Nat,
   outcome : ReceiptStatuses]

NoRequest ==
  [endpoint |-> "issue", shipment |-> NoShipment, seen |-> "REGISTRADA",
   lycet |-> FALSE, number |-> 0, outcome |-> "ACEPTADO_MOCK"]

\* Control points between LOCK TABLE and the end of the transaction.
Holding == {"numbered", "unconfirmed", "accepted"}

Points == {"idle", "loaded", "checked", "waiting", "inserted", "issued"}
            \cup Holding

Numbers == {r.number : r \in receipts}

HasReceipt(s) == \E r \in receipts : r.shipment = s

Registered(n) == \E d \in sunat : d.number = n

\* Mutant of LastNumber: counts the numbers that were sent and not stored.
LastNumberSent == Max(Numbers \cup {d.number : d \in sunat} \cup {0})

LastNumber == Max(Numbers \cup {0})

TypeOK ==
  /\ status \in [Shipments -> Statuses]
  /\ receipts \subseteq Receipt
  /\ lock \in Issuers \cup {NoIssuer}
  /\ lycetOn \in BOOLEAN
  /\ sunat \subseteq Document
  /\ boletaLog \in [Shipments -> {"none", "open", "linked"}]
  /\ traced \subseteq Shipments
  /\ pc \in [Issuers -> Points]
  /\ req \in [Issuers -> Request]
  /\ \A i \in Issuers : pc[i] # "idle" => req[i].shipment \in Shipments
------------------------------------------------------------------------------
Init ==
  /\ status \in [Shipments -> {"PRE_REGISTRADA", "REGISTRADA"}]
  /\ receipts = {}
  /\ lock = NoIssuer
  /\ lycetOn \in BOOLEAN
  /\ sunat = {}
  /\ boletaLog = [s \in Shipments |-> "none"]
  /\ traced = {}
  /\ pc = [i \in Issuers |-> "idle"]
  /\ req = [i \in Issuers |-> NoRequest]

At(i, point) == pc' = [pc EXCEPT ![i] = point]

\* Mutant of EndRequest: the transaction ends without releasing the table.
EndRequestLocked(i) ==
  /\ At(i, "idle")
  /\ req' = [req EXCEPT ![i] = NoRequest]
  /\ lock' = lock

\* The transaction ends and its connection goes back: whatever it had not
\* committed is gone and the table lock, if it held it, is released.
EndRequest(i) ==
  /\ At(i, "idle")
  /\ req' = [req EXCEPT ![i] = NoRequest]
  /\ lock' = IF lock = i THEN NoIssuer ELSE lock

\* get_scoped_shipment: the row enters the session's identity map and is not
\* read again before the next commit of this request.  The beta endpoints
\* refuse any other environment before they read anything that matters here.
LoadShipment(i, e, s) ==
  /\ pc[i] = "idle"
  /\ e \in {"pdf", "xml"} => SunatEnv = "beta"
  /\ req' = [req EXCEPT ![i] = [NoRequest EXCEPT !.endpoint = e,
                                                 !.shipment = s,
                                                 !.seen = status[s]]]
  /\ At(i, "loaded")
  /\ UNCHANGED <<status, receipts, lock, lycetOn, sunat, boletaLog, traced>>

\* _validate_shipment_can_emit_receipt raises ValueError: 400.
RejectShipment(i) ==
  /\ pc[i] = "loaded"
  /\ req[i].seen \in CannotEmit
  /\ EndRequest(i)
  /\ UNCHANGED <<status, receipts, lycetOn, sunat, boletaLog, traced>>

\* The idempotent path: the receipt is there already.
FindReceipt(i) ==
  /\ pc[i] = "loaded"
  /\ req[i].seen \notin CannotEmit
  /\ HasReceipt(req[i].shipment)
  /\ At(i, "issued")
  /\ UNCHANGED <<status, receipts, lock, lycetOn, sunat, boletaLog, traced, req>>

\* No receipt yet: the flow is chosen now, and the check is not repeated.
FindNoReceipt(i) ==
  /\ pc[i] = "loaded"
  /\ req[i].seen \notin CannotEmit
  /\ ~HasReceipt(req[i].shipment)
  /\ req' = [req EXCEPT ![i].lycet = lycetOn /\ SunatEnv = "beta"]
  /\ At(i, "checked")
  /\ UNCHANGED <<status, receipts, lock, lycetOn, sunat, boletaLog, traced>>

\* LOCK TABLE boletas_electronicas IN EXCLUSIVE MODE: the request is queued.
AskLock(i) ==
  /\ pc[i] = "checked"
  /\ At(i, "waiting")
  /\ UNCHANGED <<status, receipts, lock, lycetOn, sunat, boletaLog, traced, req>>

\* Mutants of TakeNumber: the last number is taken again; there is no lock.
TakeNumberAgain(i) ==
  /\ pc[i] = "waiting"
  /\ lock = NoIssuer
  /\ lock' = i
  /\ req' = [req EXCEPT ![i].number = LastNumber]
  /\ At(i, "numbered")
  /\ UNCHANGED <<status, receipts, lycetOn, sunat, boletaLog, traced>>

TakeNumberUnlocked(i) ==
  /\ pc[i] = "waiting"
  /\ lock' = i
  /\ req' = [req EXCEPT ![i].number = LastNumber + 1]
  /\ At(i, "numbered")
  /\ UNCHANGED <<status, receipts, lycetOn, sunat, boletaLog, traced>>

\* The lock is granted and the next number is read under it.
TakeNumber(i) ==
  /\ pc[i] = "waiting"
  /\ lock = NoIssuer
  /\ lock' = i
  /\ req' = [req EXCEPT ![i].number = LastNumber + 1]
  /\ At(i, "numbered")
  /\ UNCHANGED <<status, receipts, lycetOn, sunat, boletaLog, traced>>

\* The mock flow calls nobody.
SkipLycet(i) ==
  /\ pc[i] = "numbered"
  /\ ~req[i].lycet
  /\ req' = [req EXCEPT ![i].outcome = "ACEPTADO_MOCK"]
  /\ At(i, "accepted")
  /\ UNCHANGED <<status, receipts, lock, lycetOn, sunat, boletaLog, traced>>

\* What SUNAT holds once the document of thread i has reached it: the first
\* document with a number keeps it.
Delivered(i) ==
  LET d == [shipment |-> req[i].shipment, number |-> req[i].number]
  IN  IF Registered(d.number) THEN sunat ELSE sunat \cup {d}

\* POST /send answers with a CDR: SUNAT registered this very document (code
\* 0), or examined and refused it (any other code).  Both are stored.
LycetAnswersCdr(i) ==
  /\ pc[i] = "numbered"
  /\ req[i].lycet
  /\ \/ /\ sunat' = Delivered(i)
        /\ [shipment |-> req[i].shipment, number |-> req[i].number] \in sunat'
        /\ req' = [req EXCEPT ![i].outcome = "ACEPTADO"]
     \/ /\ sunat' = sunat
        /\ req' = [req EXCEPT ![i].outcome = "ENVIADO_BETA"]
  /\ At(i, "accepted")
  /\ UNCHANGED <<status, receipts, lock, lycetOn, boletaLog, traced>>

\* POST /send answers without a CDR, whether SUNAT has the document or not.
LycetAnswersWithoutCdr(i) ==
  /\ pc[i] = "numbered"
  /\ req[i].lycet
  /\ sunat' \in {sunat, Delivered(i)}
  /\ At(i, "unconfirmed")
  /\ UNCHANGED <<status, receipts, lock, lycetOn, boletaLog, traced, req>>

\* Mutant of QueryFindsCdr: an answer without a CDR counts as an acceptance.
QueryFindsNoCdr(i) ==
  /\ pc[i] = "unconfirmed"
  /\ req' = [req EXCEPT ![i].outcome = "ACEPTADO"]
  /\ At(i, "accepted")
  /\ UNCHANGED <<status, receipts, lock, lycetOn, sunat, boletaLog, traced>>

\* GET /status returns the CDR of whatever document has this number, or the
\* refusal of the one just sent.
QueryFindsCdr(i) ==
  /\ pc[i] = "unconfirmed"
  /\ \/ /\ Registered(req[i].number)
        /\ req' = [req EXCEPT ![i].outcome = "ACEPTADO"]
     \/ req' = [req EXCEPT ![i].outcome = "ENVIADO_BETA"]
  /\ At(i, "accepted")
  /\ UNCHANGED <<status, receipts, lock, lycetOn, sunat, boletaLog, traced>>

\* Mutant of LycetFails: the error is swallowed and the endpoint goes on.
LycetFailsSilently(i) ==
  /\ pc[i] \in {"numbered", "unconfirmed"}
  /\ req[i].lycet
  /\ At(i, "issued")
  /\ lock' = NoIssuer
  /\ UNCHANGED <<status, receipts, lycetOn, sunat, boletaLog, traced, req>>

\* LycetClientError (502): an HTTP error, a time-out or a body that is not
\* JSON from /send, which SUNAT may have processed all the same, or no CDR
\* from /status either.  The transaction is rolled back and the number with it.
LycetFails(i) ==
  /\ \/ /\ pc[i] = "numbered"
        /\ req[i].lycet
        /\ sunat' \in {sunat, Delivered(i)}
     \/ /\ pc[i] = "unconfirmed"
        /\ UNCHANGED sunat
  /\ EndRequest(i)
  /\ UNCHANGED <<status, receipts, lycetOn, boletaLog, traced>>

NewReceipt(i) ==
  [shipment |-> req[i].shipment, number |-> req[i].number,
   status |-> req[i].outcome]

\* Mutant of Conflicts: only (serie, numero) is unique.
ConflictsByNumber(row) == \E r \in receipts : r.number = row.number

\* The unique constraints of boletas_electronicas.
Conflicts(row) ==
  \E r \in receipts : r.number = row.number \/ r.shipment = row.shipment

\* create_receipt: INSERT and COMMIT, which releases the lock.
InsertReceipt(i) ==
  /\ pc[i] = "accepted"
  /\ ~Conflicts(NewReceipt(i))
  /\ receipts' = receipts \cup {NewReceipt(i)}
  /\ lock' = NoIssuer
  /\ At(i, "inserted")
  /\ UNCHANGED <<status, lycetOn, sunat, boletaLog, traced, req>>

\* create_receipt violates a unique constraint: IntegrityError, 500.
InsertConflict(i) ==
  /\ pc[i] = "accepted"
  /\ Conflicts(NewReceipt(i))
  /\ EndRequest(i)
  /\ UNCHANGED <<status, receipts, lycetOn, sunat, boletaLog, traced>>

\* Mutant of LinkLog: the log is linked before the row is committed.
LinkLogEarly(i) ==
  /\ pc[i] \in {"accepted", "inserted"}
  /\ boletaLog' = [boletaLog EXCEPT ![req[i].shipment] =
                     IF @ = "open" THEN "linked" ELSE @]
  /\ At(i, IF pc[i] = "inserted" THEN "issued" ELSE "accepted")
  /\ UNCHANGED <<status, receipts, lock, lycetOn, sunat, traced, req>>

\* link_boleta_log_to_receipt, in a second transaction.
LinkLog(i) ==
  /\ pc[i] = "inserted"
  /\ boletaLog' = [boletaLog EXCEPT ![req[i].shipment] =
                     IF @ = "open" THEN "linked" ELSE @]
  /\ At(i, "issued")
  /\ UNCHANGED <<status, receipts, lock, lycetOn, sunat, traced, req>>

\* The tail of each endpoint, in a transaction of its own: a trace event, the
\* closing of the shipment's open log, or nothing.
FinishRequest(i) ==
  /\ pc[i] = "issued"
  /\ traced' = IF req[i].endpoint = "issue"
               THEN traced \cup {req[i].shipment} ELSE traced
  /\ boletaLog' = IF req[i].endpoint = "pdf"
                  THEN [boletaLog EXCEPT ![req[i].shipment] = "none"]
                  ELSE boletaLog
  /\ EndRequest(i)
  /\ UNCHANGED <<status, receipts, lycetOn, sunat>>

\* The process is stopped, the connection breaks or the statement times out:
\* the server rolls the open transaction back.
Crash(i) ==
  /\ pc[i] # "idle"
  /\ EndRequest(i)
  /\ UNCHANGED <<status, receipts, lycetOn, sunat, boletaLog, traced>>
------------------------------------------------------------------------------
\* What other endpoints do meanwhile to the state this component reads.
ConfirmShipment(s) ==
  /\ status[s] = "PRE_REGISTRADA"
  /\ status' = [status EXCEPT ![s] = "REGISTRADA"]
  /\ UNCHANGED <<receipts, lock, lycetOn, sunat, boletaLog, traced, pc, req>>

CancelShipment(s) ==
  /\ status[s] # "ANULADA"
  /\ status' = [status EXCEPT ![s] = "ANULADA"]
  /\ UNCHANGED <<receipts, lock, lycetOn, sunat, boletaLog, traced, pc, req>>

\* ensure_boleta_log_after_payment
OpenBoletaLog(s) ==
  /\ s \in LoggedShipments
  /\ boletaLog[s] = "none"
  /\ boletaLog' = [boletaLog EXCEPT ![s] = "open"]
  /\ UNCHANGED <<status, receipts, lock, lycetOn, sunat, traced, pc, req>>

\* download_receipt_pdf_endpoint closes the open log of the receipt's shipment.
DownloadReceipt(s) ==
  /\ HasReceipt(s)
  /\ boletaLog[s] # "none"
  /\ boletaLog' = [boletaLog EXCEPT ![s] = "none"]
  /\ UNCHANGED <<status, receipts, lock, lycetOn, sunat, traced, pc, req>>

ToggleLycet ==
  /\ lycetOn' = ~lycetOn
  /\ UNCHANGED <<status, receipts, lock, sunat, boletaLog, traced, pc, req>>
------------------------------------------------------------------------------
Step(i) ==
  \/ RejectShipment(i)
  \/ FindReceipt(i)
  \/ FindNoReceipt(i)
  \/ AskLock(i)
  \/ TakeNumber(i)
  \/ SkipLycet(i)
  \/ LycetAnswersCdr(i)
  \/ LycetAnswersWithoutCdr(i)
  \/ QueryFindsCdr(i)
  \/ LycetFails(i)
  \/ InsertReceipt(i)
  \/ InsertConflict(i)
  \/ LinkLog(i)
  \/ FinishRequest(i)

Environment(s) ==
  \/ ConfirmShipment(s)
  \/ CancelShipment(s)
  \/ OpenBoletaLog(s)
  \/ DownloadReceipt(s)

Next ==
  \/ \E i \in Issuers, e \in Served, s \in Shipments : LoadShipment(i, e, s)
  \/ \E i \in Issuers : Step(i) \/ Crash(i)
  \/ \E s \in Shipments : Environment(s)
  \/ ToggleLycet

Spec == Init /\ [][Next]_vars

\* A thread that has a request keeps running it, every call to Lycet has a
\* time-out of 30 s, and PostgreSQL grants a table lock in the order in which
\* it was asked for, so no request is overtaken for ever.
Fairness ==
  \A i \in Issuers : WF_vars(Step(i)) /\ SF_vars(TakeNumber(i))

FairSpec == Spec /\ Fairness
------------------------------------------------------------------------------
\* The lock covers exactly the span from reading the last number to the end of
\* the transaction, and the number read stays the next one all along: no insert
\* can fail on (serie, numero), however many requests compete.
NumberIsNext ==
  \A i \in Issuers :
    /\ pc[i] \in Holding <=> lock = i
    /\ pc[i] \in Holding => req[i].number = LastNumber + 1

\* The committed numbers of the series have no gap and no duplicate, although
\* attempts fail and roll back with a number already sent to SUNAT.
Gapless == Numbers = 1..Cardinality(receipts)

\* A receipt stored as ACEPTADO has a number that SUNAT does know, also when the
\* CDR had to be fetched afterwards (the second check of issue_receipt).
AcceptedIsRegistered ==
  \A r \in receipts : r.status = "ACEPTADO" => Registered(r.number)

\* The customer's timeline shows BOLETA_EMITIDA only for shipments that have a
\* receipt: no failed request leaves the event behind.
TimelineIsTrue == \A s \in traced : HasReceipt(s)

\* A log that carries a receipt belongs to a shipment that has one, although the
\* row and the link are committed apart.
LinkedLogHasReceipt ==
  \A s \in Shipments : boletaLog[s] = "linked" => HasReceipt(s)

\* The receipt with a number, and the series seen as a ledger of shipments.
ReceiptOf(n) == CHOOSE r \in receipts : r.number = n

Ledger == INSTANCE ReceiptLedger
            WITH ledger <- [n \in 1..LastNumber |-> ReceiptOf(n).shipment]

\* The series behaves as the ledger of ReceiptLedger: entry n is the shipment of
\* receipt n, entries are appended one at a time and never change, and no
\* shipment is entered twice although the check is made before the lock.
ImplementsLedger == Ledger!Spec

\* Every request that starts is answered: the table lock is always given back,
\* so nobody waits for it for ever.
RequestsFinish == \A i \in Issuers : pc[i] # "idle" ~> pc[i] = "idle"

==============================================================================
