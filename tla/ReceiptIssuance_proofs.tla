------------------------ MODULE ReceiptIssuance_proofs ------------------------
(***************************************************************************)
(* Proofs about ReceiptIssuance for any number of threads and shipments    *)
(* and any environment: the numbering of the series, the timeline, the     *)
(* registration of accepted receipts, and the refinement of the ledger.    *)
(***************************************************************************)
EXTENDS ReceiptIssuance, Sequences, FiniteSetTheorems, TLAPS

LEMMA TypeInit == Init => TypeOK
  BY ConstantsAssumption
  DEF Init, TypeOK, Request, NoRequest, Statuses, ReceiptStatuses, Endpoints, Points

\* The numbers 1..n have n for their last one, none has 0.
LEMMA MaxOfInterval ==
  ASSUME NEW n \in Nat
  PROVE  Max((1..n) \cup {0}) = n
<1>1. (1..n) \cup {0} = 0..n
  OBVIOUS
<1>2. \A x \in 0..n : (\A y \in 0..n : x >= y) <=> x = n
  OBVIOUS
<1>3. n \in 0..n
  OBVIOUS
<1> QED
  BY <1>1, <1>2, <1>3 DEF Max

LEMMA LastNumberOfInterval ==
  ASSUME NEW n \in Nat, Numbers = 1..n
  PROVE  LastNumber = n
  BY MaxOfInterval DEF LastNumber

LEMMA TypeEnd ==
  ASSUME TypeOK, NEW i \in Issuers, EndRequest(i)
  PROVE  /\ lock' \in Issuers \cup {NoIssuer}
         /\ pc' \in [Issuers -> Points]
         /\ req' \in [Issuers -> Request]
         /\ \A j \in Issuers : pc'[j] # "idle" => req'[j].shipment \in Shipments
<1>1. NoRequest \in Request
  BY DEF NoRequest, Request, Endpoints, Statuses, ReceiptStatuses
<1>2. "idle" \in Points
  BY DEF Points
<1> QED
  BY <1>1, <1>2 DEF TypeOK, EndRequest, At

\* A request that goes on to another point, with or without something written
\* into it, outside the tables.
LEMMA TypeMove ==
  ASSUME TypeOK, NEW i \in Issuers, NEW p \in Points, At(i, p), pc[i] # "idle",
         NEW r \in Request, r.shipment = req[i].shipment,
         req' = [req EXCEPT ![i] = r] \/ req' = req,
         UNCHANGED <<status, receipts, lycetOn, boletaLog, traced>>,
         lock' \in Issuers \cup {NoIssuer}, sunat' \subseteq Document
  PROVE  TypeOK'
<1>1. pc' \in [Issuers -> Points] /\ req' \in [Issuers -> Request]
  BY DEF At, TypeOK
<1>2. \A k \in Issuers : pc'[k] # "idle" => req'[k].shipment \in Shipments
  <2>1. \A k \in Issuers : req'[k].shipment = req[k].shipment
    BY DEF TypeOK
  <2>2. \A k \in Issuers : pc'[k] # "idle" => pc[k] # "idle"
    BY DEF At, TypeOK
  <2> QED
    BY <2>1, <2>2 DEF TypeOK
<1> QED
  BY <1>1, <1>2 DEF TypeOK

\* A request whose outcome is known.
LEMMA TypeAccepted ==
  ASSUME TypeOK, NEW i \in Issuers, At(i, "accepted"), pc[i] # "idle",
         NEW o \in ReceiptStatuses, req' = [req EXCEPT ![i] = [req[i] EXCEPT !.outcome = o]],
         UNCHANGED <<status, receipts, lock, lycetOn, boletaLog, traced>>, sunat' \subseteq Document
  PROVE  TypeOK'
<1> DEFINE r == [req[i] EXCEPT !.outcome = o]
<1>1. r \in Request /\ r.shipment = req[i].shipment
  BY DEF TypeOK, Request
<1>2. "accepted" \in Points /\ lock' \in Issuers \cup {NoIssuer} /\ req' = [req EXCEPT ![i] = r]
  BY DEF TypeOK, Points, Holding
<1> HIDE DEF r
<1> QED
  BY <1>1, <1>2, TypeMove

LEMMA TypeDelivered ==
  ASSUME TypeOK, NEW i \in Issuers, pc[i] # "idle", req[i].number # 0
  PROVE  Delivered(i) \subseteq Document
  BY DEF TypeOK, Delivered, Document, Request

------------------------------------------------------------------------------
(***************************************************************************)
(* The strengthening.  The numbering holds because a number is only read   *)
(* and only used by the thread that holds the lock, and nobody else can    *)
(* insert meanwhile; the other parts follow a request between its steps.   *)
(***************************************************************************)
Numbering == IsFiniteSet(receipts) /\ Gapless /\ NumberIsNext

RowsUnique ==
  \A r, q \in receipts : r.number = q.number \/ r.shipment = q.shipment => r = q

AcceptedBySunat ==
  /\ AcceptedIsRegistered
  /\ \A i \in Issuers :
       pc[i] = "accepted" /\ req[i].outcome = "ACEPTADO" => Registered(req[i].number)

AfterTheReceipt ==
  /\ TimelineIsTrue
  /\ LinkedLogHasReceipt
  /\ \A i \in Issuers :
       pc[i] \in {"inserted", "issued"} => HasReceipt(req[i].shipment)

LEMMA LastIsCardinality ==
  ASSUME Numbering
  PROVE  /\ Cardinality(receipts) \in Nat
         /\ LastNumber = Cardinality(receipts)
         /\ Numbers = 1..LastNumber
<1>1. Cardinality(receipts) \in Nat
  BY FS_CardinalityType DEF Numbering
<1>2. LastNumber = Cardinality(receipts)
  BY <1>1, LastNumberOfInterval DEF Numbering, Gapless
<1> QED
  BY <1>1, <1>2 DEF Numbering, Gapless

LEMMA TypeStep ==
  ASSUME TypeOK, Numbering, [Next]_vars
  PROVE  TypeOK'
<1>0. LastNumber \in Nat /\ \A i \in Issuers : pc[i] \in Holding => req[i].number # 0
  <2>1. \A i \in Issuers : pc[i] \in Holding => req[i].number = LastNumber + 1
    BY DEF Numbering, NumberIsNext
  <2> QED
    BY <2>1, LastIsCardinality
<1>1. ASSUME NEW i \in Issuers, NEW e \in Served, NEW s \in Shipments,
             LoadShipment(i, e, s)
      PROVE  TypeOK'
  <2> DEFINE r == [NoRequest EXCEPT !.endpoint = e, !.shipment = s, !.seen = status[s]]
  <2>1. r \in Request /\ r.shipment \in Shipments
    BY ConstantsAssumption DEF NoRequest, Request, Endpoints, ReceiptStatuses, TypeOK
  <2>2. /\ req' = [req EXCEPT ![i] = r] /\ pc' = [pc EXCEPT ![i] = "loaded"]
        /\ UNCHANGED <<status, receipts, lock, lycetOn, sunat, boletaLog, traced>>
    BY <1>1 DEF LoadShipment, At
  <2> HIDE DEF r
  <2>3. req' \in [Issuers -> Request] /\ pc' \in [Issuers -> Points]
    BY <2>1, <2>2 DEF TypeOK, Points
  <2>4. \A k \in Issuers : pc'[k] # "idle" => req'[k].shipment \in Shipments
    BY <2>1, <2>2 DEF TypeOK
  <2> QED
    BY <2>2, <2>3, <2>4 DEF TypeOK
<1>2. ASSUME NEW i \in Issuers, FindReceipt(i)
      PROVE  TypeOK'
  <2>1. req[i] \in Request /\ lock \in Issuers \cup {NoIssuer} /\ sunat \subseteq Document
    BY DEF TypeOK
  <2>2. "issued" \in Points /\ At(i, "issued") /\ pc[i] # "idle"
    BY <1>2 DEF FindReceipt, Points
  <2> QED
    BY <1>2, <2>1, <2>2, TypeMove DEF FindReceipt
<1>3. ASSUME NEW i \in Issuers, FindNoReceipt(i)
      PROVE  TypeOK'
  <2> DEFINE r == [req[i] EXCEPT !.lycet = lycetOn /\ SunatEnv = "beta"]
  <2>1. r \in Request /\ r.shipment = req[i].shipment
    BY DEF TypeOK, Request
  <2>2. /\ At(i, "checked") /\ pc[i] # "idle" /\ req' = [req EXCEPT ![i] = r]
        /\ UNCHANGED <<status, receipts, lock, lycetOn, sunat, boletaLog, traced>>
    BY <1>3 DEF FindNoReceipt
  <2>3. "checked" \in Points /\ lock' \in Issuers \cup {NoIssuer} /\ sunat' \subseteq Document
    BY <2>2 DEF TypeOK, Points
  <2> HIDE DEF r
  <2> QED
    BY <2>1, <2>2, <2>3, TypeMove
<1>4. ASSUME NEW i \in Issuers, AskLock(i)
      PROVE  TypeOK'
  <2>1. req[i] \in Request /\ lock \in Issuers \cup {NoIssuer} /\ sunat \subseteq Document
    BY DEF TypeOK
  <2>2. "waiting" \in Points /\ At(i, "waiting") /\ pc[i] # "idle"
    BY <1>4 DEF AskLock, Points
  <2> QED
    BY <1>4, <2>1, <2>2, TypeMove DEF AskLock
<1>5. ASSUME NEW i \in Issuers, TakeNumber(i)
      PROVE  TypeOK'
  <2> DEFINE r == [req[i] EXCEPT !.number = LastNumber + 1]
  <2>1. r \in Request /\ r.shipment = req[i].shipment
    BY <1>0 DEF TypeOK, Request
  <2>2. /\ At(i, "numbered") /\ pc[i] # "idle" /\ req' = [req EXCEPT ![i] = r]
        /\ lock' = i /\ UNCHANGED <<status, receipts, lycetOn, sunat, boletaLog, traced>>
    BY <1>5 DEF TakeNumber
  <2>3. "numbered" \in Points /\ lock' \in Issuers \cup {NoIssuer} /\ sunat' \subseteq Document
    BY <2>2 DEF TypeOK, Points, Holding
  <2> HIDE DEF r
  <2> QED
    BY <2>1, <2>2, <2>3, TypeMove
<1>6. ASSUME NEW i \in Issuers, SkipLycet(i)
      PROVE  TypeOK'
  <2>1. req' = [req EXCEPT ![i] = [req[i] EXCEPT !.outcome = "ACEPTADO_MOCK"]]
    BY <1>6 DEF SkipLycet
  <2>2. /\ At(i, "accepted") /\ pc[i] # "idle"
        /\ UNCHANGED <<status, receipts, lock, lycetOn, sunat, boletaLog, traced>>
    BY <1>6 DEF SkipLycet
  <2> QED
    BY <2>1, <2>2, TypeAccepted DEF TypeOK, ReceiptStatuses
<1>7. ASSUME NEW i \in Issuers, QueryFindsCdr(i)
      PROVE  TypeOK'
  <2>1. PICK o \in {"ACEPTADO", "ENVIADO_BETA"} :
          req' = [req EXCEPT ![i] = [req[i] EXCEPT !.outcome = o]]
    BY <1>7 DEF QueryFindsCdr
  <2>2. /\ At(i, "accepted") /\ pc[i] # "idle"
        /\ UNCHANGED <<status, receipts, lock, lycetOn, sunat, boletaLog, traced>>
    BY <1>7 DEF QueryFindsCdr
  <2> QED
    BY <2>1, <2>2, TypeAccepted DEF TypeOK, ReceiptStatuses
<1>8. ASSUME NEW i \in Issuers, LinkLog(i)
      PROVE  TypeOK'
  BY <1>8, <1>0 DEF LinkLog, At, TypeOK, Request, Points, Holding, ReceiptStatuses
<1>9. ASSUME NEW i \in Issuers, RejectShipment(i)
      PROVE  TypeOK'
  <2>1. EndRequest(i)
    BY <1>9 DEF RejectShipment
  <2> QED
    BY <1>9, <2>1, TypeEnd DEF RejectShipment, TypeOK
<1>10. ASSUME NEW i \in Issuers, InsertConflict(i)
      PROVE  TypeOK'
  <2>1. EndRequest(i)
    BY <1>10 DEF InsertConflict
  <2> QED
    BY <1>10, <2>1, TypeEnd DEF InsertConflict, TypeOK
<1>11. ASSUME NEW i \in Issuers, Crash(i)
      PROVE  TypeOK'
  <2>1. EndRequest(i)
    BY <1>11 DEF Crash
  <2> QED
    BY <1>11, <2>1, TypeEnd DEF Crash, TypeOK
<1>12. ASSUME NEW i \in Issuers, FinishRequest(i)
      PROVE  TypeOK'
  <2>1. EndRequest(i)
    BY <1>12 DEF FinishRequest
  <2> QED
    BY <1>12, <2>1, TypeEnd DEF FinishRequest, TypeOK
<1>13. ASSUME NEW i \in Issuers, LycetAnswersCdr(i)
      PROVE  TypeOK'
  <2>1. Delivered(i) \subseteq Document
    BY <1>13, <1>0, TypeDelivered DEF LycetAnswersCdr, Holding
  <2>2. PICK o \in {"ACEPTADO", "ENVIADO_BETA"} :
          req' = [req EXCEPT ![i] = [req[i] EXCEPT !.outcome = o]]
    BY <1>13 DEF LycetAnswersCdr
  <2>3. /\ At(i, "accepted") /\ pc[i] # "idle"
        /\ UNCHANGED <<status, receipts, lock, lycetOn, boletaLog, traced>>
    BY <1>13 DEF LycetAnswersCdr
  <2>4. sunat' \subseteq Document
    BY <1>13, <2>1 DEF LycetAnswersCdr, TypeOK
  <2> QED
    BY <2>2, <2>3, <2>4, TypeAccepted DEF ReceiptStatuses
<1>14. ASSUME NEW i \in Issuers, LycetAnswersWithoutCdr(i)
      PROVE  TypeOK'
  <2>1. Delivered(i) \subseteq Document
    BY <1>14, <1>0, TypeDelivered DEF LycetAnswersWithoutCdr, Holding
  <2>2. sunat' \subseteq Document
    BY <1>14, <2>1 DEF LycetAnswersWithoutCdr, TypeOK
  <2>3. req[i] \in Request /\ lock \in Issuers \cup {NoIssuer}
    BY DEF TypeOK
  <2>4. "unconfirmed" \in Points /\ At(i, "unconfirmed") /\ pc[i] # "idle"
    BY <1>14 DEF LycetAnswersWithoutCdr, Points, Holding
  <2> QED
    BY <1>14, <2>2, <2>3, <2>4, TypeMove DEF LycetAnswersWithoutCdr
<1>15. ASSUME NEW i \in Issuers, LycetFails(i)
      PROVE  TypeOK'
  <2>1. EndRequest(i)
    BY <1>15 DEF LycetFails
  <2>2. sunat' \subseteq Document
    BY <1>15, <1>0, TypeDelivered DEF LycetFails, Holding, TypeOK
  <2> QED
    BY <1>15, <2>1, <2>2, TypeEnd DEF LycetFails, TypeOK
<1>16. ASSUME NEW i \in Issuers, InsertReceipt(i)
      PROVE  TypeOK'
  <2>1. NewReceipt(i) \in Receipt
    BY <1>16, <1>0 DEF InsertReceipt, NewReceipt, Receipt, TypeOK, Request, Holding
  <2> QED
    BY <1>16, <2>1 DEF InsertReceipt, At, TypeOK, Points
<1>17. ASSUME NEW s \in Shipments, Environment(s)
      PROVE  TypeOK'
  BY <1>17 DEF Environment, ConfirmShipment, CancelShipment, OpenBoletaLog,
              DownloadReceipt, TypeOK, Statuses
<1>18. CASE ToggleLycet
  BY <1>18 DEF ToggleLycet, TypeOK
<1>19. CASE UNCHANGED vars
  BY <1>19 DEF vars, TypeOK
<1> QED
  BY <1>1, <1>2, <1>3, <1>4, <1>5, <1>6, <1>7, <1>8, <1>9, <1>10, <1>11, <1>12, <1>13, <1>14, <1>15, <1>16, <1>17, <1>18, <1>19 DEF Next, Step

\* While no row is written the numbering only depends on who holds the lock.
LEMMA NumberingFrame ==
  ASSUME Numbering, UNCHANGED receipts, NumberIsNext'
  PROVE  Numbering'
  BY DEF Numbering, Gapless, Numbers

LEMMA NumberingEnd ==
  ASSUME TypeOK, Numbering, NEW i \in Issuers, EndRequest(i), UNCHANGED receipts
  PROVE  Numbering'
<1>1. LastNumber' = LastNumber
  BY DEF LastNumber, Numbers
<1>2. NumberIsNext'
  BY <1>1, ConstantsAssumption
  DEF Numbering, NumberIsNext, EndRequest, At, TypeOK, Holding
<1> QED
  BY <1>2, NumberingFrame

LEMMA NumberingInsert ==
  ASSUME TypeOK, Numbering, NEW i \in Issuers, InsertReceipt(i)
  PROVE  Numbering'
<1> DEFINE row == NewReceipt(i)
<1>1. /\ receipts' = receipts \cup {row}
      /\ lock = i
      /\ row.number = LastNumber + 1
  BY DEF InsertReceipt, NewReceipt, Numbering, NumberIsNext, Holding
<1>2. row \notin receipts
  <2>1. row.number \notin Numbers
    BY <1>1, LastIsCardinality
  <2> QED
    BY <2>1 DEF Numbers
<1>3. /\ IsFiniteSet(receipts')
      /\ Cardinality(receipts') = Cardinality(receipts) + 1
  BY <1>1, <1>2, FS_AddElement DEF Numbering
<1>4. Numbers' = Numbers \cup {row.number}
  BY <1>1 DEF Numbers
<1>5. Numbers' = 1..Cardinality(receipts')
  <2>1. Numbers = 1..LastNumber /\ LastNumber \in Nat
    BY LastIsCardinality
  <2>2. Cardinality(receipts') = LastNumber + 1
    BY <1>3, LastIsCardinality
  <2> HIDE DEF row
  <2> QED
    BY <1>1, <1>4, <2>1, <2>2
<1>6. \A j \in Issuers : pc'[j] \notin Holding
  BY <1>1 DEF InsertReceipt, At, TypeOK, Numbering, NumberIsNext, Holding
<1>7. NumberIsNext'
  BY <1>6, ConstantsAssumption DEF InsertReceipt, NumberIsNext
<1> QED
  BY <1>3, <1>5, <1>7 DEF Numbering, Gapless

LEMMA NumberingStep ==
  ASSUME TypeOK, Numbering, [Next]_vars
  PROVE  Numbering'
<1>1. ASSUME NEW i \in Issuers, NEW e \in Served, NEW s \in Shipments,
             LoadShipment(i, e, s)
      PROVE  Numbering'
  <2>1. LastNumber' = LastNumber
    BY <1>1 DEF LoadShipment, LastNumber, Numbers
  <2>2. NumberIsNext'
    BY <1>1, <2>1 DEF LoadShipment, At, TypeOK, Numbering, NumberIsNext, Holding
  <2> QED
    BY <1>1, <2>2, NumberingFrame DEF LoadShipment
<1>2. ASSUME NEW i \in Issuers, FindReceipt(i)
      PROVE  Numbering'
  <2>1. LastNumber' = LastNumber
    BY <1>2 DEF FindReceipt, LastNumber, Numbers
  <2>2. NumberIsNext'
    BY <1>2, <2>1
    DEF FindReceipt, At, TypeOK, Request, Numbering, NumberIsNext, Holding
  <2> QED
    BY <1>2, <2>2, NumberingFrame DEF FindReceipt
<1>3. ASSUME NEW i \in Issuers, FindNoReceipt(i)
      PROVE  Numbering'
  <2>1. LastNumber' = LastNumber
    BY <1>3 DEF FindNoReceipt, LastNumber, Numbers
  <2>2. NumberIsNext'
    BY <1>3, <2>1
    DEF FindNoReceipt, At, TypeOK, Request, Numbering, NumberIsNext, Holding
  <2> QED
    BY <1>3, <2>2, NumberingFrame DEF FindNoReceipt
<1>4. ASSUME NEW i \in Issuers, AskLock(i)
      PROVE  Numbering'
  <2>1. LastNumber' = LastNumber
    BY <1>4 DEF AskLock, LastNumber, Numbers
  <2>2. NumberIsNext'
    BY <1>4, <2>1
    DEF AskLock, At, TypeOK, Request, Numbering, NumberIsNext, Holding
  <2> QED
    BY <1>4, <2>2, NumberingFrame DEF AskLock
<1>5. ASSUME NEW i \in Issuers, TakeNumber(i)
      PROVE  Numbering'
  <2>1. LastNumber' = LastNumber
    BY <1>5 DEF TakeNumber, LastNumber, Numbers
  <2>2. NumberIsNext'
    BY <1>5, <2>1, ConstantsAssumption
    DEF TakeNumber, At, TypeOK, Request, Numbering, NumberIsNext, Holding
  <2> QED
    BY <1>5, <2>2, NumberingFrame DEF TakeNumber
<1>6. ASSUME NEW i \in Issuers, SkipLycet(i)
      PROVE  Numbering'
  <2>1. LastNumber' = LastNumber
    BY <1>6 DEF SkipLycet, LastNumber, Numbers
  <2>2. NumberIsNext'
    BY <1>6, <2>1
    DEF SkipLycet, At, TypeOK, Request, Numbering, NumberIsNext, Holding
  <2> QED
    BY <1>6, <2>2, NumberingFrame DEF SkipLycet
<1>7. ASSUME NEW i \in Issuers, QueryFindsCdr(i)
      PROVE  Numbering'
  <2>1. LastNumber' = LastNumber
    BY <1>7 DEF QueryFindsCdr, LastNumber, Numbers
  <2>2. NumberIsNext'
    BY <1>7, <2>1
    DEF QueryFindsCdr, At, TypeOK, Request, Numbering, NumberIsNext, Holding
  <2> QED
    BY <1>7, <2>2, NumberingFrame DEF QueryFindsCdr
<1>8. ASSUME NEW i \in Issuers, LinkLog(i)
      PROVE  Numbering'
  <2>1. LastNumber' = LastNumber
    BY <1>8 DEF LinkLog, LastNumber, Numbers
  <2>2. NumberIsNext'
    BY <1>8, <2>1
    DEF LinkLog, At, TypeOK, Request, Numbering, NumberIsNext, Holding
  <2> QED
    BY <1>8, <2>2, NumberingFrame DEF LinkLog
<1>9. ASSUME NEW i \in Issuers, LycetAnswersCdr(i)
      PROVE  Numbering'
  <2>1. LastNumber' = LastNumber
    BY <1>9 DEF LycetAnswersCdr, LastNumber, Numbers
  <2>2. NumberIsNext'
    BY <1>9, <2>1
    DEF LycetAnswersCdr, At, TypeOK, Request, Numbering, NumberIsNext, Holding
  <2> QED
    BY <1>9, <2>2, NumberingFrame DEF LycetAnswersCdr
<1>10. ASSUME NEW i \in Issuers, LycetAnswersWithoutCdr(i)
      PROVE  Numbering'
  <2>1. LastNumber' = LastNumber
    BY <1>10 DEF LycetAnswersWithoutCdr, LastNumber, Numbers
  <2>2. NumberIsNext'
    BY <1>10, <2>1
    DEF LycetAnswersWithoutCdr, At, TypeOK, Request, Numbering, NumberIsNext, Holding
  <2> QED
    BY <1>10, <2>2, NumberingFrame DEF LycetAnswersWithoutCdr
<1>11. ASSUME NEW i \in Issuers, RejectShipment(i)
      PROVE  Numbering'
  BY <1>11, NumberingEnd DEF RejectShipment
<1>12. ASSUME NEW i \in Issuers, InsertConflict(i)
      PROVE  Numbering'
  BY <1>12, NumberingEnd DEF InsertConflict
<1>13. ASSUME NEW i \in Issuers, Crash(i)
      PROVE  Numbering'
  BY <1>13, NumberingEnd DEF Crash
<1>14. ASSUME NEW i \in Issuers, FinishRequest(i)
      PROVE  Numbering'
  BY <1>14, NumberingEnd DEF FinishRequest
<1>15. ASSUME NEW i \in Issuers, LycetFails(i)
      PROVE  Numbering'
  BY <1>15, NumberingEnd DEF LycetFails
<1>16. ASSUME NEW i \in Issuers, InsertReceipt(i)
      PROVE  Numbering'
  BY <1>16, NumberingInsert
<1>17. CASE UNCHANGED <<receipts, lock, pc, req>>
  BY <1>17 DEF Numbering, Gapless, NumberIsNext, LastNumber, Numbers
<1> QED
  BY <1>1, <1>2, <1>3, <1>4, <1>5, <1>6, <1>7, <1>8, <1>9, <1>10, <1>11, <1>12, <1>13, <1>14, <1>15, <1>16, <1>17 DEF Next, Step,
     Environment, ConfirmShipment, CancelShipment, OpenBoletaLog, DownloadReceipt,
     ToggleLycet, vars

------------------------------------------------------------------------------
\* Rows are only ever added, one at a time, by the thread that commits one.
LEMMA ReceiptsOnlyInserted ==
  ASSUME [Next]_vars
  PROVE  \/ UNCHANGED receipts
         \/ \E i \in Issuers : InsertReceipt(i)
  BY DEF Next, Step, vars, LoadShipment, RejectShipment, FindReceipt, FindNoReceipt,
         AskLock, TakeNumber, SkipLycet, LycetAnswersCdr, LycetAnswersWithoutCdr,
         QueryFindsCdr, LycetFails, InsertConflict, LinkLog, FinishRequest, Crash,
         Environment, ConfirmShipment, CancelShipment, OpenBoletaLog,
         DownloadReceipt, ToggleLycet

LEMMA RowsUniqueStep ==
  ASSUME RowsUnique, [Next]_vars
  PROVE  RowsUnique'
<1>1. CASE UNCHANGED receipts
  BY <1>1 DEF RowsUnique
<1>2. ASSUME NEW i \in Issuers, InsertReceipt(i)
      PROVE  RowsUnique'
  <2>1. /\ receipts' = receipts \cup {NewReceipt(i)}
        /\ \A r \in receipts : /\ r.number # NewReceipt(i).number
                               /\ r.shipment # NewReceipt(i).shipment
    BY <1>2 DEF InsertReceipt, Conflicts
  <2> QED
    BY <2>1 DEF RowsUnique
<1> QED
  BY <1>1, <1>2, ReceiptsOnlyInserted

\* SUNAT forgets nothing.
LEMMA SunatGrows ==
  ASSUME [Next]_vars
  PROVE  sunat \subseteq sunat'
  BY DEF Delivered, Next, Step, vars, LoadShipment, RejectShipment, FindReceipt,
         FindNoReceipt, AskLock, TakeNumber, SkipLycet, LycetAnswersCdr,
         LycetAnswersWithoutCdr, QueryFindsCdr, LycetFails, InsertReceipt,
         InsertConflict, LinkLog, FinishRequest, Crash, Environment,
         ConfirmShipment, CancelShipment, OpenBoletaLog, DownloadReceipt, ToggleLycet

\* Every way into the point "accepted" with the outcome ACEPTADO goes through a
\* CDR, and a thread that is there keeps what it has read.
LEMMA AcceptedEntry ==
  ASSUME TypeOK, [Next]_vars, NEW i \in Issuers,
         pc'[i] = "accepted", req'[i].outcome = "ACEPTADO"
  PROVE  \/ /\ pc[i] = "accepted"
            /\ req'[i] = req[i]
         \/ \E d \in sunat' : d.number = req'[i].number
<1>1. ASSUME NEW j \in Issuers, NEW e \in Served, NEW s \in Shipments,
             LoadShipment(j, e, s)
      PROVE  pc[i] = "accepted" /\ req'[i] = req[i]
  BY <1>1 DEF LoadShipment, At, TypeOK
<1>2. ASSUME NEW j \in Issuers,
             \/ RejectShipment(j) \/ InsertConflict(j) \/ Crash(j)
             \/ FinishRequest(j) \/ LycetFails(j)
      PROVE  pc[i] = "accepted" /\ req'[i] = req[i]
  <2>1. EndRequest(j)
    BY <1>2 DEF RejectShipment, InsertConflict, Crash, FinishRequest, LycetFails
  <2> QED
    BY <2>1 DEF EndRequest, At, TypeOK
<1>3. ASSUME NEW j \in Issuers,
             \/ FindReceipt(j) \/ FindNoReceipt(j) \/ AskLock(j) \/ TakeNumber(j)
             \/ InsertReceipt(j) \/ LinkLog(j) \/ LycetAnswersWithoutCdr(j)
      PROVE  pc[i] = "accepted" /\ req'[i] = req[i]
  BY <1>3 DEF FindReceipt, FindNoReceipt, AskLock, TakeNumber, InsertReceipt,
              LinkLog, LycetAnswersWithoutCdr, At, TypeOK
<1>4. ASSUME NEW j \in Issuers, SkipLycet(j)
      PROVE  pc[i] = "accepted" /\ req'[i] = req[i]
  BY <1>4 DEF SkipLycet, At, TypeOK, Request
<1>5. ASSUME NEW j \in Issuers, LycetAnswersCdr(j) \/ QueryFindsCdr(j)
      PROVE  \/ pc[i] = "accepted" /\ req'[i] = req[i]
             \/ \E d \in sunat' : d.number = req'[i].number
  BY <1>5 DEF LycetAnswersCdr, QueryFindsCdr, Registered, At, TypeOK, Request
<1>6. CASE UNCHANGED <<pc, req>>
  BY <1>6
<1> QED
  BY <1>1, <1>2, <1>3, <1>4, <1>5, <1>6
  DEF Next, Step, Environment, ConfirmShipment, CancelShipment, OpenBoletaLog,
      DownloadReceipt, ToggleLycet, vars

LEMMA AcceptedBySunatStep ==
  ASSUME TypeOK, AcceptedBySunat, [Next]_vars
  PROVE  AcceptedBySunat'
<1>1. \A n : Registered(n) => Registered(n)'
  BY SunatGrows DEF Registered
<1>2. ASSUME NEW i \in Issuers, pc'[i] = "accepted", req'[i].outcome = "ACEPTADO"
      PROVE  Registered(req[i].number)'
  BY <1>1, <1>2, AcceptedEntry DEF AcceptedBySunat, Registered
<1>3. CASE UNCHANGED receipts
  BY <1>1, <1>2, <1>3 DEF AcceptedBySunat, AcceptedIsRegistered
<1>4. ASSUME NEW i \in Issuers, InsertReceipt(i)
      PROVE  AcceptedIsRegistered'
  BY <1>1, <1>4 DEF InsertReceipt, NewReceipt, AcceptedBySunat, AcceptedIsRegistered
<1> QED
  BY <1>2, <1>3, <1>4, ReceiptsOnlyInserted DEF AcceptedBySunat

LEMMA ReceiptsKept ==
  ASSUME [Next]_vars
  PROVE  \A s : HasReceipt(s) => HasReceipt(s)'
  BY ReceiptsOnlyInserted DEF HasReceipt, InsertReceipt

LEMMA AfterTheReceiptEnd ==
  ASSUME TypeOK, AfterTheReceipt, NEW i \in Issuers, EndRequest(i),
         UNCHANGED <<receipts, boletaLog, traced>>
  PROVE  AfterTheReceipt'
  BY DEF EndRequest, At, TypeOK, AfterTheReceipt, TimelineIsTrue,
         LinkedLogHasReceipt, HasReceipt

LEMMA AfterTheReceiptStep ==
  ASSUME TypeOK, AfterTheReceipt, [Next]_vars
  PROVE  AfterTheReceipt'
<1> USE DEF AfterTheReceipt, TimelineIsTrue, LinkedLogHasReceipt, At, TypeOK
<1>1. ASSUME NEW i \in Issuers, NEW e \in Served, NEW s \in Shipments,
             LoadShipment(i, e, s)
      PROVE  AfterTheReceipt'
  BY <1>1 DEF LoadShipment, HasReceipt
<1>2. ASSUME NEW i \in Issuers,
             RejectShipment(i) \/ InsertConflict(i) \/ Crash(i) \/ LycetFails(i)
      PROVE  AfterTheReceipt'
  BY <1>2, AfterTheReceiptEnd DEF RejectShipment, InsertConflict, Crash, LycetFails
<1>3. ASSUME NEW i \in Issuers, FindReceipt(i) \/ FindNoReceipt(i)
      PROVE  AfterTheReceipt'
  BY <1>3 DEF FindReceipt, FindNoReceipt, Request, HasReceipt
<1>4. ASSUME NEW i \in Issuers, AskLock(i) \/ TakeNumber(i) \/ SkipLycet(i)
      PROVE  AfterTheReceipt'
  BY <1>4 DEF AskLock, TakeNumber, SkipLycet, Request, HasReceipt
<1>5. ASSUME NEW i \in Issuers,
             LycetAnswersCdr(i) \/ LycetAnswersWithoutCdr(i) \/ QueryFindsCdr(i)
      PROVE  AfterTheReceipt'
  BY <1>5 DEF LycetAnswersCdr, LycetAnswersWithoutCdr, QueryFindsCdr, Request, HasReceipt
<1>6. ASSUME NEW i \in Issuers, InsertReceipt(i)
      PROVE  AfterTheReceipt'
  <2>1. HasReceipt(req[i].shipment)'
    BY <1>6 DEF InsertReceipt, NewReceipt, HasReceipt
  <2> QED
    BY <1>6, <2>1, ReceiptsKept DEF InsertReceipt
<1>7. ASSUME NEW i \in Issuers, LinkLog(i)
      PROVE  AfterTheReceipt'
  BY <1>7 DEF LinkLog, HasReceipt
<1>8. ASSUME NEW i \in Issuers, FinishRequest(i)
      PROVE  AfterTheReceipt'
  BY <1>8 DEF FinishRequest, EndRequest, HasReceipt
<1>9. ASSUME NEW s \in Shipments, Environment(s)
      PROVE  AfterTheReceipt'
  BY <1>9 DEF Environment, ConfirmShipment, CancelShipment, OpenBoletaLog,
              DownloadReceipt, HasReceipt
<1>10. CASE ToggleLycet \/ UNCHANGED vars
  BY <1>10 DEF ToggleLycet, vars, HasReceipt
<1> QED
  BY <1>1, <1>2, <1>3, <1>4, <1>5, <1>6, <1>7, <1>8, <1>9, <1>10 DEF Next, Step
------------------------------------------------------------------------------
IInv ==
  /\ TypeOK
  /\ Numbering
  /\ RowsUnique
  /\ AcceptedBySunat
  /\ AfterTheReceipt

LEMMA InvInit == Init => IInv
<1> SUFFICES ASSUME Init
             PROVE  IInv
  OBVIOUS
<1>1. Numbers = {} /\ Numbers = 1..0
  BY DEF Init, Numbers
<1>2. Numbering
  BY <1>1, FS_EmptySet, ConstantsAssumption
  DEF Init, Numbering, Gapless, NumberIsNext, Holding
<1>3. RowsUnique /\ AcceptedBySunat /\ AfterTheReceipt
  BY DEF Init, RowsUnique, AcceptedBySunat, AcceptedIsRegistered, AfterTheReceipt,
         TimelineIsTrue, LinkedLogHasReceipt
<1> QED
  BY <1>2, <1>3, TypeInit DEF IInv

LEMMA InvStep == IInv /\ [Next]_vars => IInv'
  BY TypeStep, NumberingStep, RowsUniqueStep, AcceptedBySunatStep,
     AfterTheReceiptStep DEF IInv

LEMMA Invariance == Spec => []IInv
  BY InvInit, InvStep, PTL DEF Spec

\* Every reachable state of the issuing code is well typed: in particular every
\* committed number is positive and every busy thread works on one shipment.
THEOREM TypeCorrect == Spec => []TypeOK
<1>1. IInv => TypeOK
  BY DEF IInv
<1> QED
  BY <1>1, Invariance, PTL

\* The lock protects the number from the read to the commit, for any number of
\* concurrent requests: create_receipt never fails on (serie, numero).
THEOREM NumberStaysNext == Spec => []NumberIsNext
<1>1. IInv => NumberIsNext
  BY DEF IInv, Numbering
<1> QED
  BY <1>1, Invariance, PTL

\* The series has neither gaps nor duplicates, whatever fails in between.
THEOREM SeriesGapless == Spec => []Gapless
<1>1. IInv => Gapless
  BY DEF IInv, Numbering
<1> QED
  BY <1>1, Invariance, PTL

\* No receipt is stored as ACEPTADO under a number that SUNAT has not registered.
THEOREM AcceptedRegistered == Spec => []AcceptedIsRegistered
<1>1. IInv => AcceptedIsRegistered
  BY DEF IInv, AcceptedBySunat
<1> QED
  BY <1>1, Invariance, PTL

\* The timeline never announces a receipt that is not there.
THEOREM NothingAnnouncedEarly == Spec => []TimelineIsTrue
<1>1. IInv => TimelineIsTrue
  BY DEF IInv, AfterTheReceipt
<1> QED
  BY <1>1, Invariance, PTL

\* A log that carries a receipt belongs to a shipment that has one:
\* LinkLog comes after the commit of the receipt, in another transaction.
LEMMA LinkedOfInv == IInv => LinkedLogHasReceipt
  BY DEF IInv, AfterTheReceipt

\* The emission log of a shipment is linked only to a receipt that is committed.
THEOREM LinkedLogsHaveReceipts == Spec => []LinkedLogHasReceipt
  BY LinkedOfInv, Invariance, PTL
------------------------------------------------------------------------------
(***************************************************************************)
(* The refinement.  Inserting the row number LastNumber + 1 appends its    *)
(* shipment to the ledger; every other step leaves the ledger as it is.    *)
(***************************************************************************)
Book == [n \in 1..LastNumber |-> ReceiptOf(n).shipment]

LEMMA ReceiptOfRow ==
  ASSUME RowsUnique, NEW r \in receipts
  PROVE  ReceiptOf(r.number) = r
  BY DEF ReceiptOf, RowsUnique

LEMMA BookInit ==
  ASSUME Init
  PROVE  Ledger!Init
<1>1. Numbers = 1..0
  BY DEF Init, Numbers
<1>2. LastNumber = 0
  BY <1>1, LastNumberOfInterval
<1>3. Book = << >>
  BY <1>2 DEF Book
<1> QED
  BY <1>3 DEF Ledger!Init, Book

\* Appending to a sequence given as a function on 1..N.
LEMMA AppendToFunction ==
  ASSUME NEW N \in Nat, NEW f, NEW g, NEW e,
         f = [n \in 1..N |-> f[n]],
         g = [n \in 1..(N + 1) |-> g[n]],
         \A n \in 1..N : g[n] = f[n],
         g[N + 1] = e
  PROVE  g = Append(f, e)
<1>1. DOMAIN f = 1..N /\ Len(f) = N
  OBVIOUS
<1>2. Append(f, e) = [n \in 1..(N + 1) |-> IF n = N + 1 THEN e ELSE f[n]]
  BY <1>1
<1>3. \A n \in 1..(N + 1) : g[n] = IF n = N + 1 THEN e ELSE f[n]
  <2>1. \A n \in 1..(N + 1) : n = N + 1 \/ n \in 1..N
    OBVIOUS
  <2>2. ASSUME NEW n \in 1..(N + 1), n # N + 1
        PROVE  g[n] = f[n]
    <3>1. n \in 1..N
      BY <2>1, <2>2
    <3> QED
      BY <3>1
  <2> QED
    BY <2>2
<1>4. g = [n \in 1..(N + 1) |-> IF n = N + 1 THEN e ELSE f[n]]
  BY <1>3
<1> QED
  BY <1>2, <1>4

LEMMA BookAppends ==
  ASSUME IInv, IInv', NEW i \in Issuers, InsertReceipt(i)
  PROVE  Ledger!Issue(req[i].shipment)
<1>0. PICK N \in Nat : N = LastNumber
  BY LastIsCardinality DEF IInv
<1>1. PICK row : row = NewReceipt(i)
  OBVIOUS
<1>2. /\ receipts' = receipts \cup {row}
      /\ row.number = N + 1
      /\ row.shipment = req[i].shipment
      /\ \A r \in receipts : r.shipment # row.shipment
  BY <1>0, <1>1
  DEF InsertReceipt, NewReceipt, Conflicts, IInv, Numbering, NumberIsNext, Holding
<1>3. Numbers = 1..N
  BY <1>0, LastIsCardinality DEF IInv
<1>4. LastNumber' = N + 1
  <2>1. Numbers' = Numbers \cup {row.number}
    BY <1>2 DEF Numbers
  <2>2. Numbers' = 1..(N + 1)
    BY <1>2, <1>3, <2>1
  <2> QED
    BY <2>2, MaxOfInterval DEF LastNumber
<1>5. ASSUME NEW n \in 1..N
      PROVE  ReceiptOf(n)' = ReceiptOf(n)
  <2>1. PICK r \in receipts : r.number = n
    BY <1>3 DEF Numbers
  <2>2. ReceiptOf(n) = r
    BY <2>1, ReceiptOfRow DEF IInv
  <2>3. \A q \in receipts' : q.number = n => q = r
    BY <1>2, <2>1 DEF IInv, RowsUnique
  <2>4. ReceiptOf(n)' = r
    BY <1>2, <2>1, <2>3 DEF ReceiptOf
  <2> QED
    BY <2>2, <2>4
<1>6. ASSUME NEW n, n = N + 1
      PROVE  ReceiptOf(n)' = row
  <2>1. \A q \in receipts' : q.number = n => q = row
    BY <1>2, <1>6 DEF IInv, RowsUnique
  <2> QED
    BY <1>2, <1>6, <2>1 DEF ReceiptOf
<1>7. Book' = Append(Book, req[i].shipment)
  <2>1. Book = [n \in 1..N |-> ReceiptOf(n).shipment]
    BY <1>0 DEF Book
  <2>2. Book' = [n \in 1..(N + 1) |-> ReceiptOf(n)'.shipment]
    BY <1>4 DEF Book
  <2>3. \A n \in 1..N : Book'[n] = Book[n]
    BY <1>5, <2>1, <2>2
  <2>4. Book'[N + 1] = req[i].shipment
    BY <1>2, <1>6, <2>2
  <2>5. Book = [n \in 1..N |-> Book[n]] /\ Book' = [n \in 1..(N + 1) |-> Book'[n]]
    BY <2>1, <2>2
  <2> QED
    BY <2>3, <2>4, <2>5, AppendToFunction
<1>8. ASSUME NEW n \in 1..Len(Book)
      PROVE  Book[n] # req[i].shipment
  <2>1. n \in 1..N /\ Book[n] = ReceiptOf(n).shipment
    BY <1>0, <1>8 DEF Book
  <2>2. PICK r \in receipts : r.number = n
    BY <1>3, <2>1 DEF Numbers
  <2> QED
    BY <1>2, <2>1, <2>2, ReceiptOfRow DEF IInv
<1> QED
  BY <1>7, <1>8 DEF Ledger!Issue, Ledger!Issued, Book

\* A step either enters one shipment in the ledger or leaves the ledger alone.
LEMMA BookStep ==
  ASSUME IInv, IInv', [Next]_vars
  PROVE  [Ledger!Next]_Book
<1>1. CASE UNCHANGED receipts
  <2>1. Book' = Book
    BY <1>1 DEF Book, LastNumber, Numbers, ReceiptOf
  <2> QED
    BY <2>1
<1>2. ASSUME NEW i \in Issuers, InsertReceipt(i)
      PROVE  Ledger!Next
  <2>1. req[i].shipment \in Shipments
    BY <1>2 DEF InsertReceipt, IInv, TypeOK
  <2> QED
    BY <1>2, <2>1, BookAppends DEF Ledger!Next
<1> QED
  BY <1>1, <1>2, ReceiptsOnlyInserted

\* The issuing code implements the abstract ledger: consecutive entries, never
\* changed, no shipment twice, although its check precedes the lock.
THEOREM LedgerImplemented == Spec => ImplementsLedger
<1>1. Init => Ledger!Init
  BY BookInit
<1>2. IInv /\ IInv' /\ [Next]_vars => [Ledger!Next]_Book
  BY BookStep
<1> QED
  BY <1>1, <1>2, Invariance, PTL DEF Spec, ImplementsLedger, Ledger!Spec, Book
==============================================================================
