-------------------------- MODULE PaymentFlow_proofs --------------------------
(***************************************************************************)
(* Proofs about PaymentFlow for any number of threads, shipments and rows: *)
(* the numbering of the charge log, what it and the timeline may claim of  *)
(* the gateway, and the emission logs of requests that do not overlap.     *)
(***************************************************************************)
EXTENDS MCPaymentCalm, FiniteSetTheorems, SequenceTheorems, WellFoundedInduction, TLAPS

LEMMA TypeInit == Init => TypeOK
  BY ConstantsAssumption
  DEF Init, TypeOK, Request, NoRequest, Operations, Gateways, Answers, Points

LEMMA TypeRead ==
  ASSUME NEW r \in Request, NEW n \in Nat
  PROVE  /\ [r EXCEPT !.number = n] \in Request
         /\ [r EXCEPT !.number = n].shipment = r.shipment
         /\ [r EXCEPT !.found = n] \in Request
         /\ [r EXCEPT !.found = n].shipment = r.shipment
         /\ [r EXCEPT !.found = n].found = n
  BY DEF Request

LEMMA TypeEnd ==
  ASSUME TypeOK, NEW i \in Cashiers, EndRequest(i), logs' = logs
  PROVE  /\ lock' \in Cashiers \cup {NoCashier}
         /\ pc' \in [Cashiers -> Points]
         /\ req' \in [Cashiers -> Request]
         /\ \A j \in Cashiers :
              /\ pc'[j] \in {"searching", "opening", "closing"} => req'[j].shipment \in Shipments
              /\ pc'[j] = "closing" => req'[j].found \in DOMAIN logs'
<1>1. NoRequest \in Request /\ "idle" \in Points
  BY DEF NoRequest, Request, Operations, Gateways, Answers, Points
<1> QED
  BY <1>1 DEF TypeOK, EndRequest, Unlock, At

\* Steps that end a request and write nothing else.
Ends(i) ==
  \/ EndPayment(i) \/ FindOpenLog(i) \/ FindNothingToClose(i) \/ Crash(i)

LEMMA EndsShape ==
  ASSUME NEW i \in Cashiers, Ends(i)
  PROVE  /\ EndRequest(i)
         /\ UNCHANGED <<accepted, charged, chargeLogs, announced, logs>>
  BY DEF Ends, EndPayment, FindOpenLog, FindNothingToClose, Crash, gateway

\* Steps of a request that has not reached the tables yet.
Starts(i) ==
  \/ \E op \in Gateways, s \in Shipments \cup {NoShipment} : StartPayment(i, op, s)
  \/ \E s \in Shipments : StartConfirm(i, s) \/ StartDownload(i, s)

LEMMA StartsShape ==
  ASSUME NEW i \in Cashiers, Starts(i)
  PROVE  \E op \in Operations, s \in Shipments \cup {NoShipment} :
           /\ pc[i] = "idle"
           /\ req' = [req EXCEPT ![i] = [NoRequest EXCEPT !.op = op, !.shipment = s]]
           /\ \/ pc' = [pc EXCEPT ![i] = "calling"]
              \/ pc' = [pc EXCEPT ![i] = "searching"] /\ s \in Shipments
           /\ UNCHANGED <<accepted, charged, chargeLogs, lock, announced, logs>>
<1>1. CASE \E op \in Gateways, s \in Shipments \cup {NoShipment} : StartPayment(i, op, s)
  BY <1>1 DEF StartPayment, Start, At, Operations, gateway
<1>2. ASSUME NEW s \in Shipments, StartConfirm(i, s) \/ StartDownload(i, s)
      PROVE  \E op \in {"confirm", "download"} : Start(i, op, s, "searching")
  BY <1>2 DEF StartConfirm, StartDownload
<1>3. CASE \E s \in Shipments : StartConfirm(i, s) \/ StartDownload(i, s)
  <2>1. PICK s \in Shipments, op \in {"confirm", "download"} : Start(i, op, s, "searching")
    BY <1>2, <1>3
  <2>2. op \in Operations
    BY DEF Operations
  <2> QED
    BY <2>1, <2>2 DEF Start, At, gateway
<1> QED
  BY <1>1, <1>3 DEF Starts

\* The remaining steps, each of one thread.
Works(i) ==
  \/ GatewayAnswers(i) \/ GatewayFails(i) \/ AskLock(i) \/ TakeNumber(i)
  \/ InsertChargeLog(i) \/ LogFails(i) \/ Announce(i) \/ FindNoOpenLog(i)
  \/ OpenLog(i) \/ FindLogToClose(i) \/ CloseLog(i)

LEMMA NextShape ==
  ASSUME Next
  PROVE  \E i \in Cashiers : Starts(i) \/ Ends(i) \/ Works(i)
  BY DEF Next, CalmNext, Arrival, Step, Starts, Ends, Works
-------------------------------------------------------------------------------
LEMMA MaxOfInterval ==
  ASSUME NEW n \in Nat
  PROVE  Max((1..n) \cup {0}) = n
<1>1. (1..n) \cup {0} = 0..n
  OBVIOUS
<1>2. \A x \in 0..n : (\A y \in 0..n : x >= y) <=> x = n
  OBVIOUS
<1>3. n \in 0..n
  OBVIOUS
<1> QED
  BY <1>1, <1>2, <1>3 DEF Max

LEMMA LastIsLength ==
  ASSUME TypeOK, ChargesNumbered
  PROVE  LastNumber = Len(chargeLogs) /\ Len(chargeLogs) \in Nat
<1>1. Len(chargeLogs) \in Nat /\ DOMAIN chargeLogs = 1..Len(chargeLogs)
  BY DEF TypeOK
<1>2. {chargeLogs[n].number : n \in DOMAIN chargeLogs} = 1..Len(chargeLogs)
  BY <1>1 DEF ChargesNumbered
<1> QED
  BY <1>1, <1>2, MaxOfInterval DEF LastNumber

\* What a thread finds is the id of an open log.
LEMMA NewestOpen ==
  ASSUME TypeOK, NEW s \in Shipments, OpenLogs(s) # {}
  PROVE  Max(OpenLogs(s)) \in OpenLogs(s)
<1> DEFINE len == Len(logs)
           T == {len - n : n \in OpenLogs(s)}
<1>1. OpenLogs(s) \subseteq 1..len /\ len \in Nat
  BY DEF TypeOK, OpenLogs
<1>2. T \subseteq Nat /\ T # {}
  BY <1>1
<1>3. \E d \in T : \A e \in T : ~(<<e, d>> \in OpToRel(<, Nat))
  BY <1>2, NatLessThanWellFounded, WFMin, Zenon
<1>4. \E d \in T : \A e \in T : ~(e < d)
  <2>1. \A d, e \in Nat : <<e, d>> \in OpToRel(<, Nat) <=> e < d
    BY DEF OpToRel
  <2> HIDE DEF T
  <2> QED
    BY <1>2, <1>3, <2>1
<1>5. \E m \in OpenLogs(s) : \A n \in OpenLogs(s) : m >= n
  <2>1. PICK m \in OpenLogs(s) : \A e \in T : ~(e < len - m)
    BY <1>4
  <2>2. ASSUME NEW n \in OpenLogs(s)
        PROVE  m >= n
    <3>1. ~(len - n < len - m)
      BY <2>1
    <3>2. m \in Nat /\ n \in Nat
      BY <1>1
    <3> HIDE DEF T
    <3> QED
      BY <1>1, <3>1, <3>2
  <2> QED
    BY <2>2
<1> QED
  BY <1>5 DEF Max
-------------------------------------------------------------------------------
(***************************************************************************)
(* The invariant.  A number is only read and used by the thread that holds *)
(* the lock, so it is the next row's; a request that will announce an      *)
(* approval carries one that the gateway has given.  A success that is not *)
(* in the charge log yet has been counted by the gateway like those that   *)
(* are, and each will be in the log at most once.                          *)
(***************************************************************************)
Numbering ==
  /\ ChargesNumbered
  /\ \A i \in Cashiers :
       /\ pc[i] = "numbered" <=> lock = i
       /\ pc[i] = "numbered" => req[i].number = Len(chargeLogs) + 1

AfterTheAnswer == {"answered", "waiting", "numbered", "logged"}

Charging ==
  /\ AnnouncedWasCharged
  /\ \A i \in Cashiers :
       pc[i] \in AfterTheAnswer /\ Approved(req[i]) => req[i].shipment \in charged

BeforeTheLog == {"answered", "waiting", "numbered"}

\* The payments that may still become rows with a success.
Pending == {i \in Cashiers : pc[i] \in BeforeTheLog /\ Succeeded(req[i])}

Counting ==
  /\ IsFiniteSet(Successes) /\ IsFiniteSet(Pending)
  /\ Cardinality(Successes) + Cardinality(Pending) <= accepted

IInv == TypeOK /\ Numbering /\ Charging /\ Counting

LEMMA TypeStep ==
  ASSUME TypeOK, Numbering, [Next]_vars
  PROVE  TypeOK'
<1>1. CASE UNCHANGED vars
  BY <1>1 DEF vars, TypeOK, OpenLogs
<1>2. ASSUME NEW i \in Cashiers, Starts(i)
      PROVE  TypeOK'
  <2>1. PICK op \in Operations, s \in Shipments \cup {NoShipment} :
          /\ pc[i] = "idle"
          /\ req' = [req EXCEPT ![i] = [NoRequest EXCEPT !.op = op, !.shipment = s]]
          /\ \/ pc' = [pc EXCEPT ![i] = "calling"]
             \/ pc' = [pc EXCEPT ![i] = "searching"] /\ s \in Shipments
          /\ UNCHANGED <<accepted, charged, chargeLogs, lock, announced, logs>>
    BY <1>2, StartsShape
  <2> QED
    BY <2>1 DEF TypeOK, Request, NoRequest, Points, Answers
<1>3. ASSUME NEW i \in Cashiers, Ends(i)
      PROVE  TypeOK'
  BY <1>3, EndsShape, TypeEnd DEF TypeOK
<1>4. ASSUME NEW i \in Cashiers, GatewayAnswers(i) \/ GatewayFails(i)
      PROVE  TypeOK'
  <2>1. accepted' \in Nat /\ charged' \subseteq Shipments
    BY <1>4 DEF GatewayAnswers, GatewayFails, Take, gateway, TypeOK, Request
  <2>2. \E a \in Answers : req' = [req EXCEPT ![i].answer = a]
    BY <1>4 DEF GatewayAnswers, GatewayFails, Answers
  <2>3. UNCHANGED <<chargeLogs, lock, announced, logs>> /\ pc' = [pc EXCEPT ![i] = "answered"]
    BY <1>4 DEF GatewayAnswers, GatewayFails, At
  <2> QED
    BY <2>1, <2>2, <2>3 DEF TypeOK, Request, Points
<1>5. ASSUME NEW i \in Cashiers, AskLock(i)
      PROVE  TypeOK'
  BY <1>5 DEF AskLock, At, gateway, TypeOK, Request, Points
<1>6. ASSUME NEW i \in Cashiers, TakeNumber(i)
      PROVE  TypeOK'
  <2>1. LastNumber \in Nat
    BY LastIsLength DEF Numbering
  <2>2. /\ req' \in [Cashiers -> Request]
        /\ \A j \in Cashiers : req'[j].shipment = req[j].shipment
    <3> DEFINE n == LastNumber + 1
               r == [req[i] EXCEPT !.number = n]
    <3>1. r \in Request /\ r.shipment = req[i].shipment
      <4>1. req[i] \in Request /\ n \in Nat
        BY <2>1 DEF TypeOK
      <4> HIDE DEF n
      <4> QED
        BY <4>1, TypeRead
    <3>2. req' = [req EXCEPT ![i] = r]
      BY <1>6 DEF TakeNumber
    <3> HIDE DEF r
    <3> QED
      BY <3>1, <3>2 DEF TypeOK
  <2>3. pc' \in [Cashiers -> Points] /\ \A j \in Cashiers : j # i => pc'[j] = pc[j]
    BY <1>6 DEF TakeNumber, At, TypeOK, Points
  <2>4. pc'[i] = "numbered" /\ lock' = i
    BY <1>6 DEF TakeNumber, At, TypeOK
  <2>5. \A j \in Cashiers : j # i => req'[j] = req[j]
    BY <1>6 DEF TakeNumber, TypeOK
  <2> QED
    BY <1>6, <2>2, <2>3, <2>4, <2>5 DEF TakeNumber, gateway, TypeOK
<1>7. ASSUME NEW i \in Cashiers, InsertChargeLog(i)
      PROVE  TypeOK'
  <2>1. chargeLogs' \in Seq(ChargeLog)
    BY <1>7 DEF InsertChargeLog, TypeOK, Request, ChargeLog
  <2> QED
    BY <1>7, <2>1 DEF InsertChargeLog, Unlock, At, gateway, TypeOK, Request, Points
<1>8. ASSUME NEW i \in Cashiers, LogFails(i)
      PROVE  TypeOK'
  BY <1>8 DEF LogFails, Unlock, At, gateway, TypeOK, Request, Points
<1>9. ASSUME NEW i \in Cashiers, Announce(i) \/ FindNoOpenLog(i)
      PROVE  TypeOK'
  <2>1. req[i].shipment \in Shipments
    BY <1>9 DEF Announce, FindNoOpenLog, RecordsPayment, Approved, TypeOK, Request
  <2> QED
    BY <1>9, <2>1 DEF Announce, FindNoOpenLog, At, gateway, TypeOK, Request, Points
<1>10. ASSUME NEW i \in Cashiers, OpenLog(i)
       PROVE  TypeOK'
  <2>1. logs' \in Seq(EmissionLog) /\ DOMAIN logs \subseteq DOMAIN logs'
    BY <1>10 DEF OpenLog, TypeOK, EmissionLog
  <2>2. NoRequest \in Request
    BY DEF NoRequest, Request, Operations, Gateways, Answers
  <2> QED
    BY <1>10, <2>1, <2>2 DEF OpenLog, EndRequest, Unlock, At, gateway, TypeOK, Points
<1>11. ASSUME NEW i \in Cashiers, FindLogToClose(i)
       PROVE  TypeOK'
  <2>1. Max(OpenLogs(req[i].shipment)) \in DOMAIN logs
    BY <1>11, NewestOpen DEF FindLogToClose, TypeOK, OpenLogs
  <2>2. DOMAIN logs \subseteq Nat
    BY DEF TypeOK
  <2>3. /\ req' \in [Cashiers -> Request]
        /\ \A j \in Cashiers : req'[j].shipment = req[j].shipment /\ (j # i => req'[j] = req[j])
        /\ req'[i].found \in DOMAIN logs
    <3> DEFINE m == Max(OpenLogs(req[i].shipment))
               r == [req[i] EXCEPT !.found = m]
    <3>1. r \in Request /\ r.shipment = req[i].shipment /\ r.found = m
      <4>1. req[i] \in Request /\ m \in Nat
        BY <2>1, <2>2 DEF TypeOK
      <4> HIDE DEF m
      <4> QED
        BY <4>1, TypeRead
    <3>2. req' = [req EXCEPT ![i] = r]
      BY <1>11 DEF FindLogToClose
    <3> HIDE DEF r
    <3> QED
      BY <2>1, <3>1, <3>2 DEF TypeOK
  <2>4. pc' \in [Cashiers -> Points] /\ \A j \in Cashiers : j # i => pc'[j] = pc[j]
    BY <1>11 DEF FindLogToClose, At, TypeOK, Points
  <2>5. pc[i] = "searching" /\ pc'[i] = "closing"
    BY <1>11 DEF FindLogToClose, At, TypeOK
  <2>6. UNCHANGED <<accepted, charged, chargeLogs, lock, announced, logs>>
    BY <1>11 DEF FindLogToClose, gateway
  <2>7. ASSUME NEW j \in Cashiers
        PROVE  /\ pc'[j] \in {"searching", "opening", "closing"} => req'[j].shipment \in Shipments
               /\ pc'[j] = "closing" => req'[j].found \in DOMAIN logs'
    <3>1. CASE j = i
      BY <2>3, <2>5, <2>6, <3>1 DEF TypeOK
    <3>2. CASE j # i
      BY <2>3, <2>4, <2>6, <3>2 DEF TypeOK
    <3> QED
      BY <3>1, <3>2
  <2> QED
    BY <2>3, <2>4, <2>6, <2>7 DEF TypeOK
<1>12. ASSUME NEW i \in Cashiers, CloseLog(i)
       PROVE  TypeOK'
  <2>1. logs' \in Seq(EmissionLog) /\ DOMAIN logs' = DOMAIN logs
    <3>1. /\ Len(logs) \in Nat
          /\ logs \in [1..Len(logs) -> EmissionLog]
          /\ DOMAIN logs = 1..Len(logs)
      BY DEF TypeOK
    <3>2. logs' \in [1..Len(logs) -> EmissionLog]
      BY <1>12, <3>1 DEF CloseLog, EmissionLog
    <3> QED
      BY <3>1, <3>2, SeqDef
  <2>2. NoRequest \in Request
    BY DEF NoRequest, Request, Operations, Gateways, Answers
  <2> QED
    BY <1>12, <2>1, <2>2 DEF CloseLog, EndRequest, Unlock, At, gateway, TypeOK, Points
<1> QED
  BY <1>1, <1>2, <1>3, <1>4, <1>5, <1>6, <1>7, <1>8, <1>9, <1>10, <1>11, <1>12,
     NextShape DEF Works
-------------------------------------------------------------------------------
\* Steps that do not touch the charge log: a thread that comes to rest or works
\* elsewhere holds no lock after them.
LEMMA NumberingKept ==
  ASSUME TypeOK, Numbering, NEW i \in Cashiers, UNCHANGED chargeLogs,
         pc' = [pc EXCEPT ![i] = pc'[i]], pc'[i] # "numbered",
         \A j \in Cashiers : j # i => req'[j] = req[j],
         lock' = IF lock = i THEN NoCashier ELSE lock
  PROVE  Numbering'
<1>1. ChargesNumbered'
  BY DEF Numbering, ChargesNumbered
<1>2. ASSUME NEW j \in Cashiers
      PROVE  /\ pc'[j] = "numbered" <=> lock' = j
             /\ pc'[j] = "numbered" => req'[j].number = Len(chargeLogs) + 1
  BY <1>2, ConstantsAssumption DEF Numbering, TypeOK
<1> QED
  BY <1>1, <1>2 DEF Numbering

LEMMA NumberingStep ==
  ASSUME TypeOK, Numbering, [Next]_vars
  PROVE  Numbering'
<1>1. CASE UNCHANGED vars
  BY <1>1 DEF vars, Numbering, ChargesNumbered
<1>2. ASSUME NEW i \in Cashiers, Starts(i)
      PROVE  Numbering'
  <2>1. PICK op \in Operations, s \in Shipments \cup {NoShipment} :
          /\ pc[i] = "idle"
          /\ req' = [req EXCEPT ![i] = [NoRequest EXCEPT !.op = op, !.shipment = s]]
          /\ \/ pc' = [pc EXCEPT ![i] = "calling"]
             \/ pc' = [pc EXCEPT ![i] = "searching"] /\ s \in Shipments
          /\ UNCHANGED <<accepted, charged, chargeLogs, lock, announced, logs>>
    BY <1>2, StartsShape
  <2>2. lock # i
    BY <2>1 DEF Numbering
  <2> QED
    BY <2>1, <2>2, NumberingKept DEF TypeOK
<1>3. ASSUME NEW i \in Cashiers, Ends(i) \/ OpenLog(i) \/ CloseLog(i)
      PROVE  Numbering'
  <2>1. EndRequest(i) /\ UNCHANGED chargeLogs
    BY <1>3, EndsShape DEF OpenLog, CloseLog
  <2> QED
    BY <2>1, NumberingKept DEF EndRequest, Unlock, At, TypeOK
<1>4. ASSUME NEW i \in Cashiers,
             \/ GatewayAnswers(i) \/ GatewayFails(i) \/ AskLock(i) \/ Announce(i)
             \/ FindNoOpenLog(i) \/ FindLogToClose(i)
      PROVE  Numbering'
  <2>1. /\ pc[i] # "numbered"
        /\ \E p \in Points \ {"numbered"} : pc' = [pc EXCEPT ![i] = p]
        /\ UNCHANGED <<chargeLogs, lock>>
        /\ \A j \in Cashiers : j # i => req'[j] = req[j]
    BY <1>4 DEF GatewayAnswers, GatewayFails, AskLock, Announce, FindNoOpenLog,
       FindLogToClose, At, Points, TypeOK
  <2>2. lock # i
    BY <2>1 DEF Numbering
  <2> QED
    BY <2>1, <2>2, NumberingKept DEF TypeOK
<1>5. ASSUME NEW i \in Cashiers, LogFails(i)
      PROVE  Numbering'
  BY <1>5, NumberingKept DEF LogFails, Unlock, At, TypeOK
<1>6. ASSUME NEW i \in Cashiers, TakeNumber(i)
      PROVE  Numbering'
  <2>1. LastNumber = Len(chargeLogs)
    BY LastIsLength DEF Numbering
  <2>2. \A j \in Cashiers : pc[j] # "numbered"
    BY <1>6, ConstantsAssumption DEF TakeNumber, Numbering
  <2>3. /\ pc' = [pc EXCEPT ![i] = "numbered"] /\ lock' = i
        /\ req' = [req EXCEPT ![i].number = Len(chargeLogs) + 1]
        /\ UNCHANGED chargeLogs
    BY <1>6, <2>1 DEF TakeNumber, At
  <2>4. req'[i].number = Len(chargeLogs) + 1
    BY <2>3 DEF TypeOK, Request
  <2> QED
    BY <2>2, <2>3, <2>4 DEF Numbering, ChargesNumbered, TypeOK
<1>7. ASSUME NEW i \in Cashiers, InsertChargeLog(i)
      PROVE  Numbering'
  <2>1. /\ lock = i /\ req[i].number = Len(chargeLogs) + 1
        /\ \A j \in Cashiers : j # i => pc[j] # "numbered"
    BY <1>7 DEF InsertChargeLog, Numbering
  <2>2. /\ Len(chargeLogs') = Len(chargeLogs) + 1
        /\ DOMAIN chargeLogs' = 1..(Len(chargeLogs) + 1)
        /\ chargeLogs'[Len(chargeLogs) + 1].number = req[i].number
        /\ \A n \in DOMAIN chargeLogs : chargeLogs'[n] = chargeLogs[n]
        /\ DOMAIN chargeLogs = 1..Len(chargeLogs) /\ Len(chargeLogs) \in Nat
    BY <1>7 DEF InsertChargeLog, TypeOK
  <2>3. ChargesNumbered'
    BY <2>1, <2>2 DEF ChargesNumbered, Numbering
  <2>4. lock' = NoCashier /\ pc' = [pc EXCEPT ![i] = "logged"]
    BY <1>7, <2>1 DEF InsertChargeLog, Unlock, At
  <2> QED
    BY <2>1, <2>3, <2>4, ConstantsAssumption DEF Numbering, TypeOK
<1> QED
  BY <1>1, <1>2, <1>3, <1>4, <1>5, <1>6, <1>7, NextShape DEF Works
-------------------------------------------------------------------------------
\* Steps that announce nothing and change no answer but that of a thread that is
\* not, or not yet, between the gateway's answer and the end.
LEMMA ChargingKept ==
  ASSUME TypeOK, Charging, NEW i \in Cashiers, UNCHANGED announced,
         charged \subseteq charged',
         \A j \in Cashiers : j # i => pc'[j] = pc[j] /\ req'[j] = req[j],
         pc'[i] \in AfterTheAnswer /\ Approved(req'[i]) => req'[i].shipment \in charged'
  PROVE  Charging'
<1>1. AnnouncedWasCharged'
  BY DEF Charging, AnnouncedWasCharged
<1>2. ASSUME NEW j \in Cashiers, pc'[j] \in AfterTheAnswer, Approved(req'[j])
      PROVE  req'[j].shipment \in charged'
  <2>1. CASE j = i
    BY <1>2, <2>1
  <2>2. CASE j # i
    BY <1>2, <2>2 DEF Charging
  <2> QED
    BY <2>1, <2>2
<1> QED
  BY <1>1, <1>2 DEF Charging, AfterTheAnswer, Approved

LEMMA ChargingStep ==
  ASSUME TypeOK, Charging, [Next]_vars
  PROVE  Charging'
<1>1. CASE UNCHANGED vars
  BY <1>1 DEF vars, Charging, AnnouncedWasCharged, AfterTheAnswer, Approved
<1>2. ASSUME NEW i \in Cashiers, Starts(i)
      PROVE  Charging'
  <2>1. /\ pc'[i] \notin AfterTheAnswer /\ UNCHANGED <<announced, charged>>
        /\ \A j \in Cashiers : j # i => pc'[j] = pc[j] /\ req'[j] = req[j]
    BY <1>2, StartsShape DEF AfterTheAnswer, TypeOK
  <2> QED
    BY <2>1, ChargingKept
<1>3. ASSUME NEW i \in Cashiers, Ends(i) \/ OpenLog(i) \/ CloseLog(i)
      PROVE  Charging'
  <2>1. EndRequest(i) /\ UNCHANGED <<announced, charged>>
    BY <1>3, EndsShape DEF OpenLog, CloseLog, gateway
  <2>2. /\ pc'[i] \notin AfterTheAnswer
        /\ \A j \in Cashiers : j # i => pc'[j] = pc[j] /\ req'[j] = req[j]
    BY <2>1 DEF EndRequest, At, AfterTheAnswer, TypeOK
  <2> QED
    BY <2>1, <2>2, ChargingKept
<1>4. ASSUME NEW i \in Cashiers, GatewayAnswers(i) \/ GatewayFails(i)
      PROVE  Charging'
  <2>1. UNCHANGED announced /\ charged \subseteq charged'
    BY <1>4 DEF GatewayAnswers, GatewayFails, Take, gateway
  <2>2. \A j \in Cashiers : j # i => pc'[j] = pc[j] /\ req'[j] = req[j]
    BY <1>4 DEF GatewayAnswers, GatewayFails, At, TypeOK
  <2>3. PICK a \in Answers :
          /\ req' = [req EXCEPT ![i].answer = a]
          /\ a = "approved" /\ req[i].shipment # NoShipment => req[i].shipment \in charged'
    BY <1>4 DEF GatewayAnswers, GatewayFails, Take, Answers
  <2>4. req'[i].answer = a /\ req'[i].shipment = req[i].shipment
    BY <2>3 DEF TypeOK, Request
  <2> QED
    BY <2>1, <2>2, <2>3, <2>4, ChargingKept DEF Approved
<1>5. ASSUME NEW i \in Cashiers,
             AskLock(i) \/ TakeNumber(i) \/ InsertChargeLog(i) \/ LogFails(i)
      PROVE  Charging'
  <2>1. /\ pc[i] \in AfterTheAnswer /\ UNCHANGED <<announced, charged>>
        /\ \A j \in Cashiers : j # i => pc'[j] = pc[j] /\ req'[j] = req[j]
    BY <1>5 DEF AskLock, TakeNumber, InsertChargeLog, LogFails, At, gateway,
       AfterTheAnswer, TypeOK
  <2>2. req'[i].answer = req[i].answer /\ req'[i].shipment = req[i].shipment
    BY <1>5 DEF AskLock, TakeNumber, InsertChargeLog, LogFails, TypeOK, Request
  <2> QED
    BY <2>1, <2>2, ChargingKept DEF Charging, Approved
<1>6. ASSUME NEW i \in Cashiers, FindNoOpenLog(i) \/ FindLogToClose(i)
      PROVE  Charging'
  <2>1. /\ pc'[i] \notin AfterTheAnswer /\ UNCHANGED <<announced, charged>>
        /\ \A j \in Cashiers : j # i => pc'[j] = pc[j] /\ req'[j] = req[j]
    BY <1>6 DEF FindNoOpenLog, FindLogToClose, At, gateway, AfterTheAnswer, TypeOK
  <2> QED
    BY <2>1, ChargingKept
<1>7. ASSUME NEW i \in Cashiers, Announce(i)
      PROVE  Charging'
  <2>1. req[i].shipment \in charged
    BY <1>7 DEF Announce, RecordsPayment, Charging, AfterTheAnswer
  <2>2. /\ announced' = announced \cup {req[i].shipment} /\ UNCHANGED <<charged, req>>
        /\ pc' = [pc EXCEPT ![i] = "searching"]
    BY <1>7 DEF Announce, At, gateway
  <2> QED
    BY <2>1, <2>2 DEF Charging, AnnouncedWasCharged, AfterTheAnswer, Approved, TypeOK
<1> QED
  BY <1>1, <1>2, <1>3, <1>4, <1>5, <1>6, <1>7, NextShape DEF Works
-------------------------------------------------------------------------------
LEMMA CountingKept ==
  ASSUME TypeOK, TypeOK', Counting, Successes' = Successes, Pending' \subseteq Pending,
         accepted' >= accepted
  PROVE  Counting'
<1>1. /\ IsFiniteSet(Pending') /\ Cardinality(Pending') <= Cardinality(Pending)
      /\ Cardinality(Pending') \in Nat
  BY FS_Subset, FS_CardinalityType DEF Counting
<1>2. Cardinality(Successes) \in Nat /\ Cardinality(Pending) \in Nat
  BY FS_CardinalityType DEF Counting
<1>3. accepted \in Nat /\ accepted' \in Nat
  BY DEF TypeOK
<1> HIDE DEF Pending, Successes
<1> QED
  BY <1>1, <1>2, <1>3 DEF Counting

\* Only the threads that work can be pending, and only a step changes that.
LEMMA PendingOthers ==
  ASSUME NEW i \in Cashiers,
         \A j \in Cashiers : j # i => pc'[j] = pc[j] /\ req'[j] = req[j]
  PROVE  /\ Pending' \subseteq Pending \cup {i}
         /\ i \notin Pending' => Pending' \subseteq Pending \ {i}
         /\ i \in Pending => Pending' \subseteq Pending
  BY DEF Pending, Succeeded

LEMMA CountingStep ==
  ASSUME TypeOK, TypeOK', Counting, [Next]_vars
  PROVE  Counting'
<1>1. CASE UNCHANGED vars
  <2>1. Successes' = Successes /\ Pending' = Pending /\ accepted' = accepted
    BY <1>1 DEF vars, Successes, Pending, Succeeded
  <2> QED
    BY <2>1 DEF Counting
<1>2. ASSUME NEW i \in Cashiers, UNCHANGED <<accepted, chargeLogs>>,
             \A j \in Cashiers : j # i => pc'[j] = pc[j] /\ req'[j] = req[j],
             i \in Pending' => i \in Pending
      PROVE  Counting'
  <2>1. Successes' = Successes /\ accepted' >= accepted
    BY <1>2 DEF Successes, TypeOK
  <2>2. Pending' \subseteq Pending
    BY <1>2, PendingOthers
  <2> QED
    BY <2>1, <2>2, CountingKept
<1>3. ASSUME NEW i \in Cashiers, Starts(i) \/ Ends(i)
      PROVE  Counting'
  <2>1. /\ pc'[i] \notin BeforeTheLog /\ UNCHANGED <<accepted, chargeLogs>>
        /\ \A j \in Cashiers : j # i => pc'[j] = pc[j] /\ req'[j] = req[j]
    BY <1>3, StartsShape, EndsShape DEF EndRequest, At, BeforeTheLog, TypeOK
  <2> QED
    BY <1>2, <2>1 DEF Pending
<1>4. ASSUME NEW i \in Cashiers,
             \/ LogFails(i) \/ Announce(i) \/ FindNoOpenLog(i) \/ OpenLog(i)
             \/ FindLogToClose(i) \/ CloseLog(i)
      PROVE  Counting'
  <2>1. /\ pc'[i] \notin BeforeTheLog /\ UNCHANGED <<accepted, chargeLogs>>
        /\ \A j \in Cashiers : j # i => pc'[j] = pc[j] /\ req'[j] = req[j]
    BY <1>4 DEF LogFails, Announce, FindNoOpenLog, OpenLog, FindLogToClose, CloseLog,
       EndRequest, At, gateway, BeforeTheLog, TypeOK
  <2> QED
    BY <1>2, <2>1 DEF Pending
<1>5. ASSUME NEW i \in Cashiers, AskLock(i) \/ TakeNumber(i)
      PROVE  Counting'
  <2>1. /\ pc[i] \in BeforeTheLog /\ UNCHANGED <<accepted, chargeLogs>>
        /\ \A j \in Cashiers : j # i => pc'[j] = pc[j] /\ req'[j] = req[j]
    BY <1>5 DEF AskLock, TakeNumber, At, gateway, BeforeTheLog, TypeOK
  <2>2. req'[i].answer = req[i].answer /\ req'[i].op = req[i].op
    BY <1>5 DEF AskLock, TakeNumber, TypeOK, Request
  <2> QED
    BY <1>2, <2>1, <2>2 DEF Pending, Succeeded
<1>6. ASSUME NEW i \in Cashiers, GatewayAnswers(i) \/ GatewayFails(i)
      PROVE  Counting'
  <2>1. /\ pc[i] = "calling" /\ UNCHANGED chargeLogs
        /\ \A j \in Cashiers : j # i => pc'[j] = pc[j] /\ req'[j] = req[j]
    BY <1>6 DEF GatewayAnswers, GatewayFails, At, TypeOK
  <2>2. Successes' = Successes
    BY <2>1 DEF Successes
  <2>3. i \notin Pending
    BY <2>1 DEF Pending, BeforeTheLog
  <2>4. accepted' \in {accepted, accepted + 1} /\ accepted \in Nat
    BY <1>6 DEF GatewayAnswers, GatewayFails, Take, gateway, TypeOK
  <2>5. CASE i \notin Pending'
    <3>1. Pending' \subseteq Pending
      BY <2>1, <2>5, PendingOthers
    <3> QED
      BY <2>2, <2>4, <3>1, CountingKept
  <2>6. CASE i \in Pending'
    <3>1. req'[i].answer \in {"approved", "pending"}
      BY <2>6 DEF Pending, Succeeded
    <3>2. PICK a \in Answers :
            /\ req' = [req EXCEPT ![i].answer = a]
            /\ a \in {"approved", "pending"} => accepted' = accepted + 1
      BY <1>6 DEF GatewayAnswers, GatewayFails, Take, Answers
    <3>3. accepted' = accepted + 1
      BY <3>1, <3>2 DEF TypeOK, Request
    <3>4. /\ IsFiniteSet(Pending \cup {i})
          /\ Cardinality(Pending \cup {i}) = Cardinality(Pending) + 1
      BY <2>3, FS_AddElement DEF Counting
    <3>5. Pending' \subseteq Pending \cup {i}
      BY <2>1, PendingOthers
    <3>6. /\ IsFiniteSet(Pending')
          /\ Cardinality(Pending') <= Cardinality(Pending) + 1
      BY <3>4, <3>5, FS_Subset
    <3>7. /\ Cardinality(Pending) \in Nat /\ Cardinality(Pending') \in Nat
          /\ Cardinality(Successes) \in Nat
      BY <3>6, FS_CardinalityType DEF Counting
    <3> HIDE DEF Pending, Successes
    <3> QED
      BY <2>2, <2>4, <3>3, <3>6, <3>7 DEF Counting
  <2> QED
    BY <2>5, <2>6
<1>7. ASSUME NEW i \in Cashiers, InsertChargeLog(i)
      PROVE  Counting'
  <2> DEFINE n == Len(chargeLogs) + 1
  <2>1. /\ DOMAIN chargeLogs = 1..Len(chargeLogs) /\ Len(chargeLogs) \in Nat
        /\ DOMAIN chargeLogs' = 1..n
        /\ \A m \in DOMAIN chargeLogs : chargeLogs'[m] = chargeLogs[m]
        /\ chargeLogs'[n].result = (IF Succeeded(req[i]) THEN "Exitoso" ELSE "Fallido")
    BY <1>7 DEF InsertChargeLog, TypeOK
  <2>2. /\ pc[i] = "numbered" /\ pc'[i] = "logged" /\ UNCHANGED accepted
        /\ \A j \in Cashiers : j # i => pc'[j] = pc[j] /\ req'[j] = req[j]
    BY <1>7 DEF InsertChargeLog, At, gateway, TypeOK
  <2>3. i \notin Pending'
    BY <2>2 DEF Pending, BeforeTheLog
  <2>4. Pending' \subseteq Pending \ {i}
    BY <2>2, <2>3, PendingOthers
  <2>5. CASE ~Succeeded(req[i])
    <3>1. Successes' = Successes
      <4>1. chargeLogs'[n].result # "Exitoso"
        BY <2>1, <2>5
      <4> HIDE DEF n
      <4>2. DOMAIN chargeLogs' = DOMAIN chargeLogs \cup {n}
        BY <2>1 DEF n
      <4> QED
        BY <2>1, <4>1, <4>2 DEF Successes
    <3>2. accepted' >= accepted
      BY <2>2 DEF TypeOK
    <3> QED
      BY <2>4, <3>1, <3>2, CountingKept
  <2>6. CASE Succeeded(req[i])
    <3>1. Successes' \subseteq Successes \cup {n}
      <4> HIDE DEF n
      <4>1. DOMAIN chargeLogs' = DOMAIN chargeLogs \cup {n}
        BY <2>1 DEF n
      <4> QED
        BY <2>1, <4>1 DEF Successes
    <3>2. /\ IsFiniteSet(Successes \cup {n})
          /\ Cardinality(Successes \cup {n}) <= Cardinality(Successes) + 1
      <4>1. IsFiniteSet(Successes) /\ Cardinality(Successes) \in Nat
        BY FS_CardinalityType DEF Counting
      <4> HIDE DEF Successes, n
      <4> QED
        BY <4>1, FS_AddElement
    <3>3. /\ IsFiniteSet(Successes')
          /\ Cardinality(Successes') <= Cardinality(Successes \cup {n})
      BY <3>1, <3>2, FS_Subset
    <3>4. i \in Pending
      BY <2>2, <2>6 DEF Pending, BeforeTheLog
    <3>5. /\ IsFiniteSet(Pending \ {i})
          /\ Cardinality(Pending \ {i}) = Cardinality(Pending) - 1
      BY <3>4, FS_RemoveElement DEF Counting
    <3>6. /\ IsFiniteSet(Pending')
          /\ Cardinality(Pending') <= Cardinality(Pending \ {i})
      BY <2>4, <3>5, FS_Subset
    <3>7. /\ Cardinality(Pending) \in Nat /\ Cardinality(Pending') \in Nat
          /\ Cardinality(Successes) \in Nat /\ Cardinality(Successes') \in Nat
          /\ Cardinality(Successes \cup {n}) \in Nat
      BY <3>2, <3>3, <3>6, FS_CardinalityType DEF Counting
    <3>8. accepted \in Nat /\ accepted' = accepted
      BY <2>2 DEF TypeOK
    <3> HIDE DEF Pending, Successes, n
    <3> QED
      BY <3>2, <3>3, <3>5, <3>6, <3>7, <3>8 DEF Counting
  <2> QED
    BY <2>5, <2>6
<1> QED
  BY <1>1, <1>3, <1>4, <1>5, <1>6, <1>7, NextShape DEF Works
-------------------------------------------------------------------------------
LEMMA Initially == Init => IInv
<1>1. ASSUME Init
      PROVE  Numbering /\ Charging
  BY <1>1, ConstantsAssumption
  DEF Init, Numbering, ChargesNumbered, Charging, AnnouncedWasCharged, AfterTheAnswer
<1>2. ASSUME Init
      PROVE  Counting
  <2>1. Successes = {} /\ Pending = {} /\ accepted = 0
    BY <1>2 DEF Init, Successes, Pending, BeforeTheLog
  <2> QED
    BY <2>1, FS_EmptySet DEF Counting
<1> QED
  BY <1>1, <1>2, TypeInit DEF IInv

LEMMA InvStep ==
  ASSUME IInv, [Next]_vars
  PROVE  IInv'
<1>1. TypeOK'
  BY TypeStep DEF IInv
<1> QED
  BY <1>1, NumberingStep, ChargingStep, CountingStep DEF IInv

LEMMA Invariance == Spec => []IInv
<1>1. IInv /\ [Next]_vars => IInv'
  BY InvStep
<1> QED
  BY <1>1, Initially, PTL DEF Spec

\* Type correctness: in particular a request that searches for, opens or closes
\* an emission log has a shipment, and the log it is about to close exists.
THEOREM TypeCorrect == Spec => []TypeOK
<1>1. IInv => TypeOK
  BY DEF IInv
<1> QED
  BY <1>1, Invariance, PTL

\* The charge log is numbered 1, 2, 3, ... in the order of commit, for any number
\* of concurrent payments, failed inserts and crashes.
THEOREM ChargesAreNumbered == Spec => []ChargesNumbered
<1>1. IInv => ChargesNumbered
  BY DEF IInv, Numbering
<1> QED
  BY <1>1, Invariance, PTL

\* PAGO_APROBADO appears on a timeline only after an approved payment for that
\* shipment, whatever answers, rows and processes are lost.
THEOREM AnnouncedOnlyIfCharged == Spec => []AnnouncedWasCharged
<1>1. IInv => AnnouncedWasCharged
  BY DEF IInv, Charging
<1> QED
  BY <1>1, Invariance, PTL

\* The charge log reports no more successes than the gateway took payments, for
\* any number of payments at once and whatever answers, rows and processes are
\* lost in between.
THEOREM SuccessesAreAccepted == Spec => []SuccessesWereAccepted
<1>1. IInv => SuccessesWereAccepted
  <2>1. ASSUME IInv
        PROVE  SuccessesWereAccepted
    <3>1. /\ Cardinality(Successes) \in Nat /\ Cardinality(Pending) \in Nat
          /\ Cardinality(Successes) + Cardinality(Pending) <= accepted
          /\ accepted \in Nat
      BY <2>1, FS_CardinalityType DEF IInv, Counting, TypeOK
    <3> HIDE DEF Pending, Successes
    <3> QED
      BY <3>1 DEF SuccessesWereAccepted
  <2> QED
    BY <2>1
<1> QED
  BY <1>1, Invariance, PTL
-------------------------------------------------------------------------------
(***************************************************************************)
(* Requests that do not overlap on a shipment: what start_boleta_log has   *)
(* found is still so when it inserts.                                      *)
(***************************************************************************)
StillNone == \A i \in Cashiers : pc[i] = "opening" => OpenLogs(req[i].shipment) = {}

DInv == TypeOK /\ Disjoint /\ OneOpenLog /\ StillNone

\* Steps that open no log.
LEMMA OneOpenLogLess ==
  ASSUME TypeOK, OneOpenLog, StillNone, NEW i \in Cashiers,
         \A s \in Shipments : OpenLogs(s)' \subseteq OpenLogs(s),
         \A j \in Cashiers : j # i => pc'[j] = pc[j] /\ req'[j] = req[j],
         pc'[i] = "opening" =>
           req'[i].shipment \in Shipments /\ OpenLogs(req'[i].shipment) = {}
  PROVE  OneOpenLog' /\ StillNone'
<1>1. OneOpenLog'
  BY DEF OneOpenLog, OpenLogs
<1>2. ASSUME NEW j \in Cashiers, pc'[j] = "opening"
      PROVE  req'[j].shipment \in Shipments /\ OpenLogs(req'[j].shipment) = {}
  BY <1>2 DEF StillNone, TypeOK
<1> QED
  BY <1>1, <1>2 DEF StillNone, OpenLogs

LEMMA DisjointStep ==
  ASSUME DInv, TypeOK', Next
  PROVE  OneOpenLog' /\ StillNone'
<1> USE DEF DInv
<1>1. PICK i \in Cashiers : Starts(i) \/ Ends(i) \/ Works(i)
  BY NextShape
<1>2. CASE CloseLog(i)
  <2>1. req[i].found \in DOMAIN logs /\ DOMAIN logs = 1..Len(logs)
    BY <1>2 DEF CloseLog, TypeOK
  <2>2. /\ DOMAIN logs' = DOMAIN logs
        /\ \A n \in DOMAIN logs : /\ logs'[n].shipment = logs[n].shipment
                                  /\ logs'[n].open => logs[n].open
    BY <1>2, <2>1 DEF CloseLog, TypeOK, EmissionLog
  <2>3. \A s \in Shipments : OpenLogs(s)' \subseteq OpenLogs(s)
    BY <2>2 DEF OpenLogs
  <2>4. /\ pc'[i] # "opening"
        /\ \A j \in Cashiers : j # i => pc'[j] = pc[j] /\ req'[j] = req[j]
    BY <1>2 DEF CloseLog, EndRequest, At, TypeOK
  <2> QED
    BY <2>3, <2>4, OneOpenLogLess
<1>3. CASE OpenLog(i)
  <2> DEFINE t == req[i].shipment
  <2>1. t \in Shipments /\ OpenLogs(t) = {}
    BY <1>3 DEF OpenLog, TypeOK, StillNone
  <2>2. /\ DOMAIN logs' = 1..(Len(logs) + 1) /\ DOMAIN logs = 1..Len(logs)
        /\ logs'[Len(logs) + 1].shipment = t
        /\ \A n \in DOMAIN logs : logs'[n] = logs[n]
        /\ Len(logs) \in Nat
    BY <1>3 DEF OpenLog, TypeOK
  <2>3. ASSUME NEW s \in Shipments
        PROVE  IF s = t THEN OpenLogs(s)' \subseteq {Len(logs) + 1}
                        ELSE OpenLogs(s)' \subseteq OpenLogs(s)
    <3> HIDE DEF t
    <3> QED
      BY <2>1, <2>2 DEF OpenLogs
  <2>4. OneOpenLog'
    <3> HIDE DEF t
    <3>1. ASSUME NEW s \in Shipments, NEW m \in DOMAIN logs', NEW n \in DOMAIN logs',
                 m \in OpenLogs(s)', n \in OpenLogs(s)'
          PROVE  m = n
      <4>1. CASE s = t
        BY <2>3, <3>1, <4>1
      <4>2. CASE s # t
        <5>1. m \in OpenLogs(s) /\ n \in OpenLogs(s)
          BY <2>3, <3>1, <4>2
        <5> QED
          BY <5>1 DEF OneOpenLog, OpenLogs
      <4> QED
        BY <4>1, <4>2
    <3> QED
      BY <3>1 DEF OneOpenLog
  <2>5. ASSUME NEW j \in Cashiers, pc'[j] = "opening"
        PROVE  OpenLogs(req[j].shipment)' = {} /\ req'[j] = req[j]
    <3>1. j # i /\ pc[j] = "opening" /\ req'[j] = req[j]
      BY <1>3, <2>5 DEF OpenLog, EndRequest, At, TypeOK
    <3>2. req[j].shipment \in Shipments /\ OpenLogs(req[j].shipment) = {}
      BY <3>1 DEF TypeOK, StillNone
    <3>3. req[j].shipment # t
      <4>1. pc[i] # "idle" /\ pc[j] # "idle" /\ t # NoShipment
        BY <1>3, <2>1, <3>1, ConstantsAssumption DEF OpenLog
      <4> QED
        BY <3>1, <4>1 DEF Disjoint
    <3> HIDE DEF t
    <3> DEFINE u == req[j].shipment
    <3>4. u' = u
      BY <3>1
    <3>5. OpenLogs(u)' \subseteq OpenLogs(u)
      BY <2>2, <3>2, <3>3, <3>4 DEF OpenLogs
    <3> QED
      BY <3>1, <3>2, <3>4, <3>5 DEF OpenLogs
  <2> QED
    BY <2>4, <2>5 DEF StillNone, OpenLogs
<1>4. CASE ~CloseLog(i) /\ ~OpenLog(i)
  <2>1. UNCHANGED logs
    <3>1. CASE Starts(i) \/ Ends(i)
      BY <3>1, StartsShape, EndsShape
    <3>2. CASE Works(i)
      BY <1>4, <3>2 DEF Works, GatewayAnswers, GatewayFails, AskLock, TakeNumber,
         InsertChargeLog, LogFails, Announce, FindNoOpenLog, FindLogToClose
    <3> QED
      BY <1>1, <3>1, <3>2
  <2>2. \A j \in Cashiers : j # i => pc'[j] = pc[j] /\ req'[j] = req[j]
    <3>1. CASE Starts(i) \/ Ends(i)
      BY <3>1, StartsShape, EndsShape DEF EndRequest, At, TypeOK
    <3>2. CASE Works(i)
      BY <1>4, <3>2 DEF Works, GatewayAnswers, GatewayFails, AskLock, TakeNumber,
         InsertChargeLog, LogFails, Announce, FindNoOpenLog, FindLogToClose, At, TypeOK
    <3> QED
      BY <1>1, <3>1, <3>2
  <2>3. pc'[i] = "opening" => FindNoOpenLog(i)
    <3>1. CASE Starts(i) \/ Ends(i)
      BY <3>1, StartsShape, EndsShape DEF EndRequest, At, TypeOK
    <3>2. CASE Works(i)
      BY <1>4, <3>2 DEF Works, GatewayAnswers, GatewayFails, AskLock, TakeNumber,
         InsertChargeLog, LogFails, Announce, FindLogToClose, At, TypeOK
    <3> QED
      BY <1>1, <3>1, <3>2
  <2>4. FindNoOpenLog(i) => req'[i].shipment \in Shipments /\ OpenLogs(req'[i].shipment) = {}
    BY DEF FindNoOpenLog, TypeOK
  <2>5. \A s \in Shipments : OpenLogs(s)' \subseteq OpenLogs(s)
    BY <2>1 DEF OpenLogs
  <2> QED
    BY <2>2, <2>3, <2>4, <2>5, OneOpenLogLess
<1> QED
  BY <1>2, <1>3, <1>4

Apart == IInv /\ DInv

LEMMA ApartInit == Init => Apart
<1>1. ASSUME Init
      PROVE  Disjoint /\ OneOpenLog /\ StillNone
  BY <1>1 DEF Init, Disjoint, OneOpenLog, StillNone, OpenLogs
<1> QED
  BY <1>1, TypeInit, Initially DEF Apart, DInv

LEMMA ApartStep ==
  ASSUME Apart, [Next /\ Disjoint']_vars
  PROVE  Apart'
<1>1. IInv'
  BY InvStep DEF Apart
<1>2. ASSUME Next, Disjoint'
      PROVE  DInv'
  <2>1. TypeOK'
    BY <1>1 DEF IInv
  <2> QED
    BY <1>2, <2>1, DisjointStep DEF Apart, DInv
<1>3. ASSUME UNCHANGED vars
      PROVE  DInv'
  BY <1>3 DEF vars, Apart, DInv, TypeOK, Disjoint, OneOpenLog, StillNone, OpenLogs
<1> QED
  BY <1>1, <1>2, <1>3 DEF Apart

\* As long as no two requests are busy with one shipment at a time, a shipment
\* has at most one open emission log, crashes and failures included.
THEOREM OneOpenLogKept == DisjointSpec => []OneOpenLog
<1>1. Apart /\ [Next /\ Disjoint']_vars => Apart'
  BY ApartStep
<1>2. Apart => OneOpenLog
  BY DEF Apart, DInv
<1> QED
  BY <1>1, <1>2, ApartInit, PTL DEF DisjointSpec

\* The same in the executions that the run explores together with others: a
\* search and an insert that no other request for the shipment comes between.
THEOREM OneOpenLogKeptApart == MCSpec => []OneOpenLogApart
<1> DEFINE Inv == way = "apart" => Apart
<1>1. MCInit => Inv
  BY ApartInit DEF MCInit
<1>2. Inv /\ [MCNext]_mcvars => Inv'
  <2>1. ASSUME Inv, [MCNext]_mcvars, way' = "apart"
        PROVE  Apart'
    <3>1. way = "apart" /\ Apart
      BY <2>1 DEF MCNext, mcvars
    <3>2. [Next /\ Disjoint']_vars
      BY <2>1, <3>1 DEF MCNext, mcvars, Next
    <3> QED
      BY <3>1, <3>2, ApartStep
  <2> QED
    BY <2>1
<1>3. Inv => OneOpenLogApart
  BY DEF OneOpenLogApart, Apart, DInv
<1> QED
  BY <1>1, <1>2, <1>3, PTL DEF MCSpec
===============================================================================
