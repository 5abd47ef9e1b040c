----------------------------- MODULE MCPaymentCalm -----------------------------
(* PaymentFlow for TLC, on one shipment.  An initial state tells what is        *)
(* explored from it: executions without crashes ("calm"), with crashes ("any"), *)
(* and those in which the requests on the shipment follow each other ("apart"). *)
EXTENDS PaymentFlow

VARIABLE way

mcvars == <<vars, way>>

MCInit == Init /\ way \in {"calm", "any", "apart"}

MCNext ==
  /\ CalmNext \/ (way # "calm" /\ \E i \in Cashiers : Crash(i))
  /\ way = "apart" => Disjoint' /\ \A i \in Cashiers : pc'[i] # "idle" => req'[i].shipment # NoShipment
  /\ UNCHANGED way

Calmly(A) == way = "calm" /\ A /\ UNCHANGED way

\* In a calm execution nothing crashes, a thread goes on, the gateway's client
\* times out, and PostgreSQL grants table locks in the order of the requests.
MCSpec ==
  /\ MCInit /\ [][MCNext]_mcvars
  /\ \A i \in Cashiers :
       WF_mcvars(Calmly(Step(i))) /\ SF_mcvars(Calmly(TakeNumber(i)))

\* A shipment has one emission log open at most, if no two requests are at work
\* on it at once: the search for an open log and the insert are two commits.
OneOpenLogApart == way = "apart" => OneOpenLog

\* A payment whose approval reached the server is announced on the timeline,
\* also when its charge log fails: the failure is swallowed and the lock freed.
ApprovedIsAnnounced ==
  \A i \in Cashiers, s \in Shipments :
    (way = "calm" /\ pc[i] = "answered" /\ Approved(req[i]) /\ req[i].shipment = s)
      ~> s \in announced
================================================================================
