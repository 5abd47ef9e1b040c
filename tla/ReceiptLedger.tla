---------------------------- MODULE ReceiptLedger ----------------------------
(***************************************************************************)
(* What the receipt series B001 promises to the rest of the system, with   *)
(* no request, lock or tax service in sight: a ledger that only grows, in  *)
(* which entry n is the shipment whose receipt carries number n.  Numbers  *)
(* are consecutive from 1, an issued receipt is never changed or removed,  *)
(* and a shipment appears at most once.                                    *)
(***************************************************************************)
EXTENDS Naturals, Sequences

CONSTANT Shipments

VARIABLE ledger

Issued == {ledger[n] : n \in 1..Len(ledger)}

Init == ledger = <<>>

Issue(s) ==
  /\ s \notin Issued
  /\ ledger' = Append(ledger, s)

Next == \E s \in Shipments : Issue(s)

Spec == Init /\ [][Next]_ledger
==============================================================================
