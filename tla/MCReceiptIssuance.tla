-------------------------- MODULE MCReceiptIssuance --------------------------
(* Small instances of ReceiptIssuance for TLC. *)
EXTENDS ReceiptIssuance, TLC

\* Threads and shipments are interchangeable in every safety property.
Symmetry == Permutations(Issuers) \cup Permutations(Shipments)
==============================================================================
