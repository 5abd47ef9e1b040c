-------------------------- MODULE MCShipmentLifecycle --------------------------
(* Small instances of ShipmentLifecycle for TLC. *)
EXTENDS ShipmentLifecycle, TLC

\* Threads, shipments, receivers and bases are interchangeable.
Symmetry ==
  Permutations(Workers) \cup Permutations(Shipments)
    \cup Permutations(Receivers) \cup Permutations(Bases)
================================================================================
