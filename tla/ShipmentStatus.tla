---------------------------- MODULE ShipmentStatus ----------------------------
(***************************************************************************)
(* The state machine a shipment is meant to go through, as the guards of   *)
(* app/modules/shipments/service.py state it when nothing happens between  *)
(* a guard and the write it protects.                                      *)
(***************************************************************************)
CONSTANT Shipments

VARIABLE status

Unborn == "NONE"

Open == {"PRE_REGISTRADA", "REGISTRADA", "COTIZADA"}

Init == status = [s \in Shipments |-> Unborn]

Move(s, from, to) ==
  /\ status[s] \in from
  /\ status' = [status EXCEPT ![s] = to]

PreRegister(s) == Move(s, {Unborn}, "PRE_REGISTRADA")

Register(s) == Move(s, {Unborn}, "REGISTRADA")

Confirm(s) == Move(s, {"PRE_REGISTRADA"}, "REGISTRADA")

Quote(s) == Move(s, {"REGISTRADA"}, "COTIZADA")

Deliver(s) == Move(s, Open, "ENTREGADA")

Cancel(s) == Move(s, Open, "ANULADA")

Next ==
  \E s \in Shipments :
    PreRegister(s) \/ Register(s) \/ Confirm(s) \/ Quote(s) \/ Deliver(s) \/ Cancel(s)

Spec == Init /\ [][Next]_status
===============================================================================
