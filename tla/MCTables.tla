------------------------------ MODULE MCTables ------------------------------
(* Tables that have little to do with each other, for TLC: the codes of      *)
(* shipments and the clients (Registration), prices (Billing), the phases of *)
(* the service and the loading orders (app/modules/measurement_logs).  No    *)
(* property relates two of them: an initial state chooses what a behaviour   *)
(* is about, so their states add up instead of multiplying.  Registration is *)
(* explored twice: with requests that bring nobody who has a DNI, and with   *)
(* clients but fewer identifiers of shipments and on one day.  ServiceLog is *)
(* explored three times: with one row and several phases, with several rows  *)
(* (in both requests overlap), and with several shipments and identities     *)
(* that need not fit together, one request at a time.                        *)
EXTENDS Registration, Billing, ServiceLog, LoadingOrder, TLC

VARIABLE table

mcvars == <<table, deskVars, billingVars, serviceVars, orderVars>>

OneShipment == CHOOSE s \in Shipments : TRUE

Init ==
  /\ table \in {"codes", "clients", "prices", "row", "rows", "names", "orders"}
  /\ DeskInit /\ BillingInit /\ ServiceInit /\ OrderInit
  /\ table # "clients" => clients = {}
  /\ table # "prices" => up = [f \in DOMAIN up |-> FALSE]
  /\ Cardinality({f \in DOMAIN up : up[f]}) \in {0, 1, 4}

Codes ==
  /\ table = "codes"
  /\ DeskNext
  /\ \A i \in Desks : call'[i].people = <<>>
  /\ UNCHANGED <<table, billingVars, serviceVars, orderVars>>

Clients ==
  /\ table = "clients"
  /\ DeskNext
  /\ nextId' <= MaxShipments /\ UNCHANGED today
  /\ UNCHANGED <<table, billingVars, serviceVars, orderVars>>

Prices ==
  /\ table = "prices"
  /\ BillingNext
  /\ UNCHANGED <<table, deskVars, serviceVars, orderVars>>

\* The log: what overlaps in one row, what overlaps while the row is inserted,
\* and requests one after the other that give whatever identities they like.
Log ==
  /\ table \in {"row", "rows", "names"}
  /\ ServiceNext
  /\ table = "row" =>
       /\ Len(log') <= 1
       /\ \A i \in Workers : pc'[i] # "idle" => req'[i].named = OneShipment
  /\ table # "row" => \A i \in Workers : req'[i].phase = "registro"
  /\ table = "names" => Cardinality({i \in Workers : pc'[i] # "idle"}) <= 1
  /\ table # "row" => \A n \in DOMAIN log' : \A p \in Phases : log'[n].took[p] \in {1, Null}
  /\ table # "names" =>
       \A i \in Workers : req'[i].named \in {OneShipment, NoShipment} /\ req'[i].links = NoLinks
  /\ UNCHANGED <<table, deskVars, billingVars, orderVars>>

Loading ==
  /\ table = "orders"
  /\ OrderNext
  /\ UNCHANGED <<table, deskVars, billingVars, serviceVars>>

Next == Codes \/ Clients \/ Prices \/ Log \/ Loading

Spec == Init /\ [][Next]_mcvars

\* Bound: what an edit or a confirmation beside another request leaves behind is
\* not explored; no property of prices is about it.
WithinScope == ~besideEdit

\* What was measured is never lost: a phase that was closed in a log stays closed
\* in it.  Nor is it measured again, unless two requests about it overlap: its
\* times and those of a finished package stay what they were.
MeasuredOnce == ClosedStaysClosed /\ FinishedOnce

Symmetry == Permutations(Desks) \cup Permutations(Dnis) \cup Permutations(Loaders) \cup Permutations(Workers)
-----------------------------------------------------------------------------
Parcel(destination, grams, l, w, h, fragility, content, base) ==
  [destination |-> destination, grams |-> grams, length |-> l, width |-> w, height |-> h,
   fragility |-> fragility, content |-> content, base |-> base]

\* Prices of 14.75 soles, the total and the tax of which have half a cent; of
\* 20.005, the subtotal of which has; and of an envelope, which has no size.
DeskParcels ==
  {Parcel("Shorey", 1125, 50, 50, 10, "BAJA", "ROPA", "LARGO_ANCHO"),
   Parcel("Angasmarca", 2500, 10, 5, 5, "BAJA", "FRAGIL", "LARGO_ANCHO"),
   Parcel("Huamachuco", 300, 0, 0, 0, "ALTA", "DOCUMENTOS", "NONE")}

\* All is known; half a cent again; nothing is known but where it goes to; a
\* fragile parcel that has to be put on its side.
Conversations ==
  {Parcel("Shorey", 1125, 50, 50, 10, "BAJA", "NONE", "NONE"),
   Parcel("Huamachuco", 0, 0, 0, 0, "MEDIA", "NONE", "NONE"),
   Parcel("Angasmarca", 700, 60, 20, 0, "ALTA", "NONE", "NONE")}
=============================================================================
