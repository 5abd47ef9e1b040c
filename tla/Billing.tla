------------------------------- MODULE Billing -------------------------------
(***************************************************************************)
(* What a shipment costs: the chat's estimate, the quotation and the       *)
(* receipt.  app/modules/quotes, wizard.py of app/modules/asistente, and   *)
(* the prices of app/modules/sunat/service.py.                             *)
(*                                                                         *)
(* No price is stored with a shipment.  Each of the three is worked out    *)
(* anew from the data of the parcel, on the copy that its request loaded,  *)
(* and edits change these data until the shipment has been quoted.  Shown  *)
(* for one shipment: prices of two have nothing in common.                 *)
(***************************************************************************)
EXTENDS Naturals, FiniteSetsExt

CONSTANTS
  Tellers,   \* threads that serve requests
  Parcels,   \* what the forms of the desk and of the web say of a parcel
  ChatData,  \* what a conversation has found out of one, 0 where nothing
  NoPrice

\* Weights in grams and sizes in whole centimetres: a valid parcel weighs and
\* measures no less than nothing.  (The upper limits are left out.)
ParcelData ==
  [destination : STRING, grams : Nat, length : Nat, width : Nat, height : Nat,
   fragility : {"BAJA", "MEDIA", "ALTA"}, content : STRING, base : STRING]

ASSUME BillingAssumption ==
  /\ Parcels \subseteq ParcelData
  /\ ChatData \subseteq ParcelData
  /\ NoPrice \notin [subtotal : Nat, igv : Nat, total : Nat]

VARIABLES
  up,          \* which way each formula rounds half a cent
  status,      \* status of the shipment
  parcel,      \* its parcel
  draft,       \* what the chat's summary showed
  estimate,    \* the price in it
  told,        \* the last quotation that was answered
  binding,     \* it was for a confirmed shipment
  receipt,     \* amounts of its receipt
  tellerAt,    \* where each thread is in its request
  order,       \* the request, with the copy it loaded
  besideEdit,  \* history: an edit or a confirmation ran beside another request
  edited       \* history: the parcel is not what it was at first

billingVars == <<up, status, parcel, draft, estimate, told, binding, receipt,
                 tellerAt, order, besideEdit, edited>>
-----------------------------------------------------------------------------
\* Prices are counted in 1/50000 of a sol: 2 soles for a kilogram of 1000 g and
\* 20 soles for a cubic metre of 1000000 cm3 are whole numbers then.
Sol == 50000

BaseRate(destination) ==
  CASE destination = "Angasmarca" -> 10 * Sol
    [] destination = "Huamachuco" -> 8 * Sol
    [] OTHER -> 12 * Sol

FragilitySurcharge == [BAJA |-> 0, MEDIA |-> 5 * Sol, ALTA |-> 10 * Sol]

Surcharge(p) ==
  Max({FragilitySurcharge[p.fragility]} \cup (IF p.content = "FRAGIL" THEN {5 * Sol} ELSE {}))

Volume(p) == p.length * p.width * p.height

Subtotal(p) ==
  BaseRate(p.destination) + 100 * p.grams + Volume(p) + Surcharge(p)

\* round(n / d): half a cent comes out as the floating-point sum happens to lie.
Nearest(n, d, upward) ==
  IF 2 * (n % d) > d \/ (2 * (n % d) = d /\ upward) THEN (n \div d) + 1 ELSE n \div d

\* calculate_quote_for_shipment, in cents: each amount is rounded by itself.
Quote(p) ==
  [subtotal |-> Nearest(Subtotal(p), 500, up.subtotal),
   igv |-> Nearest(Subtotal(p) * 18, 50000, up.igv),
   total |-> Nearest(Subtotal(p) * 118, 50000, up.total)]

Given(n, default) == IF n = 0 THEN default ELSE n

\* Mutant of Assumed: what is not known weighs and measures nothing.
AssumedNothing(data) ==
  [destination |-> data.destination, fragility |-> data.fragility, content |-> "NONE",
   grams |-> data.grams, length |-> data.length, width |-> data.width, height |-> data.height]

\* What the chat assumes where it knows nothing, for the estimate ...
Assumed(data) ==
  [destination |-> data.destination, fragility |-> data.fragility, content |-> "NONE",
   grams |-> Given(data.grams, 1000), length |-> Given(data.length, 30),
   width |-> Given(data.width, 30), height |-> Given(data.height, 30)]

\* _calcular_precio_estimado: the total is 1.18 times the subtotal.
Estimate(data) ==
  [subtotal |-> Nearest(Subtotal(Assumed(data)), 500, up.subtotal),
   total |-> Nearest(Subtotal(Assumed(data)) * 118, 50000, up.chat)]

\* ... and for the pre-registration: the largest dimension is vertical.
AutoBase(length, width, height) ==
  LET largest == Max({length, width, height}) IN
  IF largest = height THEN "LARGO_ANCHO" ELSE IF largest = width THEN "LARGO_ALTO" ELSE "ANCHO_ALTO"

FromChat(data) ==
  LET length == Given(data.length, 30)
      width == Given(data.width, 30)
      height == Given(data.height, 30) IN
  [destination |-> data.destination, fragility |-> data.fragility, content |-> "NONE",
   grams |-> Given(data.grams, 1000), length |-> length, width |-> width, height |-> height,
   base |-> AutoBase(length, width, height)]

Vertical(p) ==
  CASE p.base = "LARGO_ANCHO" -> p.height
    [] p.base = "LARGO_ALTO" -> p.width
    [] OTHER -> p.length

\* ShipmentPayloadBase: weight, dimensions and a safe base.
Valid(p) ==
  /\ p.grams > 0
  /\ p.content # "DOCUMENTOS" =>
       /\ p.length > 0 /\ p.width > 0 /\ p.height > 0
       /\ p.fragility = "ALTA" \/ p.content = "ELECTRODOMESTICOS" =>
            13 * Vertical(p) >= 10 * Max({p.length, p.width, p.height})
-----------------------------------------------------------------------------
NoParcel == [base |-> "NONE"]

NoOrder == [op |-> "none", copy |-> NoParcel, change |-> NoParcel]

BillingInit ==
  /\ up \in [{"subtotal", "igv", "total", "chat"} -> BOOLEAN]
  /\ status = "NONE"
  /\ parcel = NoParcel
  /\ draft = NoParcel
  /\ estimate = NoPrice /\ told = NoPrice /\ receipt = NoPrice
  /\ binding = FALSE
  /\ tellerAt = [i \in Tellers |-> "idle"]
  /\ order = [i \in Tellers |-> NoOrder]
  /\ besideEdit = FALSE /\ edited = FALSE

\* create_shipment of the desk and create_pre_registration of the web.
Register(p, s) ==
  /\ status = "NONE" /\ draft = NoParcel
  /\ p \in Parcels /\ Valid(p)
  /\ s \in {"PRE_REGISTRADA", "REGISTRADA"}
  /\ status' = s /\ parcel' = p
  /\ UNCHANGED <<up, draft, estimate, told, binding, receipt, tellerAt, order, besideEdit, edited>>

\* _generar_resumen_confirmacion
ShowSummary(data) ==
  /\ status = "NONE"
  /\ draft' = data
  /\ estimate' = Estimate(data)
  /\ UNCHANGED <<up, status, parcel, told, binding, receipt, tellerAt, order, besideEdit, edited>>

\* _crear_preregistro_desde_chat; the base is left to the desk afterwards.
SaveDraft ==
  /\ status = "NONE" /\ draft # NoParcel
  /\ Valid(FromChat(draft))
  /\ status' = "PRE_REGISTRADA"
  /\ parcel' = [FromChat(draft) EXCEPT !.base = "NONE"]
  /\ UNCHANGED <<up, draft, estimate, told, binding, receipt, tellerAt, order, besideEdit, edited>>
-----------------------------------------------------------------------------
EDITABLE_STATUS_VALUES == {"PRE_REGISTRADA", "REGISTRADA"}

\* Mutant of Accepts: a shipment can be edited until it is cancelled.
AcceptsLateEdits(op) == status # (IF op = "receipt" THEN "PRE_REGISTRADA" ELSE "NONE")

\* The guards of calculate_quote, update_shipment, confirm_pre_registration,
\* cancel_shipment_with_reason and _validate_shipment_can_emit_receipt.
Accepts(op) ==
  CASE op = "quote" -> status # "ANULADA"
    [] op = "update" -> status \in EDITABLE_STATUS_VALUES
    [] op = "confirm" -> status = "PRE_REGISTRADA"
    [] op = "cancel" -> status # "ANULADA"
    [] op = "receipt" -> status \notin {"ANULADA", "PRE_REGISTRADA"}

\* A request loads the shipment and checks its status.
LoadOrder(i, op, change) ==
  /\ tellerAt[i] = "idle"
  /\ status # "NONE" /\ Accepts(op)
  /\ tellerAt' = [tellerAt EXCEPT ![i] = "loaded"]
  /\ order' = [order EXCEPT ![i] = [NoOrder EXCEPT !.op = op, !.copy = parcel, !.change = change]]
  /\ besideEdit' = (besideEdit \/ \E j \in Tellers :
                       tellerAt[j] # "idle" /\ {op, order[j].op} \cap {"update", "confirm"} # {})
  /\ UNCHANGED <<up, status, parcel, draft, estimate, told, binding, receipt, edited>>

End(i) ==
  /\ tellerAt' = [tellerAt EXCEPT ![i] = "idle"]
  /\ order' = [order EXCEPT ![i] = NoOrder]
  /\ UNCHANGED <<up, draft, estimate, besideEdit>>

\* calculate_quote: the price is of the copy; start_service_phase has committed
\* in between, so the status is read anew.
AnswerQuote(i) ==
  /\ tellerAt[i] = "loaded" /\ order[i].op = "quote"
  /\ told' = Quote(order[i].copy)
  /\ binding' = (status # "PRE_REGISTRADA")
  /\ status' = IF status = "REGISTRADA" THEN "COTIZADA" ELSE status
  /\ End(i)
  /\ UNCHANGED <<parcel, receipt, edited>>

\* repository.update_shipment: the columns that differ from the copy are written.
Update(i) ==
  LET r == order[i] IN
  /\ tellerAt[i] = "loaded" /\ r.op = "update"
  /\ parcel' = [f \in DOMAIN r.change |-> IF r.change[f] # r.copy[f] THEN r.change[f] ELSE parcel[f]]
  /\ edited' = TRUE
  /\ End(i)
  /\ UNCHANGED <<status, told, binding, receipt>>

\* confirm_pre_registration and cancel_shipment_with_reason.
SetStatus(i) ==
  /\ tellerAt[i] = "loaded" /\ order[i].op \in {"confirm", "cancel"}
  /\ status' = IF order[i].op = "confirm" THEN "REGISTRADA" ELSE "ANULADA"
  /\ End(i)
  /\ UNCHANGED <<parcel, told, binding, receipt, edited>>

\* issue_receipt_from_shipment: the first receipt is the only one.
IssueReceipt(i) ==
  /\ tellerAt[i] = "loaded" /\ order[i].op = "receipt"
  /\ receipt' = IF receipt = NoPrice THEN Quote(order[i].copy) ELSE receipt
  /\ End(i)
  /\ UNCHANGED <<status, parcel, told, binding, edited>>

\* A request that fails before its last commit.
Fail(i) ==
  /\ tellerAt[i] # "idle"
  /\ End(i)
  /\ UNCHANGED <<status, parcel, told, binding, receipt, edited>>

BillingNext ==
  \/ \E p \in Parcels, s \in {"PRE_REGISTRADA", "REGISTRADA"} : Register(p, s)
  \/ \E data \in ChatData : ShowSummary(data)
  \/ SaveDraft
  \/ \E i \in Tellers :
       \/ \E op \in {"quote", "confirm", "cancel", "receipt"} : LoadOrder(i, op, NoParcel)
       \/ \E p \in Parcels : Valid(p) /\ LoadOrder(i, "update", p)
       \/ AnswerQuote(i) \/ Update(i) \/ SetStatus(i) \/ IssueReceipt(i) \/ Fail(i)

BillingSpec == BillingInit /\ [][BillingNext]_billingVars
-----------------------------------------------------------------------------
Close(a, b) == a <= b + 1 /\ b <= a + 1

BillingTypeOK ==
  /\ status \in {"NONE", "PRE_REGISTRADA", "REGISTRADA", "COTIZADA", "ANULADA"}
  /\ parcel # NoParcel <=> status # "NONE"
  /\ \A i \in Tellers :
       /\ tellerAt[i] \in {"idle", "loaded"}
       /\ tellerAt[i] = "loaded" <=> order[i].op # "none"

\* A receipt has the price the customer was told last, if that was a price of
\* the confirmed shipment and no edit or confirmation ran beside another request:
\* what is quoted can be edited no more.  (A second confirmation that has loaded
\* the pre-registration sets the quoted shipment back to REGISTRADA, where it
\* can be edited.)  An edit after the receipt is another matter: the
\* receipt stays, and a quotation then tells a price that is not the receipt's.
ToldIsCharged ==
  [][receipt' # receipt /\ binding /\ ~besideEdit => receipt' = told]_billingVars

\* The chat's estimate is the later quotation up to a cent, also where the chat
\* assumed what it had not been told, until the desk edits the parcel ("Aplica la
\* misma formula que quotes/service.py"); what the chat sends is never refused
\* for its base; and the three amounts of a price add up to within a cent,
\* although each is rounded by itself.
EstimateIsQuoted ==
  /\ BillingTypeOK
  /\ draft # NoParcel /\ told # NoPrice /\ ~edited => Close(estimate.total, told.total)
  /\ draft # NoParcel => Valid(FromChat(draft))
  /\ \A price \in {told, receipt} \ {NoPrice} : Close(price.subtotal + price.igv, price.total)
=============================================================================
