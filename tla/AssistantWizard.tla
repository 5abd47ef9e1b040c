--------------------------- MODULE AssistantWizard ---------------------------
(***************************************************************************)
(* The chat that quotes and pre-registers a shipment:                      *)
(* app/modules/asistente/service.py (process_chat) and wizard.py.          *)
(*                                                                         *)
(* The server keeps no conversation.  Each request brings the context that *)
(* the previous answer left with the customer's browser, and a request     *)
(* whose answer is lost is sent again, or another one instead, with the    *)
(* context of before.  What the server does keep are the pre-registrations,*)
(* the clients and the log.  The browser is external: it adopts the data   *)
(* of an answer that has some, forgets its own when the form was canceled  *)
(* or is finished, and adds the accepted privacy notice when it likes.     *)
(***************************************************************************)
EXTENDS ChatMessages

CONSTANTS
  Dnis,           \* documents of people
  InitialClients, \* the clients there may be on record at the start
  Proper(_),      \* the texts that answer a question as it asks
  MaxSaved        \* bound: pre-registrations of one conversation

ASSUME WizardAssumption == MaxSaved \in Nat

VARIABLES
  ctx,       \* datos_acumulados, as the browser holds it
  asked,     \* the last answer the browser received
  clients,   \* name and phone of each client
  saved,     \* the pre-registrations: how many, and the last one
  logged,    \* those that a row of the assistant's log names
  shown,     \* history: the data of the summary the customer is looking at
  willing    \* the customer answers what is asked, and nothing breaks

vars == <<ctx, asked, clients, saved, logged, shown, willing>>

NoData == [f \in Fields |-> NoValue]

NoContext ==
  [wizard |-> "none", confirmed |-> "none", payment |-> FALSE, id |-> 0, data |-> NoData,
   asks |-> {}, omitted |-> {}, notice |-> FALSE]

\* Answers: a question for a field of one of the two forms, a step of a form,
\* or information that leaves the forms alone.
Ask(f) == <<"pre_registro", f>>
AskQuote(f) == <<"cotizacion", f>>
Told(what) == <<"paso", what>>
Informed(intent) == <<"consulta", intent>>
Start == <<"inicio", "none">>

\* Which form the history search of process_chat finds in the last answer.  It
\* depends on the wording: a question for a phone, a weight or the dimensions
\* is found if a name precedes it or it is not repeated.
Suggests(answer) ==
  CASE answer = Start -> {"none"}
    [] answer[1] = "pre_registro" ->
         IF Kind[answer[2]] \in {"telefono", "peso_kg", "dimensiones"}
         THEN {"pre_registro", "none"} ELSE {"pre_registro"}
    [] answer[1] = "cotizacion" ->
         IF answer[2] = "destino" THEN {"pre_registro", "none"} ELSE {"pre_registro"}
    [] answer[1] = "paso" ->
         IF answer[2] \in {"summary", "confirm_again", "payment", "canceled"}
         THEN {"pre_registro"} ELSE {"none"}
    [] answer[2] = "tracking" -> {"tracking", "none"}
    [] answer[2] \in {"recojo_externo", "other"} ->
         {"pre_registro", "recojo_externo", "tracking", "none"}
    [] OTHER -> {"none"}
------------------------------------------------------------------------------
\* siguiente_campo_pendiente: the first field that is missing, in this order; of
\* the recipient, the document or else the name will do, and a phone is asked for
\* where the form has no other.
Order ==
  <<"remitente_dni", "remitente_nombre", "remitente_telefono", "destinatario_dni",
    "destinatario_nombre", "destinatario_telefono">> \o QuoteFields

Owner == [f \in Fields |-> {p \in People : f \in FieldsOf(p)}]

Missing(c) ==
  {f \in Fields : /\ c.data[f] = NoValue
                  /\ f = "destinatario_dni" => c.data["destinatario_nombre"] = NoValue
                  /\ Kind[f] = "telefono" => Owner[f] \subseteq c.asks}

Pending(c) == IF Missing(c) = {} THEN "none" ELSE FirstOf(Order, Missing(c))

Unquoted(c) == {QuoteFields[n] : n \in 1..5} \cap Missing(c)

QuotePending(c) == IF Unquoted(c) = {} THEN "none" ELSE FirstOf(QuoteFields, Unquoted(c))

\* The field that the form under way is about to get.
Expected == IF ctx.wizard = "cotizacion" THEN QuotePending(ctx) ELSE Pending(ctx)

\* Mutant of Continues: any intention but that of the form leaves it, also when
\* the text that has it answers the question.
ContinuesUnlessAnother(intent, m, expected) ==
  \/ intent \in {"consulta_general", "pre_registro"}
  \/ intent = "documentacion" /\ ~m.asksDocs

\* _should_continue_active_wizard
Continues(intent, m, expected) ==
  \/ intent \in {"consulta_general", "pre_registro"}
  \/ intent = "documentacion" /\ ~m.asksDocs
  \/ expected # "none" /\ Answers(expected, m)

\* The form that goes on when a message continues it.
Wizard == IF ctx.wizard = "cotizacion" THEN "cotizacion" ELSE "pre_registro"

\* process_chat up to the handler: a pending payment takes every message, an
\* accepted quotation and a message that continues a form go to that form, and
\* a weak intention follows the last answer.
Routes(m, expected) ==
  LET underWay == ctx # NoContext
      accepts == ctx.wizard = "cotizacion_completada" /\ m.accepts
      wanted(i) == IF ctx.payment \/ accepts THEN "pre_registro" ELSE i
      routed(i) == IF underWay /\ Continues(wanted(i), m, expected) THEN Wizard ELSE wanted(i)
      followed(i, last) ==
        IF i \in {"consulta_general", "documentacion"} /\ last # "none" THEN last ELSE i
  IN {followed(routed(i), last) : i \in Intents(m, underWay), last \in Suggests(asked)}
------------------------------------------------------------------------------
\* The answer reaches the browser.
Answer(c, answer) ==
  /\ ctx' = c
  /\ asked' = answer
  /\ shown' = CASE asked' = Told("summary") -> c.data
                [] asked' = Told("confirm_again") \/ asked'[1] = "consulta" -> shown
                [] OTHER -> NoData
  /\ UNCHANGED willing

\* The answer is lost: it is as if a request that stores nothing was not sent.
LostAnswer ==
  /\ ~willing
  /\ UNCHANGED <<ctx, asked, shown, willing>>

Said == IF willing THEN Proper(asked) ELSE DOMAIN Texts

\* The context as _handle_preregistro_wizard takes it up.
Form == [ctx EXCEPT !.wizard = "pre_registro"]

\* The message m finds the form still open, in this phase.
AtOpenForm(m, confirmed) ==
  /\ ~ctx.payment
  /\ ~m.cancels
  /\ ctx.confirmed = confirmed

\* _actualizar_flag_telefono of both people.
FlagPhones(c) ==
  LET named == {p \in People : c.data[Field[p].nombre] # NoValue}
      reachable == {p \in People : c.data[Field[p].telefono] # NoValue}
  IN [c EXCEPT !.asks = ((@ \ (named \cap reachable)) \cup (named \ reachable)) \ c.omitted]

\* What is found of the document d: the name of the client, or else the one
\* RENIEC may have, and the phone of the client.
Known(d, atReniec) ==
  [nombre |-> IF clients[d].nombre = NoValue /\ atReniec THEN "given" ELSE clients[d].nombre,
   telefono |-> clients[d].telefono]

Or(value, other) == IF value = NoValue THEN other ELSE value

\* Name and phone of a person whose document is given and who lacks one of them.
LookedUp(data, p, found) ==
  LET f == Field[p]
      known == Known(data[f.dni], p \in found)
  IN IF data[f.dni] = NoValue THEN data
     ELSE [data EXCEPT ![f.nombre] = Or(@, known.nombre),
                       ![f.telefono] = Or(@, known.telefono)]

\* _enriquecer_reniec, whether or not RENIEC has the names that are missing.
Enriched(c) ==
  LET unnamed == {p \in People : /\ c.data[Field[p].dni] # NoValue
                                 /\ c.data[Field[p].nombre] = NoValue}
  IN {FlagPhones([c EXCEPT !.data = LookedUp(LookedUp(@, "remitente", found),
                                             "destinatario", found)]) : found \in SUBSET unnamed}
------------------------------------------------------------------------------
\* _manejar_eleccion_pago: the flags, whose names begin with an underscore, do
\* not go to the payment page; the counter needs no data at all.
ChoosePayment(m) ==
  /\ ctx.payment
  /\ \/ /\ m.online /\ ~m.agency
        /\ Answer([Form EXCEPT !.wizard = "none", !.payment = FALSE, !.asks = {}, !.omitted = {}],
                  Told("pay_online"))
     \/ /\ m.agency /\ ~m.online
        /\ Answer(NoContext, Told("pay_agency"))
     \/ /\ m.agency = m.online
        /\ Answer(Form, Told("payment"))
  /\ UNCHANGED <<clients, saved, logged>>

\* _cancelar_wizard
CancelForm(m) ==
  /\ ~ctx.payment
  /\ m.cancels
  /\ Answer(NoContext, Told("canceled"))
  /\ UNCHANGED <<clients, saved, logged>>

Agrees(m) == m.affirms /\ ~m.denies

\* What ShipmentPreRegistrationCreate refuses of the data a form can hold.
Valid(c) ==
  /\ c.notice
  /\ c.data["destino"] # "Trujillo"
  /\ \/ c.data["remitente_dni"] = c.data["destinatario_dni"]
     \/ c.data["remitente_telefono"] # c.data["destinatario_telefono"]
     \/ c.data["remitente_telefono"] = NoValue

\* upsert_client of the sender and then of the recipient, without erasing.
Upserted(data) ==
  LET given(d, kind) ==
        IF data["destinatario_dni"] = d /\ data[Field["destinatario"][kind]] # NoValue
        THEN data[Field["destinatario"][kind]]
        ELSE IF data["remitente_dni"] = d /\ data[Field["remitente"][kind]] # NoValue
        THEN data[Field["remitente"][kind]]
        ELSE clients[d][kind]
  IN [d \in Dnis |-> [nombre |-> given(d, "nombre"), telefono |-> given(d, "telefono")]]

\* The first transaction of _crear_preregistro_desde_chat, with a base that it
\* made up.
Insert(withBase) ==
  /\ saved.count < MaxSaved
  /\ saved' = [count |-> saved.count + 1, data |-> ctx.data, base |-> withBase]
  /\ clients' = Upserted(ctx.data)

\* Mutant of Created: the context keeps the number it has.
CreatedOnce ==
  [Form EXCEPT !.confirmed = "none", !.payment = TRUE,
               !.id = IF @ = 0 THEN saved.count + 1 ELSE @]

\* The context after a creation.
Created == [Form EXCEPT !.confirmed = "none", !.payment = TRUE, !.id = saved.count + 1]

\* The customer agrees and the pre-registration is made, without a base in the
\* end; the log may be lost together with the answer only.
Create(m) ==
  /\ AtOpenForm(m, "asked")
  /\ Agrees(m)
  /\ Valid(ctx)
  /\ Insert(FALSE)
  /\ \/ Answer(Created, Told("payment")) /\ logged' = logged \cup {saved'.count}
     \/ LostAnswer /\ logged' \in {logged, logged \cup {saved'.count}}

\* The creation fails before its first commit, for its data or otherwise, or
\* after it; the customer hears the same, or nothing.
FailToCreate(m) ==
  /\ AtOpenForm(m, "asked")
  /\ Agrees(m)
  /\ \/ UNCHANGED <<saved, clients>> /\ (willing => ~Valid(ctx))
     \/ ~willing /\ Valid(ctx) /\ Insert(TRUE)
  /\ Answer([Form EXCEPT !.confirmed = "none"], Told("failed")) \/ LostAnswer
  /\ UNCHANGED logged

\* _resetear_campo
Reset(c, what) ==
  IF what \in People
  THEN [c EXCEPT !.data = [f \in Fields |-> IF f \in FieldsOf(what) THEN NoValue ELSE c.data[f]],
                 !.asks = @ \ {what}, !.omitted = @ \ {what}]
  ELSE [c EXCEPT !.data[IF what = "peso" THEN "peso_kg" ELSE what] = NoValue]

\* Mutant of Reopened: the form still counts as shown for confirmation.
ReopenedAsShown(m) == Reset(Form, m.names)

\* The form with the field that the message names emptied, to be asked again.
Reopened(m) == [Reset(Form, m.names) EXCEPT !.confirmed = "none"]

\* The customer does not agree, and may say what is wrong.
Object(m) ==
  /\ AtOpenForm(m, "asked")
  /\ m.denies
  /\ IF m.names # NoValue
     THEN Answer(Reopened(m), Ask(Pending(Reopened(m))))
     ELSE Answer([Form EXCEPT !.confirmed = "modificando"], Told("which_field"))
  /\ UNCHANGED <<clients, saved, logged>>

AskToConfirm(m) ==
  /\ AtOpenForm(m, "asked")
  /\ ~m.affirms /\ ~m.denies
  /\ Answer(Form, Told("confirm_again"))
  /\ UNCHANGED <<clients, saved, logged>>

\* The customer was asked which field to change.
PickField(m) ==
  /\ AtOpenForm(m, "modificando")
  /\ IF m.names # NoValue
     THEN \E c \in Enriched(Reopened(m)) : Answer(c, Ask(Pending(c)))
     ELSE Answer(Form, Told("which_field"))
  /\ UNCHANGED <<clients, saved, logged>>

\* "falta el contenido", while the fields are collected.
CorrectContent(m) ==
  /\ AtOpenForm(m, "none")
  /\ m.corrects
  /\ Answer([Form EXCEPT !.data["descripcion"] = NoValue], Ask("descripcion"))
  /\ UNCHANGED <<clients, saved, logged>>

SetField(c, f, value) ==
  IF value = NoValue THEN c
  ELSE [c EXCEPT !.data[f] = value, !.asks = IF Kind[f] = "telefono" THEN @ \ Owner[f] ELSE @]

\* A recipient may be named instead of documented, and a phone be declined.
Target(f, m) ==
  IF f = "destinatario_dni" /\ m.finds["dni"] = NoValue THEN "destinatario_nombre" ELSE f

Declines(f, m) == Kind[f] = "telefono" /\ m.skips

\* The form with what the message says, v, when the field f is expected.
Filled(f, m, v) ==
  IF Declines(f, m)
  THEN [Form EXCEPT !.asks = @ \ Owner[f], !.omitted = @ \cup Owner[f]]
  ELSE SetField(Form, Target(f, m), v)

\* The collection of the fields: an answer that is no answer is sent back, or
\* else the people are looked up, and the next field is asked for or the
\* summary is shown.
Collect(m) ==
  /\ AtOpenForm(m, "none")
  /\ ~m.corrects
  /\ LET f == Pending(Form)
     IN \E v \in IF f = "none" THEN {NoValue} ELSE Readings(Target(f, m), m) :
          IF v = NoValue /\ Refused(f, m) /\ ~Declines(f, m)
          THEN Answer(Form, Ask(f))
          ELSE \E c \in Enriched(Filled(f, m, v)) :
                 IF Missing(c) = {}
                 THEN Answer([c EXCEPT !.confirmed = "asked"], Told("summary"))
                 ELSE Answer(c, Ask(Pending(c)))
  /\ UNCHANGED <<clients, saved, logged>>

\* _handle_cotizacion_wizard: a quotation that is not under way starts from
\* nothing, whatever form the context holds.
Quote(m) ==
  /\ LET start == IF ctx.wizard = "cotizacion" THEN ctx
                  ELSE [NoContext EXCEPT !.wizard = "cotizacion"]
         f == QuotePending(start)
     IN \E v \in Readings(f, m) : \E c \in {SetField(start, f, v)} :
          IF Unquoted(c) = {}
          THEN Answer([c EXCEPT !.wizard = "cotizacion_completada"], Told("quote"))
          ELSE Answer(c, AskQuote(QuotePending(c)))
  /\ UNCHANGED <<clients, saved, logged>>

\* The other handlers answer without data, so the browser keeps its own.
Inform(intent) ==
  /\ Answer(ctx, Informed(CASE intent \in {"tracking", "recojo_externo"} -> intent
                           [] intent \in {"contenido_permitido", "documentacion",
                                          "consulta_general"} -> "other"
                           [] OTHER -> "info"))
  /\ UNCHANGED <<clients, saved, logged>>

\* The browser adds the privacy notice that the customer accepted.
AcceptNotice ==
  /\ ~ctx.notice
  /\ ctx' = [ctx EXCEPT !.notice = TRUE]
  /\ UNCHANGED <<asked, clients, saved, logged, shown, willing>>
------------------------------------------------------------------------------
Init ==
  /\ ctx = NoContext
  /\ asked = Start
  /\ clients \in InitialClients
  /\ saved = [count |-> 0, data |-> NoData, base |-> FALSE]
  /\ logged = {}
  /\ shown = NoData
  /\ willing \in BOOLEAN

\* _handle_preregistro_wizard, phase by phase.
PreRegister(m) ==
  \/ ChoosePayment(m)
  \/ CancelForm(m)
  \/ Create(m)
  \/ FailToCreate(m)
  \/ Object(m)
  \/ AskToConfirm(m)
  \/ PickField(m)
  \/ CorrectContent(m)
  \/ Collect(m)

\* _INTENT_HANDLERS
Turn ==
  \E expected \in {Expected} : \E name \in Said : \E intent \in Routes(Texts[name], expected) :
    \/ intent = "pre_registro" /\ PreRegister(Texts[name])
    \/ intent = "cotizacion" /\ Quote(Texts[name])
    \/ intent \notin {"pre_registro", "cotizacion"} /\ Inform(intent)

Next == Turn \/ AcceptNotice

\* A customer who answers what is asked does so, and accepts the notice.
Spec ==
  /\ Init /\ [][Next]_vars
  /\ WF_vars(willing /\ Turn) /\ WF_vars(willing /\ AcceptNotice)
------------------------------------------------------------------------------
TypeOK ==
  /\ ctx.wizard \in {"none", "cotizacion", "cotizacion_completada", "pre_registro"}
  /\ ctx.confirmed \in {"none", "asked", "modificando"}
  /\ ctx.payment \in BOOLEAN /\ ctx.notice \in BOOLEAN
  /\ ctx.id \in 0..MaxSaved
  /\ ctx.asks \subseteq People /\ ctx.omitted \subseteq People
  /\ saved.count \in 0..MaxSaved
  /\ logged \subseteq 1..saved.count
  /\ willing \in BOOLEAN

\* The page on which the customer chooses how to pay is about the last
\* pre-registration that was made and shows what was saved in it; that one is ready
\* for the staff to choose its base and on record in the log: also after
\* failed creations and lost answers (process_chat, which logs before it
\* answers, and _crear_preregistro_desde_chat).
PaymentIsForWhatWasSaved ==
  /\ TypeOK
  /\ ctx.payment =>
       /\ saved.count > 0 /\ ctx.id = saved.count
       /\ saved.data = ctx.data
       /\ ~saved.base
       /\ ctx.id \in logged

\* Nothing is made but what the summary in front of the customer says, however
\* the form got there; and of one summary a second pre-registration is made
\* only if the customer was not told of the first (the flags of
\* _manejar_respuesta_confirmacion).
SavedAsShown == [][saved' # saved => saved'.data = shown]_vars

\* A customer who answers every question as it asks gets to the payment, also
\* one who declines phones, looks people up in vain, quotes first, or answers
\* in words that read as another intention (_should_continue_active_wizard).
\* Two answers that the questions allow are not meant: 'Trujillo', which the
\* question for the destination offers and ShipmentPreRegistrationCreate refuses
\* as equal to the origin, and for the recipient the phone of the sender, which
\* it refuses too.  With either every creation fails, until it is corrected.
WillingGetsThrough == willing ~> asked \in {Told("pay_online"), Told("pay_agency")}
==============================================================================
