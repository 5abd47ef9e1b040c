--------------------------- MODULE ChatAndLoad_proofs ---------------------------
(***************************************************************************)
(* Proofs about the two components that share nothing with the others: the *)
(* chat, whatever the code reads in a message and for any number of        *)
(* messages and pre-registrations, and the arrangement of a load, for any  *)
(* truck, cargo and engine, any ties of the scores and a budget that ends  *)
(* anywhere.                                                               *)
(***************************************************************************)
EXTENDS AssistantWizard, LoadPlan, SetLemmas, SequenceTheorems, WellFoundedInduction, TLAPS
-------------------------------------------------------------------------------
(* The chat.                                                                 *)

ContextFields == {"wizard", "confirmed", "payment", "id", "data", "asks", "omitted", "notice"}

IsContext(c) ==
  /\ c = [f \in ContextFields |-> c[f]]
  /\ c.wizard \in {"none", "cotizacion", "cotizacion_completada", "pre_registro"}
  /\ c.confirmed \in {"none", "asked", "modificando"}
  /\ c.payment \in BOOLEAN /\ c.notice \in BOOLEAN
  /\ c.id \in 0..MaxSaved
  /\ c.asks \subseteq People /\ c.omitted \subseteq People

\* A form that waits for the customer's yes shows what it holds; one that waits
\* for the choice of payment holds what was saved.
Asked(c, s) == c.confirmed = "asked" => c.wizard = "pre_registro" /\ ~c.payment /\ s = c.data

Paying(c) ==
  c.payment =>
    /\ c.wizard = "pre_registro"
    /\ saved.count > 0 /\ c.id = saved.count
    /\ saved.data = c.data /\ ~saved.base
    /\ c.id \in logged

WInv ==
  /\ IsContext(ctx)
  /\ Asked(ctx, shown)
  /\ Paying(ctx)
  /\ saved.count \in 0..MaxSaved
  /\ logged \subseteq 1..saved.count
  /\ willing \in BOOLEAN

LEMMA NoContextType ==
  /\ IsContext(NoContext)
  /\ NoContext.wizard = "none" /\ NoContext.confirmed = "none" /\ NoContext.payment = FALSE
<1>1. NoContext = [f \in ContextFields |-> NoContext[f]]
  BY DEF NoContext, ContextFields
<1>2. /\ NoContext.wizard = "none" /\ NoContext.confirmed = "none" /\ NoContext.payment = FALSE
      /\ NoContext.notice = FALSE /\ NoContext.id = 0 /\ NoContext.asks = {} /\ NoContext.omitted = {}
  BY DEF NoContext
<1>3. 0 \in 0..MaxSaved
  BY WizardAssumption
<1> HIDE DEF NoContext
<1> QED
  BY <1>1, <1>2, <1>3 DEF IsContext

LEMMA WizardInit == Init => WInv
<1> SUFFICES ASSUME Init
             PROVE  WInv
  OBVIOUS
<1>1. IsContext(NoContext) /\ NoContext.confirmed = "none" /\ ~NoContext.payment
  BY NoContextType
<1>2. 0 \in 0..MaxSaved
  BY WizardAssumption
<1> QED
  BY <1>1, <1>2 DEF Init, WInv, Asked, Paying

-----------------------------------------------------------------------------
\* The next field to ask for is one of the form.
LEMMA FieldsInOrder ==
  /\ DOMAIN Order = 1..11
  /\ \A f \in Fields : \E n \in 1..11 : Order[n] = f
<1> DEFINE first == <<"remitente_dni", "remitente_nombre", "remitente_telefono", "destinatario_dni",
                      "destinatario_nombre", "destinatario_telefono">>
<1>1. /\ DOMAIN Order = 1..11
      /\ \A n \in 1..11 : Order[n] = IF n <= 6 THEN first[n] ELSE QuoteFields[n - 6]
  <2> DEFINE S == {first[n] : n \in 1..6} \cup {QuoteFields[n] : n \in 1..5}
  <2>1. first \in Seq(S) /\ Len(first) = 6
    OBVIOUS
  <2>2. QuoteFields \in Seq(S) /\ Len(QuoteFields) = 5
    BY DEF QuoteFields
  <2>3. Order = first \o QuoteFields
    BY DEF Order
  <2> HIDE DEF first, S
  <2>4. /\ first \o QuoteFields \in Seq(S)
        /\ Len(first \o QuoteFields) = Len(first) + Len(QuoteFields)
        /\ \A n \in 1..(Len(first) + Len(QuoteFields)) :
             (first \o QuoteFields)[n] =
               IF n <= Len(first) THEN first[n] ELSE QuoteFields[n - Len(first)]
    BY <2>1, <2>2, ConcatProperties, Zenon
  <2>5. Len(first) + Len(QuoteFields) = 11
    BY <2>1, <2>2
  <2>6. /\ Order \in Seq(S) /\ Len(Order) = 11
        /\ \A n \in 1..11 : Order[n] = IF n <= 6 THEN first[n] ELSE QuoteFields[n - 6]
    BY <2>1, <2>3, <2>4, <2>5, Zenon
  <2> QED
    BY <2>6, LenProperties
<1>2. Fields = {"remitente_dni", "remitente_nombre", "remitente_telefono", "destinatario_dni",
                "destinatario_nombre", "destinatario_telefono",
                "destino", "descripcion", "peso_kg", "dimensiones", "fragilidad"}
  BY DEF Fields, FieldsOf, Field, QuoteFields
<1>3. /\ Order[1] = "remitente_dni" /\ Order[2] = "remitente_nombre"
      /\ Order[3] = "remitente_telefono" /\ Order[4] = "destinatario_dni"
      /\ Order[5] = "destinatario_nombre" /\ Order[6] = "destinatario_telefono"
      /\ Order[7] = "destino" /\ Order[8] = "descripcion" /\ Order[9] = "peso_kg"
      /\ Order[10] = "dimensiones" /\ Order[11] = "fragilidad"
  BY <1>1 DEF QuoteFields
<1> QED
  BY <1>1, <1>2, <1>3

LEMMA FirstInOrder ==
  ASSUME NEW S \in SUBSET Fields, S # {}
  PROVE  FirstOf(Order, S) \in S
<1> DEFINE N == {n \in 1..11 : Order[n] \in S}
<1>1. N \subseteq Nat /\ N # {}
  BY FieldsInOrder
<1>2. PICK n \in N : \A k \in N : k >= n
  <2>1. PICK n \in N : \A k \in N : <<k, n>> \notin OpToRel(<, Nat)
    BY <1>1, NatLessThanWellFounded, WFMin
  <2> QED
    BY <1>1, <2>1 DEF OpToRel
<1>3. n \in DOMAIN Order /\ Order[n] \in S /\ \A k \in 1..(n - 1) : Order[k] \notin S
  BY <1>2, FieldsInOrder
<1> QED
  BY <1>3 DEF FirstOf

LEMMA PendingIsField == \A c : Pending(c) \in Fields \cup {"none"}
  BY FirstInOrder DEF Pending, Missing

LEMMA OwnersOfPhones ==
  ASSUME NEW f \in Fields \cup {"none"}, Kind[f] = "telefono"
  PROVE  f \in Fields /\ Owner[f] \subseteq People
<1>1. /\ {Field[p].dni : p \in People} = {"remitente_dni", "destinatario_dni"}
      /\ {Field[p].nombre : p \in People} = {"remitente_nombre", "destinatario_nombre"}
      /\ {Field[p].telefono : p \in People} = {"remitente_telefono", "destinatario_telefono"}
  BY DEF Field, People
<1>2. Kind["none"] = "none"
  BY <1>1 DEF Kind
<1>3. f \in Fields
  BY <1>2
<1> QED
  BY <1>3 DEF Owner
-----------------------------------------------------------------------------
\* What the handlers make of the form.
Like(c, d) ==
  /\ IsContext(c)
  /\ c.wizard = d.wizard /\ c.confirmed = d.confirmed /\ c.payment = d.payment

LEMMA ContextParts ==
  ASSUME NEW c
  PROVE  IsContext(c) <=>
           /\ DOMAIN c = ContextFields /\ c = [f \in ContextFields |-> c[f]]
           /\ c.wizard \in {"none", "cotizacion", "cotizacion_completada", "pre_registro"}
           /\ c.confirmed \in {"none", "asked", "modificando"}
           /\ c.payment \in BOOLEAN /\ c.notice \in BOOLEAN
           /\ c.id \in 0..MaxSaved
           /\ c.asks \subseteq People /\ c.omitted \subseteq People
  BY DEF IsContext

LEMMA FormType ==
  ASSUME WInv
  PROVE  /\ IsContext(Form) /\ Form.wizard = "pre_registro"
         /\ Form.confirmed = ctx.confirmed /\ Form.payment = ctx.payment
         /\ Form.data = ctx.data /\ Form.id = ctx.id
<1>1. ctx = [f \in ContextFields |-> ctx[f]] /\ IsContext(ctx)
  BY DEF WInv, IsContext
<1>2. /\ Form = [f \in ContextFields |-> Form[f]]
      /\ Form.wizard = "pre_registro"
      /\ Form.confirmed = ctx.confirmed /\ Form.payment = ctx.payment
      /\ Form.data = ctx.data /\ Form.id = ctx.id
      /\ Form.asks = ctx.asks /\ Form.omitted = ctx.omitted /\ Form.notice = ctx.notice
  BY <1>1 DEF Form, ContextFields
<1> HIDE DEF Form
<1> QED
  BY <1>1, <1>2 DEF IsContext

\* A change of the data, or of whose phone is asked or declined.
LEMMA ChangedType ==
  ASSUME NEW c, IsContext(c), NEW data, NEW asks \in SUBSET People, NEW omitted \in SUBSET People
  PROVE  Like([c EXCEPT !.data = data, !.asks = asks, !.omitted = omitted], c)
<1> DEFINE d == [c EXCEPT !.data = data, !.asks = asks, !.omitted = omitted]
<1>1. c = [f \in ContextFields |-> c[f]]
  BY DEF IsContext
<1>2. /\ d = [f \in ContextFields |-> d[f]]
      /\ d.wizard = c.wizard /\ d.confirmed = c.confirmed /\ d.payment = c.payment
      /\ d.id = c.id /\ d.asks = asks /\ d.omitted = omitted /\ d.notice = c.notice
  BY <1>1 DEF ContextFields
<1> HIDE DEF d
<1> QED
  BY <1>2 DEF Like, IsContext, d

LEMMA ConfirmedType ==
  ASSUME NEW c, IsContext(c), NEW state \in {"none", "asked", "modificando"}
  PROVE  LET d == [c EXCEPT !.confirmed = state]
         IN  /\ IsContext(d) /\ d.wizard = c.wizard /\ d.payment = c.payment
             /\ d.confirmed = state /\ d.data = c.data
<1> DEFINE d == [c EXCEPT !.confirmed = state]
<1>1. c = [f \in ContextFields |-> c[f]]
  BY DEF IsContext
<1>2. /\ d = [f \in ContextFields |-> d[f]]
      /\ d.wizard = c.wizard /\ d.confirmed = state /\ d.payment = c.payment /\ d.data = c.data
      /\ d.id = c.id /\ d.asks = c.asks /\ d.omitted = c.omitted /\ d.notice = c.notice
  BY <1>1 DEF ContextFields
<1> HIDE DEF d
<1> QED
  BY <1>2 DEF IsContext, d

LEMMA FlagPhonesType ==
  ASSUME NEW c, IsContext(c)
  PROVE  Like(FlagPhones(c), c)
<1>1. c = [f \in ContextFields |-> c[f]] /\ c.asks \subseteq People
  BY DEF IsContext
<1>2. PICK asks \in SUBSET People : FlagPhones(c) = [c EXCEPT !.asks = asks]
  BY <1>1 DEF FlagPhones
<1>3. [c EXCEPT !.asks = asks] = [c EXCEPT !.data = c.data, !.asks = asks, !.omitted = c.omitted]
  BY <1>1 DEF ContextFields
<1>4. c.omitted \in SUBSET People
  BY DEF IsContext
<1>5. Like([c EXCEPT !.data = c.data, !.asks = asks, !.omitted = c.omitted], c)
  BY <1>4, ChangedType, Zenon
<1> QED
  BY <1>2, <1>3, <1>5, Zenon

LEMMA EnrichedType ==
  ASSUME NEW c, IsContext(c), NEW d \in Enriched(c)
  PROVE  Like(d, c)
<1>1. c = [f \in ContextFields |-> c[f]] /\ c.asks \in SUBSET People /\ c.omitted \in SUBSET People
  BY DEF IsContext
<1>2. PICK data : d = FlagPhones([c EXCEPT !.data = data])
  BY <1>1 DEF Enriched, ContextFields
<1>3. [c EXCEPT !.data = data] = [c EXCEPT !.data = data, !.asks = c.asks, !.omitted = c.omitted]
  BY <1>1 DEF ContextFields
<1>4. Like([c EXCEPT !.data = data], c)
  <2>1. Like([c EXCEPT !.data = data, !.asks = c.asks, !.omitted = c.omitted], c)
    BY <1>1, ChangedType, Zenon
  <2> QED
    BY <1>3, <2>1, Zenon
<1> QED
  BY <1>2, <1>4, FlagPhonesType DEF Like

LEMMA ReopenedType ==
  ASSUME WInv, NEW m
  PROVE  /\ IsContext(Reopened(m)) /\ Reopened(m).wizard = "pre_registro"
         /\ Reopened(m).confirmed = "none" /\ Reopened(m).payment = ctx.payment
<1>1. /\ IsContext(Form) /\ Form.wizard = "pre_registro" /\ Form.payment = ctx.payment
      /\ Form = [f \in ContextFields |-> Form[f]]
      /\ Form.asks \in SUBSET People /\ Form.omitted \in SUBSET People
  BY FormType DEF IsContext
<1>2. \E data : \E asks, omitted \in SUBSET People :
        Reset(Form, m.names) = [Form EXCEPT !.data = data, !.asks = asks, !.omitted = omitted]
  <2>1. CASE m.names \in People
    <3>1. PICK data : data = [f \in Fields |-> IF f \in FieldsOf(m.names) THEN NoValue ELSE Form.data[f]]
      OBVIOUS
    <3>2. Reset(Form, m.names) =
            [Form EXCEPT !.data = data, !.asks = Form.asks \ {m.names},
                         !.omitted = Form.omitted \ {m.names}]
      BY <1>1, <2>1, <3>1 DEF Reset, ContextFields
    <3>3. Form.asks \ {m.names} \in SUBSET People /\ Form.omitted \ {m.names} \in SUBSET People
      BY <1>1
    <3> QED
      BY <3>2, <3>3, Zenon
  <2>2. CASE m.names \notin People
    <3>1. PICK data : data = [Form.data EXCEPT ![IF m.names = "peso" THEN "peso_kg" ELSE m.names] = NoValue]
      OBVIOUS
    <3>2. Reset(Form, m.names) =
            [Form EXCEPT !.data = data, !.asks = Form.asks, !.omitted = Form.omitted]
      BY <1>1, <2>2, <3>1 DEF Reset, ContextFields
    <3>3. Form.asks \in SUBSET People /\ Form.omitted \in SUBSET People
      BY <1>1
    <3> QED
      BY <3>2, <3>3, Zenon
  <2> QED
    BY <2>1, <2>2
<1>3. Like(Reset(Form, m.names), Form)
  <2>1. \A data : \A asks, omitted \in SUBSET People :
          Like([Form EXCEPT !.data = data, !.asks = asks, !.omitted = omitted], Form)
    BY <1>1, ChangedType, Zenon
  <2>2. PICK data : \E asks, omitted \in SUBSET People :
          Reset(Form, m.names) = [Form EXCEPT !.data = data, !.asks = asks, !.omitted = omitted]
    BY <1>2
  <2>3. PICK asks \in SUBSET People, omitted \in SUBSET People :
          Reset(Form, m.names) = [Form EXCEPT !.data = data, !.asks = asks, !.omitted = omitted]
    BY <2>2
  <2>4. Like([Form EXCEPT !.data = data, !.asks = asks, !.omitted = omitted], Form)
    BY <2>1, Zenon
  <2> QED
    BY <2>3, <2>4, Zenon
<1> QED
  BY <1>1, <1>3, ConfirmedType DEF Reopened, Like

LEMMA SetFieldType ==
  ASSUME NEW c, IsContext(c), NEW f, NEW value
  PROVE  Like(SetField(c, f, value), c)
<1>1. c = [g \in ContextFields |-> c[g]] /\ c.asks \in SUBSET People /\ c.omitted \in SUBSET People
  BY DEF IsContext
<1>2. CASE value = NoValue
  BY <1>2 DEF SetField, Like
<1>3. CASE value # NoValue
  <2>1. PICK data : data = [c.data EXCEPT ![f] = value]
    OBVIOUS
  <2>2. PICK asks : asks = IF Kind[f] = "telefono" THEN c.asks \ Owner[f] ELSE c.asks
    OBVIOUS
  <2>3. asks \in SUBSET People
    BY <1>1, <2>2
  <2>4. SetField(c, f, value) = [c EXCEPT !.data = data, !.asks = asks, !.omitted = c.omitted]
    BY <1>1, <1>3, <2>1, <2>2 DEF SetField, ContextFields
  <2>5. Like([c EXCEPT !.data = data, !.asks = asks, !.omitted = c.omitted], c)
    BY <1>1, <2>3, ChangedType, Zenon
  <2> QED
    BY <2>4, <2>5, Zenon
<1> QED
  BY <1>2, <1>3

LEMMA FilledType ==
  ASSUME WInv, NEW m, NEW f \in Fields \cup {"none"}, NEW v
  PROVE  Like(Filled(f, m, v), Form)
<1>1. /\ IsContext(Form) /\ Form = [g \in ContextFields |-> Form[g]]
      /\ Form.asks \in SUBSET People /\ Form.omitted \in SUBSET People
  BY FormType DEF IsContext
<1>2. CASE Declines(f, m)
  <2>1. Owner[f] \subseteq People
    BY <1>2, OwnersOfPhones DEF Declines
  <2>2. PICK asks, omitted : asks = Form.asks \ Owner[f] /\ omitted = Form.omitted \cup Owner[f]
    OBVIOUS
  <2>3. asks \in SUBSET People /\ omitted \in SUBSET People
    BY <1>1, <2>1, <2>2
  <2>4. Filled(f, m, v) = [Form EXCEPT !.data = Form.data, !.asks = asks, !.omitted = omitted]
    BY <1>1, <1>2, <2>2 DEF Filled, ContextFields
  <2>5. Like([Form EXCEPT !.data = Form.data, !.asks = asks, !.omitted = omitted], Form)
    BY <1>1, <2>3, ChangedType, Zenon
  <2> QED
    BY <2>4, <2>5, Zenon
<1>3. CASE ~Declines(f, m)
  BY <1>1, <1>3, SetFieldType DEF Filled
<1> QED
  BY <1>2, <1>3

-----------------------------------------------------------------------------
\* An answer that reaches the browser: what matters is whether the form it brings
\* waits for a yes, and whether it waits for the choice of payment.
LEMMA AnswerStep ==
  ASSUME WInv, NEW c, NEW answer, Answer(c, answer), IsContext(c), Paying(c)',
         c.confirmed = "asked" =>
           /\ c.wizard = "pre_registro" /\ ~c.payment
           /\ \/ answer = Told("summary")
              \/ (answer = Told("confirm_again") \/ answer[1] = "consulta") /\ shown = c.data,
         saved'.count \in 0..MaxSaved, logged' \subseteq 1..saved'.count
  PROVE  WInv'
<1>1. ctx' = c /\ asked' = answer /\ willing' = willing
  BY DEF Answer
<1>2. /\ answer = Told("summary") => shown' = c.data
      /\ answer = Told("confirm_again") \/ answer[1] = "consulta" => shown' = shown
  BY DEF Answer, Told
<1>3. Asked(c, shown')
  BY <1>2 DEF Asked
<1>4. IsContext(ctx)' /\ Asked(ctx, shown)' /\ Paying(ctx)'
  BY <1>1, <1>3 DEF IsContext, Asked, Paying
<1> QED
  BY <1>1, <1>4 DEF WInv

\* The usual case: nothing is stored and no payment is chosen next.
LEMMA AskStep ==
  ASSUME WInv, NEW c, NEW answer, Answer(c, answer), IsContext(c), ~c.payment,
         c.confirmed = "asked" =>
           /\ c.wizard = "pre_registro"
           /\ \/ answer = Told("summary")
              \/ answer = Told("confirm_again") /\ shown = c.data,
         UNCHANGED <<saved, logged>>
  PROVE  WInv'
<1>1. Paying(c)'
  BY DEF Paying
<1>2. saved'.count \in 0..MaxSaved /\ logged' \subseteq 1..saved'.count
  BY DEF WInv
<1> QED
  BY <1>1, <1>2, AnswerStep

\* An answer that is lost leaves the browser where it was.
LEMMA LostStep ==
  ASSUME WInv, ~ctx.payment, LostAnswer, saved'.count \in 0..MaxSaved,
         logged' \subseteq 1..saved'.count
  PROVE  WInv'
  BY DEF WInv, LostAnswer, IsContext, Asked, Paying

LEMMA InsertStep ==
  ASSUME WInv, NEW base, Insert(base)
  PROVE  /\ saved'.count = saved.count + 1 /\ saved'.data = ctx.data /\ saved'.base = base
         /\ saved'.count \in 0..MaxSaved /\ saved'.count > 0
         /\ logged \subseteq 1..saved'.count /\ saved'.count \in 1..saved'.count
<1>1. saved.count \in Nat /\ saved.count < MaxSaved /\ logged \subseteq 1..saved.count
  BY DEF WInv, Insert
<1>2. saved'.count = saved.count + 1 /\ saved'.data = ctx.data /\ saved'.base = base
  BY DEF Insert
<1> QED
  BY <1>1, <1>2, WizardAssumption

LEMMA CreateStep ==
  ASSUME WInv, NEW m, Create(m)
  PROVE  WInv'
<1>1. ~ctx.payment /\ Insert(FALSE)
  BY DEF Create, AtOpenForm
<1>2. CASE Answer(Created, Told("payment")) /\ logged' = logged \cup {saved'.count}
  <2>1. PICK n : n = saved.count + 1
    OBVIOUS
  <2>2. /\ Form = [f \in ContextFields |-> Form[f]] /\ IsContext(Form)
        /\ Form.wizard = "pre_registro" /\ Form.data = ctx.data
    BY FormType DEF IsContext
  <2>3. Created = [Form EXCEPT !.confirmed = "none", !.payment = TRUE, !.id = n]
    BY <2>1 DEF Created
  <2>4. /\ Created = [f \in ContextFields |-> Created[f]]
        /\ Created.wizard = Form.wizard /\ Created.confirmed = "none" /\ Created.payment = TRUE
        /\ Created.id = n /\ Created.data = Form.data
        /\ Created.asks = Form.asks /\ Created.omitted = Form.omitted /\ Created.notice = Form.notice
    BY <2>2, <2>3 DEF ContextFields
  <2>5. n = saved'.count /\ n \in 0..MaxSaved
    BY <1>1, <2>1, InsertStep
  <2> HIDE DEF Created, Form
  <2>6. IsContext(Created)
    BY <2>2, <2>4, <2>5 DEF IsContext
  <2>7. logged' \subseteq 1..saved'.count
    BY <1>1, <1>2, InsertStep
  <2>8. PICK c : c = Created
    OBVIOUS
  <2>9. Paying(c)'
    BY <1>1, <1>2, <2>2, <2>4, <2>5, <2>8, InsertStep DEF Paying
  <2>10. Answer(c, Told("payment"))
    BY <1>2, <2>8
  <2> QED
    BY <1>1, <2>4, <2>6, <2>7, <2>8, <2>9, <2>10, InsertStep, AnswerStep
<1>3. CASE LostAnswer /\ logged' \in {logged, logged \cup {saved'.count}}
  BY <1>1, <1>3, InsertStep, LostStep
<1> QED
  BY <1>2, <1>3 DEF Create

LEMMA FailStep ==
  ASSUME WInv, NEW m, FailToCreate(m)
  PROVE  WInv'
<1>1. ~ctx.payment /\ logged' = logged
  BY DEF FailToCreate, AtOpenForm
<1>2. saved'.count \in 0..MaxSaved /\ logged' \subseteq 1..saved'.count
  <2>1. saved' = saved \/ Insert(TRUE)
    BY DEF FailToCreate
  <2> QED
    BY <1>1, <2>1, InsertStep DEF WInv
<1>3. CASE LostAnswer
  BY <1>1, <1>2, <1>3, LostStep
<1>4. CASE Answer([Form EXCEPT !.confirmed = "none"], Told("failed"))
  <2>1. PICK c : c = [Form EXCEPT !.confirmed = "none"]
    OBVIOUS
  <2>2. IsContext(c) /\ ~c.payment /\ c.confirmed = "none"
    BY <1>1, <2>1, FormType, ConfirmedType
  <2>3. Paying(c)'
    BY <2>2 DEF Paying
  <2> QED
    BY <1>2, <1>4, <2>1, <2>2, <2>3, AnswerStep
<1> QED
  BY <1>3, <1>4 DEF FailToCreate

LEMMA ChooseStep ==
  ASSUME WInv, NEW m, ChoosePayment(m)
  PROVE  WInv'
<1>1. UNCHANGED <<saved, logged>>
  BY DEF ChoosePayment
<1>2. /\ Form = [f \in ContextFields |-> Form[f]] /\ IsContext(Form) /\ ctx.payment
      /\ Form.wizard = "pre_registro" /\ Form.data = ctx.data /\ Form.id = ctx.id
      /\ Form.confirmed = ctx.confirmed /\ ctx.confirmed # "asked"
  BY FormType DEF IsContext, ChoosePayment, WInv, Asked
<1>3. CASE Answer([Form EXCEPT !.wizard = "none", !.payment = FALSE, !.asks = {}, !.omitted = {}],
                  Told("pay_online"))
  <2>1. PICK c : c = [Form EXCEPT !.wizard = "none", !.payment = FALSE, !.asks = {}, !.omitted = {}]
    OBVIOUS
  <2>2. /\ c = [f \in ContextFields |-> c[f]]
        /\ c.wizard = "none" /\ c.payment = FALSE /\ c.asks = {} /\ c.omitted = {}
        /\ c.confirmed = Form.confirmed /\ c.id = Form.id /\ c.notice = Form.notice
    <3> HIDE DEF Form
    <3> QED
      BY <1>2, <2>1 DEF ContextFields
  <2>3. IsContext(c)
    <3> HIDE DEF Form
    <3> QED
      BY <1>2, <2>2 DEF IsContext
  <2> QED
    BY <1>1, <1>2, <1>3, <2>1, <2>2, <2>3, AskStep
<1>4. CASE Answer(NoContext, Told("pay_agency"))
  BY <1>1, <1>4, NoContextType, AskStep
<1>5. CASE Answer(Form, Told("payment"))
  <2>1. PICK c : c = Form
    OBVIOUS
  <2>2. Paying(c)'
    BY <1>1, <1>2, <2>1 DEF WInv, Paying
  <2>3. saved'.count \in 0..MaxSaved /\ logged' \subseteq 1..saved'.count
    BY <1>1 DEF WInv
  <2> HIDE DEF Form
  <2> QED
    BY <1>2, <1>5, <2>1, <2>2, <2>3, AnswerStep
<1> QED
  BY <1>3, <1>4, <1>5 DEF ChoosePayment

LEMMA ObjectStep ==
  ASSUME WInv, NEW m, Object(m)
  PROVE  WInv'
<1>1. UNCHANGED <<saved, logged>> /\ ~ctx.payment
  BY DEF Object, AtOpenForm
<1>2. CASE Answer(Reopened(m), Ask(Pending(Reopened(m))))
  <2>1. PICK c : c = Reopened(m)
    OBVIOUS
  <2>2. IsContext(c) /\ ~c.payment /\ c.confirmed = "none"
    BY <1>1, <2>1, ReopenedType
  <2> QED
    BY <1>1, <1>2, <2>1, <2>2, AskStep
<1>3. CASE Answer([Form EXCEPT !.confirmed = "modificando"], Told("which_field"))
  <2>1. PICK c : c = [Form EXCEPT !.confirmed = "modificando"]
    OBVIOUS
  <2>2. IsContext(c) /\ ~c.payment /\ c.confirmed = "modificando"
    BY <1>1, <2>1, FormType, ConfirmedType
  <2> QED
    BY <1>1, <1>3, <2>1, <2>2, AskStep
<1> QED
  BY <1>2, <1>3 DEF Object

LEMMA PickFieldStep ==
  ASSUME WInv, NEW m, PickField(m)
  PROVE  WInv'
<1>1. UNCHANGED <<saved, logged>> /\ ~ctx.payment /\ ctx.confirmed = "modificando"
  BY DEF PickField, AtOpenForm
<1>2. ASSUME NEW c \in Enriched(Reopened(m)), Answer(c, Ask(Pending(c)))
      PROVE  WInv'
  <2>1. Like(c, Reopened(m)) /\ IsContext(Reopened(m))
    BY <1>2, ReopenedType, EnrichedType
  <2>2. IsContext(c) /\ ~c.payment /\ c.confirmed = "none"
    BY <1>1, <2>1, ReopenedType DEF Like
  <2> QED
    BY <1>1, <1>2, <2>2, AskStep
<1>3. CASE Answer(Form, Told("which_field"))
  BY <1>1, <1>3, FormType, AskStep
<1> QED
  BY <1>2, <1>3 DEF PickField

LEMMA CorrectStep ==
  ASSUME WInv, NEW m, CorrectContent(m)
  PROVE  WInv'
<1>1. UNCHANGED <<saved, logged>> /\ ~ctx.payment /\ ctx.confirmed = "none"
  BY DEF CorrectContent, AtOpenForm
<1>2. PICK data : data = [Form.data EXCEPT !["descripcion"] = NoValue]
  OBVIOUS
<1>3. /\ Form = [f \in ContextFields |-> Form[f]] /\ IsContext(Form)
      /\ Form.asks \in SUBSET People /\ Form.omitted \in SUBSET People
  BY FormType DEF IsContext
<1>4. PICK c : c = [Form EXCEPT !.data = data, !.asks = Form.asks, !.omitted = Form.omitted]
  OBVIOUS
<1>5. c = [Form EXCEPT !.data["descripcion"] = NoValue]
  <2> HIDE DEF Form
  <2> QED
    BY <1>2, <1>3, <1>4 DEF ContextFields
<1>6. Like(c, Form)
  <2>1. Like([Form EXCEPT !.data = data, !.asks = Form.asks, !.omitted = Form.omitted], Form)
    BY <1>3, ChangedType, Zenon
  <2> QED
    BY <1>4, <2>1, Zenon
<1>7. Answer(c, Ask("descripcion"))
  BY <1>5 DEF CorrectContent
<1> QED
  BY <1>1, <1>6, <1>7, FormType, AskStep DEF Like

LEMMA CollectStep ==
  ASSUME WInv, NEW m, Collect(m)
  PROVE  WInv'
<1>1. UNCHANGED <<saved, logged>> /\ ~ctx.payment /\ ctx.confirmed = "none"
  BY DEF Collect, AtOpenForm
<1>2. PICK f \in Fields \cup {"none"} : f = Pending(Form)
  BY PendingIsField
<1>3. PICK v : \/ Answer(Form, Ask(f))
               \/ \E c \in Enriched(Filled(f, m, v)) :
                    IF Missing(c) = {}
                    THEN Answer([c EXCEPT !.confirmed = "asked"], Told("summary"))
                    ELSE Answer(c, Ask(Pending(c)))
  BY <1>2 DEF Collect
<1>4. CASE Answer(Form, Ask(f))
  BY <1>1, <1>4, FormType, AskStep
<1>5. ASSUME NEW c \in Enriched(Filled(f, m, v)),
             IF Missing(c) = {}
             THEN Answer([c EXCEPT !.confirmed = "asked"], Told("summary"))
             ELSE Answer(c, Ask(Pending(c)))
      PROVE  WInv'
  <2>1. Like(Filled(f, m, v), Form) /\ Like(c, Filled(f, m, v))
    BY <1>5, FilledType, EnrichedType DEF Like
  <2>2. IsContext(c) /\ ~c.payment /\ c.confirmed = "none" /\ c.wizard = "pre_registro"
    BY <1>1, <2>1, FormType DEF Like
  <2>3. CASE Answer(c, Ask(Pending(c)))
    BY <1>1, <2>2, <2>3, AskStep
  <2>4. CASE Answer([c EXCEPT !.confirmed = "asked"], Told("summary"))
    <3>1. PICK d : d = [c EXCEPT !.confirmed = "asked"]
      OBVIOUS
    <3>2. IsContext(d) /\ ~d.payment /\ d.wizard = "pre_registro"
      BY <2>2, <3>1, ConfirmedType
    <3> QED
      BY <1>1, <2>4, <3>1, <3>2, AskStep
  <2> QED
    BY <1>5, <2>3, <2>4
<1> QED
  BY <1>3, <1>4, <1>5

LEMMA PreRegisterStep ==
  ASSUME WInv, NEW m, PreRegister(m)
  PROVE  WInv'
<1>1. CASE CancelForm(m)
  BY <1>1, NoContextType, AskStep DEF CancelForm
<1>2. CASE AskToConfirm(m)
  BY <1>2, FormType, AskStep DEF AskToConfirm, AtOpenForm, WInv, Asked
<1> QED
  BY <1>1, <1>2, ChooseStep, CreateStep, FailStep, ObjectStep, PickFieldStep, CorrectStep, CollectStep
  DEF PreRegister

LEMMA QuoteStep ==
  ASSUME WInv, NEW m, Quote(m)
  PROVE  WInv'
<1>1. UNCHANGED <<saved, logged>>
  BY DEF Quote
<1>2. PICK start : start = IF ctx.wizard = "cotizacion" THEN ctx
                           ELSE [NoContext EXCEPT !.wizard = "cotizacion"]
  OBVIOUS
<1>3. PICK f, v : LET c == SetField(start, f, v)
                  IN  \/ Answer([c EXCEPT !.wizard = "cotizacion_completada"], Told("quote"))
                      \/ Answer(c, AskQuote(QuotePending(c)))
  BY <1>2 DEF Quote
<1>4. IsContext(start) /\ ~start.payment /\ start.confirmed # "asked"
  <2>1. CASE ctx.wizard = "cotizacion"
    BY <1>2, <2>1 DEF WInv, Asked, Paying
  <2>2. CASE ctx.wizard # "cotizacion"
    <3>1. NoContext = [g \in ContextFields |-> NoContext[g]] /\ IsContext(NoContext)
      BY NoContextType DEF IsContext
    <3>2. start = [NoContext EXCEPT !.wizard = "cotizacion"]
      BY <1>2, <2>2
    <3> HIDE DEF NoContext
    <3>3. /\ start = [g \in ContextFields |-> start[g]]
          /\ start.wizard = "cotizacion" /\ start.confirmed = NoContext.confirmed
          /\ start.payment = NoContext.payment /\ start.id = NoContext.id
          /\ start.asks = NoContext.asks /\ start.omitted = NoContext.omitted
          /\ start.notice = NoContext.notice
      BY <3>1, <3>2 DEF ContextFields
    <3> QED
      BY <3>1, <3>3, NoContextType DEF IsContext
  <2> QED
    BY <2>1, <2>2
<1>5. PICK c : c = SetField(start, f, v)
  OBVIOUS
<1>6. IsContext(c) /\ ~c.payment /\ c.confirmed # "asked"
  BY <1>4, <1>5, SetFieldType DEF Like
<1>7. CASE Answer(c, AskQuote(QuotePending(c)))
  BY <1>1, <1>6, <1>7, AskStep
<1>8. CASE Answer([c EXCEPT !.wizard = "cotizacion_completada"], Told("quote"))
  <2>1. PICK d : d = [c EXCEPT !.wizard = "cotizacion_completada"]
    OBVIOUS
  <2>2. c = [g \in ContextFields |-> c[g]]
    BY <1>6 DEF IsContext
  <2>3. /\ d = [g \in ContextFields |-> d[g]]
        /\ d.wizard = "cotizacion_completada" /\ d.confirmed = c.confirmed /\ d.payment = c.payment
        /\ d.id = c.id /\ d.asks = c.asks /\ d.omitted = c.omitted /\ d.notice = c.notice
    BY <2>1, <2>2 DEF ContextFields
  <2>4. IsContext(d)
    BY <1>6, <2>3 DEF IsContext
  <2> QED
    BY <1>1, <1>6, <1>8, <2>1, <2>3, <2>4, AskStep
<1> QED
  BY <1>3, <1>5, <1>7, <1>8

LEMMA InformStep ==
  ASSUME WInv, NEW intent, Inform(intent)
  PROVE  WInv'
<1>1. PICK what : Answer(ctx, Informed(what)) /\ UNCHANGED <<saved, logged>>
  BY DEF Inform
<1>2. Paying(ctx)' /\ ctx' = ctx
  BY <1>1 DEF WInv, Paying, Answer
<1>3. PICK c : c = ctx
  OBVIOUS
<1>4. IsContext(c) /\ Paying(c)' /\ Answer(c, Informed(what))
  BY <1>1, <1>2, <1>3 DEF WInv, Paying
<1>5. Informed(what)[1] = "consulta"
  BY DEF Informed
<1> QED
  BY <1>1, <1>3, <1>4, <1>5, AnswerStep DEF WInv, Asked

LEMMA AcceptStep ==
  ASSUME WInv, AcceptNotice
  PROVE  WInv'
<1>1. ctx' = [ctx EXCEPT !.notice = TRUE] /\ UNCHANGED <<asked, saved, logged, shown, willing>>
  BY DEF AcceptNotice
<1>2. IsContext(ctx) /\ ctx = [f \in ContextFields |-> ctx[f]]
  BY DEF WInv, IsContext
<1>3. /\ ctx' = [f \in ContextFields |-> ctx'[f]]
      /\ ctx'.wizard = ctx.wizard /\ ctx'.confirmed = ctx.confirmed /\ ctx'.payment = ctx.payment
      /\ ctx'.id = ctx.id /\ ctx'.data = ctx.data
      /\ ctx'.asks = ctx.asks /\ ctx'.omitted = ctx.omitted /\ ctx'.notice = TRUE
  BY <1>1, <1>2 DEF ContextFields
<1>4. IsContext(ctx)'
  BY <1>2, <1>3 DEF IsContext
<1> QED
  BY <1>1, <1>3, <1>4 DEF WInv, Asked, Paying

LEMMA WizardStep == WInv /\ [Next]_vars => WInv'
<1> SUFFICES ASSUME WInv, [Next]_vars
             PROVE  WInv'
  OBVIOUS
<1>1. CASE Turn
  <2>1. PICK m, intent : PreRegister(m) \/ Quote(m) \/ Inform(intent)
    BY <1>1 DEF Turn
  <2> QED
    BY <2>1, PreRegisterStep, QuoteStep, InformStep
<1>2. CASE AcceptNotice
  BY <1>2, AcceptStep
<1>3. CASE UNCHANGED vars
  BY <1>3 DEF vars, WInv, IsContext, Asked, Paying
<1> QED
  BY <1>1, <1>2, <1>3 DEF Next

LEMMA WizardAlways == Spec => []WInv
  BY WizardInit, WizardStep, PTL DEF Spec

LEMMA PaymentOfInv == WInv => PaymentIsForWhatWasSaved
  BY DEF WInv, IsContext, Paying, PaymentIsForWhatWasSaved, TypeOK

\* The page of the payment is about what was saved last, with the data that was
\* confirmed, whatever is said, lost or sent again in between (process_chat).
THEOREM PaymentPageHolds == Spec => []PaymentIsForWhatWasSaved
  BY WizardAlways, PaymentOfInv, PTL

LEMMA SavedIsShown ==
  ASSUME WInv, [Next]_vars, saved' # saved
  PROVE  saved'.data = shown
<1>1. Turn
  BY DEF Next, AcceptNotice, vars
<1>2. PICK m : Create(m) \/ FailToCreate(m)
  BY <1>1 DEF Turn, PreRegister, ChoosePayment, CancelForm, Object, AskToConfirm, PickField,
              CorrectContent, Collect, Quote, Inform
<1>3. ctx.confirmed = "asked" /\ \E base : Insert(base)
  BY <1>2 DEF Create, FailToCreate, AtOpenForm
<1> QED
  BY <1>3, InsertStep DEF WInv, Asked

\* Nothing is made but what the last summary said (_crear_preregistro_desde_chat).
THEOREM SavedAsShownHolds == Spec => SavedAsShown
  BY WizardAlways, SavedIsShown, PTL DEF Spec, SavedAsShown
-------------------------------------------------------------------------------
(* The load plan: lengths and places.                                       *)

LEMMA MaxOfTwo ==
  ASSUME NEW a \in Int, NEW b \in Int
  PROVE  Max({a, b}) = IF a >= b THEN a ELSE b
<1> DEFINE S == {a, b}
           most == IF a >= b THEN a ELSE b
<1>1. most \in S /\ \A y \in S : most >= y
  OBVIOUS
<1>2. Max(S) \in S /\ \A y \in S : Max(S) >= y
  BY <1>1 DEF Max
<1> QED
  BY <1>1, <1>2

LEMMA MinOfTwo ==
  ASSUME NEW a \in Int, NEW b \in Int
  PROVE  Min({a, b}) = IF a <= b THEN a ELSE b
<1> DEFINE S == {a, b}
           least == IF a <= b THEN a ELSE b
<1>1. least \in S /\ \A y \in S : least <= y
  OBVIOUS
<1>2. Min(S) \in S /\ \A y \in S : Min(S) <= y
  BY <1>1 DEF Min
<1> QED
  BY <1>1, <1>2

LEMMA OfThree ==
  ASSUME NEW a \in Int, NEW b \in Int, NEW c \in Int
  PROVE  /\ Max({a, b, c}) \in {a, b, c} /\ Min({a, b, c}) \in {a, b, c}
         /\ \A y \in {a, b, c} : Min({a, b, c}) <= y /\ y <= Max({a, b, c})
<1> DEFINE S == {a, b, c}
           most == IF a >= b /\ a >= c THEN a ELSE IF b >= c THEN b ELSE c
           least == IF a <= b /\ a <= c THEN a ELSE IF b <= c THEN b ELSE c
<1>1. most \in S /\ \A y \in S : most >= y
  OBVIOUS
<1>2. least \in S /\ \A y \in S : least <= y
  OBVIOUS
<1>3. Max(S) \in S /\ \A y \in S : Max(S) >= y
  BY <1>1 DEF Max
<1>4. Min(S) \in S /\ \A y \in S : Min(S) <= y
  BY <1>2 DEF Min
<1> QED
  BY <1>3, <1>4

\* Two intervals have something in common unless one ends before the other.
LEMMA SharedIs ==
  ASSUME NEW a \in Int, NEW la \in Nat \ {0}, NEW b \in Int, NEW lb \in Nat \ {0}
  PROVE  /\ Shared(a, la, b, lb) \in Nat
         /\ Shared(a, la, b, lb) = 0 <=> a + la <= b \/ b + lb <= a
<1> DEFINE low == Min({a + la, b + lb})
           high == Max({a, b})
<1>1. low = IF a + la <= b + lb THEN a + la ELSE b + lb
  BY MinOfTwo
<1>2. high = IF a >= b THEN a ELSE b
  BY MaxOfTwo
<1>3. low - high \in Int
  BY <1>1, <1>2
<1> HIDE DEF low, high
<1>4. \A n \in Int : Max({0, n}) = IF 0 >= n THEN 0 ELSE n
  BY MaxOfTwo
<1>5. Shared(a, la, b, lb) = IF 0 >= low - high THEN 0 ELSE low - high
  <2>1. Shared(a, la, b, lb) = Max({0, low - high})
    BY DEF Shared, low, high
  <2> QED
    BY <1>3, <1>4, <2>1
<1> QED
  BY <1>1, <1>2, <1>3, <1>5

BoxFields == {"pkg", "x", "y", "z", "w", "h", "d", "vertical", "rank", "weight", "capacity",
              "carried"}

IsBox(c) ==
  /\ DOMAIN c = BoxFields
  /\ c.x \in Int /\ c.y \in Int /\ c.z \in Int
  /\ c.w \in Nat \ {0} /\ c.h \in Nat \ {0} /\ c.d \in Nat \ {0}
  /\ c.weight \in Nat

\* One box but for what it carries.
Alike(b, c) ==
  /\ DOMAIN b = DOMAIN c
  /\ b.pkg = c.pkg /\ b.x = c.x /\ b.y = c.y /\ b.z = c.z
  /\ b.w = c.w /\ b.h = c.h /\ b.d = c.d /\ b.weight = c.weight

LEMMA BoxesShare ==
  ASSUME NEW c, IsBox(c), NEW i, IsBox(i)
  PROVE  /\ SharedX(c, i) \in Nat /\ SharedY(c, i) \in Nat /\ SharedZ(c, i) \in Nat
         /\ SharedX(c, i) = 0 <=> c.x + c.w <= i.x \/ i.x + i.w <= c.x
         /\ SharedY(c, i) = 0 <=> c.y + c.h <= i.y \/ i.y + i.h <= c.y
         /\ SharedZ(c, i) = 0 <=> c.z + c.d <= i.z \/ i.z + i.d <= c.z
         /\ RestsOn(c, i) \in Nat
<1>1. SharedX(c, i) \in Nat /\ (SharedX(c, i) = 0 <=> c.x + c.w <= i.x \/ i.x + i.w <= c.x)
  BY SharedIs DEF IsBox, SharedX
<1>2. SharedY(c, i) \in Nat /\ (SharedY(c, i) = 0 <=> c.y + c.h <= i.y \/ i.y + i.h <= c.y)
  BY SharedIs DEF IsBox, SharedY
<1>3. SharedZ(c, i) \in Nat /\ (SharedZ(c, i) = 0 <=> c.z + c.d <= i.z \/ i.z + i.d <= c.z)
  BY SharedIs DEF IsBox, SharedZ
<1>4. \A m, n \in Nat : m * n \in Nat
  OBVIOUS
<1>5. RestsOn(c, i) \in Nat
  BY <1>1, <1>3, <1>4 DEF RestsOn
<1> QED
  BY <1>1, <1>2, <1>3, <1>5

LEMMA SeparatedBoxes ==
  ASSUME NEW c, IsBox(c), NEW i, IsBox(i), Separated(c, i)
  PROVE  Separated(i, c) /\ c # i
  BY DEF Separated, IsBox

LEMMA AlikeBoxes ==
  ASSUME NEW b, NEW c, IsBox(c), Alike(b, c)
  PROVE  /\ IsBox(b)
         /\ \A truck : InsideTruck(c, truck) => InsideTruck(b, truck)
         /\ \A i, k : Alike(k, i) =>
              /\ RestsOn(b, k) = RestsOn(c, i) /\ RestsOn(k, b) = RestsOn(i, c)
              /\ Separated(c, i) => Separated(b, k)
              /\ SharedX(b, k) = SharedX(c, i) /\ SharedY(b, k) = SharedY(c, i)
  BY DEF Alike, IsBox, InsideTruck, RestsOn, SharedX, SharedY, SharedZ, Separated

\* What stands in no deeper place than another box does not bar its way, if the
\* two are apart.
LEMMA NotInTheWay ==
  ASSUME NEW c, IsBox(c), NEW i, IsBox(i), Separated(c, i), i.z <= c.z
  PROVE  i.z + i.d <= c.z + c.d \/ SharedX(c, i) = 0 \/ SharedY(c, i) = 0
  BY BoxesShare DEF Separated, IsBox
-------------------------------------------------------------------------------
(* The sums of the model, which add terms of the elements, as sums of        *)
(* functions.                                                                *)

LEMMA AreasAdd ==
  ASSUME NEW c, NEW S, IsFiniteSet(S), NEW f, \A i \in S : f[i] = RestsOn(c, i)
  PROVE  MapThenSumSet(LAMBDA i : RestsOn(c, i), S) = Sum(f, S)
<1> DEFINE Adds(g) == [s \in SUBSET S |-> IF s = {} THEN 0
                                         ELSE RestsOn(c, Pick(s)) + g[s \ {Pick(s)}]]
           Sums(g) == [s \in SUBSET S |-> IF s = {} THEN 0 ELSE f[Pick(s)] + g[s \ {Pick(s)}]]
<1>1. MapThenSumSet(LAMBDA i : RestsOn(c, i), S) = (CHOOSE g : g = Adds(g))[S]
  BY DEF MapThenSumSet, MapThenFoldSet, Pick
<1>2. \A s \in SUBSET S : s # {} => f[Pick(s)] = RestsOn(c, Pick(s))
  BY PickIn
<1>3. \A g : Adds(g) = Sums(g)
  BY <1>2
<1>4. \A g : SumsUp(g, f, S) <=> g = Sums(g)
  BY DEF SumsUp
<1> HIDE DEF Adds, Sums
<1>5. PICK g : SumsUp(g, f, S) /\ Sum(f, S) = g[S]
  BY SumsExist, SumIsSums, Zenon
<1>6. g = Adds(g)
  BY <1>3, <1>4, <1>5
<1> DEFINE h == CHOOSE k : k = Adds(k)
<1>7. h = Adds(h)
  BY <1>6
<1> HIDE DEF h
<1>8. SumsUp(h, f, S)
  BY <1>3, <1>4, <1>7
<1>9. h[S] = g[S]
  BY <1>5, <1>8, SumsAgree
<1> QED
  BY <1>1, <1>5, <1>9 DEF h

LEMMA WeightsAdd ==
  ASSUME NEW S, IsFiniteSet(S), NEW f, \A i \in S : f[i] = i.weight
  PROVE  MapThenSumSet(LAMBDA c : c.weight, S) = Sum(f, S)
<1> DEFINE Adds(g) == [s \in SUBSET S |-> IF s = {} THEN 0
                                         ELSE Pick(s).weight + g[s \ {Pick(s)}]]
           Sums(g) == [s \in SUBSET S |-> IF s = {} THEN 0 ELSE f[Pick(s)] + g[s \ {Pick(s)}]]
<1>1. MapThenSumSet(LAMBDA c : c.weight, S) = (CHOOSE g : g = Adds(g))[S]
  BY DEF MapThenSumSet, MapThenFoldSet, Pick
<1>2. \A s \in SUBSET S : s # {} => f[Pick(s)] = Pick(s).weight
  BY PickIn
<1>3. \A g : Adds(g) = Sums(g)
  BY <1>2
<1>4. \A g : SumsUp(g, f, S) <=> g = Sums(g)
  BY DEF SumsUp
<1> HIDE DEF Adds, Sums
<1>5. PICK g : SumsUp(g, f, S) /\ Sum(f, S) = g[S]
  BY SumsExist, SumIsSums, Zenon
<1>6. g = Adds(g)
  BY <1>3, <1>4, <1>5
<1> DEFINE h == CHOOSE k : k = Adds(k)
<1>7. h = Adds(h)
  BY <1>6
<1> HIDE DEF h
<1>8. SumsUp(h, f, S)
  BY <1>3, <1>4, <1>7
<1>9. h[S] = g[S]
  BY <1>5, <1>8, SumsAgree
<1> QED
  BY <1>1, <1>5, <1>9 DEF h

LEMMA VolumesAdd ==
  ASSUME NEW S, IsFiniteSet(S), NEW f, \A i \in S : f[i] = i.w * i.h * i.d
  PROVE  MapThenSumSet(LAMBDA c : c.w * c.h * c.d, S) = Sum(f, S)
<1> DEFINE Adds(g) == [s \in SUBSET S |-> IF s = {} THEN 0
                                         ELSE Pick(s).w * Pick(s).h * Pick(s).d + g[s \ {Pick(s)}]]
           Sums(g) == [s \in SUBSET S |-> IF s = {} THEN 0 ELSE f[Pick(s)] + g[s \ {Pick(s)}]]
<1>1. MapThenSumSet(LAMBDA c : c.w * c.h * c.d, S) = (CHOOSE g : g = Adds(g))[S]
  BY DEF MapThenSumSet, MapThenFoldSet, Pick
<1>2. \A s \in SUBSET S : s # {} => f[Pick(s)] = Pick(s).w * Pick(s).h * Pick(s).d
  BY PickIn
<1>3. \A g : Adds(g) = Sums(g)
  BY <1>2
<1>4. \A g : SumsUp(g, f, S) <=> g = Sums(g)
  BY DEF SumsUp
<1> HIDE DEF Adds, Sums
<1>5. PICK g : SumsUp(g, f, S) /\ Sum(f, S) = g[S]
  BY SumsExist, SumIsSums, Zenon
<1>6. g = Adds(g)
  BY <1>3, <1>4, <1>5
<1> DEFINE h == CHOOSE k : k = Adds(k)
<1>7. h = Adds(h)
  BY <1>6
<1> HIDE DEF h
<1>8. SumsUp(h, f, S)
  BY <1>3, <1>4, <1>7
<1>9. h[S] = g[S]
  BY <1>5, <1>8, SumsAgree
<1> QED
  BY <1>1, <1>5, <1>9 DEF h
-------------------------------------------------------------------------------
(* Arrangements: a new box is appended, and the loads are computed anew.     *)

IsSequence(a) == Len(a) \in Nat /\ a = [k \in 1..Len(a) |-> a[k]]

LEMMA FunctionsAreSequences ==
  ASSUME NEW n \in Nat, NEW a, a = [k \in 1..n |-> a[k]]
  PROVE  a \in Seq({a[k] : k \in 1..n}) /\ Len(a) = n /\ IsSequence(a)
<1> DEFINE S == {a[k] : k \in 1..n}
<1>1. \A R : \A m \in Nat : [1..m -> R] \subseteq Seq(R)
  BY SeqDef, Zenon
<1>2. a \in [1..n -> S]
  OBVIOUS
<1> HIDE DEF S
<1>3. a \in Seq(S)
  BY <1>1, <1>2
<1>4. Len(a) \in Nat /\ DOMAIN a = 1..Len(a)
  BY <1>3, LenProperties
<1>5. Len(a) = n
  BY <1>4
<1> QED
  BY <1>3, <1>5 DEF S, IsSequence

LEMMA Appended ==
  ASSUME NEW a, IsSequence(a), NEW c
  PROVE  /\ IsSequence(Append(a, c)) /\ Len(Append(a, c)) = Len(a) + 1
         /\ \A k \in 1..Len(a) : Append(a, c)[k] = a[k]
         /\ Append(a, c)[Len(a) + 1] = c
<1> DEFINE S == {a[k] : k \in 1..Len(a)} \cup {c}
<1>1. \A R : \A m \in Nat : [1..m -> R] \subseteq Seq(R)
  BY SeqDef, Zenon
<1>2. a \in [1..Len(a) -> S]
  BY DEF IsSequence
<1>3. c \in S
  OBVIOUS
<1> HIDE DEF S
<1>4. a \in Seq(S)
  BY <1>1, <1>2 DEF IsSequence
<1>5. /\ Append(a, c) \in Seq(S) /\ Len(Append(a, c)) = Len(a) + 1
      /\ \A k \in 1..Len(a) : Append(a, c)[k] = a[k]
      /\ Append(a, c)[Len(a) + 1] = c
  BY <1>3, <1>4, AppendProperties
<1>6. PICK b : b = Append(a, c)
  OBVIOUS
<1>7. b \in Seq(S) /\ Len(b) = Len(a) + 1
  BY <1>5, <1>6
<1>8. b \in [1..Len(b) -> S] /\ Len(b) \in Nat
  BY <1>7, LenProperties
<1>9. IsSequence(b)
  BY <1>8 DEF IsSequence
<1> QED
  BY <1>5, <1>6, <1>9

\* RecomputeSupportedWeights changes what the boxes carry and nothing else.
LEMMA Recomputed ==
  ASSUME NEW a, IsSequence(a), \A k \in 1..Len(a) : IsBox(a[k])
  PROVE  LET r == RecomputeSupportedWeights(a)
         IN  /\ IsSequence(r) /\ Len(r) = Len(a)
             /\ \A k \in 1..Len(a) : Alike(r[k], a[k])
<1> DEFINE r == RecomputeSupportedWeights(a)
<1>1. DOMAIN a = 1..Len(a)
  BY DEF IsSequence
<1>2. r = [k \in 1..Len(a) |-> r[k]]
  BY <1>1 DEF RecomputeSupportedWeights
<1>3. \A k \in 1..Len(a) : \E load : r[k] = [a[k] EXCEPT !.carried = load]
  BY <1>1 DEF RecomputeSupportedWeights
<1> HIDE DEF r
<1>4. \A k \in 1..Len(a) : Alike(r[k], a[k])
  BY <1>3 DEF IsBox, Alike, BoxFields
<1>5. IsSequence(r) /\ Len(r) = Len(a)
  BY <1>2, FunctionsAreSequences DEF IsSequence
<1> QED
  BY <1>4, <1>5 DEF r

BoxesAt(a, K) == {a[m] : m \in K}

\* Boxes of which no two are in one place.
IsArrangement(a) ==
  /\ IsSequence(a)
  /\ \A k \in 1..Len(a) : IsBox(a[k])
  /\ \A k, m \in 1..Len(a) : k # m => Separated(a[k], a[m])

LEMMA Arranged ==
  ASSUME NEW a, IsArrangement(a)
  PROVE  /\ Len(a) \in Nat /\ DOMAIN a = 1..Len(a) /\ IsFiniteSet(1..Len(a))
         /\ Items(a) = {a[k] : k \in 1..Len(a)} /\ Items(a) = BoxesAt(a, 1..Len(a))
         /\ \A k, m \in 1..Len(a) : a[k] = a[m] => k = m
<1>1. Len(a) \in Nat /\ DOMAIN a = 1..Len(a)
  BY DEF IsArrangement, IsSequence
<1>2. IsFiniteSet(1..Len(a))
  BY <1>1, FS_Interval
<1>3. \A k, m \in 1..Len(a) : k # m => a[k] # a[m]
  BY SeparatedBoxes DEF IsArrangement
<1> QED
  BY <1>1, <1>2, <1>3 DEF Items, ToSet, BoxesAt

\* What supports a box, place by place.
LEMMA AreaByPlace ==
  ASSUME NEW a, IsArrangement(a), NEW c, IsBox(c), c.y # 0, NEW K \in SUBSET (1..Len(a))
  PROVE  LET on == {m \in K : RestsOn(c, a[m]) > 0}
             rests == [m \in 1..Len(a) |-> RestsOn(c, a[m])]
         IN  SupportArea(c, BoxesAt(a, K)) = Sum(rests, on)
<1> DEFINE on == {m \in K : RestsOn(c, a[m]) > 0}
           rests == [m \in 1..Len(a) |-> RestsOn(c, a[m])]
           boxes == {a[m] : m \in on}
           areas == [i \in boxes |-> RestsOn(c, i)]
<1>1. on \subseteq 1..Len(a) /\ IsFiniteSet(on)
  BY Arranged, FS_Subset
<1>2. \A m \in on : rests[m] \in Int /\ areas[a[m]] = rests[m]
  <2> SUFFICES ASSUME NEW m \in on
               PROVE  rests[m] \in Int /\ areas[a[m]] = rests[m]
    OBVIOUS
  <2>1. m \in 1..Len(a) /\ a[m] \in boxes
    BY <1>1
  <2>2. areas[a[m]] = RestsOn(c, a[m]) /\ rests[m] = RestsOn(c, a[m])
    BY <2>1
  <2>3. RestsOn(c, a[m]) \in Nat
    BY <2>1, BoxesShare DEF IsArrangement
  <2> QED
    BY <2>2, <2>3
<1>3. \A k, m \in on : a[k] = a[m] => k = m
  BY <1>1, Arranged
<1>4. \A i \in boxes : areas[i] = RestsOn(c, i)
  OBVIOUS
<1>5. Supports(c, BoxesAt(a, K)) = boxes
  BY DEF Supports, BoxesAt
<1> HIDE DEF rests, areas, on
<1>6. IsFiniteSet(boxes) /\ Sum(areas, boxes) = Sum(rests, on)
  <2> DEFINE b == [m \in on |-> a[m]]
  <2>1. b \in Bijection(on, boxes)
    BY <1>3 DEF Bijection, Injection, IsInjective, Surjection
  <2>2. \A m \in on : rests[m] \in Int /\ areas[b[m]] = rests[m]
    BY <1>2
  <2> HIDE DEF b, boxes
  <2>3. \A f, g : (\A m \in on : f[m] \in Int /\ g[b[m]] = f[m])
                  => IsFiniteSet(boxes) /\ Sum(g, boxes) = Sum(f, on)
    BY <1>1, <2>1, SumMapped
  <2> QED
    BY <2>2, <2>3
<1>7. SupportArea(c, BoxesAt(a, K)) = MapThenSumSet(LAMBDA i : RestsOn(c, i), boxes)
  BY <1>5 DEF SupportArea
<1> HIDE DEF boxes
<1>8. MapThenSumSet(LAMBDA i : RestsOn(c, i), boxes) = Sum(areas, boxes)
  BY <1>4, <1>6, AreasAdd
<1> QED
  BY <1>6, <1>7, <1>8 DEF on, rests

LEMMA WeightByPlace ==
  ASSUME NEW a, IsArrangement(a)
  PROVE  Weight(a) = Sum([m \in 1..Len(a) |-> a[m].weight], 1..Len(a)) /\ Weight(a) \in Nat
<1> DEFINE places == 1..Len(a)
           weights == [m \in 1..Len(a) |-> a[m].weight]
           boxes == {a[m] : m \in places}
           byBox == [i \in boxes |-> i.weight]
           b == [m \in places |-> a[m]]
<1>1. \A m \in places : weights[m] \in Nat /\ weights[m] \in Int /\ byBox[b[m]] = weights[m]
  BY DEF IsArrangement, IsBox
<1>2. \A i \in boxes : byBox[i] = i.weight
  OBVIOUS
<1>3. Items(a) = boxes /\ IsFiniteSet(places)
  BY Arranged
<1>4. b \in Bijection(places, boxes)
  BY Arranged DEF Bijection, Injection, IsInjective, Surjection
<1>5. Weight(a) = MapThenSumSet(LAMBDA c : c.weight, boxes)
  BY <1>3 DEF Weight
<1> HIDE DEF weights, byBox, b, boxes, places
<1>6. \A f, g : (\A m \in places : f[m] \in Int /\ g[b[m]] = f[m])
                => IsFiniteSet(boxes) /\ Sum(g, boxes) = Sum(f, places)
  BY <1>3, <1>4, SumMapped
<1>7. IsFiniteSet(boxes) /\ Sum(byBox, boxes) = Sum(weights, places)
  BY <1>1, <1>6
<1>8. MapThenSumSet(LAMBDA c : c.weight, boxes) = Sum(byBox, boxes)
  BY <1>2, <1>7, WeightsAdd
<1>9. Sum(weights, places) \in Nat
  BY <1>1, <1>3, SumType
<1> QED
  BY <1>5, <1>7, <1>8, <1>9 DEF weights, places

LEMMA VolumeIsNatural ==
  ASSUME NEW a, IsArrangement(a)
  PROVE  UsedVolume(a) \in Nat
<1> DEFINE S == Items(a)
           byBox == [i \in S |-> i.w * i.h * i.d]
<1>1. IsFiniteSet(S)
  <2> DEFINE b == [m \in 1..Len(a) |-> a[m]]
  <2>1. b \in Surjection(1..Len(a), S)
    BY Arranged DEF Surjection
  <2> HIDE DEF S, b
  <2> QED
    BY <2>1, Arranged, FS_Surjection
<1>2. \A m, n \in Nat : m * n \in Nat
  OBVIOUS
<1>3. \A i \in S : i.w \in Nat /\ i.h \in Nat /\ i.d \in Nat
  BY Arranged DEF IsArrangement, IsBox
<1>4. \A i \in S : i.w * i.h * i.d \in Nat
  BY <1>2, <1>3
<1>5. \A i \in S : byBox[i] = i.w * i.h * i.d /\ byBox[i] \in Nat
  BY <1>4
<1> HIDE DEF S, byBox
<1>6. MapThenSumSet(LAMBDA c : c.w * c.h * c.d, S) = Sum(byBox, S)
  BY <1>1, <1>5, VolumesAdd
<1>7. Sum(byBox, S) \in Nat
  BY <1>1, <1>5, SumType
<1> QED
  BY <1>6, <1>7 DEF UsedVolume, S

\* A box keeps its support when others are added, and whatever any carry.
LEMMA SupportGrows ==
  ASSUME NEW a, IsArrangement(a), NEW b, IsArrangement(b), Len(a) <= Len(b),
         \A m \in 1..Len(a) : Alike(b[m], a[m]),
         NEW c, IsBox(c), NEW e, Alike(e, c),
         NEW K \in SUBSET (1..Len(a)), NEW L \in SUBSET (1..Len(b)), K \subseteq L,
         HasMinimumSupport(c, BoxesAt(a, K))
  PROVE  HasMinimumSupport(e, BoxesAt(b, L))
<1>1. IsBox(e) /\ e.y = c.y /\ e.w = c.w /\ e.d = c.d
  BY AlikeBoxes DEF Alike
<1>2. CASE c.y = 0
  BY <1>1, <1>2 DEF HasMinimumSupport, SupportArea
<1>3. CASE c.y # 0
  <2> DEFINE onA == {m \in K : RestsOn(c, a[m]) > 0}
             onB == {m \in L : RestsOn(e, b[m]) > 0}
             restsA == [m \in 1..Len(a) |-> RestsOn(c, a[m])]
             restsB == [m \in 1..Len(b) |-> RestsOn(e, b[m])]
  <2>1. SupportArea(c, BoxesAt(a, K)) = Sum(restsA, onA)
    BY <1>3, AreaByPlace
  <2>2. SupportArea(e, BoxesAt(b, L)) = Sum(restsB, onB)
    BY <1>1, <1>3, AreaByPlace
  <2>3. Len(a) \in Nat /\ Len(b) \in Nat
    BY Arranged
  <2>4. \A m \in 1..Len(a) : m \in 1..Len(b) /\ restsB[m] = restsA[m]
    BY <2>3, AlikeBoxes
  <2>5. onA \subseteq onB /\ IsFiniteSet(onA) /\ IsFiniteSet(onB)
    <3>1. onA \subseteq onB
      BY <2>4
    <3>2. IsFiniteSet(onB)
      BY Arranged, FS_Subset
    <3> QED
      BY <3>1, <3>2, FS_Subset
  <2>6. \A m \in onB : restsB[m] \in Nat
    BY <1>1, BoxesShare DEF IsArrangement
  <2>7. \A m \in onA : restsA[m] = restsB[m]
    BY <2>4
  <2> HIDE DEF onA, onB, restsA, restsB
  <2>8. Sum(restsA, onA) = Sum(restsB, onA)
    BY <2>5, <2>7, SumSame
  <2>9. Sum(restsB, onA) <= Sum(restsB, onB)
    BY <2>5, <2>6, SumOfPart
  <2>10. Sum(restsB, onA) \in Nat /\ Sum(restsB, onB) \in Nat
    BY <2>5, <2>6, SumType
  <2>11. 6 * e.w * e.d \in Nat
    <3>1. \A m, n \in Nat : 6 * m * n \in Nat
      OBVIOUS
    <3> QED
      BY <1>1, <3>1 DEF IsBox
  <2>12. 10 * Sum(restsA, onA) >= 6 * e.w * e.d
    BY <1>1, <2>1 DEF HasMinimumSupport
  <2>13. 10 * Sum(restsB, onB) >= 6 * e.w * e.d
    BY <2>8, <2>9, <2>10, <2>11, <2>12
  <2> QED
    BY <2>2, <2>13 DEF HasMinimumSupport
<1> QED
  BY <1>2, <1>3

\* A load: what the properties say of every arrangement, by places.
Loaded(a, j) ==
  /\ IsArrangement(a)
  /\ \A k \in 1..Len(a) :
       /\ a[k].pkg \in Packing(j)
       /\ InsideTruck(a[k], j.truck)
       /\ HasMinimumSupport(a[k], BoxesAt(a, (1..Len(a)) \ {k}))
       /\ PathClear(a[k], j.truck, BoxesAt(a, 1..(k - 1)))
  /\ \A k, m \in 1..Len(a) : a[k].pkg = a[m].pkg => k = m
  /\ Weight(a) <= j.truck.capacity

\* A box that may be loaded next.
MayFollow(c, a, j) ==
  /\ IsBox(c) /\ c.pkg \in Packing(j)
  /\ InsideTruck(c, j.truck)
  /\ \A m \in 1..Len(a) : Separated(c, a[m]) /\ c.pkg # a[m].pkg
  /\ HasMinimumSupport(c, Items(a))
  /\ PathClear(c, j.truck, Items(a))
  /\ Weight(a) + c.weight <= j.truck.capacity

With(a, c) == RecomputeSupportedWeights(Append(a, c))

LEMMA PathStaysClear ==
  ASSUME NEW c, IsBox(c), NEW e, Alike(e, c), NEW a, NEW b, NEW K,
         \A m \in K : IsBox(a[m]) /\ Alike(b[m], a[m]),
         NEW truck, PathClear(c, truck, BoxesAt(a, K))
  PROVE  PathClear(e, truck, BoxesAt(b, K))
<1>1. e.z = c.z /\ e.d = c.d
  BY DEF Alike
<1>2. \A m \in K : /\ b[m].z = a[m].z /\ b[m].d = a[m].d
                   /\ SharedX(e, b[m]) = SharedX(c, a[m]) /\ SharedY(e, b[m]) = SharedY(c, a[m])
  BY AlikeBoxes DEF Alike
<1> QED
  BY <1>1, <1>2 DEF PathClear, BoxesAt

LEMMA ArrangedWith ==
  ASSUME NEW a, IsArrangement(a), NEW c, IsBox(c), \A m \in 1..Len(a) : Separated(c, a[m])
  PROVE  /\ IsArrangement(With(a, c)) /\ Len(With(a, c)) = Len(a) + 1
         /\ \A k \in 1..Len(a) : Alike(With(a, c)[k], a[k])
         /\ Alike(With(a, c)[Len(a) + 1], c)
<1> DEFINE n == Len(a)
<1>1. PICK b : b = Append(a, c)
  OBVIOUS
<1>2. PICK r : r = With(a, c)
  OBVIOUS
<1>3. n \in Nat
  BY Arranged
<1>4. IsSequence(b) /\ Len(b) = n + 1 /\ (\A k \in 1..n : b[k] = a[k]) /\ b[n + 1] = c
  BY <1>1, Appended DEF IsArrangement
<1>5. \A k \in 1..(n + 1) : k \in 1..n \/ k = n + 1
  BY <1>3
<1>6. \A k \in 1..(n + 1) : IsBox(b[k])
  BY <1>4, <1>5 DEF IsArrangement
<1>7. IsSequence(r) /\ Len(r) = n + 1 /\ \A k \in 1..(n + 1) : Alike(r[k], b[k])
  BY <1>1, <1>2, <1>4, <1>6, Recomputed DEF With
<1>8. 1..n \subseteq 1..(n + 1) /\ n + 1 \in 1..(n + 1)
  BY <1>3
<1>9. (\A k \in 1..n : Alike(r[k], a[k])) /\ Alike(r[n + 1], c)
  BY <1>4, <1>7, <1>8
<1>10. \A k \in 1..(n + 1) : IsBox(r[k])
  BY <1>6, <1>7, AlikeBoxes
<1>11. \A k, m \in 1..(n + 1) : k # m => Separated(b[k], b[m])
  <2>1. \A m \in 1..n : Separated(a[m], c)
    BY SeparatedBoxes DEF IsArrangement
  <2> QED
    BY <1>4, <1>5, <2>1 DEF IsArrangement
<1>12. \A k, m \in 1..(n + 1) : k # m => Separated(r[k], r[m])
  BY <1>6, <1>7, <1>11, AlikeBoxes
<1> QED
  BY <1>2, <1>7, <1>9, <1>10, <1>12 DEF IsArrangement

LEMMA WeightWith ==
  ASSUME NEW a, IsArrangement(a), NEW c, IsBox(c), \A m \in 1..Len(a) : Separated(c, a[m])
  PROVE  Weight(With(a, c)) = Weight(a) + c.weight
<1> DEFINE n == Len(a)
           S == 1..n
           T == 1..(n + 1)
<1>1. PICK r : r = With(a, c)
  OBVIOUS
<1> DEFINE f == [m \in 1..Len(a) |-> a[m].weight]
           g == [m \in 1..Len(r) |-> r[m].weight]
<1>2. IsArrangement(r) /\ Len(r) = n + 1 /\ (\A k \in S : Alike(r[k], a[k])) /\ Alike(r[n + 1], c)
  BY <1>1, ArrangedWith
<1>3. n \in Nat /\ IsFiniteSet(S)
  BY Arranged
<1>4. T = S \cup {n + 1} /\ n + 1 \notin S
  BY <1>3
<1>5. \A m \in S : f[m] = g[m]
  BY <1>2, <1>4 DEF Alike
<1>6. \A m \in T : g[m] \in Int
  BY <1>2 DEF IsArrangement, IsBox
<1>7. g[n + 1] = c.weight
  BY <1>2, <1>4 DEF Alike
<1>8. Weight(a) = Sum(f, S) /\ Weight(a) \in Nat /\ c.weight \in Nat
  BY WeightByPlace DEF IsBox
<1>9. Weight(r) = Sum(g, T)
  BY <1>2, WeightByPlace
<1> HIDE DEF f, g, S, T
<1>10. Sum(f, S) = Sum(g, S)
  BY <1>3, <1>5, SumSame
<1>11. Sum(g, S \cup {n + 1}) = g[n + 1] + Sum(g, S)
  BY <1>3, <1>4, <1>6, SumAdd
<1> QED
  BY <1>1, <1>4, <1>7, <1>8, <1>9, <1>10, <1>11

LEMMA LoadedWith ==
  ASSUME NEW j, NEW a, Loaded(a, j), NEW c, MayFollow(c, a, j)
  PROVE  Loaded(With(a, c), j)
<1> DEFINE n == Len(a)
<1>1. PICK r : r = With(a, c)
  OBVIOUS
<1>2. IsArrangement(a) /\ IsBox(c) /\ \A m \in 1..n : Separated(c, a[m])
  BY DEF Loaded, MayFollow
<1>3. IsArrangement(r) /\ Len(r) = n + 1 /\ (\A k \in 1..n : Alike(r[k], a[k])) /\ Alike(r[n + 1], c)
  BY <1>1, <1>2, ArrangedWith
<1>4. n \in Nat /\ Items(a) = BoxesAt(a, 1..n)
  BY <1>2, Arranged
<1>5. \A k \in 1..(n + 1) : k \in 1..n \/ k = n + 1
  BY <1>4
<1>6. 1..n \subseteq 1..(n + 1) /\ n + 1 \notin 1..n
  BY <1>4
<1>7. Weight(r) <= j.truck.capacity
  BY <1>1, <1>2, WeightWith DEF MayFollow
<1>8. (\A k \in 1..n : r[k].pkg = a[k].pkg) /\ r[n + 1].pkg = c.pkg
  BY <1>3 DEF Alike
<1>9. \A k, m \in 1..(n + 1) : r[k].pkg = r[m].pkg => k = m
  BY <1>5, <1>8 DEF Loaded, MayFollow
<1>10. ASSUME NEW k \in 1..(n + 1)
       PROVE  r[k].pkg \in Packing(j) /\ InsideTruck(r[k], j.truck)
  <2>1. CASE k \in 1..n
    BY <1>2, <1>3, <1>8, <2>1, AlikeBoxes DEF Loaded, IsArrangement
  <2>2. CASE k = n + 1
    BY <1>2, <1>3, <1>8, <2>2, AlikeBoxes DEF MayFollow
  <2> QED
    BY <1>5, <2>1, <2>2
<1>11. ASSUME NEW k \in 1..(n + 1)
       PROVE  HasMinimumSupport(r[k], BoxesAt(r, (1..(n + 1)) \ {k}))
  <2> DEFINE L == (1..(n + 1)) \ {k}
  <2>1. L \in SUBSET (1..Len(r)) /\ Len(a) <= Len(r)
    BY <1>3, <1>4
  <2>2. CASE k \in 1..n
    <3> DEFINE K == (1..n) \ {k}
    <3>1. K \in SUBSET (1..Len(a)) /\ K \subseteq L
      BY <1>6
    <3>2. HasMinimumSupport(a[k], BoxesAt(a, K))
      BY <2>2 DEF Loaded
    <3>3. IsBox(a[k]) /\ Alike(r[k], a[k])
      BY <1>2, <1>3, <2>2 DEF IsArrangement
    <3> HIDE DEF K, L
    <3>4. HasMinimumSupport(r[k], BoxesAt(r, L))
      BY <1>2, <1>3, <2>1, <3>1, <3>2, <3>3, SupportGrows
    <3> QED
      BY <3>4 DEF L
  <2>3. CASE k = n + 1
    <3> DEFINE K == 1..n
    <3>1. K \in SUBSET (1..Len(a)) /\ K \subseteq L
      BY <1>6, <2>3
    <3>2. HasMinimumSupport(c, BoxesAt(a, K))
      BY <1>4 DEF MayFollow
    <3>3. Alike(r[k], c)
      BY <1>3, <2>3
    <3> HIDE DEF K, L
    <3>4. HasMinimumSupport(r[k], BoxesAt(r, L))
      BY <1>2, <1>3, <2>1, <3>1, <3>2, <3>3, SupportGrows
    <3> QED
      BY <3>4 DEF L
  <2> QED
    BY <1>5, <2>2, <2>3
<1>12. ASSUME NEW k \in 1..(n + 1)
       PROVE  PathClear(r[k], j.truck, BoxesAt(r, 1..(k - 1)))
  <2> DEFINE K == 1..(k - 1)
  <2>1. \A m \in K : IsBox(a[m]) /\ Alike(r[m], a[m])
    BY <1>2, <1>3, <1>4 DEF IsArrangement
  <2>2. CASE k \in 1..n
    <3>1. PathClear(a[k], j.truck, BoxesAt(a, K)) /\ IsBox(a[k]) /\ Alike(r[k], a[k])
      BY <1>2, <1>3, <2>2 DEF Loaded, IsArrangement
    <3> HIDE DEF K
    <3>2. PathClear(r[k], j.truck, BoxesAt(r, K))
      BY <2>1, <3>1, PathStaysClear
    <3> QED
      BY <3>2 DEF K
  <2>3. CASE k = n + 1
    <3>1. K = 1..n
      BY <1>4, <2>3
    <3>2. PathClear(c, j.truck, BoxesAt(a, K)) /\ Alike(r[k], c)
      BY <1>3, <1>4, <2>3, <3>1 DEF MayFollow
    <3> HIDE DEF K
    <3>3. PathClear(r[k], j.truck, BoxesAt(r, K))
      BY <1>2, <2>1, <3>2, PathStaysClear
    <3> QED
      BY <3>3 DEF K
  <2> QED
    BY <1>5, <2>2, <2>3
<1> QED
  BY <1>1, <1>3, <1>7, <1>9, <1>10, <1>11, <1>12 DEF Loaded
-------------------------------------------------------------------------------
(* The heuristics.                                                           *)

LEMMA TurnsAreBoxes ==
  ASSUME NEW p, p.l \in Nat \ {0}, p.w \in Nat \ {0}, p.h \in Nat \ {0},
         NEW mayTurn, NEW o \in Orientations(p, mayTurn)
  PROVE  o.w \in Nat \ {0} /\ o.h \in Nat \ {0} /\ o.d \in Nat \ {0}
<1> DEFINE least == Min({p.l, p.w, p.h})
           most == Max({p.l, p.w, p.h})
<1>1. /\ most \in {p.l, p.w, p.h} /\ least \in {p.l, p.w, p.h}
      /\ \A y \in {p.l, p.w, p.h} : least <= y /\ y <= most
  <2>1. p.l \in Int /\ p.w \in Int /\ p.h \in Int
    OBVIOUS
  <2>2. \A a, b, c \in Int :
          /\ Max({a, b, c}) \in {a, b, c} /\ Min({a, b, c}) \in {a, b, c}
          /\ \A y \in {a, b, c} : Min({a, b, c}) <= y /\ y <= Max({a, b, c})
    BY OfThree, Zenon
  <2> QED
    BY <2>1, <2>2, Zenon
<1>2. Middle(p) = p.l + p.w + p.h - most - least
  BY DEF Middle
<1>3. FlatOrientations(p) = {OnEdge(Middle(p), most, least), OnEdge(least, most, Middle(p))}
  BY DEF FlatOrientations
<1> HIDE DEF least, most
<1>4. least \in Nat \ {0} /\ most \in Nat \ {0} /\ Middle(p) \in Nat \ {0}
  <2>1. ASSUME NEW a \in Nat \ {0}, NEW b \in Nat \ {0}, NEW c \in Nat \ {0}, NEW n, NEW m,
               m = a \/ m = b \/ m = c, n = a \/ n = b \/ n = c,
               n <= a, n <= b, n <= c, a <= m, b <= m, c <= m
        PROVE  n \in Nat \ {0} /\ m \in Nat \ {0} /\ a + b + c - m - n \in Nat \ {0}
    BY <2>1
  <2> QED
    BY <1>1, <1>2, <2>1
<1>5. CASE o \in FlatOrientations(p)
  BY <1>3, <1>4, <1>5 DEF OnEdge
<1>6. CASE o \notin FlatOrientations(p)
  <2>1. o \in {Turned(p.w, p.h, p.l), BaseOrientations(p)[1], BaseOrientations(p)[2]}
    BY <1>6 DEF Orientations
  <2>2. \E a, b, c \in {p.l, p.w, p.h} : o = Turned(a, b, c)
    BY <2>1 DEF BaseOrientations
  <2> QED
    BY <2>2 DEF Turned
<1> QED
  BY <1>5, <1>6

LEMMA BoxAtPoint ==
  ASSUME NEW p, NEW pkg, pkg.weight \in Nat, NEW x \in Int, NEW y \in Int, NEW z \in Int,
         NEW o, o.w \in Nat \ {0}, o.h \in Nat \ {0}, o.d \in Nat \ {0}
  PROVE  LET c == PlacementAt(p, pkg, x, y, z, o)
         IN  /\ IsBox(c) /\ c.pkg = p /\ c.weight = pkg.weight
             /\ c.x = x /\ c.y = y /\ c.z = z /\ c.w = o.w /\ c.h = o.h /\ c.d = o.d
  BY DEF PlacementAt, IsBox, BoxFields

LEMMA CargoIs ==
  ASSUME NEW j \in Jobs
  PROVE  /\ j.truck.w \in Nat \ {0} /\ j.truck.h \in Nat \ {0} /\ j.truck.l \in Nat \ {0}
         /\ j.truck.capacity \in Nat
         /\ IsFiniteSet(Packing(j)) /\ Packing(j) \subseteq Nat
         /\ \A p \in Packing(j) :
              LET pkg == Data(j, p)
              IN  /\ Code(j, p) \in Nat
                  /\ pkg.l \in Nat \ {0} /\ pkg.w \in Nat \ {0} /\ pkg.h \in Nat \ {0}
                  /\ pkg.weight \in Nat /\ pkg.rank \in 0..MaxRank
<1>1. /\ Packing(j) \subseteq DOMAIN j.cargo \cup DOMAIN j.codes
      /\ \A p \in Packing(j) : Code(j, p) \in DOMAIN j.cargo
  BY DEF Packing, ListedByCodes, Listed, Code
<1>2. PICK m \in Nat, n \in Nat : DOMAIN j.cargo = 1..m /\ DOMAIN j.codes = 1..n
  BY JobsAssumption
<1>3. IsFiniteSet(1..m) /\ IsFiniteSet(1..n)
  BY FS_Interval
<1>4. IsFiniteSet((1..m) \cup (1..n))
  BY <1>3, FS_Union
<1>5. IsFiniteSet(Packing(j)) /\ Packing(j) \subseteq Nat
  BY <1>1, <1>2, <1>4, FS_Subset
<1> QED
  BY <1>1, <1>5, JobsAssumption DEF Data

LEMMA DepthsAreWhole ==
  ASSUME NEW rank \in 0..MaxRank, NEW truck, truck.l \in Nat, NEW depth \in Nat
  PROVE  TargetDepth(rank, MaxRank, truck, depth) \in Int
<1> DEFINE a == (truck.l * (MaxRank - rank)) \div MaxRank
           b == truck.l - depth
<1>1. MaxRank - rank \in Nat
  BY MaxRankAssumption
<1>2. \A m, n \in Nat : m * n \in Nat
  OBVIOUS
<1>3. \A m \in Nat, n \in Nat \ {0} : m \div n \in Int
  OBVIOUS
<1>4. a \in Int
  BY <1>1, <1>2, <1>3, MaxRankAssumption
<1>5. b \in Int
  OBVIOUS
<1>6. TargetDepth(rank, MaxRank, truck, depth) = Min({a, b})
  BY DEF TargetDepth
<1> HIDE DEF a, b
<1> QED
  BY <1>4, <1>5, <1>6, MinOfTwo

LEMMA PointsAreWhole ==
  ASSUME NEW items, \A i \in items : IsBox(i), NEW truck, truck.w \in Int, truck.l \in Int,
         NEW o, o.w \in Int, o.h \in Int, o.d \in Int, NEW target \in Int,
         NEW q \in DensePoints(items, truck, o, target)
  PROVE  q[1] \in Int /\ q[2] \in Int /\ q[3] \in Int
<1> DEFINE Whole(r) == r[1] \in Int /\ r[2] \in Int /\ r[3] \in Int
<1>1. \A v \in Int : Max({0, v}) \in Int
  BY MaxOfTwo
<1>2. \A i \in items : /\ i.x \in Int /\ i.y \in Int /\ i.z \in Int
                       /\ i.w \in Int /\ i.h \in Int /\ i.d \in Int
  BY DEF IsBox
<1>3. \A r \in CornerPoints(items) : Whole(r)
  BY <1>2 DEF CornerPoints
<1>4. \A r \in TopPoints(items, o, target) : Whole(r)
  <2> SUFFICES ASSUME NEW r \in TopPoints(items, o, target)
               PROVE  Whole(r)
    OBVIOUS
  <2> DEFINE X(i) == {i.x, Max({0, i.x + i.w - o.w}), i.x + i.w, Max({0, i.x - o.w})}
             Z(i) == {i.z, i.z + i.d, Max({0, i.z - o.d}), Max({0, i.z + i.d - o.d}), target}
             Tops(i) == {<<x, i.y + i.h, z>> : x \in X(i), z \in Z(i)}
  <2>1. PICK i \in items : r \in Tops(i)
    <3>1. TopPoints(items, o, target) = UNION {Tops(i) : i \in items}
      BY DEF TopPoints
    <3> HIDE DEF Tops
    <3> QED
      BY <3>1
  <2>2. PICK x \in X(i), z \in Z(i) : r = <<x, i.y + i.h, z>>
    BY <2>1
  <2>3. /\ i.x + i.w - o.w \in Int /\ i.x - o.w \in Int /\ i.z - o.d \in Int
        /\ i.z + i.d - o.d \in Int /\ i.x + i.w \in Int /\ i.z + i.d \in Int
        /\ i.y + i.h \in Int
    BY <1>2
  <2>4. /\ Max({0, i.x + i.w - o.w}) \in Int /\ Max({0, i.x - o.w}) \in Int
        /\ Max({0, i.z - o.d}) \in Int /\ Max({0, i.z + i.d - o.d}) \in Int
    BY <1>1, <2>3
  <2> QED
    BY <1>2, <2>2, <2>3, <2>4
<1>5. \A r \in FloorPoints(items, truck, o, target) : Whole(r)
  <2> SUFFICES ASSUME NEW r \in FloorPoints(items, truck, o, target)
               PROVE  Whole(r)
    OBVIOUS
  <2> DEFINE depths == {0, target, truck.l - o.d}
                         \cup UNION {{i.z, i.z + i.d, i.z - o.d, i.z + i.d - o.d} : i \in items}
             Beside(z) == {i \in items : i.y < o.h /\ i.z < z + o.d /\ z < i.z + i.d}
             Widths(z) == {0, truck.w - o.w} \cup UNION {{i.x + i.w, i.x - o.w} : i \in Beside(z)}
  <2>1. \A v \in depths : v \in Int
    BY <1>2
  <2>2. \A z : \A v \in Widths(z) : v \in Int
    BY <1>2
  <2>3. r \in UNION {{<<x, 0, z>> : x \in {Max({0, v}) : v \in Widths(z)}}
                       : z \in {Max({0, v}) : v \in depths}}
    BY DEF FloorPoints
  <2> HIDE DEF depths, Widths
  <2>4. PICK z \in {Max({0, v}) : v \in depths} :
          r \in {<<x, 0, z>> : x \in {Max({0, v}) : v \in Widths(z)}}
    BY <2>3
  <2>5. PICK x \in {Max({0, v}) : v \in Widths(z)} : r = <<x, 0, z>>
    BY <2>4
  <2>6. x \in Int /\ z \in Int
    BY <1>1, <2>1, <2>2
  <2> QED
    BY <2>5, <2>6
<1>6. \A r \in {<<0, 0, 0>>, <<0, 0, target>>} : Whole(r)
  OBVIOUS
<1>7. \/ q \in {<<0, 0, 0>>, <<0, 0, target>>} \/ q \in CornerPoints(items)
      \/ q \in FloorPoints(items, truck, o, target) \/ q \in TopPoints(items, o, target)
  BY DEF DensePoints
<1> QED
  BY <1>3, <1>4, <1>5, <1>6, <1>7

LEMMA CandidatesAreValid ==
  ASSUME NEW j \in Jobs, NEW a, IsArrangement(a), NEW p \in Packing(j), NEW mayTurn,
         NEW c \in DenseCandidates(p, Data(j, p), j.truck, Items(a), mayTurn)
  PROVE  /\ IsBox(c) /\ c.pkg = p /\ c.weight = Data(j, p).weight
         /\ ValidPlacement(c, j.truck, Items(a)) /\ PathClear(c, j.truck, Items(a))
<1> DEFINE pkg == Data(j, p)
           DepthOf(o) == TargetDepth(pkg.rank, MaxRank, j.truck, o.d)
<1>1. /\ ValidPlacement(c, j.truck, Items(a)) /\ PathClear(c, j.truck, Items(a))
      /\ \E o \in Orientations(pkg, mayTurn) : \E q \in DensePoints(Items(a), j.truck, o, DepthOf(o)) :
           c = PlacementAt(p, pkg, q[1], q[2], q[3], o)
  BY DEF DenseCandidates, LoadingFrontier, Reachable
<1>2. PICK o \in Orientations(pkg, mayTurn) : \E q \in DensePoints(Items(a), j.truck, o, DepthOf(o)) :
        c = PlacementAt(p, pkg, q[1], q[2], q[3], o)
  BY <1>1
<1>3. PICK q \in DensePoints(Items(a), j.truck, o, DepthOf(o)) :
        c = PlacementAt(p, pkg, q[1], q[2], q[3], o)
  BY <1>2
<1>4. /\ pkg.l \in Nat \ {0} /\ pkg.w \in Nat \ {0} /\ pkg.h \in Nat \ {0}
      /\ pkg.weight \in Nat /\ pkg.rank \in 0..MaxRank
      /\ j.truck.w \in Int /\ j.truck.l \in Nat
  BY CargoIs
<1>5. \A i \in Items(a) : IsBox(i)
  BY Arranged DEF IsArrangement
<1> HIDE DEF pkg
<1>6. o.w \in Nat \ {0} /\ o.h \in Nat \ {0} /\ o.d \in Nat \ {0}
  BY <1>4, TurnsAreBoxes
<1>7. DepthOf(o) \in Int
  BY <1>4, <1>6, DepthsAreWhole
<1> HIDE DEF DepthOf
<1>8. q[1] \in Int /\ q[2] \in Int /\ q[3] \in Int
  BY <1>4, <1>5, <1>6, <1>7, PointsAreWhole
<1>9. IsBox(c) /\ c.pkg = p /\ c.weight = pkg.weight
  BY <1>4, <1>6, <1>8, <1>3, BoxAtPoint
<1> QED
  BY <1>1, <1>9 DEF pkg

LEMMA PicksAreCandidates ==
  ASSUME NEW engine, NEW S
  PROVE  Picks(engine, S) \subseteq S
  BY DEF Picks, BestFitPicks, WorstFitPicks, DecreasingPicks, FlowPicks

\* What a round of the loop selects may be loaded next.
LEMMA SelectedMayFollow ==
  ASSUME job \in Jobs, pending \subseteq Packing(job), Loaded(placed, job),
         \A m \in 1..Len(placed) : placed[m].pkg \notin pending,
         NEW c \in Selected
  PROVE  MayFollow(c, placed, job) /\ c.pkg \in Light
<1>1. \E p \in Light : c \in FindPlacement(p)
  <2> DEFINE offers == [p \in Light |-> FindPlacement(p)]
  <2>1. \E p \in Light : c \in offers[p]
    BY DEF Selected
  <2> QED
    BY <2>1
<1>2. PICK p \in Light : c \in FindPlacement(p)
  BY <1>1
<1>3. p \in pending /\ p \in Packing(job) /\ WeightAllowed(Weight(placed), Data(job, p).weight, job.truck)
  BY DEF Light
<1>4. PICK t : c \in DenseCandidates(p, Data(job, p), job.truck, Items(placed), t)
  BY <1>2, PicksAreCandidates DEF FindPlacement
<1>5. IsArrangement(placed)
  BY DEF Loaded
<1>6. /\ IsBox(c) /\ c.pkg = p /\ c.weight = Data(job, p).weight
      /\ ValidPlacement(c, job.truck, Items(placed)) /\ PathClear(c, job.truck, Items(placed))
  BY <1>3, <1>4, <1>5, CandidatesAreValid
<1>7. /\ InsideTruck(c, job.truck) /\ HasMinimumSupport(c, Items(placed))
      /\ \A i \in Items(placed) : Separated(c, i)
  BY <1>6 DEF ValidPlacement, HasOverlap
<1>8. \A m \in 1..Len(placed) : Separated(c, placed[m]) /\ c.pkg # placed[m].pkg
  BY <1>3, <1>5, <1>6, <1>7, Arranged
<1>9. Weight(placed) + c.weight <= job.truck.capacity
  BY <1>3, <1>6 DEF WeightAllowed
<1> QED
  BY <1>3, <1>6, <1>7, <1>8, <1>9 DEF MayFollow
-------------------------------------------------------------------------------
(* The frames of the search.                                                 *)

\* A part of the truck.
IsSpace(s, truck) ==
  /\ s.x \in Int /\ s.y \in Int /\ s.z \in Int
  /\ s.w \in Nat \ {0} /\ s.h \in Nat \ {0} /\ s.d \in Nat \ {0}
  /\ InsideTruck(s, truck)

\* Free spaces do not overlap, nor does any with what is placed.
SpacesAreFree(spaces, a, truck) ==
  /\ \A s \in spaces : IsSpace(s, truck)
  /\ \A s, t \in spaces : s # t => Separated(s, t)
  /\ \A s \in spaces : \A m \in 1..Len(a) : Separated(s, a[m])

\* The loading order of the search never goes deeper.
NeverDeeper(a) == \A k, m \in 1..Len(a) : k <= m => a[k].z <= a[m].z

\* The box Boxed of the job j.
BoxIn(j, p, s, o) ==
  [PlacementAt(p, Data(j, p), s.x, s.y, s.z, o) EXCEPT !.vertical = FALSE]

FrameFields == {"index", "spaces", "placed", "unplaced", "options", "open"}

\* What an open call has to try: a place for its package.
IsOption(o, f, j, p) ==
  /\ o.space \in f.spaces
  /\ o.turn \in Orientations(Data(j, p), TRUE)
  /\ FitsInSpace(o.turn, o.space)
  /\ HasMinimumSupport(BoxIn(j, p, o.space, o.turn), Items(f.placed))
  /\ f.placed # <<>> => o.space.z >= Last(f.placed).z

\* It has placed or left behind all that come before its own in the order q.
HasDecided(f, q) ==
  \A k \in 1..(f.index - 1) : \/ q[k] \in f.unplaced
                              \/ \E m \in 1..Len(f.placed) : f.placed[m].pkg = q[k]

\* A call has decided on the packages that come before its own in the order q.
IsFrame(f, j, q) ==
  /\ DOMAIN f = FrameFields
  /\ f.index \in 1..(Len(q) + 1)
  /\ Loaded(f.placed, j)
  /\ NeverDeeper(f.placed)
  /\ SpacesAreFree(f.spaces, f.placed, j.truck)
  /\ \A m \in 1..Len(f.placed) :
       /\ \E k \in 1..(f.index - 1) : f.placed[m].pkg = q[k]
       /\ f.placed[m].pkg \notin f.unplaced
  /\ \A p \in f.unplaced : \E k \in 1..(f.index - 1) : p = q[k]
  /\ HasDecided(f, q)
  /\ f.open =>
       /\ f.index <= Len(q)
       /\ Weight(f.placed) + Data(j, q[f.index]).weight <= j.truck.capacity
       /\ \A o \in f.options : IsOption(o, f, j, q[f.index])

\* A solution: a load, and packages that are not in it.
IsSolution(a, left, j) ==
  /\ Loaded(a, j)
  /\ left \subseteq Packing(j)
  /\ \A m \in 1..Len(a) : a[m].pkg \notin left

\* It reports of every package that it is loaded or left behind.
IsReported(a, left, j) ==
  \A p \in Packing(j) : p \in left \/ \E m \in 1..Len(a) : Code(j, a[m].pkg) = Code(j, p)
-------------------------------------------------------------------------------
(* The order of the search has every package once.                           *)

LEMMA LessOfFive ==
  ASSUME NEW a1, NEW a2, NEW a3, NEW a4, NEW a5, NEW b1, NEW b2, NEW b3, NEW b4, NEW b5
  PROVE  Less(<<a1, a2, a3, a4, a5>>, <<b1, b2, b3, b4, b5>>)
           <=> \/ a1 < b1
               \/ a1 = b1 /\ a2 < b2
               \/ a1 = b1 /\ a2 = b2 /\ a3 < b3
               \/ a1 = b1 /\ a2 = b2 /\ a3 = b3 /\ a4 < b4
               \/ a1 = b1 /\ a2 = b2 /\ a3 = b3 /\ a4 = b4 /\ a5 < b5
<1> DEFINE s == <<a1, a2, a3, a4, a5>>
           t == <<b1, b2, b3, b4, b5>>
           Before(k) == s[k] < t[k] /\ \A m \in 1..(k - 1) : s[m] = t[m]
<1>1. Less(s, t) <=> Before(1) \/ Before(2) \/ Before(3) \/ Before(4) \/ Before(5)
  <2>1. DOMAIN s = {1, 2, 3, 4, 5}
    OBVIOUS
  <2> QED
    BY <2>1 DEF Less
<1>2. /\ 1..(1 - 1) = {} /\ 1..(2 - 1) = {1} /\ 1..(3 - 1) = {1, 2} /\ 1..(4 - 1) = {1, 2, 3}
      /\ 1..(5 - 1) = {1, 2, 3, 4}
  OBVIOUS
<1>3. Before(1) <=> a1 < b1
  BY <1>2
<1>4. Before(2) <=> a1 = b1 /\ a2 < b2
  BY <1>2
<1>5. Before(3) <=> a1 = b1 /\ a2 = b2 /\ a3 < b3
  BY <1>2
<1>6. Before(4) <=> a1 = b1 /\ a2 = b2 /\ a3 = b3 /\ a4 < b4
  BY <1>2
<1>7. Before(5) <=> a1 = b1 /\ a2 = b2 /\ a3 = b3 /\ a4 = b4 /\ a5 < b5
  BY <1>2
<1> QED
  BY <1>1, <1>3, <1>4, <1>5, <1>6, <1>7

LEMMA OneComesBefore ==
  ASSUME job \in Jobs
  PROVE  LET P == Packing(job)
         IN  /\ \A p \in P : ~ComesBefore(p, p)
             /\ \A p, q, r \in P : ComesBefore(p, q) /\ ComesBefore(q, r) => ComesBefore(p, r)
             /\ \A p, q \in P : p # q => ComesBefore(p, q) \/ ComesBefore(q, p)
<1> DEFINE P == Packing(job)
           a(p) == -Priority(p)
           b(p) == -Volume(Data(job, p))
           c(p) == -Data(job, p).weight
           d(p) == Code(job, p)
<1>1. \A p \in P : a(p) \in Int /\ b(p) \in Int /\ c(p) \in Int /\ d(p) \in Int /\ p \in Int
  <2> SUFFICES ASSUME NEW p \in P
               PROVE  a(p) \in Int /\ b(p) \in Int /\ c(p) \in Int /\ d(p) \in Int /\ p \in Int
    OBVIOUS
  <2>1. /\ Data(job, p).l \in Nat /\ Data(job, p).w \in Nat /\ Data(job, p).h \in Nat
        /\ Data(job, p).weight \in Nat /\ Data(job, p).rank \in 0..MaxRank /\ p \in Nat
        /\ Code(job, p) \in Nat
    BY CargoIs
  <2>2. job.origin \in 0..MaxRank
    BY JobsAssumption
  <2>3. \A m, n \in Nat : m * n \in Nat
    OBVIOUS
  <2>4. Volume(Data(job, p)) \in Nat
    BY <2>1, <2>3 DEF Volume
  <2>5. Data(job, p).rank - job.origin \in Int
    BY <2>1, <2>2, MaxRankAssumption
  <2>6. Priority(p) \in Int
    BY <2>5, MaxOfTwo DEF Priority
  <2> QED
    BY <2>1, <2>4, <2>6
<1>2. \A p, q \in P : ComesBefore(p, q)
                      <=> \/ a(p) < a(q)
                          \/ a(p) = a(q) /\ b(p) < b(q)
                          \/ a(p) = a(q) /\ b(p) = b(q) /\ c(p) < c(q)
                          \/ a(p) = a(q) /\ b(p) = b(q) /\ c(p) = c(q) /\ d(p) < d(q)
                          \/ a(p) = a(q) /\ b(p) = b(q) /\ c(p) = c(q) /\ d(p) = d(q) /\ p < q
  BY LessOfFive DEF ComesBefore
<1> HIDE DEF a, b, c, d
<1> QED
  BY <1>1, <1>2

\* The sorted list of the search holds each package of the run once (Ordered is
\* a CHOOSE by the number of packages that come before; there is one for each).
LEMMA OrderedIs ==
  ASSUME job \in Jobs
  PROVE  /\ Len(Ordered) = Cardinality(Packing(job)) /\ Len(Ordered) \in Nat
         /\ \A k \in 1..Len(Ordered) : Ordered[k] \in Packing(job)
         /\ \A k, m \in 1..Len(Ordered) : Ordered[k] = Ordered[m] => k = m
         /\ \A p \in Packing(job) : \E k \in 1..Len(Ordered) : Ordered[k] = p
<1> DEFINE P == Packing(job)
           n == Cardinality(P)
           Before(p) == {q \in P : ComesBefore(q, p)}
           g == [p \in P |-> Cardinality(Before(p))]
<1>1. IsFiniteSet(P) /\ n \in Nat
  BY CargoIs, FS_CardinalityType
<1>2. \A p \in P : IsFiniteSet(Before(p)) /\ Cardinality(Before(p)) \in 0..(n - 1)
  <2> SUFFICES ASSUME NEW p \in P
               PROVE  IsFiniteSet(Before(p)) /\ Cardinality(Before(p)) \in 0..(n - 1)
    OBVIOUS
  <2>1. Before(p) \subseteq P /\ p \notin Before(p)
    BY OneComesBefore
  <2> HIDE DEF P, Before
  <2>2. IsFiniteSet(Before(p)) /\ Cardinality(Before(p)) <= n
    BY <1>1, <2>1, FS_Subset
  <2>3. Cardinality(Before(p)) # n
    BY <1>1, <2>1, FS_Subset
  <2>4. Cardinality(Before(p)) \in Nat
    BY <2>2, FS_CardinalityType
  <2> QED
    BY <1>1, <2>2, <2>3, <2>4
<1>3. ASSUME NEW p \in P, NEW q \in P, ComesBefore(p, q)
      PROVE  Cardinality(Before(p)) # Cardinality(Before(q))
  <2>1. Before(p) \subseteq Before(q) /\ p \in Before(q) /\ p \notin Before(p)
    BY <1>3, OneComesBefore
  <2>2. IsFiniteSet(Before(q))
    BY <1>2
  <2> HIDE DEF Before
  <2> QED
    BY <2>1, <2>2, FS_Subset
<1>4. \A p, q \in P : g[p] = g[q] => p = q
  BY <1>3, OneComesBefore
<1>5. IsFiniteSet(0..(n - 1)) /\ Cardinality(0..(n - 1)) = n
  BY <1>1, FS_Interval
<1>6. g \in Injection(P, 0..(n - 1))
  <2>1. g \in [P -> 0..(n - 1)]
    BY <1>2
  <2> HIDE DEF g, P
  <2> QED
    BY <1>4, <2>1 DEF Injection, IsInjective
<1>7. g \in Surjection(P, 0..(n - 1))
  <2> HIDE DEF g, P
  <2> QED
    BY <1>5, <1>6, FS_Injection DEF n
<1>8. \A k \in 1..n : \E p \in P : Cardinality(Before(p)) = k - 1
  <2>1. \A k \in 1..n : k - 1 \in 0..(n - 1)
    BY <1>1
  <2>2. \A i \in 0..(n - 1) : \E p \in P : g[p] = i
    BY <1>7 DEF Surjection
  <2> QED
    BY <2>1, <2>2
<1>9. PICK s : s = Ordered
  OBVIOUS
<1>10. s = [k \in 1..n |-> CHOOSE p \in P : Cardinality(Before(p)) = k - 1]
  BY <1>9 DEF Ordered
<1> HIDE DEF P, Before
<1>11. \A k \in 1..n : s[k] \in P /\ Cardinality(Before(s[k])) = k - 1
  BY <1>8, <1>10
<1>12. s = [k \in 1..n |-> s[k]]
  BY <1>10
<1>13. Len(s) = n
  BY <1>1, <1>12, FunctionsAreSequences
<1>14. \A k, m \in 1..n : s[k] = s[m] => k = m
  <2>1. \A k \in 1..n : k \in Int
    OBVIOUS
  <2> QED
    BY <1>11, <2>1
<1>15. \A p \in P : \E k \in 1..n : s[k] = p
  <2> SUFFICES ASSUME NEW p \in P
               PROVE  \E k \in 1..n : s[k] = p
    OBVIOUS
  <2>1. PICK k \in 1..n : Cardinality(Before(p)) = k - 1
    <3>1. Cardinality(Before(p)) + 1 \in 1..n /\ Cardinality(Before(p)) = (Cardinality(Before(p)) + 1) - 1
      BY <1>1, <1>2
    <3> QED
      BY <3>1
  <2>2. g[s[k]] = g[p]
    BY <1>11, <2>1
  <2> QED
    BY <1>4, <1>11, <2>2
<1> QED
  BY <1>1, <1>9, <1>11, <1>13, <1>14, <1>15 DEF P
-------------------------------------------------------------------------------
(* What a box leaves of a space.                                             *)

HasSize(r) ==
  /\ r.x \in Int /\ r.y \in Int /\ r.z \in Int
  /\ r.w \in Nat \ {0} /\ r.h \in Nat \ {0} /\ r.d \in Nat \ {0}

IsPart(b, s) ==
  /\ s.x <= b.x /\ b.x + b.w <= s.x + s.w
  /\ s.y <= b.y /\ b.y + b.h <= s.y + s.h
  /\ s.z <= b.z /\ b.z + b.d <= s.z + s.d

LEMMA PartsAreApart ==
  ASSUME NEW s, HasSize(s), NEW b, HasSize(b), IsPart(b, s), NEW i, HasSize(i)
  PROVE  /\ Separated(s, i) => Separated(b, i)
         /\ Separated(i, s) => Separated(i, b)
         /\ Separated(i, s) => Separated(s, i)
  BY DEF HasSize, IsPart, Separated

LEMMA SplitIs ==
  ASSUME NEW truck, truck.w \in Int, truck.h \in Int, truck.l \in Int,
         NEW s, IsSpace(s, truck), NEW c, HasSize(c), c.x = s.x, c.y = s.y, c.z = s.z,
         NEW o, o.w = c.w, o.h = c.h, o.d = c.d, FitsInSpace(o, s)
  PROVE  /\ IsPart(c, s)
         /\ \A t \in Split(s, o) : IsSpace(t, truck) /\ IsPart(t, s) /\ Separated(t, c)
         /\ \A t, u \in Split(s, o) : t # u => Separated(t, u)
<1> DEFINE t1 == [x |-> s.x + o.w, y |-> s.y, z |-> s.z, w |-> s.w - o.w, h |-> o.h, d |-> o.d]
           t2 == [x |-> s.x, y |-> s.y + o.h, z |-> s.z, w |-> s.w, h |-> s.h - o.h, d |-> o.d]
           t3 == [x |-> s.x, y |-> s.y, z |-> s.z + o.d, w |-> s.w, h |-> s.h, d |-> s.d - o.d]
           Positive(t) == t.w > 0 /\ t.h > 0 /\ t.d > 0
<1>1. \A t \in Split(s, o) : t \in {t1, t2, t3} /\ Positive(t)
  BY DEF Split
<1>2. /\ s.x \in Int /\ s.y \in Int /\ s.z \in Int
      /\ s.w \in Nat \ {0} /\ s.h \in Nat \ {0} /\ s.d \in Nat \ {0}
      /\ o.w \in Nat \ {0} /\ o.h \in Nat \ {0} /\ o.d \in Nat \ {0}
      /\ o.w <= s.w /\ o.h <= s.h /\ o.d <= s.d /\ InsideTruck(s, truck)
  BY DEF IsSpace, HasSize, FitsInSpace
<1>3. IsPart(c, s)
  BY <1>2 DEF IsPart
<1>4. \A t \in {t1, t2, t3} : Positive(t) => IsSpace(t, truck)
  BY <1>2 DEF IsSpace, InsideTruck
<1>5. \A t \in {t1, t2, t3} : IsPart(t, s) /\ Separated(t, c)
  BY <1>2 DEF IsPart, Separated
<1>6. \A t, u \in {t1, t2, t3} : t # u => Separated(t, u)
  BY <1>2 DEF Separated
<1> HIDE DEF t1, t2, t3
<1> QED
  BY <1>1, <1>3, <1>4, <1>5, <1>6

LEMMA SizesAre ==
  /\ \A c : IsBox(c) => HasSize(c)
  /\ \A s, truck : IsSpace(s, truck) => HasSize(s)
  BY DEF IsBox, IsSpace, HasSize

LEMMA SpacesStayFree ==
  ASSUME NEW truck, truck.w \in Int, truck.h \in Int, truck.l \in Int,
         NEW a, IsArrangement(a), NEW spaces, SpacesAreFree(spaces, a, truck), NEW s \in spaces,
         NEW c, IsBox(c), c.x = s.x, c.y = s.y, c.z = s.z,
         NEW o, o.w = c.w, o.h = c.h, o.d = c.d, FitsInSpace(o, s)
  PROVE  /\ InsideTruck(c, truck)
         /\ \A m \in 1..Len(a) : Separated(c, a[m])
         /\ SpacesAreFree((spaces \ {s}) \cup Split(s, o), With(a, c), truck)
<1> DEFINE n == Len(a)
           next == (spaces \ {s}) \cup Split(s, o)
<1>1. HasSize(c) /\ IsSpace(s, truck) /\ HasSize(s)
  BY SizesAre DEF SpacesAreFree
<1>2. /\ IsPart(c, s)
      /\ \A t \in Split(s, o) : IsSpace(t, truck) /\ IsPart(t, s) /\ Separated(t, c)
      /\ \A t, u \in Split(s, o) : t # u => Separated(t, u)
  BY <1>1, SplitIs
<1>3. InsideTruck(c, truck)
  BY <1>1, <1>2 DEF HasSize, IsSpace, IsPart, InsideTruck
<1>4. \A m \in 1..n : HasSize(a[m]) /\ Separated(s, a[m])
  BY SizesAre DEF IsArrangement, SpacesAreFree
<1>5. \A m \in 1..n : Separated(c, a[m])
  BY <1>1, <1>2, <1>4, PartsAreApart
<1>6. PICK r : r = With(a, c)
  OBVIOUS
<1>7. /\ n \in Nat /\ Len(r) = n + 1
      /\ \A k \in 1..n : Alike(r[k], a[k])
      /\ Alike(r[n + 1], c)
  BY <1>5, <1>6, Arranged, ArrangedWith
<1>8. \A k \in 1..(n + 1) : k \in 1..n \/ k = n + 1
  BY <1>7
<1>9. \A t \in next : IsSpace(t, truck) /\ HasSize(t)
  BY <1>2, SizesAre DEF SpacesAreFree
<1>10. \A t \in spaces \ {s} : Separated(t, s) /\ Separated(s, t)
  BY DEF SpacesAreFree
<1>11. \A t \in Split(s, o) : IsPart(t, s) /\ HasSize(t)
  BY <1>2, <1>9
<1>12. ASSUME NEW t \in spaces \ {s}, NEW u \in Split(s, o)
       PROVE  Separated(t, u) /\ Separated(u, t)
  BY <1>1, <1>9, <1>10, <1>11, PartsAreApart
<1>13. \A t, u \in next : t # u => Separated(t, u)
  BY <1>2, <1>12 DEF SpacesAreFree
<1>14. ASSUME NEW t \in next
       PROVE  Separated(t, c) /\ \A m \in 1..n : Separated(t, a[m])
  <2>1. CASE t \in spaces \ {s}
    <3>1. Separated(t, c)
      BY <1>1, <1>2, <1>9, <1>10, <2>1, PartsAreApart
    <3> QED
      BY <2>1, <3>1 DEF SpacesAreFree
  <2>2. CASE t \in Split(s, o)
    BY <1>1, <1>2, <1>4, <1>9, <2>2, PartsAreApart
  <2> QED
    BY <2>1, <2>2
<1>15. \A t \in next : \A m \in 1..Len(r) : Separated(t, r[m])
  <2>1. \A t, b, e : Alike(b, e) /\ Separated(t, e) => Separated(t, b)
    BY DEF Alike, Separated
  <2> HIDE DEF next
  <2> QED
    BY <1>7, <1>8, <1>14, <2>1
<1> HIDE DEF next
<1>16. SpacesAreFree(next, r, truck)
  BY <1>9, <1>13, <1>15 DEF SpacesAreFree
<1> QED
  BY <1>3, <1>5, <1>6, <1>16 DEF next
-------------------------------------------------------------------------------
(* The steps of the search on its frames.                                    *)

LEMMA NothingIsLoaded ==
  ASSUME NEW j \in Jobs
  PROVE  Loaded(<<>>, j) /\ Len(<<>>) = 0
<1>1. PICK a : a = <<>>
  OBVIOUS
<1>2. a = [k \in 1..0 |-> a[k]]
  BY <1>1
<1>3. Len(a) = 0 /\ IsSequence(a)
  BY <1>2, FunctionsAreSequences
<1>4. 1..Len(a) = {}
  BY <1>3
<1>5. IsArrangement(a)
  BY <1>3, <1>4 DEF IsArrangement
<1>6. Weight(a) = Sum([m \in 1..Len(a) |-> a[m].weight], 1..Len(a))
  BY <1>5, WeightByPlace
<1>7. Weight(a) = 0
  BY <1>4, <1>6, SumEmpty
<1>8. j.truck.capacity \in Nat
  BY CargoIs
<1> QED
  BY <1>1, <1>3, <1>4, <1>5, <1>7, <1>8 DEF Loaded

HasAll(q, j) == \A p \in Packing(j) : \E k \in 1..Len(q) : q[k] = p

\* What is known of the order in which the search takes the packages.
IsOrder(q, j) ==
  /\ Len(q) \in Nat
  /\ \A k \in 1..Len(q) : q[k] \in Packing(j)
  /\ \A k, m \in 1..Len(q) : q[k] = q[m] => k = m
  /\ HasAll(q, j)

LEMMA FirstFrame ==
  ASSUME NEW j \in Jobs, NEW q, IsOrder(q, j)
  PROVE  LET truck == [x |-> 0, y |-> 0, z |-> 0, w |-> j.truck.w, h |-> j.truck.h, d |-> j.truck.l]
         IN  IsFrame(NewFrame(1, {truck}, <<>>, {}), j, q)
<1> DEFINE truck == [x |-> 0, y |-> 0, z |-> 0, w |-> j.truck.w, h |-> j.truck.h, d |-> j.truck.l]
<1>1. IsSpace(truck, j.truck)
  BY CargoIs DEF IsSpace, InsideTruck
<1> HIDE DEF truck
<1>2. PICK a : a = <<>>
  OBVIOUS
<1>3. Loaded(a, j) /\ Len(a) = 0
  BY <1>2, NothingIsLoaded
<1>4. 1..Len(a) = {}
  BY <1>3
<1>5. SpacesAreFree({truck}, a, j.truck) /\ NeverDeeper(a)
  BY <1>1, <1>4 DEF SpacesAreFree, NeverDeeper
<1>6. PICK f : f = NewFrame(1, {truck}, a, {})
  OBVIOUS
<1>7. /\ DOMAIN f = FrameFields /\ f.index = 1 /\ f.spaces = {truck} /\ f.placed = a
      /\ f.unplaced = {} /\ f.open = FALSE
  BY <1>6 DEF NewFrame, FrameFields
<1>8. f.index \in 1..(Len(q) + 1)
  BY <1>7 DEF IsOrder
<1>9. HasDecided(f, q)
  BY <1>7 DEF HasDecided
<1>10. IsFrame(f, j, q)
  BY <1>3, <1>4, <1>5, <1>7, <1>8, <1>9 DEF IsFrame
<1> QED
  BY <1>2, <1>6, <1>10 DEF truck

LEMMA WithoutIsFrame ==
  ASSUME NEW j, NEW q, IsOrder(q, j), NEW f, IsFrame(f, j, q), f.index <= Len(q)
  PROVE  IsFrame(Without(q[f.index], f), j, q)
<1>1. PICK p : p = q[f.index]
  OBVIOUS
<1>2. PICK g : g = Without(p, f)
  OBVIOUS
<1>3. /\ DOMAIN g = FrameFields /\ g.index = f.index + 1 /\ g.spaces = f.spaces
      /\ g.placed = f.placed /\ g.unplaced = f.unplaced \cup {p} /\ g.open = FALSE
  BY <1>2 DEF Without, NewFrame, FrameFields
<1>4. /\ f.index \in 1..Len(q) /\ g.index \in 1..(Len(q) + 1)
      /\ f.index \in 1..(g.index - 1) /\ 1..(f.index - 1) \subseteq 1..(g.index - 1)
      /\ 1..(f.index - 1) \subseteq 1..Len(q) /\ f.index \notin 1..(f.index - 1)
  BY <1>3 DEF IsFrame, IsOrder
<1>5. \A m \in 1..Len(f.placed) : f.placed[m].pkg # p
  BY <1>1, <1>4 DEF IsFrame, IsOrder
<1>6. \A m \in 1..Len(g.placed) :
        /\ \E k \in 1..(g.index - 1) : g.placed[m].pkg = q[k]
        /\ g.placed[m].pkg \notin g.unplaced
  BY <1>3, <1>4, <1>5 DEF IsFrame
<1>7. \A r \in g.unplaced : \E k \in 1..(g.index - 1) : r = q[k]
  BY <1>1, <1>3, <1>4 DEF IsFrame
<1>8. Loaded(g.placed, j) /\ NeverDeeper(g.placed) /\ SpacesAreFree(g.spaces, g.placed, j.truck)
  BY <1>3 DEF IsFrame
<1>9. HasDecided(g, q)
  <2>1. \A k \in 1..(g.index - 1) : k \in 1..(f.index - 1) \/ k = f.index
    BY <1>3, <1>4
  <2>2. HasDecided(f, q)
    BY DEF IsFrame
  <2> QED
    BY <1>1, <1>3, <2>1, <2>2 DEF HasDecided
<1> QED
  BY <1>1, <1>2, <1>3, <1>4, <1>6, <1>7, <1>8, <1>9 DEF IsFrame

\* The options of a call, and of one that has tried some of them.
LEMMA OpenIsFrame ==
  ASSUME NEW j, NEW q, NEW f, IsFrame(f, j, q), f.index <= Len(q),
         Weight(f.placed) + Data(j, q[f.index]).weight <= j.truck.capacity,
         NEW options, \A o \in options : IsOption(o, f, j, q[f.index]),
         NEW g, g = [f EXCEPT !.open = TRUE, !.options = options]
  PROVE  IsFrame(g, j, q)
<1>1. /\ DOMAIN g = FrameFields /\ g.index = f.index /\ g.spaces = f.spaces
      /\ g.placed = f.placed /\ g.unplaced = f.unplaced /\ g.options = options
  BY DEF IsFrame, FrameFields
<1>2. \A o \in g.options : IsOption(o, g, j, q[g.index])
  BY <1>1 DEF IsOption
<1>3. HasDecided(g, q)
  BY <1>1 DEF IsFrame, HasDecided
<1> QED
  BY <1>1, <1>2, <1>3 DEF IsFrame

LEMMA LessOptionsIsFrame ==
  ASSUME NEW j, NEW q, NEW f, IsFrame(f, j, q), NEW o
  PROVE  IsFrame([f EXCEPT !.options = @ \ {o}], j, q)
<1>1. PICK g : g = [f EXCEPT !.options = @ \ {o}]
  OBVIOUS
<1>2. /\ DOMAIN g = FrameFields /\ g.index = f.index /\ g.spaces = f.spaces /\ g.open = f.open
      /\ g.placed = f.placed /\ g.unplaced = f.unplaced /\ g.options = f.options \ {o}
  BY <1>1 DEF IsFrame, FrameFields
<1>3. \A p, r : IsOption(p, f, j, r) => IsOption(p, g, j, r)
  BY <1>2 DEF IsOption
<1>4. HasDecided(g, q)
  BY <1>2 DEF IsFrame, HasDecided
<1> QED
  BY <1>1, <1>2, <1>3, <1>4 DEF IsFrame

\* An option is a place from which the package can be loaded next: nothing in
\* the truck is deeper, and the spaces keep it apart from everything.
LEMMA OptionMayFollow ==
  ASSUME NEW j \in Jobs, NEW q, IsOrder(q, j), NEW f, IsFrame(f, j, q), f.open, NEW o \in f.options
  PROVE  LET c == BoxIn(j, q[f.index], o.space, o.turn)
         IN  /\ MayFollow(c, f.placed, j)
             /\ c.pkg = q[f.index]
             /\ \A m \in 1..Len(f.placed) : f.placed[m].z <= c.z
             /\ SpacesAreFree((f.spaces \ {o.space}) \cup Split(o.space, o.turn),
                              With(f.placed, c), j.truck)
<1>1. PICK p : p = q[f.index]
  OBVIOUS
<1>2. PICK c : c = BoxIn(j, p, o.space, o.turn)
  OBVIOUS
<1>3. PICK a : a = f.placed
  OBVIOUS
<1>4. /\ f.index \in 1..Len(q) /\ p \in Packing(j) /\ IsOption(o, f, j, p)
      /\ Weight(a) + Data(j, p).weight <= j.truck.capacity
      /\ 1..(f.index - 1) \subseteq 1..Len(q) /\ f.index \notin 1..(f.index - 1)
  BY <1>1, <1>3 DEF IsFrame, IsOrder
<1>5. /\ Data(j, p).l \in Nat \ {0} /\ Data(j, p).w \in Nat \ {0} /\ Data(j, p).h \in Nat \ {0}
      /\ Data(j, p).weight \in Nat
      /\ j.truck.w \in Int /\ j.truck.h \in Int /\ j.truck.l \in Int
  BY <1>4, CargoIs
<1>6. o.turn.w \in Nat \ {0} /\ o.turn.h \in Nat \ {0} /\ o.turn.d \in Nat \ {0}
  BY <1>4, <1>5, TurnsAreBoxes DEF IsOption
<1>7. o.space \in f.spaces /\ IsSpace(o.space, j.truck) /\ FitsInSpace(o.turn, o.space)
  BY <1>4 DEF IsOption, IsFrame, SpacesAreFree
<1>8. /\ IsBox(c) /\ c.pkg = p /\ c.weight = Data(j, p).weight
      /\ c.x = o.space.x /\ c.y = o.space.y /\ c.z = o.space.z
      /\ c.w = o.turn.w /\ c.h = o.turn.h /\ c.d = o.turn.d
  <2> DEFINE b == PlacementAt(p, Data(j, p), o.space.x, o.space.y, o.space.z, o.turn)
  <2>1. /\ IsBox(b) /\ b.pkg = p /\ b.weight = Data(j, p).weight
        /\ b.x = o.space.x /\ b.y = o.space.y /\ b.z = o.space.z
        /\ b.w = o.turn.w /\ b.h = o.turn.h /\ b.d = o.turn.d
    BY <1>5, <1>6, <1>7, BoxAtPoint DEF IsSpace
  <2>2. c = [b EXCEPT !.vertical = FALSE]
    BY <1>2 DEF BoxIn
  <2> HIDE DEF b
  <2> QED
    BY <2>1, <2>2 DEF IsBox, BoxFields
<1>9. Loaded(a, j) /\ IsArrangement(a) /\ SpacesAreFree(f.spaces, a, j.truck) /\ NeverDeeper(a)
  BY <1>3 DEF IsFrame, Loaded
<1>10. /\ InsideTruck(c, j.truck)
       /\ \A m \in 1..Len(a) : Separated(c, a[m])
       /\ SpacesAreFree((f.spaces \ {o.space}) \cup Split(o.space, o.turn), With(a, c), j.truck)
  BY <1>5, <1>7, <1>8, <1>9, SpacesStayFree
<1>11. \A m \in 1..Len(a) : c.pkg # a[m].pkg
  BY <1>1, <1>3, <1>4, <1>8 DEF IsFrame, IsOrder
<1>12. HasMinimumSupport(c, Items(a))
  BY <1>2, <1>3, <1>4 DEF IsOption
<1>13. Len(a) \in Nat /\ Items(a) = {a[k] : k \in 1..Len(a)}
  BY <1>9, Arranged
<1>14. \A m \in 1..Len(a) : a[m].z <= c.z
  <2> SUFFICES ASSUME NEW m \in 1..Len(a)
               PROVE  a[m].z <= c.z
    OBVIOUS
  <2>1. m <= Len(a) /\ Len(a) \in 1..Len(a)
    BY <1>13
  <2>2. a[m].z <= a[Len(a)].z
    BY <1>9, <2>1 DEF NeverDeeper
  <2>3. a # <<>>
    BY <2>1
  <2>4. c.z >= a[Len(a)].z
    BY <1>3, <1>4, <1>8, <2>3 DEF IsOption, Last
  <2>5. a[m].z \in Int /\ a[Len(a)].z \in Int /\ c.z \in Int
    BY <1>8, <1>9, <2>1 DEF IsArrangement, IsBox
  <2> QED
    BY <2>2, <2>4, <2>5
<1>15. PathClear(c, j.truck, Items(a))
  <2>1. \A m \in 1..Len(a) : a[m].z + a[m].d <= c.z + c.d \/ SharedX(c, a[m]) = 0 \/ SharedY(c, a[m]) = 0
    BY <1>8, <1>9, <1>10, <1>14, NotInTheWay DEF IsArrangement
  <2> QED
    BY <1>13, <2>1 DEF PathClear
<1>16. Weight(a) + c.weight <= j.truck.capacity
  BY <1>4, <1>8
<1>17. MayFollow(c, a, j)
  BY <1>4, <1>8, <1>10, <1>11, <1>12, <1>15, <1>16 DEF MayFollow
<1> QED
  BY <1>1, <1>2, <1>3, <1>8, <1>10, <1>14, <1>17

LEMMA ChildIsFrame ==
  ASSUME NEW j \in Jobs, NEW q, IsOrder(q, j), NEW f, IsFrame(f, j, q), f.open, NEW o \in f.options
  PROVE  IsFrame(NewFrame(f.index + 1, (f.spaces \ {o.space}) \cup Split(o.space, o.turn),
                          With(f.placed, BoxIn(j, q[f.index], o.space, o.turn)), f.unplaced), j, q)
<1>1. PICK c : c = BoxIn(j, q[f.index], o.space, o.turn)
  OBVIOUS
<1>2. PICK a : a = f.placed
  OBVIOUS
<1>3. PICK r : r = With(a, c)
  OBVIOUS
<1>4. PICK spaces : spaces = (f.spaces \ {o.space}) \cup Split(o.space, o.turn)
  OBVIOUS
<1>5. PICK g : g = NewFrame(f.index + 1, spaces, r, f.unplaced)
  OBVIOUS
<1>6. /\ DOMAIN g = FrameFields /\ g.index = f.index + 1 /\ g.spaces = spaces
      /\ g.placed = r /\ g.unplaced = f.unplaced /\ g.open = FALSE
  BY <1>5 DEF NewFrame, FrameFields
<1>7. /\ MayFollow(c, a, j) /\ c.pkg = q[f.index] /\ SpacesAreFree(spaces, r, j.truck)
      /\ \A m \in 1..Len(a) : a[m].z <= c.z
  BY <1>1, <1>2, <1>3, <1>4, OptionMayFollow
<1>8. Loaded(a, j) /\ IsArrangement(a) /\ NeverDeeper(a)
  BY <1>2 DEF IsFrame, Loaded
<1>9. Loaded(r, j)
  BY <1>3, <1>7, <1>8, LoadedWith
<1>10. /\ Len(a) \in Nat /\ Len(r) = Len(a) + 1
       /\ (\A k \in 1..Len(a) : Alike(r[k], a[k])) /\ Alike(r[Len(a) + 1], c)
  BY <1>3, <1>7, <1>8, Arranged, ArrangedWith DEF MayFollow
<1>11. \A k \in 1..Len(r) : k \in 1..Len(a) \/ k = Len(a) + 1
  BY <1>10
<1>12. /\ f.index \in 1..Len(q) /\ g.index \in 1..(Len(q) + 1)
       /\ f.index \in 1..(g.index - 1) /\ 1..(f.index - 1) \subseteq 1..(g.index - 1)
       /\ 1..(f.index - 1) \subseteq 1..Len(q) /\ f.index \notin 1..(f.index - 1)
  BY <1>6 DEF IsFrame, IsOrder
<1>13. NeverDeeper(r)
  <2> SUFFICES ASSUME NEW k \in 1..Len(r), NEW m \in 1..Len(r), k <= m
               PROVE  r[k].z <= r[m].z
    BY DEF NeverDeeper
  <2>1. IsBox(c) /\ c.z \in Int
    BY <1>7 DEF MayFollow, IsBox
  <2>2. CASE m \in 1..Len(a)
    <3>1. k \in 1..Len(a)
      BY <1>10, <1>11, <2>2
    <3> QED
      BY <1>8, <1>10, <2>2, <3>1 DEF NeverDeeper, Alike
  <2>3. CASE m = Len(a) + 1 /\ k \in 1..Len(a)
    BY <1>7, <1>10, <2>3 DEF Alike
  <2>4. CASE m = Len(a) + 1 /\ k = Len(a) + 1
    BY <1>10, <2>1, <2>4 DEF Alike
  <2> QED
    BY <1>11, <2>2, <2>3, <2>4
<1>14. q[f.index] \notin f.unplaced
  BY <1>12 DEF IsFrame, IsOrder
<1>15. \A m \in 1..Len(r) :
         /\ \E k \in 1..(g.index - 1) : r[m].pkg = q[k]
         /\ r[m].pkg \notin f.unplaced
  <2> SUFFICES ASSUME NEW m \in 1..Len(r)
               PROVE  /\ \E k \in 1..(g.index - 1) : r[m].pkg = q[k]
                      /\ r[m].pkg \notin f.unplaced
    OBVIOUS
  <2>1. CASE m \in 1..Len(a)
    BY <1>2, <1>10, <1>12, <2>1 DEF IsFrame, Alike
  <2>2. CASE m = Len(a) + 1
    BY <1>7, <1>10, <1>12, <1>14, <2>2 DEF Alike
  <2> QED
    BY <1>11, <2>1, <2>2
<1>16. \A p \in g.unplaced : \E k \in 1..(g.index - 1) : p = q[k]
  BY <1>6, <1>12 DEF IsFrame
<1>17. HasDecided(g, q)
  <2>1. \A k \in 1..(g.index - 1) : k \in 1..(f.index - 1) \/ k = f.index
    BY <1>6, <1>12
  <2>2. 1..Len(a) \subseteq 1..Len(r) /\ Len(a) + 1 \in 1..Len(r)
    BY <1>10
  <2>3. \A k \in 1..(f.index - 1) : \/ q[k] \in f.unplaced
                                     \/ \E m \in 1..Len(a) : a[m].pkg = q[k]
    BY <1>2 DEF IsFrame, HasDecided
  <2>4. (\A m \in 1..Len(a) : r[m].pkg = a[m].pkg) /\ r[Len(a) + 1].pkg = q[f.index]
    BY <1>7, <1>10 DEF Alike
  <2>5. ASSUME NEW k \in 1..(g.index - 1)
        PROVE  q[k] \in f.unplaced \/ \E m \in 1..Len(r) : r[m].pkg = q[k]
    <3>1. CASE k \in 1..(f.index - 1)
      BY <2>2, <2>3, <2>4, <3>1
    <3>2. CASE k = f.index
      BY <2>2, <2>4, <3>2
    <3> QED
      BY <2>1, <3>1, <3>2
  <2> QED
    BY <1>6, <2>5 DEF HasDecided
<1>18. IsFrame(g, j, q)
  BY <1>6, <1>7, <1>9, <1>12, <1>13, <1>15, <1>16, <1>17 DEF IsFrame
<1> QED
  BY <1>1, <1>2, <1>3, <1>4, <1>5, <1>18
-------------------------------------------------------------------------------
(* The inductive invariant of a run.                                         *)

\* Every place of the run is either loaded, pending or left behind, from the
\* first round of a heuristic to its end; the search reports of every package.
EachHasItsPlace ==
  /\ IsSolution(placed, unplaced, job)
  /\ pending \subseteq Packing(job) /\ pending \cap unplaced = {}
  /\ \A m \in 1..Len(placed) : placed[m].pkg \notin pending
  /\ phase \in {"search", "done"} => pending = {}
  /\ phase = "arrange" => job.engine \in Heuristics
  /\ phase \in {"seed", "search"} => job.engine \notin Heuristics
  /\ phase \in {"arrange", "done"} /\ job.engine \in Heuristics =>
       \A p \in Packing(job) : \/ p \in pending \/ p \in unplaced
                               \/ \E m \in 1..Len(placed) : placed[m].pkg = p
  /\ phase = "done" /\ job.engine \notin Heuristics => IsReported(placed, unplaced, job)

IsStack(s, j, q) == \E F : s \in Seq(F) /\ \A f \in F : IsFrame(f, j, q)

LoadInv ==
  /\ job \in Jobs
  /\ phase \in {"arrange", "seed", "search", "done", "failed"}
  /\ EachHasItsPlace
  /\ IsSolution(best.placed, best.unplaced, job)
  /\ phase = "search" => IsReported(best.placed, best.unplaced, job)
  /\ IsStack(stack, job, Ordered)

LEMMA Stacks ==
  ASSUME NEW j, NEW q, NEW s, IsStack(s, j, q), s # <<>>
  PROVE  /\ IsFrame(s[1], j, q)
         /\ IsStack(Tail(s), j, q)
         /\ \A f : IsFrame(f, j, q) => IsStack(<<f>> \o Tail(s), j, q)
         /\ \A f, g : IsFrame(f, j, q) /\ IsFrame(g, j, q) => IsStack(<<f, g>> \o Tail(s), j, q)
<1>1. PICK F : s \in Seq(F) /\ \A f \in F : IsFrame(f, j, q)
  BY DEF IsStack
<1>2. Tail(s) \in Seq(F) /\ Len(s) \in Nat \ {0}
  BY <1>1, HeadTailProperties, EmptySeq
<1>3. s[1] \in F
  BY <1>1, <1>2, ElementOfSeq
<1>4. ASSUME NEW f, IsFrame(f, j, q), NEW g, IsFrame(g, j, q)
      PROVE  IsStack(<<f>> \o Tail(s), j, q) /\ IsStack(<<f, g>> \o Tail(s), j, q)
  <2> DEFINE G == F \cup {f, g}
  <2>1. \A h \in G : IsFrame(h, j, q)
    BY <1>1, <1>4
  <2>2. Tail(s) \in Seq(G) /\ <<f>> \in Seq(G) /\ <<f, g>> \in Seq(G)
    BY <1>2
  <2> HIDE DEF G
  <2>3. <<f>> \o Tail(s) \in Seq(G) /\ <<f, g>> \o Tail(s) \in Seq(G)
    BY <2>2, ConcatProperties
  <2> QED
    BY <2>1, <2>3 DEF IsStack
<1> QED
  BY <1>1, <1>2, <1>3, <1>4 DEF IsStack

LEMMA OneStack ==
  ASSUME NEW j, NEW q
  PROVE  /\ IsStack(<<>>, j, q)
         /\ \A f : IsFrame(f, j, q) => IsStack(<<f>>, j, q)
<1>1. IsStack(<<>>, j, q)
  <2>1. PICK F : F = {}
    OBVIOUS
  <2>2. <<>> \in Seq(F) /\ \A f \in F : IsFrame(f, j, q)
    BY <2>1
  <2> QED
    BY <2>2, Zenon DEF IsStack
<1>2. ASSUME NEW f, IsFrame(f, j, q)
      PROVE  IsStack(<<f>>, j, q)
  <2>1. PICK F : F = {f}
    OBVIOUS
  <2>2. <<f>> \in Seq(F) /\ \A g \in F : IsFrame(g, j, q)
    BY <1>2, <2>1
  <2> QED
    BY <2>2, Zenon DEF IsStack
<1> QED
  BY <1>1, <1>2

LEMMA FrameIsSolution ==
  ASSUME NEW j, NEW q, IsOrder(q, j), NEW f, IsFrame(f, j, q)
  PROVE  /\ IsSolution(f.placed, f.unplaced, j)
         /\ f.index > Len(q) => IsReported(f.placed, f.unplaced, j)
<1>1. 1..(f.index - 1) \subseteq 1..Len(q)
  BY DEF IsFrame, IsOrder
<1>2. IsSolution(f.placed, f.unplaced, j)
  BY <1>1 DEF IsFrame, IsOrder, IsSolution
<1>3. f.index > Len(q) => IsReported(f.placed, f.unplaced, j)
  <2> SUFFICES ASSUME f.index > Len(q), NEW p \in Packing(j), p \notin f.unplaced
               PROVE  \E m \in 1..Len(f.placed) : f.placed[m].pkg = p
    BY DEF IsReported
  <2>1. PICK k \in 1..Len(q) : q[k] = p
    BY DEF IsOrder, HasAll
  <2>2. k \in 1..(f.index - 1)
    BY DEF IsFrame, IsOrder
  <2> QED
    BY <2>1, <2>2 DEF IsFrame, HasDecided
<1> QED
  BY <1>2, <1>3

LEMMA OrderIs ==
  ASSUME job \in Jobs
  PROVE  IsOrder(Ordered, job)
  BY OrderedIs DEF IsOrder, HasAll

LEMMA OptionsAre ==
  ASSUME NEW p, NEW f, NEW o \in OptionsFor(p, f)
  PROVE  IsOption(o, f, job, p)
<1> DEFINE turns == Orientations(Data(job, p), TRUE)
           all == {[space |-> s, turn |-> t] : s \in f.spaces, t \in turns}
           admitted == {r \in all :
                          /\ FitsInSpace(r.turn, r.space)
                          /\ SearchAdmits(Boxed(p, r.space, r.turn), Items(f.placed))}
<1>1. o \in Frontier(admitted, f.placed)
  BY DEF OptionsFor
<1> HIDE DEF turns
<1>2. \A r \in admitted : /\ r.space \in f.spaces /\ r.turn \in turns
                          /\ FitsInSpace(r.turn, r.space)
                          /\ SearchAdmits(Boxed(p, r.space, r.turn), Items(f.placed))
  <2>1. \A r \in all : r.space \in f.spaces /\ r.turn \in turns
    OBVIOUS
  <2> HIDE DEF all
  <2> QED
    BY <2>1
<1> HIDE DEF admitted
<1>3. o \in admitted /\ (f.placed # <<>> => o.space.z >= Last(f.placed).z)
  BY <1>1 DEF Frontier
<1>4. HasMinimumSupport(Boxed(p, o.space, o.turn), Items(f.placed))
  BY <1>2, <1>3 DEF SearchAdmits
<1>5. Boxed(p, o.space, o.turn) = BoxIn(job, p, o.space, o.turn)
  BY DEF Boxed, BoxIn
<1> QED
  BY <1>2, <1>3, <1>4, <1>5 DEF IsOption, turns

LEMMA LoadStarts == LoadInit => LoadInv
<1> SUFFICES ASSUME LoadInit
             PROVE  LoadInv
  OBVIOUS
<1>1. job \in Jobs /\ phase \in {"arrange", "seed", "search", "done", "failed"}
  BY DEF LoadInit
<1>2. PICK a : a = <<>>
  OBVIOUS
<1>3. Loaded(a, job) /\ Len(a) = 0
  BY <1>1, <1>2, NothingIsLoaded
<1>4. 1..Len(a) = {}
  BY <1>3
<1>5. /\ placed = a /\ unplaced = {} /\ pending = Packing(job) /\ phase \notin {"search", "done"}
      /\ (phase = "arrange" => job.engine \in Heuristics) /\ (phase = "seed" => job.engine \notin Heuristics)
  BY <1>2 DEF LoadInit
<1>6. IsSolution(a, {}, job)
  BY <1>3, <1>4 DEF IsSolution
<1>7. EachHasItsPlace
  BY <1>4, <1>5, <1>6 DEF EachHasItsPlace
<1>8. best.placed = a /\ best.unplaced = {}
  BY <1>2 DEF LoadInit
<1>9. IsStack(stack, job, Ordered)
  BY OneStack DEF LoadInit
<1> QED
  BY <1>1, <1>5, <1>6, <1>7, <1>8, <1>9 DEF LoadInv

LEMMA LoadInvUnchanged ==
  ASSUME LoadInv, UNCHANGED job
  PROVE  /\ Ordered' = Ordered
         /\ UNCHANGED <<phase, placed, pending, unplaced>> => EachHasItsPlace'
<1>1. Ordered' = Ordered
  BY DEF Ordered, ComesBefore, Priority
<1> QED
  BY <1>1 DEF LoadInv, EachHasItsPlace

LEMMA PlaceNextKeeps == LoadInv /\ PlaceNext => LoadInv'
<1> SUFFICES ASSUME LoadInv, PlaceNext
             PROVE  LoadInv'
  OBVIOUS
<1>1. PICK c \in Selected :
        /\ placed' = RecomputeSupportedWeights(Append(placed, c))
        /\ IF phase = "arrange"
             THEN /\ pending' = Light \ {c.pkg}
                  /\ unplaced' = unplaced \cup (pending \ Light)
             ELSE /\ pending' = pending \ {c.pkg}
                  /\ UNCHANGED unplaced
  BY DEF PlaceNext
<1>2. /\ job \in Jobs /\ Loaded(placed, job) /\ pending \subseteq Packing(job)
      /\ unplaced \subseteq Packing(job) /\ pending \cap unplaced = {}
      /\ \A m \in 1..Len(placed) : placed[m].pkg \notin pending /\ placed[m].pkg \notin unplaced
  BY DEF LoadInv, EachHasItsPlace, IsSolution
<1>3. MayFollow(c, placed, job) /\ c.pkg \in Light
  BY <1>2, SelectedMayFollow
<1>4. placed' = With(placed, c)
  BY <1>1 DEF With
<1>5. Loaded(placed', job)
  BY <1>2, <1>3, <1>4, LoadedWith
<1>6. /\ Len(placed) \in Nat /\ Len(placed') = Len(placed) + 1
      /\ \A k \in 1..Len(placed) : placed'[k].pkg = placed[k].pkg
      /\ placed'[Len(placed) + 1].pkg = c.pkg
  BY <1>2, <1>3, <1>4, Arranged, ArrangedWith DEF Loaded, MayFollow, Alike
<1>7. /\ 1..Len(placed) \subseteq 1..Len(placed') /\ Len(placed) + 1 \in 1..Len(placed')
      /\ \A k \in 1..Len(placed') : k \in 1..Len(placed) \/ k = Len(placed) + 1
  BY <1>6
<1>8. UNCHANGED <<job, phase, best, stack>> /\ phase \in {"arrange", "seed"} /\ Light \subseteq pending
  BY DEF PlaceNext, Light
<1>9. /\ pending' \subseteq pending \ {c.pkg} /\ unplaced' \subseteq Packing(job)
      /\ unplaced' \subseteq unplaced \cup (pending \ Light)
      /\ pending' \cap unplaced' = {}
  BY <1>1, <1>2, <1>8
<1>10. \A m \in 1..Len(placed') : placed'[m].pkg \notin unplaced' /\ placed'[m].pkg \notin pending'
  BY <1>2, <1>3, <1>6, <1>7, <1>8, <1>9
<1>11. phase = "arrange" =>
         \A p \in Packing(job) : \/ p \in pending' \/ p \in unplaced'
                                 \/ \E m \in 1..Len(placed') : placed'[m].pkg = p
  <2> SUFFICES ASSUME phase = "arrange", NEW p \in Packing(job), p \notin pending', p \notin unplaced'
               PROVE  \E m \in 1..Len(placed') : placed'[m].pkg = p
    OBVIOUS
  <2>1. p = c.pkg \/ \E m \in 1..Len(placed) : placed[m].pkg = p
    BY <1>1 DEF LoadInv, EachHasItsPlace
  <2> QED
    BY <1>6, <1>7, <2>1
<1>12. IsSolution(placed', unplaced', job)
  BY <1>5, <1>9, <1>10 DEF IsSolution
<1>13. EachHasItsPlace'
  <2>1. /\ phase = "arrange" => job.engine \in Heuristics
        /\ phase \in {"seed", "search"} => job.engine \notin Heuristics
    BY DEF LoadInv, EachHasItsPlace
  <2> QED
    BY <1>2, <1>8, <1>9, <1>10, <1>11, <1>12, <2>1 DEF EachHasItsPlace
<1>14. Ordered' = Ordered
  BY <1>8, LoadInvUnchanged
<1> QED
  BY <1>8, <1>13, <1>14 DEF LoadInv

LEMMA EndArrangementKeeps == LoadInv /\ EndArrangement => LoadInv'
<1> SUFFICES ASSUME LoadInv, EndArrangement
             PROVE  LoadInv'
  OBVIOUS
<1>1. /\ phase = "arrange" /\ phase' = "done" /\ pending' = {} /\ unplaced' = unplaced \cup pending
      /\ UNCHANGED <<job, placed, best, stack>>
  BY DEF EndArrangement
<1>2. EachHasItsPlace'
  BY <1>1 DEF LoadInv, EachHasItsPlace, IsSolution
<1>3. Ordered' = Ordered
  BY <1>1, LoadInvUnchanged
<1> QED
  BY <1>1, <1>2, <1>3 DEF LoadInv

\* What a load and what it leaves behind do not name can be left behind, too.
LEMMA TheRestIsLeft ==
  ASSUME NEW a, Loaded(a, job), NEW left \in SUBSET Packing(job)
  PROVE  LET rest == Unnamed(left \cup {c.pkg : c \in Items(a)})
         IN  /\ rest \subseteq Packing(job)
             /\ \A m \in 1..Len(a) : a[m].pkg \notin rest
             /\ left = {} => IsReported(a, rest, job)
<1> DEFINE named == left \cup {c.pkg : c \in Items(a)}
<1>1. Items(a) = {a[k] : k \in 1..Len(a)}
  BY Arranged DEF Loaded
<1>2. /\ \A m \in 1..Len(a) : a[m].pkg \in named
      /\ left = {} => \A p \in named : \E m \in 1..Len(a) : p = a[m].pkg
  BY <1>1
<1> HIDE DEF named
<1>3. \A p \in Packing(job) : p \in Unnamed(named) <=> ~\E r \in named : Code(job, p) = Code(job, r)
  BY DEF Unnamed, Packages
<1>4. Unnamed(named) \subseteq Packing(job)
  BY DEF Unnamed
<1>5. \A m \in 1..Len(a) : a[m].pkg \notin Unnamed(named)
  BY <1>2, <1>3, <1>4
<1>6. left = {} => IsReported(a, Unnamed(named), job)
  BY <1>2, <1>3 DEF IsReported
<1> QED
  BY <1>4, <1>5, <1>6 DEF named

LEMMA EndSeedKeeps == LoadInv /\ EndSeed => LoadInv'
<1> SUFFICES ASSUME LoadInv, EndSeed
             PROVE  LoadInv'
  OBVIOUS
<1>1. /\ phase' = "search" /\ pending' = {} /\ UNCHANGED <<job, placed, unplaced>>
      /\ best' = [placed |-> placed, unplaced |-> Unnamed({c.pkg : c \in Items(placed)})]
      /\ phase = "seed"
      /\ \/ stack' = <<NewFrame(1, {WholeTruck}, <<>>, {})>>
         \/ stack' = <<>>
  BY DEF EndSeed
<1>2. job \in Jobs /\ Loaded(placed, job)
  BY DEF LoadInv, EachHasItsPlace, IsSolution
<1>3. EachHasItsPlace'
  BY <1>1 DEF LoadInv, EachHasItsPlace
<1>4. IsSolution(best'.placed, best'.unplaced, job) /\ IsReported(best'.placed, best'.unplaced, job)
  <2>1. PICK S : S = {c.pkg : c \in Items(placed)}
    OBVIOUS
  <2>2. best'.placed = placed /\ best'.unplaced = Unnamed(S)
    BY <1>1, <2>1
  <2>3. {} \cup S = S /\ {} \in SUBSET Packing(job)
    OBVIOUS
  <2>4. /\ Unnamed({} \cup S) \subseteq Packing(job)
        /\ \A m \in 1..Len(placed) : placed[m].pkg \notin Unnamed({} \cup S)
        /\ IsReported(placed, Unnamed({} \cup S), job)
    BY <1>2, <2>1, <2>3, TheRestIsLeft
  <2> QED
    BY <1>2, <2>2, <2>3, <2>4 DEF IsSolution
<1>5. IsFrame(NewFrame(1, {WholeTruck}, <<>>, {}), job, Ordered)
  BY <1>2, OrderIs, FirstFrame DEF WholeTruck
<1>6. IsStack(stack', job, Ordered)
  BY <1>1, <1>5, OneStack
<1>7. Ordered' = Ordered
  BY <1>1, LoadInvUnchanged
<1> QED
  BY <1>1, <1>2, <1>3, <1>4, <1>6, <1>7 DEF LoadInv

\* The steps of the search change its stack and the best solution only.
LEMMA SearchKeeps ==
  ASSUME LoadInv, UNCHANGED <<job, phase, placed, pending, unplaced>>,
         \/ best' = best
         \/ /\ IsSolution(best'.placed, best'.unplaced, job)
            /\ IsReported(best'.placed, best'.unplaced, job),
         IsStack(stack', job, Ordered)
  PROVE  LoadInv'
<1>1. Ordered' = Ordered /\ EachHasItsPlace'
  BY LoadInvUnchanged
<1> QED
  BY <1>1 DEF LoadInv

LEMMA OnTop ==
  ASSUME LoadInv, stack # <<>>
  PROVE  /\ job \in Jobs /\ IsOrder(Ordered, job) /\ IsFrame(Top, job, Ordered)
         /\ IsSolution(best.placed, best.unplaced, job)
         /\ IsStack(Tail(stack), job, Ordered)
         /\ \A f : IsFrame(f, job, Ordered) => IsStack(<<f>> \o Tail(stack), job, Ordered)
         /\ \A f, g : IsFrame(f, job, Ordered) /\ IsFrame(g, job, Ordered)
              => IsStack(<<f, g>> \o Tail(stack), job, Ordered)
<1>1. job \in Jobs /\ IsStack(stack, job, Ordered) /\ IsSolution(best.placed, best.unplaced, job)
  BY DEF LoadInv
<1>2. IsOrder(Ordered, job)
  BY <1>1, OrderIs
<1>3. IsFrame(stack[1], job, Ordered)
  BY <1>1, Stacks
<1> QED
  BY <1>1, <1>2, <1>3, Stacks DEF Top

LEMMA PruneKeeps == LoadInv /\ Prune => LoadInv'
<1> SUFFICES ASSUME LoadInv, Prune
             PROVE  LoadInv'
  OBVIOUS
<1>1. stack # <<>> /\ stack' = Tail(stack) /\ UNCHANGED <<job, phase, placed, pending, unplaced, best>>
  BY DEF Prune, Entering, Pop
<1> QED
  BY <1>1, OnTop, SearchKeeps

LEMMA LeafKeeps == LoadInv /\ Leaf => LoadInv'
<1> SUFFICES ASSUME LoadInv, Leaf
             PROVE  LoadInv'
  OBVIOUS
<1>1. /\ stack # <<>> /\ stack' = Tail(stack) /\ UNCHANGED <<job, phase, placed, pending, unplaced>>
      /\ Top.index > Len(Ordered)
      /\ best' = best \/ best' = [placed |-> Top.placed, unplaced |-> Top.unplaced]
  BY DEF Leaf, Fresh, Entering, Pop
<1>2. IsSolution(Top.placed, Top.unplaced, job) /\ IsReported(Top.placed, Top.unplaced, job)
  BY <1>1, OnTop, FrameIsSolution
<1>3. \/ best' = best
      \/ /\ IsSolution(best'.placed, best'.unplaced, job)
         /\ IsReported(best'.placed, best'.unplaced, job)
  BY <1>1, <1>2
<1> QED
  BY <1>1, <1>3, OnTop, SearchKeeps

LEMMA LeaveOutKeeps == LoadInv /\ LeaveOut => LoadInv'
<1> SUFFICES ASSUME LoadInv, LeaveOut
             PROVE  LoadInv'
  OBVIOUS
<1>1. /\ stack # <<>> /\ Top.index <= Len(Ordered)
      /\ stack' = <<Without(Ordered[Top.index], Top)>> \o Tail(stack)
      /\ UNCHANGED <<job, phase, placed, pending, unplaced, best>>
  BY DEF LeaveOut, Fresh, Entering
<1>2. IsFrame(Without(Ordered[Top.index], Top), job, Ordered)
  BY <1>1, OnTop, WithoutIsFrame
<1>3. IsStack(stack', job, Ordered)
  BY <1>1, <1>2, OnTop
<1> QED
  BY <1>1, <1>3, OnTop, SearchKeeps

LEMMA BranchKeeps == LoadInv /\ Branch => LoadInv'
<1> SUFFICES ASSUME LoadInv, Branch
             PROVE  LoadInv'
  OBVIOUS
<1>1. PICK f : f = [Top EXCEPT !.open = TRUE, !.options = OptionsFor(Ordered[Top.index], Top)]
  OBVIOUS
<1>2. /\ stack # <<>> /\ Top.index <= Len(Ordered)
      /\ WeightAllowed(Weight(Top.placed), Data(job, Ordered[Top.index]).weight, job.truck)
      /\ stack' = <<f>> \o Tail(stack)
      /\ UNCHANGED <<job, phase, placed, pending, unplaced, best>>
  BY <1>1 DEF Branch, Fresh, Entering
<1>3. \A o \in OptionsFor(Ordered[Top.index], Top) : IsOption(o, Top, job, Ordered[Top.index])
  BY OptionsAre
<1>4. IsFrame(f, job, Ordered)
  BY <1>1, <1>2, <1>3, OnTop, OpenIsFrame DEF WeightAllowed
<1>5. IsStack(stack', job, Ordered)
  BY <1>2, <1>4, OnTop
<1> QED
  BY <1>2, <1>5, OnTop, SearchKeeps

LEMMA TryOptionKeeps == LoadInv /\ TryOption => LoadInv'
<1> SUFFICES ASSUME LoadInv, TryOption
             PROVE  LoadInv'
  OBVIOUS
<1>1. /\ stack # <<>> /\ Top.open
      /\ UNCHANGED <<job, phase, placed, pending, unplaced, best>>
      /\ \E o \in Top.options :
           LET p == Ordered[Top.index]
               child == NewFrame(Top.index + 1, (Top.spaces \ {o.space}) \cup Split(o.space, o.turn),
                                 RecomputeSupportedWeights(
                                   Append(Top.placed, Boxed(p, o.space, o.turn))),
                                 Top.unplaced)
           IN  stack' = <<child, [Top EXCEPT !.options = @ \ {o}]>> \o Tail(stack)
  BY DEF TryOption, Returned
<1>2. PICK o \in Top.options :
        stack' = <<NewFrame(Top.index + 1, (Top.spaces \ {o.space}) \cup Split(o.space, o.turn),
                            RecomputeSupportedWeights(
                              Append(Top.placed, Boxed(Ordered[Top.index], o.space, o.turn))),
                            Top.unplaced),
                   [Top EXCEPT !.options = @ \ {o}]>> \o Tail(stack)
  BY <1>1
<1>3. PICK child : child = NewFrame(Top.index + 1, (Top.spaces \ {o.space}) \cup Split(o.space, o.turn),
                                    With(Top.placed, BoxIn(job, Ordered[Top.index], o.space, o.turn)),
                                    Top.unplaced)
  OBVIOUS
<1>4. PICK rest : rest = [Top EXCEPT !.options = @ \ {o}]
  OBVIOUS
<1>5. stack' = <<child, rest>> \o Tail(stack)
  BY <1>2, <1>3, <1>4 DEF With, Boxed, BoxIn
<1>6. IsFrame(child, job, Ordered)
  BY <1>1, <1>3, OnTop, ChildIsFrame
<1>7. IsFrame(rest, job, Ordered)
  BY <1>1, <1>4, OnTop, LessOptionsIsFrame
<1>8. IsStack(stack', job, Ordered)
  BY <1>1, <1>5, <1>6, <1>7, OnTop
<1> QED
  BY <1>1, <1>8, OnTop, SearchKeeps

LEMMA SkipPackageKeeps == LoadInv /\ SkipPackage => LoadInv'
<1> SUFFICES ASSUME LoadInv, SkipPackage
             PROVE  LoadInv'
  OBVIOUS
<1>1. /\ stack # <<>> /\ Top.open
      /\ stack' = <<Without(Ordered[Top.index], Top)>> \o Tail(stack)
      /\ UNCHANGED <<job, phase, placed, pending, unplaced, best>>
  BY DEF SkipPackage, Returned
<1>2. Top.index <= Len(Ordered)
  BY <1>1, OnTop DEF IsFrame
<1>3. IsFrame(Without(Ordered[Top.index], Top), job, Ordered)
  BY <1>1, <1>2, OnTop, WithoutIsFrame
<1>4. IsStack(stack', job, Ordered)
  BY <1>1, <1>3, OnTop
<1> QED
  BY <1>1, <1>4, OnTop, SearchKeeps

LEMMA FinishKeeps == LoadInv /\ phase = "search" /\ Finish => LoadInv'
<1> SUFFICES ASSUME LoadInv, phase = "search", Finish
             PROVE  LoadInv'
  OBVIOUS
<1>1. /\ phase' = "done" /\ placed' = best.placed /\ stack' = <<>>
      /\ \/ unplaced' = best.unplaced
         \/ unplaced' = best.unplaced \cup Unnamed(best.unplaced \cup {c.pkg : c \in Items(best.placed)})
      /\ UNCHANGED <<job, pending, best>>
  BY DEF Finish
<1>2. IsSolution(placed', unplaced', job) /\ IsReported(placed', unplaced', job) /\ job.engine \notin Heuristics
  <2>1. /\ Loaded(best.placed, job) /\ best.unplaced \in SUBSET Packing(job)
        /\ \A m \in 1..Len(best.placed) : best.placed[m].pkg \notin best.unplaced
        /\ IsReported(best.placed, best.unplaced, job) /\ job.engine \notin Heuristics
    BY DEF LoadInv, EachHasItsPlace, IsSolution
  <2>2. PICK rest : rest = Unnamed(best.unplaced \cup {c.pkg : c \in Items(best.placed)})
    OBVIOUS
  <2>3. /\ rest \subseteq Packing(job)
        /\ \A m \in 1..Len(best.placed) : best.placed[m].pkg \notin rest
    BY <2>1, <2>2, TheRestIsLeft
  <2>4. unplaced' = best.unplaced \/ unplaced' = best.unplaced \cup rest
    BY <1>1, <2>2
  <2> QED
    BY <1>1, <2>1, <2>3, <2>4 DEF IsSolution, IsReported
<1>3. pending' = {}
  BY <1>1 DEF LoadInv, EachHasItsPlace
<1>4. EachHasItsPlace'
  BY <1>1, <1>2, <1>3 DEF EachHasItsPlace
<1>5. Ordered' = Ordered /\ IsStack(stack', job, Ordered)
  BY <1>1, LoadInvUnchanged, OneStack
<1> QED
  BY <1>1, <1>4, <1>5 DEF LoadInv

\* What every step of a run keeps.
LEMMA LoadInvAlways == LoadSpec => []LoadInv
<1>1. LoadInv /\ [LoadNext]_loadVars => LoadInv'
  <2> SUFFICES ASSUME LoadInv, [LoadNext]_loadVars
               PROVE  LoadInv'
    OBVIOUS
  <2>1. CASE UNCHANGED loadVars
    <3>1. /\ UNCHANGED <<job, phase, placed, pending, unplaced>>
          /\ best' = best /\ IsStack(stack', job, Ordered)
      BY <2>1 DEF loadVars, LoadInv
    <3> QED
      BY <3>1, SearchKeeps
  <2>2. CASE EndSearch
    BY <2>2, FinishKeeps DEF EndSearch
  <2>3. CASE RunOutOfBudget
    BY <2>3, FinishKeeps DEF RunOutOfBudget
  <2> QED
    BY <2>1, <2>2, <2>3, PlaceNextKeeps, EndArrangementKeeps, EndSeedKeeps, PruneKeeps, LeafKeeps,
       LeaveOutKeeps, BranchKeeps, TryOptionKeeps, SkipPackageKeeps DEF LoadNext
<1> QED
  BY <1>1, LoadStarts, PTL DEF LoadSpec
-------------------------------------------------------------------------------
(* What the properties say, from what is known by places.                    *)

LEMMA LoadedByItems ==
  ASSUME NEW j, NEW a, Loaded(a, j)
  PROVE  /\ {c.pkg : c \in Items(a)} \subseteq Packing(j)
         /\ \A c \in Items(a) : InsideTruck(c, j.truck) /\ HasMinimumSupport(c, Items(a) \ {c})
         /\ \A k, m \in DOMAIN a : k # m => Separated(a[k], a[m])
         /\ Weight(a) <= j.truck.capacity
<1>1. /\ DOMAIN a = 1..Len(a) /\ Items(a) = {a[k] : k \in 1..Len(a)}
      /\ \A k, m \in 1..Len(a) : a[k] = a[m] => k = m
  BY Arranged DEF Loaded
<1>2. ASSUME NEW k \in 1..Len(a)
      PROVE  HasMinimumSupport(a[k], Items(a) \ {a[k]})
  <2>1. Items(a) \ {a[k]} = BoxesAt(a, (1..Len(a)) \ {k})
    BY <1>1 DEF BoxesAt
  <2>2. HasMinimumSupport(a[k], BoxesAt(a, (1..Len(a)) \ {k}))
    BY DEF Loaded
  <2> QED
    BY <2>1, <2>2
<1>3. \A c \in Items(a) : HasMinimumSupport(c, Items(a) \ {c})
  BY <1>1, <1>2
<1>4. \A c \in Items(a) : c.pkg \in Packing(j) /\ InsideTruck(c, j.truck)
  BY <1>1 DEF Loaded
<1> QED
  BY <1>1, <1>3, <1>4 DEF Loaded, IsArrangement

LEMMA LoadedInTurn ==
  ASSUME NEW j, NEW a, Loaded(a, j), NEW k \in 1..Len(a)
  PROVE  PathClear(a[k], j.truck, Items(SubSeq(a, 1, k - 1)))
<1>1. Len(a) \in Nat /\ Items(a) = {a[m] : m \in 1..Len(a)}
  BY Arranged DEF Loaded
<1>2. PICK s : s = SubSeq(a, 1, k - 1)
  OBVIOUS
<1>3. \A i \in 1..(k - 1) : a[i] \in Items(a)
  BY <1>1
<1>4. /\ s \in Seq(Items(a))
      /\ Len(s) = IF 1 <= k - 1 THEN k - 1 - 1 + 1 ELSE 0
      /\ \A i \in 1..(k - 1 - 1 + 1) : s[i] = a[1 + i - 1]
  <2>1. 1 \in Int /\ k - 1 \in Int
    OBVIOUS
  <2> QED
    BY <1>2, <1>3, <2>1, SubSeqProperties
<1>5. DOMAIN s = 1..(k - 1) /\ \A i \in 1..(k - 1) : s[i] = a[i]
  <2>1. DOMAIN s = 1..Len(s)
    BY <1>4, LenProperties
  <2>2. Len(s) = k - 1
    BY <1>1, <1>4
  <2> QED
    BY <1>4, <2>1, <2>2
<1>6. Items(s) = BoxesAt(a, 1..(k - 1))
  BY <1>5 DEF Items, ToSet, BoxesAt
<1> QED
  BY <1>2, <1>6 DEF Loaded

LEMMA EveryArrangementIsLoaded ==
  ASSUME LoadInv, NEW a \in Arrangements
  PROVE  Loaded(a, job)
<1>1. CASE a \in {placed, best.placed}
  BY <1>1 DEF LoadInv, EachHasItsPlace, IsSolution
<1>2. CASE a \in {stack[k].placed : k \in DOMAIN stack}
  <2>1. PICK k \in DOMAIN stack : a = stack[k].placed
    BY <1>2
  <2>2. PICK F : stack \in Seq(F) /\ \A f \in F : IsFrame(f, job, Ordered)
    BY DEF LoadInv, IsStack
  <2>3. stack[k] \in F
    BY <2>1, <2>2, LenProperties, ElementOfSeq
  <2> QED
    BY <2>1, <2>2, <2>3 DEF IsFrame
<1> QED
  BY <1>1, <1>2 DEF Arrangements

LEMMA LoadInvIsSound == LoadInv => LoadIsSound
<1> SUFFICES ASSUME LoadInv
             PROVE  LoadIsSound
  OBVIOUS
<1>1. \A k \in DOMAIN stack : stack[k].index \in 1..(Len(Ordered) + 1)
  <2>1. PICK F : stack \in Seq(F) /\ \A f \in F : IsFrame(f, job, Ordered)
    BY DEF LoadInv, IsStack
  <2>2. \A k \in DOMAIN stack : stack[k] \in F
    BY <2>1, LenProperties, ElementOfSeq
  <2> QED
    BY <2>1, <2>2 DEF IsFrame
<1>2. \A a \in Arrangements :
        /\ {c.pkg : c \in Items(a)} \subseteq Packing(job)
        /\ \A c \in Items(a) : InsideTruck(c, job.truck) /\ HasMinimumSupport(c, Items(a) \ {c})
        /\ \A k, m \in DOMAIN a : k # m => Separated(a[k], a[m])
        /\ Weight(a) <= job.truck.capacity
  BY EveryArrangementIsLoaded, LoadedByItems
<1>3. LoadTypeOK
  BY <1>1, <1>2 DEF LoadTypeOK, LoadInv, EachHasItsPlace, IsSolution
<1>4. DOMAIN placed = 1..Len(placed) /\ Items(placed) = {placed[m] : m \in 1..Len(placed)}
  BY Arranged DEF LoadInv, EachHasItsPlace, IsSolution, Loaded
<1>5. \A k, m \in DOMAIN placed : placed[k].pkg = placed[m].pkg => k = m
  BY <1>4 DEF LoadInv, EachHasItsPlace, IsSolution, Loaded
<1>6. ASSUME phase = "done"
      PROVE  /\ {c.pkg : c \in Items(placed)} \cap unplaced = {}
             /\ \A p \in Packing(job) \ ({c.pkg : c \in Items(placed)} \cup unplaced) :
                  /\ job.engine \notin Heuristics
                  /\ Code(job, p) \in Packages({c.pkg : c \in Items(placed)})
  <2>1. PICK S : S = {c.pkg : c \in Items(placed)}
    OBVIOUS
  <2>2. /\ \A m \in 1..Len(placed) : placed[m].pkg \in S
        /\ \A p \in S : \E m \in 1..Len(placed) : p = placed[m].pkg
    BY <1>4, <2>1
  <2>3. S \cap unplaced = {}
    BY <2>2 DEF LoadInv, EachHasItsPlace, IsSolution
  <2>4. ASSUME NEW p \in Packing(job), p \notin S, p \notin unplaced
        PROVE  job.engine \notin Heuristics /\ Code(job, p) \in Packages(S)
    <3>1. job.engine \notin Heuristics
      BY <1>6, <2>2, <2>4 DEF LoadInv, EachHasItsPlace
    <3>2. \E m \in 1..Len(placed) : Code(job, placed[m].pkg) = Code(job, p)
      BY <1>6, <2>4, <3>1 DEF LoadInv, EachHasItsPlace, IsReported
    <3> QED
      BY <2>2, <3>1, <3>2 DEF Packages
  <2> QED
    BY <2>1, <2>3, <2>4
<1> QED
  BY <1>2, <1>3, <1>5, <1>6 DEF LoadIsSound

\* Whatever a heuristic, the search or the search cut short has arranged is in
\* the truck, apart, supported and light enough, and in the end every package
\* is placed or left behind, one that was asked for once not both and not twice.
THEOREM LoadIsSoundAlways == LoadSpec => []LoadIsSound
  BY LoadInvAlways, LoadInvIsSound, PTL

\* Every package has a free way from the door to its place when its turn
\* comes, in what the search arranges, too, which does not look for one.
THEOREM LoadedFromTheDoorAlways == LoadSpec => []LoadedFromTheDoor
<1>1. LoadInv => LoadedFromTheDoor
  <2> SUFFICES ASSUME LoadInv, NEW a \in Arrangements, NEW k \in 1..(Cardinality(Packing(job))),
                      k <= Len(a)
               PROVE  PathClear(a[k], job.truck, Items(SubSeq(a, 1, k - 1)))
    BY DEF LoadedFromTheDoor
  <2>1. Loaded(a, job)
    BY EveryArrangementIsLoaded
  <2>2. Len(a) \in Nat
    BY <2>1, Arranged DEF Loaded
  <2>3. k \in Nat \ {0}
    <3>1. \A n : \A i \in 1..n : i \in Nat \ {0}
      BY CargoIs
    <3> QED
      BY <3>1
  <2>4. k \in 1..Len(a)
    BY <2>2, <2>3
  <2> QED
    BY <2>1, <2>4, LoadedInTurn
<1> QED
  BY <1>1, LoadInvAlways, PTL

\* The search gives no solution up for a worse one, and ends with the best it
\* knows when its time is up.
THEOREM NeverWorseThanTheSeedAlways == LoadSpec => NeverWorseThanTheSeed
<1> DEFINE NotWorse ==
      phase = "search" =>
        /\ Len(best'.placed) >= Len(best.placed)
        /\ Len(best'.placed) = Len(best.placed) => UsedVolume(best'.placed) >= UsedVolume(best.placed)
        /\ phase' = "done" => placed' = best.placed
<1>1. LoadInv /\ [LoadNext]_loadVars => [NotWorse]_loadVars
  <2> SUFFICES ASSUME LoadInv, LoadNext, phase = "search"
               PROVE  NotWorse
    OBVIOUS
  <2>1. Len(best.placed) \in Nat /\ UsedVolume(best.placed) \in Nat
    BY Arranged, VolumeIsNatural DEF LoadInv, IsSolution, Loaded
  <2>2. CASE UNCHANGED <<best, phase>>
    BY <2>1, <2>2
  <2>3. CASE Leaf
    <3>1. stack # <<>> /\ phase' = phase
      BY <2>3 DEF Leaf, Fresh, Entering
    <3>2. Len(Top.placed) \in Nat /\ UsedVolume(Top.placed) \in Nat
      BY <3>1, OnTop, Arranged, VolumeIsNatural DEF IsFrame, Loaded
    <3>3. PICK found : found = [placed |-> Top.placed, unplaced |-> Top.unplaced]
      OBVIOUS
    <3>4. best' = IF Better(found, best) THEN found ELSE best
      BY <2>3, <3>3 DEF Leaf
    <3>5. CASE Better(found, best)
      BY <2>1, <3>1, <3>2, <3>3, <3>4, <3>5 DEF Better
    <3>6. CASE ~Better(found, best)
      BY <2>1, <3>1, <3>4, <3>6
    <3> QED
      BY <3>5, <3>6
  <2>4. CASE Finish
    BY <2>1, <2>4 DEF Finish
  <2> QED
    BY <2>2, <2>3, <2>4 DEF LoadNext, PlaceNext, EndArrangement, EndSeed, Prune, LeaveOut, Branch,
       TryOption, SkipPackage, EndSearch, RunOutOfBudget
<1> QED
  BY <1>1, LoadInvAlways, PTL DEF LoadSpec, NeverWorseThanTheSeed
===============================================================================
