-------------------------- MODULE MCAssistantWizard --------------------------
(* Texts for AssistantWizard, one or two of each sort, with what the         *)
(* functions of nlp.py, text_utils.py, wizard.py and service.py return for   *)
(* them.  What is left out is FALSE, empty or None.  The names,              *)
(* descriptions, weights, sizes and fragilities found are all one value.     *)
EXTENDS AssistantWizard

\* A text in which nothing is found.
Unmarked ==
  [hits |-> <<>>, affirms |-> FALSE, denies |-> FALSE, cancels |-> FALSE, accepts |-> FALSE,
   corrects |-> FALSE, skips |-> FALSE, number |-> FALSE, notDni |-> FALSE, digits |-> FALSE,
   asksDocs |-> FALSE, online |-> FALSE, agency |-> FALSE, names |-> NoValue, answers |-> {},
   finds |-> [dni |-> NoValue, nombre |-> NoValue, telefono |-> NoValue, destino |-> NoValue,
              descripcion |-> NoValue, peso_kg |-> NoValue, dimensiones |-> NoValue,
              fragilidad |-> NoValue]]

SampleTexts ==
  [
    \* "quiero pre-registrar un envío"
   Begin |->
     [Unmarked EXCEPT
       !.hits = [pre_registro |-> 7], !.answers = {"nombre", "descripcion"},
       !.finds.nombre = "given", !.finds.descripcion = "given"],
    \* "quiero cotizar un envío"
   BeginQuote |->
     [Unmarked EXCEPT
       !.hits = [cotizacion |-> 2], !.answers = {"nombre"},
       !.finds.nombre = "given", !.finds.descripcion = "given"],
    \* "70876543"
   Dni |->
     [Unmarked EXCEPT
       !.number = TRUE, !.digits = TRUE,
       !.answers = {"dni", "telefono", "peso_kg"}, !.finds.dni = "d"],
    \* "1799"
   BadNumber |->
     [Unmarked EXCEPT
       !.number = TRUE, !.notDni = TRUE, !.digits = TRUE,
       !.answers = {"dni", "telefono", "peso_kg"}],
    \* "Ana Diaz Rojas"
   Name |->
     [Unmarked EXCEPT
       !.answers = {"nombre"}, !.finds.nombre = "given",
       !.finds.descripcion = "given"],
    \* "987654321"
   Phone |->
     [Unmarked EXCEPT
       !.number = TRUE, !.notDni = TRUE, !.digits = TRUE,
       !.answers = {"dni", "telefono", "peso_kg"}, !.finds.telefono = "given"],
    \* "912345678"
   OtherPhone |->
     [Unmarked EXCEPT
       !.number = TRUE, !.notDni = TRUE, !.digits = TRUE,
       !.answers = {"dni", "telefono", "peso_kg"}, !.finds.telefono = "other"],
    \* "no tengo"
   NoPhone |->
     [Unmarked EXCEPT
       !.denies = TRUE, !.skips = TRUE, !.answers = {"telefono", "nombre"},
       !.finds.nombre = "given", !.finds.descripcion = "given"],
    \* "Shorey"
   Shorey |->
     [Unmarked EXCEPT
       !.answers = {"destino"}, !.finds.destino = "Shorey"],
    \* "agencia de Shorey"
   ShoreyAgency |->
     [Unmarked EXCEPT
       !.hits = [sedes |-> 2], !.agency = TRUE, !.answers = {"nombre", "destino"},
       !.finds.nombre = "given", !.finds.destino = "Shorey",
       !.finds.descripcion = "given"],
    \* "Trujillo"
   Trujillo |->
     [Unmarked EXCEPT
       !.answers = {"destino"}, !.finds.destino = "Trujillo"],
    \* "ropa"
   Clothes |->
     [Unmarked EXCEPT
       !.answers = {"descripcion"}, !.finds.descripcion = "given",
       !.finds.fragilidad = "given"],
    \* "documentos"
   Papers |->
     [Unmarked EXCEPT
       !.hits = [documentacion |-> 2], !.answers = {"descripcion"},
       !.finds.descripcion = "given"],
    \* "ropa de oficina"
   OfficeClothes |->
     [Unmarked EXCEPT
       !.hits = [sedes |-> 2], !.answers = {"nombre", "descripcion"},
       !.finds.nombre = "given", !.finds.descripcion = "given",
       !.finds.fragilidad = "given"],
    \* "2.5"
   Weight |->
     [Unmarked EXCEPT
       !.number = TRUE, !.notDni = TRUE, !.digits = TRUE,
       !.answers = {"dni", "telefono", "peso_kg"}, !.finds.peso_kg = "given"],
    \* "30x20x15"
   Size |->
     [Unmarked EXCEPT
       !.number = TRUE, !.notDni = TRUE, !.answers = {"dimensiones"},
       !.finds.dimensiones = "given"],
    \* "BAJA"
   Low |->
     [Unmarked EXCEPT
       !.answers = {"fragilidad"}, !.finds.fragilidad = "given"],
    \* "sí"
   Yes |->
     [Unmarked EXCEPT
       !.affirms = TRUE],
    \* "sí, acepto el precio"
   YesPrice |->
     [Unmarked EXCEPT
       !.hits = [cotizacion |-> 2], !.affirms = TRUE, !.accepts = TRUE,
       !.answers = {"nombre"}, !.finds.descripcion = "given"],
    \* "no"
   No |->
     [Unmarked EXCEPT
       !.denies = TRUE],
    \* "no, cambiar el destino"
   NoDestination |->
     [Unmarked EXCEPT
       !.denies = TRUE, !.names = "destino", !.answers = {"nombre"},
       !.finds.descripcion = "given"],
    \* "el destinatario"
   ItsRecipient |->
     [Unmarked EXCEPT
       !.names = "destinatario", !.answers = {"nombre"}, !.finds.nombre = "given",
       !.finds.descripcion = "given"],
    \* "cancelar"
   Stop |->
     [Unmarked EXCEPT
       !.cancels = TRUE, !.finds.descripcion = "given"],
    \* "¿a qué hora atienden?"
   Hours |->
     [Unmarked EXCEPT
       !.hits = [horarios |-> 5], !.answers = {"nombre"},
       !.finds.descripcion = "given"],
    \* "pago con tarjeta"
   Card |->
     [Unmarked EXCEPT
       !.hits = [metodos_pago |-> 7], !.online = TRUE, !.answers = {"nombre"},
       !.finds.nombre = "given", !.finds.descripcion = "given"],
    \* "en agencia"
   AtAgency |->
     [Unmarked EXCEPT
       !.hits = [sedes |-> 2], !.agency = TRUE, !.answers = {"nombre"},
       !.finds.nombre = "given", !.finds.descripcion = "given"],
    \* "falta el contenido"
   ContentMissing |->
     [Unmarked EXCEPT
       !.corrects = TRUE, !.names = "descripcion",
       !.answers = {"nombre", "descripcion", "fragilidad"},
       !.finds.nombre = "given", !.finds.descripcion = "given",
       !.finds.fragilidad = "given"],
    \* "perfecto"
   Fine |->
     [Unmarked EXCEPT
       !.accepts = TRUE, !.finds.descripcion = "given"],
    \* "¿qué documentos necesito?"
   WhichPapers |->
     [Unmarked EXCEPT
       !.hits = [documentacion |-> 5], !.affirms = TRUE, !.asksDocs = TRUE,
       !.answers = {"nombre", "descripcion"}, !.finds.descripcion = "given"]]

\* The document is nobody's yet, or a client's.
Clients == {[d |-> [nombre |-> NoValue, telefono |-> NoValue]],
            [d |-> [nombre |-> "given", telefono |-> "found"]]}

\* Bounds, for customers who say anything: they give one phone only, and one who
\* has made a pre-registration declines no phone in the next.
WithinScope ==
  \/ willing
  \/ /\ "other" \notin {ctx.data[f] : f \in Fields}
     /\ saved.count = 0 \/ ctx.payment \/ ctx.omitted = {}

AnswersToField ==
  [remitente_dni |-> {"Dni"}, remitente_nombre |-> {"Name"},
   remitente_telefono |-> {"Phone", "NoPhone"}, destinatario_dni |-> {"Dni", "Name"},
   destinatario_nombre |-> {"Name"}, destinatario_telefono |-> {"OtherPhone", "NoPhone"},
   destino |-> {"Shorey", "ShoreyAgency"},
   descripcion |-> {"Clothes", "Papers", "OfficeClothes"}, peso_kg |-> {"Weight"},
   dimensiones |-> {"Size"}, fragilidad |-> {"Low"}]

\* What a willing customer says.  At the end there is nothing more to say.
ProperAnswers(answer) ==
  CASE answer = Start -> {"Begin", "BeginQuote"}
    [] answer[1] \in {"pre_registro", "cotizacion"} -> AnswersToField[answer[2]]
    [] answer[1] = "paso" ->
         CASE answer[2] \in {"summary", "confirm_again", "failed"} -> {"Yes"}
           [] answer[2] = "payment" -> {"Card", "AtAgency"}
           [] answer[2] = "quote" -> {"Yes", "Fine"}
           [] answer[2] \in {"pay_online", "pay_agency"} -> {}
           [] OTHER -> {"Begin"}
    [] OTHER -> {"Begin"}
==============================================================================
