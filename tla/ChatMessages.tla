---------------------------- MODULE ChatMessages ----------------------------
(***************************************************************************)
(* What the assistant gets out of a text: app/integrations/llm/nlp.py, the *)
(* markers of app/modules/asistente and the language model behind them.    *)
(*                                                                         *)
(* A message is known by a name; Texts gives the record of what the        *)
(* deterministic functions of the code return for it: the score of each    *)
(* intention it hits, the markers it contains, the kinds of field it looks *)
(* like an answer to and the value found for each kind.  The language      *)
(* model is external; it is asked where the rules find no intention, and   *)
(* for names and descriptions.                                             *)
(***************************************************************************)
EXTENDS Naturals, Sequences

CONSTANTS
  Texts,        \* what the code reads in each text a customer may send
  NoValue,      \* None: the text has no value for the field
  LlmEnabled    \* the language model is configured

People == {"remitente", "destinatario"}

Field ==
  [remitente |-> [dni |-> "remitente_dni", nombre |-> "remitente_nombre",
                  telefono |-> "remitente_telefono"],
   destinatario |-> [dni |-> "destinatario_dni", nombre |-> "destinatario_nombre",
                     telefono |-> "destinatario_telefono"]]

FieldsOf(p) == {Field[p].dni, Field[p].nombre, Field[p].telefono}

\* The fields a quotation needs, in the order of _siguiente_campo_cotizacion.
QuoteFields == <<"destino", "descripcion", "peso_kg", "dimensiones", "fragilidad">>

Fields == FieldsOf("remitente") \cup FieldsOf("destinatario") \cup {QuoteFields[n] : n \in 1..5}

Kind ==
  [f \in Fields \cup {"none"} |->
     CASE f \in {Field[p].dni : p \in People} -> "dni"
       [] f \in {Field[p].nombre : p \in People} -> "nombre"
       [] f \in {Field[p].telefono : p \in People} -> "telefono"
       [] OTHER -> f]
-----------------------------------------------------------------------------
INTENT_PRIORITY ==
  <<"recojo_externo", "cotizacion", "metodos_pago", "tracking", "contenido_permitido",
    "documentacion", "horarios", "sedes", "orientacion_base", "pre_registro">>

\* The first of a list that is in a set.
FirstOf(list, set) ==
  list[CHOOSE n \in DOMAIN list : list[n] \in set /\ \A k \in 1..(n - 1) : list[k] \notin set]

\* The intention with the highest score, and among those the most specific.
DetectIntent(m) ==
  IF m.hits = <<>> THEN "consulta_general"
  ELSE FirstOf(INTENT_PRIORITY,
               {i \in DOMAIN m.hits : \A j \in DOMAIN m.hits : m.hits[j] <= m.hits[i]})

\* The language model may name any intention but that of the base, which its
\* prompt does not offer, or fail.
LlmIntents ==
  ({INTENT_PRIORITY[n] : n \in DOMAIN INTENT_PRIORITY} \ {"orientacion_base"})
    \cup {"consulta_general"}

\* The rules decide; where they do not and no form is under way, the model does.
Intents(m, underWay) ==
  IF DetectIntent(m) = "consulta_general" /\ ~underWay /\ LlmEnabled
  THEN LlmIntents
  ELSE {DetectIntent(m)}

\* extraer_campo_wizard: the rules read every kind of field, the model reads
\* names, unless the text is a number, and descriptions.
Readings(f, m) ==
  {m.finds[Kind[f]]}
    \cup IF LlmEnabled /\ (Kind[f] = "descripcion" \/ (Kind[f] = "nombre" /\ ~m.digits))
         THEN {"given"} ELSE {}

\* _message_answers_expected_field
Answers(f, m) == Kind[f] \in m.answers

\* Why a text without a value for the field asked for is sent back instead of
\* passed over.
Refused(f, m) ==
  CASE Kind[f] = "dni" -> m.notDni
    [] Kind[f] \in {"telefono", "peso_kg", "dimensiones"} -> m.number
    [] OTHER -> Kind[f] \in {"destino", "fragilidad"}
=============================================================================
