----------------------------- MODULE SearchCache -----------------------------
(***************************************************************************)
(* Where the other carriers have their offices: the stored answers of the  *)
(* assistant, app/modules/asistente/web_search.py.                         *)
(*                                                                         *)
(* A turn of the chat that names an agency looks for a stored answer; if   *)
(* that is still valid it counts the use and tells it, or else it searches *)
(* the web, stores what it finds and tells that.  Time is counted in days. *)
(***************************************************************************)
EXTENDS Naturals

CONSTANTS
  Threads,           \* threads that serve a turn of the chat
  Keys,              \* what _clave_busqueda_sedes makes of the messages
  CACHE_SEDES_DIAS,  \* days that a stored answer is valid
  MaxDay,            \* bound: the last day
  MaxUses,           \* bound: no turn begins once a row counts so many
  NoKey

VARIABLES
  today,   \* the day of business_now
  cache,   \* the row of asistente_busquedas_web_cache of each key
  told,    \* the last answer a customer got from the table
  pc,      \* where each thread is in its turn
  req      \* the key and the row as the session loaded it

vars == <<today, cache, told, pc, req>>

\* A row: whether there is one, the day its answer was stored, updated_at and
\* veces_consultada.
NoRow == [there |-> FALSE, stored |-> 0, updated |-> 0, uses |-> 0]

\* `on' is the day on which the row was taken for valid.
NoTurn == [key |-> NoKey, seen |-> NoRow, on |-> 0]

Init ==
  /\ today = 0
  /\ cache = [k \in Keys |-> NoRow]
  /\ told = [stored |-> 0, on |-> 0]
  /\ pc = [i \in Threads |-> "idle"]
  /\ req = [i \in Threads |-> NoTurn]

At(i, point) == pc' = [pc EXCEPT ![i] = point]

\* _cache_vigente
Valid(row) == row.there /\ today - row.updated < CACHE_SEDES_DIAS

EndTurn(i) == At(i, "idle") /\ req' = [req EXCEPT ![i] = NoTurn]

\* get_cache_web
Look(i, k) ==
  /\ pc[i] = "idle"
  /\ cache[k].uses < MaxUses
  /\ req' = [req EXCEPT ![i] = [NoTurn EXCEPT !.key = k, !.seen = cache[k]]]
  /\ At(i, "looked")
  /\ UNCHANGED <<today, cache, told>>

\* increment_cache_web writes the count it read plus one, and updated_at with
\* it; a failure is swallowed.
CountUse(i) ==
  LET k == req[i].key IN
  /\ pc[i] = "looked"
  /\ Valid(req[i].seen)
  /\ \/ cache' = [cache EXCEPT ![k].uses = req[i].seen.uses + 1, ![k].updated = today]
     \/ UNCHANGED cache
  /\ req' = [req EXCEPT ![i].on = today]
  /\ At(i, "counted")
  /\ UNCHANGED <<today, told>>

\* The log is committed, so that the row told is the one of now.
TellStored(i) ==
  /\ pc[i] = "counted"
  /\ told' = [stored |-> cache[req[i].key].stored, on |-> req[i].on]
  /\ EndTurn(i)
  /\ UNCHANGED <<today, cache>>

\* buscar_web finds nothing, or nothing that can be told, and the customer is
\* asked for the address ...
SearchInVain(i) ==
  /\ pc[i] = "looked"
  /\ ~Valid(req[i].seen)
  /\ EndTurn(i)
  /\ UNCHANGED <<today, cache, told>>

\* ... or it finds something.  upsert_cache_web then looks for the row again;
\* one that the session has already is not refreshed.
Search(i) ==
  /\ pc[i] = "looked"
  /\ ~Valid(req[i].seen)
  /\ req' = [req EXCEPT ![i].seen = IF @.there THEN @ ELSE cache[req[i].key]]
  /\ At(i, "found")
  /\ UNCHANGED <<today, cache, told>>

\* The UPDATE, or the INSERT if there was no row; one that another thread
\* inserted meanwhile makes it fail, which _guardar_cache swallows.
Store(i) ==
  LET k == req[i].key IN
  /\ pc[i] = "found"
  /\ cache' = IF cache[k].there /\ ~req[i].seen.there THEN cache
              ELSE [cache EXCEPT ![k] = [there |-> TRUE, stored |-> today, updated |-> today,
                                         uses |-> req[i].seen.uses + 1]]
  /\ EndTurn(i)
  /\ UNCHANGED <<today, told>>

NextDay ==
  /\ today < MaxDay
  /\ today' = today + 1
  /\ UNCHANGED <<cache, told, pc, req>>

Next ==
  \/ NextDay
  \/ \E i \in Threads :
       \/ \E k \in Keys : Look(i, k)
       \/ CountUse(i) \/ TellStored(i) \/ SearchInVain(i) \/ Search(i) \/ Store(i)

Spec == Init /\ [][Next]_vars
-----------------------------------------------------------------------------
\* A stored answer is told for CACHE_SEDES_DIAS days, and not longer ("Días que
\* se considera vigente un resultado de búsqueda guardado en caché").  Its age
\* is taken from updated_at, which every use of the row renews.
ToldWhileValid == told.on - told.stored < CACHE_SEDES_DIAS
=============================================================================
