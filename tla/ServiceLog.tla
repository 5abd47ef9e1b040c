----------------------------- MODULE ServiceLog -----------------------------
(***************************************************************************)
(* The log of the phases of a shipment (registro, carga, entrega), table   *)
(* logs_servicio_transporte of app/modules/measurement_logs.  Phases are   *)
(* opened and closed by endpoints of their own and by the requests that    *)
(* pre-register, quote, confirm, pay, load and deliver a shipment, all     *)
(* through start_service_phase and finish_service_phase.                   *)
(*                                                                         *)
(* Both find the last log that has one of the identities the request gives *)
(* (the shipment, its quotation, its payment) or, to close a phase, the log *)
(* with the identifier in the path; decide on that copy and commit.  What  *)
(* an endpoint is told need not fit together: the shipment of the payload  *)
(* may be another one than that of the log.  No constraint of the table    *)
(* makes the log of a shipment unique.  Times may come from the client, so *)
(* any order of them is possible.                                          *)
(***************************************************************************)
EXTENDS Integers, Sequences, FiniteSetsExt

CONSTANTS
  Workers,    \* threads that serve requests
  Shipments,  \* shipments whose phases are measured
  NoShipment, \* no shipment, in a request or in a row
  Links,      \* the other columns a log is found by: cotizacion_id, pago_id
  Keys,       \* identifiers of quotations and payments
  NoKey,      \* no such identifier
  Phases,     \* the phases measured
  StartTimes, \* the times at which a phase is opened
  EndTimes,   \* the times at which one is closed
  MaxLogs     \* bound: rows of the table

ASSUME ServiceConstants ==
  /\ StartTimes \subseteq Nat /\ EndTimes \subseteq Nat
  /\ \E last \in StartTimes \cup EndTimes : \A t \in StartTimes \cup EndTimes : t <= last
  /\ "registro" \in Phases /\ IsFiniteSet(Phases)
  /\ MaxLogs \in Nat
  /\ NoShipment \notin Shipments /\ NoKey \notin Keys

VARIABLES
  log,         \* the table: the row with identifier n is log[n]
  announced,   \* phase events on the timeline of each shipment
  pc,          \* where each thread is in its request
  req,         \* the request, with the log as its session loaded it
  repeated,    \* history: shipments on whose timeline a phase event is twice
  overlapped,  \* history: shipments two requests at once ever named
  mixed,       \* history: shipments named beside a log that was not theirs
  crowded      \* history: rows two requests had at once, each with their phases

serviceVars == <<log, announced, pc, req, repeated, overlapped, mixed, crowded>>

------------------------------------------------------------------------------
MaxTime == Max(StartTimes \cup EndTimes)
Null == MaxTime + 1  \* no time, and no difference of two times

LinkSet == [Links -> Keys \cup {NoKey}]
NoLinks == [l \in Links |-> NoKey]

Row ==
  [shipment : Shipments \cup {NoShipment}, links : LinkSet,
   start : [Phases -> StartTimes \cup {Null}], end : [Phases -> EndTimes \cup {Null}],
   took : [Phases -> (-MaxTime)..Null], total : Int]

NewRow(s, links) ==
  [shipment |-> s, links |-> links,
   start |-> [p \in Phases |-> Null], end |-> [p \in Phases |-> Null],
   took |-> [p \in Phases |-> Null], total |-> Null]

NoRequest == [op |-> "start", phase |-> CHOOSE p \in Phases : TRUE, named |-> NoShipment,
              links |-> NoLinks, id |-> 0, seen |-> NewRow(NoShipment, NoLinks)]

ServiceTypeOK ==
  /\ log \in Seq(Row) /\ Len(log) <= MaxLogs
  /\ announced \in [Shipments -> SUBSET (Phases \X {"INICIADA", "FINALIZADA"})]
  /\ pc \in [Workers -> {"idle", "found", "again"}]
  /\ \A i \in Workers :
       /\ req[i].op \in {"start", "finish", "confirm"}
       /\ req[i].phase \in Phases
       /\ req[i].named \in Shipments \cup {NoShipment} /\ req[i].links \in LinkSet
       /\ req[i].id \in 0..Len(log)
       /\ req[i].seen \in Row
  /\ repeated \cup overlapped \cup mixed \subseteq Shipments
  /\ crowded \subseteq (DOMAIN log) \X SUBSET Phases

\* Mutant of Matches: every identity that is given has to be the one of the row.
MatchesAll(row, s, links) ==
  /\ s # NoShipment => row.shipment = s
  /\ \A l \in Links : links[l] # NoKey => row.links[l] = links[l]

\* _identity_clauses and or_: some identity that is given is the one of the row.
Matches(row, s, links) ==
  \/ s # NoShipment /\ row.shipment = s
  \/ \E l \in Links : links[l] # NoKey /\ row.links[l] = links[l]

\* _find_service_log: the last log with one of the identities, 0 if there is none.
FindLog(s, links) == Max({n \in DOMAIN log : Matches(log[n], s, links)} \cup {0})

\* The requests that name a shipment, and those that have a row.
Naming(s) == {j \in Workers : pc[j] # "idle" /\ req[j].named = s}
With(n) == {j \in Workers : pc[j] = "found" /\ req[j].id = n}
------------------------------------------------------------------------------
ServiceInit ==
  /\ log = <<>>
  /\ announced = [s \in Shipments |-> {}]
  /\ pc = [i \in Workers |-> "idle"]
  /\ req = [i \in Workers |-> NoRequest]
  /\ repeated = {}
  /\ overlapped = {} /\ mixed = {} /\ crowded = {}

At(i, point) == pc' = [pc EXCEPT ![i] = point]

EndRequest(i) ==
  /\ At(i, "idle")
  /\ req' = [req EXCEPT ![i] = NoRequest]
  /\ UNCHANGED <<overlapped, mixed, crowded>>

Load(i, r) ==
  /\ req' = [req EXCEPT ![i] = r]
  /\ overlapped' = overlapped \cup
       {s \in {r.named} \ {NoShipment} : ~(Naming(s) \subseteq {i})}
  /\ mixed' = mixed \cup {s \in {r.named} \ {NoShipment} : r.id # 0 /\ r.seen.shipment # s}
  /\ crowded' = IF r.id = 0 THEN crowded
                ELSE crowded \cup {<<r.id, {r.phase, req[j].phase}>> : j \in With(r.id) \ {i}}
  /\ At(i, "found")
  /\ UNCHANGED <<log, announced, repeated>>

Found(op, phase, s, links, id) ==
  [op |-> op, phase |-> phase, named |-> s, links |-> links, id |-> id,
   seen |-> IF id = 0 THEN NewRow(NoShipment, NoLinks) ELSE log[id]]

\* A request that finds the log by identity: the endpoints, which may give any
\* identities or none, and the calls made by pre-registration, quotation,
\* loading plans, payment and delivery, which all name the shipment.
FindByIdentity(i, op, phase, s, links) ==
  /\ pc[i] = "idle"
  /\ Load(i, Found(op, phase, s, links, FindLog(s, links)))

\* The endpoints that have the log in their path; whatever identities the
\* payload gives are not compared with those of the log.
FindById(i, phase, s, links, id) ==
  /\ pc[i] = "idle"
  /\ id \in DOMAIN log
  /\ Load(i, Found("finish", phase, s, links, id))

\* _fill_service_identity: only what the row does not have.
Fill(row, r) ==
  [row EXCEPT !.shipment = IF @ = NoShipment THEN r.named ELSE @,
              !.links = [l \in Links |-> IF @[l] = NoKey THEN r.links[l] ELSE @[l]]]

\* Mutant of Column: the UPDATE writes every column.
ColumnAlways(stored, loaded, assigned) == assigned

Column(stored, loaded, assigned) == IF assigned = loaded THEN stored ELSE assigned

Columns(stored, loaded, assigned) ==
  [p \in Phases |-> Column(stored[p], loaded[p], assigned[p])]

\* The row after the UPDATE of a session that loaded `loaded' and assigned
\* `assigned', when the table has `stored'.
Merge(stored, loaded, assigned) ==
  [stored EXCEPT !.shipment = Column(@, loaded.shipment, assigned.shipment),
                 !.links = [l \in Links |-> Column(@[l], loaded.links[l], assigned.links[l])],
                 !.start = Columns(@, loaded.start, assigned.start),
                 !.end = Columns(@, loaded.end, assigned.end),
                 !.took = Columns(@, loaded.took, assigned.took),
                 !.total = Column(@, loaded.total, assigned.total)]

\* _append_shipment_phase_event, for a request that names the shipment.
Announce(i, action) ==
  LET s == req[i].named
      event == <<req[i].phase, action>>
  IN  IF s = NoShipment
      THEN UNCHANGED <<announced, repeated>>
      ELSE /\ announced' = [announced EXCEPT ![s] = @ \cup {event}]
           /\ repeated' = IF event \in announced[s] THEN repeated \cup {s} ELSE repeated

\* UPDATE of the log of the request.
WriteLog(i, row) ==
  LET r == req[i]
  IN  log' = [log EXCEPT ![r.id] = Merge(@, r.seen, Fill(row, r))]

\* INSERT of a log that opens the phase of the request.
InsertLog(i, t) ==
  LET r == req[i]
  IN  /\ Len(log) < MaxLogs
      /\ log' = Append(log, [NewRow(r.named, r.links) EXCEPT !.start[r.phase] = t])
      /\ Announce(i, "INICIADA")

\* start_service_phase, for identities without a log.
StartNewLog(i, t) ==
  /\ pc[i] = "found" /\ req[i].op = "start" /\ req[i].id = 0
  /\ InsertLog(i, t)
  /\ EndRequest(i)

\* start_service_phase on a log in which the phase is not open yet.
StartPhase(i, t) ==
  /\ pc[i] = "found" /\ req[i].op = "start" /\ req[i].id # 0
  /\ req[i].seen.start[req[i].phase] = Null
  /\ WriteLog(i, [req[i].seen EXCEPT !.start[req[i].phase] = t])
  /\ Announce(i, "INICIADA")
  /\ EndRequest(i)

Total(took, counted) == MapThenSumSet(LAMBDA p : took[p], {p \in counted : took[p] # Null})

\* _total_service_ms
TotalMs(took) == Total(took, Phases)

\* _finish_service_phase
Closed(row, p, t) ==
  LET took == [row.took EXCEPT ![p] = t - row.start[p]]
  IN  [row EXCEPT !.end[p] = t, !.took = took, !.total = TotalMs(took)]

\* Mutant of MayClose: the end may be before the start.
MayCloseAnytime(row, p, t) == row.start[p] # Null /\ row.end[p] = Null

MayClose(row, p, t) == row.start[p] # Null /\ row.end[p] = Null /\ row.start[p] <= t

\* finish_service_phase; the first close of a phase is the one that counts.
FinishPhase(i, t) ==
  /\ pc[i] = "found" /\ req[i].op \in {"finish", "confirm"} /\ req[i].id # 0
  /\ MayClose(req[i].seen, req[i].phase, t)
  /\ WriteLog(i, Closed(req[i].seen, req[i].phase, t))
  /\ Announce(i, "FINALIZADA")
  /\ EndRequest(i)

\* A phase that is open or closed already; and, for the payments, which ignore
\* the error and commit later, one that cannot be closed.
FillIdentity(i, t) ==
  LET r == req[i]
  IN  /\ pc[i] = "found" /\ r.id # 0
      /\ IF r.op = "start" THEN r.seen.start[r.phase] # Null ELSE ~MayClose(r.seen, r.phase, t)
      /\ WriteLog(i, r.seen)
      /\ UNCHANGED <<announced, repeated>>
      /\ EndRequest(i)

\* confirm_pre_registration on a shipment without a log: it opens one in a
\* transaction of its own ...
ConfirmOpensLog(i, t) ==
  /\ pc[i] = "found" /\ req[i].op = "confirm" /\ req[i].id = 0
  /\ InsertLog(i, t)
  /\ At(i, "again")
  /\ UNCHANGED <<req, overlapped, mixed, crowded>>

\* ... and looks for it again to close the phase.
ConfirmFindsAgain(i) ==
  /\ pc[i] = "again"
  /\ Load(i, Found("confirm", req[i].phase, req[i].named, NoLinks,
                   FindLog(req[i].named, NoLinks)))

\* A log or a start that is missing (404, 400), and a process that stops.
FinishWithoutUpdate(i) ==
  /\ pc[i] # "idle"
  /\ EndRequest(i)
  /\ UNCHANGED <<log, announced, repeated>>
------------------------------------------------------------------------------
ServiceNext ==
  \/ \E i \in Workers, p \in Phases, s \in Shipments \cup {NoShipment}, links \in LinkSet :
       \/ \E op \in {"start", "finish"} : FindByIdentity(i, op, p, s, links)
       \/ \E id \in 1..MaxLogs : FindById(i, p, s, links, id)
  \/ \E i \in Workers, s \in Shipments : FindByIdentity(i, "confirm", "registro", s, NoLinks)
  \/ \E i \in Workers :
       \/ \E t \in StartTimes : StartNewLog(i, t) \/ StartPhase(i, t) \/ ConfirmOpensLog(i, t)
       \/ \E t \in EndTimes : FinishPhase(i, t) \/ FillIdentity(i, t)
       \/ ConfirmFindsAgain(i)
       \/ FinishWithoutUpdate(i)

ServiceSpec == ServiceInit /\ [][ServiceNext]_serviceVars
------------------------------------------------------------------------------
LogsOf(s) == {n \in DOMAIN log : log[n].shipment = s}

\* A row no two requests had at once, and a phase of one no two were about.
Sole(n) == \A phases \in SUBSET Phases : <<n, phases>> \notin crowded
Quiet(n, p) == <<n, {p}>> \notin crowded

\* Whatever times the clients send and whatever identities they give, a phase
\* that is closed was open before and took the time between the two, unless two
\* requests about this phase had the row at once; and the total is the sum of
\* what was measured, unless two requests had the row at once: two requests
\* that close two phases each leave the other out of the total.
DurationsAreTrue ==
  /\ ServiceTypeOK
  /\ \A n \in DOMAIN log :
       LET row == log[n]
           closed == {p \in Phases : row.end[p] # Null}
       IN  /\ \A p \in closed : Quiet(n, p) =>
                /\ row.start[p] # Null
                /\ row.took[p] = row.end[p] - row.start[p]
                /\ row.took[p] >= 0
           /\ Sole(n) =>
                row.total = IF closed = {} THEN Null
                            ELSE MapThenSumSet(LAMBDA p : row.took[p], closed)

\* A shipment has one log and no phase event twice on its timeline, unless two
\* requests named it at once (two that both find no log insert two, and later
\* phases are split between them) or a request named it beside a log that was
\* not its own (start_service_phase).
OneLogEach ==
  \A s \in Shipments \ (overlapped \cup mixed) :
    Cardinality(LogsOf(s)) <= 1 /\ s \notin repeated

\* However requests overlap, the timeline announces no phase that is in no log
\* of the shipment, unless a request named it beside a log that was not its own
\* (the endpoints that have the log in their path do not compare the two).
AnnouncedIsLogged ==
  \A s \in Shipments \ mixed : \A p \in Phases :
    /\ <<p, "INICIADA">> \in announced[s] => \E n \in LogsOf(s) : log[n].start[p] # Null
    /\ <<p, "FINALIZADA">> \in announced[s] => \E n \in LogsOf(s) : log[n].end[p] # Null

\* For a shipment that is only ever named with logs of its own, the timeline
\* tells what the logs say, and once if its requests never overlapped.
TimelineHasItsLog == OneLogEach /\ AnnouncedIsLogged

\* However requests overlap, a phase that was closed in a log stays closed in
\* it; and unless two requests about this phase had the row at once, its times
\* and what it took are never changed.
ClosedStaysClosed ==
  [][\A n \in DOMAIN log : \A p \in Phases :
       log[n].end[p] # Null =>
         /\ n \in DOMAIN log' /\ log'[n].end[p] # Null
         /\ Quiet(n, p) => /\ log'[n].start[p] = log[n].start[p]
                           /\ log'[n].end[p] = log[n].end[p]
                           /\ log'[n].took[p] = log[n].took[p]]_serviceVars
==============================================================================
