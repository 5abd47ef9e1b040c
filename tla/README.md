# Formal model of CarmencitaExpress-Backend

TLA+ specifications of the freight company's backend (FastAPI, SQLAlchemy,
PostgreSQL), the TLC configurations that check them on small instances, and
TLAPS proofs of what matters most for any number of threads, shipments and
receipts. Paths below are relative to the repository.

Contents: [the system](#the-system), [the modules](#the-modules),
[the runs](#the-runs), [disagreements found](#disagreements-found),
[the proofs](#the-proofs), [abstractions](#abstractions-and-what-is-left-out),
[plan](#plan).

## The system

### How it executes

* Endpoints are synchronous functions that FastAPI runs in a thread pool. The
  deployment allows one instance and four concurrent requests
  (`deploy/README.md:45`); the connection pool has two connections and no
  overflow (`app/core/database.py:15-26`).
* Each request has one SQLAlchemy session, closed at its end, which rolls back
  whatever was not committed (`get_db`, `app/core/database.py:37-45`).
* Transactions run under PostgreSQL's READ COMMITTED. A row that a session has
  loaded is not read again until that session commits, and an UPDATE names only
  the columns the program changed. No row is ever locked; two tables are locked
  whole (`boletas_electronicas`, `logs_de_cobro`) to number their rows.
* Most repository functions commit on their own, so one endpoint is a sequence
  of transactions that can be cut anywhere.

These four facts are the source of almost all the hard behaviour: checks made on
stale copies, writes that mix two requests, work half done.

### Components

| Component (`app/modules/...`) | State | Operations that change it | Talks to | What makes it correct |
|---|---|---|---|---|
| `shipments`, `quotes` | `encomiendas`, trace events | create, pre-register, quote, confirm, update, cancel, expire, deliver | clients, measurement_logs, agencies | status machine; row and timeline agree; a registered package has a base; unique codes; what was told is charged |
| `sunat` | `boletas_electronicas` | issue from a shipment (three endpoints), download | Lycet (HTTP) and SUNAT behind it, shipments, measurement_logs, integration_settings | consecutive numbers, one receipt per shipment, accepted means registered, the lock is given back |
| `measurement_logs` | service logs, emission logs, package loading logs | start and finish a phase, a log, a loading order, a package | called by nearly all others | one open log per shipment; phases in order; durations and totals true, and measured once; what is announced is logged |
| `payments`, `yape`, `charge_logs` | `logs_de_cobro` | charge a card or Yape, log the charge | Mercado Pago (HTTP), measurement_logs, shipments | rows numbered in order; nothing claimed that the gateway did not do; approvals announced |
| `claims` | claims, events, attachments | open, comment and move, resolve, verify a payment, attach, trace | shipments, agencies, users | history and row agree; a monetary solution has its proof and its verification; closed cases are frozen |
| `agencies`, `users`, `destinations` | agencies, users, roles, destinations | create, move, put in and out of service, assign administrator, staff, give and take roles, close a destination | each other | one administrator per agency, always one in service; one agency per destination, which stays active; nobody changes agency |
| `clients` | `clientes` | upsert by DNI, within a shipment's transaction or by its own endpoints | shipments, asistente | one row per DNI; a creation is refused only where it was overtaken |
| `asistente`, `app/integrations/llm` | chat log, stored web answers; the conversation itself is kept by the browser | one turn of the chat: quote, pre-register, correct, confirm, choose a payment, inform | shipments, clients, RENIEC, the language model, a web search | only what was shown is made; the payment is for what was made; a customer who answers gets through; the estimate is the later price |
| `optimization_poc` | none that lasts | seven placement engines | shipments (read), measurement_logs | packages inside the truck, apart, supported, reachable from the door; none lost |
| `integration_settings` | two switches | set | sunat, payments | - |
| `auth`, `developer_view`, `reniec`, reports | none of their own | - | - | - |

Interactions are direct calls in the caller's session. Where the callee commits,
the caller's transaction ends there, and the caller's loaded rows expire with it;
`calculate_quote` re-reads the status for that reason and no other.

### What is hard here

PROJECT.json lists the hazards with their lines. In short:

* interleavings of requests that each check a copy: receipts before the table
  lock, deliveries and cancellations, updates, claims, logs that are found and
  then inserted, administrators, destinations, codes;
* external calls whose answer is lost after they took effect: Lycet with its
  number given back, Mercado Pago with a fresh idempotency key;
* sequences of commits cut by a failure: receipt and log link, the chat's
  pre-registration and its base, confirmation and phase, charge and its logs;
* prices that are stored nowhere and worked out three times, rounded each time;
  codes from the highest identifier and letters of weekdays;
* an answer that is lost on its way to a browser that holds the whole
  conversation, and a text that means something else where it is expected;
* long sequences of legal steps: packages finished out of order, solutions that
  replace each other, placements whose rules look at the last step only;
* waiting: a table lock held across two HTTP calls, four requests on two
  connections.

## The modules

| Module | Models | Extends / instantiates |
|---|---|---|
| `ReceiptLedger` | what the series B001 promises: an append-only list of shipments | - |
| `ReceiptIssuance` | `app/modules/sunat` | `ReceiptLedger` (refinement) |
| `MCReceiptIssuance` | its small instances (symmetry) | `ReceiptIssuance` |
| `ReceiptIssuance_proofs` | its theorems | `ReceiptIssuance` |
| `ShipmentStatus` | the status machine that the guards describe | - |
| `ShipmentLifecycle` | `app/modules/shipments/service.py` and `repository.py`, `quotes`, the chat's creation | `ShipmentStatus` (refinement) |
| `MCShipmentLifecycle` | its small instances | `ShipmentLifecycle` |
| `ShipmentLifecycle_proofs` | its theorems | `ShipmentLifecycle` |
| `PaymentFlow` | `app/modules/payments`, `yape`, `charge_logs`, and the emission log of `measurement_logs` | - |
| `PaymentFlow_proofs` | its theorems, and one on the instance without overlap | `PaymentFlow`, `MCPaymentCalm` |
| `MCPaymentCalm` | its instance: executions without crash, with crashes, or without overlap; its liveness | `PaymentFlow` |
| `ClaimWorkflow` | `app/modules/claims` | - |
| `MCClaimWorkflow` | its small instances | `ClaimWorkflow` |
| `ClaimWorkflow_proofs` | its theorems | `ClaimWorkflow` |
| `ServiceLog` | the phases of `measurement_logs`, and the requests that open and close them | - |
| `LoadingOrder` | the loading orders of `measurement_logs` | - |
| `Registration` | codes of new shipments and the table of clients (`shipments/repository.py`, `clients`) | - |
| `Billing` | the prices of `quotes`, of the chat's estimate and of the receipt | - |
| `MCTables` | one of these four per behaviour | `ServiceLog`, `LoadingOrder`, `Registration`, `Billing` |
| `Tables_proofs` | the theorems of these four, one section each | `MCTables`, `SetLemmas` |
| `SetLemmas` | lemmas: the largest of bounded numbers, sums over finite sets | - |
| `AgencyStaff` | `app/modules/agencies`, `users`, `destinations` | - |
| `MCAgencyStaff` | its small instances | `AgencyStaff` |
| `AgencyStaff_proofs` | its theorems | `AgencyStaff` |
| `LoadRules` | `optimization_poc`: placement rules, orientations and candidate points, as operators | - |
| `LoadPlan` | `optimization_poc`: a run of the heuristics or of the search | `LoadRules` |
| `MCLoadPlan` | trucks and cargoes | `LoadPlan` |
| `ChatMessages` | what `app/integrations/llm/nlp.py` gets out of a text | - |
| `AssistantWizard` | `app/modules/asistente/service.py` and `wizard.py` | `ChatMessages` |
| `MCAssistantWizard` | sample texts, clients and the willing customer | `AssistantWizard` |
| `ChatAndLoad_proofs` | the theorems of the chat and of the load, one section each | `AssistantWizard`, `LoadPlan`, `SetLemmas` |
| `SearchCache` | the stored web answers of `asistente/web_search.py` | - |

In all components with concurrent requests a *thread* serves one request at a time;
`pc` is the control point between two statements at which another request's commit
can become visible, and `req` what the request has read so far. `Crash` is the
process, the connection or the statement failing: the server rolls back the open
transaction and what was committed stays.

### ReceiptIssuance

| Variable | Code |
|---|---|
| `receipts` | committed rows of `ElectronicReceipt`: shipment, number of the series, SUNAT status |
| `lock` | `LOCK TABLE boletas_electronicas IN EXCLUSIVE MODE` |
| `status` | `encomiendas.status`, as far as `_validate_shipment_can_emit_receipt` tells values apart |
| `lycetOn` | the `lycet_enabled` switch |
| `sunat` | the documents SUNAT has registered; external, known only by the answers the client accepts |
| `boletaLog` | the open `LogEmisionBoleta` of a shipment, linked to a receipt or not |
| `traced` | shipments with a `BOLETA_EMITIDA` event |
| `pc`, `req` | progress of each request and the values it has read |

Actions follow a request from top to bottom: `LoadShipment` (row enters the
identity map), `RejectShipment`, `FindReceipt` (idempotent path) or
`FindNoReceipt`, `AskLock`, `TakeNumber` (lock granted and `max + 1` read),
`SkipLycet` or one of Lycet's answers (`LycetAnswersCdr`,
`LycetAnswersWithoutCdr` with `QueryFindsCdr`, `LycetFails`), `InsertReceipt` or
`InsertConflict` (unique constraints), `LinkLog`, `FinishRequest` (the endpoint's
tail). The lock is held from `TakeNumber` to the end of that transaction, as in
PostgreSQL. `ConfirmShipment`, `CancelShipment`, `OpenBoletaLog`,
`DownloadReceipt` and `ToggleLycet` are what other endpoints do meanwhile.

SUNAT is a register in which a number belongs to the first document that carried
it. A `POST /send` that fails, or answers without a CDR, may or may not have
reached it: the model chooses. A CDR from `POST /send` is about the document
sent; `GET /status` asks by series and number only, and so answers about
whichever document has that number.

### ShipmentLifecycle

`row` holds the committed columns that the guards or the properties read: status,
content type, base, whether a cancellation is recorded (`canceled_at` and its
reason), the receiver. `events` is the set of status events that these operations
put on a shipment's timeline. `req[i].seen` is the row as the session of thread
`i` loaded it.

`LoadShipment` is `get_scoped_shipment`. An operation that passes its guard on
`seen` writes with `Merge`: a column that the program left equal to its loaded
value keeps whatever the table holds, the others are overwritten - exactly the
UPDATE SQLAlchemy emits. `StartQuote` / `FinishQuote` are two steps because the
service log is committed between them, which expires the row.
`ChatPreRegister` / `ClearBase` are the two commits of
`_crear_preregistro_desde_chat`.

`Spec` lets requests overlap freely. `DisjointSpec` is the same system restricted
to executions in which no two requests are ever busy with one shipment; it is the
setting the guards of `service.py` are written for, and what a row lock would
enforce.

### PaymentFlow

| Variable | Code |
|---|---|
| `accepted`, `charged` | Mercado Pago's record: how many payments it took (approved or pending), and for which shipments it approved one; external |
| `chargeLogs` | committed rows of `ChargeLog`, with the observation number and the result |
| `lock` | `LOCK TABLE logs_de_cobro IN EXCLUSIVE MODE` |
| `announced` | shipments with a `PAGO_APROBADO` event |
| `logs` | committed rows of `LogEmisionBoleta`, open or closed |
| `pc`, `req` | progress of each request, the gateway's answer, the number or the log it has read |

A payment goes through `GatewayAnswers` or `GatewayFails` (invalid input, an
error, or an answer lost after the gateway took the payment), `AskLock`,
`TakeNumber`, `InsertChargeLog` - or `LogFails`, which rolls back and goes on, as
`register_charge_log` does - and then either `EndPayment` or, for an approved
payment with a shipment, `Announce` and the emission log: `FindOpenLog`, or
`FindNoOpenLog` and `OpenLog`. The tail of a confirmation is that last part; the
tail of a download is `FindLogToClose` and `CloseLog`, or `FindNothingToClose`.
The two endpoints of payments differ in `Succeeded`: a pending card payment is
logged as a success, a pending Yape payment is not. The simulated gateway answers
through the same actions.

### ClaimWorkflow

| Variable | Code |
|---|---|
| `claim` | committed rows of `Claim`: status, shipment, agency, type of solution, proof of payment, resolver |
| `last` | the status the last `ClaimEvent` with a `to_status` names: what the staff read |
| `shown` | of the events the customer may see (`visible_to_customer`), whether the last such one names a solution, and which |
| `proofs` | cases with a `ClaimAttachment` of kind COMPROBANTE_PAGO |
| `traces` | shipments on whose public history the staff of an agency wrote |
| `pc`, `req` | progress of each request and the row its session loaded |
| `checked`, `late`, `overlapped` | history: solutions verified, evidence after the end, cases whose requests overlapped |

A request loads the case under the caller's permission and scope (`LoadScopedClaim`,
`LoadPublicClaim`) and then commits once: an event with a status of the transition
table, a solution of either kind, a verification or its refusal, or an attachment.
Solutions and verifications have an event the customer sees; who changes the status
by an event says whether it is one. Writes merge columns as in `ShipmentLifecycle`.
The upload of a picture awaits the body after its checks, and the case is not read
again. `STATUS_TRANSITIONS` restricts events only; solutions and verifications have
checks of their own and lead to statuses the table does not lead to.

### ServiceLog and LoadingOrder

`log` is the table `logs_servicio_transporte`: the shipment, the quotation and the
payment of a log, per phase the start, the end and the duration, and the total.
Requests find the last log with any of the identities they give (`FindByIdentity`,
`Matches`), or the one in their path (`FindById`), decide on that copy and commit:
`StartNewLog`, `StartPhase`, `FinishPhase`, or only the identities the row did not
have (`FillIdentity`). Nothing compares the identities of a request with those of
the log: an endpoint may name one shipment and get the log of another, and the event
goes to the shipment it names. A confirmation on a shipment without a log opens one
in a commit of its own and looks for it again (`ConfirmOpensLog`,
`ConfirmFindsAgain`). Times come from the requests, in any order. `announced` are
the phase events on the timeline. What overlaps and what is mixed up is history:
`overlapped` (shipments two requests named at once), `mixed` (shipments named beside
a log that was not theirs), `crowded` (rows two requests had at once, with their
phases).

`rows` is the table `logs_carga_paquete`. `StartOrder` numbers the packages of an
order from one, under an identifier that may be in use; finishing a package reads
its row (`FindPackage`), then the row with the next number (`FindNext`), and
writes both (`FinishPackage`).

### AgencyStaff

`open` are the active destinations, `agency` and `user` the committed rows, with
the roles of a user. Each request has a load, with its admission, permission,
scope and checks, and a write of the differences from what it loaded. What the
database refuses is in the write: a second agency at a destination
(`IndexAdmits`), a role row that exists (`RowsAreNew`) or that is gone
(`RowsAreThere`). `Seed` is what every start of the program does to the default
account.

The assignment of an administrator reads in four statements, and under READ
COMMITTED another request can commit between any two of them: the row of the account
(`LoadAssign`, `agencies/service.py:249`), its roles, which `selectinload` gets by a
second SELECT (`ReadRoles`, `:338-344`), the administrators of the agency
(`ReadAdmins`, `:268`) and their roles (`ReadTheirRoles`). What the last two saw is
kept apart: an administrator that was found and whose role is gone when it is read
is put out of service and keeps its roles.

`disputed` and `contested` are history. An agency is disputed when two assignments
found it without an administrator, when somebody was moved from it or to it, and when
an assignment was overtaken: another one, of the same agency or the same account,
committed while it was still reading. A destination is contested when two requests
were busy with it.

### LoadRules and LoadPlan

`LoadRules` translates the geometry as operators over integer boxes: the
orientations a package may have, the candidate points, the rules of
`validators.py` and the frontier. Shares and ratios are compared by
cross-multiplication; the weights of the cargoes are multiples of 72 so that the
shares of a weight are whole numbers.

`LoadPlan` is one run. `PlaceNext` is a round of the progressive loop: every pending
package offers its best place under the engine's score, and the deepest offer is
taken. BACKTRACKING_LOGISTIC builds its seed with the same loop and then searches
depth first; the recursion is a stack of frames, one action per branch of
`backtrack`: `Prune`, `Leaf`, `LeaveOut`, `Branch`, `TryOption`, `SkipPackage`.
`RunOutOfBudget` may happen at any call. Where the leading terms of two scores tie
the model takes any of the candidates, so the code's results are among the model's.
The list of codes of a request is not made unique, so what is loaded are its places
(`ListedByCodes`), and `Code` gives the package of a place: the loops and the stack
go by places, while the states of the search, what the seed leaves behind and the
result go by the package (`StateKey`, `Unnamed`), as in the code. For every engine
and cargo of `MCLoadPlan` the program itself was run, and its result was found among
those of the model.

### ChatMessages and AssistantWizard

`Texts` gives for each sample text what the deterministic functions of the
repository return for it (they were run to obtain the records of
`MCAssistantWizard`); the language model chooses where the code asks it. `ctx` is
the context that the browser sends with every request, `asked` the last answer it
received, `shown` the data of the summary in front of the customer, `saved` the
pre-registrations, `logged` those that a row of the assistant's log names. A
`Turn` routes a text to a form or to information (`Routes` is `process_chat`),
and each branch of `_handle_preregistro_wizard` is an action. `LostAnswer` leaves
the browser with the context of before, whatever the server committed; so a
request can be repeated, or another sent instead. `willing` executions have a
customer who answers what is asked.

### Registration

| Variable | Code |
|---|---|
| `today` | the letter of the weekday a code begins with |
| `shipments`, `nextId` | committed rows of `encomiendas`, as identifier and code, and their sequence |
| `clients` | committed rows of `clientes` |
| `holder` | the thread whose open transaction wrote a client: others that want to write it wait |
| `stage`, `call` | where each request is, its people, its code |
| `overtaken` | history: requests committed since one began, 0, 1 or more |

A creation reads and writes its sender and recipient (`Read`, `Write`, or
`WriteConflict` for a client that was new when it was read), takes the first free
code after the highest identifier (`TakeCode`), corrects its letter if the day has
changed (`CheckDay`) and inserts the row in a savepoint (`Insert`). A code that
was taken meanwhile is replaced once and then refused (`InsertConflict`). A circle
of waiting transactions is broken by PostgreSQL, which fails one of them
(`Deadlock`). Edits of a shipment and the endpoints of clients write clients only.

### Billing

One shipment and its prices, in fiftieths of a thousandth of a sol, so that the
products of the code are whole numbers and rounding is visible. `up` chooses how
each of the formulas rounds an exact half cent, which in floating point depends on
how the sum came about. `Quote` is `calculate_quote_for_shipment`, `Estimate` the
chat's own formula with its defaults, `FromChat` what it then sends to be saved.
Requests load a copy (`LoadOrder`, with the guards of all five operations) and
commit later; `told` is the last quotation, `receipt` the amounts of the receipt.

### SearchCache

A turn of the chat that asks where another carrier has its offices looks for a
stored answer (`Look`), counts its use and tells it (`CountUse`, `TellStored`), or
searches and stores what it found (`Search`, `Store`). Time is counted in days.

## The runs

Every passing run's property has a mutant in PROJECT.json: a plausible bug in one
definition (a `...` operator just before the original) that the run then
reports.

| Run | Instance | Checks |
|---|---|---|
| `receipt_safety` | 2 threads, 2 shipments, endpoint `issue`, beta | `TypeOK`, `NumberIsNext`, `Gapless`, `AcceptedIsRegistered`, `ImplementsLedger` |
| `receipt_requests` | 2 threads, 1 shipment with an emission log, all endpoints, fair | `TimelineIsTrue`, `LinkedLogHasReceipt`, `RequestsFinish` |
| `shipment_overlap` | 2 threads, 1 shipment, 2 receivers, `Spec` | `TypeOK`, `TimelineAgrees`, `LeavesPreRegistrationOnce` |
| `shipment_disjoint` | 2 threads, 2 shipments, 2 receivers, `DisjointSpec` | `RegisteredHasBase`, `ImplementsMachine`, `DeliveredOnce` |
| `payment_safety` | 2 threads, 1 shipment, 2 rows; a behaviour is calm, crashes or has no overlap | `TypeOK`, `ChargesNumbered`, `SuccessesWereAccepted`, `AnnouncedWasCharged`, `OneOpenLogApart`, `ApprovedIsAnnounced` |
| `claim_workflow` | 2 threads, 1 case, 1 shipment, 3 users | `EventsAgree`, `SolutionIsSound`, `RecordsAreGuarded`, `ClosedIsFrozen` |
| `tables` | 2 threads on one of: 3 codes; 2 clients; 3 parcels and 3 conversations; service logs of 1 or 2 shipments, as below; 1 order with 3 rows | `RefusedOnlyWhenOvertaken`, `ToldIsCharged`, `EstimateIsQuoted`, `DurationsAreTrue`, `TimelineHasItsLog`, `OrderIsTimed`, `MeasuredOnce` |
| `agency_staff` | 2 threads and 3 accounts with both agencies, or 4 accounts with 1 agency; 3 threads that assign, with 2 agencies | `OneAdministrator`, `OneOpenAgency`, `StaffKeepTheirAgency` |
| `load_plan` | 7 engines on 13 pairs of cargo and truck, and 7 special runs: 4 of them have a code twice | `LoadIsSound`, `LoadedFromTheDoor`, `NeverWorseThanTheSeed` |
| `assistant` | 29 texts, 1 document of either sort of client, 2 pre-registrations; willing executions fair | `PaymentIsForWhatWasSaved`, `SavedAsShown`, `WillingGetsThrough` |
| `load_capacity` | as `load_plan` | `WithinCapacity`, violated: see below |
| `search_cache` | 2 threads, 1 key, validity of 2 days, 4 days | `ToldWhileValid`, violated: see below |

What the passing runs show:

* `NumberIsNext`: the number read under the lock is still the next one at the
  commit, and the lock covers exactly the span in between.
* `Gapless`: committed numbers are 1..n although failed attempts roll back
  numbers that SUNAT has already seen.
* `AcceptedIsRegistered`: ACEPTADO is never stored for a number SUNAT does not
  know - also on the path through `GET /status`.
* `ImplementsLedger`: the receipts are an append-only ledger with one entry per
  shipment, although the check for an existing receipt comes before the lock. It
  is the unique constraint on `shipment_id`, not the check, that guarantees it:
  the mutant without it breaks the refinement.
* `TimelineIsTrue`, `LinkedLogHasReceipt`: neither the customer's timeline nor
  the measurement log announces a receipt that is not committed, though they are
  written in later transactions.
* `RequestsFinish`: every request ends; the table lock is always given back.
* `TimelineAgrees`: whatever overlaps, the row's status was announced, and
  ENTREGADA / ANULADA were announced exactly if the row records a receiver / a
  cancellation. So even when a delivery and a cancellation are both accepted,
  nothing of either is lost.
* `LeavesPreRegistrationOnce`: no stale copy brings PRE_REGISTRADA back or turns
  it into COTIZADA. The mutant that writes every column (a full-row UPDATE)
  breaks it: this is what writing only changed columns buys.
* `ImplementsMachine`, `RegisteredHasBase`, `DeliveredOnce`: without overlap on one
  shipment, and with crashes anywhere, shipments go through the machine of
  `ShipmentStatus`, keep their base and keep their first receiver.
* `ChargesNumbered`: row n of the charge log has observation number n, although
  the column has no unique constraint and inserts fail and roll back.
* `SuccessesWereAccepted`, `AnnouncedWasCharged`: neither the charge log nor the
  timeline claims more than the gateway has on record.
* `OneOpenLogApart`: without overlap on one shipment it has one open emission log
  at most, whichever of payment and confirmation comes first and whatever fails.
* `ApprovedIsAnnounced`: an approval that reached the server is announced, also
  when the charge log failed while it held the table lock.
* `EventsAgree`: the history the staff read leads to the status of the row, for
  cases whose requests did not overlap. The customer reads the visible events only,
  and a status the staff give by an event is hidden unless they say otherwise; but
  a case that has its solution shows the customer one, however requests overlap, and
  the very step it is at if they never did.
* `SolutionIsSound`: however often solutions replace each other, are refused and
  the case reopened, a monetary case is resolved only after the payment of its
  present solution was verified, and amount and proof belong to the solution on
  record. However requests overlap, a monetary solution has a proof of its own
  case and a resolved case names somebody who had the permission.
* `RecordsAreGuarded`: a settled case gets no evidence unless it was settled
  during the upload; the staff write on the history of a shipment without agency
  only if a case ties it to theirs.
* `ClosedIsFrozen`: no request changes a closed case, unless it loaded it before.
* `RefusedOnlyWhenOvertaken`: the one retry of a code is enough for a creation that
  meets one other; a new client fails only if another request committed it first;
  and the number in a code never passes the row's identifier, so that the numbers
  after the highest identifier are free on whatever weekday comes round.
* `ToldIsCharged`: the receipt has the price that was quoted last for the confirmed
  shipment, unless an edit or a confirmation ran beside another request. It is the
  status COTIZADA that protects it: the mutant that lets it be edited breaks it.
* `EstimateIsQuoted`: the chat's estimate is the later quotation up to a cent,
  also where the chat assumed what it had not been told; the base it proposes is
  never refused; and subtotal and tax add up to the total within a cent.
* `DurationsAreTrue`: with any times and identities from any client, a closed phase
  was open and took the time between the two, unless two requests about this phase
  had the row at once; and the total is the sum of the parts, unless any two had.
* `TimelineHasItsLog`: for a shipment that is only named with logs of its own,
  nothing is announced that no log of it has, however requests overlap; and it has
  one log and no phase twice on its timeline, as long as they do not.
* `OrderIsTimed`: packages of an order finished in any sequence have the times of
  packages loaded one after another, under the two conditions its comments name.
* `MeasuredOnce`: a closed phase stays closed, however requests overlap, and keeps
  its start, its end and its duration unless two requests about this phase had the
  row at once; a finished package keeps its whole row in an order whose requests did
  not overlap. Phases and packages have two ends to choose from, so that a second
  measurement would be another one.
* `OneAdministrator`: one administrator per agency at most, and one in service.
  Although nothing is locked, the deletion of a role row that is gone makes the
  second of two replacements fail, as long as both had read before the first
  committed. The exceptions are the three of `disputed`.
* `OneOpenAgency`: a destination with an agency stays active, unless two requests
  were busy with it at once, and no two agencies share one however requests
  overlap: that is the unique column's work, not the check's.
* `StaffKeepTheirAgency`: nobody who works for an agency changes to another, since
  the role cannot be inserted twice; but where an assignment read the account before
  another's commit and its roles after it, it keeps the role it found (`disputed`).
* `LoadIsSound`: no arrangement of any engine or branch leaves the truck, overlaps
  itself, hangs over or passes the weight limit, although the search tests
  neither overlap nor walls; and every package is in the result, placed or left
  behind: not both and not twice, if it was asked for once.
* `LoadedFromTheDoor`: every package could be slid to its place when its turn
  came; the search reaches it by its frontier alone, and the mutant that looks at
  the options only breaks it.
* `NeverWorseThanTheSeed`: whenever the budget runs out, the result is the best
  solution so far, which no step ever gave up for a worse one.
* `PaymentIsForWhatWasSaved`, `SavedAsShown`: whatever the customer says, loses,
  repeats or corrects, a pre-registration has the data of the summary that was on
  the screen, and the payment page is about the last one made. It is the data that
  is the customer's, not always the consent: any text with "si" in it and no "no"
  agrees to the summary, a question such as "¿qué documentos necesito?" among them.
* `WillingGetsThrough`: who answers what is asked arrives at the payment, with
  people that cannot be found, phones that are declined, from a quotation, and with
  answers that read as another intention: "agencia de Shorey" and "ropa de oficina"
  as a question about offices, "documentos" as one about papers. It is the field
  expected that keeps them in the form; the mutant without it leads the customer out.
  Not meant are two answers the questions allow and the creation refuses, each time
  until it is corrected: Trujillo as the destination, which the question itself
  offers (`nlp.py:73`) and which equals the origin (`shipments/schema.py:206`), and
  for the recipient the phone of the sender (`schema.py:248`).

### Bounds

`PaymentFlow` grows with every payment; `Room` lets new payments and
confirmations arrive only while fewer than `MaxRows` payments, charge logs and
emission logs exist. Requests already in progress finish, so there are up to one
more of each per further thread. With `MaxRows = 2` a third number can be taken after
two, and a second log opened after a first was closed.

Service logs are explored three ways, which add up: one row of one shipment with two
phases, where requests overlap and `EndTimes` has one end before the start and two
after it, so that a phase measured twice can get another time; two rows with one
phase, where requests with a shipment or with none overlap while rows are inserted;
and two rows of two shipments and of a payment, where requests come one at a time and
give any of these identities, fitting or not. In the last two a phase that ends takes
one unit. `MaxPackages` and `MaxRows` let an order have a package before and one
after the one being finished, and an identifier be used twice; `OrderTimes` has two
instants, so that packages can be finished in the order of their numbers or against
it, and once more at another time.
`MaxShipments = 3` lets a creation be overtaken twice, `Letters` has two weekdays.
`DeskParcels` and `Conversations` have the prices that fall on half a cent, an
envelope without size and a parcel that must lie on another side; `WithinScope` of
`MCTables` does not explore what an edit beside another request leaves behind,
about which no property of prices speaks. Half cents are rounded all alike or one
of them apart.

`MaxSaved = 2` is the repeated creation; customers who say anything decline no phone
after a first one, and give the same phone whenever they give one (`WithinScope` of
`MCAssistantWizard`); willing ones may give the recipient another. `MaxBranches` is
2 where the code has 8, so that the cut happens with these cargoes; with six
packages of small trucks the search backtracks through solutions better and worse
than its seed. `MaxRank` is the length of the route. `AskedRoles` and `RoleTargets`
keep one operational and one global role and one account whose roles a developer
changes. `MCAgencyStaff` explores three accounts with both agencies and every
operation, but one assignment at a time; or four accounts with one agency, where
only creations and assignments overlap; or, from a state in which one of two
agencies is in service, three assignments of existing accounts at once, as long as
not both agencies are disputed. The second has what two assignments do to each other
between any two of their reads, the third what a third one adds. `View` of
`MCClaimWorkflow` drops, for a case whose requests overlapped, what no property says
of such a case: the history the staff read, the check of its payment and its late
evidence; no action reads them. `MaxDay` and `MaxUses` of `SearchCache` are what its
counterexample needs. An initial state chooses what a behaviour of `MCTables`,
`MCAgencyStaff`, `MCLoadPlan`, `MCPaymentCalm` and `AssistantWizard` is about, so
that the spaces add up.

In `ReceiptIssuance` and `ShipmentLifecycle` there are no counters to cap: a
shipment has at most one receipt, so numbers are bounded by the set of shipments,
and a thread's state is reset when its request ends. The only other bounds are the
constants:

* threads (`Issuers`, `Workers`, `Cashiers`): two show every conflict of a check
  with one other request's commit. A third matters only where a row can come back
  (`agency_staff`). Production has four; the proofs cover any number.
* `Shipments`: one where the properties are about requests for one shipment, two
  where numbers or threads of different shipments meet.
* `Served`: the endpoints that receive requests. They differ before the load and
  after the receipt is issued, so runs about the numbering serve one, runs about
  the tail serve all.
* `LoggedShipments`: shipments whose payment opens an emission log; empty where
  no property mentions logs.
* `Receivers`: two only where different receivers could be confused. `Bases`:
  one, since guards compare only with NULL; the two classes of change (to
  another base, to none) that matter are set against `NoBase`.
* `SunatEnv = "beta"` in every run: it is the only environment in which all the
  endpoints and Lycet are reachable, and the switch still gives the mock flow.

Threads, shipments, receivers, bases, agencies, destinations, desks and documents
are interchangeable, and SYMMETRY is used only in runs without liveness. Deadlock
is checked wherever a thread can always load or crash. It is not checked in
`tables`, `agency_staff` and `search_cache`, whose bounds on rows, identifiers and
days end their behaviours, in `load_plan`, where a run is over when it has its
result, and in `assistant`, where a willing customer stops at the payment.

`tables` and `claim_workflow` have about a million states each and take a minute and
a half, as does `agency_staff`; `assistant` (liveness over all its states) takes one.

### Fairness

`FairSpec` assumes weak fairness of each request's steps: a running thread goes
on, and each HTTP call to Lycet has a 30 s time-out (`sunat/client.py`), so an
answer or `LycetFails` comes. `TakeNumber` gets strong fairness, since the lock
is only intermittently free: PostgreSQL grants table locks first come, first
served. `Crash` and the environment have none.

`MCPaymentCalm` assumes the same of payments in executions in which nothing
crashes: a crash after the charge leaves an approved payment unannounced for
ever, since no job looks for it. Whether an execution is calm is chosen at its
start (`way`); `LogFails` is possible in it but not fair.

`AssistantWizard` has weak fairness of the willing customer's turns and of the
acceptance of the privacy notice: it is an assumption on the customer, and on the
network and the server that nothing is lost or fails meanwhile. Every answer
`Proper` names may be the one given, and the server's choices (what RENIEC or the
model find) are all allowed, so the property covers each of them.

## Disagreements found

`WithinCapacity` (run `load_capacity`): `ALGORITMOS_OPTIMIZACION.md:135-138` says
that a package bears a weight according to its fragility and that the weight
accumulated downwards may not exceed it. The code checks it for the direct
supports of a new package only, and then lets its weight go on to what lies
below: three boxes of one weight, one on the other, put two weights on the
lowest, whose capacity is one and a half. The program does so when it is run on
this cargo.

`ToldWhileValid` (run `search_cache`): `app/modules/asistente/web_search.py:29`
says that a stored answer is valid for thirty days. Its age is taken from
`updated_at` (`web_search.py:72`), which the UPDATE that counts each use renews
(`repository.py:179`, `model.py:110`): an answer that is asked for often enough is
told for ever.

### What overlapping requests can do

The models have these behaviours, found by checking the properties of the
`Disjoint` or `overlapped` kind without their restriction. No test or comment of
the repository speaks of overlapping requests, so they are told here and not
counted as disagreements.

* A shipment canceled while its request for a receipt waits for the table lock,
  or for Lycet, gets its receipt (`sunat/service.py:160`).
* SUNAT registers number n for shipment A, the answer is lost and n is rolled
  back; shipment B takes n, gets no CDR from `POST /send`, and `GET /status`
  returns A's CDR. B is stored as ACEPTADO (`sunat/repository.py:39`).
* A delivery and a cancellation, or two deliveries, that both loaded an open
  shipment are both accepted (`shipments/service.py:343`).
* A confirmation between the commits of the chat's pre-registration leaves a
  registered package without a base (`asistente/wizard.py:705`).
* Two requests for one shipment open two emission logs, or two service logs, and
  later phases are split between them (`measurement_logs/service.py:56`, `:187`).
* Two requests that close two phases at once each leave the other out of the
  total, and two that close one phase measure it twice: the second time, duration and
  event replace or follow the first (`measurement_logs/service.py:264`, `:353`,
  `:360`). Two that finish one package do the same (`:608`).
* Two assignments of the first administrator of an agency leave it with two, and
  two requests that then confirm one each remove both.
* An assignment of u reads the row of u, another that replaces u by v commits, and
  the first finds v as the administrator to demote: if it read the roles of u before
  that commit, it keeps a role for u that is gone, and the agency is left in service
  with nobody (`agencies/service.py:249`, `:268`). If it read the row of an account
  without agency before a commit that made it an administrator elsewhere and its roles
  after it, the role is kept and the account moves (`:338-344`).
* Three assignments can leave two administrators in an agency that had one: an
  account read without agency by two requests is made administrator of the first
  agency, replaced there, and made administrator of the second by the other; a
  request that had read it as the administrator of the first now finds a row of
  `user_roles` to delete and commits beside the one that replaced it. The key of
  that row is the account and the role and names no agency
  (`agencies/service.py:277`).
* A third creation of the same moment is refused for its code, and two creations
  that bring the same new client refuse one of them (`shipments/repository.py:144`).
* A shipment that is confirmed twice at once can be quoted, set back to REGISTRADA
  and edited, so that its receipt differs from what the customer was told
  (`shipments/repository.py:211`).
* A closed case is reopened by a request that loaded it before
  (`claims/service.py:330`).

### What one request after the other can do

* An endpoint that finishes a phase of a log by its identifier announces it on the
  shipment its payload names, which need not be that of the log: the timeline then
  tells of a phase that no log of the shipment has (`measurement_logs/router.py:252`,
  `service.py:266`). A log is found by any of its identities, so that one request can
  get the log of another shipment through a payment.
* The staff can take a resolved case back to INVESTIGANDO by an event the customer
  does not see: the page shows the new status above a history that ends with the
  solution (`claims/service.py:317`, `:244`).
* After a payment was refused and the case closed by an event, the customer's
  page shows the text of a solution that was never verified;
  `payment_verified_*` is never cleared by a second solution.
* `users/router.py:78`, `:90` and `:107` call functions that are defined nowhere,
  so editing or disabling an account outside its agency ends in a NameError. The
  model has no action for them.
* The routes of destinations ask for no login. An inactive account can be made
  the administrator of an agency.
* A package is not always unloaded without moving another: the loop of
  `progressive_loading.py:36-47` goes by depth before stop, which the document's
  section on LIFO does not say.
* A code that is given twice is loaded twice if there is room for two; in a logistic
  run whose seed has room for one, the second is in neither list of the result, since
  what is left behind is found by its identifier (`optimization_poc/repository.py:116`,
  `algorithms/backtracking_3d.py:166`). One run of `load_plan` has the second case,
  three the first.
* The search does not check the lateral support of thin upright packages.
* The chat offers Trujillo, the only origin, as a destination; the creation is
  refused, and the customer goes from "Tuve un problema" to the same summary.
* A "Sí" repeated after its answer was lost makes a second pre-registration. A
  creation that fails after its first commit is told as a failure.
* "cancelar" after the payment page was opened says that nothing was saved.
  "sí, acepto el precio" at the summary starts a quotation and drops the form.
  "no tengo", when the document of the recipient is asked for, becomes a name.
  A quotation drops the acceptance of the privacy notice.

## The proofs

The modules `..._proofs`, for all values of the constants that satisfy the
assumption of each module (special values lie outside their sets, times and bounds
are naturals, a parcel is a parcel, an agency and a shipment exist, the default
account exists, the packages and the truck of a run have positive sizes). Finiteness
of the sets of threads, shipments or people is not assumed; that of the phases of a
service is, since their durations are added up.

| Theorem | Statement |
|---|---|
| `ReceiptIssuance_proofs!TypeCorrect` | `Spec => []TypeOK` |
| `NumberStaysNext`, `SeriesGapless` | the numbering |
| `AcceptedRegistered` | `Spec => []AcceptedIsRegistered` |
| `NothingAnnouncedEarly`, `LinkedLogsHaveReceipts` | `Spec => []TimelineIsTrue`, `Spec => []LinkedLogHasReceipt` |
| `LedgerImplemented` | `Spec => ImplementsLedger` |
| `ShipmentLifecycle_proofs!TypeCorrect` | `Spec => []TypeOK` |
| `TimelineAlwaysAgrees` | `Spec => []TimelineAgrees` |
| `PreRegistrationIsLeftOnce` | `Spec => LeavesPreRegistrationOnce` |
| `BaseIsKept` | `DisjointSpec => []RegisteredHasBase` |
| `FirstReceiverStays` | `DisjointSpec => DeliveredOnce` |
| `MachineImplemented` | `DisjointSpec => ImplementsMachine` |
| `PaymentFlow_proofs!TypeCorrect` | `Spec => []TypeOK` |
| `ChargesAreNumbered` | `Spec => []ChargesNumbered` |
| `AnnouncedOnlyIfCharged` | `Spec => []AnnouncedWasCharged` |
| `SuccessesAreAccepted` | `Spec => []SuccessesWereAccepted` |
| `OneOpenLogKept` | `DisjointSpec => []OneOpenLog` |
| `OneOpenLogKeptApart` | `MCSpec => []OneOpenLogApart` |
| `ClaimWorkflow_proofs!EventsAlwaysAgree` | `Spec => []EventsAgree` |
| `SolutionsAreSound` | `Spec => []SolutionIsSound` |
| `RecordsStayGuarded` | `Spec => []RecordsAreGuarded` |
| `ClosedStaysFrozen` | `Spec => ClosedIsFrozen` |
| `AgencyStaff_proofs!OneAdministratorHolds` | `Spec => []OneAdministrator` |
| `OneOpenAgencyHolds` | `Spec => []OneOpenAgency` |
| `StaffKeepTheirAgencyHolds` | `Spec => StaffKeepTheirAgency` |
| `Tables_proofs!RefusalsExplained` | `DeskSpec => []RefusedOnlyWhenOvertaken` |
| `EstimatesHold` | `BillingSpec => []EstimateIsQuoted` |
| `ToldPriceHolds` | `BillingSpec => ToldIsCharged` |
| `OrderIsTimedAlways` | `OrderSpec => []OrderIsTimed` |
| `FinishedOnceAlways` | `OrderSpec => FinishedOnce` |
| `TimelineHasItsLogAlways` | `ServiceSpec => []TimelineHasItsLog` |
| `ClosedStaysClosedAlways` | `ServiceSpec => ClosedStaysClosed` |
| `DurationsAreTrueAlways` | `ServiceSpec => []DurationsAreTrue` |
| `MeasuredOnceAlways` | `Spec => MeasuredOnce` of `MCTables`, from the two on closed phases and finished packages |
| `ChatAndLoad_proofs!PaymentPageHolds` | `Spec => []PaymentIsForWhatWasSaved` |
| `SavedAsShownHolds` | `Spec => SavedAsShown` |
| `LoadIsSoundAlways` | `LoadSpec => []LoadIsSound` |
| `LoadedFromTheDoorAlways` | `LoadSpec => []LoadedFromTheDoor` |
| `NeverWorseThanTheSeedAlways` | `LoadSpec => NeverWorseThanTheSeed` |

**Receipts.** None of the properties is inductive alone; the invariant is

* `Numbering`: `receipts` is finite, `Gapless`, and `NumberIsNext`. The three
  need each other: an insert keeps the numbers 1..n only because its number is
  `LastNumber + 1`, and that stays so only because nobody else holds the lock.
* `RowsUnique`, from the unique constraints in `Conflicts`.
* `AcceptedBySunat`: also a request that is about to store ACEPTADO has a
  registered number.
* `AfterTheReceipt`: a request past the insert has a committed receipt.

The types need `Numbering` (a positive number is `LastNumber + 1`), so both are
proved together. For the ledger, entry n is the shipment of receipt n; a step
that inserts appends one entry (`BookAppends`), all others stutter.

**Shipments.** `WriteShape` and `NextShape` reduce every handler to a few kinds
of step: insert, chat insert, load, re-read, clear the base, drop, and a write
that edits, advances, cancels or delivers. Under `Spec` the invariant is
`TypeOK`, `TimelineAgrees` and `Stale`: relative to the copy a request
holds, the committed row has only moved forward - a status past
PRE_REGISTRADA stays past it, a receiver or cancellation on record stays on
record. `MergeLater` shows a write from such a copy keeps this. Under
`DisjointSpec` the copy of a busy request is equal to the row (`Fresh`), so a
merge is the assignment itself (`MergeFresh`); the assumption `Disjoint` is part
of the specification, and dropping it makes all three theorems false.

**Payments.** `Numbering` adds to `ChargesNumbered` that the lock is held exactly
between reading the number and the commit or roll-back, and that the number read
is one more than the rows. `Charging` adds to `AnnouncedWasCharged` that a request
on its way to the announcement carries an approval the gateway has on record. For
`OneOpenLog` the addition is `StillNone`: what a request found before it inserts a
log is still so. That is where `Disjoint` is needed, and all it is needed for.
`Counting` adds to `SuccessesWereAccepted` the requests that still carry a success
to the charge log: rows and such requests together are no more than the payments
the gateway has. Counted over cardinalities, so the requests under way must be
finitely many: `Counting` says so, since every one of them is a payment of the
gateway's record.

**Claims.** `CInv` says what a request carries (`IsRequest`): the case it loaded
exists and its user had the permission. `Current` is the premise of overlap: the one
request that is busy with a case has its row as it is. `ResolversStand` needs no
such premise: a resolver is replaced and never cleared, so the copy of a request
names one only if the row does, and a merge cannot lose it. For the part of
`EventsAgree` about what the customer is shown, `EventsMove` has that no event keeps
a status: a request that writes an event the customer does not see writes the
status, and one that leaves the case solved is one of those that show it. All writes
but the attachments have the shape `Updates`, for which `SaveKeeps` shows the
invariant once.

**Agencies.** Nothing is locked; what excludes the second of two replacements is
that the row it deletes is gone. `IsAssignment` says therefore, for each of the four
points between its reads, what an assignment still knows of what it has read: an
account that was at the agency is there, or was moved between two agencies, which
are `disputed` then (`Followed`); an operational role the account has was among
those read. `Settled` says that what an assignment of an agency out of dispute has
read of its administrators is still so: `KeepsReads` shows that every other step
leaves it, or, where another assignment commits in between, puts the agency in
dispute. `FirstIsAlone` adds that an assignment which found no administrator has the
agency for itself, and `PlaceIsKept` that a request alone with a destination finds
it as it was. The attempt to prove `OneAdministrator` for any number of requests
showed that it was false of three: an account that passes through another agency
(see above) brings its row back. The run explores three threads since, and
`disputed` names the case.

**The chat.** `WInv`: a form that waits for the customer's yes shows what it holds
(`Asked`); one that waits for the choice of payment holds what was saved last, with
its base set and its log written (`Paying`). The texts are arbitrary records there:
nothing depends on what the language functions make of a message.

**Loads.** The search checks neither that a box overlaps no other nor that its way
from the door is free; `LoadInv` says why it need not. Of every frame of the stack
(`IsFrame`) it says that the free spaces are in the truck, apart from one another and
from every box placed (`SpacesAreFree`): what `Split` leaves of a space is apart from
the box put there (`SplitIs`), and parts of what is apart are apart (`PartsAreApart`).
That the boxes lie in a loading order that never goes deeper (`NeverDeeper`) is what
`Frontier` keeps, and a box that is apart and no deeper bars no way (`NotInTheWay`).
An open frame knows that its options have their support and that its package is light
enough (`IsOption`): both were asked of the same arrangement. A closed frame has
decided on all that come before its own (`HasDecided`), so a solution reports of every
package (`IsReported`); that none is placed twice needs an order that has each once:
`OrderedIs` shows that the keys of `ComesBefore` are a strict total order, that the
numbers of predecessors are therefore different, and so that every place of the order
has its package. For the heuristics
`SelectedMayFollow` shows that what is selected passed `ValidPlacement` at whole
coordinates, whatever the scores. Both kinds of step then are an append to a load
(`LoadedWith`): the boxes below keep the support and the way they had, since
`RecomputeSupportedWeights` changes `carried` alone (`Recomputed`, which needs nothing
of what its recursion computes), and the support of a box is a sum over places, which
only grows (`SupportGrows`). The assumption `JobsAssumption` is that lengths are
positive, weights not negative and stops on the route; TLC evaluates it. The
invariant held of every state of the run `load_plan` before it was proved.

**Codes and clients.** `IInv` says of each request what `overtaken` has to explain:
a code it has taken is free or somebody was committed since (`Coded`), a client it
found missing is missing or somebody was (`Reads`), what it holds it has written
(`Holds`), and the number in a code is at most the identifier of its row, now and
when it is inserted (`Numbered`). The last one is what makes a first free number
exist near the highest identifier: without it the CHOOSE of `FirstFree` would have
to be trusted.

**Prices.** `BInv` follows the copy of each request: as long as no edit or
confirmation ran beside another request, every copy is the row, and what was told
for a confirmed shipment is still its price, since its status admits no edit
(`Undisturbed`). `AsDrafted` relates the row to the conversation it came from until
the first edit. The lemmas on `Nearest` bound each rounding by half a cent, which
gives one cent for two sums.

**Loading orders.** `OInv` adds to the property that the one request that is busy
with an order has its rows as they are (`OrderCurrent`), that the rows it found belong
to the order whatever overlaps (`Rooted`), that a missing next package does not
exist (`Ready`), and that an order that was started once has each number once
(`Distinct`).

**Phases.** Every step finds a log, ends a request, inserts a row or writes one
(`ServiceSteps`), and `MergeWrites` says what a write does to the row of the table,
whatever the copy was: an UPDATE names the columns that differ from the copy, so no
time the table has is lost. `RowsAreTrue` is the invariant for durations.
`RowHolds`: a phase about which no two requests had the row at once has the duration
between its times, and if no two requests had the row at all, the total is the sum.
`CopyHolds` is what makes a write keep that: a copy has the times of its phase as
they are in the row unless another request about the phase has the row, and is the
row unless another request has it. `LogsAreKept` gives `ClosedStaysClosed` from it.
`TimelineHolds` is the invariant for the timeline, of shipments that were only ever
named beside logs of their own: a request has such a log (`Own`), and while it is
the only one that names the shipment, what it found missing is still missing and not
yet told (`OnlyOne`, `Untold`), so that there is one log and no event twice
(`OneEach`); what was told has its time in a log (`AnnouncedIsLogged`). `SetLemmas`
has these sums: they are folds, and what a fold does with a set is proved by the
smallest set for which it does not (`SmallestSet`), since induction over sets is not
available.

**Only model-checked:** `RequestsFinish`, `ApprovedIsAnnounced` and
`WillingGetsThrough`: liveness under fairness is out of the prover's reach. What the
recursion of `RecomputeSupportedWeights` computes and what the language functions
return for a text would need induction over data; the theorems hold whatever they
return.

## Abstractions and what is left out

* In `ReceiptIssuance` the read of the existing receipts and that of the switch
  are one step: nothing between them depends on a change of the other. The commit
  of the settings row the first time it is read is ignored; it happens once per
  database. The payload, PDF and XML layouts are not modelled.
* Outside `ClaimWorkflow` and `AgencyStaff`, an authorization that fails (agency
  scope, permissions) ends a request before it does anything and is not modelled.
* Numbers are naturals; the code compares them as text of eight digits, the same
  order below 10^8.
* `ShipmentLifecycle` drops the columns no guard or property reads (people,
  dimensions, prices); the service-log rows that some requests also commit are
  in `ServiceLog`.
  Events entered by hand have event types of their own and are not status events.
* Input checks whose data is dropped (a blank reason, the three days of a
  pre-registration, the security key) are a nondeterministic `Refuse`; the
  chance that the reverse test passes is always there too.
* In `PaymentFlow` the closing of the registration phase, a commit of its own
  before the announcement, is left out; if it raises, the request ends as in
  `Crash`. A payment's shipment is one that exists or is missing from the request.
  Logs are found by shipment only: the payment's id, the other thing the query
  compares, is new with every payment. `start_boleta_log` by hand is left out.
* `ClaimWorkflow` keeps the columns its guards and properties read; the matching
  of a claimant to a shipment, limits on the size and kind of a picture and the
  texts are left out. A user's roles and agency do not change in it.
* `ServiceLog` keeps the columns a log is found by; the dispatch and the user, which
  a request also leaves in a row that has none, are left out. `LoadingOrder`
  lets a package be finished through any open row of it, since the query has no
  order.
* `AgencyStaff` leaves out names, codes, addresses, passwords, listings, the edits
  of the tables of roles and permissions and accounts created outside an agency.
  A request that changes no value writes nothing and is no action.
* `LoadPlan` keeps the leading terms of the scores. Lengths are whole numbers; the
  tolerances of the code (1e-6, 0.001) separate nothing between them. The metrics
  and instructions of an answer are left out, and so are `worst_fit_algorithm` and
  `best_fit_decreasing_3d_algorithm`, which are imported and never called.
* `AssistantWizard` knows a value by where it came from (given, found) except for
  destinations, and has documents of people only as the constant says. The
  estimated price, the wording of the answers and the log's other columns are left
  out. A question of two words or more that is asked when a name is expected is
  taken as the name, as in the code.
* `Billing` counts in whole units; only how an exact half cent is rounded is left
  open. Upper limits of weights and sizes are left out.
* `Registration` leaves out which data of a client changed, and refusals before the
  first write. Transactions that wait do so for a row of a client or for a code;
  the wait ends with the other transaction or with `Deadlock`.
* `SearchCache` does not say which messages have one key, nor how an answer is cut
  out of what the search returned.

### Not modelled

* `auth`, `reniec`, `developer_view`, the reports and the deployment keep no state
  of the system.
* The pool of two connections under four requests: a request that gets none fails
  and changes nothing.
* The closing of an emission log by hand: one update.
* The base of knowledge, the content types and the pick-up requests of
  `asistente`, the coherence rules of `llm`, the edits of roles and permissions:
  single-row inserts and updates, or pure functions, with no rule between them.

## Plan

Done: `ReceiptIssuance`, `ShipmentLifecycle`, `PaymentFlow`, `ClaimWorkflow`,
`ServiceLog`, `LoadingOrder`, `AgencyStaff`, `LoadPlan`, `AssistantWizard`,
`Registration`, `Billing`, `SearchCache`. What is left, in order:

1. The agency of a new shipment, which its creation reads before the agency is
   moved or put out of service: `Registration` beside `AgencyStaff`.
2. The pick-up requests and the base of knowledge of `asistente`, once they have
   rules of their own.
