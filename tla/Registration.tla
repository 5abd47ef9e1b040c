---------------------------- MODULE Registration ----------------------------
(***************************************************************************)
(* Codes and clients: how a shipment gets its code and what its creation   *)
(* leaves in the table of clients.  app/modules/shipments (service and     *)
(* repository) and app/modules/clients.                                    *)
(*                                                                         *)
(* A creation writes the sender and the recipient to the table of clients, *)
(* takes the code after the highest identifier and inserts the shipment,   *)
(* all in one transaction.  Nothing is locked first: a row that another    *)
(* transaction inserted or changed and has not committed makes a write     *)
(* wait, and the unique columns refuse what two of them inserted.  A code  *)
(* that is refused is taken once more, a client is not.  Edits of a        *)
(* shipment and of a client write the same table.                          *)
(***************************************************************************)
EXTENDS Naturals, Sequences, FiniteSets, FiniteSetsExt

CONSTANTS
  Desks,         \* threads that serve requests
  Dnis,          \* documents of people
  Letters,       \* letters of weekdays
  MaxShipments,  \* bound: identifiers that are taken before a creation begins
  NoDesk

ASSUME RegistrationAssumption == NoDesk \notin Desks /\ MaxShipments \in Nat

VARIABLES
  today,      \* expected_shipment_code_prefix
  shipments,  \* committed rows of the table encomiendas
  nextId,     \* the sequence of its identifiers, which no rollback sets back
  clients,    \* committed rows of the table clientes
  holder,     \* the thread with an uncommitted row of a client
  stage,      \* where each thread is in its request
  call,       \* the request
  overtaken   \* history: requests committed since the thread began its own

deskVars == <<today, shipments, nextId, clients, holder, stage, call, overtaken>>

-----------------------------------------------------------------------------
Code == Letters \X (Nat \ {0})

Reasons == {"none", "client", "code", "deadlock"}

\* `person' is the one of the people it is at, `isNew' that the document had no
\* client, `id' the identifier of the INSERT, `again' that it is the second one.
NewCall(creates, people) ==
  [creates |-> creates, people |-> people, person |-> 1, isNew |-> FALSE,
   code |-> <<"none", 0>>, id |-> 0, again |-> FALSE, why |-> "none"]

NoCall == NewCall(FALSE, <<>>)

DeskInit ==
  /\ today \in Letters
  /\ shipments = {}
  /\ nextId = 1
  /\ clients \in SUBSET Dnis
  /\ holder = [d \in Dnis |-> NoDesk]
  /\ stage = [i \in Desks |-> "idle"]
  /\ call = [i \in Desks |-> NoCall]
  /\ overtaken = [i \in Desks |-> 0]

Reach(i, point) == stage' = [stage EXCEPT ![i] = point]

\* The transaction is over and what it wrote is no longer held.
Release(i) == holder' = [d \in Dnis |-> IF holder[d] = i THEN NoDesk ELSE holder[d]]

\* create_shipment, create_pre_registration, update_shipment and the endpoints
\* of clients: the people who have a DNI and a name, in this order.
Begin(i, creates, people) ==
  /\ stage[i] = "idle"
  /\ creates => nextId <= MaxShipments
  /\ call' = [call EXCEPT ![i] = NewCall(creates, people)]
  /\ overtaken' = [overtaken EXCEPT ![i] = 0]
  /\ Reach(i, "people")
  /\ UNCHANGED <<today, shipments, nextId, clients, holder>>

\* get_client_by_dni of the next person, whose row its own transaction may have
\* written, and whether there is anything to write: the data of a client that
\* is there can be the same.
Read(i) ==
  LET r == call[i]
      d == r.people[r.person]
      known == holder[d] = i \/ d \in clients IN
  /\ stage[i] = "people"
  /\ r.person <= Len(r.people)
  /\ \/ call' = [call EXCEPT ![i].isNew = ~known] /\ Reach(i, "person")
     \/ known /\ call' = [call EXCEPT ![i].person = @ + 1] /\ UNCHANGED stage
  /\ UNCHANGED <<today, shipments, nextId, clients, holder, overtaken>>

Abort(i, why) ==
  /\ Release(i)
  /\ call' = [call EXCEPT ![i].why = why]
  /\ Reach(i, "refused")
  /\ UNCHANGED <<today, shipments, clients, overtaken>>

\* The row of the next person is not held by another transaction.
Free(i, d) == holder[d] \in {i, NoDesk}

\* create_client or the update of upsert_client, flushed.
Write(i) ==
  LET r == call[i]
      d == r.people[r.person] IN
  /\ stage[i] = "person" /\ Free(i, d)
  /\ ~(r.isNew /\ d \in clients)
  /\ holder' = [holder EXCEPT ![d] = i]
  /\ call' = [call EXCEPT ![i].person = @ + 1]
  /\ Reach(i, "people")
  /\ UNCHANGED <<today, shipments, nextId, clients, overtaken>>

\* The client was new when it was read and is there now: IntegrityError, 500.
WriteConflict(i) ==
  LET r == call[i]
      d == r.people[r.person] IN
  /\ stage[i] = "person" /\ Free(i, d)
  /\ r.isNew /\ d \in clients
  /\ Abort(i, "client") /\ UNCHANGED nextId
-----------------------------------------------------------------------------
\* generate_shipment_code: the first number from max(id) + 1 on that no
\* shipment has together with the letter of the day.
FirstFree ==
  LET free(n) == \A r \in shipments : r.code # <<today, n>>
      highest == Max({r.id : r \in shipments} \cup {0})
  IN <<today, CHOOSE n \in (highest + 1)..(highest + 1 + Cardinality(shipments)) :
                free(n) /\ \A m \in (highest + 1)..(n - 1) : ~free(m)>>

TakeCode(i) ==
  LET r == call[i] IN
  /\ stage[i] = "people" /\ r.creates
  /\ r.person > Len(r.people)
  /\ call' = [call EXCEPT ![i].code = FirstFree]
  /\ Reach(i, "coded")
  /\ UNCHANGED <<today, shipments, nextId, clients, holder, overtaken>>

\* _commit_new_shipment_with_code_retry: the day may have changed since.
CheckDay(i) ==
  /\ stage[i] = "coded"
  /\ call' = [call EXCEPT ![i].code = IF @[1] = today THEN @ ELSE FirstFree]
  /\ Reach(i, "inserting")
  /\ UNCHANGED <<today, shipments, nextId, clients, holder, overtaken>>

\* The index makes an INSERT wait for another transaction that inserted the code.
CodeIsFree(i) == \A j \in Desks \ {i} : stage[j] = "inserted" => call[j].code # call[i].code

CodeIsNew(i) == \A r \in shipments : r.code # call[i].code

\* INSERT: the identifier comes from the sequence, also if the code is refused.
Insert(i) ==
  /\ stage[i] = "inserting"
  /\ CodeIsFree(i) /\ CodeIsNew(i)
  /\ call' = [call EXCEPT ![i].id = nextId]
  /\ nextId' = nextId + 1
  /\ Reach(i, "inserted")
  /\ UNCHANGED <<today, shipments, clients, holder, overtaken>>

\* Mutant of Renumbered: the second try has the code of the first.
SameCode(code) == code

\* The code of the second try.
Renumbered(code) == FirstFree

\* The first IntegrityError undoes the savepoint, the second everything.
InsertConflict(i) ==
  /\ stage[i] = "inserting"
  /\ CodeIsFree(i) /\ ~CodeIsNew(i)
  /\ nextId' = nextId + 1
  /\ IF call[i].again
     THEN Abort(i, "code")
     ELSE /\ call' = [call EXCEPT ![i].code = Renumbered(@), ![i].again = TRUE]
          /\ UNCHANGED <<today, shipments, clients, holder, stage, overtaken>>
-----------------------------------------------------------------------------
Done(i) ==
  \/ stage[i] = "inserted"
  \/ stage[i] = "people" /\ ~call[i].creates /\ call[i].person > Len(call[i].people)

\* The request is answered.
Leave(i) ==
  /\ call' = [call EXCEPT ![i] = NoCall]
  /\ Reach(i, "idle")

Working(i) == stage[i] \notin {"idle", "refused"}

\* The only COMMIT of the request.
Commit(i) ==
  /\ Done(i)
  /\ shipments' = IF call[i].creates THEN shipments \cup {[id |-> call[i].id, code |-> call[i].code]}
                  ELSE shipments
  /\ clients' = clients \cup {d \in Dnis : holder[d] = i}
  /\ Release(i)
  /\ overtaken' = [j \in Desks |-> CASE j = i -> 0
                                     [] j # i /\ Working(j) /\ overtaken[j] < 2 -> overtaken[j] + 1
                                     [] OTHER -> overtaken[j]]
  /\ Leave(i)
  /\ UNCHANGED <<today, nextId>>

\* Whom a thread in wait for the row of a client waits for.
WaitsFor(i) ==
  IF stage[i] = "person" THEN holder[call[i].people[call[i].person]] ELSE NoDesk

\* PostgreSQL ends one transaction of a circle.
Deadlock(i) ==
  /\ stage[i] = "person" /\ ~Free(i, call[i].people[call[i].person])
  /\ \E circle \in SUBSET Desks : i \in circle /\ {WaitsFor(j) : j \in circle} = circle
  /\ Abort(i, "deadlock") /\ UNCHANGED nextId

\* The error is answered: get_db has rolled the transaction back.
Refuse(i) ==
  /\ stage[i] = "refused"
  /\ overtaken' = [overtaken EXCEPT ![i] = 0]
  /\ Leave(i)
  /\ UNCHANGED <<today, shipments, nextId, clients, holder>>

NextDay ==
  /\ today' \in Letters \ {today}
  /\ UNCHANGED <<shipments, nextId, clients, holder, stage, call, overtaken>>

DeskStep(i) ==
  \/ Read(i) \/ Write(i) \/ WriteConflict(i)
  \/ TakeCode(i) \/ CheckDay(i) \/ Insert(i) \/ InsertConflict(i)
  \/ Commit(i) \/ Deadlock(i) \/ Refuse(i)

DeskNext ==
  \/ \E i \in Desks, creates \in BOOLEAN, sender, recipient \in Dnis :
       \/ Begin(i, creates, <<sender, recipient>>)
       \/ Begin(i, creates, <<sender>>)
       \/ Begin(i, TRUE, <<>>)
  \/ \E i \in Desks : DeskStep(i)
  \/ NextDay

DeskSpec == DeskInit /\ [][DeskNext]_deskVars
-----------------------------------------------------------------------------
DeskTypeOK ==
  /\ today \in Letters
  /\ \A r \in shipments : r.id \in 1..(nextId - 1) /\ r.code \in Code
  /\ clients \subseteq Dnis
  /\ holder \in [Dnis -> Desks \cup {NoDesk}]
  /\ \A d \in Dnis : holder[d] # NoDesk => Working(holder[d])
  /\ \A i \in Desks : call[i].why \in Reasons /\ (stage[i] = "refused" <=> call[i].why # "none")
  /\ overtaken \in [Desks -> 0..2]

\* The code of a shipment never runs ahead of its identifier, although the two
\* come from different counters: so the number after the highest identifier is
\* no older shipment's, on whatever weekday it comes round again.
CodeWithinId == \A r \in shipments : r.code[2] <= r.id

\* One retry is enough for a creation that meets one other: it is refused for
\* its code only if two were committed before it, for a new client only if
\* another request committed it first, and as part of a circle only if it
\* brings two people.
RefusedOnlyWhenOvertaken ==
  /\ DeskTypeOK /\ CodeWithinId
  /\ \A i \in Desks : stage[i] = "refused" =>
       /\ call[i].why = "code" => overtaken[i] = 2
       /\ call[i].why = "client" => overtaken[i] > 0
       /\ call[i].why = "deadlock" => Len(call[i].people) = 2

=============================================================================
