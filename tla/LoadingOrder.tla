---------------------------- MODULE LoadingOrder ----------------------------
(***************************************************************************)
(* Loading orders, table logs_carga_paquete of app/modules/                *)
(* measurement_logs: an order numbers its packages from one, and to finish *)
(* a package sets the start of the one with the next number.               *)
(*                                                                         *)
(* A request that finishes a package reads its row, then the row of the    *)
(* next one, and writes both from these copies.  The identifier of an      *)
(* order comes from the client and may be in use already.                  *)
(***************************************************************************)
EXTENDS Integers, Sequences, SequencesExt

CONSTANTS
  Loaders,      \* threads that serve requests
  Orders,       \* identifiers of orders
  Packages,     \* shipments that are loaded
  OrderTimes,   \* the times of the clock and of the clients
  NotYet,       \* timestamp_fin and tiempo_carga_ms are NULL
  MaxPackages,  \* bound: packages of an order
  MaxRows       \* bound: rows of the table

ASSUME OrderConstants ==
  /\ OrderTimes \subseteq Nat /\ NotYet \in Int \ OrderTimes
  /\ MaxPackages \in Nat /\ MaxRows \in Nat

VARIABLES
  rows,       \* the table: the row with identifier n is rows[n]
  at,         \* where each thread is in its request
  job,        \* the request, with the copies its session loaded
  restarted,  \* history: orders that were started twice
  shared      \* history: orders two requests were ever busy with at once

orderVars == <<rows, at, job, restarted, shared>>

PackageRow ==
  [order : Orders, package : Packages, number : 1..MaxPackages,
   start : OrderTimes, end : OrderTimes \cup {NotYet}, took : Int]

NoJob == [row |-> 0, next |-> 0, fin |-> NotYet, seen |-> <<>>, seenNext |-> <<>>]

OrderTypeOK ==
  /\ rows \in Seq(PackageRow) /\ Len(rows) <= MaxRows
  /\ at \in [Loaders -> {"idle", "found", "next"}]
  /\ \A i \in Loaders :
       /\ at[i] # "idle" => job[i].row \in DOMAIN rows /\ job[i].seen \in PackageRow
       /\ job[i].next \in 0..Len(rows)
       /\ job[i].next # 0 => job[i].seenNext \in PackageRow
       /\ at[i] = "next" => job[i].fin \in OrderTimes
  /\ restarted \cup shared \subseteq Orders

OrderInit ==
  /\ rows = <<>>
  /\ at = [i \in Loaders |-> "idle"]
  /\ job = [i \in Loaders |-> NoJob]
  /\ restarted = {}
  /\ shared = {}

RowsOf(o) == {n \in DOMAIN rows : rows[n].order = o}

\* The rows of an order that starts at t.
NewRows(o, packages, t) ==
  [k \in DOMAIN packages |->
     [order |-> o, package |-> packages[k], number |-> k,
      start |-> t, end |-> NotYet, took |-> NotYet]]

\* iniciar_orden_carga
StartOrder(o, packages, t) ==
  /\ Len(rows) + Len(packages) <= MaxRows
  /\ rows' = rows \o NewRows(o, packages, t)
  /\ restarted' = IF RowsOf(o) = {} THEN restarted ELSE restarted \cup {o}
  /\ UNCHANGED <<at, job, shared>>

BusyWith(o) == {i \in Loaders : at[i] # "idle" /\ job[i].seen.order = o}

\* finalizar_paquete_carga: an open row of the package, any of them ...
FindPackage(i, n) ==
  /\ at[i] = "idle"
  /\ rows[n].end = NotYet
  /\ at' = [at EXCEPT ![i] = "found"]
  /\ job' = [job EXCEPT ![i] = [NoJob EXCEPT !.row = n, !.seen = rows[n]]]
  /\ shared' = IF BusyWith(rows[n].order) = {} THEN shared ELSE shared \cup {rows[n].order}
  /\ UNCHANGED <<rows, restarted>>

EndAllowed(seen, t) == seen.start <= t

\* Mutant of NextNumber: the number of the package itself.
SameNumber(seen) == seen.number

NextNumber(seen) == seen.number + 1

NextRows(seen) ==
  {m \in DOMAIN rows : rows[m].order = seen.order /\ rows[m].number = NextNumber(seen)}

\* ... an end that is not before its start, and a row with the next number ...
FindNext(i, t) ==
  LET seen == job[i].seen
  IN  /\ at[i] = "found"
      /\ EndAllowed(seen, t)
      /\ \E m \in IF NextRows(seen) = {} THEN {0} ELSE NextRows(seen) :
           job' = [job EXCEPT ![i].fin = t, ![i].next = m,
                              ![i].seenNext = IF m = 0 THEN <<>> ELSE rows[m]]
      /\ at' = [at EXCEPT ![i] = "next"]
      /\ UNCHANGED <<rows, restarted, shared>>

\* The next package is reset only while it is open, and the UPDATE names its
\* start only if it differs from the one loaded.
NextStarts(j) == j.next # 0 /\ j.seenNext.end = NotYet /\ j.seenNext.start # j.fin

EndJob(i) ==
  /\ at' = [at EXCEPT ![i] = "idle"]
  /\ job' = [job EXCEPT ![i] = NoJob]
  /\ UNCHANGED <<restarted, shared>>

\* ... and both UPDATEs in one transaction.
FinishPackage(i) ==
  LET j == job[i]
      done == [rows EXCEPT ![j.row].end = j.fin, ![j.row].took = j.fin - j.seen.start]
  IN  /\ at[i] = "next"
      /\ rows' = IF NextStarts(j) THEN [done EXCEPT ![j.next].start = j.fin] ELSE done
      /\ EndJob(i)

\* An end before the start (400), and a process that stops.
EndWithoutUpdate(i) ==
  /\ at[i] # "idle"
  /\ EndJob(i)
  /\ UNCHANGED rows

OrderNext ==
  \/ \E o \in Orders, t \in OrderTimes :
       \E packages \in BoundedSeq(Packages, MaxPackages) \ {<<>>} : StartOrder(o, packages, t)
  \/ \E i \in Loaders :
       \/ \E n \in DOMAIN rows : FindPackage(i, n)
       \/ \E t \in OrderTimes : FindNext(i, t)
       \/ FinishPackage(i)
       \/ EndWithoutUpdate(i)

OrderSpec == OrderInit /\ [][OrderNext]_orderVars
------------------------------------------------------------------------------
Unshared == Orders \ shared
Finished(n) == rows[n].end # NotYet

\* Packages finished in any order, with the times of the clients: each took the
\* time between its start and its end, and not less than none.  Requests for
\* the order must not overlap: the start of a package that is being finished
\* may be reset by the one before it.
LoadingTimesAreTrue ==
  \A o \in Unshared : \A n \in RowsOf(o) :
    Finished(n) => /\ rows[n].took = rows[n].end - rows[n].start
                   /\ rows[n].took >= 0

\* The loading of a package that is still open began when the one before it
\* ended, unless the identifier of the order was used twice: then its numbers
\* are not unique and only one of the next packages is reset.
OpenFollowsFinished ==
  \A o \in Unshared \ restarted : \A m, n \in RowsOf(o) :
    Finished(m) /\ ~Finished(n) /\ rows[n].number = rows[m].number + 1
      => rows[n].start = rows[m].end

\* The times of an order are those of packages loaded one after another.
OrderIsTimed == OrderTypeOK /\ LoadingTimesAreTrue /\ OpenFollowsFinished

\* A package is finished once: its times never change again, unless two requests
\* were busy with its order at once (of two that finish it, the second to commit
\* overwrites the end and the duration of the first).
FinishedOnce ==
  [][\A n \in DOMAIN rows :
       Finished(n) /\ rows[n].order \notin shared' => rows'[n] = rows[n]]_orderVars
==============================================================================
