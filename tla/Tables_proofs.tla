------------------------------ MODULE Tables_proofs ------------------------------
(***************************************************************************)
(* Proofs about the four components that MCTables explores together: for   *)
(* any number of threads, clients, shipments, parcels, phases and orders.  *)
(* Only the last theorem is about two of them.                             *)
(***************************************************************************)
EXTENDS MCTables, SetLemmas, SequenceTheorems
-------------------------------------------------------------------------------
(***************************************************************************)
(* What holds of Registration for any number of threads, people and        *)
(* weekdays: which requests are refused, and that the number in a code     *)
(* never runs ahead of the identifier.                                     *)
(***************************************************************************)

Stages == {"idle", "people", "person", "coded", "inserting", "inserted", "refused"}

Calls ==
  [creates : BOOLEAN, people : Seq(Dnis), person : Nat \ {0}, isNew : BOOLEAN,
   code : (Letters \cup {"none"}) \X Nat, id : Nat, again : BOOLEAN, why : Reasons]

Rows == [id : Nat \ {0}, code : Code]

RegTypesOK ==
  /\ today \in Letters
  /\ shipments \in SUBSET Rows /\ IsFiniteSet(shipments)
  /\ nextId \in Nat \ {0}
  /\ clients \in SUBSET Dnis
  /\ holder \in [Dnis -> Desks \cup {NoDesk}]
  /\ stage \in [Desks -> Stages]
  /\ call \in [Desks -> Calls]
  /\ overtaken \in [Desks -> 0..2]

\* The committed shipments.
Numbered == \A r \in shipments : r.id < nextId /\ r.code[2] <= r.id

\* How far a request has come.
Sound(i) ==
  LET r == call[i] IN
  /\ Len(r.people) <= 2
  /\ r.person <= Len(r.people) + 1
  /\ stage[i] = "person" => r.person <= Len(r.people)
  /\ stage[i] = "refused" <=> r.why # "none"

\* The code it has taken, and what it means if a shipment has the code by now.
Coded(i) ==
  LET r == call[i] IN
  /\ stage[i] \in {"coded", "inserting", "inserted"} => r.creates /\ r.code \in Code
  /\ stage[i] \in {"coded", "inserting"} =>
       /\ r.code[2] <= nextId
       /\ CodeIsNew(i) \/ overtaken[i] > 0
  /\ stage[i] = "inserting" /\ r.again => overtaken[i] > 0 /\ (CodeIsNew(i) \/ overtaken[i] = 2)
  /\ stage[i] = "inserted" => r.id < nextId /\ r.code[2] <= r.id
  /\ r.again => stage[i] \in {"inserting", "inserted", "refused"}

\* The client it is about to write, and what it means if another has by now.
Reads(i) ==
  LET r == call[i] IN
  stage[i] = "person" /\ r.isNew /\ r.people[r.person] \in clients => overtaken[i] > 0

\* The clients it has written.
Holds(d) ==
  LET i == holder[d] IN
  i # NoDesk => Working(i) /\ \E k \in 1..(call[i].person - 1) : call[i].people[k] = d

Refusal(i) ==
  stage[i] = "refused" =>
    /\ call[i].why = "code" => overtaken[i] = 2
    /\ call[i].why = "client" => overtaken[i] > 0
    /\ call[i].why = "deadlock" => Len(call[i].people) = 2

IInv ==
  /\ RegTypesOK
  /\ Numbered
  /\ \A i \in Desks : Sound(i) /\ Coded(i) /\ Reads(i) /\ Refusal(i)
  /\ \A d \in Dnis : Holds(d)
-------------------------------------------------------------------------------
\* The code that is taken is no shipment's, and its number is the one after
\* the highest identifier, which the sequence has not passed.
LEMMA FirstFreeIsNew ==
  ASSUME RegTypesOK, Numbered
  PROVE  /\ FirstFree \in Code
         /\ FirstFree[2] <= nextId
         /\ \A r \in shipments : r.code # FirstFree
<1> DEFINE ids == {r.id : r \in shipments} \cup {0}
           highest == Max(ids)
           free(n) == \A r \in shipments : r.code # <<today, n>>
           range == (highest + 1)..(highest + 1 + Cardinality(shipments))
           n == CHOOSE n \in range : free(n) /\ \A m \in (highest + 1)..(n - 1) : ~free(m)
<1>1. ids \subseteq Nat /\ (\A s \in ids : s <= nextId - 1) /\ ids # {}
  BY DEF RegTypesOK, Numbered, Rows
<1>2. nextId - 1 \in Nat
  BY DEF RegTypesOK
<1>3. highest \in ids /\ \A s \in ids : s <= highest
  <2> HIDE DEF ids
  <2> QED
    BY <1>1, <1>2, MaxOfBounded
<1>4. highest \in Nat /\ highest < nextId
  <2> HIDE DEF ids, highest
  <2> QED
    BY <1>1, <1>2, <1>3 DEF RegTypesOK
<1>5. \A r \in shipments : r.code[2] < highest + 1
  <2>1. ASSUME NEW r \in shipments
        PROVE  r.code[2] < highest + 1
    <3>1. r.id <= highest
      BY <1>3
    <3>2. r.code[2] <= r.id /\ r.code[2] \in Nat /\ r.id \in Nat
      BY DEF RegTypesOK, Numbered, Rows, Code
    <3> HIDE DEF highest
    <3> QED
      BY <1>4, <3>1, <3>2
  <2> QED
    BY <2>1
<1> HIDE DEF highest
<1>6. free(highest + 1)
  BY <1>4, <1>5
<1>7. Cardinality(shipments) \in Nat
  BY FS_CardinalityType DEF RegTypesOK
<1>8. highest + 1 \in range
  BY <1>4, <1>7
<1>9. n \in range /\ free(n) /\ \A m \in (highest + 1)..(n - 1) : ~free(m)
  <2>1. \A m \in (highest + 1)..((highest + 1) - 1) : ~free(m)
    BY <1>4
  <2> HIDE DEF range, free
  <2> QED
    BY <1>6, <1>8, <2>1
<1>10. FirstFree = <<today, n>>
  BY DEF FirstFree, highest
<1> HIDE DEF n
<1>11. n = highest + 1
  <2>1. ~(highest + 1 <= n - 1)
    <3> HIDE DEF free
    <3> QED
      BY <1>4, <1>6, <1>7, <1>9
  <2> QED
    BY <1>4, <1>7, <1>9, <2>1
<1> QED
  BY <1>4, <1>9, <1>10, <1>11 DEF Code, RegTypesOK
-------------------------------------------------------------------------------
\* Only thread i comes further; an identifier may be taken.
Private(i) ==
  /\ UNCHANGED <<today, shipments, clients>>
  /\ nextId' \in {nextId, nextId + 1}
  /\ \A j \in Desks \ {i} :
       stage'[j] = stage[j] /\ call'[j] = call[j] /\ overtaken'[j] = overtaken[j]

Fine(i) == Sound(i) /\ Coded(i) /\ Reads(i) /\ Refusal(i)

LEMMA OthersKept ==
  ASSUME IInv, RegTypesOK', NEW i \in Desks, Private(i), NEW j \in Desks \ {i}
  PROVE  Fine(j)'
<1>1. Fine(j)
  BY DEF IInv, Fine
<1>2. stage'[j] = stage[j] /\ call'[j] = call[j] /\ overtaken'[j] = overtaken[j]
  BY DEF Private
<1>3. UNCHANGED <<shipments, clients>>
  BY DEF Private
<1>4. Sound(j)' /\ Reads(j)' /\ Refusal(j)'
  BY <1>1, <1>2, <1>3 DEF Fine, Sound, Reads, Refusal
<1>5. Coded(j)'
  <2>1. nextId \in Nat /\ call[j].code \in (Letters \cup {"none"}) \X Nat /\ call[j].id \in Nat
    BY DEF IInv, RegTypesOK, Calls
  <2>2. CodeIsNew(j)' <=> CodeIsNew(j)
    BY <1>2, <1>3 DEF CodeIsNew
  <2>3. nextId' = nextId \/ nextId' = nextId + 1
    BY DEF Private
  <2> QED
    BY <1>1, <1>2, <2>1, <2>2, <2>3 DEF Fine, Coded
<1> QED
  BY <1>4, <1>5 DEF Fine

\* What is left to show of a step of one thread.
LEMMA PrivateStep ==
  ASSUME IInv, RegTypesOK', NEW i \in Desks, Private(i), Fine(i)', \A d \in Dnis : Holds(d)'
  PROVE  IInv'
<1>1. Numbered'
  <2>1. nextId \in Nat /\ shipments \in SUBSET Rows /\ Numbered
    BY DEF IInv, RegTypesOK
  <2> QED
    BY <2>1 DEF Numbered, Private, Rows, Code
<1>2. \A j \in Desks : Fine(j)'
  BY OthersKept
<1> QED
  BY <1>1, <1>2 DEF IInv, Fine

\* No client is held by a thread that is not working, a thread that has read
\* nobody yet, or one that is new to its person.
LEMMA HoldsKept ==
  ASSUME IInv, NEW i \in Desks, UNCHANGED holder,
         \A j \in Desks \ {i} : stage'[j] = stage[j] /\ call'[j] = call[j],
         \/ ~Working(i)
         \/ /\ Working(i)' /\ call'[i].people = call[i].people
            /\ call'[i].person \in Nat /\ call'[i].person >= call[i].person
  PROVE  \A d \in Dnis : Holds(d)'
<1> SUFFICES ASSUME NEW d \in Dnis
             PROVE  Holds(d)'
  OBVIOUS
<1>1. Holds(d) /\ holder[d] \in Desks \cup {NoDesk} /\ call[i].person \in Nat
  BY DEF IInv, RegTypesOK, Calls
<1>2. CASE holder[d] = i
  BY <1>1, <1>2, RegistrationAssumption DEF Holds
<1>3. CASE holder[d] \in Desks \ {i}
  BY <1>1, <1>3 DEF Holds, Working
<1>4. CASE holder[d] = NoDesk
  BY <1>4 DEF Holds
<1> QED
  BY <1>1, <1>2, <1>3, <1>4

\* A transaction that is over holds nothing.
LEMMA HoldsReleased ==
  ASSUME IInv, NEW i \in Desks, Release(i),
         \A j \in Desks \ {i} : stage'[j] = stage[j] /\ call'[j] = call[j]
  PROVE  /\ holder' \in [Dnis -> Desks \cup {NoDesk}]
         /\ \A d \in Dnis : Holds(d)'
<1>1. holder' \in [Dnis -> Desks \cup {NoDesk}]
  BY DEF Release, IInv, RegTypesOK
<1>2. ASSUME NEW d \in Dnis
      PROVE  Holds(d)'
  <2>1. Holds(d) /\ holder[d] \in Desks \cup {NoDesk}
    BY DEF IInv, RegTypesOK
  <2>2. holder'[d] = IF holder[d] = i THEN NoDesk ELSE holder[d]
    BY DEF Release
  <2> QED
    BY <2>1, <2>2 DEF Holds, Working
<1> QED
  BY <1>1, <1>2
-------------------------------------------------------------------------------
LEMMA BeginStep ==
  ASSUME IInv, NEW i \in Desks, NEW creates \in BOOLEAN,
         NEW people \in Seq(Dnis), Len(people) <= 2, Begin(i, creates, people)
  PROVE  IInv'
<1> DEFINE r == NewCall(creates, people)
<1>1. r \in Calls /\ r.people = people /\ r.person = 1 /\ r.why = "none" /\ r.again = FALSE
  <2>1. <<"none", 0>> \in (Letters \cup {"none"}) \X Nat
    OBVIOUS
  <2> QED
    BY <2>1 DEF Calls, Reasons, NewCall
<1>2. call' = [call EXCEPT ![i] = r]
  BY DEF Begin
<1> HIDE DEF r
<1>3. RegTypesOK'
  BY <1>1, <1>2 DEF IInv, RegTypesOK, Begin, Reach, Stages
<1>4. stage'[i] = "people" /\ call'[i] = r /\ ~Working(i)
  BY <1>2 DEF Begin, Reach, IInv, RegTypesOK, Working
<1>5. Private(i)
  BY <1>2 DEF Begin, Reach, IInv, RegTypesOK, Private
<1>6. Fine(i)'
  BY <1>1, <1>4 DEF Fine, Sound, Coded, Reads, Refusal
<1>7. \A d \in Dnis : Holds(d)'
  <2>1. UNCHANGED holder
    BY DEF Begin
  <2> QED
    BY <1>4, <1>5, <2>1, HoldsKept DEF Private
<1> QED
  BY <1>3, <1>5, <1>6, <1>7, PrivateStep

LEMMA ReadStep ==
  ASSUME IInv, NEW i \in Desks, Read(i)
  PROVE  IInv'
<1> DEFINE r == call[i]
           d == r.people[r.person]
           known == holder[d] = i \/ d \in clients
<1>1. r \in Calls /\ Fine(i) /\ stage[i] = "people" /\ r.person <= Len(r.people)
  BY DEF IInv, RegTypesOK, Fine, Read
<1>2. UNCHANGED <<today, shipments, nextId, clients, holder, overtaken>>
  BY DEF Read
<1>3. CASE call' = [call EXCEPT ![i].isNew = ~known] /\ Reach(i, "person")
  <2>1. RegTypesOK'
    BY <1>1, <1>2, <1>3 DEF IInv, RegTypesOK, Calls, Reach, Stages
  <2>2. stage'[i] = "person" /\ call'[i] = [r EXCEPT !.isNew = ~known]
    BY <1>3 DEF Reach, IInv, RegTypesOK
  <2>3. Private(i)
    BY <1>2, <1>3 DEF Reach, IInv, RegTypesOK, Private
  <2>4. Fine(i)'
    BY <1>1, <1>2, <2>2 DEF Fine, Sound, Coded, Reads, Refusal, Calls
  <2>5. \A e \in Dnis : Holds(e)'
    <3>1. Working(i)' /\ call'[i].people = r.people /\ call'[i].person = r.person /\ r.person \in Nat
      BY <1>1, <2>2 DEF Working, Calls
    <3> QED
      BY <1>2, <2>3, <3>1, HoldsKept DEF Private
  <2> QED
    BY <2>1, <2>3, <2>4, <2>5, PrivateStep
<1>4. CASE call' = [call EXCEPT ![i].person = @ + 1] /\ UNCHANGED stage
  <2>1. RegTypesOK'
    <3>1. r.person + 1 \in Nat \ {0}
      BY <1>1 DEF Calls
    <3>2. [r EXCEPT !.person = r.person + 1] \in Calls
      BY <1>1, <3>1 DEF Calls
    <3>3. call' = [call EXCEPT ![i] = [r EXCEPT !.person = r.person + 1]]
      BY <1>4
    <3> QED
      BY <1>2, <1>4, <3>2, <3>3 DEF IInv, RegTypesOK
  <2>2. stage'[i] = "people" /\ call'[i] = [r EXCEPT !.person = r.person + 1]
    BY <1>1, <1>4 DEF IInv, RegTypesOK
  <2>3. Private(i)
    BY <1>2, <1>4 DEF IInv, RegTypesOK, Private
  <2>4. Fine(i)'
    BY <1>1, <1>2, <2>2 DEF Fine, Sound, Coded, Reads, Refusal, Calls
  <2>5. \A e \in Dnis : Holds(e)'
    <3>1. Working(i)' /\ call'[i].people = r.people /\ call'[i].person = r.person + 1 /\ r.person \in Nat
      BY <1>1, <2>2 DEF Working, Calls
    <3> QED
      BY <1>2, <2>3, <3>1, HoldsKept DEF Private
  <2> QED
    BY <2>1, <2>3, <2>4, <2>5, PrivateStep
<1> QED
  BY <1>3, <1>4 DEF Read

LEMMA WriteStep ==
  ASSUME IInv, NEW i \in Desks, Write(i)
  PROVE  IInv'
<1> DEFINE r == call[i]
           d == r.people[r.person]
           new == [r EXCEPT !.person = r.person + 1]
<1>1. r \in Calls /\ Fine(i) /\ stage[i] = "person" /\ r.person <= Len(r.people)
  BY DEF IInv, RegTypesOK, Fine, Sound, Write
<1>2. r.person \in Nat \ {0} /\ r.people \in Seq(Dnis)
  BY <1>1 DEF Calls
<1>3. d \in Dnis
  BY <1>1, <1>2
<1>4. new \in Calls /\ new.person = r.person + 1 /\ new.people = r.people
  BY <1>1, <1>2 DEF Calls
<1>5. call' = [call EXCEPT ![i] = new] /\ holder' = [holder EXCEPT ![d] = i]
  BY DEF Write
<1>6. UNCHANGED <<today, shipments, nextId, clients, overtaken>> /\ stage' = [stage EXCEPT ![i] = "people"]
  BY DEF Write, Reach
<1>7. new.why = r.why /\ new.again = r.again
  BY <1>1 DEF Calls
<1> HIDE DEF new
<1>8. RegTypesOK'
  BY <1>3, <1>4, <1>5, <1>6 DEF IInv, RegTypesOK, Stages
<1>9. Private(i)
  BY <1>5, <1>6 DEF IInv, RegTypesOK, Private
<1>10. call'[i] = new /\ stage'[i] = "people"
  BY <1>5, <1>6 DEF IInv, RegTypesOK
<1>11. Fine(i)'
  BY <1>1, <1>2, <1>4, <1>7, <1>10 DEF Fine, Sound, Coded, Reads, Refusal
<1>12. ASSUME NEW e \in Dnis
       PROVE  Holds(e)'
  <2>1. Holds(e) /\ holder[e] \in Desks \cup {NoDesk}
    BY DEF IInv, RegTypesOK
  <2>2. CASE e = d
    <3>1. holder'[e] = i
      BY <1>3, <1>5, <2>2 DEF IInv, RegTypesOK
    <3>2. r.person \in 1..(new.person - 1) /\ new.people[r.person] = e
      BY <1>2, <1>4, <2>2
    <3>3. Working(i)'
      BY <1>10 DEF Working
    <3> QED
      BY <1>10, <3>1, <3>2, <3>3 DEF Holds
  <2>3. CASE e # d
    <3>1. holder'[e] = holder[e]
      BY <1>3, <1>5, <2>3 DEF IInv, RegTypesOK
    <3>2. CASE holder[e] = i
      <4>1. PICK k \in 1..(r.person - 1) : r.people[k] = e
        BY <2>1, <3>2, RegistrationAssumption DEF Holds
      <4>2. k \in 1..(new.person - 1) /\ new.people[k] = e
        BY <1>2, <1>4, <4>1
      <4> QED
        BY <1>10, <3>1, <3>2, <4>2 DEF Holds, Working
    <3>3. CASE holder[e] # i
      BY <1>9, <2>1, <3>1, <3>3 DEF Holds, Working, Private
    <3> QED
      BY <3>2, <3>3
  <2> QED
    BY <2>2, <2>3
<1> QED
  BY <1>8, <1>9, <1>11, <1>12, PrivateStep

\* A refusal, for a reason that its guard gives.
LEMMA AbortStep ==
  ASSUME IInv, NEW i \in Desks, NEW why \in Reasons \ {"none"}, Abort(i, why),
         nextId' \in {nextId, nextId + 1},
         why = "code" => overtaken[i] = 2,
         why = "client" => overtaken[i] > 0,
         why = "deadlock" => Len(call[i].people) = 2
  PROVE  IInv'
<1> DEFINE r == call[i]
           new == [r EXCEPT !.why = why]
<1>1. r \in Calls /\ Fine(i)
  BY DEF IInv, RegTypesOK, Fine
<1>2. new \in Calls /\ new.why = why /\ new.people = r.people /\ new.person = r.person /\ new.again = r.again
  BY <1>1 DEF Calls
<1>3. call' = [call EXCEPT ![i] = new] /\ stage' = [stage EXCEPT ![i] = "refused"]
  BY DEF Abort, Reach
<1>4. UNCHANGED <<today, shipments, clients, overtaken>> /\ Release(i)
  BY DEF Abort
<1> HIDE DEF new
<1>5. \A j \in Desks \ {i} : stage'[j] = stage[j] /\ call'[j] = call[j] /\ overtaken'[j] = overtaken[j]
  BY <1>3, <1>4 DEF IInv, RegTypesOK
<1>6. holder' \in [Dnis -> Desks \cup {NoDesk}] /\ \A d \in Dnis : Holds(d)'
  BY <1>4, <1>5, HoldsReleased
<1>7. RegTypesOK'
  BY <1>2, <1>3, <1>4, <1>6 DEF IInv, RegTypesOK, Stages
<1>8. Private(i)
  BY <1>4, <1>5 DEF Private
<1>9. call'[i] = new /\ stage'[i] = "refused" /\ overtaken'[i] = overtaken[i]
  BY <1>3, <1>4 DEF IInv, RegTypesOK
<1>10. Fine(i)'
  BY <1>1, <1>2, <1>9 DEF Fine, Sound, Coded, Reads, Refusal
<1> QED
  BY <1>6, <1>7, <1>8, <1>10, PrivateStep

LEMMA WriteConflictStep ==
  ASSUME IInv, NEW i \in Desks, WriteConflict(i)
  PROVE  IInv'
<1>1. overtaken[i] > 0
  BY DEF IInv, Reads, WriteConflict
<1> QED
  BY <1>1, AbortStep DEF WriteConflict, Reasons

\* A thread in a circle is waited for, so it has written its first person and
\* waits at the second.
LEMMA DeadlockStep ==
  ASSUME IInv, NEW i \in Desks, Deadlock(i)
  PROVE  IInv'
<1>1. stage[i] = "person" /\ Abort(i, "deadlock") /\ UNCHANGED nextId
  BY DEF Deadlock
<1>2. PICK j \in Desks : WaitsFor(j) = i
  <2>1. PICK circle \in SUBSET Desks : i \in circle /\ {WaitsFor(j) : j \in circle} = circle
    BY DEF Deadlock
  <2>2. i \in {WaitsFor(j) : j \in circle}
    BY <2>1
  <2>3. \E j \in circle : WaitsFor(j) = i
    BY <2>2
  <2> QED
    BY <2>1, <2>3
<1> DEFINE d == call[j].people[call[j].person]
<1>3. stage[j] = "person" /\ holder[d] = i
  BY <1>2, RegistrationAssumption DEF WaitsFor
<1>4. d \in Dnis
  <2>1. call[j] \in Calls /\ call[j].person <= Len(call[j].people)
    BY <1>3 DEF IInv, RegTypesOK, Sound
  <2> QED
    BY <2>1 DEF Calls
<1>5. \E k \in 1..(call[i].person - 1) : call[i].people[k] = d
  BY <1>3, <1>4, RegistrationAssumption DEF IInv, Holds
<1>6. call[i].person \in Nat /\ call[i].people \in Seq(Dnis)
  BY DEF IInv, RegTypesOK, Calls
<1>7. call[i].person <= Len(call[i].people) /\ Len(call[i].people) <= 2
  BY <1>1 DEF IInv, Sound
<1>8. Len(call[i].people) = 2
  <2>1. Len(call[i].people) \in Nat
    BY <1>6
  <2>2. PICK k \in 1..(call[i].person - 1) : TRUE
    BY <1>5
  <2>3. call[i].person > 1
    BY <1>6, <2>2
  <2>4. \A p, n \in Nat : p > 1 /\ p <= n /\ n <= 2 => n = 2
    OBVIOUS
  <2> QED
    BY <1>6, <1>7, <2>1, <2>3, <2>4, Zenon
<1> QED
  BY <1>1, <1>8, AbortStep DEF Reasons

\* A step that takes a code or an identifier and writes no client.
LEMMA CodeStep ==
  ASSUME IInv, NEW i \in Desks, NEW new \in Calls, NEW point \in Stages \ {"idle", "person", "refused"},
         Working(i),
         call' = [call EXCEPT ![i] = new], stage' = [stage EXCEPT ![i] = point],
         UNCHANGED <<today, shipments, clients, holder, overtaken>>,
         nextId' \in {nextId, nextId + 1},
         new.people = call[i].people, new.person = call[i].person, new.why = call[i].why,
         Coded(i)'
  PROVE  IInv'
<1>1. Fine(i) /\ call[i] \in Calls /\ stage[i] # "refused" /\ nextId \in Nat \ {0}
  BY DEF IInv, RegTypesOK, Fine, Working
<1>2. RegTypesOK'
  BY <1>1 DEF IInv, RegTypesOK
<1>3. call'[i] = new /\ stage'[i] = point
  BY DEF IInv, RegTypesOK
<1>4. Private(i)
  BY DEF Private, IInv, RegTypesOK
<1>5. Fine(i)'
  BY <1>1, <1>3 DEF Fine, Sound, Reads, Refusal
<1>6. \A d \in Dnis : Holds(d)'
  <2>1. Working(i)'
    BY <1>3 DEF Working
  <2>2. call[i].person \in Nat
    BY <1>1 DEF Calls
  <2> QED
    BY <1>3, <1>4, <2>1, <2>2, HoldsKept DEF Private
<1> QED
  BY <1>2, <1>4, <1>5, <1>6, PrivateStep

LEMMA TakeCodeStep ==
  ASSUME IInv, NEW i \in Desks, TakeCode(i)
  PROVE  IInv'
<1> DEFINE r == call[i]
           new == [r EXCEPT !.code = FirstFree]
<1>1. r \in Calls /\ Fine(i) /\ stage[i] = "people" /\ r.creates
  BY DEF IInv, RegTypesOK, Fine, TakeCode
<1>2. FirstFree \in Code /\ FirstFree[2] <= nextId /\ \A s \in shipments : s.code # FirstFree
  BY FirstFreeIsNew DEF IInv
<1>3. /\ new \in Calls /\ new.people = r.people /\ new.person = r.person /\ new.why = r.why
      /\ new.code = FirstFree /\ new.creates /\ new.again = r.again
  <2>1. FirstFree \in (Letters \cup {"none"}) \X Nat
    BY <1>2 DEF Code
  <2> QED
    BY <1>1, <2>1 DEF Calls
<1>4. call' = [call EXCEPT ![i] = new] /\ stage' = [stage EXCEPT ![i] = "coded"]
  BY DEF TakeCode, Reach
<1>5. UNCHANGED <<today, shipments, nextId, clients, holder, overtaken>>
  BY DEF TakeCode
<1> HIDE DEF new
<1>6. call'[i] = new /\ stage'[i] = "coded"
  BY <1>4 DEF IInv, RegTypesOK
<1>7. Coded(i)'
  BY <1>1, <1>2, <1>3, <1>5, <1>6 DEF Coded, CodeIsNew, Fine
<1>8. Working(i) /\ "coded" \in Stages \ {"idle", "person", "refused"}
  BY <1>1 DEF Working, Stages
<1> QED
  BY <1>3, <1>4, <1>5, <1>7, <1>8, CodeStep

LEMMA CheckDayStep ==
  ASSUME IInv, NEW i \in Desks, CheckDay(i)
  PROVE  IInv'
<1> DEFINE r == call[i]
           code == IF r.code[1] = today THEN r.code ELSE FirstFree
           new == [r EXCEPT !.code = code]
<1>1. r \in Calls /\ Coded(i) /\ stage[i] = "coded"
  BY DEF IInv, RegTypesOK, CheckDay
<1>2. FirstFree \in Code /\ FirstFree[2] <= nextId /\ \A s \in shipments : s.code # FirstFree
  BY FirstFreeIsNew DEF IInv
<1>3. r.code \in Code /\ r.code[2] <= nextId /\ (CodeIsNew(i) \/ overtaken[i] > 0) /\ r.creates /\ ~r.again
  BY <1>1 DEF Coded, Calls
<1>4. /\ code \in Code /\ code[2] <= nextId
      /\ (\A s \in shipments : s.code # code) \/ overtaken[i] > 0
  BY <1>2, <1>3 DEF CodeIsNew
<1> HIDE DEF code
<1>5. /\ new \in Calls /\ new.people = r.people /\ new.person = r.person /\ new.why = r.why
      /\ new.code = code /\ new.creates /\ ~new.again
  <2>1. code \in (Letters \cup {"none"}) \X Nat
    BY <1>4 DEF Code
  <2> QED
    BY <1>1, <1>3, <2>1 DEF Calls
<1>6. call' = [call EXCEPT ![i] = new] /\ stage' = [stage EXCEPT ![i] = "inserting"]
  BY DEF CheckDay, Reach, code
<1>7. UNCHANGED <<today, shipments, nextId, clients, holder, overtaken>>
  BY DEF CheckDay
<1> HIDE DEF new
<1>8. call'[i] = new /\ stage'[i] = "inserting"
  BY <1>6 DEF IInv, RegTypesOK
<1>9. Coded(i)'
  BY <1>4, <1>5, <1>7, <1>8 DEF Coded, CodeIsNew
<1>10. Working(i) /\ "inserting" \in Stages \ {"idle", "person", "refused"}
  BY <1>1 DEF Working, Stages
<1> QED
  BY <1>5, <1>6, <1>7, <1>9, <1>10, CodeStep

LEMMA RegInsertStep ==
  ASSUME IInv, NEW i \in Desks, Insert(i)
  PROVE  IInv'
<1> DEFINE r == call[i]
           new == [r EXCEPT !.id = nextId]
<1>1. r \in Calls /\ Coded(i) /\ stage[i] = "inserting" /\ nextId \in Nat \ {0}
  BY DEF IInv, RegTypesOK, Insert
<1>2. r.code \in Code /\ r.code[2] <= nextId /\ r.creates
  BY <1>1 DEF Coded
<1>3. /\ new \in Calls /\ new.people = r.people /\ new.person = r.person /\ new.why = r.why
      /\ new.code = r.code /\ new.creates /\ new.id = nextId
  BY <1>1, <1>2 DEF Calls
<1>4. call' = [call EXCEPT ![i] = new] /\ stage' = [stage EXCEPT ![i] = "inserted"]
  BY DEF Insert, Reach
<1>5. UNCHANGED <<today, shipments, clients, holder, overtaken>> /\ nextId' = nextId + 1
  BY DEF Insert
<1> HIDE DEF new
<1>6. call'[i] = new /\ stage'[i] = "inserted"
  BY <1>4 DEF IInv, RegTypesOK
<1>7. Coded(i)'
  BY <1>1, <1>2, <1>3, <1>5, <1>6 DEF Coded
<1>8. Working(i) /\ "inserted" \in Stages \ {"idle", "person", "refused"}
  BY <1>1 DEF Working, Stages
<1> QED
  BY <1>3, <1>4, <1>5, <1>7, <1>8, CodeStep

LEMMA InsertConflictStep ==
  ASSUME IInv, NEW i \in Desks, InsertConflict(i)
  PROVE  IInv'
<1> DEFINE r == call[i]
           new == [r EXCEPT !.code = FirstFree, !.again = TRUE]
<1>1. r \in Calls /\ Coded(i) /\ stage[i] = "inserting" /\ nextId \in Nat \ {0} /\ ~CodeIsNew(i)
  BY DEF IInv, RegTypesOK, InsertConflict
<1>2. nextId' = nextId + 1 /\ overtaken[i] \in 0..2
  BY DEF InsertConflict, IInv, RegTypesOK
<1>3. CASE r.again
  <2>1. overtaken[i] = 2
    BY <1>1, <1>3 DEF Coded
  <2> QED
    BY <1>2, <1>3, <2>1, AbortStep DEF InsertConflict, Reasons
<1>4. CASE ~r.again
  <2>1. FirstFree \in Code /\ FirstFree[2] <= nextId /\ \A s \in shipments : s.code # FirstFree
    BY FirstFreeIsNew DEF IInv
  <2>2. FirstFree \in (Letters \cup {"none"}) \X Nat /\ FirstFree[2] \in Nat
    BY <2>1 DEF Code
  <2>3. overtaken[i] > 0 /\ r.creates
    BY <1>1 DEF Coded
  <2>4. /\ new \in Calls /\ new.people = r.people /\ new.person = r.person /\ new.why = r.why
        /\ new.code = FirstFree /\ new.creates
    BY <1>1, <2>2, <2>3 DEF Calls
  <2>5. call' = [call EXCEPT ![i] = new]
    BY <1>4 DEF InsertConflict, Renumbered
  <2>6. UNCHANGED <<today, shipments, clients, holder, stage, overtaken>>
    BY <1>4 DEF InsertConflict
  <2> HIDE DEF new
  <2>7. call'[i] = new /\ stage'[i] = "inserting"
    BY <1>1, <2>5, <2>6 DEF IInv, RegTypesOK
  <2>8. Coded(i)'
    BY <1>1, <1>2, <2>1, <2>2, <2>3, <2>4, <2>6, <2>7 DEF Coded, CodeIsNew
  <2>9. Working(i) /\ "inserting" \in Stages \ {"idle", "person", "refused"}
    BY <1>1 DEF Working, Stages
  <2>10. stage' = [stage EXCEPT ![i] = "inserting"]
    BY <1>1, <2>6 DEF IInv, RegTypesOK
  <2> QED
    BY <1>2, <2>4, <2>5, <2>6, <2>8, <2>9, <2>10, CodeStep
<1> QED
  BY <1>3, <1>4

\* A request that is answered leaves nothing behind.
LEMMA Left ==
  ASSUME RegTypesOK, NEW i \in Desks, Leave(i)
  PROVE  /\ call' \in [Desks -> Calls] /\ stage' \in [Desks -> Stages]
         /\ call'[i] = NoCall /\ stage'[i] = "idle"
         /\ \A j \in Desks \ {i} : stage'[j] = stage[j] /\ call'[j] = call[j]
         /\ Fine(i)'
<1>1. NoCall \in Calls
  <2>1. <<"none", 0>> \in (Letters \cup {"none"}) \X Nat
    OBVIOUS
  <2> QED
    BY <2>1 DEF NoCall, NewCall, Calls, Reasons
<1>2. call' \in [Desks -> Calls] /\ stage' \in [Desks -> Stages]
  BY <1>1 DEF RegTypesOK, Leave, Reach, Stages
<1>3. call'[i] = NoCall /\ stage'[i] = "idle"
  BY DEF RegTypesOK, Leave, Reach
<1>4. \A j \in Desks \ {i} : stage'[j] = stage[j] /\ call'[j] = call[j]
  BY DEF RegTypesOK, Leave, Reach
<1>5. Len(NoCall.people) = 0 /\ NoCall.person = 1 /\ NoCall.why = "none" /\ ~NoCall.again
  BY DEF NoCall, NewCall
<1>6. Fine(i)'
  BY <1>3, <1>5 DEF Fine, Sound, Coded, Reads, Refusal
<1> QED
  BY <1>2, <1>3, <1>4, <1>6

LEMMA RefuseStep ==
  ASSUME IInv, NEW i \in Desks, Refuse(i)
  PROVE  IInv'
<1>1. UNCHANGED <<today, shipments, nextId, clients, holder>>
  BY DEF Refuse
<1>2. overtaken' = [overtaken EXCEPT ![i] = 0] /\ Leave(i) /\ ~Working(i)
  BY DEF Refuse, Working
<1>3. RegTypesOK'
  BY <1>1, <1>2, Left DEF IInv, RegTypesOK
<1>4. Private(i)
  BY <1>1, <1>2, Left DEF IInv, RegTypesOK, Private
<1>5. \A d \in Dnis : Holds(d)'
  BY <1>1, <1>2, <1>4, HoldsKept DEF Private
<1>6. Fine(i)'
  BY <1>2, Left DEF IInv
<1> QED
  BY <1>3, <1>4, <1>5, <1>6, PrivateStep

\* A commit counts for the others that are at work, whose codes it may have
\* taken and whose clients it may have written.
LEMMA CommitStep ==
  ASSUME IInv, NEW i \in Desks, Commit(i)
  PROVE  IInv'
<1> DEFINE row == [id |-> call[i].id, code |-> call[i].code]
           count(j) == CASE j = i -> 0
                         [] j # i /\ Working(j) /\ overtaken[j] < 2 -> overtaken[j] + 1
                         [] OTHER -> overtaken[j]
<1>1. RegTypesOK /\ Numbered /\ Fine(i) /\ call[i] \in Calls
  BY DEF IInv, RegTypesOK, Fine
<1>2. UNCHANGED <<today, nextId>> /\ Leave(i) /\ Release(i)
  BY DEF Commit
<1>3. shipments' = shipments \/ (call[i].creates /\ stage[i] = "inserted" /\ shipments' = shipments \cup {row})
  BY <1>1 DEF Commit, Done, Fine, Coded
<1>4. stage[i] = "inserted" => row \in Rows /\ row.id < nextId /\ row.code[2] <= row.id
  <2>1. nextId \in Nat \ {0} /\ call[i].id \in Nat
    BY <1>1 DEF RegTypesOK, Calls
  <2>2. stage[i] = "inserted" => call[i].code \in Code /\ call[i].id < nextId /\ call[i].code[2] <= call[i].id
    BY <1>1 DEF Fine, Coded
  <2>3. call[i].code \in Code => call[i].code[2] \in Nat \ {0}
    BY DEF Code
  <2> QED
    BY <2>1, <2>2, <2>3 DEF Rows
<1> HIDE DEF row
<1>5. shipments' \in SUBSET Rows /\ IsFiniteSet(shipments')
  BY <1>1, <1>3, <1>4, FS_AddElement DEF RegTypesOK
<1>6. \A j \in Desks : overtaken'[j] = count(j) /\ count(j) \in 0..2
  BY <1>1 DEF Commit, RegTypesOK
<1>7. overtaken' \in [Desks -> 0..2]
  <2>1. overtaken' = [j \in Desks |-> count(j)]
    BY DEF Commit
  <2> HIDE DEF count
  <2> QED
    BY <1>6, <2>1
<1>8. clients' \in SUBSET Dnis
  BY <1>1 DEF Commit, RegTypesOK
<1>9. holder' \in [Dnis -> Desks \cup {NoDesk}] /\ \A d \in Dnis : Holds(d)'
  BY <1>1, <1>2, Left, HoldsReleased
<1>10. RegTypesOK'
  BY <1>1, <1>2, <1>5, <1>7, <1>8, <1>9, Left DEF RegTypesOK
<1>11. Numbered'
  BY <1>1, <1>2, <1>3, <1>4 DEF Numbered
<1>12. ASSUME NEW j \in Desks \ {i}
       PROVE  Fine(j)'
  <2>1. Fine(j) /\ stage'[j] = stage[j] /\ call'[j] = call[j] /\ overtaken[j] \in 0..2
    BY <1>1, <1>2, Left DEF IInv, Fine, RegTypesOK
  <2>2. overtaken'[j] >= overtaken[j] /\ overtaken'[j] \in 0..2
    BY <1>6, <2>1
  <2>3. Working(j) => overtaken'[j] > 0 /\ (overtaken[j] > 0 => overtaken'[j] = 2)
    BY <1>6, <2>1
  <2>4. Sound(j)'
    BY <2>1 DEF Fine, Sound
  <2>5. Coded(j)'
    BY <1>2, <2>1, <2>2, <2>3 DEF Fine, Coded, Working
  <2>6. Reads(j)'
    BY <2>1, <2>3 DEF Reads, Working
  <2>7. Refusal(j)'
    BY <2>1, <2>2 DEF Fine, Refusal
  <2> QED
    BY <2>4, <2>5, <2>6, <2>7 DEF Fine
<1> QED
  BY <1>2, <1>1, <1>9, <1>10, <1>11, <1>12, Left DEF IInv, Fine

LEMMA NextDayStep ==
  ASSUME IInv, NextDay
  PROVE  IInv'
  BY DEF IInv, RegTypesOK, Numbered, Sound, Coded, CodeIsNew, Reads, Holds, Refusal, Working, NextDay

LEMMA RegInitially == DeskInit => IInv
<1> SUFFICES ASSUME DeskInit
             PROVE  IInv
  OBVIOUS
<1>1. NoCall \in Calls
  <2>1. <<"none", 0>> \in (Letters \cup {"none"}) \X Nat
    OBVIOUS
  <2> QED
    BY <2>1 DEF NoCall, NewCall, Calls, Reasons
<1>2. Len(NoCall.people) = 0 /\ NoCall.person = 1 /\ NoCall.why = "none" /\ ~NoCall.again
  BY DEF NoCall, NewCall
<1>3. RegTypesOK
  BY <1>1, FS_EmptySet DEF DeskInit, RegTypesOK, Stages
<1> QED
  BY <1>2, <1>3 DEF DeskInit, IInv, Numbered, Sound, Coded, Reads, Holds, Refusal

LEMMA RegStep ==
  ASSUME IInv, [DeskNext]_deskVars
  PROVE  IInv'
<1>1. ASSUME NEW i \in Desks, NEW creates \in BOOLEAN, NEW sender \in Dnis, NEW recipient \in Dnis,
             \/ Begin(i, creates, <<sender, recipient>>)
             \/ Begin(i, creates, <<sender>>)
             \/ Begin(i, TRUE, <<>>)
      PROVE  IInv'
  <2>1. <<sender, recipient>> \in Seq(Dnis) /\ Len(<<sender, recipient>>) <= 2
    OBVIOUS
  <2>2. <<sender>> \in Seq(Dnis) /\ Len(<<sender>>) <= 2
    OBVIOUS
  <2>3. <<>> \in Seq(Dnis) /\ Len(<<>>) <= 2
    OBVIOUS
  <2>4. CASE Begin(i, creates, <<sender, recipient>>)
    BY <2>1, <2>4, BeginStep
  <2>5. CASE Begin(i, creates, <<sender>>)
    BY <2>2, <2>5, BeginStep
  <2>6. CASE Begin(i, TRUE, <<>>)
    BY <2>3, <2>6, BeginStep
  <2> QED
    BY <1>1, <2>4, <2>5, <2>6
<1>2. ASSUME NEW i \in Desks, DeskStep(i)
      PROVE  IInv'
  BY <1>2, ReadStep, WriteStep, WriteConflictStep, TakeCodeStep, CheckDayStep, RegInsertStep,
     InsertConflictStep, CommitStep, DeadlockStep, RefuseStep DEF DeskStep
<1>3. CASE UNCHANGED deskVars
  BY <1>3 DEF deskVars, IInv, RegTypesOK, Numbered, Sound, Coded, CodeIsNew, Reads, Holds, Refusal, Working
<1> QED
  BY <1>1, <1>2, <1>3, NextDayStep DEF DeskNext

LEMMA RegImplied == IInv => RefusedOnlyWhenOvertaken
<1> SUFFICES ASSUME IInv
             PROVE  RefusedOnlyWhenOvertaken
  OBVIOUS
<1>1. DeskTypeOK
  <2>1. \A r \in shipments : r.id \in 1..(nextId - 1) /\ r.code \in Code
    BY DEF IInv, RegTypesOK, Numbered, Rows
  <2>2. \A d \in Dnis : holder[d] # NoDesk => Working(holder[d])
    BY DEF IInv, Holds
  <2>3. \A i \in Desks : call[i].why \in Reasons /\ (stage[i] = "refused" <=> call[i].why # "none")
    BY DEF IInv, RegTypesOK, Calls, Sound
  <2> QED
    BY <2>1, <2>2, <2>3 DEF DeskTypeOK, IInv, RegTypesOK
<1>2. CodeWithinId
  BY DEF CodeWithinId, IInv, Numbered
<1> QED
  BY <1>1, <1>2 DEF RefusedOnlyWhenOvertaken, IInv, Refusal

\* For any number of threads, people and weekdays: a creation that meets one
\* other is never refused for its code, a client that is new is refused only to
\* one who came second, a circle needs two people, and the numbers of the codes
\* never run ahead of the identifiers.
THEOREM RefusalsExplained == DeskSpec => []RefusedOnlyWhenOvertaken
  BY RegInitially, RegStep, RegImplied, PTL DEF DeskSpec
-------------------------------------------------------------------------------
(***************************************************************************)
(* What holds of Billing for any number of threads and any parcels: what   *)
(* the customer was told is what is charged, the estimate of the chat is   *)
(* the quotation up to a cent, and the amounts of a price add up.          *)
(***************************************************************************)

Levels == {"BAJA", "MEDIA", "ALTA"}

Measured(p) ==
  /\ DOMAIN p = {"destination", "grams", "length", "width", "height", "fragility", "content", "base"}
  /\ p.grams \in Nat /\ p.length \in Nat /\ p.width \in Nat /\ p.height \in Nat
  /\ p.fragility \in Levels

Amounts == [subtotal : Nat, igv : Nat, total : Nat]

Sums(price) == price \in Amounts /\ Close(price.subtotal + price.igv, price.total)

Disturbing == {"update", "confirm"}

OrdersOK ==
  /\ tellerAt \in [Tellers -> {"idle", "loaded"}]
  /\ order = [i \in Tellers |-> order[i]]
  /\ \A i \in Tellers :
       /\ tellerAt[i] = "loaded" <=> order[i].op # "none"
       /\ tellerAt[i] = "loaded" => Measured(order[i].copy) /\ status # "NONE"
       /\ order[i].op = "update" => order[i].change \in ParcelData

StatusOK ==
  /\ status \in {"NONE", "PRE_REGISTRADA", "REGISTRADA", "COTIZADA", "ANULADA"}
  /\ IF status = "NONE" THEN parcel = NoParcel /\ told = NoPrice /\ receipt = NoPrice /\ ~binding
     ELSE Measured(parcel)

\* A thread that edits or confirms works alone, so that every copy is current,
\* and what was told for the confirmed shipment stays its price.
Undisturbed ==
  ~besideEdit =>
    /\ \A i, j \in Tellers : i # j /\ tellerAt[i] = "loaded" /\ tellerAt[j] = "loaded" => order[i].op \notin Disturbing
    /\ \A i \in Tellers : tellerAt[i] = "loaded" => order[i].copy = parcel
    /\ binding =>
         /\ told = Quote(parcel)
         /\ status \in {"COTIZADA", "ANULADA"}
         /\ \A i \in Tellers : tellerAt[i] = "loaded" => order[i].op \notin Disturbing

\* Until an edit the parcel is what the chat sent.
AsDrafted ==
  /\ draft # NoParcel => draft \in ChatData /\ estimate = Estimate(draft)
  /\ draft # NoParcel /\ status # "NONE" /\ ~edited =>
       /\ parcel = [FromChat(draft) EXCEPT !.base = "NONE"]
       /\ \A i \in Tellers : tellerAt[i] = "loaded" => order[i].copy = parcel
       /\ told # NoPrice => told = Quote(parcel)

Priced == \A price \in {told, receipt} \ {NoPrice} : Sums(price)

BInv == OrdersOK /\ StatusOK /\ Undisturbed /\ AsDrafted /\ Priced
-------------------------------------------------------------------------------
\* Rounding errs by half a cent at most ...
LEMMA NearestCent ==
  ASSUME NEW n \in Nat, NEW u
  PROVE  /\ Nearest(n, 500, u) \in Nat
         /\ 1000 * Nearest(n, 500, u) <= 2 * n + 500
         /\ 2 * n <= 1000 * Nearest(n, 500, u) + 500
<1> DEFINE q == n \div 500
           r == n % 500
<1>1. n = 500 * q + r
  OBVIOUS
<1>2. q \in Nat
  OBVIOUS
<1>3. r \in 0..499
  OBVIOUS
<1>4. Nearest(n, 500, u) = IF 2 * r > 500 \/ (2 * r = 500 /\ u) THEN q + 1 ELSE q
  BY DEF Nearest
<1> HIDE DEF q, r
<1>5. CASE 2 * r > 500 \/ (2 * r = 500 /\ u)
  <2>1. Nearest(n, 500, u) = q + 1 /\ 2 * r >= 500
    BY <1>1, <1>2, <1>3, <1>4, <1>5
  <2> QED
    BY <1>1, <1>2, <1>3, <2>1
<1>6. CASE ~(2 * r > 500 \/ (2 * r = 500 /\ u))
  <2>1. Nearest(n, 500, u) = q /\ 2 * r <= 500
    BY <1>1, <1>2, <1>3, <1>4, <1>6
  <2> QED
    BY <1>1, <1>2, <1>3, <2>1
<1> QED
  BY <1>5, <1>6

LEMMA NearestOfShare ==
  ASSUME NEW n \in Nat, NEW u
  PROVE  /\ Nearest(n, 50000, u) \in Nat
         /\ 100000 * Nearest(n, 50000, u) <= 2 * n + 50000
         /\ 2 * n <= 100000 * Nearest(n, 50000, u) + 50000
<1> DEFINE q == n \div 50000
           r == n % 50000
<1>1. n = 50000 * q + r
  OBVIOUS
<1>2. q \in Nat
  OBVIOUS
<1>3. r \in 0..49999
  OBVIOUS
<1>4. Nearest(n, 50000, u) = IF 2 * r > 50000 \/ (2 * r = 50000 /\ u) THEN q + 1 ELSE q
  BY DEF Nearest
<1> HIDE DEF q, r
<1>5. CASE 2 * r > 50000 \/ (2 * r = 50000 /\ u)
  <2>1. Nearest(n, 50000, u) = q + 1 /\ 2 * r >= 50000
    BY <1>1, <1>2, <1>3, <1>4, <1>5
  <2> QED
    BY <1>1, <1>2, <1>3, <2>1
<1>6. CASE ~(2 * r > 50000 \/ (2 * r = 50000 /\ u))
  <2>1. Nearest(n, 50000, u) = q /\ 2 * r <= 50000
    BY <1>1, <1>2, <1>3, <1>4, <1>6
  <2> QED
    BY <1>1, <1>2, <1>3, <2>1
<1> QED
  BY <1>5, <1>6

\* ... so three amounts that are rounded by themselves add up to within a cent.
LEMMA AmountsAddUp ==
  ASSUME NEW s \in Nat, NEW u, NEW v, NEW w
  PROVE  Close(Nearest(s, 500, u) + Nearest(s * 18, 50000, v), Nearest(s * 118, 50000, w))
<1> DEFINE a == Nearest(s, 500, u)
           b == Nearest(s * 18, 50000, v)
           c == Nearest(s * 118, 50000, w)
<1>1. a \in Nat /\ 1000 * a <= 2 * s + 500 /\ 2 * s <= 1000 * a + 500
  BY NearestCent
<1>2. b \in Nat /\ 100000 * b <= 2 * (s * 18) + 50000 /\ 2 * (s * 18) <= 100000 * b + 50000
  BY NearestOfShare
<1>3. c \in Nat /\ 100000 * c <= 2 * (s * 118) + 50000 /\ 2 * (s * 118) <= 100000 * c + 50000
  BY NearestOfShare
<1> HIDE DEF a, b, c
<1>4. a + b <= c + 1 /\ c <= a + b + 1
  BY <1>1, <1>2, <1>3
<1> QED
  BY <1>4 DEF Close, a, b, c

\* A total that is rounded two ways differs by a cent at most.
LEMMA TotalsAreClose ==
  ASSUME NEW s \in Nat, NEW u, NEW v
  PROVE  Close(Nearest(s * 118, 50000, u), Nearest(s * 118, 50000, v))
<1> DEFINE a == Nearest(s * 118, 50000, u)
           b == Nearest(s * 118, 50000, v)
<1>1. a \in Nat /\ 100000 * a <= 2 * (s * 118) + 50000 /\ 2 * (s * 118) <= 100000 * a + 50000
  BY NearestOfShare
<1>2. b \in Nat /\ 100000 * b <= 2 * (s * 118) + 50000 /\ 2 * (s * 118) <= 100000 * b + 50000
  BY NearestOfShare
<1> HIDE DEF a, b
<1>3. a <= b + 1 /\ b <= a + 1
  BY <1>1, <1>2
<1> QED
  BY <1>3 DEF Close, a, b
-------------------------------------------------------------------------------
LEMMA MaxOfThree ==
  ASSUME NEW a \in Nat, NEW b \in Nat, NEW c \in Nat
  PROVE  /\ Max({a, b, c}) \in {a, b, c}
         /\ Max({a, b, c}) >= a /\ Max({a, b, c}) >= b /\ Max({a, b, c}) >= c
<1> DEFINE S == {a, b, c}
<1>1. \E x \in S : \A y \in S : x >= y
  <2>1. CASE a >= b /\ a >= c
    BY <2>1
  <2>2. CASE b >= a /\ b >= c
    BY <2>2
  <2>3. CASE c >= a /\ c >= b
    BY <2>3
  <2> QED
    BY <2>1, <2>2, <2>3
<1>2. Max(S) \in S /\ \A y \in S : Max(S) >= y
  <2> HIDE DEF S
  <2> QED
    BY <1>1 DEF Max
<1> QED
  BY <1>2

LEMMA SubtotalIsNat ==
  ASSUME NEW p, p.grams \in Nat, p.length \in Nat, p.width \in Nat, p.height \in Nat, p.fragility \in Levels
  PROVE  Subtotal(p) \in Nat
<1>1. Volume(p) \in Nat
  <2>1. \A a, b \in Nat : a * b \in Nat
    OBVIOUS
  <2>2. p.length * p.width \in Nat
    BY <2>1
  <2> QED
    BY <2>1, <2>2 DEF Volume
<1>2. BaseRate(p.destination) \in Nat
  BY DEF BaseRate, Sol
<1>3. Surcharge(p) \in Nat
  <2>1. FragilitySurcharge[p.fragility] \in Nat
    BY DEF FragilitySurcharge, Levels, Sol
  <2>2. 5 * Sol \in Nat
    BY DEF Sol
  <2>3. {FragilitySurcharge[p.fragility]} \cup (IF p.content = "FRAGIL" THEN {5 * Sol} ELSE {})
          \in {{FragilitySurcharge[p.fragility], FragilitySurcharge[p.fragility], FragilitySurcharge[p.fragility]},
               {FragilitySurcharge[p.fragility], 5 * Sol, 5 * Sol}}
    OBVIOUS
  <2>4. \A a, b \in Nat : Max({a, a, a}) \in Nat /\ Max({a, b, b}) \in Nat
    BY MaxOfThree
  <2> QED
    BY <2>1, <2>2, <2>3, <2>4 DEF Surcharge
<1> QED
  BY <1>1, <1>2, <1>3 DEF Subtotal

LEMMA QuoteSums ==
  ASSUME NEW p, Measured(p)
  PROVE  Sums(Quote(p)) /\ Quote(p) # NoPrice
<1>1. Subtotal(p) \in Nat /\ Subtotal(p) * 18 \in Nat /\ Subtotal(p) * 118 \in Nat
  BY SubtotalIsNat DEF Measured
<1>2. Quote(p) \in Amounts
  BY <1>1, NearestCent, NearestOfShare DEF Quote, Amounts
<1>3. Close(Quote(p).subtotal + Quote(p).igv, Quote(p).total)
  BY <1>1, AmountsAddUp DEF Quote
<1> QED
  BY <1>2, <1>3, BillingAssumption DEF Sums, Amounts

\* The formulas of the chat and of the quotation start from the same subtotal.
LEMMA EstimateIsClose ==
  ASSUME NEW data \in ParcelData
  PROVE  Close(Estimate(data).total, Quote([FromChat(data) EXCEPT !.base = "NONE"]).total)
<1> DEFINE p == [FromChat(data) EXCEPT !.base = "NONE"]
           a == Assumed(data)
<1>1. /\ p.destination = a.destination /\ p.fragility = a.fragility /\ p.content = a.content
      /\ p.grams = a.grams /\ p.length = a.length /\ p.width = a.width /\ p.height = a.height
  BY DEF FromChat, Assumed
<1>2. Subtotal(p) = Subtotal(a)
  <2> HIDE DEF p, a
  <2> QED
    BY <1>1 DEF Subtotal, Volume, Surcharge
<1>3. Subtotal(a) \in Nat
  <2>1. /\ a.grams \in Nat /\ a.length \in Nat /\ a.width \in Nat /\ a.height \in Nat
        /\ a.fragility \in Levels
    BY DEF Assumed, Given, ParcelData, Levels
  <2> HIDE DEF a
  <2> QED
    BY <2>1, SubtotalIsNat
<1>4. Estimate(data).total = Nearest(Subtotal(a) * 118, 50000, up.chat)
  BY DEF Estimate
<1>5. Quote(p).total = Nearest(Subtotal(p) * 118, 50000, up.total)
  BY DEF Quote
<1> HIDE DEF p, a
<1>6. Close(Estimate(data).total, Quote(p).total)
  BY <1>2, <1>3, <1>4, <1>5, TotalsAreClose
<1> QED
  BY <1>6 DEF p

\* The largest dimension is vertical, and nothing weighs or measures nothing.
LEMMA ChatIsValid ==
  ASSUME NEW data \in ParcelData
  PROVE  Valid(FromChat(data))
<1> DEFINE l == Given(data.length, 30)
           w == Given(data.width, 30)
           h == Given(data.height, 30)
           m == Max({l, w, h})
           p == FromChat(data)
<1>1. l \in Nat \ {0} /\ w \in Nat \ {0} /\ h \in Nat \ {0} /\ Given(data.grams, 1000) \in Nat \ {0}
  BY DEF Given, ParcelData
<1> HIDE DEF l, w, h
<1>2. m \in {l, w, h}
  BY <1>1, MaxOfThree
<1>3. /\ p.grams = Given(data.grams, 1000) /\ p.content = "NONE"
      /\ p.length = l /\ p.width = w /\ p.height = h
      /\ p.base = IF m = h THEN "LARGO_ANCHO" ELSE IF m = w THEN "LARGO_ALTO" ELSE "ANCHO_ALTO"
  <2>1. /\ p.grams = Given(data.grams, 1000) /\ p.content = "NONE"
        /\ p.length = l /\ p.width = w /\ p.height = h /\ p.base = AutoBase(l, w, h)
    <3>1. p = [destination |-> data.destination, fragility |-> data.fragility, content |-> "NONE",
               grams |-> Given(data.grams, 1000), length |-> l, width |-> w, height |-> h,
               base |-> AutoBase(l, w, h)]
      BY DEF FromChat, l, w, h
    <3> HIDE DEF p
    <3> QED
      BY <3>1
  <2>2. AutoBase(l, w, h) = IF m = h THEN "LARGO_ANCHO" ELSE IF m = w THEN "LARGO_ALTO" ELSE "ANCHO_ALTO"
    BY DEF AutoBase
  <2> HIDE DEF p, m
  <2> QED
    BY <2>1, <2>2
<1> HIDE DEF p, m
<1>4. Vertical(p) = m
  BY <1>2, <1>3 DEF Vertical
<1>5. Max({p.length, p.width, p.height}) = m
  BY <1>3 DEF m
<1>6. 13 * m >= 10 * m
  BY <1>1, <1>2
<1>7. Valid(p)
  BY <1>1, <1>3, <1>4, <1>5, <1>6 DEF Valid
<1> QED
  BY <1>7 DEF p
-------------------------------------------------------------------------------
\* A valid form is no missing one.
LEMMA Forms ==
  /\ \A p \in ParcelData : Measured(p) /\ p # NoParcel
  /\ \A p : Measured(p) => p # NoParcel
  /\ \A data \in ParcelData : Measured([FromChat(data) EXCEPT !.base = "NONE"])
<1>1. \A p : Measured(p) => p # NoParcel
  <2>1. DOMAIN NoParcel = {"base"}
    BY DEF NoParcel
  <2> QED
    BY <2>1 DEF Measured
<1>2. \A p \in ParcelData : Measured(p)
  BY DEF ParcelData, Measured, Levels
<1>3. ASSUME NEW data \in ParcelData
      PROVE  Measured([FromChat(data) EXCEPT !.base = "NONE"])
  <2>1. /\ Given(data.length, 30) \in Nat /\ Given(data.width, 30) \in Nat
        /\ Given(data.height, 30) \in Nat /\ Given(data.grams, 1000) \in Nat
        /\ data.fragility \in Levels
    BY DEF Given, ParcelData, Levels
  <2> QED
    BY <2>1 DEF FromChat, Measured
<1> QED
  BY <1>1, <1>2, <1>3

LEMMA PriceInitially == BillingInit => BInv
<1> SUFFICES ASSUME BillingInit
             PROVE  BInv
  OBVIOUS
<1>1. OrdersOK
  BY DEF BillingInit, OrdersOK, NoOrder
<1>2. StatusOK /\ AsDrafted /\ Priced /\ Undisturbed
  BY DEF BillingInit, StatusOK, AsDrafted, Priced, Undisturbed
<1> QED
  BY <1>1, <1>2 DEF BInv

LEMMA RegisterStep ==
  ASSUME BInv, NEW p \in Parcels, NEW s \in {"PRE_REGISTRADA", "REGISTRADA"}, Register(p, s)
  PROVE  BInv'
<1>1. /\ status = "NONE" /\ draft = NoParcel /\ status' = s /\ parcel' = p
      /\ UNCHANGED <<up, draft, estimate, told, binding, receipt, tellerAt, order, besideEdit, edited>>
  BY DEF Register
<1>2. told = NoPrice /\ receipt = NoPrice /\ ~binding /\ \A i \in Tellers : tellerAt[i] # "loaded"
  BY <1>1 DEF BInv, StatusOK, OrdersOK
<1>3. Measured(p)
  BY BillingAssumption, Forms
<1>4. OrdersOK'
  BY <1>1, <1>2 DEF BInv, OrdersOK
<1>5. StatusOK'
  BY <1>1, <1>2, <1>3 DEF StatusOK, BInv, Measured
<1>6. Undisturbed' /\ AsDrafted' /\ Priced'
  BY <1>1, <1>2 DEF BInv, Undisturbed, AsDrafted, Priced
<1> QED
  BY <1>4, <1>5, <1>6 DEF BInv

LEMMA ShowSummaryStep ==
  ASSUME BInv, NEW data \in ChatData, ShowSummary(data)
  PROVE  BInv'
<1>1. /\ status = "NONE" /\ draft' = data /\ estimate' = Estimate(data)
      /\ UNCHANGED <<up, status, parcel, told, binding, receipt, tellerAt, order, besideEdit, edited>>
  BY DEF ShowSummary
<1>2. Estimate(data)' = Estimate(data)
  BY <1>1 DEF Estimate
<1>3. OrdersOK' /\ StatusOK' /\ Priced'
  BY <1>1 DEF BInv, OrdersOK, StatusOK, Priced
<1>4. Undisturbed'
  BY <1>1 DEF BInv, Undisturbed, Quote
<1>5. AsDrafted'
  BY <1>1, <1>2 DEF AsDrafted, BInv, Estimate
<1> QED
  BY <1>3, <1>4, <1>5 DEF BInv

LEMMA SaveDraftStep ==
  ASSUME BInv, SaveDraft
  PROVE  BInv'
<1> DEFINE p == [FromChat(draft) EXCEPT !.base = "NONE"]
<1>1. /\ status = "NONE" /\ draft # NoParcel /\ status' = "PRE_REGISTRADA" /\ parcel' = p
      /\ UNCHANGED <<up, draft, estimate, told, binding, receipt, tellerAt, order, besideEdit, edited>>
  BY DEF SaveDraft
<1>2. told = NoPrice /\ receipt = NoPrice /\ ~binding /\ \A i \in Tellers : tellerAt[i] # "loaded"
  BY <1>1 DEF BInv, StatusOK, OrdersOK
<1>3. draft \in ParcelData /\ estimate = Estimate(draft)
  BY <1>1, BillingAssumption DEF BInv, AsDrafted
<1>4. Measured(p)
  BY <1>3, Forms
<1>5. OrdersOK'
  BY <1>1, <1>2 DEF BInv, OrdersOK
<1>6. StatusOK'
  <2> HIDE DEF p
  <2> QED
    BY <1>1, <1>2, <1>4 DEF StatusOK, BInv, Measured
<1>7. Undisturbed' /\ Priced'
  BY <1>1, <1>2 DEF BInv, Undisturbed, Priced
<1>8. AsDrafted'
  <2>1. Estimate(draft)' = Estimate(draft)
    BY <1>1 DEF Estimate
  <2>2. ([FromChat(draft) EXCEPT !.base = "NONE"])' = p
    BY <1>1 DEF FromChat
  <2>3. draft' \in ChatData
    BY <1>1 DEF BInv, AsDrafted
  <2> HIDE DEF p
  <2> QED
    BY <1>1, <1>2, <1>3, <2>1, <2>2, <2>3 DEF AsDrafted
<1> QED
  BY <1>5, <1>6, <1>7, <1>8 DEF BInv

LEMMA LoadOrderStep ==
  ASSUME BInv, NEW i \in Tellers, NEW op \in {"quote", "confirm", "cancel", "receipt", "update"}, NEW change,
         op = "update" => change \in ParcelData,
         LoadOrder(i, op, change)
  PROVE  BInv'
<1> DEFINE new == [NoOrder EXCEPT !.op = op, !.copy = parcel, !.change = change]
<1>1. /\ tellerAt[i] = "idle" /\ status # "NONE" /\ Accepts(op)
      /\ tellerAt' = [tellerAt EXCEPT ![i] = "loaded"]
      /\ order' = [order EXCEPT ![i] = new]
      /\ UNCHANGED <<up, status, parcel, draft, estimate, told, binding, receipt, edited>>
  BY DEF LoadOrder
<1>2. new.op = op /\ new.copy = parcel /\ new.change = change
  BY DEF NoOrder
<1> HIDE DEF new
<1>3. /\ tellerAt'[i] = "loaded" /\ order'[i] = new
      /\ \A j \in Tellers \ {i} : tellerAt'[j] = tellerAt[j] /\ order'[j] = order[j]
  BY <1>1 DEF BInv, OrdersOK
<1>4. OrdersOK'
  <2>1. tellerAt' \in [Tellers -> {"idle", "loaded"}] /\ order' = [j \in Tellers |-> order'[j]]
    BY <1>1 DEF BInv, OrdersOK
  <2>2. Measured(parcel)
    BY <1>1 DEF BInv, StatusOK
  <2>3. /\ tellerAt'[i] = "loaded" <=> order'[i].op # "none"
        /\ Measured(order'[i].copy) /\ status' # "NONE"
        /\ order'[i].op = "update" => order'[i].change \in ParcelData
    BY <1>1, <1>2, <1>3, <2>2
  <2>4. ASSUME NEW j \in Tellers \ {i}
        PROVE  /\ tellerAt'[j] = "loaded" <=> order'[j].op # "none"
               /\ tellerAt'[j] = "loaded" => Measured(order'[j].copy) /\ status' # "NONE"
               /\ order'[j].op = "update" => order'[j].change \in ParcelData
    BY <1>1, <1>3 DEF BInv, OrdersOK
  <2> QED
    BY <2>1, <2>3, <2>4 DEF OrdersOK, Measured
<1>5. StatusOK' /\ Priced'
  BY <1>1 DEF BInv, StatusOK, Priced, Measured
<1>6. Quote(parcel)' = Quote(parcel)
  BY <1>1 DEF Quote, Subtotal
<1>7. Undisturbed'
  <2> SUFFICES ASSUME ~besideEdit'
               PROVE  Undisturbed'
    BY DEF Undisturbed
  <2>1. ~besideEdit /\ \A j \in Tellers : tellerAt[j] # "idle" => {op, order[j].op} \cap Disturbing = {}
    BY DEF LoadOrder, Disturbing
  <2>2. ASSUME NEW j \in Tellers, NEW k \in Tellers, j # k, tellerAt'[j] = "loaded", tellerAt'[k] = "loaded"
        PROVE  order'[j].op \notin Disturbing
    BY <1>2, <1>3, <2>1, <2>2 DEF BInv, Undisturbed
  <2>3. ASSUME NEW j \in Tellers, tellerAt'[j] = "loaded"
        PROVE  order'[j].copy = parcel'
    BY <1>1, <1>2, <1>3, <2>1, <2>3 DEF BInv, Undisturbed
  <2>4. binding' => /\ told' = Quote(parcel)'
                    /\ status' \in {"COTIZADA", "ANULADA"}
    BY <1>1, <1>6, <2>1 DEF BInv, Undisturbed
  <2>5. ASSUME binding', NEW j \in Tellers, tellerAt'[j] = "loaded"
        PROVE  order'[j].op \notin Disturbing
    <3>1. op \notin Disturbing
      BY <1>1, <2>1, <2>5 DEF BInv, Undisturbed, Accepts, EDITABLE_STATUS_VALUES, Disturbing
    <3> QED
      BY <1>1, <1>2, <1>3, <2>1, <2>5, <3>1 DEF BInv, Undisturbed
  <2> QED
    BY <2>2, <2>3, <2>4, <2>5 DEF Undisturbed
<1>8. AsDrafted'
  <2>1. Estimate(draft)' = Estimate(draft) /\ FromChat(draft)' = FromChat(draft)
    BY <1>1 DEF Estimate, FromChat
  <2>2. draft' # NoParcel => draft' \in ChatData /\ estimate' = Estimate(draft)'
    BY <1>1, <2>1 DEF BInv, AsDrafted
  <2>3. ASSUME draft' # NoParcel, status' # "NONE", ~edited'
        PROVE  /\ parcel' = [FromChat(draft)' EXCEPT !.base = "NONE"]
               /\ told' # NoPrice => told' = Quote(parcel)'
               /\ \A j \in Tellers : tellerAt'[j] = "loaded" => order'[j].copy = parcel'
    <3>1. /\ parcel = [FromChat(draft) EXCEPT !.base = "NONE"]
          /\ told # NoPrice => told = Quote(parcel)
          /\ \A j \in Tellers : tellerAt[j] = "loaded" => order[j].copy = parcel
      BY <1>1, <2>3 DEF BInv, AsDrafted
    <3>2. \A j \in Tellers : tellerAt'[j] = "loaded" => order'[j].copy = parcel'
      BY <1>1, <1>2, <1>3, <3>1
    <3> QED
      BY <1>1, <1>6, <2>1, <3>1, <3>2
  <2> QED
    BY <2>2, <2>3 DEF AsDrafted
<1> QED
  BY <1>4, <1>5, <1>7, <1>8 DEF BInv

\* What a request that ends does to what was told and to the status.
Tells(i) ==
  \/ told' = told /\ binding' = binding
  \/ /\ told' = Quote(order[i].copy) /\ binding' = (status # "PRE_REGISTRADA")
     /\ status = "PRE_REGISTRADA" \/ status' \in {"COTIZADA", "ANULADA"}
     /\ order[i].op \notin Disturbing

Moves(i) ==
  /\ status' # "NONE"
  /\ \/ status' \in {status, "ANULADA"}
     \/ status = "REGISTRADA" /\ status' = "COTIZADA"
     \/ order[i].op = "confirm"

\* A request that ends: what is left to show.
LEMMA PriceEndStep ==
  ASSUME BInv, NEW i \in Tellers, tellerAt[i] # "idle", End(i),
         StatusOK', Priced', UNCHANGED <<parcel, edited>>, Tells(i), Moves(i)
  PROVE  BInv'
<1>1. /\ tellerAt' = [tellerAt EXCEPT ![i] = "idle"] /\ order' = [order EXCEPT ![i] = NoOrder]
      /\ UNCHANGED <<up, draft, estimate, besideEdit>>
  BY DEF End
<1>2. /\ tellerAt'[i] = "idle" /\ order'[i] = NoOrder
      /\ \A j \in Tellers \ {i} : tellerAt'[j] = tellerAt[j] /\ order'[j] = order[j]
  BY <1>1 DEF BInv, OrdersOK
<1>3. OrdersOK'
  <2>1. tellerAt' \in [Tellers -> {"idle", "loaded"}] /\ order' = [j \in Tellers |-> order'[j]]
    BY <1>1 DEF BInv, OrdersOK
  <2>2. ASSUME NEW j \in Tellers
        PROVE  /\ tellerAt'[j] = "loaded" <=> order'[j].op # "none"
               /\ tellerAt'[j] = "loaded" => Measured(order'[j].copy) /\ status' # "NONE"
               /\ order'[j].op = "update" => order'[j].change \in ParcelData
    BY <1>1, <1>2 DEF BInv, OrdersOK, NoOrder, Moves
  <2> QED
    BY <2>1, <2>2 DEF OrdersOK, Measured
<1>4. Quote(parcel)' = Quote(parcel)
  BY <1>1 DEF Quote, Subtotal
<1>5. tellerAt[i] = "loaded" /\ status # "NONE" /\ status' # "NONE"
  BY DEF BInv, OrdersOK, Moves
<1>6. Undisturbed'
  <2> SUFFICES ASSUME ~besideEdit
               PROVE  Undisturbed'
    BY <1>1 DEF Undisturbed
  <2>1. ASSUME NEW j \in Tellers, NEW k \in Tellers, j # k, tellerAt'[j] = "loaded", tellerAt'[k] = "loaded"
        PROVE  order'[j].op \notin Disturbing
    BY <1>1, <1>2, <2>1 DEF BInv, Undisturbed
  <2>2. ASSUME NEW j \in Tellers, tellerAt'[j] = "loaded"
        PROVE  order'[j].copy = parcel'
    BY <1>1, <1>2, <2>2 DEF BInv, Undisturbed
  <2>3. ASSUME binding'
        PROVE  /\ told' = Quote(parcel)'
               /\ status' \in {"COTIZADA", "ANULADA"}
               /\ \A j \in Tellers : tellerAt'[j] = "loaded" => order'[j].op \notin Disturbing
    <3>1. CASE told' = told /\ binding' = binding
      BY <1>1, <1>2, <1>4, <1>5, <2>3, <3>1 DEF BInv, Undisturbed, Disturbing, Moves
    <3>2. CASE /\ told' = Quote(order[i].copy) /\ order[i].op \notin Disturbing
               /\ binding' = (status # "PRE_REGISTRADA")
               /\ status = "PRE_REGISTRADA" \/ status' \in {"COTIZADA", "ANULADA"}
      BY <1>1, <1>2, <1>4, <1>5, <2>3, <3>2 DEF BInv, Undisturbed
    <3> QED
      BY <3>1, <3>2 DEF Tells
  <2> QED
    BY <2>1, <2>2, <2>3 DEF Undisturbed
<1>7. AsDrafted'
  <2>1. Estimate(draft)' = Estimate(draft) /\ FromChat(draft)' = FromChat(draft)
    BY <1>1 DEF Estimate, FromChat
  <2>2. draft' # NoParcel => draft' \in ChatData /\ estimate' = Estimate(draft)'
    BY <1>1, <2>1 DEF BInv, AsDrafted
  <2>3. ASSUME draft' # NoParcel, status' # "NONE", ~edited'
        PROVE  /\ parcel' = [FromChat(draft)' EXCEPT !.base = "NONE"]
               /\ told' # NoPrice => told' = Quote(parcel)'
               /\ \A j \in Tellers : tellerAt'[j] = "loaded" => order'[j].copy = parcel'
    <3>1. /\ parcel = [FromChat(draft) EXCEPT !.base = "NONE"]
          /\ told # NoPrice => told = Quote(parcel)
          /\ \A j \in Tellers : tellerAt[j] = "loaded" => order[j].copy = parcel
      BY <1>1, <1>5, <2>3 DEF BInv, AsDrafted
    <3>2. \A j \in Tellers : tellerAt'[j] = "loaded" => order'[j].copy = parcel'
      BY <1>2, <3>1
    <3> QED
      BY <1>1, <1>4, <1>5, <2>1, <3>1, <3>2 DEF Tells
  <2> QED
    BY <2>2, <2>3 DEF AsDrafted
<1> QED
  BY <1>3, <1>6, <1>7 DEF BInv

LEMMA PriceUpdateStep ==
  ASSUME BInv, NEW i \in Tellers, Update(i)
  PROVE  BInv'
<1> DEFINE r == order[i]
           merged == [f \in DOMAIN r.change |-> IF r.change[f] # r.copy[f] THEN r.change[f] ELSE parcel[f]]
<1>1. /\ tellerAt[i] = "loaded" /\ r.op = "update" /\ parcel' = merged /\ edited' = TRUE
      /\ tellerAt' = [tellerAt EXCEPT ![i] = "idle"] /\ order' = [order EXCEPT ![i] = NoOrder]
      /\ UNCHANGED <<up, draft, estimate, besideEdit, status, told, binding, receipt>>
  BY DEF Update, End
<1>2. /\ tellerAt'[i] = "idle" /\ order'[i] = NoOrder
      /\ \A j \in Tellers \ {i} : tellerAt'[j] = tellerAt[j] /\ order'[j] = order[j]
  BY <1>1 DEF BInv, OrdersOK
<1>3. r.change \in ParcelData /\ status # "NONE"
  BY <1>1 DEF BInv, OrdersOK
<1>4. Measured(r.change) /\ Measured(parcel)
  BY <1>3, Forms DEF BInv, StatusOK
<1>5. Measured(merged)
  <2>1. DOMAIN r.change = {"destination", "grams", "length", "width", "height", "fragility", "content", "base"}
    BY <1>4 DEF Measured
  <2>2. \A f \in DOMAIN r.change : merged[f] = r.change[f] \/ merged[f] = parcel[f]
    OBVIOUS
  <2>3. DOMAIN merged = DOMAIN r.change
    OBVIOUS
  <2> HIDE DEF merged
  <2>4. /\ merged.grams = r.change.grams \/ merged.grams = parcel.grams
        /\ merged.length = r.change.length \/ merged.length = parcel.length
        /\ merged.width = r.change.width \/ merged.width = parcel.width
        /\ merged.height = r.change.height \/ merged.height = parcel.height
        /\ merged.fragility = r.change.fragility \/ merged.fragility = parcel.fragility
    BY <2>1, <2>2
  <2> QED
    BY <1>4, <2>1, <2>3, <2>4 DEF Measured
<1> HIDE DEF merged
<1>6. OrdersOK'
  <2>1. tellerAt' \in [Tellers -> {"idle", "loaded"}] /\ order' = [j \in Tellers |-> order'[j]]
    BY <1>1 DEF BInv, OrdersOK
  <2>2. ASSUME NEW j \in Tellers
        PROVE  /\ tellerAt'[j] = "loaded" <=> order'[j].op # "none"
               /\ tellerAt'[j] = "loaded" => Measured(order'[j].copy) /\ status' # "NONE"
               /\ order'[j].op = "update" => order'[j].change \in ParcelData
    BY <1>1, <1>2 DEF BInv, OrdersOK, NoOrder
  <2> QED
    BY <2>1, <2>2 DEF OrdersOK, Measured
<1>7. StatusOK' /\ Priced'
  BY <1>1, <1>3, <1>5 DEF BInv, StatusOK, Priced, Measured
<1>8. Undisturbed'
  <2> SUFFICES ASSUME ~besideEdit
               PROVE  Undisturbed'
    BY <1>1 DEF Undisturbed
  <2>1. \A j \in Tellers \ {i} : tellerAt[j] # "loaded"
    BY <1>1 DEF BInv, Undisturbed, Disturbing
  <2>2. ~binding
    BY <1>1 DEF BInv, Undisturbed, Disturbing
  <2>3. \A j \in Tellers : tellerAt'[j] # "loaded"
    BY <1>2, <2>1
  <2> QED
    BY <1>1, <2>2, <2>3 DEF Undisturbed
<1>9. AsDrafted'
  <2>1. Estimate(draft)' = Estimate(draft)
    BY <1>1 DEF Estimate
  <2>2. draft' # NoParcel => draft' \in ChatData /\ estimate' = Estimate(draft)'
    BY <1>1, <2>1 DEF BInv, AsDrafted
  <2> QED
    BY <1>1, <2>2 DEF AsDrafted
<1> QED
  BY <1>6, <1>7, <1>8, <1>9 DEF BInv

LEMMA AnswerQuoteStep ==
  ASSUME BInv, NEW i \in Tellers, AnswerQuote(i)
  PROVE  BInv'
<1>1. /\ tellerAt[i] = "loaded" /\ order[i].op = "quote" /\ told' = Quote(order[i].copy)
      /\ binding' = (status # "PRE_REGISTRADA")
      /\ status' = IF status = "REGISTRADA" THEN "COTIZADA" ELSE status
      /\ End(i) /\ UNCHANGED <<parcel, receipt, edited>>
  BY DEF AnswerQuote
<1>2. Measured(order[i].copy) /\ status # "NONE"
  BY <1>1 DEF BInv, OrdersOK
<1>3. Sums(told')
  BY <1>1, <1>2, QuoteSums
<1>4. StatusOK'
  BY <1>1, <1>2 DEF BInv, StatusOK, Measured
<1>5. Priced'
  BY <1>1, <1>3 DEF BInv, Priced, Sums, Close
<1>6. Tells(i) /\ Moves(i)
  <2>1. status \in {"PRE_REGISTRADA", "REGISTRADA", "COTIZADA", "ANULADA"}
    BY <1>2 DEF BInv, StatusOK
  <2>2. status' = IF status = "REGISTRADA" THEN "COTIZADA" ELSE status
    BY <1>1
  <2>3. order[i].op \notin Disturbing
    BY <1>1 DEF Disturbing
  <2>4. told' = Quote(order[i].copy) /\ binding' = (status # "PRE_REGISTRADA")
    BY <1>1
  <2> QED
    BY <2>1, <2>2, <2>3, <2>4 DEF Tells, Moves
<1>7. tellerAt[i] # "idle" /\ End(i) /\ UNCHANGED <<parcel, edited>>
  BY <1>1
<1> QED
  BY <1>4, <1>5, <1>6, <1>7, PriceEndStep

LEMMA SetStatusStep ==
  ASSUME BInv, NEW i \in Tellers, SetStatus(i)
  PROVE  BInv'
<1>1. /\ tellerAt[i] = "loaded" /\ order[i].op \in {"confirm", "cancel"}
      /\ status' = IF order[i].op = "confirm" THEN "REGISTRADA" ELSE "ANULADA"
      /\ End(i) /\ UNCHANGED <<parcel, told, binding, receipt, edited>>
  BY DEF SetStatus
<1>2. StatusOK' /\ Priced'
  BY <1>1 DEF BInv, OrdersOK, StatusOK, Priced, Measured
<1>3. Tells(i) /\ Moves(i)
  BY <1>1, <1>2 DEF Tells, Moves
<1>4. tellerAt[i] # "idle" /\ End(i) /\ UNCHANGED <<parcel, edited>>
  BY <1>1
<1> QED
  BY <1>2, <1>3, <1>4, PriceEndStep

LEMMA IssueReceiptStep ==
  ASSUME BInv, NEW i \in Tellers, IssueReceipt(i)
  PROVE  BInv'
<1>1. /\ tellerAt[i] = "loaded" /\ order[i].op = "receipt"
      /\ receipt' = IF receipt = NoPrice THEN Quote(order[i].copy) ELSE receipt
      /\ End(i) /\ UNCHANGED <<status, parcel, told, binding, edited>>
  BY DEF IssueReceipt
<1>2. Measured(order[i].copy) /\ status # "NONE"
  BY <1>1 DEF BInv, OrdersOK
<1>3. Sums(Quote(order[i].copy))
  BY <1>2, QuoteSums
<1>4. StatusOK'
  BY <1>1, <1>2 DEF BInv, StatusOK, Measured
<1>5. Priced'
  BY <1>1, <1>3 DEF BInv, Priced, Sums, Close
<1>6. Tells(i) /\ Moves(i)
  BY <1>1, <1>2 DEF Tells, Moves
<1>7. tellerAt[i] # "idle" /\ End(i) /\ UNCHANGED <<parcel, edited>>
  BY <1>1
<1> QED
  BY <1>2, <1>4, <1>5, <1>6, <1>7, PriceEndStep

LEMMA FailStep ==
  ASSUME BInv, NEW i \in Tellers, Fail(i)
  PROVE  BInv'
<1>1. tellerAt[i] # "idle" /\ End(i) /\ UNCHANGED <<status, parcel, told, binding, receipt, edited>>
  BY DEF Fail
<1>2. StatusOK' /\ Priced' /\ status' # "NONE"
  BY <1>1 DEF BInv, OrdersOK, StatusOK, Priced, Measured
<1>3. Tells(i) /\ Moves(i)
  BY <1>1, <1>2 DEF Tells, Moves
<1>4. tellerAt[i] # "idle" /\ End(i) /\ UNCHANGED <<parcel, edited>>
  BY <1>1
<1> QED
  BY <1>2, <1>3, <1>4, PriceEndStep

LEMMA PriceStep ==
  ASSUME BInv, [BillingNext]_billingVars
  PROVE  BInv'
<1>1. ASSUME NEW i \in Tellers, NEW op \in {"quote", "confirm", "cancel", "receipt"},
             LoadOrder(i, op, NoParcel)
      PROVE  BInv'
  BY <1>1, LoadOrderStep
<1>2. ASSUME NEW i \in Tellers, NEW p \in Parcels, LoadOrder(i, "update", p)
      PROVE  BInv'
  <2>1. p \in ParcelData
    BY BillingAssumption
  <2> QED
    BY <1>2, <2>1, LoadOrderStep
<1>3. ASSUME NEW i \in Tellers, AnswerQuote(i) \/ Update(i) \/ SetStatus(i) \/ IssueReceipt(i) \/ Fail(i)
      PROVE  BInv'
  BY <1>3, AnswerQuoteStep, PriceUpdateStep, SetStatusStep, IssueReceiptStep, FailStep
<1>4. CASE UNCHANGED billingVars
  BY <1>4 DEF billingVars, BInv, OrdersOK, StatusOK, Undisturbed, AsDrafted, Priced, Measured, Quote, Estimate, FromChat
<1> QED
  BY <1>1, <1>2, <1>3, <1>4, RegisterStep, ShowSummaryStep, SaveDraftStep DEF BillingNext

LEMMA PriceImplied == BInv => EstimateIsQuoted
<1> SUFFICES ASSUME BInv
             PROVE  EstimateIsQuoted
  OBVIOUS
<1>1. BillingTypeOK
  BY Forms DEF BInv, StatusOK, OrdersOK, BillingTypeOK
<1>2. ASSUME draft # NoParcel
      PROVE  Valid(FromChat(draft))
  BY <1>2, ChatIsValid, BillingAssumption DEF BInv, AsDrafted
<1>3. ASSUME draft # NoParcel, told # NoPrice, ~edited
      PROVE  Close(estimate.total, told.total)
  <2>1. draft \in ParcelData /\ estimate = Estimate(draft)
    BY <1>3, BillingAssumption DEF BInv, AsDrafted
  <2>2. status # "NONE"
    BY <1>3 DEF BInv, StatusOK
  <2>3. told = Quote([FromChat(draft) EXCEPT !.base = "NONE"])
    BY <1>3, <2>2 DEF BInv, AsDrafted
  <2> QED
    BY <2>1, <2>3, EstimateIsClose
<1>4. \A price \in {told, receipt} \ {NoPrice} : Close(price.subtotal + price.igv, price.total)
  BY DEF BInv, Priced, Sums
<1> QED
  BY <1>1, <1>2, <1>3, <1>4 DEF EstimateIsQuoted

\* For any number of threads and any parcels: the chat's estimate is the later
\* quotation up to a cent, what the chat sends is never refused for its base, and
\* the amounts of every quotation and receipt add up to within a cent.
THEOREM EstimatesHold == BillingSpec => []EstimateIsQuoted
  BY PriceInitially, PriceStep, PriceImplied, PTL DEF BillingSpec

\* For any number of threads and any parcels: the receipt has the price that was
\* told last for the confirmed shipment, unless an edit or a confirmation ran
\* beside another request.
THEOREM ToldPriceHolds == BillingSpec => ToldIsCharged
<1>1. ASSUME BInv, [BillingNext]_billingVars
      PROVE  [receipt' # receipt /\ binding /\ ~besideEdit => receipt' = told]_billingVars
  <2>1. SUFFICES ASSUME BillingNext, receipt' # receipt, binding, ~besideEdit
                 PROVE  receipt' = told
    BY <1>1
  <2>2. PICK i \in Tellers : IssueReceipt(i)
    BY <2>1 DEF BillingNext, Register, ShowSummary, SaveDraft, LoadOrder, AnswerQuote, Update,
       SetStatus, Fail, End
  <2>3. tellerAt[i] = "loaded" /\ receipt' = Quote(order[i].copy)
    BY <2>1, <2>2 DEF IssueReceipt
  <2>4. order[i].copy = parcel /\ told = Quote(parcel)
    BY <1>1, <2>1, <2>3 DEF BInv, Undisturbed
  <2> QED
    BY <2>3, <2>4
<1> QED
  BY <1>1, PriceInitially, PriceStep, PTL DEF BillingSpec, ToldIsCharged
-------------------------------------------------------------------------------
(***************************************************************************)
(* What holds of ServiceLog for any number of threads, shipments,          *)
(* identities, phases and rows.  First the types, and what an UPDATE makes *)
(* of a row; every step finds a log, ends a request, inserts a row or      *)
(* writes one.                                                             *)
(***************************************************************************)

ServiceFields == {"shipment", "links", "start", "end", "took", "total"}

\* What a session has loaded.
IsLoaded(r) ==
  /\ r.op \in {"start", "finish", "confirm"} /\ r.phase \in Phases
  /\ r.named \in Shipments \cup {NoShipment} /\ r.links \in LinkSet
  /\ r.id \in 0..Len(log) /\ r.seen \in Row

LogTypes ==
  /\ ServiceTypeOK
  /\ req = [i \in Workers |-> req[i]]
  /\ \A i \in Workers : pc[i] = "again" => req[i].id = 0

Finds(i, r) ==
  /\ Load(i, r) /\ IsLoaded(r)
  /\ IF r.id = 0 THEN r.named # NoShipment => LogsOf(r.named) = {} ELSE r.seen = log[r.id]

Ends(i) == pc[i] # "idle" /\ EndRequest(i) /\ UNCHANGED <<log, announced, repeated>>

Inserts(i, t) ==
  /\ pc[i] = "found" /\ req[i].id = 0 /\ InsertLog(i, t)
  /\ UNCHANGED <<overlapped, mixed, crowded>>
  /\ EndRequest(i) \/ (At(i, "again") /\ req' = req)

\* What a request makes of its copy of the row: nothing, the phase open, or closed.
Opens(i, row) ==
  /\ req[i].seen.start[req[i].phase] = Null
  /\ \E t \in StartTimes : row = [req[i].seen EXCEPT !.start[req[i].phase] = t]

Closes(i, row) ==
  \E t \in EndTimes : /\ MayClose(req[i].seen, req[i].phase, t)
                      /\ row = Closed(req[i].seen, req[i].phase, t)

Writes(i, row) ==
  /\ pc[i] = "found" /\ req[i].id # 0 /\ WriteLog(i, row) /\ EndRequest(i)
  /\ \/ row = req[i].seen /\ UNCHANGED <<announced, repeated>>
     \/ Opens(i, row) /\ Announce(i, "INICIADA")
     \/ Closes(i, row) /\ Announce(i, "FINALIZADA")

SameTimes(a, b, p) == a.start[p] = b.start[p] /\ a.end[p] = b.end[p] /\ a.took[p] = b.took[p]

\* The row `old' after a request that had `seen' and made `row' of it.
WrittenAs(old, seen, row, new, r) ==
  /\ new \in Row
  /\ \/ new.shipment = old.shipment
     \/ seen.shipment = NoShipment /\ r.named # NoShipment /\ new.shipment = r.named
  /\ \A q \in Phases : /\ old.start[q] # Null => new.start[q] # Null
                       /\ old.end[q] # Null => new.end[q] # Null
                       /\ SameTimes(row, seen, q) => SameTimes(new, old, q)
                       /\ SameTimes(seen, old, q) => SameTimes(new, row, q)
                       /\ row.start[q] # seen.start[q] => new.start[q] = row.start[q]
                       /\ row.end[q] # seen.end[q] => new.end[q] = row.end[q]
  /\ seen = old => new.total = row.total
-------------------------------------------------------------------------------
LEMMA TimesType ==
  /\ MaxTime \in Nat /\ Null = MaxTime + 1 /\ Null \in Nat
  /\ \A t \in StartTimes \cup EndTimes : t \in Nat /\ t <= MaxTime /\ t # Null
<1>1. PICK last \in StartTimes \cup EndTimes : \A t \in StartTimes \cup EndTimes : t <= last
  BY ServiceConstants
<1>2. MaxTime \in StartTimes \cup EndTimes /\ \A t \in StartTimes \cup EndTimes : t <= MaxTime
  BY <1>1, ServiceConstants DEF MaxTime, Max
<1>3. MaxTime \in Nat /\ Null = MaxTime + 1
  BY <1>2, ServiceConstants DEF Null
<1> QED
  BY <1>2, <1>3, ServiceConstants

LEMMA RowParts ==
  ASSUME NEW r
  PROVE  r \in Row <=>
           /\ r = [f \in ServiceFields |-> r[f]]
           /\ r.shipment \in Shipments \cup {NoShipment}
           /\ r.links \in LinkSet
           /\ r.start \in [Phases -> StartTimes \cup {Null}]
           /\ r.end \in [Phases -> EndTimes \cup {Null}]
           /\ r.took \in [Phases -> (-MaxTime)..Null]
           /\ r.total \in Int
  BY DEF Row, ServiceFields

LEMMA NewRowType ==
  ASSUME NEW s \in Shipments \cup {NoShipment}, NEW links \in LinkSet
  PROVE  /\ NewRow(s, links) \in Row /\ NewRow(s, links).shipment = s
         /\ \A p \in Phases : /\ NewRow(s, links).start[p] = Null
                              /\ NewRow(s, links).end[p] = Null /\ NewRow(s, links).took[p] = Null
         /\ NewRow(s, links).total = Null
<1>1. Null \in (-MaxTime)..Null /\ Null \in Int
  BY TimesType
<1> QED
  BY <1>1 DEF NewRow, Row

LEMMA ColumnsType ==
  ASSUME NEW R, NEW a \in [Phases -> R], NEW b \in [Phases -> R], NEW c \in [Phases -> R]
  PROVE  Columns(a, b, c) \in [Phases -> R]
<1>1. \A p \in Phases : Columns(a, b, c)[p] = IF c[p] = b[p] THEN a[p] ELSE c[p]
  BY DEF Columns, Column
<1> QED
  BY <1>1 DEF Columns, Column

\* The links of a row after an UPDATE, and after an identity is filled in.
MergedLinks(old, seen, row) == [l \in Links |-> Column(old.links[l], seen.links[l], row.links[l])]
FilledLinks(row, r) == [l \in Links |-> IF row.links[l] = NoKey THEN r.links[l] ELSE row.links[l]]

LEMMA MergeParts ==
  ASSUME NEW old \in Row, NEW seen, NEW row
  PROVE  LET new == Merge(old, seen, row)
         IN  /\ new = [f \in ServiceFields |-> new[f]]
             /\ new.shipment = Column(old.shipment, seen.shipment, row.shipment)
             /\ new.links = MergedLinks(old, seen, row)
             /\ new.start = Columns(old.start, seen.start, row.start)
             /\ new.end = Columns(old.end, seen.end, row.end)
             /\ new.took = Columns(old.took, seen.took, row.took)
             /\ new.total = Column(old.total, seen.total, row.total)
<1>1. old = [f \in ServiceFields |-> old[f]]
  BY RowParts
<1> QED
  BY <1>1 DEF Merge, ServiceFields, MergedLinks

LEMMA MergeType ==
  ASSUME NEW old \in Row, NEW seen \in Row, NEW row \in Row
  PROVE  Merge(old, seen, row) \in Row
<1> DEFINE new == Merge(old, seen, row)
<1>1. /\ new = [f \in ServiceFields |-> new[f]]
      /\ new.shipment \in Shipments \cup {NoShipment} /\ new.total \in Int
  BY MergeParts, RowParts DEF Column
<1>2. new.links \in LinkSet
  <2>1. old.links \in LinkSet /\ row.links \in LinkSet
    BY RowParts
  <2>2. MergedLinks(old, seen, row) \in LinkSet
    BY <2>1 DEF LinkSet, MergedLinks, Column
  <2> QED
    BY <2>2, MergeParts
<1>3. new.start \in [Phases -> StartTimes \cup {Null}]
  <2> DEFINE F == [Phases -> StartTimes \cup {Null}]
  <2>1. old.start \in F /\ seen.start \in F /\ row.start \in F
    BY RowParts
  <2>2. new.start = Columns(old.start, seen.start, row.start)
    BY MergeParts
  <2>3. \A a, b, c \in F : Columns(a, b, c) \in F
    BY ColumnsType
  <2> HIDE DEF F, new
  <2> QED
    BY <2>1, <2>2, <2>3 DEF F
<1>4. new.end \in [Phases -> EndTimes \cup {Null}]
  <2> DEFINE F == [Phases -> EndTimes \cup {Null}]
  <2>1. old.end \in F /\ seen.end \in F /\ row.end \in F
    BY RowParts
  <2>2. new.end = Columns(old.end, seen.end, row.end)
    BY MergeParts
  <2>3. \A a, b, c \in F : Columns(a, b, c) \in F
    BY ColumnsType
  <2> HIDE DEF F, new
  <2> QED
    BY <2>1, <2>2, <2>3 DEF F
<1>5. new.took \in [Phases -> (-MaxTime)..Null]
  <2> DEFINE F == [Phases -> (-MaxTime)..Null]
  <2>1. old.took \in F /\ seen.took \in F /\ row.took \in F
    BY RowParts
  <2>2. new.took = Columns(old.took, seen.took, row.took)
    BY MergeParts
  <2>3. \A a, b, c \in F : Columns(a, b, c) \in F
    BY ColumnsType
  <2> HIDE DEF F, new
  <2> QED
    BY <2>1, <2>2, <2>3 DEF F
<1> HIDE DEF new
<1> QED
  BY <1>1, <1>2, <1>3, <1>4, <1>5, RowParts DEF new

LEMMA FillParts ==
  ASSUME NEW row \in Row, NEW r, IsLoaded(r)
  PROVE  /\ Fill(row, r) \in Row
         /\ Fill(row, r).shipment = IF row.shipment = NoShipment THEN r.named ELSE row.shipment
         /\ Fill(row, r).start = row.start /\ Fill(row, r).end = row.end
         /\ Fill(row, r).took = row.took /\ Fill(row, r).total = row.total
<1> DEFINE new == Fill(row, r)
<1>1. row = [f \in ServiceFields |-> row[f]]
  BY RowParts
<1>2. /\ new = [f \in ServiceFields |-> new[f]]
      /\ new.shipment = IF row.shipment = NoShipment THEN r.named ELSE row.shipment
      /\ new.links = FilledLinks(row, r)
      /\ new.start = row.start /\ new.end = row.end
      /\ new.took = row.took /\ new.total = row.total
  BY <1>1 DEF Fill, ServiceFields, FilledLinks
<1>3. FilledLinks(row, r) \in LinkSet
  <2>1. row.links \in LinkSet /\ r.links \in LinkSet
    BY RowParts DEF IsLoaded
  <2> QED
    BY <2>1 DEF LinkSet, FilledLinks
<1>4. new.shipment \in Shipments \cup {NoShipment}
  BY <1>2, RowParts DEF IsLoaded
<1> HIDE DEF new
<1>5. new \in Row
  BY <1>2, <1>3, <1>4, RowParts
<1> QED
  BY <1>2, <1>5 DEF new

\* No time the table has is lost, whatever copy it is written from; and what is
\* written from the copy that is in the table is what was made of it.
LEMMA MergeWrites ==
  ASSUME NEW old \in Row, NEW seen \in Row, NEW row \in Row, NEW r, IsLoaded(r),
         row.shipment = seen.shipment,
         \A q \in Phases : /\ seen.start[q] # Null => row.start[q] = seen.start[q]
                           /\ seen.end[q] # Null => row.end[q] = seen.end[q]
  PROVE  WrittenAs(old, seen, row, Merge(old, seen, Fill(row, r)), r)
<1>1. PICK to : to = Fill(row, r)
  OBVIOUS
<1>2. /\ to \in Row /\ to.start = row.start /\ to.end = row.end
      /\ to.took = row.took /\ to.total = row.total
      /\ to.shipment = IF row.shipment = NoShipment THEN r.named ELSE row.shipment
  BY <1>1, FillParts
<1>3. PICK new : new = Merge(old, seen, to)
  OBVIOUS
<1>4. /\ new \in Row
      /\ new.shipment = Column(old.shipment, seen.shipment, to.shipment)
      /\ new.start = Columns(old.start, seen.start, row.start)
      /\ new.end = Columns(old.end, seen.end, row.end)
      /\ new.took = Columns(old.took, seen.took, row.took)
      /\ new.total = Column(old.total, seen.total, row.total)
  BY <1>2, <1>3, MergeParts, MergeType
<1>5. \A q \in Phases :
        /\ new.start[q] = IF row.start[q] = seen.start[q] THEN old.start[q] ELSE row.start[q]
        /\ new.end[q] = IF row.end[q] = seen.end[q] THEN old.end[q] ELSE row.end[q]
        /\ new.took[q] = IF row.took[q] = seen.took[q] THEN old.took[q] ELSE row.took[q]
  BY <1>4 DEF Columns, Column
<1>6. \/ new.shipment = old.shipment
      \/ seen.shipment = NoShipment /\ r.named # NoShipment /\ new.shipment = r.named
  BY <1>2, <1>4 DEF Column
<1>7. ASSUME NEW q \in Phases
      PROVE  /\ old.start[q] # Null => new.start[q] # Null
             /\ old.end[q] # Null => new.end[q] # Null
             /\ SameTimes(row, seen, q) => SameTimes(new, old, q)
             /\ SameTimes(seen, old, q) => SameTimes(new, row, q)
             /\ row.start[q] # seen.start[q] => new.start[q] = row.start[q]
             /\ row.end[q] # seen.end[q] => new.end[q] = row.end[q]
  BY <1>5 DEF SameTimes
<1>8. seen = old => new.total = row.total
  BY <1>4 DEF Column
<1> QED
  BY <1>1, <1>3, <1>4, <1>6, <1>7, <1>8 DEF WrittenAs
-------------------------------------------------------------------------------
\* The durations and the total of a row are those of its times.
PhaseIsTrue(row, p) ==
  /\ row.end[p] # Null => /\ row.start[p] # Null
                          /\ row.took[p] = row.end[p] - row.start[p]
                          /\ row.took[p] >= 0
  /\ row.end[p] # Null <=> row.took[p] # Null

ClosedIn(row) == {p \in Phases : row.end[p] # Null}

TotalIsTrue(row) == row.total = IF ClosedIn(row) = {} THEN Null ELSE Sum(row.took, ClosedIn(row))

RowIsTrue(row) == (\A p \in Phases : PhaseIsTrue(row, p)) /\ TotalIsTrue(row)

\* What a request makes of a row.
Makes(seen, row, p) ==
  /\ row \in Row /\ row.shipment = seen.shipment
  /\ \A q \in Phases : /\ seen.start[q] # Null => row.start[q] = seen.start[q]
                       /\ seen.end[q] # Null => row.end[q] = seen.end[q]
                       /\ q # p => SameTimes(row, seen, q)
  /\ PhaseIsTrue(seen, p) => PhaseIsTrue(row, p)
  /\ RowIsTrue(seen) => RowIsTrue(row)

LEMMA StartRow ==
  ASSUME NEW row \in Row, NEW p \in Phases, NEW t \in StartTimes, row.start[p] = Null
  PROVE  LET new == [row EXCEPT !.start[p] = t]
         IN  /\ Makes(row, new, p)
             /\ new.start[p] # Null /\ new.end = row.end /\ new.took = row.took
<1>1. PICK new : new = [row EXCEPT !.start[p] = t]
  OBVIOUS
<1>2. /\ new = [f \in ServiceFields |-> new[f]]
      /\ new.shipment = row.shipment /\ new.links = row.links
      /\ new.start = [row.start EXCEPT ![p] = t]
      /\ new.end = row.end /\ new.took = row.took /\ new.total = row.total
  <2>1. row = [f \in ServiceFields |-> row[f]]
    BY RowParts
  <2> QED
    BY <1>1, <2>1 DEF ServiceFields
<1>3. new \in Row
  <2>1. new.start \in [Phases -> StartTimes \cup {Null}]
    BY <1>2, RowParts
  <2> QED
    BY <1>2, <2>1, RowParts
<1>4. \A q \in Phases : new.start[q] = IF q = p THEN t ELSE row.start[q]
  BY <1>2, RowParts
<1>5. t # Null
  BY TimesType
<1>6. ASSUME NEW q \in Phases
      PROVE  /\ row.start[q] # Null => new.start[q] = row.start[q]
             /\ row.end[q] # Null => new.end[q] = row.end[q]
             /\ q # p => SameTimes(new, row, q)
             /\ PhaseIsTrue(row, q) => PhaseIsTrue(new, q)
  BY <1>2, <1>4, <1>5 DEF SameTimes, PhaseIsTrue
<1>7. TotalIsTrue(row) => TotalIsTrue(new)
  <2>1. ClosedIn(new) = ClosedIn(row)
    BY <1>2 DEF ClosedIn
  <2> QED
    BY <1>2, <2>1 DEF TotalIsTrue
<1>8. Makes(row, new, p)
  BY <1>2, <1>3, <1>6, <1>7 DEF Makes, RowIsTrue
<1> QED
  BY <1>1, <1>2, <1>4, <1>5, <1>8

LEMMA TotalIsSum ==
  ASSUME NEW took
  PROVE  TotalMs(took) = Sum(took, {p \in Phases : took[p] # Null})
  BY DEF TotalMs, Total, Sum

LEMMA ClosedRow ==
  ASSUME NEW row \in Row, NEW p \in Phases, NEW t \in EndTimes, MayClose(row, p, t)
  PROVE  Makes(row, Closed(row, p, t), p) /\ Closed(row, p, t).end[p] # Null
<1>1. PICK new, took, measured :
        /\ new = Closed(row, p, t)
        /\ took = [row.took EXCEPT ![p] = t - row.start[p]]
        /\ measured = {q \in Phases : took[q] # Null}
  OBVIOUS
<1>2. /\ new = [f \in ServiceFields |-> new[f]]
      /\ new.shipment = row.shipment /\ new.links = row.links /\ new.start = row.start
      /\ new.end = [row.end EXCEPT ![p] = t]
      /\ new.took = took /\ new.total = Sum(took, measured)
  <2>1. new = [row EXCEPT !.end[p] = t, !.took = took, !.total = TotalMs(took)]
    BY <1>1 DEF Closed
  <2>2. row = [f \in ServiceFields |-> row[f]]
    BY RowParts
  <2>3. TotalMs(took) = Sum(took, measured)
    BY <1>1, TotalIsSum
  <2> QED
    BY <2>1, <2>2, <2>3 DEF ServiceFields
<1>3. /\ row.start[p] \in StartTimes /\ row.start[p] <= t /\ row.start[p] # Null
      /\ row.end[p] = Null
  BY RowParts DEF MayClose
<1>4. t - row.start[p] \in Nat /\ t - row.start[p] <= MaxTime /\ t - row.start[p] # Null /\ t # Null
  BY <1>3, TimesType
<1>5. took \in [Phases -> (-MaxTime)..Null]
  <2>1. t - row.start[p] \in (-MaxTime)..Null
    BY <1>4, TimesType
  <2> QED
    BY <1>1, <2>1, RowParts
<1>6. Sum(took, measured) \in Int
  <2>1. IsFiniteSet(measured)
    BY <1>1, ServiceConstants, FS_Subset
  <2>2. \A q \in measured : took[q] \in Int
    BY <1>1, <1>5, TimesType
  <2> QED
    BY <2>1, <2>2, SumType
<1>7. new \in Row
  <2>1. [row.end EXCEPT ![p] = t] \in [Phases -> EndTimes \cup {Null}]
    BY RowParts
  <2> QED
    BY <1>2, <1>5, <1>6, <2>1, RowParts
<1>8. /\ \A q \in Phases : new.end[q] = IF q = p THEN t ELSE row.end[q]
      /\ \A q \in Phases : new.took[q] = IF q = p THEN t - row.start[p] ELSE row.took[q]
  BY <1>1, <1>2, RowParts
<1>9. ASSUME NEW q \in Phases
      PROVE  /\ row.start[q] # Null => new.start[q] = row.start[q]
             /\ row.end[q] # Null => new.end[q] = row.end[q]
             /\ q # p => SameTimes(new, row, q)
             /\ PhaseIsTrue(row, q) => PhaseIsTrue(new, q)
  <2>1. CASE q = p
    BY <1>2, <1>3, <1>4, <1>8, <2>1 DEF PhaseIsTrue
  <2>2. CASE q # p
    BY <1>2, <1>8, <2>2 DEF SameTimes, PhaseIsTrue
  <2> QED
    BY <2>1, <2>2
<1>10. ASSUME \A q \in Phases : PhaseIsTrue(new, q)
       PROVE  TotalIsTrue(new)
  <2>1. ClosedIn(new) = measured
    BY <1>1, <1>2, <1>10 DEF ClosedIn, PhaseIsTrue
  <2>2. p \in ClosedIn(new)
    BY <1>4, <1>8 DEF ClosedIn
  <2> QED
    BY <1>2, <2>1, <2>2 DEF TotalIsTrue
<1>11. Makes(row, new, p)
  BY <1>2, <1>7, <1>9, <1>10 DEF Makes, RowIsTrue
<1> QED
  BY <1>1, <1>4, <1>8, <1>11

LEMMA SameRow == ASSUME NEW row \in Row, NEW p PROVE Makes(row, row, p)
  BY DEF Makes, SameTimes

LEMMA NoRequestType == Len(log) \in Nat => IsLoaded(NoRequest)
<1>1. (CHOOSE p \in Phases : TRUE) \in Phases
  BY ServiceConstants
<1>2. NoLinks \in LinkSet
  BY DEF NoLinks, LinkSet
<1>3. NewRow(NoShipment, NoLinks) \in Row
  BY <1>2, NewRowType
<1> QED
  BY <1>1, <1>2, <1>3 DEF IsLoaded, NoRequest

LEMMA LogFacts ==
  ASSUME LogTypes
  PROVE  /\ Len(log) \in Nat /\ DOMAIN log = 1..Len(log) /\ Len(log) <= MaxLogs
         /\ log \in Seq(Row) /\ log = [n \in 1..Len(log) |-> log[n]]
         /\ \A n \in DOMAIN log : log[n] \in Row
         /\ \A i \in Workers : IsLoaded(req[i])
  BY DEF LogTypes, ServiceTypeOK, IsLoaded

LEMMA LastLog ==
  ASSUME LogTypes, NEW s, NEW links
  PROVE  /\ FindLog(s, links) \in 0..Len(log)
         /\ FindLog(s, links) = 0 /\ s # NoShipment => LogsOf(s) = {}
<1> DEFINE M == {n \in DOMAIN log : Matches(log[n], s, links)}
           S == M \cup {0}
<1>1. Len(log) \in Nat /\ DOMAIN log = 1..Len(log)
  BY LogFacts
<1>2. S \in SUBSET Nat /\ \A n \in S : n <= Len(log)
  BY <1>1
<1>3. PICK last : last = Max(S)
  OBVIOUS
<1>4. last \in S /\ (\A n \in S : n <= last) /\ FindLog(s, links) = last
  BY <1>1, <1>2, <1>3, MaxOfBounded DEF FindLog
<1>5. s # NoShipment => LogsOf(s) \subseteq M
  BY DEF LogsOf, Matches
<1>6. M \subseteq 1..Len(log)
  BY <1>1
<1> HIDE DEF M
<1>7. ASSUME NEW n \in M
      PROVE  last # 0
  BY <1>1, <1>2, <1>4, <1>6, <1>7
<1>8. last \in 0..Len(log)
  BY <1>1, <1>4, <1>6
<1>9. last = 0 => M = {}
  BY <1>7
<1> QED
  BY <1>4, <1>5, <1>8, <1>9

LEMMA FoundByIdentity ==
  ASSUME LogTypes, NEW i \in Workers, NEW op \in {"start", "finish", "confirm"}, NEW p \in Phases,
         NEW s \in Shipments \cup {NoShipment}, NEW links \in LinkSet,
         Load(i, Found(op, p, s, links, FindLog(s, links)))
  PROVE  \E r : Finds(i, r)
<1>1. PICK id, r : id = FindLog(s, links) /\ r = Found(op, p, s, links, id)
  OBVIOUS
<1>2. id \in 0..Len(log) /\ (id = 0 /\ s # NoShipment => LogsOf(s) = {})
  BY <1>1, LastLog
<1>3. NewRow(NoShipment, NoLinks) \in Row
  BY NewRowType DEF NoLinks, LinkSet
<1>4. id # 0 => id \in DOMAIN log /\ log[id] \in Row
  BY <1>2, LogFacts
<1>5. IsLoaded(r) /\ r.named = s /\ r.id = id /\ (id # 0 => r.seen = log[id])
  BY <1>1, <1>2, <1>3, <1>4 DEF Found, IsLoaded
<1>6. Finds(i, r)
  BY <1>1, <1>2, <1>5 DEF Finds
<1> QED
  BY <1>6

LEMMA ServiceSteps ==
  ASSUME LogTypes, [ServiceNext]_serviceVars
  PROVE  \/ UNCHANGED serviceVars
         \/ \E i \in Workers : \/ \E r : Finds(i, r)
                               \/ Ends(i)
                               \/ \E t \in StartTimes : Inserts(i, t)
                               \/ \E row : Writes(i, row)
<1> DEFINE Kinds == \E i \in Workers : \/ \E r : Finds(i, r)
                                       \/ Ends(i)
                                       \/ \E t \in StartTimes : Inserts(i, t)
                                       \/ \E row : Writes(i, row)
<1>1. ASSUME NEW i \in Workers, NEW p \in Phases, NEW s \in Shipments \cup {NoShipment},
             NEW links \in LinkSet, NEW op \in {"start", "finish"}, FindByIdentity(i, op, p, s, links)
      PROVE  Kinds
  <2>1. \E r : Finds(i, r)
    BY <1>1, FoundByIdentity DEF FindByIdentity
  <2> QED
    BY <2>1
<1>2. ASSUME NEW i \in Workers, NEW s \in Shipments, FindByIdentity(i, "confirm", "registro", s, NoLinks)
      PROVE  Kinds
  <2>1. NoLinks \in LinkSet
    BY DEF NoLinks, LinkSet
  <2>2. \E r : Finds(i, r)
    BY <1>2, <2>1, FoundByIdentity, ServiceConstants DEF FindByIdentity
  <2> QED
    BY <2>2
<1>3. ASSUME NEW i \in Workers, NEW p \in Phases, NEW s \in Shipments \cup {NoShipment},
             NEW links \in LinkSet, NEW id \in 1..MaxLogs, FindById(i, p, s, links, id)
      PROVE  Kinds
  <2>1. PICK r : r = Found("finish", p, s, links, id)
    OBVIOUS
  <2>2. id \in DOMAIN log /\ id # 0 /\ id \in 0..Len(log) /\ log[id] \in Row
    BY <1>3, LogFacts DEF FindById
  <2>3. IsLoaded(r) /\ r.id = id /\ r.seen = log[id]
    BY <2>1, <2>2 DEF Found, IsLoaded
  <2>4. Finds(i, r)
    BY <1>3, <2>1, <2>2, <2>3 DEF Finds, FindById
  <2> QED
    BY <2>4
<1>4. ASSUME NEW i \in Workers, NEW t \in StartTimes, StartNewLog(i, t) \/ ConfirmOpensLog(i, t)
      PROVE  Kinds
  <2>1. Inserts(i, t)
    BY <1>4 DEF StartNewLog, ConfirmOpensLog, Inserts, EndRequest
  <2> QED
    BY <2>1
<1>5. ASSUME NEW i \in Workers, NEW t \in StartTimes, StartPhase(i, t)
      PROVE  Kinds
  <2>1. PICK row : row = [req[i].seen EXCEPT !.start[req[i].phase] = t]
    OBVIOUS
  <2>2. Writes(i, row)
    BY <1>5, <2>1 DEF StartPhase, Writes, Opens
  <2> QED
    BY <2>2
<1>6. ASSUME NEW i \in Workers, NEW t \in EndTimes, FinishPhase(i, t)
      PROVE  Kinds
  <2>1. PICK row : row = Closed(req[i].seen, req[i].phase, t)
    OBVIOUS
  <2>2. Writes(i, row)
    BY <1>6, <2>1 DEF FinishPhase, Writes, Closes
  <2> QED
    BY <2>2
<1>7. ASSUME NEW i \in Workers, NEW t \in EndTimes, FillIdentity(i, t)
      PROVE  Kinds
  <2>1. Writes(i, req[i].seen)
    BY <1>7 DEF FillIdentity, Writes
  <2> QED
    BY <2>1
<1>8. ASSUME NEW i \in Workers, ConfirmFindsAgain(i)
      PROVE  Kinds
  <2>1. NoLinks \in LinkSet /\ IsLoaded(req[i])
    BY LogFacts DEF NoLinks, LinkSet
  <2>2. \E r : Finds(i, r)
    BY <1>8, <2>1, FoundByIdentity DEF ConfirmFindsAgain, IsLoaded
  <2> QED
    BY <2>2
<1>9. ASSUME NEW i \in Workers, FinishWithoutUpdate(i)
      PROVE  Kinds
  BY <1>9 DEF FinishWithoutUpdate, Ends
<1> HIDE DEF Kinds
<1>10. Kinds \/ UNCHANGED serviceVars
  BY <1>1, <1>2, <1>3, <1>4, <1>5, <1>6, <1>7, <1>8, <1>9 DEF ServiceNext
<1> QED
  BY <1>10 DEF Kinds
-------------------------------------------------------------------------------
\* What each kind of step does to the rows.
LEMMA RowWritten ==
  ASSUME LogTypes, NEW i \in Workers, NEW row, Writes(i, row)
  PROVE  LET r == req[i]
             n == r.id
         IN  /\ n \in DOMAIN log /\ log[n] \in Row /\ IsLoaded(r)
             /\ Makes(r.seen, row, r.phase)
             /\ WrittenAs(log[n], r.seen, row, log'[n], r)
             /\ log' \in Seq(Row) /\ Len(log') = Len(log) /\ DOMAIN log' = DOMAIN log
             /\ \A m \in DOMAIN log \ {n} : log'[m] = log[m]
<1>1. PICK r, n, old : r = req[i] /\ n = r.id /\ old = log[n]
  OBVIOUS
<1>2. IsLoaded(r) /\ n \in 1..Len(log) /\ old \in Row /\ r.seen \in Row /\ r.phase \in Phases
  BY <1>1, LogFacts DEF Writes, IsLoaded
<1>3. Makes(r.seen, row, r.phase)
  <2>1. CASE row = r.seen
    BY <1>2, <2>1, SameRow
  <2>2. CASE Opens(i, row)
    BY <1>1, <1>2, <2>2, StartRow DEF Opens
  <2>3. CASE Closes(i, row)
    BY <1>1, <1>2, <2>3, ClosedRow DEF Closes
  <2> QED
    BY <1>1, <2>1, <2>2, <2>3 DEF Writes
<1>4. PICK new : new = Merge(old, r.seen, Fill(row, r))
  OBVIOUS
<1>5. WrittenAs(old, r.seen, row, new, r)
  BY <1>2, <1>3, <1>4, MergeWrites DEF Makes
<1>6. log' = [log EXCEPT ![n] = new]
  BY <1>1, <1>4 DEF Writes, WriteLog
<1>7. /\ Len(log) \in Nat /\ DOMAIN log = 1..Len(log)
      /\ log = [m \in 1..Len(log) |-> log[m]] /\ \A m \in 1..Len(log) : log[m] \in Row
  BY LogFacts
<1>8. log' = [m \in 1..Len(log) |-> IF m = n THEN new ELSE log[m]]
  BY <1>2, <1>6, <1>7
<1>9. log' \in [1..Len(log) -> Row]
  BY <1>5, <1>7, <1>8 DEF WrittenAs
<1>10. log' \in Seq(Row)
  <2>1. \A m \in Nat : [1..m -> Row] \subseteq Seq(Row)
    BY SeqDef, Zenon
  <2> QED
    BY <1>7, <1>9, <2>1, Zenon
<1>11. Len(log') = Len(log) /\ DOMAIN log' = DOMAIN log
  BY <1>7, <1>9, <1>10, LenProperties
<1>12. log'[n] = new /\ \A m \in DOMAIN log \ {n} : log'[m] = log[m]
  BY <1>2, <1>7, <1>8
<1> QED
  BY <1>1, <1>2, <1>3, <1>5, <1>7, <1>10, <1>11, <1>12

LEMMA Inserted ==
  ASSUME LogTypes, NEW i \in Workers, NEW t \in StartTimes, Inserts(i, t)
  PROVE  LET r == req[i]
             new == Len(log) + 1
         IN  /\ IsLoaded(r)
             /\ log' \in Seq(Row) /\ Len(log') = new /\ DOMAIN log' = (DOMAIN log) \cup {new}
             /\ new \notin DOMAIN log /\ new <= MaxLogs
             /\ \A n \in DOMAIN log : log'[n] = log[n]
             /\ log'[new].shipment = r.named /\ log'[new].start[r.phase] # Null
             /\ RowIsTrue(log'[new])
<1>1. PICK r, first : r = req[i] /\ first = NewRow(r.named, r.links)
  OBVIOUS
<1>2. IsLoaded(r) /\ r.phase \in Phases
  BY <1>1, LogFacts DEF IsLoaded
<1>3. /\ first \in Row /\ first.shipment = r.named /\ first.total = Null
      /\ \A p \in Phases : first.start[p] = Null /\ first.end[p] = Null /\ first.took[p] = Null
  BY <1>1, <1>2, NewRowType DEF IsLoaded
<1>4. RowIsTrue(first)
  BY <1>3 DEF RowIsTrue, PhaseIsTrue, TotalIsTrue, ClosedIn
<1>5. PICK row : row = [first EXCEPT !.start[r.phase] = t]
  OBVIOUS
<1>6. row \in Row /\ row.shipment = r.named /\ row.start[r.phase] # Null /\ RowIsTrue(row)
  <2>1. Makes(first, row, r.phase) /\ row.start[r.phase] # Null
    BY <1>2, <1>3, <1>5, StartRow
  <2> QED
    BY <1>3, <1>4, <2>1 DEF Makes
<1>7. log' = Append(log, row) /\ Len(log) < MaxLogs
  BY <1>1, <1>5 DEF Inserts, InsertLog
<1>8. log \in Seq(Row) /\ Len(log) \in Nat /\ DOMAIN log = 1..Len(log)
  BY LogFacts
<1>9. /\ log' \in Seq(Row) /\ Len(log') = Len(log) + 1
      /\ \A n \in 1..Len(log) : log'[n] = log[n]
      /\ log'[Len(log) + 1] = row
  BY <1>6, <1>7, <1>8, AppendProperties
<1>10. DOMAIN log' = (DOMAIN log) \cup {Len(log) + 1} /\ Len(log) + 1 \notin DOMAIN log
  <2>1. DOMAIN log' = 1..(Len(log) + 1)
    BY <1>9
  <2> QED
    BY <1>8, <2>1
<1>11. Len(log) + 1 <= MaxLogs
  BY <1>7, <1>8, ServiceConstants
<1> QED
  BY <1>1, <1>2, <1>6, <1>8, <1>9, <1>10, <1>11

\* The events a step may add to the timelines: those of the request, on the
\* shipment it names.
Announces(i, action) ==
  LET r == req[i]
  IN  /\ announced' = [s \in Shipments |-> announced'[s]]
      /\ \A s \in Shipments : /\ announced[s] \subseteq announced'[s]
                              /\ \A e \in announced'[s] : \/ e \in announced[s]
                                                          \/ s = r.named /\ e = <<r.phase, action>>
      /\ \A s \in repeated' : \/ s \in repeated
                              \/ s \in Shipments /\ s = r.named /\ <<r.phase, action>> \in announced[s]

LEMMA AnnounceStep ==
  ASSUME LogTypes, NEW i \in Workers, NEW action \in {"INICIADA", "FINALIZADA"},
         Announce(i, action) \/ UNCHANGED <<announced, repeated>>
  PROVE  /\ Announces(i, action)
         /\ announced' \in [Shipments -> SUBSET (Phases \X {"INICIADA", "FINALIZADA"})]
         /\ repeated' \subseteq Shipments
<1> DEFINE E == Phases \X {"INICIADA", "FINALIZADA"}
<1>1. PICK s, e : s = req[i].named /\ e = <<req[i].phase, action>>
  OBVIOUS
<1>2. announced \in [Shipments -> SUBSET E] /\ repeated \subseteq Shipments
  BY DEF LogTypes, ServiceTypeOK
<1>3. e \in E /\ s \in Shipments \cup {NoShipment}
  BY <1>1, LogFacts DEF IsLoaded
<1> HIDE DEF E
<1>4. CASE announced' = announced /\ repeated' = repeated
  BY <1>2, <1>4 DEF E, Announces
<1>5. CASE s \in Shipments /\ Announce(i, action)
  <2>1. /\ announced' = [announced EXCEPT ![s] = @ \cup {e}]
        /\ repeated' = IF e \in announced[s] THEN repeated \cup {s} ELSE repeated
    BY <1>1, <1>5, ServiceConstants DEF Announce
  <2>2. announced' \in [Shipments -> SUBSET E]
    BY <1>2, <1>3, <1>5, <2>1
  <2>3. Announces(i, action)
    BY <1>1, <1>2, <1>5, <2>1, <2>2 DEF Announces
  <2> QED
    BY <1>2, <1>5, <2>1, <2>2, <2>3 DEF E
<1>6. s = NoShipment /\ Announce(i, action) => announced' = announced /\ repeated' = repeated
  BY <1>1 DEF Announce
<1> QED
  BY <1>3, <1>4, <1>5, <1>6

LEMMA TypesInitially == ServiceInit => LogTypes
<1> SUFFICES ASSUME ServiceInit
             PROVE  LogTypes
  OBVIOUS
<1>1. log = <<>> /\ Len(log) = 0 /\ DOMAIN log = {} /\ log \in Seq(Row)
  BY DEF ServiceInit
<1>2. IsLoaded(NoRequest)
  BY <1>1, NoRequestType
<1>3. \A i \in Workers : IsLoaded(req[i])
  BY <1>2 DEF ServiceInit
<1> QED
  BY <1>1, <1>3, ServiceConstants DEF ServiceInit, LogTypes, ServiceTypeOK, IsLoaded

\* A step after which the table and the histories are as they should be.
LEMMA TypesKept ==
  ASSUME LogTypes, NEW i \in Workers,
         log' \in Seq(Row), Len(log) <= Len(log'), Len(log') <= MaxLogs,
         announced' \in [Shipments -> SUBSET (Phases \X {"INICIADA", "FINALIZADA"})],
         repeated' \subseteq Shipments, overlapped' \subseteq Shipments, mixed' \subseteq Shipments,
         crowded' \subseteq (DOMAIN log') \X SUBSET Phases,
         NEW point \in {"idle", "found", "again"}, At(i, point),
         NEW r, IsLoaded(r), req' = [req EXCEPT ![i] = r],
         point = "again" => r.id = 0
  PROVE  LogTypes'
<1>1. pc \in [Workers -> {"idle", "found", "again"}] /\ req = [k \in Workers |-> req[k]]
  BY DEF LogTypes, ServiceTypeOK
<1>2. /\ pc' \in [Workers -> {"idle", "found", "again"}] /\ pc'[i] = point
      /\ \A k \in Workers \ {i} : pc'[k] = pc[k] /\ req'[k] = req[k]
      /\ req'[i] = r /\ req' = [k \in Workers |-> req'[k]]
  BY <1>1 DEF At
<1>3. Len(log) \in Nat /\ Len(log') \in Nat
  BY LogFacts
<1>4. \A k \in Workers : IsLoaded(req'[k])
  BY <1>2, LogFacts
<1>5. \A k \in Workers : IsLoaded(req[k])'
  BY <1>3, <1>4 DEF IsLoaded
<1>6. ServiceTypeOK'
  BY <1>2, <1>5 DEF ServiceTypeOK, IsLoaded
<1>7. \A k \in Workers : pc'[k] = "again" => req'[k].id = 0
  BY <1>2 DEF LogTypes
<1> QED
  BY <1>2, <1>6, <1>7 DEF LogTypes

LEMMA TypesStep == LogTypes /\ [ServiceNext]_serviceVars => LogTypes'
<1> SUFFICES ASSUME LogTypes, [ServiceNext]_serviceVars
             PROVE  LogTypes'
  OBVIOUS
<1>1. /\ log \in Seq(Row) /\ Len(log) \in Nat /\ Len(log) <= MaxLogs /\ DOMAIN log = 1..Len(log)
      /\ announced \in [Shipments -> SUBSET (Phases \X {"INICIADA", "FINALIZADA"})]
      /\ repeated \subseteq Shipments /\ overlapped \subseteq Shipments /\ mixed \subseteq Shipments
      /\ crowded \subseteq (DOMAIN log) \X SUBSET Phases
      /\ IsLoaded(NoRequest) /\ NoRequest.id = 0
  <2>1. Len(log) \in Nat
    BY LogFacts
  <2> QED
    BY <2>1, LogFacts, NoRequestType DEF LogTypes, ServiceTypeOK, NoRequest
<1>2. ASSUME NEW i \in Workers, NEW r, Finds(i, r)
      PROVE  LogTypes'
  <2>1. /\ IsLoaded(r) /\ req' = [req EXCEPT ![i] = r] /\ At(i, "found")
        /\ UNCHANGED <<log, announced, repeated>>
    BY <1>2 DEF Finds, Load
  <2>2. overlapped' \subseteq Shipments /\ mixed' \subseteq Shipments
    BY <1>1, <1>2 DEF Finds, Load, IsLoaded
  <2>3. crowded' \subseteq (DOMAIN log) \X SUBSET Phases
    <3>1. \A j \in With(r.id) : req[j].phase \in Phases
      BY LogFacts DEF With, IsLoaded
    <3>2. r.id # 0 => r.id \in DOMAIN log
      BY <1>1, <2>1 DEF IsLoaded
    <3>3. r.phase \in Phases
      BY <2>1 DEF IsLoaded
    <3> QED
      BY <1>1, <1>2, <3>1, <3>2, <3>3 DEF Finds, Load
  <2>4. /\ log' \in Seq(Row) /\ Len(log) <= Len(log') /\ Len(log') <= MaxLogs
        /\ crowded' \subseteq (DOMAIN log') \X SUBSET Phases
        /\ announced' \in [Shipments -> SUBSET (Phases \X {"INICIADA", "FINALIZADA"})]
        /\ repeated' \subseteq Shipments
    BY <1>1, <2>1, <2>3
  <2> QED
    BY <2>1, <2>2, <2>4, TypesKept
<1>3. ASSUME NEW i \in Workers, Ends(i)
      PROVE  LogTypes'
  <2>1. /\ At(i, "idle") /\ req' = [req EXCEPT ![i] = NoRequest]
        /\ UNCHANGED <<log, announced, repeated, overlapped, mixed, crowded>>
    BY <1>3 DEF Ends, EndRequest
  <2>2. /\ log' \in Seq(Row) /\ Len(log) <= Len(log') /\ Len(log') <= MaxLogs
        /\ crowded' \subseteq (DOMAIN log') \X SUBSET Phases
        /\ announced' \in [Shipments -> SUBSET (Phases \X {"INICIADA", "FINALIZADA"})]
        /\ repeated' \subseteq Shipments /\ overlapped' \subseteq Shipments /\ mixed' \subseteq Shipments
    BY <1>1, <2>1
  <2> QED
    BY <1>1, <2>1, <2>2, TypesKept
<1>4. ASSUME NEW i \in Workers, NEW t \in StartTimes, Inserts(i, t)
      PROVE  LogTypes'
  <2>1. /\ log' \in Seq(Row) /\ Len(log') = Len(log) + 1 /\ Len(log') <= MaxLogs
        /\ DOMAIN log \subseteq DOMAIN log' /\ IsLoaded(req[i])
    BY <1>4, Inserted
  <2>2. UNCHANGED <<overlapped, mixed, crowded>> /\ Announce(i, "INICIADA")
    BY <1>4 DEF Inserts, InsertLog
  <2>3. /\ announced' \in [Shipments -> SUBSET (Phases \X {"INICIADA", "FINALIZADA"})]
        /\ repeated' \subseteq Shipments
    BY <2>2, AnnounceStep
  <2>4. Len(log) <= Len(log') /\ crowded' \subseteq (DOMAIN log') \X SUBSET Phases
    BY <1>1, <2>1, <2>2
  <2>5. CASE EndRequest(i)
    BY <1>1, <2>1, <2>2, <2>3, <2>4, <2>5, TypesKept DEF EndRequest
  <2>6. CASE At(i, "again") /\ req' = req
    <3>1. req' = [req EXCEPT ![i] = req[i]]
      BY <2>6 DEF LogTypes
    <3>2. req[i].id = 0
      BY <1>4 DEF Inserts
    <3> QED
      BY <1>1, <2>1, <2>2, <2>3, <2>4, <2>6, <3>1, <3>2, TypesKept
  <2> QED
    BY <1>4, <2>5, <2>6 DEF Inserts
<1>5. ASSUME NEW i \in Workers, NEW row, Writes(i, row)
      PROVE  LogTypes'
  <2>1. log' \in Seq(Row) /\ Len(log') = Len(log) /\ DOMAIN log' = DOMAIN log
    BY <1>5, RowWritten
  <2>2. /\ At(i, "idle") /\ req' = [req EXCEPT ![i] = NoRequest]
        /\ UNCHANGED <<overlapped, mixed, crowded>>
    BY <1>5 DEF Writes, EndRequest
  <2>3. /\ announced' \in [Shipments -> SUBSET (Phases \X {"INICIADA", "FINALIZADA"})]
        /\ repeated' \subseteq Shipments
    BY <1>5, AnnounceStep DEF Writes
  <2>4. /\ Len(log) <= Len(log') /\ Len(log') <= MaxLogs
        /\ crowded' \subseteq (DOMAIN log') \X SUBSET Phases
        /\ overlapped' \subseteq Shipments /\ mixed' \subseteq Shipments
    BY <1>1, <2>1, <2>2
  <2> QED
    BY <1>1, <2>1, <2>2, <2>3, <2>4, TypesKept
<1>6. CASE UNCHANGED serviceVars
  BY <1>6 DEF serviceVars, LogTypes, ServiceTypeOK
<1> QED
  BY <1>2, <1>3, <1>4, <1>5, <1>6, ServiceSteps
-------------------------------------------------------------------------------
(***************************************************************************)
(* The durations and the total of a log.  The request that closes a phase  *)
(* computes them from its copy of the row.  The times of its phase in the  *)
(* copy are those of the row unless another request about the phase has    *)
(* the row, and the copy is the row unless another request has it.         *)
(***************************************************************************)
RowHolds(n) ==
  /\ \A p \in Phases : Quiet(n, p) => PhaseIsTrue(log[n], p)
  /\ Sole(n) => TotalIsTrue(log[n])

CopyHolds(k) ==
  LET r == req[k]
  IN  pc[k] = "found" /\ r.id # 0 =>
        /\ Quiet(r.id, r.phase) => SameTimes(r.seen, log[r.id], r.phase)
        /\ Sole(r.id) => r.seen = log[r.id]
        /\ \A j \in With(r.id) \ {k} : <<r.id, {r.phase, req[j].phase}>> \in crowded

RowsAreTrue ==
  /\ \A n \in DOMAIN log : RowHolds(n)
  /\ \A k \in Workers : CopyHolds(k)

LEMMA SoleIsQuiet ==
  ASSUME NEW n, NEW p \in Phases, NEW q \in Phases
  PROVE  /\ <<n, {p, q}>> \in crowded => ~Sole(n)
         /\ <<n, {p, p}>> \in crowded => ~Quiet(n, p)
         /\ Sole(n) => Quiet(n, p)
<1>1. {p, q} \in SUBSET Phases /\ {p, p} = {p} /\ {p} \in SUBSET Phases
  OBVIOUS
<1> QED
  BY <1>1 DEF Sole, Quiet

\* What the histories excuse, they excuse for ever.
LEMMA ExcusedForEver ==
  ASSUME crowded \subseteq crowded', NEW n
  PROVE  (Sole(n)' => Sole(n)) /\ \A p : Quiet(n, p)' => Quiet(n, p)
  BY DEF Sole, Quiet

LEMMA RowKept ==
  ASSUME RowsAreTrue, crowded \subseteq crowded', NEW n \in DOMAIN log, log'[n] = log[n]
  PROVE  RowHolds(n)'
<1>1. RowHolds(n) /\ (Sole(n)' => Sole(n)) /\ \A p : Quiet(n, p)' => Quiet(n, p)
  BY ExcusedForEver DEF RowsAreTrue
<1>3. ASSUME NEW p \in Phases, Quiet(n, p)'
      PROVE  PhaseIsTrue(log[n], p)'
  <2>1. PhaseIsTrue(log[n], p)
    BY <1>1, <1>3 DEF RowHolds
  <2> QED
    BY <2>1 DEF PhaseIsTrue
<1>4. ASSUME Sole(n)'
      PROVE  TotalIsTrue(log[n])'
  <2>1. TotalIsTrue(log[n])
    BY <1>1, <1>4 DEF RowHolds
  <2> QED
    BY <2>1 DEF TotalIsTrue, ClosedIn
<1> QED
  BY <1>3, <1>4 DEF RowHolds

\* A copy of another request, when the row it is of stays as it is.
LEMMA CopyKept ==
  ASSUME RowsAreTrue, NEW i \in Workers, NEW k \in Workers \ {i}, crowded \subseteq crowded',
         req'[k] = req[k], pc'[k] = pc[k],
         pc[k] = "found" /\ req[k].id # 0 =>
           /\ log'[req[k].id] = log[req[k].id]
           /\ \A j \in With(req[k].id)' \ {k} : \/ j \in With(req[k].id) /\ req'[j] = req[j]
                                               \/ <<req[k].id, {req[k].phase, req'[j].phase}>> \in crowded'
  PROVE  CopyHolds(k)'
<1> SUFFICES ASSUME pc[k] = "found", req[k].id # 0
             PROVE  /\ Quiet(req[k].id, req[k].phase)' => SameTimes(req[k].seen, log'[req[k].id], req[k].phase)
                    /\ Sole(req[k].id)' => req[k].seen = log'[req[k].id]
                    /\ \A j \in With(req[k].id)' \ {k} : <<req[k].id, {req[k].phase, req'[j].phase}>> \in crowded'
  BY DEF CopyHolds, SameTimes
<1>1. PICK r : r = req[k]
  OBVIOUS
<1>2. /\ Quiet(r.id, r.phase) => SameTimes(r.seen, log[r.id], r.phase)
      /\ Sole(r.id) => r.seen = log[r.id]
      /\ \A j \in With(r.id) \ {k} : <<r.id, {r.phase, req[j].phase}>> \in crowded
  BY <1>1 DEF RowsAreTrue, CopyHolds
<1>3. (Sole(r.id)' => Sole(r.id)) /\ (Quiet(r.id, r.phase)' => Quiet(r.id, r.phase))
  BY ExcusedForEver
<1>4. Quiet(req[k].id, req[k].phase)' <=> Quiet(r.id, r.phase)'
  BY <1>1 DEF Quiet
<1>5. Sole(req[k].id)' <=> Sole(r.id)'
  BY <1>1 DEF Sole
<1> QED
  BY <1>1, <1>2, <1>3, <1>4, <1>5

LEMMA RowsInitially == ServiceInit => RowsAreTrue
<1> SUFFICES ASSUME ServiceInit
             PROVE  RowsAreTrue
  OBVIOUS
<1>1. DOMAIN log = {}
  BY DEF ServiceInit
<1> QED
  BY <1>1 DEF ServiceInit, RowsAreTrue, CopyHolds

LEMMA RowsFind ==
  ASSUME LogTypes, RowsAreTrue, NEW i \in Workers, NEW r, Finds(i, r)
  PROVE  RowsAreTrue'
<1>1. /\ req' = [req EXCEPT ![i] = r] /\ At(i, "found") /\ log' = log
      /\ crowded' = IF r.id = 0 THEN crowded
                    ELSE crowded \cup {<<r.id, {r.phase, req[j].phase}>> : j \in With(r.id) \ {i}}
      /\ r.id # 0 => r.seen = log[r.id]
  BY DEF Finds, Load
<1>2. /\ req'[i] = r /\ pc'[i] = "found" /\ crowded \subseteq crowded'
      /\ \A k \in Workers \ {i} : req'[k] = req[k] /\ pc'[k] = pc[k]
  BY <1>1 DEF LogTypes, ServiceTypeOK, At
<1>3. \A n \in DOMAIN log' : RowHolds(n)'
  BY <1>1, <1>2, RowKept
<1>4. \A n : \A j \in Workers \ {i} : j \in With(n)' <=> j \in With(n)
  BY <1>2 DEF With
<1>5. CopyHolds(i)'
  <2>1. r.id # 0 => \A j \in With(r.id)' \ {i} : <<r.id, {r.phase, req'[j].phase}>> \in crowded'
    <3>1. ASSUME r.id # 0, NEW j \in With(r.id)' \ {i}
          PROVE  <<r.id, {r.phase, req'[j].phase}>> \in crowded'
      <4>1. j \in With(r.id) \ {i} /\ req'[j] = req[j]
        BY <1>2, <1>4, <3>1 DEF With
      <4> QED
        BY <1>1, <3>1, <4>1
    <3> QED
      BY <3>1
  <2> QED
    BY <1>1, <1>2, <2>1 DEF CopyHolds, SameTimes
<1>6. ASSUME NEW k \in Workers \ {i}
      PROVE  CopyHolds(k)'
  <2>1. ASSUME pc[k] = "found", req[k].id # 0, NEW j \in With(req[k].id)' \ {k}
        PROVE  \/ j \in With(req[k].id) /\ req'[j] = req[j]
               \/ <<req[k].id, {req[k].phase, req'[j].phase}>> \in crowded'
    <3>1. CASE j # i
      <4>1. j \in Workers
        BY <2>1 DEF With
      <4> QED
        BY <1>2, <1>4, <3>1, <4>1, <2>1
    <3>2. CASE j = i
      <4>1. r.id = req[k].id /\ k \in With(r.id) \ {i}
        BY <1>2, <2>1, <3>2 DEF With
      <4>2. <<r.id, {r.phase, req[k].phase}>> \in crowded'
        BY <1>1, <2>1, <4>1
      <4>3. {r.phase, req[k].phase} = {req[k].phase, req'[j].phase}
        BY <1>2, <3>2
      <4> QED
        BY <4>1, <4>2, <4>3
    <3> QED
      BY <3>1, <3>2
  <2> QED
    BY <1>1, <1>2, <2>1, CopyKept
<1> QED
  BY <1>3, <1>5, <1>6 DEF RowsAreTrue

\* A step that is of no row, and one that is of a new one.
LEMMA RowsBeside ==
  ASSUME LogTypes, RowsAreTrue, NEW i \in Workers, crowded' = crowded,
         EndRequest(i) \/ (At(i, "again") /\ req' = req),
         \A n \in DOMAIN log : log'[n] = log[n],
         \A n \in DOMAIN log' \ DOMAIN log : RowIsTrue(log'[n])
  PROVE  RowsAreTrue'
<1>1. /\ pc'[i] # "found"
      /\ \A k \in Workers \ {i} : req'[k] = req[k] /\ pc'[k] = pc[k]
  BY DEF LogTypes, ServiceTypeOK, At, EndRequest
<1>2. ASSUME NEW n \in DOMAIN log'
      PROVE  RowHolds(n)'
  <2>1. CASE n \in DOMAIN log
    BY <2>1, RowKept
  <2>2. CASE n \notin DOMAIN log
    <3>1. RowIsTrue(log'[n])
      BY <1>2, <2>2
    <3> QED
      BY <3>1 DEF RowIsTrue, RowHolds, PhaseIsTrue, TotalIsTrue, ClosedIn
  <2> QED
    BY <2>1, <2>2
<1>3. ASSUME NEW k \in Workers \ {i}
      PROVE  CopyHolds(k)'
  <2>1. \A n : \A j \in With(n)' : j \in With(n) /\ req'[j] = req[j]
    BY <1>1 DEF With
  <2>2. req[k].id # 0 => req[k].id \in DOMAIN log
    BY LogFacts DEF IsLoaded
  <2> QED
    BY <1>1, <2>1, <2>2, CopyKept
<1>4. CopyHolds(i)'
  BY <1>1 DEF CopyHolds
<1> QED
  BY <1>2, <1>3, <1>4 DEF RowsAreTrue

LEMMA RowsWrite ==
  ASSUME LogTypes, RowsAreTrue, NEW i \in Workers, NEW row, Writes(i, row)
  PROVE  RowsAreTrue'
<1>1. PICK r, n, p, old, new :
        r = req[i] /\ n = r.id /\ p = r.phase /\ old = log[n] /\ new = log'[n]
  OBVIOUS
<1>2. /\ n \in DOMAIN log /\ n # 0 /\ p \in Phases /\ pc[i] = "found"
      /\ Makes(r.seen, row, p) /\ WrittenAs(old, r.seen, row, new, r)
      /\ DOMAIN log' = DOMAIN log /\ \A m \in DOMAIN log \ {n} : log'[m] = log[m]
      /\ EndRequest(i) /\ crowded' = crowded
  BY <1>1, RowWritten DEF Writes, EndRequest, IsLoaded
<1>3. /\ pc'[i] = "idle"
      /\ \A k \in Workers \ {i} : req'[k] = req[k] /\ pc'[k] = pc[k]
  BY <1>2 DEF LogTypes, ServiceTypeOK, At, EndRequest
<1>4. \A q \in Phases \ {p} : SameTimes(new, old, q)
  BY <1>2 DEF Makes, WrittenAs
<1>5. /\ Quiet(n, p) => SameTimes(r.seen, old, p)
      /\ Sole(n) => r.seen = old
  BY <1>1, <1>2 DEF RowsAreTrue, CopyHolds
<1>6. RowHolds(n)
  BY <1>2 DEF RowsAreTrue
<1>7. ASSUME NEW q \in Phases, Quiet(n, q)
      PROVE  PhaseIsTrue(new, q)
  <2>1. PhaseIsTrue(old, q)
    BY <1>1, <1>6, <1>7 DEF RowHolds
  <2>2. CASE q # p
    BY <1>4, <2>1, <2>2 DEF SameTimes, PhaseIsTrue
  <2>3. CASE q = p
    <3>1. SameTimes(r.seen, old, p) /\ SameTimes(new, row, p)
      BY <1>2, <1>5, <1>7, <2>3 DEF WrittenAs
    <3>2. PhaseIsTrue(r.seen, p)
      BY <2>1, <2>3, <3>1 DEF SameTimes, PhaseIsTrue
    <3>3. PhaseIsTrue(row, p)
      BY <1>2, <3>2 DEF Makes
    <3> QED
      BY <2>3, <3>1, <3>3 DEF SameTimes, PhaseIsTrue
  <2> QED
    BY <2>2, <2>3
<1>8. ASSUME Sole(n)
      PROVE  TotalIsTrue(new)
  <2>1. r.seen = old
    BY <1>5, <1>8
  <2>2. \A q \in Phases : Quiet(n, q)
    BY <1>8, SoleIsQuiet
  <2>3. RowIsTrue(r.seen)
    BY <1>1, <1>6, <1>8, <2>1, <2>2 DEF RowHolds, RowIsTrue
  <2>4. RowIsTrue(row)
    BY <1>2, <2>3 DEF Makes
  <2>5. new.total = row.total /\ \A q \in Phases : SameTimes(new, row, q)
    BY <1>2, <2>1 DEF WrittenAs, SameTimes
  <2>6. new.took = row.took
    <3>1. new \in Row /\ row \in Row
      BY <1>2 DEF WrittenAs, Makes
    <3>2. new.took \in [Phases -> (-MaxTime)..Null] /\ row.took \in [Phases -> (-MaxTime)..Null]
      BY <3>1, RowParts
    <3> QED
      BY <2>5, <3>2 DEF SameTimes
  <2>7. ClosedIn(new) = ClosedIn(row)
    BY <2>5 DEF ClosedIn, SameTimes
  <2> QED
    BY <2>4, <2>5, <2>6, <2>7 DEF RowIsTrue, TotalIsTrue
<1>9. ASSUME NEW m \in DOMAIN log'
      PROVE  RowHolds(m)'
  <2>1. CASE m # n
    BY <1>2, <1>9, <2>1, RowKept
  <2>2. CASE m = n
    <3>1. (Sole(n)' => Sole(n)) /\ \A q : Quiet(n, q)' => Quiet(n, q)
      BY <1>2, ExcusedForEver
    <3>2. \A q \in Phases : Quiet(n, q)' => PhaseIsTrue(new, q)
      BY <1>7, <3>1
    <3>3. Sole(n)' => TotalIsTrue(new)
      BY <1>8, <3>1
    <3> QED
      BY <1>1, <2>2, <3>2, <3>3 DEF RowHolds, PhaseIsTrue, TotalIsTrue, ClosedIn
  <2> QED
    BY <2>1, <2>2
<1>10. \A m : \A j \in With(m)' : j \in With(m) /\ req'[j] = req[j]
  BY <1>3 DEF With
<1>11. ASSUME NEW k \in Workers \ {i}
       PROVE  CopyHolds(k)'
  <2>1. CASE pc[k] = "found" /\ req[k].id = n
    <3>1. PICK c : c = req[k]
      OBVIOUS
    <3>2. /\ Quiet(n, c.phase) => SameTimes(c.seen, old, c.phase)
          /\ \A j \in With(n) \ {k} : <<n, {c.phase, req[j].phase}>> \in crowded
      BY <1>1, <1>2, <2>1, <3>1 DEF RowsAreTrue, CopyHolds
    <3>3. c.phase \in Phases /\ i \in With(n) \ {k}
      BY <1>1, <1>2, <3>1, LogFacts DEF With, IsLoaded
    <3>4. <<n, {c.phase, p}>> \in crowded
      BY <1>1, <3>2, <3>3
    <3>5. ~Sole(n)
      BY <1>2, <3>3, <3>4, SoleIsQuiet
    <3>6. Quiet(n, c.phase) => c.phase # p
      BY <3>3, <3>4, SoleIsQuiet
    <3>7. Quiet(n, c.phase) => SameTimes(c.seen, new, c.phase)
      BY <1>4, <3>2, <3>3, <3>6 DEF SameTimes
    <3>8. \A j \in With(n)' \ {k} : <<n, {c.phase, req'[j].phase}>> \in crowded'
      BY <1>2, <1>10, <3>2
    <3>9. ~Sole(n)' /\ (Quiet(n, c.phase)' => Quiet(n, c.phase))
      BY <1>2, <3>5, ExcusedForEver
    <3>10. req'[k] = c /\ pc'[k] = "found" /\ c.id = n
      BY <1>3, <2>1, <3>1
    <3> QED
      BY <1>1, <3>7, <3>8, <3>9, <3>10 DEF CopyHolds, SameTimes, Quiet, Sole
  <2>2. CASE ~(pc[k] = "found" /\ req[k].id = n)
    <3>1. req[k].id # 0 => req[k].id \in DOMAIN log
      BY LogFacts DEF IsLoaded
    <3>2. pc[k] = "found" /\ req[k].id # 0 => log'[req[k].id] = log[req[k].id]
      BY <1>2, <2>2, <3>1
    <3> QED
      BY <1>2, <1>3, <1>10, <3>2, CopyKept
  <2> QED
    BY <2>1, <2>2
<1>12. CopyHolds(i)'
  BY <1>3 DEF CopyHolds
<1> QED
  BY <1>9, <1>11, <1>12 DEF RowsAreTrue

LEMMA RowsStep == LogTypes /\ RowsAreTrue /\ [ServiceNext]_serviceVars => RowsAreTrue'
<1> SUFFICES ASSUME LogTypes, RowsAreTrue, [ServiceNext]_serviceVars
             PROVE  RowsAreTrue'
  OBVIOUS
<1>1. ASSUME NEW i \in Workers, Ends(i)
      PROVE  RowsAreTrue'
  <2>1. log' = log /\ crowded' = crowded /\ EndRequest(i)
    BY <1>1 DEF Ends, EndRequest
  <2> QED
    BY <2>1, RowsBeside
<1>2. ASSUME NEW i \in Workers, NEW t \in StartTimes, Inserts(i, t)
      PROVE  RowsAreTrue'
  <2>1. PICK new : new = Len(log) + 1
    OBVIOUS
  <2>2. /\ DOMAIN log' = (DOMAIN log) \cup {new} /\ RowIsTrue(log'[new])
        /\ \A n \in DOMAIN log : log'[n] = log[n]
    BY <1>2, <2>1, Inserted
  <2>3. \A n \in DOMAIN log' \ DOMAIN log : RowIsTrue(log'[n])
    BY <2>2
  <2>4. crowded' = crowded /\ (EndRequest(i) \/ (At(i, "again") /\ req' = req))
    BY <1>2 DEF Inserts
  <2> QED
    BY <2>2, <2>3, <2>4, RowsBeside
<1>3. CASE UNCHANGED serviceVars
  <2>1. UNCHANGED <<log, pc, req, crowded>>
    BY <1>3 DEF serviceVars
  <2> QED
    BY <2>1 DEF RowsAreTrue, RowHolds, CopyHolds, PhaseIsTrue, TotalIsTrue, ClosedIn, SameTimes, Quiet,
                Sole, With
<1> QED
  BY <1>1, <1>2, <1>3, RowsFind, RowsWrite, ServiceSteps

LEMMA RowsSuffice == LogTypes /\ RowsAreTrue => DurationsAreTrue
<1> SUFFICES ASSUME LogTypes, RowsAreTrue
             PROVE  DurationsAreTrue
  OBVIOUS
<1>1. ASSUME NEW n \in DOMAIN log
      PROVE  LET row == log[n]
                 closed == {p \in Phases : row.end[p] # Null}
             IN  /\ \A p \in closed : Quiet(n, p) =>
                      /\ row.start[p] # Null
                      /\ row.took[p] = row.end[p] - row.start[p]
                      /\ row.took[p] >= 0
                 /\ Sole(n) =>
                      row.total = IF closed = {} THEN Null
                                  ELSE MapThenSumSet(LAMBDA p : row.took[p], closed)
  <2>1. RowHolds(n)
    BY DEF RowsAreTrue
  <2>2. Sole(n) => TotalIsTrue(log[n])
    BY <2>1 DEF RowHolds
  <2>3. \A p \in Phases : Quiet(n, p) => PhaseIsTrue(log[n], p)
    BY <2>1 DEF RowHolds
  <2> QED
    BY <2>2, <2>3 DEF PhaseIsTrue, TotalIsTrue, ClosedIn, Sum
<1>2. ServiceTypeOK
  BY DEF LogTypes
<1> QED
  BY <1>1, <1>2 DEF DurationsAreTrue

LEMMA RowsAlways == ServiceSpec => [](LogTypes /\ RowsAreTrue)
<1>1. ServiceInit => LogTypes /\ RowsAreTrue
  BY TypesInitially, RowsInitially
<1>2. LogTypes /\ RowsAreTrue /\ [ServiceNext]_serviceVars => LogTypes' /\ RowsAreTrue'
  BY TypesStep, RowsStep
<1> QED
  BY <1>1, <1>2, PTL DEF ServiceSpec

\* The durations and the total of a log are those of the times in it, whatever
\* requests on other phases and on other logs do (_finish_service_phase).
THEOREM DurationsAreTrueAlways == ServiceSpec => []DurationsAreTrue
  BY RowsAlways, RowsSuffice, PTL

LEMMA LogsAreKept ==
  LogTypes /\ RowsAreTrue /\ [ServiceNext]_serviceVars =>
    \A n \in DOMAIN log : \A p \in Phases :
       log[n].end[p] # Null =>
         /\ n \in DOMAIN log' /\ log'[n].end[p] # Null
         /\ Quiet(n, p) => /\ log'[n].start[p] = log[n].start[p]
                           /\ log'[n].end[p] = log[n].end[p]
                           /\ log'[n].took[p] = log[n].took[p]
<1> SUFFICES ASSUME LogTypes, RowsAreTrue, [ServiceNext]_serviceVars, NEW n \in DOMAIN log,
                    NEW p \in Phases, log[n].end[p] # Null
             PROVE  /\ n \in DOMAIN log' /\ log'[n].end[p] # Null
                    /\ Quiet(n, p) => SameTimes(log'[n], log[n], p)
  BY DEF SameTimes
<1>1. CASE log' = log
  BY <1>1 DEF SameTimes
<1>2. ASSUME NEW i \in Workers, NEW t \in StartTimes, Inserts(i, t)
      PROVE  n \in DOMAIN log' /\ log'[n] = log[n]
  <2>1. \A m \in DOMAIN log : m \in DOMAIN log' /\ log'[m] = log[m]
    BY <1>2, Inserted
  <2> QED
    BY <2>1
<1>3. ASSUME NEW i \in Workers, NEW row, Writes(i, row)
      PROVE  /\ n \in DOMAIN log' /\ log'[n].end[p] # Null
             /\ Quiet(n, p) => SameTimes(log'[n], log[n], p)
  <2>1. PICK r : r = req[i]
    OBVIOUS
  <2>2. /\ DOMAIN log' = DOMAIN log /\ \A m \in DOMAIN log \ {r.id} : log'[m] = log[m]
        /\ r.phase \in Phases /\ r.id # 0 /\ pc[i] = "found"
        /\ Makes(r.seen, row, r.phase) /\ WrittenAs(log[r.id], r.seen, row, log'[r.id], r)
    BY <1>3, <2>1, RowWritten DEF IsLoaded, Writes
  <2>3. CASE n # r.id
    BY <2>2, <2>3 DEF SameTimes
  <2>4. CASE n = r.id
    <3>1. log'[n].end[p] # Null
      BY <2>2, <2>4 DEF WrittenAs
    <3>2. ASSUME Quiet(n, p)
          PROVE  SameTimes(log'[n], log[n], p)
      <4>1. SameTimes(row, r.seen, p) => SameTimes(log'[n], log[n], p)
        BY <2>2, <2>4 DEF WrittenAs
      <4>2. p # r.phase => SameTimes(row, r.seen, p)
        BY <2>2 DEF Makes
      <4>3. ASSUME p = r.phase
            PROVE  SameTimes(row, r.seen, p)
        <5>1. SameTimes(r.seen, log[n], p)
          BY <2>1, <2>2, <2>4, <3>2, <4>3 DEF RowsAreTrue, CopyHolds
        <5>2. PhaseIsTrue(log[n], p)
          BY <3>2 DEF RowsAreTrue, RowHolds
        <5>3. r.seen.start[p] # Null /\ r.seen.end[p] # Null
          BY <5>1, <5>2 DEF SameTimes, PhaseIsTrue
        <5>4. row = r.seen
          BY <1>3, <2>1, <4>3, <5>3 DEF Writes, Opens, Closes, MayClose
        <5> QED
          BY <5>4 DEF SameTimes
      <4> QED
        BY <4>1, <4>2, <4>3
    <3> QED
      BY <2>2, <2>4, <3>1, <3>2
  <2> QED
    BY <2>3, <2>4
<1>4. ASSUME NEW i \in Workers, (\E r : Finds(i, r)) \/ Ends(i)
      PROVE  log' = log
  BY <1>4 DEF Finds, Ends, Load
<1> QED
  BY <1>1, <1>2, <1>3, <1>4, ServiceSteps DEF serviceVars, SameTimes

\* However requests overlap, a phase that finish_service_phase closed in a log
\* is never open in it again, for an UPDATE writes the columns that changed
\* only; and its times stay unless two requests about it had the row at once.
THEOREM ClosedStaysClosedAlways == ServiceSpec => ClosedStaysClosed
<1>1. LogTypes /\ RowsAreTrue /\ [ServiceNext]_serviceVars =>
        [\A n \in DOMAIN log : \A p \in Phases :
           log[n].end[p] # Null =>
             /\ n \in DOMAIN log' /\ log'[n].end[p] # Null
             /\ Quiet(n, p) => /\ log'[n].start[p] = log[n].start[p]
                               /\ log'[n].end[p] = log[n].end[p]
                               /\ log'[n].took[p] = log[n].took[p]]_serviceVars
  BY LogsAreKept
<1> QED
  BY <1>1, RowsAlways, PTL DEF ServiceSpec, ClosedStaysClosed
-------------------------------------------------------------------------------
(***************************************************************************)
(* The timeline of a shipment tells what its logs say.  A request that     *)
(* names a shipment only ever named beside its own logs has one of them;   *)
(* the shipment of the log stays; and while the request is the only one    *)
(* that names it, nobody else inserts a log for it or tells its timeline.  *)
(***************************************************************************)
Own(r) ==
  r.id # 0 =>
    /\ r.seen.shipment \notin mixed \cup {NoShipment} => log[r.id].shipment = r.seen.shipment
    /\ r.seen.shipment = NoShipment => log[r.id].shipment \in mixed \cup {NoShipment}
    /\ r.named \notin mixed \cup {NoShipment} => r.seen.shipment = r.named

\* What the timeline does not tell yet.
Untold(r) ==
  /\ r.id = 0 => LogsOf(r.named) = {}
  /\ r.id # 0 => \A p \in Phases :
       /\ r.seen.start[p] = Null => <<p, "INICIADA">> \notin announced[r.named]
       /\ r.seen.end[p] = Null => <<p, "FINALIZADA">> \notin announced[r.named]

Plain == Shipments \ (overlapped \cup mixed)

OnlyOne(k) ==
  pc[k] # "idle" /\ req[k].named \in Plain =>
    /\ Naming(req[k].named) \subseteq {k}
    /\ pc[k] = "found" => Untold(req[k])

OneEach == \A s \in Plain : (\A m, n \in LogsOf(s) : m = n) /\ s \notin repeated

TimelineHolds ==
  /\ \A k \in Workers : (pc[k] # "idle" => Own(req[k])) /\ OnlyOne(k)
  /\ OneEach
  /\ AnnouncedIsLogged

LEMMA TimelineInitially == ServiceInit => TimelineHolds
<1> SUFFICES ASSUME ServiceInit
             PROVE  TimelineHolds
  OBVIOUS
<1>1. DOMAIN log = {}
  BY DEF ServiceInit
<1> QED
  BY <1>1 DEF ServiceInit, TimelineHolds, OnlyOne, OneEach, AnnouncedIsLogged, LogsOf

\* Nobody else names the shipment of a request, unless they overlapped.
LEMMA NobodyElse ==
  ASSUME TimelineHolds, NEW i \in Workers, NEW k \in Workers, pc[i] # "idle", pc[k] # "idle",
         k # i, req[k].named \in Plain
  PROVE  req[k].named # req[i].named
<1>1. req[i].named = req[k].named => i \in Naming(req[k].named)
  BY DEF Naming
<1> QED
  BY <1>1 DEF TimelineHolds, OnlyOne

LEMMA TimelineFind ==
  ASSUME LogTypes, TimelineHolds, NEW i \in Workers, NEW r, Finds(i, r)
  PROVE  TimelineHolds'
<1>1. /\ req' = [req EXCEPT ![i] = r] /\ At(i, "found")
      /\ overlapped' = overlapped \cup {s \in {r.named} \ {NoShipment} : ~(Naming(s) \subseteq {i})}
      /\ mixed' = mixed \cup {s \in {r.named} \ {NoShipment} : r.id # 0 /\ r.seen.shipment # s}
      /\ UNCHANGED <<log, announced, repeated>>
      /\ IsLoaded(r)
      /\ IF r.id = 0 THEN r.named # NoShipment => LogsOf(r.named) = {} ELSE r.seen = log[r.id]
  BY DEF Finds, Load
<1>2. /\ req'[i] = r /\ pc'[i] = "found"
      /\ \A k \in Workers \ {i} : req'[k] = req[k] /\ pc'[k] = pc[k]
  BY <1>1 DEF LogTypes, ServiceTypeOK, At
<1>3. /\ mixed \subseteq mixed' /\ Plain' \subseteq Plain
      /\ \A s : LogsOf(s)' = LogsOf(s)
  BY <1>1 DEF Plain, LogsOf
<1>4. Own(req[i])'
  BY <1>1, <1>2 DEF Own
<1>5. ASSUME NEW k \in Workers \ {i}, pc[k] # "idle"
      PROVE  Own(req[k])'
  <2>1. Own(req[k]) /\ req'[k] = req[k]
    BY <1>2, <1>5 DEF TimelineHolds
  <2> QED
    BY <1>1, <1>3, <2>1 DEF Own
<1>6. OnlyOne(i)'
  <2> SUFFICES ASSUME r.named \in Plain'
               PROVE  Naming(r.named)' \subseteq {i} /\ Untold(r)'
    BY <1>2 DEF OnlyOne, Untold, Naming
  <2>1. r.named \in Plain /\ r.named \in Shipments /\ r.named # NoShipment
    BY <1>3, ServiceConstants DEF Plain
  <2>2. Naming(r.named) \subseteq {i}
    BY <1>1, <2>1 DEF Plain
  <2>3. Naming(r.named)' \subseteq {i}
    BY <1>2, <2>2 DEF Naming
  <2>4. r.id # 0 => log[r.id].shipment = r.named /\ r.id \in LogsOf(r.named)
    <3>1. r.id # 0 => r.seen.shipment = r.named
      BY <1>1, <2>1 DEF Plain
    <3>2. r.id # 0 => r.id \in DOMAIN log
      BY <1>1, LogFacts DEF IsLoaded
    <3> QED
      BY <1>1, <3>1, <3>2 DEF LogsOf
  <2>5. ASSUME r.id # 0, NEW p \in Phases
        PROVE  /\ r.seen.start[p] = Null => <<p, "INICIADA">> \notin announced[r.named]
               /\ r.seen.end[p] = Null => <<p, "FINALIZADA">> \notin announced[r.named]
    <3>1. \A n \in LogsOf(r.named) : n = r.id
      BY <2>1, <2>4, <2>5 DEF TimelineHolds, OneEach
    <3>2. r.seen = log[r.id]
      BY <1>1, <2>5
    <3>3. r.named \in Shipments \ mixed
      BY <2>1 DEF Plain
    <3> QED
      BY <3>1, <3>2, <3>3 DEF TimelineHolds, AnnouncedIsLogged
  <2>6. Untold(r)
    BY <1>1, <2>1, <2>5 DEF Untold
  <2> QED
    BY <1>1, <1>3, <2>3, <2>6 DEF Untold
<1>7. ASSUME NEW k \in Workers \ {i}
      PROVE  OnlyOne(k)'
  <2> SUFFICES ASSUME pc[k] # "idle", req[k].named \in Plain'
               PROVE  OnlyOne(k)'
    BY <1>2 DEF OnlyOne
  <2>1. PICK s : s = req[k].named
    OBVIOUS
  <2>2. s \in Plain /\ s # NoShipment /\ k \in Naming(s)
    BY <1>3, <2>1, ServiceConstants DEF Plain, Naming
  <2>3. s # r.named
    BY <1>1, <2>1, <2>2 DEF Plain
  <2>4. Naming(s) \subseteq {k} /\ (pc[k] = "found" => Untold(req[k]))
    BY <2>1, <2>2 DEF TimelineHolds, OnlyOne
  <2>5. Naming(s)' \subseteq {k}
    BY <1>2, <2>3, <2>4 DEF Naming
  <2>6. pc[k] = "found" => Untold(req[k])'
    BY <1>1, <1>2, <1>3, <2>4 DEF Untold
  <2>7. Naming(req[k].named)' = Naming(s)'
    BY <1>2, <2>1 DEF Naming
  <2> QED
    BY <1>2, <2>5, <2>6, <2>7 DEF OnlyOne
<1>8. OneEach' /\ AnnouncedIsLogged'
  BY <1>1, <1>3 DEF TimelineHolds, OneEach, AnnouncedIsLogged
<1> QED
  BY <1>4, <1>5, <1>6, <1>7, <1>8, <1>2 DEF TimelineHolds

\* What the end of a request, or a row it writes, leaves to the others.
LEMMA TimelineOthers ==
  ASSUME LogTypes, TimelineHolds, NEW i \in Workers, pc[i] # "idle",
         UNCHANGED <<overlapped, mixed>>,
         EndRequest(i) \/ (At(i, "again") /\ req' = req /\ req[i].id = 0),
         \A s \in Plain \ {req[i].named} : announced'[s] = announced[s] /\ LogsOf(s)' = LogsOf(s),
         \A n \in DOMAIN log : \/ log'[n].shipment = log[n].shipment
                               \/ /\ log[n].shipment \in mixed \cup {NoShipment}
                                  /\ log'[n].shipment \in mixed
  PROVE  \A k \in Workers : (pc'[k] # "idle" => Own(req[k])') /\ OnlyOne(k)'
<1>1. /\ \A k \in Workers \ {i} : req'[k] = req[k] /\ pc'[k] = pc[k]
      /\ pc'[i] = "idle" \/ (pc'[i] = "again" /\ req'[i] = req[i] /\ req[i].id = 0)
  BY DEF LogTypes, ServiceTypeOK, At, EndRequest
<1>2. Plain' = Plain
  BY DEF Plain
<1>3. \A s : Naming(s)' \subseteq Naming(s)
  BY <1>1 DEF Naming
<1>4. ASSUME NEW k \in Workers, pc'[k] # "idle"
      PROVE  Own(req[k])'
  <2>1. CASE k = i
    BY <1>1, <1>4, <2>1 DEF Own
  <2>2. CASE k # i
    <3>1. Own(req[k]) /\ req'[k] = req[k]
      BY <1>1, <1>4, <2>2 DEF TimelineHolds
    <3>2. req[k].id # 0 => req[k].id \in DOMAIN log
      BY LogFacts DEF IsLoaded
    <3> QED
      BY <3>1, <3>2 DEF Own
  <2> QED
    BY <2>1, <2>2
<1>5. ASSUME NEW k \in Workers
      PROVE  OnlyOne(k)'
  <2> SUFFICES ASSUME pc'[k] # "idle", req'[k].named \in Plain
               PROVE  OnlyOne(k)'
    BY <1>2 DEF OnlyOne
  <2>1. PICK s : s = req[k].named
    OBVIOUS
  <2>2. pc[k] # "idle" /\ req'[k] = req[k] /\ s \in Plain
    BY <1>1, <2>1
  <2>3. Naming(s) \subseteq {k} /\ (pc[k] = "found" => Untold(req[k]))
    BY <2>1, <2>2 DEF TimelineHolds, OnlyOne
  <2>4. Naming(req[k].named)' = Naming(s)'
    BY <2>1, <2>2 DEF Naming
  <2>5. pc'[k] = "found" => Untold(req[k])'
    <3>1. CASE k = i
      BY <1>1, <3>1
    <3>2. CASE k # i
      <4>1. s # req[i].named
        BY <2>1, <2>2, <3>2, NobodyElse
      <4>2. announced'[s] = announced[s] /\ LogsOf(s)' = LogsOf(s) /\ pc'[k] = pc[k]
        BY <1>1, <2>2, <3>2, <4>1
      <4>3. LogsOf(req[k].named)' = LogsOf(s)'
        BY <2>1, <2>2 DEF LogsOf
      <4> QED
        BY <2>1, <2>2, <2>3, <4>2, <4>3 DEF Untold
    <3> QED
      BY <3>1, <3>2
  <2> QED
    BY <1>3, <2>3, <2>4, <2>5 DEF OnlyOne
<1> QED
  BY <1>4, <1>5

LEMMA TimelineEnd ==
  ASSUME LogTypes, TimelineHolds, NEW i \in Workers, Ends(i)
  PROVE  TimelineHolds'
<1>1. /\ EndRequest(i) /\ pc[i] # "idle"
      /\ UNCHANGED <<log, announced, repeated, overlapped, mixed>>
  BY DEF Ends, EndRequest
<1>2. (\A s : LogsOf(s)' = LogsOf(s)) /\ Plain' = Plain
  BY <1>1 DEF LogsOf, Plain
<1>3. \A k \in Workers : (pc'[k] # "idle" => Own(req[k])') /\ OnlyOne(k)'
  BY <1>1, <1>2, TimelineOthers
<1>4. OneEach' /\ AnnouncedIsLogged'
  BY <1>1, <1>2 DEF TimelineHolds, OneEach, AnnouncedIsLogged
<1> QED
  BY <1>3, <1>4 DEF TimelineHolds

LEMMA TimelineInsert ==
  ASSUME LogTypes, TimelineHolds, NEW i \in Workers, NEW t \in StartTimes, Inserts(i, t)
  PROVE  TimelineHolds'
<1>1. PICK r, s, e, new : /\ r = req[i] /\ s = r.named /\ e = <<r.phase, "INICIADA">>
                          /\ new = Len(log) + 1
  OBVIOUS
<1>2. /\ DOMAIN log' = (DOMAIN log) \cup {new} /\ new \notin DOMAIN log
      /\ \A n \in DOMAIN log : log'[n] = log[n]
      /\ log'[new].shipment = s /\ log'[new].start[r.phase] # Null
      /\ r.phase \in Phases
  BY <1>1, Inserted DEF IsLoaded
<1>3. /\ pc[i] = "found" /\ r.id = 0 /\ UNCHANGED <<overlapped, mixed>>
      /\ (EndRequest(i) \/ (At(i, "again") /\ req' = req)) /\ Announce(i, "INICIADA")
  BY <1>1 DEF Inserts, InsertLog
<1>4. /\ \A u \in Shipments : /\ announced[u] \subseteq announced'[u]
                              /\ \A x \in announced'[u] : x \in announced[u] \/ (u = s /\ x = e)
      /\ \A u \in repeated' : u \in repeated \/ (u \in Shipments /\ u = s /\ e \in announced[s])
  <2>1. Announces(i, "INICIADA")
    BY AnnounceStep DEF Inserts, InsertLog
  <2> QED
    BY <1>1, <2>1 DEF Announces
<1>5. \A n, u : n \in LogsOf(u)' <=> n \in LogsOf(u) \/ (n = new /\ u = s)
  BY <1>2 DEF LogsOf
<1>6. ASSUME NEW u, u # s
      PROVE  LogsOf(u)' = LogsOf(u)
  <2>1. \A n : n \in LogsOf(u)' <=> n \in LogsOf(u)
    BY <1>5, <1>6
  <2>2. \A S, T : (\A n : n \in S <=> n \in T) => S = T
    OBVIOUS
  <2> QED
    BY <2>1, <2>2
<1>7. Plain' = Plain /\ Plain \subseteq Shipments /\ Plain \subseteq Shipments \ mixed
  BY <1>3 DEF Plain
<1>8. \A k \in Workers : (pc'[k] # "idle" => Own(req[k])') /\ OnlyOne(k)'
  <2>1. ASSUME NEW u \in Plain \ {req[i].named}
        PROVE  announced'[u] = announced[u] /\ LogsOf(u)' = LogsOf(u)
    <3>1. u # s /\ u \in Shipments
      BY <1>1, <1>7
    <3>2. \A x : x \in announced'[u] <=> x \in announced[u]
      BY <1>4, <3>1
    <3>3. \A S, T : (\A n : n \in S <=> n \in T) => S = T
      OBVIOUS
    <3> QED
      BY <1>6, <3>1, <3>2, <3>3
  <2>2. EndRequest(i) \/ (At(i, "again") /\ req' = req /\ req[i].id = 0)
    BY <1>1, <1>3 DEF Inserts
  <2> QED
    BY <1>2, <1>3, <2>1, <2>2, TimelineOthers
<1>9. OneEach'
  <2>1. s \in Plain => LogsOf(s) = {} /\ e \notin announced[s]
    <3>1. s \in Plain => LogsOf(s) = {}
      BY <1>1, <1>3 DEF TimelineHolds, OnlyOne, Untold
    <3>2. s \in Plain /\ e \in announced[s] => LogsOf(s) # {}
      BY <1>1, <1>2, <1>7 DEF TimelineHolds, AnnouncedIsLogged
    <3> QED
      BY <3>1, <3>2
  <2>2. ASSUME NEW u \in Plain
        PROVE  (\A m, n \in LogsOf(u)' : m = n) /\ u \notin repeated'
    <3>1. (\A m, n \in LogsOf(u) : m = n) /\ u \notin repeated
      BY DEF TimelineHolds, OneEach
    <3> QED
      BY <1>4, <1>5, <2>1, <3>1
  <2> QED
    BY <1>7, <2>2 DEF OneEach
<1>10. AnnouncedIsLogged'
  <2>1. ASSUME NEW u \in Shipments \ mixed, NEW p \in Phases
        PROVE  /\ <<p, "INICIADA">> \in announced'[u] => \E n \in LogsOf(u)' : log'[n].start[p] # Null
               /\ <<p, "FINALIZADA">> \in announced'[u] => \E n \in LogsOf(u)' : log'[n].end[p] # Null
    <3>1. /\ <<p, "INICIADA">> \in announced[u] => \E n \in LogsOf(u) : log[n].start[p] # Null
          /\ <<p, "FINALIZADA">> \in announced[u] => \E n \in LogsOf(u) : log[n].end[p] # Null
      BY DEF TimelineHolds, AnnouncedIsLogged
    <3>2. \A n \in LogsOf(u) : n \in LogsOf(u)' /\ log'[n] = log[n]
      BY <1>2, <1>5 DEF LogsOf
    <3>3. /\ <<p, "INICIADA">> \in announced'[u] =>
                 <<p, "INICIADA">> \in announced[u] \/ (u = s /\ p = r.phase)
          /\ <<p, "FINALIZADA">> \in announced'[u] => <<p, "FINALIZADA">> \in announced[u]
      BY <1>1, <1>4
    <3>4. new \in LogsOf(s)' /\ log'[new].start[r.phase] # Null
      BY <1>2, <1>5
    <3> QED
      BY <3>1, <3>2, <3>3, <3>4
  <2> QED
    BY <1>3, <2>1 DEF AnnouncedIsLogged
<1> QED
  BY <1>8, <1>9, <1>10 DEF TimelineHolds

LEMMA TimelineWrite ==
  ASSUME LogTypes, TimelineHolds, NEW i \in Workers, NEW row, Writes(i, row)
  PROVE  TimelineHolds'
<1>1. PICK r, s, id : r = req[i] /\ s = r.named /\ id = r.id
  OBVIOUS
<1>2. /\ id \in DOMAIN log /\ id # 0 /\ r.phase \in Phases /\ pc[i] = "found" /\ r.seen \in Row
      /\ s \in Shipments \cup {NoShipment}
      /\ WrittenAs(log[id], r.seen, row, log'[id], r)
      /\ DOMAIN log' = DOMAIN log /\ \A m \in DOMAIN log \ {id} : log'[m] = log[m]
      /\ EndRequest(i) /\ UNCHANGED <<overlapped, mixed>>
  BY <1>1, RowWritten DEF Writes, EndRequest, IsLoaded
<1>3. PICK action \in {"INICIADA", "FINALIZADA"} :
        /\ Announce(i, action) \/ UNCHANGED <<announced, repeated>>
        /\ \/ UNCHANGED <<announced, repeated>>
           \/ /\ action = "INICIADA" /\ r.seen.start[r.phase] = Null
              /\ log'[id].start[r.phase] # Null
           \/ /\ action = "FINALIZADA" /\ r.seen.end[r.phase] = Null
              /\ log'[id].end[r.phase] # Null
  <2>1. CASE row = r.seen /\ UNCHANGED <<announced, repeated>>
    BY <2>1
  <2>2. CASE Opens(i, row) /\ Announce(i, "INICIADA")
    <3>1. PICK t \in StartTimes : row = [r.seen EXCEPT !.start[r.phase] = t]
      BY <1>1, <2>2 DEF Opens
    <3>2. r.seen.start[r.phase] = Null
      BY <1>1, <2>2 DEF Opens
    <3>3. row.start[r.phase] # Null
      BY <1>2, <3>1, <3>2, StartRow
    <3> QED
      BY <1>2, <2>2, <3>2, <3>3 DEF WrittenAs
  <2>3. CASE Closes(i, row) /\ Announce(i, "FINALIZADA")
    <3>1. PICK t \in EndTimes : MayClose(r.seen, r.phase, t) /\ row = Closed(r.seen, r.phase, t)
      BY <1>1, <2>3 DEF Closes
    <3>2. r.seen.end[r.phase] = Null
      BY <3>1 DEF MayClose
    <3>3. row.end[r.phase] # Null
      BY <1>2, <3>1, ClosedRow
    <3> QED
      BY <1>2, <2>3, <3>2, <3>3 DEF WrittenAs
  <2> QED
    BY <1>1, <2>1, <2>2, <2>3 DEF Writes
<1>4. PICK e : e = <<r.phase, action>>
  OBVIOUS
<1>5. /\ \A u \in Shipments : /\ announced[u] \subseteq announced'[u]
                              /\ \A x \in announced'[u] : x \in announced[u] \/ (u = s /\ x = e)
      /\ \A u \in repeated' : u \in repeated \/ (u \in Shipments /\ u = s /\ e \in announced[s])
  <2>1. Announces(i, action)
    BY <1>3, AnnounceStep
  <2> QED
    BY <1>1, <1>4, <2>1 DEF Announces
<1>6. Plain' = Plain /\ Plain \subseteq Shipments \ mixed /\ NoShipment \notin Shipments
  BY <1>2, ServiceConstants DEF Plain
<1>7. \/ log'[id].shipment = log[id].shipment
      \/ log[id].shipment \in mixed \cup {NoShipment} /\ log'[id].shipment \in mixed
  <2> SUFFICES ASSUME log'[id].shipment # log[id].shipment
               PROVE  log[id].shipment \in mixed \cup {NoShipment} /\ log'[id].shipment \in mixed
    OBVIOUS
  <2>1. r.seen.shipment = NoShipment /\ s # NoShipment /\ log'[id].shipment = s
    BY <1>1, <1>2 DEF WrittenAs
  <2>2. Own(r)
    BY <1>1, <1>2 DEF TimelineHolds
  <2> QED
    BY <1>1, <1>2, <2>1, <2>2 DEF Own
<1>8. ASSUME NEW u \in Shipments \ mixed
      PROVE  LogsOf(u)' = LogsOf(u)
  <2>1. \A n : n \in LogsOf(u)' <=> n \in LogsOf(u)
    BY <1>2, <1>6, <1>7 DEF LogsOf
  <2>2. \A S, T : (\A n : n \in S <=> n \in T) => S = T
    OBVIOUS
  <2> QED
    BY <2>1, <2>2
<1>9. s \in Shipments \ mixed => id \in LogsOf(s)
  <2>1. Own(r)
    BY <1>1, <1>2 DEF TimelineHolds
  <2> QED
    BY <1>1, <1>2, <1>6, <2>1 DEF Own, LogsOf
<1>10. \A k \in Workers : (pc'[k] # "idle" => Own(req[k])') /\ OnlyOne(k)'
  <2>1. ASSUME NEW u \in Plain \ {req[i].named}
        PROVE  announced'[u] = announced[u] /\ LogsOf(u)' = LogsOf(u)
    <3>1. u # s /\ u \in Shipments \ mixed
      BY <1>1, <1>6
    <3>2. \A x : x \in announced'[u] <=> x \in announced[u]
      BY <1>5, <3>1
    <3>3. \A S, T : (\A n : n \in S <=> n \in T) => S = T
      OBVIOUS
    <3> QED
      BY <1>8, <3>1, <3>2, <3>3
  <2>2. \A n \in DOMAIN log : \/ log'[n].shipment = log[n].shipment
                              \/ /\ log[n].shipment \in mixed \cup {NoShipment}
                                 /\ log'[n].shipment \in mixed
    BY <1>2, <1>7
  <2> QED
    BY <1>2, <2>1, <2>2, TimelineOthers
<1>11. OneEach'
  <2>1. s \in Plain => e \notin announced[s] \/ UNCHANGED <<announced, repeated>>
    <3>1. s \in Plain => Untold(r)
      BY <1>1, <1>2 DEF TimelineHolds, OnlyOne
    <3> QED
      BY <1>1, <1>2, <1>3, <1>4, <3>1 DEF Untold
  <2>2. ASSUME NEW u \in Plain
        PROVE  (\A m, n \in LogsOf(u)' : m = n) /\ u \notin repeated'
    <3>1. (\A m, n \in LogsOf(u) : m = n) /\ u \notin repeated
      BY DEF TimelineHolds, OneEach
    <3>2. LogsOf(u)' = LogsOf(u)
      BY <1>6, <1>8
    <3> QED
      BY <1>5, <2>1, <3>1, <3>2
  <2> QED
    BY <1>6, <2>2 DEF OneEach
<1>12. AnnouncedIsLogged'
  <2>1. ASSUME NEW u \in Shipments \ mixed, NEW p \in Phases
        PROVE  /\ <<p, "INICIADA">> \in announced'[u] => \E n \in LogsOf(u)' : log'[n].start[p] # Null
               /\ <<p, "FINALIZADA">> \in announced'[u] => \E n \in LogsOf(u)' : log'[n].end[p] # Null
    <3>1. /\ <<p, "INICIADA">> \in announced[u] => \E n \in LogsOf(u) : log[n].start[p] # Null
          /\ <<p, "FINALIZADA">> \in announced[u] => \E n \in LogsOf(u) : log[n].end[p] # Null
      BY DEF TimelineHolds, AnnouncedIsLogged
    <3>2. /\ LogsOf(u)' = LogsOf(u)
          /\ \A n \in LogsOf(u) : /\ log[n].start[p] # Null => log'[n].start[p] # Null
                                  /\ log[n].end[p] # Null => log'[n].end[p] # Null
      BY <1>2, <1>8 DEF LogsOf, WrittenAs
    <3>3. /\ <<p, "INICIADA">> \in announced'[u] =>
                 \/ <<p, "INICIADA">> \in announced[u]
                 \/ u = s /\ log'[id].start[p] # Null
          /\ <<p, "FINALIZADA">> \in announced'[u] =>
                 \/ <<p, "FINALIZADA">> \in announced[u]
                 \/ u = s /\ log'[id].end[p] # Null
      BY <1>3, <1>4, <1>5
    <3> QED
      BY <1>9, <3>1, <3>2, <3>3
  <2> QED
    BY <1>2, <2>1 DEF AnnouncedIsLogged
<1> QED
  BY <1>10, <1>11, <1>12 DEF TimelineHolds

LEMMA TimelineStep == LogTypes /\ TimelineHolds /\ [ServiceNext]_serviceVars => TimelineHolds'
<1> SUFFICES ASSUME LogTypes, TimelineHolds, [ServiceNext]_serviceVars
             PROVE  TimelineHolds'
  OBVIOUS
<1>1. CASE UNCHANGED serviceVars
  BY <1>1 DEF serviceVars, TimelineHolds, Own, OnlyOne, Naming, Untold, LogsOf, Plain, OneEach,
              AnnouncedIsLogged
<1> QED
  BY <1>1, TimelineFind, TimelineEnd, TimelineInsert, TimelineWrite, ServiceSteps

LEMMA TimelineSuffices == LogTypes /\ TimelineHolds => TimelineHasItsLog
<1> SUFFICES ASSUME LogTypes, TimelineHolds
             PROVE  TimelineHasItsLog
  OBVIOUS
<1>1. ASSUME NEW s \in Shipments \ (overlapped \cup mixed)
      PROVE  Cardinality(LogsOf(s)) <= 1 /\ s \notin repeated
  <2>1. (\A m, n \in LogsOf(s) : m = n) /\ s \notin repeated
    BY DEF TimelineHolds, OneEach, Plain
  <2>2. CASE LogsOf(s) = {}
    BY <2>1, <2>2, FS_EmptySet
  <2>3. CASE LogsOf(s) # {}
    <3>1. PICK n : LogsOf(s) = {n}
      BY <2>1, <2>3
    <3> QED
      BY <2>1, <3>1, FS_Singleton
  <2> QED
    BY <2>2, <2>3
<1> QED
  BY <1>1 DEF TimelineHasItsLog, OneLogEach, TimelineHolds

\* The timeline of a shipment announces no phase that is in no log of it, as
\* long as no request names it beside the log of another one; and if moreover
\* no two requests name it at once, it has one log and no event twice
\* (start_service_phase, finish_service_phase, _append_shipment_phase_event).
THEOREM TimelineHasItsLogAlways == ServiceSpec => []TimelineHasItsLog
<1>1. ServiceInit => LogTypes /\ TimelineHolds
  BY TypesInitially, TimelineInitially
<1>2. LogTypes /\ TimelineHolds /\ [ServiceNext]_serviceVars => LogTypes' /\ TimelineHolds'
  BY TypesStep, TimelineStep
<1> QED
  BY <1>1, <1>2, TimelineSuffices, PTL DEF ServiceSpec
-------------------------------------------------------------------------------
(***************************************************************************)
(* What holds of LoadingOrder for any number of threads, orders, packages  *)
(* and rows: the times of an order whose requests never overlap.           *)
(***************************************************************************)

\* As long as no two requests are busy with an order at once, the one that is
\* has the rows of the order as they are in the table.
OrderCurrent(i) ==
  LET j == job[i] IN
  at[i] # "idle" /\ j.seen.order \notin shared =>
    /\ rows[j.row] = j.seen /\ j.seen.end = NotYet
    /\ \A k \in BusyWith(j.seen.order) : k = i
    /\ at[i] = "next" /\ j.next # 0 =>
         /\ rows[j.next] = j.seenNext /\ j.seenNext.order = j.seen.order
         /\ j.seenNext.number = j.seen.number + 1

\* Rows stay in their order, whatever is written to them.
Rooted(i) ==
  at[i] # "idle" =>
    /\ rows[job[i].row].order = job[i].seen.order
    /\ job[i].next # 0 => rows[job[i].next].order = job[i].seen.order

\* What the request is about to write.
Ready(i) ==
  LET j == job[i] IN
  at[i] = "next" =>
    /\ j.fin \in OrderTimes /\ j.seen.start <= j.fin
    /\ j.next = 0 /\ j.seen.order \notin shared \cup restarted =>
         \A n \in RowsOf(j.seen.order) : rows[n].number # j.seen.number + 1

\* An order that was started once has one package of each number.
Distinct ==
  \A o \in Orders \ restarted : \A m, n \in RowsOf(o) : rows[m].number = rows[n].number => m = n

OrderFields == {"row", "next", "fin", "seen", "seenNext"}
IsJob(j) == j = [f \in OrderFields |-> j[f]]

JobsOK ==
  \A i \in Loaders :
    /\ at[i] # "idle" => job[i].row \in DOMAIN rows /\ job[i].seen \in PackageRow
    /\ job[i].next \in 0..Len(rows)
    /\ job[i].next # 0 => job[i].seenNext \in PackageRow

Types ==
  /\ rows \in Seq(PackageRow) /\ Len(rows) <= MaxRows
  /\ at \in [Loaders -> {"idle", "found", "next"}]
  /\ job = [i \in Loaders |-> job[i]]
  /\ \A i \in Loaders : IsJob(job[i])
  /\ restarted \cup shared \subseteq Orders
  /\ JobsOK

OInv ==
  /\ Types
  /\ \A i \in Loaders : Rooted(i) /\ OrderCurrent(i) /\ Ready(i)
  /\ Distinct
  /\ LoadingTimesAreTrue
  /\ OpenFollowsFinished
-------------------------------------------------------------------------------
LEMMA TimesAreIntegers == \A t \in OrderTimes : t \in Int
  BY OrderConstants

LEMMA OrderInitially == OrderInit => OInv
<1> SUFFICES ASSUME OrderInit
             PROVE  OInv
  OBVIOUS
<1>1. rows = <<>> /\ rows \in Seq(PackageRow) /\ Len(rows) = 0 /\ DOMAIN rows = {}
  BY DEF OrderInit
<1>2. Types
  BY <1>1, OrderConstants DEF OrderInit, Types, JobsOK, NoJob, IsJob, OrderFields
<1>3. \A i \in Loaders : Rooted(i) /\ OrderCurrent(i) /\ Ready(i)
  BY DEF OrderInit, Rooted, OrderCurrent, Ready
<1>4. Distinct /\ LoadingTimesAreTrue /\ OpenFollowsFinished
  BY <1>1 DEF Distinct, LoadingTimesAreTrue, OpenFollowsFinished, RowsOf
<1> QED
  BY <1>2, <1>3, <1>4 DEF OInv

\* The rows that a start adds are behind the others.
LEMMA Appended ==
  ASSUME Types, NEW o \in Orders, NEW t \in OrderTimes,
         NEW packages \in Seq(Packages), Len(packages) <= MaxPackages,
         StartOrder(o, packages, t)
  PROVE  /\ rows' \in Seq(PackageRow) /\ Len(rows') <= MaxRows /\ Len(rows') >= Len(rows)
         /\ \A n \in DOMAIN rows : n \in DOMAIN rows' /\ rows'[n] = rows[n]
         /\ \A n \in DOMAIN rows' \ DOMAIN rows :
              /\ rows'[n].order = o /\ rows'[n].end = NotYet /\ rows'[n].number = n - Len(rows)
<1> DEFINE new == NewRows(o, packages, t)
<1>1. Len(packages) \in Nat /\ DOMAIN packages = 1..Len(packages)
  OBVIOUS
<1>2. \A k \in DOMAIN packages : new[k] \in PackageRow /\ new[k].order = o /\ new[k].end = NotYet /\ new[k].number = k
  BY <1>1, OrderConstants DEF NewRows, PackageRow
<1>3. new \in Seq(PackageRow) /\ Len(new) = Len(packages)
  <2>1. new = [k \in 1..Len(packages) |-> new[k]]
    BY <1>1 DEF NewRows
  <2> HIDE DEF new
  <2>2. \A k \in 1..Len(packages) : new[k] \in PackageRow
    BY <1>1, <1>2
  <2> QED
    BY <1>1, <2>1, <2>2, IsASeq
<1>4. rows \in Seq(PackageRow) /\ rows' = rows \o new /\ Len(rows) + Len(packages) <= MaxRows
  BY DEF StartOrder, Types
<1> HIDE DEF new
<1>5. /\ rows' \in Seq(PackageRow) /\ Len(rows') = Len(rows) + Len(new)
      /\ \A n \in 1..(Len(rows) + Len(new)) :
           rows'[n] = IF n <= Len(rows) THEN rows[n] ELSE new[n - Len(rows)]
  BY <1>3, <1>4, ConcatProperties
<1>6. DOMAIN rows = 1..Len(rows) /\ DOMAIN rows' = 1..Len(rows') /\ Len(rows) \in Nat /\ Len(new) \in Nat
  BY <1>3, <1>4, <1>5
<1>7. ASSUME NEW n \in DOMAIN rows' \ DOMAIN rows
      PROVE  rows'[n].order = o /\ rows'[n].end = NotYet /\ rows'[n].number = n - Len(rows)
  <2>1. n - Len(rows) \in DOMAIN packages /\ rows'[n] = new[n - Len(rows)]
    BY <1>1, <1>3, <1>5, <1>6
  <2> QED
    BY <1>2, <2>1
<1>8. \A n \in DOMAIN rows : n \in DOMAIN rows' /\ rows'[n] = rows[n]
  BY <1>5, <1>6
<1> QED
  BY <1>1, <1>3, <1>4, <1>5, <1>6, <1>7, <1>8

LEMMA StartStep ==
  ASSUME OInv, NEW o \in Orders, NEW t \in OrderTimes,
         NEW packages \in Seq(Packages), Len(packages) <= MaxPackages,
         StartOrder(o, packages, t)
  PROVE  OInv'
<1>1. /\ rows' \in Seq(PackageRow) /\ Len(rows') <= MaxRows /\ Len(rows') >= Len(rows)
      /\ \A n \in DOMAIN rows : n \in DOMAIN rows' /\ rows'[n] = rows[n]
      /\ \A n \in DOMAIN rows' \ DOMAIN rows :
           /\ rows'[n].order = o /\ rows'[n].end = NotYet /\ rows'[n].number = n - Len(rows)
  BY Appended DEF OInv
<1>2. UNCHANGED <<at, job, shared>> /\ restarted' = IF RowsOf(o) = {} THEN restarted ELSE restarted \cup {o}
  BY DEF StartOrder
<1>3. DOMAIN rows = 1..Len(rows) /\ DOMAIN rows' = 1..Len(rows') /\ Len(rows) \in Nat /\ Len(rows') \in Nat
  BY <1>1 DEF OInv, Types
<1>4. Types'
  BY <1>1, <1>2, <1>3 DEF OInv, Types, JobsOK
\* An order that is not restarted now has only old rows or only new ones.
<1>5. \A p \in Orders \ restarted' : RowsOf(p)' = RowsOf(p) \/ (p = o /\ RowsOf(p) = {})
  <2>1. ASSUME NEW p \in Orders \ restarted', p # o
        PROVE  RowsOf(p)' = RowsOf(p)
    BY <1>1, <2>1 DEF RowsOf
  <2>2. ASSUME o \notin restarted'
        PROVE  RowsOf(o) = {}
    BY <1>2, <2>2
  <2> QED
    BY <2>1, <2>2
<1>6. \A p \in Orders \ restarted' : RowsOf(p) = {} => \A n \in RowsOf(p)' : n \notin DOMAIN rows
  BY <1>1 DEF RowsOf
<1>7. restarted \subseteq restarted'
  BY <1>2
<1>8. ASSUME NEW i \in Loaders
      PROVE  Rooted(i)' /\ OrderCurrent(i)' /\ Ready(i)'
  <2>1. OrderCurrent(i)'
    BY <1>1, <1>2, <1>3 DEF OInv, Types, JobsOK, OrderCurrent, BusyWith
  <2>2. Rooted(i)'
    BY <1>1, <1>2, <1>3 DEF OInv, Types, JobsOK, Rooted
  <2>3. Ready(i)'
    <3> SUFFICES ASSUME at[i] = "next"
                 PROVE  Ready(i)'
      BY <1>2 DEF Ready
    <3> DEFINE j == job[i]
               p == j.seen.order
    <3>1. j' = j /\ p' = p /\ p \in Orders /\ j.row \in DOMAIN rows
      BY <1>2 DEF OInv, Types, JobsOK, PackageRow
    <3>2. j.fin \in OrderTimes /\ j.seen.start <= j.fin
      BY DEF OInv, Ready
    <3>3. ASSUME j.next = 0, p \notin shared' \cup restarted'
          PROVE  \A n \in RowsOf(p)' : rows'[n].number # j.seen.number + 1
      <4>1. j.row \in RowsOf(p)
        BY <1>2, <3>1, <3>3 DEF RowsOf, OInv, OrderCurrent
      <4>2. RowsOf(p)' = RowsOf(p)
        BY <1>5, <3>1, <3>3, <4>1
      <4>3. \A n \in RowsOf(p) : rows[n].number # j.seen.number + 1
        BY <1>2, <1>7, <3>3 DEF OInv, Ready
      <4> QED
        BY <1>1, <4>2, <4>3 DEF RowsOf
    <3> QED
      BY <1>2, <3>1, <3>2, <3>3 DEF Ready
  <2> QED
    BY <2>1, <2>3, <2>2
<1>9. Distinct'
  <2>1. ASSUME NEW p \in Orders \ restarted', NEW m \in RowsOf(p)', NEW n \in RowsOf(p)',
               rows'[m].number = rows'[n].number
        PROVE  m = n
    <3>1. CASE RowsOf(p)' = RowsOf(p)
      BY <1>1, <1>7, <2>1, <3>1 DEF OInv, Distinct, RowsOf
    <3>2. CASE RowsOf(p) = {}
      <4>1. m \in DOMAIN rows' \ DOMAIN rows /\ n \in DOMAIN rows' \ DOMAIN rows
        BY <1>6, <3>2 DEF RowsOf
      <4>2. m - Len(rows) = n - Len(rows)
        BY <1>1, <2>1, <4>1
      <4> QED
        BY <1>3, <4>1, <4>2
    <3> QED
      BY <1>5, <3>1, <3>2
  <2> QED
    BY <2>1 DEF Distinct
<1>10. LoadingTimesAreTrue'
  BY <1>1, <1>2 DEF OInv, LoadingTimesAreTrue, Unshared, RowsOf, Finished
<1>11. OpenFollowsFinished'
  <2>1. ASSUME NEW p \in (Unshared \ restarted)', NEW m \in RowsOf(p)', NEW n \in RowsOf(p)',
               Finished(m)', ~Finished(n)', rows'[n].number = rows'[m].number + 1
        PROVE  rows'[n].start = rows'[m].end
    <3>1. m \in DOMAIN rows /\ m \in RowsOf(p)
      BY <1>1, <2>1 DEF RowsOf, Finished
    <3>2. RowsOf(p)' = RowsOf(p)
      BY <1>5, <3>1 DEF Unshared
    <3>3. n \in RowsOf(p) /\ n \in DOMAIN rows
      BY <3>2 DEF RowsOf
    <3> QED
      BY <1>1, <1>2, <1>7, <2>1, <3>1, <3>3 DEF OInv, OpenFollowsFinished, Unshared, Finished
  <2> QED
    BY <2>1 DEF OpenFollowsFinished
<1> QED
  BY <1>4, <1>8, <1>9, <1>10, <1>11 DEF OInv

LEMMA FindPackageStep ==
  ASSUME OInv, NEW i \in Loaders, NEW n \in DOMAIN rows, FindPackage(i, n)
  PROVE  OInv'
<1> DEFINE j == [NoJob EXCEPT !.row = n, !.seen = rows[n]]
<1>1. /\ at[i] = "idle" /\ rows[n].end = NotYet
      /\ at' = [at EXCEPT ![i] = "found"] /\ job' = [job EXCEPT ![i] = j]
      /\ shared' = IF BusyWith(rows[n].order) = {} THEN shared ELSE shared \cup {rows[n].order}
      /\ UNCHANGED <<rows, restarted>>
  BY DEF FindPackage
<1>2. j.row = n /\ j.seen = rows[n] /\ j.next = 0 /\ IsJob(j)
  <2>1. IsJob(NoJob) /\ NoJob.next = 0
    BY DEF IsJob, NoJob, OrderFields
  <2>2. IsJob(j) /\ j.row = n /\ j.seen = rows[n] /\ j.next = NoJob.next
    BY <2>1 DEF IsJob, OrderFields
  <2> QED
    BY <2>1, <2>2
<1>3. rows[n] \in PackageRow /\ rows[n].order \in Orders /\ Len(rows) \in Nat
  <2>1. rows \in Seq(PackageRow)
    BY DEF OInv, Types
  <2>2. rows[n] \in PackageRow /\ Len(rows) \in Nat
    BY <2>1
  <2> QED
    BY <2>2 DEF PackageRow
<1> HIDE DEF j
<1>4. /\ at'[i] = "found" /\ job'[i] = j
      /\ \A k \in Loaders \ {i} : at'[k] = at[k] /\ job'[k] = job[k]
  BY <1>1 DEF OInv, Types
<1>5. JobsOK'
  BY <1>1, <1>2, <1>3, <1>4 DEF OInv, Types, JobsOK
<1>6. Types'
  <2>1. job' = [k \in Loaders |-> job'[k]] /\ at' \in [Loaders -> {"idle", "found", "next"}]
    BY <1>1 DEF OInv, Types
  <2> QED
    BY <1>1, <1>2, <1>3, <1>4, <1>5, <2>1 DEF OInv, Types
<1>7. ASSUME NEW k \in Loaders
      PROVE  Rooted(k)' /\ OrderCurrent(k)' /\ Ready(k)'
  <2>1. CASE k = i
    <3>1. ASSUME rows[n].order \notin shared'
          PROVE  \A l \in BusyWith(rows[n].order)' : l = i
      <4>1. BusyWith(rows[n].order) = {}
        BY <1>1, <3>1
      <4> QED
        BY <1>1, <1>4, <4>1 DEF BusyWith
    <3> QED
      BY <1>1, <1>2, <1>4, <2>1, <3>1 DEF Rooted, OrderCurrent, Ready, BusyWith
  <2>2. CASE k # i
    <3>1. at'[k] = at[k] /\ job'[k] = job[k]
      BY <1>4, <2>2
    <3>2. Ready(k)'
      BY <1>1, <3>1 DEF OInv, Ready, RowsOf
    <3>3. ASSUME at[k] # "idle", job[k].seen.order \notin shared'
          PROVE  \A l \in BusyWith(job[k].seen.order)' : l = k
      <4>1. rows[n].order # job[k].seen.order
        <5>1. ASSUME rows[n].order = job[k].seen.order
              PROVE  FALSE
          <6>1. k \in BusyWith(rows[n].order)
            BY <3>3, <5>1 DEF BusyWith
          <6> QED
            BY <1>1, <3>3, <5>1, <6>1
        <5> QED
          BY <5>1
      <4>2. job[k].seen.order \notin shared
        BY <1>1, <3>3
      <4> QED
        BY <1>2, <1>4, <3>1, <3>3, <4>1, <4>2 DEF OInv, OrderCurrent, BusyWith
    <3>4. Rooted(k)' /\ OrderCurrent(k)'
      BY <1>1, <3>1, <3>3 DEF OInv, Rooted, OrderCurrent
    <3> QED
      BY <3>2, <3>4
  <2> QED
    BY <2>1, <2>2
<1>8. Distinct' /\ LoadingTimesAreTrue' /\ OpenFollowsFinished'
  BY <1>1 DEF OInv, Distinct, LoadingTimesAreTrue, OpenFollowsFinished, RowsOf, Finished, Unshared
<1> QED
  BY <1>6, <1>7, <1>8 DEF OInv

LEMMA FindNextStep ==
  ASSUME OInv, NEW i \in Loaders, NEW t \in OrderTimes, FindNext(i, t)
  PROVE  OInv'
<1> DEFINE seen == job[i].seen
           found(m) == IF m = 0 THEN <<>> ELSE rows[m]
<1>1. /\ at[i] = "found" /\ seen.start <= t
      /\ at' = [at EXCEPT ![i] = "next"] /\ UNCHANGED <<rows, restarted, shared>>
  BY DEF FindNext, EndAllowed
<1>2. PICK m : /\ m \in (IF NextRows(seen) = {} THEN {0} ELSE NextRows(seen))
               /\ job' = [job EXCEPT ![i].fin = t, ![i].next = m, ![i].seenNext = found(m)]
  BY DEF FindNext
<1>3. /\ job'[i].row = job[i].row /\ job'[i].seen = seen /\ IsJob(job'[i])
      /\ job'[i].fin = t /\ job'[i].next = m /\ job'[i].seenNext = found(m)
  <2> HIDE DEF found
  <2>1. IsJob(job[i]) /\ i \in DOMAIN job
    BY DEF OInv, Types
  <2>2. job'[i] = [job[i] EXCEPT !.fin = t, !.next = m, !.seenNext = found(m)]
    BY <1>2, <2>1
  <2> QED
    BY <2>1, <2>2 DEF IsJob, OrderFields
<1>4. /\ at'[i] = "next"
      /\ \A k \in Loaders \ {i} : at'[k] = at[k] /\ job'[k] = job[k]
      /\ job' = [k \in Loaders |-> job'[k]] /\ at' \in [Loaders -> {"idle", "found", "next"}]
  BY <1>1, <1>2 DEF OInv, Types
<1>5. m = 0 => NextRows(seen) = {}
  BY <1>2 DEF NextRows, OInv, Types
<1>6. m # 0 => m \in DOMAIN rows /\ rows[m].order = seen.order /\ rows[m].number = seen.number + 1
  BY <1>2 DEF NextRows, NextNumber
<1>7. DOMAIN rows = 1..Len(rows) /\ Len(rows) \in Nat /\ \A n \in DOMAIN rows : rows[n] \in PackageRow
  BY DEF OInv, Types
<1>8. JobsOK'
  <2>1. job'[i].next \in 0..Len(rows)
    BY <1>3, <1>6, <1>7
  <2>2. job'[i].next # 0 => job'[i].seenNext \in PackageRow
    BY <1>3, <1>6, <1>7
  <2> QED
    BY <1>1, <1>3, <1>4, <2>1, <2>2 DEF OInv, Types, JobsOK
<1>9. Types'
  BY <1>1, <1>3, <1>4, <1>8 DEF OInv, Types
<1>10. ASSUME NEW o
       PROVE  BusyWith(o)' = BusyWith(o)
  BY <1>1, <1>3, <1>4 DEF BusyWith
<1>11. ASSUME NEW k \in Loaders
       PROVE  Rooted(k)' /\ OrderCurrent(k)' /\ Ready(k)'
  <2>1. CASE k = i
    <3>1. OrderCurrent(i)'
      BY <1>1, <1>3, <1>4, <1>6, <1>10 DEF OInv, OrderCurrent
    <3>2. m = 0 => \A n \in RowsOf(seen.order) : rows[n].number # seen.number + 1
      BY <1>5 DEF NextRows, NextNumber, RowsOf
    <3>3. Ready(i)'
      BY <1>1, <1>3, <1>4, <3>2 DEF Ready, RowsOf
    <3>4. Rooted(i)'
      BY <1>1, <1>3, <1>4, <1>6 DEF OInv, Rooted
    <3> QED
      BY <2>1, <3>1, <3>3, <3>4
  <2>2. CASE k # i
    <3>1. at'[k] = at[k] /\ job'[k] = job[k] /\ Rooted(k) /\ OrderCurrent(k) /\ Ready(k)
      BY <1>4, <2>2 DEF OInv
    <3>2. OrderCurrent(k)'
      BY <1>1, <1>10, <3>1 DEF OrderCurrent
    <3>3. Rooted(k)' /\ Ready(k)'
      BY <1>1, <3>1 DEF Rooted, Ready, RowsOf
    <3> QED
      BY <3>2, <3>3
  <2> QED
    BY <2>1, <2>2
<1>12. Distinct' /\ LoadingTimesAreTrue' /\ OpenFollowsFinished'
  BY <1>1 DEF OInv, Distinct, LoadingTimesAreTrue, OpenFollowsFinished, RowsOf, Finished, Unshared
<1> QED
  BY <1>9, <1>11, <1>12 DEF OInv

\* The end of a request leaves those of the other threads.
LEMMA EndedJob ==
  ASSUME OInv, NEW i \in Loaders, EndJob(i)
  PROVE  /\ UNCHANGED <<restarted, shared>> /\ at'[i] = "idle" /\ job'[i] = NoJob
         /\ \A k \in Loaders \ {i} : at'[k] = at[k] /\ job'[k] = job[k]
         /\ job' = [k \in Loaders |-> job'[k]] /\ at' \in [Loaders -> {"idle", "found", "next"}]
         /\ \A k \in Loaders : IsJob(job'[k])
         /\ \A o : BusyWith(o)' = BusyWith(o) \ {i}
<1>1. /\ UNCHANGED <<restarted, shared>>
      /\ at' = [at EXCEPT ![i] = "idle"] /\ job' = [job EXCEPT ![i] = NoJob]
  BY DEF EndJob
<1>2. /\ at'[i] = "idle" /\ job'[i] = NoJob
      /\ \A k \in Loaders \ {i} : at'[k] = at[k] /\ job'[k] = job[k]
      /\ job' = [k \in Loaders |-> job'[k]] /\ at' \in [Loaders -> {"idle", "found", "next"}]
  BY <1>1 DEF OInv, Types
<1>3. IsJob(NoJob)
  BY DEF IsJob, NoJob, OrderFields
<1>4. \A k \in Loaders : IsJob(job'[k])
  BY <1>2, <1>3 DEF OInv, Types
<1>5. \A o : BusyWith(o)' = BusyWith(o) \ {i}
  BY <1>2 DEF BusyWith
<1> QED
  BY <1>1, <1>2, <1>4, <1>5

LEMMA EndWithoutUpdateStep ==
  ASSUME OInv, NEW i \in Loaders, EndWithoutUpdate(i)
  PROVE  OInv'
<1>1. /\ UNCHANGED <<rows, restarted, shared>> /\ at'[i] = "idle" /\ job'[i] = NoJob
      /\ \A k \in Loaders \ {i} : at'[k] = at[k] /\ job'[k] = job[k]
      /\ job' = [k \in Loaders |-> job'[k]] /\ at' \in [Loaders -> {"idle", "found", "next"}]
      /\ \A k \in Loaders : IsJob(job'[k])
      /\ \A o : BusyWith(o)' = BusyWith(o) \ {i}
  BY EndedJob DEF EndWithoutUpdate
<1>2. NoJob.next = 0 /\ Len(rows) \in Nat
  BY DEF NoJob, OInv, Types
<1>3. JobsOK'
  BY <1>1, <1>2 DEF OInv, Types, JobsOK
<1>4. Types'
  BY <1>1, <1>3 DEF OInv, Types
<1>5. \A k \in Loaders : Rooted(k)' /\ OrderCurrent(k)' /\ Ready(k)'
  BY <1>1 DEF OInv, Rooted, OrderCurrent, Ready, RowsOf
<1>6. Distinct' /\ LoadingTimesAreTrue' /\ OpenFollowsFinished'
  BY <1>1 DEF OInv, Distinct, LoadingTimesAreTrue, OpenFollowsFinished, RowsOf, Finished, Unshared
<1> QED
  BY <1>4, <1>5, <1>6 DEF OInv

\* What the two UPDATEs leave in the table.
LEMMA Written ==
  ASSUME OInv, NEW i \in Loaders, FinishPackage(i)
  PROVE  LET j == job[i] IN
         /\ rows' \in Seq(PackageRow) /\ Len(rows') = Len(rows) /\ DOMAIN rows' = DOMAIN rows
         /\ \A n \in DOMAIN rows :
              /\ rows'[n].order = rows[n].order /\ rows'[n].number = rows[n].number
              /\ rows'[n].end = IF n = j.row THEN j.fin ELSE rows[n].end
              /\ rows'[n].took = IF n = j.row THEN j.fin - j.seen.start ELSE rows[n].took
              /\ rows'[n].start = IF NextStarts(j) /\ n = j.next THEN j.fin ELSE rows[n].start
              /\ n # j.row /\ ~(NextStarts(j) /\ n = j.next) => rows'[n] = rows[n]
<1> DEFINE j == job[i]
           done == [rows EXCEPT ![j.row].end = j.fin, ![j.row].took = j.fin - j.seen.start]
<1>1. /\ j.row \in DOMAIN rows /\ j.seen \in PackageRow /\ j.next \in 0..Len(rows)
      /\ j.fin \in OrderTimes
  BY DEF OInv, Types, JobsOK, Ready, FinishPackage
<1>2. rows \in Seq(PackageRow) /\ Len(rows) \in Nat /\ DOMAIN rows = 1..Len(rows)
  BY DEF OInv, Types
<1>3. rows' = IF NextStarts(j) THEN [done EXCEPT ![j.next].start = j.fin] ELSE done
  BY DEF FinishPackage
<1>4. NextStarts(j) => j.next \in DOMAIN rows
  BY <1>1, <1>2 DEF NextStarts
<1>5. j.fin - j.seen.start \in Int
  <2>1. j.seen.start \in OrderTimes
    BY <1>1 DEF PackageRow
  <2>2. j.seen.start \in Nat /\ j.fin \in Nat
    BY <1>1, <2>1, OrderConstants
  <2> QED
    BY <2>2
<1> DEFINE took == j.fin - j.seen.start
<1> HIDE DEF took
<1>6. DOMAIN rows' = DOMAIN rows /\ rows' = [n \in 1..Len(rows) |-> rows'[n]]
  BY <1>2, <1>3
<1>7. ASSUME NEW n \in DOMAIN rows
      PROVE  /\ rows'[n] \in PackageRow
             /\ rows'[n].order = rows[n].order /\ rows'[n].number = rows[n].number
             /\ rows'[n].end = IF n = j.row THEN j.fin ELSE rows[n].end
             /\ rows'[n].took = IF n = j.row THEN took ELSE rows[n].took
             /\ rows'[n].start = IF NextStarts(j) /\ n = j.next THEN j.fin ELSE rows[n].start
             /\ n # j.row /\ ~(NextStarts(j) /\ n = j.next) => rows'[n] = rows[n]
  <2>1. rows[n] \in PackageRow
    BY <1>2
  <2>2. done[n] = IF n = j.row THEN [rows[n] EXCEPT !.end = j.fin, !.took = took] ELSE rows[n]
    BY <1>1 DEF took
  <2>3. DOMAIN done = DOMAIN rows
    OBVIOUS
  <2> HIDE DEF done
  <2>4. /\ done[n] \in PackageRow
        /\ done[n].order = rows[n].order /\ done[n].number = rows[n].number
        /\ done[n].end = IF n = j.row THEN j.fin ELSE rows[n].end
        /\ done[n].took = IF n = j.row THEN took ELSE rows[n].took
        /\ done[n].start = rows[n].start
        /\ n # j.row => done[n] = rows[n]
    BY <1>1, <1>5, <2>1, <2>2 DEF PackageRow, took
  <2>5. rows'[n] = IF NextStarts(j) /\ n = j.next THEN [done[n] EXCEPT !.start = j.fin] ELSE done[n]
    BY <1>3, <1>4, <2>3
  <2> QED
    BY <1>1, <2>4, <2>5 DEF PackageRow
<1>8. rows' \in Seq(PackageRow) /\ Len(rows') = Len(rows)
  <2>1. \A n \in 1..Len(rows) : rows'[n] \in PackageRow
    BY <1>2, <1>7
  <2> QED
    BY <1>2, <1>6, <2>1, IsASeq
<1> QED
  BY <1>6, <1>7, <1>8 DEF took

LEMMA FinishPackageStep ==
  ASSUME OInv, NEW i \in Loaders, FinishPackage(i)
  PROVE  OInv'
<1> DEFINE j == job[i]
           o == j.seen.order
<1>1. /\ rows' \in Seq(PackageRow) /\ Len(rows') = Len(rows) /\ DOMAIN rows' = DOMAIN rows
      /\ \A n \in DOMAIN rows :
           /\ rows'[n].order = rows[n].order /\ rows'[n].number = rows[n].number
           /\ rows'[n].end = IF n = j.row THEN j.fin ELSE rows[n].end
           /\ rows'[n].took = IF n = j.row THEN j.fin - j.seen.start ELSE rows[n].took
           /\ rows'[n].start = IF NextStarts(j) /\ n = j.next THEN j.fin ELSE rows[n].start
           /\ n # j.row /\ ~(NextStarts(j) /\ n = j.next) => rows'[n] = rows[n]
  BY Written
<1>2. /\ UNCHANGED <<restarted, shared>> /\ at'[i] = "idle" /\ job'[i] = NoJob
      /\ \A k \in Loaders \ {i} : at'[k] = at[k] /\ job'[k] = job[k]
      /\ job' = [k \in Loaders |-> job'[k]] /\ at' \in [Loaders -> {"idle", "found", "next"}]
      /\ \A k \in Loaders : IsJob(job'[k])
      /\ \A p : BusyWith(p)' = BusyWith(p) \ {i}
  BY EndedJob DEF FinishPackage
<1>3. at[i] = "next" /\ i \in BusyWith(o)
  BY DEF FinishPackage, BusyWith
<1>4. NoJob.next = 0 /\ Len(rows) \in Nat /\ DOMAIN rows = 1..Len(rows)
  BY DEF NoJob, OInv, Types
<1>5. JobsOK'
  BY <1>1, <1>2, <1>4 DEF OInv, Types, JobsOK
<1>6. Types'
  BY <1>1, <1>2, <1>5 DEF OInv, Types
<1>7. \A p : RowsOf(p)' = RowsOf(p)
  BY <1>1 DEF RowsOf
<1>8. /\ j.row \in DOMAIN rows /\ rows[j.row].order = o /\ j.seen.start <= j.fin
      /\ j.fin \in OrderTimes /\ j.fin # NotYet
      /\ j.next # 0 => j.next \in DOMAIN rows /\ rows[j.next].order = o
  BY <1>3, <1>4, OrderConstants DEF OInv, Types, JobsOK, Rooted, Ready
<1>9. ASSUME o \notin shared
      PROVE  /\ rows[j.row] = j.seen /\ \A k \in BusyWith(o) : k = i
             /\ j.next # 0 => /\ rows[j.next] = j.seenNext
                              /\ rows[j.next].number = rows[j.row].number + 1
                              /\ j.next # j.row
             /\ \A n \in DOMAIN rows : rows[n].number \in Int
             /\ rows[j.row].start \in Int
  <2>1. \A n \in DOMAIN rows : rows[n] \in PackageRow
    BY DEF OInv, Types
  <2>2. ASSUME NEW n \in DOMAIN rows
        PROVE  rows[n].number \in Int /\ rows[n].start \in Int
    <3>1. rows[n].number \in 1..MaxPackages /\ rows[n].start \in OrderTimes
      BY <2>1 DEF PackageRow
    <3>2. rows[n].number \in Int
      BY <3>1, OrderConstants
    <3>3. rows[n].start \in Int
      BY <3>1, TimesAreIntegers
    <3> QED
      BY <3>2, <3>3
  <2>3. OrderCurrent(i)
    BY DEF OInv
  <2>4. /\ rows[j.row] = j.seen /\ \A k \in BusyWith(o) : k = i
        /\ j.next # 0 => rows[j.next] = j.seenNext /\ j.seenNext.number = j.seen.number + 1
    BY <1>3, <1>9, <2>3 DEF OrderCurrent
  <2> QED
    BY <1>8, <2>2, <2>4
<1>10. ASSUME NEW n \in DOMAIN rows, rows[n].order # o
       PROVE  rows'[n] = rows[n]
  BY <1>1, <1>4, <1>8, <1>10
<1>11. ASSUME NEW k \in Loaders
       PROVE  Rooted(k)' /\ OrderCurrent(k)' /\ Ready(k)'
  <2>1. CASE k = i
    BY <1>2, <2>1 DEF Rooted, OrderCurrent, Ready
  <2>2. CASE k # i
    <3>1. at'[k] = at[k] /\ job'[k] = job[k] /\ Rooted(k) /\ OrderCurrent(k) /\ Ready(k)
      BY <1>2, <2>2 DEF OInv
    <3>2. at[k] # "idle" => job[k].row \in DOMAIN rows
      BY DEF OInv, Types, JobsOK
    <3>3. job[k].next # 0 => job[k].next \in DOMAIN rows
      BY <1>4 DEF OInv, Types, JobsOK
    <3>4. Rooted(k)'
      BY <1>1, <3>1, <3>2, <3>3 DEF Rooted
    <3>5. Ready(k)'
      BY <1>1, <1>2, <1>7, <3>1 DEF Ready, RowsOf
    <3>6. OrderCurrent(k)'
      <4> SUFFICES ASSUME at[k] # "idle", job[k].seen.order \notin shared
                   PROVE  OrderCurrent(k)'
        BY <1>2, <3>1 DEF OrderCurrent
      <4>1. k \in BusyWith(job[k].seen.order)
        BY DEF BusyWith
      <4>2. job[k].seen.order # o
        BY <1>9, <2>2, <4>1
      <4>3. rows'[job[k].row] = rows[job[k].row]
        BY <1>10, <3>1, <3>2, <4>2 DEF Rooted
      <4>4. job[k].next # 0 => rows'[job[k].next] = rows[job[k].next]
        BY <1>10, <3>1, <3>3, <4>2 DEF Rooted
      <4>5. BusyWith(job[k].seen.order)' \subseteq BusyWith(job[k].seen.order)
        BY <1>2, <3>1 DEF BusyWith
      <4> QED
        BY <1>2, <3>1, <4>3, <4>4, <4>5 DEF OrderCurrent
    <3> QED
      BY <3>4, <3>5, <3>6
  <2> QED
    BY <2>1, <2>2
<1>12. Distinct'
  BY <1>1, <1>2, <1>7 DEF OInv, Distinct, RowsOf
<1>13. LoadingTimesAreTrue'
  <2>1. ASSUME NEW p \in Unshared', NEW n \in RowsOf(p), Finished(n)'
        PROVE  rows'[n].took = rows'[n].end - rows'[n].start /\ rows'[n].took >= 0
    <3>1. p \in Unshared /\ n \in DOMAIN rows /\ rows[n].order = p
      BY <1>2, <2>1 DEF Unshared, RowsOf
    <3>2. CASE p # o
      BY <1>10, <2>1, <3>1, <3>2 DEF OInv, LoadingTimesAreTrue, Finished
    <3>3. CASE p = o
      <4>1. o \notin shared
        BY <3>1, <3>3 DEF Unshared
      <4>2. CASE n = j.row
        <5>1. ~(NextStarts(j) /\ n = j.next)
          BY <1>9, <4>1, <4>2 DEF NextStarts
        <5>2. /\ rows'[n].took = j.fin - j.seen.start /\ rows'[n].end = j.fin
              /\ rows'[n].start = j.seen.start
          BY <1>1, <1>9, <3>1, <4>1, <4>2, <5>1
        <5>3. j.seen.start \in Int /\ j.fin \in Int /\ j.seen.start <= j.fin
          BY <1>8, <1>9, <4>1, TimesAreIntegers
        <5> QED
          BY <5>2, <5>3
      <4>3. CASE n # j.row
        <5>1. rows[n].end # NotYet
          BY <1>1, <2>1, <3>1, <4>3 DEF Finished
        <5>2. ~(NextStarts(j) /\ n = j.next)
          BY <1>9, <4>1, <5>1 DEF NextStarts
        <5> QED
          BY <1>1, <2>1, <3>1, <4>3, <5>1, <5>2 DEF OInv, LoadingTimesAreTrue, Finished
      <4> QED
        BY <4>2, <4>3
    <3> QED
      BY <3>2, <3>3
  <2> QED
    BY <1>7, <2>1 DEF LoadingTimesAreTrue
<1>14. OpenFollowsFinished'
  <2>1. ASSUME NEW p \in (Unshared \ restarted)', NEW m \in RowsOf(p), NEW n \in RowsOf(p),
               Finished(m)', ~Finished(n)', rows'[n].number = rows'[m].number + 1
        PROVE  rows'[n].start = rows'[m].end
    <3>1. /\ p \in Unshared \ restarted /\ m \in DOMAIN rows /\ n \in DOMAIN rows
          /\ rows[m].order = p /\ rows[n].order = p /\ rows[n].number = rows[m].number + 1
      BY <1>1, <1>2, <2>1 DEF Unshared, RowsOf
    <3>2. CASE p # o
      BY <1>10, <2>1, <3>1, <3>2 DEF OInv, OpenFollowsFinished, Finished
    <3>3. CASE p = o
      <4>1. o \notin shared /\ o \notin restarted /\ o \in Orders
        BY <3>1, <3>3 DEF Unshared
      <4>2. n # j.row /\ ~Finished(n)
        BY <1>1, <1>8, <2>1, <3>1 DEF Finished
      <4>3. \A a, b \in RowsOf(o) : rows[a].number = rows[b].number => a = b
        BY <4>1 DEF OInv, Distinct
      <4>4. CASE m = j.row
        <5>1. j.next # 0
          BY <1>2, <1>3, <1>9, <2>1, <3>1, <3>3, <4>1, <4>4 DEF OInv, Ready
        <5>2. n = j.next
          BY <1>8, <1>9, <2>1, <3>1, <3>3, <4>1, <4>3, <4>4, <5>1 DEF RowsOf
        <5> QED
          BY <1>1, <1>9, <3>1, <4>1, <4>2, <4>4, <5>1, <5>2 DEF NextStarts, Finished
      <4>5. CASE m # j.row
        <5>1. Finished(m) /\ rows'[m].end = rows[m].end
          BY <1>1, <2>1, <3>1, <4>5 DEF Finished
        <5>2. rows[n].start = rows[m].end
          BY <2>1, <3>1, <3>3, <4>2, <5>1 DEF OInv, OpenFollowsFinished
        <5>3. ~(NextStarts(j) /\ n = j.next)
          <6>1. ASSUME NextStarts(j), n = j.next
                PROVE  FALSE
            <7>1. rows[m].number = rows[j.row].number
              BY <1>8, <1>9, <3>1, <4>1, <6>1 DEF NextStarts
            <7>2. j.row \in RowsOf(o) /\ m \in RowsOf(o)
              BY <1>8, <3>1, <3>3 DEF RowsOf
            <7> QED
              BY <4>3, <4>5, <7>1, <7>2
          <6> QED
            BY <6>1
        <5> QED
          BY <1>1, <3>1, <5>1, <5>2, <5>3
      <4> QED
        BY <4>4, <4>5
    <3> QED
      BY <3>2, <3>3
  <2> QED
    BY <1>7, <2>1 DEF OpenFollowsFinished
<1> QED
  BY <1>6, <1>11, <1>12, <1>13, <1>14 DEF OInv

LEMMA OrderStep == OInv /\ [OrderNext]_orderVars => OInv'
<1> SUFFICES ASSUME OInv, [OrderNext]_orderVars
             PROVE  OInv'
  OBVIOUS
<1>1. ASSUME NEW o \in Orders, NEW t \in OrderTimes,
             NEW packages \in BoundedSeq(Packages, MaxPackages) \ {<<>>}, StartOrder(o, packages, t)
      PROVE  OInv'
  <2>1. packages \in Seq(Packages) /\ Len(packages) <= MaxPackages
    BY OrderConstants DEF BoundedSeq, SeqOf
  <2> QED
    BY <1>1, <2>1, StartStep
<1>2. ASSUME NEW i \in Loaders, \/ \E n \in DOMAIN rows : FindPackage(i, n)
                                \/ \E t \in OrderTimes : FindNext(i, t)
                                \/ FinishPackage(i)
                                \/ EndWithoutUpdate(i)
      PROVE  OInv'
  BY <1>2, FindPackageStep, FindNextStep, FinishPackageStep, EndWithoutUpdateStep
<1>3. CASE UNCHANGED orderVars
  BY <1>3 DEF orderVars, OInv, Types, JobsOK, Rooted, OrderCurrent, Ready, BusyWith, Distinct, LoadingTimesAreTrue,
              OpenFollowsFinished, RowsOf, Finished, Unshared
<1> QED
  BY <1>1, <1>2, <1>3 DEF OrderNext

LEMMA OInvariant == OrderSpec => []OInv
  BY OrderInitially, OrderStep, PTL DEF OrderSpec

\* The times of an order whose requests never overlap are those of packages
\* loaded one after another (iniciar_orden_carga, finalizar_paquete_carga).
THEOREM OrderIsTimedAlways == OrderSpec => []OrderIsTimed
<1>1. OInv => OrderIsTimed
  BY DEF OInv, Types, JobsOK, Ready, OrderIsTimed, OrderTypeOK
<1> QED
  BY <1>1, OInvariant, PTL

LEMMA FinishedStays ==
  ASSUME OInv, [OrderNext]_orderVars, NEW n \in DOMAIN rows,
         Finished(n), rows[n].order \notin shared'
  PROVE  rows'[n] = rows[n]
<1>1. ASSUME NEW o \in Orders, NEW t \in OrderTimes,
             NEW packages \in BoundedSeq(Packages, MaxPackages) \ {<<>>}, StartOrder(o, packages, t)
      PROVE  rows'[n] = rows[n]
  <2>1. packages \in Seq(Packages) /\ Len(packages) <= MaxPackages
    BY OrderConstants DEF BoundedSeq, SeqOf
  <2> QED
    BY <1>1, <2>1, Appended DEF OInv
<1>2. ASSUME NEW i \in Loaders, FinishPackage(i)
      PROVE  rows'[n] = rows[n]
  <2> DEFINE j == job[i]
             o == j.seen.order
  <2>1. /\ n # j.row /\ ~(NextStarts(j) /\ n = j.next) => rows'[n] = rows[n]
        /\ shared' = shared
    BY <1>2, Written, EndedJob DEF FinishPackage
  <2>2. /\ rows[j.row].order = o
        /\ j.next # 0 => rows[j.next].order = o
    BY <1>2 DEF OInv, Rooted, FinishPackage
  <2>3. CASE rows[n].order = o
    <3>1. /\ rows[j.row].end = NotYet
          /\ j.next # 0 => rows[j.next] = j.seenNext
      BY <1>2, <2>1, <2>3 DEF OInv, OrderCurrent, FinishPackage
    <3> QED
      BY <2>1, <3>1 DEF Finished, NextStarts
  <2>4. CASE rows[n].order # o
    BY <2>1, <2>2, <2>4 DEF NextStarts
  <2> QED
    BY <2>3, <2>4
<1>3. ASSUME NEW i \in Loaders, \/ \E m \in DOMAIN rows : FindPackage(i, m)
                                \/ \E t \in OrderTimes : FindNext(i, t)
                                \/ EndWithoutUpdate(i)
      PROVE  rows'[n] = rows[n]
  BY <1>3 DEF FindPackage, FindNext, EndWithoutUpdate
<1>4. CASE UNCHANGED orderVars
  BY <1>4 DEF orderVars
<1> QED
  BY <1>1, <1>2, <1>3, <1>4 DEF OrderNext

\* The times of a package that is finished never change again, while the
\* requests for its order do not overlap (finalizar_paquete_carga).
THEOREM FinishedOnceAlways == OrderSpec => FinishedOnce
<1>1. OInv /\ [OrderNext]_orderVars =>
        [\A n \in DOMAIN rows :
           Finished(n) /\ rows[n].order \notin shared' => rows'[n] = rows[n]]_orderVars
  BY FinishedStays
<1> QED
  BY <1>1, OInvariant, PTL DEF OrderSpec, FinishedOnce

-----------------------------------------------------------------------------
\* What MCTables checks of both tables at once: what was measured is never lost,
\* nor measured again unless two requests about it overlap, whichever of the
\* tables a behaviour is about.
THEOREM MeasuredOnceAlways == Spec => MeasuredOnce
<1>1. Init => ServiceInit /\ OrderInit
  BY DEF Init
<1>2. [Next]_mcvars => [ServiceNext]_serviceVars
  BY DEF Next, Codes, Clients, Prices, Log, Loading, mcvars
<1>3. [Next]_mcvars => [OrderNext]_orderVars
  BY DEF Next, Codes, Clients, Prices, Log, Loading, mcvars
<1>4. Spec => ServiceSpec
  BY <1>1, <1>2, PTL DEF Spec, ServiceSpec
<1>5. Spec => OrderSpec
  BY <1>1, <1>3, PTL DEF Spec, OrderSpec
<1> QED
  BY <1>4, <1>5, ClosedStaysClosedAlways, FinishedOnceAlways DEF MeasuredOnce
===============================================================================
