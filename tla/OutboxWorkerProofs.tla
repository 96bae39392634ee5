-------------------------- MODULE OutboxWorkerProofs --------------------------
(***************************************************************************)
(* Safety of the outbox for every set of events and workers, every batch   *)
(* size and retry limit, and any number of stops and faults.               *)
(***************************************************************************)
EXTENDS OutboxWorker, FiniteSetTheorems, TLAPS

(* The values of every variable keep their type.                          *)
LEMMA TypeStep == TypeOK /\ [Next]_vars => TypeOK'
<1> SUFFICES ASSUME TypeOK, [Next]_vars
             PROVE  TypeOK'
    OBVIOUS
<1> USE LimitAssumption
        DEF TypeOK, Phases, Busy, Nothing, rowVars, workVars, netVars, limits
<1>1. ASSUME NEW e \in Event, CommitEvent(e) PROVE TypeOK'
  BY <1>1 DEF CommitEvent
<1>2. ASSUME NEW w \in Worker, Start(w) PROVE TypeOK'
  BY <1>2 DEF Start
<1>3. ASSUME NEW w \in Worker, Poll(w) PROVE TypeOK'
  BY <1>3 DEF Poll, Oldest, Pending
<1>4. ASSUME NEW w \in Worker, Publish(w) PROVE TypeOK'
  BY <1>4 DEF Publish
<1>5. ASSUME NEW w \in Worker, PublishClosed(w) PROVE TypeOK'
  BY <1>5 DEF PublishClosed, CountError
<1>6. ASSUME NEW w \in Worker, PublishBreaks(w) PROVE TypeOK'
  <2>1. errors' \in [Event -> 0..MaxRetries] /\ faultsLeft' \in 0..MaxFaults
    BY <1>6 DEF PublishBreaks, CountError, Fault
  <2>2. delivered' \in [Event -> 0..2]
    BY <1>6 DEF PublishBreaks, Deliver
  <2>3. QED
    BY <1>6, <2>1, <2>2 DEF PublishBreaks
<1>7. ASSUME NEW w \in Worker, HandleSuccess(w) PROVE TypeOK'
  BY <1>7 DEF HandleSuccess, MarkPublished, Handled
<1>8. ASSUME NEW w \in Worker, HandleFailure(w) PROVE TypeOK'
  <2>1. PICK e \in Event :
          /\ IF seen[w][e] + 1 >= MaxRetries
                THEN MarkFailed(e) /\ UNCHANGED retries
                ELSE IncrementRetry(e) /\ UNCHANGED status
          /\ Handled(w, e)
    BY <1>8 DEF HandleFailure
  <2>2. status' \in [Event -> {"absent", "pending", "published", "failed"}]
    BY <2>1 DEF MarkFailed
  <2>3. retries' \in [Event -> Nat]
    BY <2>1 DEF IncrementRetry
  <2>4. QED
    BY <1>8, <2>1, <2>2, <2>3 DEF HandleFailure, Handled
<1>9. ASSUME NEW w \in Worker, UpdateFails(w) PROVE TypeOK'
  BY <1>9 DEF UpdateFails, Handled, Fault
<1>10. ASSUME NEW w \in Worker, Stop(w) PROVE TypeOK'
  BY <1>10 DEF Stop
<1>11. ASSUME NEW w \in Worker, NoticeStop(w) PROVE TypeOK'
  BY <1>11 DEF NoticeStop
<1>12. ASSUME NEW w \in Worker, Exit(w) PROVE TypeOK'
  BY <1>12 DEF Exit, Deliver
<1>13. ASSUME NEW w \in Worker, Crash(w) PROVE TypeOK'
  BY <1>13 DEF Crash, Fault
<1>14. ASSUME NEW w \in Worker, Close(w) PROVE TypeOK'
  BY <1>14 DEF Close
<1>15. ASSUME NEW w \in Worker, NEW e \in Event, Accept(w, e) PROVE TypeOK'
  BY <1>15 DEF Accept, Deliver
<1>16. ASSUME NEW w \in Worker, NEW e \in Event, Drop(w, e) PROVE TypeOK'
  BY <1>16 DEF Drop
<1>17. CASE UNCHANGED vars
  BY <1>17 DEF vars
<1>18. QED
  BY <1>1, <1>2, <1>3, <1>4, <1>5, <1>6, <1>7, <1>8, <1>9,
     <1>10, <1>11, <1>12, <1>13, <1>14, <1>15, <1>16, <1>17
  DEF Next, Work

(* Every variable keeps its type.                                          *)
THEOREM TypeCorrect == Spec => []TypeOK
<1>1. Init => TypeOK
  BY LimitAssumption DEF Init, TypeOK, Phases, Nothing
<1>2. QED
  BY <1>1, TypeStep, PTL DEF Spec

(* A worker handles one row at a time.                                     *)
LEMMA NextIsUnique ==
    ASSUME NEW w \in Worker, NEW d \in Event, NEW e \in Event,
           IsNext(w, d), IsNext(w, e)
    PROVE  d = e
  BY EventAssumption DEF IsNext

-------------------------------------------------------------------------------
(* Published rows were sent.  A message once sent stays accounted for: at  *)
(* the broker, on its way or lost; and the row a worker is about to mark   *)
(* was sent.                                                               *)

Sent(e) == delivered[e] > 0 \/ OnTheWay(e) \/ e \in lost
HandedInv ==
    \A w \in Worker, e \in Event : phase[w] = "sent" /\ IsNext(w, e) => Sent(e)
SentInv == HandedInv /\ PublishedWasSent

(* No step forgets a message.                                             *)
LEMMA SentStable ==
    ASSUME TypeOK, [Next]_vars, NEW x \in Event, Sent(x)
    PROVE  Sent(x)'
<1> USE DEF TypeOK, Sent, OnTheWay, rowVars, workVars, netVars, limits
<1>1. ASSUME NEW e \in Event, CommitEvent(e) PROVE Sent(x)'
  BY <1>1 DEF CommitEvent
<1>2. ASSUME NEW w \in Worker, Start(w) PROVE Sent(x)'
  BY <1>2 DEF Start
<1>3. ASSUME NEW w \in Worker, Poll(w) PROVE Sent(x)'
  BY <1>3 DEF Poll
<1>4. ASSUME NEW w \in Worker, Publish(w) PROVE Sent(x)'
  BY <1>4 DEF Publish
<1>5. ASSUME NEW w \in Worker, PublishClosed(w) PROVE Sent(x)'
  BY <1>5 DEF PublishClosed, CountError
<1>6. ASSUME NEW w \in Worker, PublishBreaks(w) PROVE Sent(x)'
  <2>1. PICK e \in Event : Deliver({e}) \/ UNCHANGED delivered
    BY <1>6 DEF PublishBreaks
  <2>2. delivered[x] > 0 => delivered'[x] > 0
    BY <2>1 DEF Deliver
  <2>3. QED
    BY <1>6, <2>2 DEF PublishBreaks
<1>7. ASSUME NEW w \in Worker, HandleSuccess(w) PROVE Sent(x)'
  BY <1>7 DEF HandleSuccess, MarkPublished, Handled
<1>8. ASSUME NEW w \in Worker, HandleFailure(w) PROVE Sent(x)'
  BY <1>8 DEF HandleFailure, MarkFailed, IncrementRetry, Handled
<1>9. ASSUME NEW w \in Worker, UpdateFails(w) PROVE Sent(x)'
  BY <1>9 DEF UpdateFails, Handled, Fault
<1>10. ASSUME NEW w \in Worker, Stop(w) PROVE Sent(x)'
  BY <1>10 DEF Stop
<1>11. ASSUME NEW w \in Worker, NoticeStop(w) PROVE Sent(x)'
  BY <1>11 DEF NoticeStop
<1>12. ASSUME NEW w \in Worker, Exit(w) PROVE Sent(x)'
  <2>1. /\ delivered[x] > 0 => delivered'[x] > 0
        /\ x \in inflight[w] => delivered'[x] > 0
    BY <1>12 DEF Exit, Deliver
  <2>2. QED
    BY <1>12, <2>1 DEF Exit
<1>13. ASSUME NEW w \in Worker, Crash(w) PROVE Sent(x)'
  BY <1>13 DEF Crash, Fault
<1>14. ASSUME NEW w \in Worker, Close(w) PROVE Sent(x)'
  BY <1>14 DEF Close
<1>15. ASSUME NEW w \in Worker, NEW e \in Event, Accept(w, e) PROVE Sent(x)'
  <2>1. /\ delivered[x] > 0 => delivered'[x] > 0
        /\ delivered'[e] > 0
    <3>1. delivered' = [d \in Event |-> IF d = e /\ delivered[d] < 2
                                       THEN delivered[d] + 1 ELSE delivered[d]]
      BY <1>15 DEF Accept, Deliver
    <3>2. delivered[x] \in 0..2 /\ delivered[e] \in 0..2
      OBVIOUS
    <3>3. QED
      BY <3>1, <3>2
  <2>2. CASE x = e
    BY <2>1, <2>2
  <2>3. CASE x # e
    BY <1>15, <2>1, <2>3 DEF Accept
  <2>4. QED
    BY <2>2, <2>3
<1>16. ASSUME NEW w \in Worker, NEW e \in Event, Drop(w, e) PROVE Sent(x)'
  BY <1>16 DEF Drop
<1>17. CASE UNCHANGED vars
  BY <1>17 DEF vars
<1>18. QED
  BY <1>1, <1>2, <1>3, <1>4, <1>5, <1>6, <1>7, <1>8, <1>9,
     <1>10, <1>11, <1>12, <1>13, <1>14, <1>15, <1>16, <1>17
  DEF Next, Work

(* Every step keeps the row about to be marked among the sent ones.       *)
LEMMA SentStep == TypeOK /\ SentInv /\ [Next]_vars => SentInv'
<1> SUFFICES ASSUME TypeOK, SentInv, [Next]_vars
             PROVE  SentInv'
    OBVIOUS
<1> \A x \in Event : Sent(x) => Sent(x)'
  BY SentStable
<1> USE DEF TypeOK, SentInv, HandedInv, PublishedWasSent, IsNext,
        Phases, Busy, Nothing, rowVars, workVars, netVars, limits
<1>a. PublishedWasSent <=> \A x \in Event : status[x] = "published" => Sent(x)
  BY DEF Sent
<1>b. PublishedWasSent' <=> \A x \in Event : status'[x] = "published" => Sent(x)'
  BY DEF Sent
<1> HIDE DEF PublishedWasSent
<1>1. ASSUME NEW e \in Event, CommitEvent(e) PROVE SentInv'
  BY <1>1, <1>a, <1>b DEF CommitEvent
<1>2. ASSUME NEW w \in Worker, Start(w) PROVE SentInv'
  BY <1>2, <1>a, <1>b DEF Start
<1>3. ASSUME NEW w \in Worker, Poll(w) PROVE SentInv'
  BY <1>3, <1>a, <1>b DEF Poll
<1>4. ASSUME NEW w \in Worker, Publish(w) PROVE SentInv'
  <2>1. PICK e \in Event : /\ IsNext(w, e)
                           /\ inflight' = [inflight EXCEPT ![w] = @ \cup {e}]
    BY <1>4 DEF Publish
  <2>2. Sent(e)'
    BY <2>1 DEF Sent, OnTheWay
  <2>3. \A x \in Event : IsNext(w, x)' => x = e
    BY <1>4, <2>1, NextIsUnique DEF Publish
  <2>4. QED
    BY <1>4, <1>a, <1>b, <2>2, <2>3 DEF Publish
<1>5. ASSUME NEW w \in Worker, PublishClosed(w) PROVE SentInv'
  BY <1>5, <1>a, <1>b DEF PublishClosed, CountError
<1>6. ASSUME NEW w \in Worker, PublishBreaks(w) PROVE SentInv'
  BY <1>6, <1>a, <1>b DEF PublishBreaks, CountError, Deliver, Fault
<1>7. ASSUME NEW w \in Worker, HandleSuccess(w) PROVE SentInv'
  <2>1. PICK e \in Event : IsNext(w, e) /\ MarkPublished(e) /\ Handled(w, e)
    BY <1>7 DEF HandleSuccess
  <2>2. Sent(e)
    BY <1>7, <2>1 DEF HandleSuccess
  <2>3. QED
    BY <1>7, <1>a, <1>b, <2>1, <2>2 DEF HandleSuccess, MarkPublished, Handled
<1>8. ASSUME NEW w \in Worker, HandleFailure(w) PROVE SentInv'
  BY <1>8, <1>a, <1>b DEF HandleFailure, MarkFailed, IncrementRetry, Handled
<1>9. ASSUME NEW w \in Worker, UpdateFails(w) PROVE SentInv'
  BY <1>9, <1>a, <1>b DEF UpdateFails, Handled, Fault
<1>10. ASSUME NEW w \in Worker, Stop(w) PROVE SentInv'
  BY <1>10, <1>a, <1>b DEF Stop
<1>11. ASSUME NEW w \in Worker, NoticeStop(w) PROVE SentInv'
  BY <1>11, <1>a, <1>b DEF NoticeStop
<1>12. ASSUME NEW w \in Worker, Exit(w) PROVE SentInv'
  BY <1>12, <1>a, <1>b DEF Exit, Deliver
<1>13. ASSUME NEW w \in Worker, Crash(w) PROVE SentInv'
  BY <1>13, <1>a, <1>b DEF Crash, Fault
<1>14. ASSUME NEW w \in Worker, Close(w) PROVE SentInv'
  BY <1>14, <1>a, <1>b DEF Close
<1>15. ASSUME NEW w \in Worker, NEW e \in Event, Accept(w, e) PROVE SentInv'
  BY <1>15, <1>a, <1>b DEF Accept, Deliver
<1>16. ASSUME NEW w \in Worker, NEW e \in Event, Drop(w, e) PROVE SentInv'
  BY <1>16, <1>a, <1>b DEF Drop
<1>17. CASE UNCHANGED vars
  BY <1>17, <1>a, <1>b DEF vars
<1>18. QED
  BY <1>1, <1>2, <1>3, <1>4, <1>5, <1>6, <1>7, <1>8, <1>9,
     <1>10, <1>11, <1>12, <1>13, <1>14, <1>15, <1>16, <1>17
  DEF Next, Work

(* Whichever worker marks a row published, a message of it was sent.       *)
THEOREM PublishedRowsWereSent == Spec => []PublishedWasSent
<1>1. Init => TypeOK /\ SentInv
  BY LimitAssumption
  DEF Init, TypeOK, Phases, Nothing, SentInv, HandedInv, PublishedWasSent
<1>2. TypeOK /\ SentInv /\ [Next]_vars => (TypeOK /\ SentInv)'
  BY TypeStep, SentStep
<1>3. QED
  BY <1>1, <1>2, PTL DEF Spec, SentInv

-------------------------------------------------------------------------------
(* Errors are counted.  An error that has happened is either counted in    *)
(* the row, or owed by a worker that is about to count it.                 *)

Owed(e) == {w \in Worker : phase[w] = "unsent" /\ IsNext(w, e)}
Counted(e) ==
    retries[e] + Cardinality(Owed(e)) <= errors[e] \/ errors[e] = MaxRetries

(* Finitely many workers owe a count.                                     *)
LEMMA OwedFinite ==
    ASSUME NEW e \in Event
    PROVE  /\ IsFiniteSet(Owed(e)) /\ Cardinality(Owed(e)) \in Nat
           /\ IsFiniteSet(Owed(e)')  /\ Cardinality(Owed(e)') \in Nat
<1>1. Owed(e) \subseteq Worker /\ Owed(e)' \subseteq Worker
  BY DEF Owed
<1>2. QED
  BY <1>1, WorkerAssumption, FS_Subset, FS_CardinalityType

(* Cardinality with one element more, and with one less.                  *)
LEMMA OneMore ==
    ASSUME NEW S, NEW T, NEW w, IsFiniteSet(S), T = S \cup {w}, w \notin S
    PROVE  Cardinality(T) = Cardinality(S) + 1
  BY FS_AddElement

LEMMA OneLess ==
    ASSUME NEW S, NEW T, NEW w, IsFiniteSet(S), T = S \ {w}, w \in S
    PROVE  Cardinality(T) = Cardinality(S) - 1
  BY FS_RemoveElement

(* Every step keeps the errors of a row accounted for.                    *)
LEMMA CountedStep ==
    ASSUME TypeOK, TypeOK', [Next]_vars, NEW x \in Event, Counted(x)
    PROVE  Counted(x)'
<1> USE OwedFinite, LimitAssumption
        DEF TypeOK, Counted, rowVars, workVars, netVars, limits
<1>1. ASSUME NEW e \in Event, CommitEvent(e) PROVE Counted(x)'
  <2>1. Owed(x)' = Owed(x)
    BY <1>1 DEF Owed, IsNext, CommitEvent
  <2>2. QED
    BY <1>1, <2>1 DEF CommitEvent
<1>2. ASSUME NEW w \in Worker, Start(w) PROVE Counted(x)'
  <2>1. Owed(x)' = Owed(x)
    BY <1>2 DEF Owed, IsNext, Start
  <2>2. QED
    BY <1>2, <2>1 DEF Start
<1>3. ASSUME NEW w \in Worker, Poll(w) PROVE Counted(x)'
  <2>1. Owed(x)' = Owed(x)
    BY <1>3 DEF Owed, IsNext, Poll
  <2>2. QED
    BY <1>3, <2>1 DEF Poll
<1>4. ASSUME NEW w \in Worker, Publish(w) PROVE Counted(x)'
  <2>1. Owed(x)' = Owed(x)
    BY <1>4 DEF Owed, IsNext, Publish
  <2>2. QED
    BY <1>4, <2>1 DEF Publish
<1>5. ASSUME NEW w \in Worker, PublishClosed(w) PROVE Counted(x)'
  <2>1. PICK e \in Event : IsNext(w, e) /\ CountError(e)
    BY <1>5 DEF PublishClosed
  <2>2. \A y \in Event : IsNext(w, y) => y = e
    BY <2>1, NextIsUnique
  <2>3. CASE x = e
    <3>1. Owed(x)' = Owed(x) \cup {w} /\ w \notin Owed(x)
      BY <1>5, <2>1, <2>3 DEF PublishClosed, Owed, IsNext
    <3>2. Cardinality(Owed(x)') = Cardinality(Owed(x)) + 1
      BY <3>1, OneMore
    <3>3. QED
      BY <1>5, <2>1, <2>3, <3>2 DEF PublishClosed, CountError
  <2>4. CASE x # e
    <3>1. Owed(x)' = Owed(x)
      BY <1>5, <2>2, <2>4 DEF PublishClosed, Owed, IsNext
    <3>2. QED
      BY <1>5, <2>1, <2>4, <3>1 DEF PublishClosed, CountError
  <2>5. QED
    BY <2>3, <2>4
<1>6. ASSUME NEW w \in Worker, PublishBreaks(w) PROVE Counted(x)'
  <2>1. PICK e \in Event : IsNext(w, e) /\ CountError(e)
    BY <1>6 DEF PublishBreaks
  <2>2. \A y \in Event : IsNext(w, y) => y = e
    BY <2>1, NextIsUnique
  <2>3. CASE x = e
    <3>1. Owed(x)' = Owed(x) \cup {w} /\ w \notin Owed(x)
      BY <1>6, <2>1, <2>3 DEF PublishBreaks, Owed, IsNext
    <3>2. Cardinality(Owed(x)') = Cardinality(Owed(x)) + 1
      BY <3>1, OneMore
    <3>3. QED
      BY <1>6, <2>1, <2>3, <3>2 DEF PublishBreaks, CountError
  <2>4. CASE x # e
    <3>1. Owed(x)' = Owed(x)
      BY <1>6, <2>2, <2>4 DEF PublishBreaks, Owed, IsNext
    <3>2. QED
      BY <1>6, <2>1, <2>4, <3>1 DEF PublishBreaks, CountError
  <2>5. QED
    BY <2>3, <2>4
<1>7. ASSUME NEW w \in Worker, HandleSuccess(w) PROVE Counted(x)'
  <2>1. Owed(x)' = Owed(x)
    BY <1>7 DEF Owed, IsNext, HandleSuccess, MarkPublished, Handled
  <2>2. QED
    BY <1>7, <2>1 DEF HandleSuccess, MarkPublished, Handled
<1>8. ASSUME NEW w \in Worker, HandleFailure(w) PROVE Counted(x)'
  <2>1. PICK e \in Event :
          /\ IsNext(w, e)
          /\ IF seen[w][e] + 1 >= MaxRetries
                THEN MarkFailed(e) /\ UNCHANGED retries
                ELSE IncrementRetry(e) /\ UNCHANGED status
          /\ Handled(w, e)
    BY <1>8 DEF HandleFailure
  <2>2. CASE x = e
    <3>1. Owed(x)' = Owed(x) \ {w} /\ w \in Owed(x)
      BY <1>8, <2>1, <2>2 DEF HandleFailure, Handled, Owed, IsNext
    <3>2. Cardinality(Owed(x)') = Cardinality(Owed(x)) - 1
      BY <3>1, OneLess
    <3>3. retries'[x] <= retries[x] + 1
      BY <2>1, <2>2 DEF IncrementRetry
    <3>4. QED
      BY <1>8, <3>2, <3>3 DEF HandleFailure
  <2>3. CASE x # e
    <3>1. Owed(x)' = Owed(x)
      <4>1. w \notin Owed(x)
        BY <2>1, <2>3, NextIsUnique DEF Owed
      <4>2. QED
        BY <1>8, <2>1, <4>1 DEF HandleFailure, Handled, Owed, IsNext
    <3>2. retries'[x] = retries[x]
      BY <2>1, <2>3 DEF IncrementRetry
    <3>3. QED
      BY <1>8, <3>1, <3>2 DEF HandleFailure
  <2>4. QED
    BY <2>2, <2>3
<1>9. ASSUME NEW w \in Worker, UpdateFails(w) PROVE Counted(x)'
  <2>1. Owed(x)' \subseteq Owed(x)
    BY <1>9 DEF Owed, IsNext, UpdateFails, Handled, Fault
  <2>2. Cardinality(Owed(x)') <= Cardinality(Owed(x))
    BY <2>1, FS_Subset
  <2>3. QED
    BY <1>9, <2>2 DEF UpdateFails, Handled, Fault
<1>10. ASSUME NEW w \in Worker, Stop(w) PROVE Counted(x)'
  <2>1. Owed(x)' = Owed(x)
    BY <1>10 DEF Owed, IsNext, Stop
  <2>2. QED
    BY <1>10, <2>1 DEF Stop
<1>11. ASSUME NEW w \in Worker, NoticeStop(w) PROVE Counted(x)'
  <2>1. Owed(x)' = Owed(x)
    BY <1>11 DEF Owed, IsNext, NoticeStop
  <2>2. QED
    BY <1>11, <2>1 DEF NoticeStop
<1>12. ASSUME NEW w \in Worker, Exit(w) PROVE Counted(x)'
  <2>1. Owed(x)' = Owed(x)
    BY <1>12 DEF Owed, IsNext, Exit, Deliver
  <2>2. QED
    BY <1>12, <2>1 DEF Exit, Deliver
<1>13. ASSUME NEW w \in Worker, Crash(w) PROVE Counted(x)'
  <2>1. Owed(x)' \subseteq Owed(x)
    BY <1>13 DEF Owed, IsNext, Crash, Fault
  <2>2. Cardinality(Owed(x)') <= Cardinality(Owed(x))
    BY <2>1, FS_Subset
  <2>3. QED
    BY <1>13, <2>2 DEF Crash, Fault
<1>14. ASSUME NEW w \in Worker, Close(w) PROVE Counted(x)'
  <2>1. Owed(x)' = Owed(x)
    BY <1>14 DEF Owed, IsNext, Close
  <2>2. QED
    BY <1>14, <2>1 DEF Close
<1>15. ASSUME NEW w \in Worker, NEW e \in Event, Accept(w, e) PROVE Counted(x)'
  <2>1. Owed(x)' = Owed(x)
    BY <1>15 DEF Owed, IsNext, Accept, Deliver
  <2>2. QED
    BY <1>15, <2>1 DEF Accept, Deliver
<1>16. ASSUME NEW w \in Worker, NEW e \in Event, Drop(w, e) PROVE Counted(x)'
  <2>1. Owed(x)' = Owed(x)
    BY <1>16 DEF Owed, IsNext, Drop
  <2>2. QED
    BY <1>16, <2>1 DEF Drop
<1>17. CASE UNCHANGED vars
  <2>1. Owed(x)' = Owed(x)
    BY <1>17 DEF vars, Owed, IsNext
  <2>2. QED
    BY <1>17, <2>1 DEF vars
<1>18. QED
  BY <1>1, <1>2, <1>3, <1>4, <1>5, <1>6, <1>7, <1>8, <1>9,
     <1>10, <1>11, <1>12, <1>13, <1>14, <1>15, <1>16, <1>17
  DEF Next, Work

CountInv == \A e \in Event : Counted(e)

(* The same for all rows.                                                 *)
LEMMA CountStep == TypeOK /\ CountInv /\ [Next]_vars => CountInv'
<1> SUFFICES ASSUME TypeOK, CountInv, [Next]_vars
             PROVE  CountInv'
    OBVIOUS
<1>1. TypeOK'
  BY TypeStep
<1>2. ASSUME NEW e \in Event PROVE Counted(e)'
  BY <1>1, CountedStep DEF CountInv
<1>3. QED
  BY <1>2 DEF CountInv

(* No error has happened at the start.                                    *)
LEMMA CountInit == Init => CountInv
<1> SUFFICES ASSUME Init, NEW e \in Event
             PROVE  Counted(e)
    BY DEF CountInv
<1>1. Owed(e) = {}
  BY DEF Owed, Init
<1>2. Cardinality(Owed(e)) = 0
  BY <1>1, FS_EmptySet
<1>3. QED
  BY <1>2 DEF Init, Nothing, Counted

(* The owed counts only strengthen the property.                          *)
LEMMA CountImplies == TypeOK /\ CountInv => RetriesAreErrors
<1> SUFFICES ASSUME TypeOK, CountInv, NEW e \in Event
             PROVE  retries[e] <= errors[e] \/ errors[e] = MaxRetries
    BY DEF RetriesAreErrors
<1>1. Cardinality(Owed(e)) \in Nat
  BY OwedFinite
<1>2. QED
  BY <1>1, LimitAssumption DEF TypeOK, CountInv, Counted

(* The initial values have their types.                                   *)
LEMMA InitType == Init => TypeOK
  BY LimitAssumption DEF Init, TypeOK, Phases, Nothing

(* retry_count counts no error that did not happen, however many workers   *)
(* increment it.                                                           *)
THEOREM CountsAreErrors == Spec => []RetriesAreErrors
<1>1. Init => TypeOK /\ CountInv
  BY InitType, CountInit
<1>2. TypeOK /\ CountInv /\ [Next]_vars => (TypeOK /\ CountInv)'
  BY TypeStep, CountStep
<1>3. QED
  BY <1>1, <1>2, CountImplies, PTL DEF Spec

-------------------------------------------------------------------------------
(* Giving up.  The copy of retry_count a worker fetched may be stale, but  *)
(* it never exceeds the errors that happened; and once the worker's own    *)
(* publish failed, not even the copy plus one does.                        *)

Snapshot(w, e) ==
    /\ seen[w][e] <= errors[e] \/ errors[e] = MaxRetries
    /\ phase[w] = "unsent" /\ IsNext(w, e) =>
          seen[w][e] + 1 <= errors[e] \/ errors[e] = MaxRetries
GivenUp(e) == status[e] = "failed" => errors[e] = MaxRetries
SnapInv == /\ \A w \in Worker, e \in Event : Snapshot(w, e)
           /\ \A e \in Event : GivenUp(e)

(* Errors are never forgotten.                                            *)
LEMMA ErrorsGrow ==
    ASSUME TypeOK, [Next]_vars, NEW e \in Event
    PROVE  errors'[e] >= errors[e] /\ errors'[e] \in 0..MaxRetries
<1> USE LimitAssumption DEF TypeOK, rowVars, workVars, netVars, limits
<1>1. ASSUME NEW d \in Event, CommitEvent(d) PROVE errors'[e] >= errors[e] /\ errors'[e] \in 0..MaxRetries
  BY <1>1 DEF CommitEvent
<1>2. ASSUME NEW w \in Worker, Start(w) PROVE errors'[e] >= errors[e] /\ errors'[e] \in 0..MaxRetries
  BY <1>2 DEF Start
<1>3. ASSUME NEW w \in Worker, Poll(w) PROVE errors'[e] >= errors[e] /\ errors'[e] \in 0..MaxRetries
  BY <1>3 DEF Poll
<1>4. ASSUME NEW w \in Worker, Publish(w) PROVE errors'[e] >= errors[e] /\ errors'[e] \in 0..MaxRetries
  BY <1>4 DEF Publish
<1>5. ASSUME NEW w \in Worker, PublishClosed(w) PROVE errors'[e] >= errors[e] /\ errors'[e] \in 0..MaxRetries
  BY <1>5 DEF PublishClosed, CountError
<1>6. ASSUME NEW w \in Worker, PublishBreaks(w) PROVE errors'[e] >= errors[e] /\ errors'[e] \in 0..MaxRetries
  BY <1>6 DEF PublishBreaks, CountError, Deliver, Fault
<1>7. ASSUME NEW w \in Worker, HandleSuccess(w) PROVE errors'[e] >= errors[e] /\ errors'[e] \in 0..MaxRetries
  BY <1>7 DEF HandleSuccess, MarkPublished, Handled
<1>8. ASSUME NEW w \in Worker, HandleFailure(w) PROVE errors'[e] >= errors[e] /\ errors'[e] \in 0..MaxRetries
  BY <1>8 DEF HandleFailure, MarkFailed, IncrementRetry, Handled
<1>9. ASSUME NEW w \in Worker, UpdateFails(w) PROVE errors'[e] >= errors[e] /\ errors'[e] \in 0..MaxRetries
  BY <1>9 DEF UpdateFails, Handled, Fault
<1>10. ASSUME NEW w \in Worker, Stop(w) PROVE errors'[e] >= errors[e] /\ errors'[e] \in 0..MaxRetries
  BY <1>10 DEF Stop
<1>11. ASSUME NEW w \in Worker, NoticeStop(w) PROVE errors'[e] >= errors[e] /\ errors'[e] \in 0..MaxRetries
  BY <1>11 DEF NoticeStop
<1>12. ASSUME NEW w \in Worker, Exit(w) PROVE errors'[e] >= errors[e] /\ errors'[e] \in 0..MaxRetries
  BY <1>12 DEF Exit, Deliver
<1>13. ASSUME NEW w \in Worker, Crash(w) PROVE errors'[e] >= errors[e] /\ errors'[e] \in 0..MaxRetries
  BY <1>13 DEF Crash, Fault
<1>14. ASSUME NEW w \in Worker, Close(w) PROVE errors'[e] >= errors[e] /\ errors'[e] \in 0..MaxRetries
  BY <1>14 DEF Close
<1>15. ASSUME NEW w \in Worker, NEW d \in Event, Accept(w, d) PROVE errors'[e] >= errors[e] /\ errors'[e] \in 0..MaxRetries
  BY <1>15 DEF Accept, Deliver
<1>16. ASSUME NEW w \in Worker, NEW d \in Event, Drop(w, d) PROVE errors'[e] >= errors[e] /\ errors'[e] \in 0..MaxRetries
  BY <1>16 DEF Drop
<1>17. CASE UNCHANGED vars
  BY <1>17 DEF vars
<1>18. QED
  BY <1>1, <1>2, <1>3, <1>4, <1>5, <1>6, <1>7, <1>8, <1>9,
     <1>10, <1>11, <1>12, <1>13, <1>14, <1>15, <1>16, <1>17
  DEF Next, Work

(* Every step keeps a worker's copy below the errors.                     *)
LEMMA SnapshotStep ==
    ASSUME TypeOK, RetriesAreErrors, [Next]_vars,
           NEW v \in Worker, NEW x \in Event, Snapshot(v, x)
    PROVE  Snapshot(v, x)'
<1> errors'[x] >= errors[x] /\ errors'[x] \in 0..MaxRetries
  BY ErrorsGrow
<1>u. \A w \in Worker, e \in Event : IsNext(w, e) /\ IsNext(w, x) => x = e
  BY NextIsUnique
<1> USE LimitAssumption
        DEF TypeOK, RetriesAreErrors, Snapshot, IsNext, Phases, Busy, Nothing,
            rowVars, workVars, netVars, limits
<1>1. ASSUME NEW e \in Event, CommitEvent(e) PROVE Snapshot(v, x)'
  BY <1>1 DEF CommitEvent
<1>2. ASSUME NEW w \in Worker, Start(w) PROVE Snapshot(v, x)'
  BY <1>2 DEF Start
<1>3. ASSUME NEW w \in Worker, Poll(w) PROVE Snapshot(v, x)'
  BY <1>3 DEF Poll
<1>4. ASSUME NEW w \in Worker, Publish(w) PROVE Snapshot(v, x)'
  BY <1>4 DEF Publish
<1>5. ASSUME NEW w \in Worker, PublishClosed(w) PROVE Snapshot(v, x)'
  <2>1. PICK e \in Event : IsNext(w, e) /\ CountError(e)
    BY <1>5 DEF PublishClosed
  <2>2. IsNext(w, x) => x = e
    BY <1>u, <2>1
  <2>3. errors'[e] >= errors[e] + 1 \/ errors'[e] = MaxRetries
    <3>1. errors[e] \in 0..MaxRetries /\ MaxRetries \in Nat
      OBVIOUS
    <3>2. errors'[e] = IF errors[e] < MaxRetries THEN errors[e] + 1 ELSE errors[e]
      BY <2>1 DEF CountError
    <3> HIDE LimitAssumption DEF TypeOK, RetriesAreErrors
    <3>3. QED
      BY <3>1, <3>2
  <2>4. QED
    BY <1>5, <2>2, <2>3 DEF PublishClosed
<1>6. ASSUME NEW w \in Worker, PublishBreaks(w) PROVE Snapshot(v, x)'
  <2>1. PICK e \in Event : IsNext(w, e) /\ CountError(e)
    BY <1>6 DEF PublishBreaks
  <2>2. IsNext(w, x) => x = e
    BY <1>u, <2>1
  <2>3. errors'[e] >= errors[e] + 1 \/ errors'[e] = MaxRetries
    <3>1. errors[e] \in 0..MaxRetries /\ MaxRetries \in Nat
      OBVIOUS
    <3>2. errors'[e] = IF errors[e] < MaxRetries THEN errors[e] + 1 ELSE errors[e]
      BY <2>1 DEF CountError
    <3> HIDE LimitAssumption DEF TypeOK, RetriesAreErrors
    <3>3. QED
      BY <3>1, <3>2
  <2>4. QED
    BY <1>6, <2>2, <2>3 DEF PublishBreaks
<1>7. ASSUME NEW w \in Worker, HandleSuccess(w) PROVE Snapshot(v, x)'
  BY <1>7 DEF HandleSuccess, MarkPublished, Handled
<1>8. ASSUME NEW w \in Worker, HandleFailure(w) PROVE Snapshot(v, x)'
  BY <1>8 DEF HandleFailure, MarkFailed, IncrementRetry, Handled
<1>9. ASSUME NEW w \in Worker, UpdateFails(w) PROVE Snapshot(v, x)'
  BY <1>9 DEF UpdateFails, Handled, Fault
<1>10. ASSUME NEW w \in Worker, Stop(w) PROVE Snapshot(v, x)'
  BY <1>10 DEF Stop
<1>11. ASSUME NEW w \in Worker, NoticeStop(w) PROVE Snapshot(v, x)'
  BY <1>11 DEF NoticeStop
<1>12. ASSUME NEW w \in Worker, Exit(w) PROVE Snapshot(v, x)'
  BY <1>12 DEF Exit, Deliver
<1>13. ASSUME NEW w \in Worker, Crash(w) PROVE Snapshot(v, x)'
  BY <1>13 DEF Crash, Fault
<1>14. ASSUME NEW w \in Worker, Close(w) PROVE Snapshot(v, x)'
  BY <1>14 DEF Close
<1>15. ASSUME NEW w \in Worker, NEW e \in Event, Accept(w, e) PROVE Snapshot(v, x)'
  BY <1>15 DEF Accept, Deliver
<1>16. ASSUME NEW w \in Worker, NEW e \in Event, Drop(w, e) PROVE Snapshot(v, x)'
  BY <1>16 DEF Drop
<1>17. CASE UNCHANGED vars
  BY <1>17 DEF vars
<1>18. QED
  BY <1>1, <1>2, <1>3, <1>4, <1>5, <1>6, <1>7, <1>8, <1>9,
     <1>10, <1>11, <1>12, <1>13, <1>14, <1>15, <1>16, <1>17
  DEF Next, Work

(* A worker that gives a row up has seen it fail MaxRetries times.        *)
LEMMA GiveUpOnTime ==
    ASSUME TypeOK, NEW w \in Worker, NEW e \in Event, Snapshot(w, e),
           phase[w] = "unsent", IsNext(w, e), seen[w][e] + 1 >= MaxRetries
    PROVE  errors[e] = MaxRetries
<1>1. errors[e] \in 0..MaxRetries /\ seen[w][e] \in Nat /\ MaxRetries \in Nat
  BY LimitAssumption DEF TypeOK
<1>2. QED
  BY <1>1 DEF Snapshot

(* Every step keeps it that failed rows had their retries.                *)
LEMMA GivenUpStep ==
    ASSUME TypeOK, SnapInv, [Next]_vars, NEW x \in Event
    PROVE  GivenUp(x)'
<1> errors'[x] >= errors[x] /\ errors'[x] \in 0..MaxRetries
  BY ErrorsGrow
<1> GivenUp(x)
  BY DEF SnapInv
<1> USE LimitAssumption
        DEF TypeOK, GivenUp, rowVars, workVars, netVars, limits
<1>1. ASSUME NEW e \in Event, CommitEvent(e) PROVE GivenUp(x)'
  BY <1>1 DEF CommitEvent
<1>2. ASSUME NEW w \in Worker, Start(w) PROVE GivenUp(x)'
  BY <1>2 DEF Start
<1>3. ASSUME NEW w \in Worker, Poll(w) PROVE GivenUp(x)'
  BY <1>3 DEF Poll
<1>4. ASSUME NEW w \in Worker, Publish(w) PROVE GivenUp(x)'
  BY <1>4 DEF Publish
<1>5. ASSUME NEW w \in Worker, PublishClosed(w) PROVE GivenUp(x)'
  BY <1>5 DEF PublishClosed, CountError
<1>6. ASSUME NEW w \in Worker, PublishBreaks(w) PROVE GivenUp(x)'
  BY <1>6 DEF PublishBreaks, CountError, Deliver, Fault
<1>7. ASSUME NEW w \in Worker, HandleSuccess(w) PROVE GivenUp(x)'
  BY <1>7 DEF HandleSuccess, MarkPublished, Handled
<1>8. ASSUME NEW w \in Worker, HandleFailure(w) PROVE GivenUp(x)'
  <2>1. PICK e \in Event :
          /\ IsNext(w, e)
          /\ IF seen[w][e] + 1 >= MaxRetries
                THEN MarkFailed(e) /\ UNCHANGED retries
                ELSE IncrementRetry(e) /\ UNCHANGED status
          /\ Handled(w, e)
    BY <1>8 DEF HandleFailure
  <2>2. CASE seen[w][e] + 1 >= MaxRetries /\ x = e
    <3>1. Snapshot(w, e) /\ phase[w] = "unsent"
      BY <1>8 DEF HandleFailure, SnapInv
    <3>2. errors[e] = MaxRetries
      BY <2>1, <2>2, <3>1, GiveUpOnTime
    <3>3. QED
      BY <1>8, <2>2, <3>2 DEF HandleFailure
  <2>3. CASE seen[w][e] + 1 < MaxRetries \/ x # e
    <3>1. status'[x] = "failed" => status[x] = "failed"
      BY <2>1, <2>3 DEF MarkFailed
    <3>2. QED
      BY <1>8, <3>1 DEF HandleFailure
  <2>4. seen[w][e] \in Nat
    OBVIOUS
  <2>5. QED
    BY <2>2, <2>3, <2>4
<1>9. ASSUME NEW w \in Worker, UpdateFails(w) PROVE GivenUp(x)'
  BY <1>9 DEF UpdateFails, Handled, Fault
<1>10. ASSUME NEW w \in Worker, Stop(w) PROVE GivenUp(x)'
  BY <1>10 DEF Stop
<1>11. ASSUME NEW w \in Worker, NoticeStop(w) PROVE GivenUp(x)'
  BY <1>11 DEF NoticeStop
<1>12. ASSUME NEW w \in Worker, Exit(w) PROVE GivenUp(x)'
  BY <1>12 DEF Exit, Deliver
<1>13. ASSUME NEW w \in Worker, Crash(w) PROVE GivenUp(x)'
  BY <1>13 DEF Crash, Fault
<1>14. ASSUME NEW w \in Worker, Close(w) PROVE GivenUp(x)'
  BY <1>14 DEF Close
<1>15. ASSUME NEW w \in Worker, NEW e \in Event, Accept(w, e) PROVE GivenUp(x)'
  BY <1>15 DEF Accept, Deliver
<1>16. ASSUME NEW w \in Worker, NEW e \in Event, Drop(w, e) PROVE GivenUp(x)'
  BY <1>16 DEF Drop
<1>17. CASE UNCHANGED vars
  BY <1>17 DEF vars
<1>18. QED
  BY <1>1, <1>2, <1>3, <1>4, <1>5, <1>6, <1>7, <1>8, <1>9,
     <1>10, <1>11, <1>12, <1>13, <1>14, <1>15, <1>16, <1>17
  DEF Next, Work

(* A row is marked failed only after MaxRetries publish errors of that row, *)
(* although each worker decides on the count it fetched.                    *)
THEOREM FailuresAreEarned == Spec => []FailedAfterRetries
<1> DEFINE Inv == TypeOK /\ CountInv /\ SnapInv
<1>1. Init => Inv
  <2> SUFFICES ASSUME Init PROVE SnapInv
    BY InitType, CountInit
  <2>1. QED
    BY LimitAssumption DEF Init, SnapInv, Snapshot, GivenUp, Nothing
<1>2. Inv /\ [Next]_vars => Inv'
  <2> SUFFICES ASSUME Inv, [Next]_vars PROVE Inv'
    OBVIOUS
  <2>1. TypeOK' /\ CountInv'
    BY TypeStep, CountStep
  <2>2. RetriesAreErrors
    BY CountImplies
  <2>3. ASSUME NEW w \in Worker, NEW e \in Event PROVE Snapshot(w, e)'
    BY <2>2, SnapshotStep DEF SnapInv
  <2>4. ASSUME NEW e \in Event PROVE GivenUp(e)'
    BY GivenUpStep
  <2>5. QED
    BY <2>1, <2>3, <2>4 DEF SnapInv
<1>3. Inv => FailedAfterRetries
  BY DEF SnapInv, GivenUp, FailedAfterRetries
<1>4. QED
  BY <1>1, <1>2, <1>3, PTL DEF Spec

-------------------------------------------------------------------------------
(* Settled rows.                                                           *)

SettledEvent(e) ==
    /\ status[e] \in {"published", "failed"} => status'[e] # "pending"
    /\ status[e] = "failed" => status'[e] = "failed"

(* No step of any worker unsettles a row.                                 *)
LEMMA SettledStep ==
    ASSUME TypeOK, [Next]_vars, NEW x \in Event
    PROVE  SettledEvent(x)
<1> USE DEF TypeOK, SettledEvent, rowVars, workVars, netVars, limits
<1>1. ASSUME NEW e \in Event, CommitEvent(e) PROVE SettledEvent(x)
  BY <1>1 DEF CommitEvent
<1>2. ASSUME NEW w \in Worker, Start(w) PROVE SettledEvent(x)
  BY <1>2 DEF Start
<1>3. ASSUME NEW w \in Worker, Poll(w) PROVE SettledEvent(x)
  BY <1>3 DEF Poll
<1>4. ASSUME NEW w \in Worker, Publish(w) PROVE SettledEvent(x)
  BY <1>4 DEF Publish
<1>5. ASSUME NEW w \in Worker, PublishClosed(w) PROVE SettledEvent(x)
  BY <1>5 DEF PublishClosed, CountError
<1>6. ASSUME NEW w \in Worker, PublishBreaks(w) PROVE SettledEvent(x)
  BY <1>6 DEF PublishBreaks, CountError, Deliver, Fault
<1>7. ASSUME NEW w \in Worker, HandleSuccess(w) PROVE SettledEvent(x)
  BY <1>7 DEF HandleSuccess, MarkPublished, Handled
<1>8. ASSUME NEW w \in Worker, HandleFailure(w) PROVE SettledEvent(x)
  BY <1>8 DEF HandleFailure, MarkFailed, IncrementRetry, Handled
<1>9. ASSUME NEW w \in Worker, UpdateFails(w) PROVE SettledEvent(x)
  BY <1>9 DEF UpdateFails, Handled, Fault
<1>10. ASSUME NEW w \in Worker, Stop(w) PROVE SettledEvent(x)
  BY <1>10 DEF Stop
<1>11. ASSUME NEW w \in Worker, NoticeStop(w) PROVE SettledEvent(x)
  BY <1>11 DEF NoticeStop
<1>12. ASSUME NEW w \in Worker, Exit(w) PROVE SettledEvent(x)
  BY <1>12 DEF Exit, Deliver
<1>13. ASSUME NEW w \in Worker, Crash(w) PROVE SettledEvent(x)
  BY <1>13 DEF Crash, Fault
<1>14. ASSUME NEW w \in Worker, Close(w) PROVE SettledEvent(x)
  BY <1>14 DEF Close
<1>15. ASSUME NEW w \in Worker, NEW e \in Event, Accept(w, e) PROVE SettledEvent(x)
  BY <1>15 DEF Accept, Deliver
<1>16. ASSUME NEW w \in Worker, NEW e \in Event, Drop(w, e) PROVE SettledEvent(x)
  BY <1>16 DEF Drop
<1>17. CASE UNCHANGED vars
  BY <1>17 DEF vars
<1>18. QED
  BY <1>1, <1>2, <1>3, <1>4, <1>5, <1>6, <1>7, <1>8, <1>9,
     <1>10, <1>11, <1>12, <1>13, <1>14, <1>15, <1>16, <1>17
  DEF Next, Work

(* No UPDATE revives a row that was settled, and a failed row stays failed. *)
THEOREM SettledForGood == Spec => SettledStays
<1>1. TypeOK /\ [Next]_vars =>
        [\A e \in Event : SettledEvent(e)]_vars
  BY SettledStep
<1>2. QED
  BY <1>1, TypeCorrect, PTL DEF Spec, SettledStays, SettledEvent

-------------------------------------------------------------------------------
(* A single worker.  Nobody else touches the rows of its batch, so they are *)
(* still pending and its copies of retry_count are exact.                   *)

SingleWorker == \A v \in Worker, w \in Worker : v = w
Fresh(w, e) == e \in batch[w] => status[e] = "pending" /\ seen[w][e] = retries[e]
InBudget(e) == status[e] = "pending" => retries[e] < MaxRetries
Unsent(e) == status[e] = "absent" => retries[e] = 0
SingleInv == /\ \A w \in Worker, e \in Event : Fresh(w, e)
             /\ \A e \in Event : InBudget(e) /\ Unsent(e)

(* The copy of a single worker stays fresh.                               *)
LEMMA FreshStep ==
    ASSUME SingleWorker, TypeOK, [Next]_vars,
           NEW v \in Worker, NEW x \in Event, Fresh(v, x)
    PROVE  Fresh(v, x)'
<1> USE DEF SingleWorker, TypeOK, Fresh, Pending, Oldest, Nothing,
            rowVars, workVars, netVars, limits
<1>1. ASSUME NEW e \in Event, CommitEvent(e) PROVE Fresh(v, x)'
  BY <1>1 DEF CommitEvent
<1>2. ASSUME NEW w \in Worker, Start(w) PROVE Fresh(v, x)'
  BY <1>2 DEF Start
<1>3. ASSUME NEW w \in Worker, Poll(w) PROVE Fresh(v, x)'
  BY <1>3 DEF Poll
<1>4. ASSUME NEW w \in Worker, Publish(w) PROVE Fresh(v, x)'
  BY <1>4 DEF Publish
<1>5. ASSUME NEW w \in Worker, PublishClosed(w) PROVE Fresh(v, x)'
  BY <1>5 DEF PublishClosed, CountError
<1>6. ASSUME NEW w \in Worker, PublishBreaks(w) PROVE Fresh(v, x)'
  BY <1>6 DEF PublishBreaks, CountError, Deliver, Fault
<1>7. ASSUME NEW w \in Worker, HandleSuccess(w) PROVE Fresh(v, x)'
  <2>1. PICK e \in Event : IsNext(w, e) /\ MarkPublished(e) /\ Handled(w, e)
    BY <1>7 DEF HandleSuccess
  <2>2. v = w
    OBVIOUS
  <2>3. batch'[v] = batch[v] \ {e}
    BY <2>1, <2>2 DEF Handled
  <2>4. x # e => status'[x] = status[x] /\ seen'[v][x] = seen[v][x]
    BY <2>1, <2>2 DEF MarkPublished, Handled
  <2>5. QED
    BY <1>7, <2>3, <2>4 DEF HandleSuccess
<1>8. ASSUME NEW w \in Worker, HandleFailure(w) PROVE Fresh(v, x)'
  <2>1. PICK e \in Event :
          /\ IF seen[w][e] + 1 >= MaxRetries
                THEN MarkFailed(e) /\ UNCHANGED retries
                ELSE IncrementRetry(e) /\ UNCHANGED status
          /\ Handled(w, e)
    BY <1>8 DEF HandleFailure
  <2>2. v = w
    OBVIOUS
  <2>3. batch'[v] = batch[v] \ {e}
    BY <2>1, <2>2 DEF Handled
  <2>4. x # e => seen'[v][x] = seen[v][x]
    BY <2>1, <2>2 DEF Handled
  <2>5. x # e => status'[x] = status[x] /\ retries'[x] = retries[x]
    BY <2>1 DEF MarkFailed, IncrementRetry
  <2>6. QED
    BY <2>3, <2>4, <2>5
<1>9. ASSUME NEW w \in Worker, UpdateFails(w) PROVE Fresh(v, x)'
  <2>1. PICK e \in Event : Handled(w, e)
    BY <1>9 DEF UpdateFails
  <2>2. v = w
    OBVIOUS
  <2>3. batch'[v] = batch[v] \ {e}
    BY <2>1, <2>2 DEF Handled
  <2>4. x # e => seen'[v][x] = seen[v][x]
    BY <2>1, <2>2 DEF Handled
  <2>5. QED
    BY <1>9, <2>3, <2>4 DEF UpdateFails
<1>10. ASSUME NEW w \in Worker, Stop(w) PROVE Fresh(v, x)'
  BY <1>10 DEF Stop
<1>11. ASSUME NEW w \in Worker, NoticeStop(w) PROVE Fresh(v, x)'
  BY <1>11 DEF NoticeStop
<1>12. ASSUME NEW w \in Worker, Exit(w) PROVE Fresh(v, x)'
  BY <1>12 DEF Exit, Deliver
<1>13. ASSUME NEW w \in Worker, Crash(w) PROVE Fresh(v, x)'
  BY <1>13 DEF Crash, Fault
<1>14. ASSUME NEW w \in Worker, Close(w) PROVE Fresh(v, x)'
  BY <1>14 DEF Close
<1>15. ASSUME NEW w \in Worker, NEW e \in Event, Accept(w, e) PROVE Fresh(v, x)'
  BY <1>15 DEF Accept, Deliver
<1>16. ASSUME NEW w \in Worker, NEW e \in Event, Drop(w, e) PROVE Fresh(v, x)'
  BY <1>16 DEF Drop
<1>17. CASE UNCHANGED vars
  BY <1>17 DEF vars
<1>18. QED
  BY <1>1, <1>2, <1>3, <1>4, <1>5, <1>6, <1>7, <1>8, <1>9,
     <1>10, <1>11, <1>12, <1>13, <1>14, <1>15, <1>16, <1>17
  DEF Next, Work

(* A single worker fails a row before its retries run out.                *)
LEMMA BudgetStep ==
    ASSUME SingleWorker, TypeOK, SingleInv, [Next]_vars, NEW x \in Event
    PROVE  InBudget(x)' /\ Unsent(x)'
<1> InBudget(x) /\ Unsent(x)
  BY DEF SingleInv
<1> USE LimitAssumption
        DEF TypeOK, InBudget, Unsent, rowVars, workVars, netVars, limits
<1>1. ASSUME NEW e \in Event, CommitEvent(e) PROVE InBudget(x)' /\ Unsent(x)'
  BY <1>1 DEF CommitEvent
<1>2. ASSUME NEW w \in Worker, Start(w) PROVE InBudget(x)' /\ Unsent(x)'
  BY <1>2 DEF Start
<1>3. ASSUME NEW w \in Worker, Poll(w) PROVE InBudget(x)' /\ Unsent(x)'
  BY <1>3 DEF Poll
<1>4. ASSUME NEW w \in Worker, Publish(w) PROVE InBudget(x)' /\ Unsent(x)'
  BY <1>4 DEF Publish
<1>5. ASSUME NEW w \in Worker, PublishClosed(w) PROVE InBudget(x)' /\ Unsent(x)'
  BY <1>5 DEF PublishClosed, CountError
<1>6. ASSUME NEW w \in Worker, PublishBreaks(w) PROVE InBudget(x)' /\ Unsent(x)'
  BY <1>6 DEF PublishBreaks, CountError, Deliver, Fault
<1>7. ASSUME NEW w \in Worker, HandleSuccess(w) PROVE InBudget(x)' /\ Unsent(x)'
  BY <1>7 DEF HandleSuccess, MarkPublished, Handled
<1>8. ASSUME NEW w \in Worker, HandleFailure(w) PROVE InBudget(x)' /\ Unsent(x)'
  <2>1. PICK e \in Event :
          /\ IsNext(w, e)
          /\ IF seen[w][e] + 1 >= MaxRetries
                THEN MarkFailed(e) /\ UNCHANGED retries
                ELSE IncrementRetry(e) /\ UNCHANGED status
          /\ Handled(w, e)
    BY <1>8 DEF HandleFailure
  <2>2. status[e] = "pending" /\ seen[w][e] = retries[e]
    BY <2>1 DEF IsNext, SingleInv, Fresh
  <2>3. CASE x = e
    <3>1. CASE seen[w][e] + 1 >= MaxRetries
      BY <2>1, <2>3, <3>1 DEF MarkFailed
    <3>2. CASE ~(seen[w][e] + 1 >= MaxRetries)
      <4>1. retries'[x] = retries[x] + 1 /\ status' = status
        BY <2>1, <2>2, <2>3, <3>2 DEF IncrementRetry
      <4>2. retries[x] \in Nat /\ MaxRetries \in Nat
        OBVIOUS
      <4>3. retries'[x] < MaxRetries
        BY <2>2, <2>3, <3>2, <4>1, <4>2
      <4>4. QED
        BY <2>2, <2>3, <4>1, <4>3
    <3>3. QED
      BY <3>1, <3>2
  <2>4. CASE x # e
    <3>1. status'[x] = status[x] /\ retries'[x] = retries[x]
      BY <2>1, <2>4 DEF MarkFailed, IncrementRetry
    <3>2. QED
      BY <3>1
  <2>5. QED
    BY <2>3, <2>4
<1>9. ASSUME NEW w \in Worker, UpdateFails(w) PROVE InBudget(x)' /\ Unsent(x)'
  BY <1>9 DEF UpdateFails, Handled, Fault
<1>10. ASSUME NEW w \in Worker, Stop(w) PROVE InBudget(x)' /\ Unsent(x)'
  BY <1>10 DEF Stop
<1>11. ASSUME NEW w \in Worker, NoticeStop(w) PROVE InBudget(x)' /\ Unsent(x)'
  BY <1>11 DEF NoticeStop
<1>12. ASSUME NEW w \in Worker, Exit(w) PROVE InBudget(x)' /\ Unsent(x)'
  BY <1>12 DEF Exit, Deliver
<1>13. ASSUME NEW w \in Worker, Crash(w) PROVE InBudget(x)' /\ Unsent(x)'
  BY <1>13 DEF Crash, Fault
<1>14. ASSUME NEW w \in Worker, Close(w) PROVE InBudget(x)' /\ Unsent(x)'
  BY <1>14 DEF Close
<1>15. ASSUME NEW w \in Worker, NEW e \in Event, Accept(w, e) PROVE InBudget(x)' /\ Unsent(x)'
  BY <1>15 DEF Accept, Deliver
<1>16. ASSUME NEW w \in Worker, NEW e \in Event, Drop(w, e) PROVE InBudget(x)' /\ Unsent(x)'
  BY <1>16 DEF Drop
<1>17. CASE UNCHANGED vars
  BY <1>17 DEF vars
<1>18. QED
  BY <1>1, <1>2, <1>3, <1>4, <1>5, <1>6, <1>7, <1>8, <1>9,
     <1>10, <1>11, <1>12, <1>13, <1>14, <1>15, <1>16, <1>17
  DEF Next, Work

FinalEvent(e) == status[e] = "published" => status'[e] = "published"

(* A single worker never touches a row that is not pending.               *)
LEMMA FinalStep ==
    ASSUME TypeOK, SingleInv, [Next]_vars, NEW x \in Event
    PROVE  FinalEvent(x)
<1> USE DEF TypeOK, FinalEvent, rowVars, workVars, netVars, limits
<1>1. ASSUME NEW e \in Event, CommitEvent(e) PROVE FinalEvent(x)
  BY <1>1 DEF CommitEvent
<1>2. ASSUME NEW w \in Worker, Start(w) PROVE FinalEvent(x)
  BY <1>2 DEF Start
<1>3. ASSUME NEW w \in Worker, Poll(w) PROVE FinalEvent(x)
  BY <1>3 DEF Poll
<1>4. ASSUME NEW w \in Worker, Publish(w) PROVE FinalEvent(x)
  BY <1>4 DEF Publish
<1>5. ASSUME NEW w \in Worker, PublishClosed(w) PROVE FinalEvent(x)
  BY <1>5 DEF PublishClosed, CountError
<1>6. ASSUME NEW w \in Worker, PublishBreaks(w) PROVE FinalEvent(x)
  BY <1>6 DEF PublishBreaks, CountError, Deliver, Fault
<1>7. ASSUME NEW w \in Worker, HandleSuccess(w) PROVE FinalEvent(x)
  BY <1>7 DEF HandleSuccess, MarkPublished, Handled
<1>8. ASSUME NEW w \in Worker, HandleFailure(w) PROVE FinalEvent(x)
  <2>1. PICK e \in Event :
          /\ IsNext(w, e)
          /\ IF seen[w][e] + 1 >= MaxRetries
                THEN MarkFailed(e) /\ UNCHANGED retries
                ELSE IncrementRetry(e) /\ UNCHANGED status
    BY <1>8 DEF HandleFailure
  <2>2. status[e] = "pending"
    BY <2>1 DEF IsNext, SingleInv, Fresh
  <2>3. QED
    BY <2>1, <2>2 DEF MarkFailed
<1>9. ASSUME NEW w \in Worker, UpdateFails(w) PROVE FinalEvent(x)
  BY <1>9 DEF UpdateFails, Handled, Fault
<1>10. ASSUME NEW w \in Worker, Stop(w) PROVE FinalEvent(x)
  BY <1>10 DEF Stop
<1>11. ASSUME NEW w \in Worker, NoticeStop(w) PROVE FinalEvent(x)
  BY <1>11 DEF NoticeStop
<1>12. ASSUME NEW w \in Worker, Exit(w) PROVE FinalEvent(x)
  BY <1>12 DEF Exit, Deliver
<1>13. ASSUME NEW w \in Worker, Crash(w) PROVE FinalEvent(x)
  BY <1>13 DEF Crash, Fault
<1>14. ASSUME NEW w \in Worker, Close(w) PROVE FinalEvent(x)
  BY <1>14 DEF Close
<1>15. ASSUME NEW w \in Worker, NEW e \in Event, Accept(w, e) PROVE FinalEvent(x)
  BY <1>15 DEF Accept, Deliver
<1>16. ASSUME NEW w \in Worker, NEW e \in Event, Drop(w, e) PROVE FinalEvent(x)
  BY <1>16 DEF Drop
<1>17. CASE UNCHANGED vars
  BY <1>17 DEF vars
<1>18. QED
  BY <1>1, <1>2, <1>3, <1>4, <1>5, <1>6, <1>7, <1>8, <1>9,
     <1>10, <1>11, <1>12, <1>13, <1>14, <1>15, <1>16, <1>17
  DEF Next, Work

(* The invariant of a single worker is inductive.                         *)
LEMMA SingleInductive ==
    /\ Init => TypeOK /\ SingleInv
    /\ SingleWorker /\ TypeOK /\ SingleInv /\ [Next]_vars => (TypeOK /\ SingleInv)'
<1>1. Init => SingleInv
  BY LimitAssumption
  DEF Init, SingleInv, Fresh, InBudget, Unsent, Nothing
<1>2. SingleWorker /\ TypeOK /\ SingleInv /\ [Next]_vars => SingleInv'
  <2> SUFFICES ASSUME SingleWorker, TypeOK, SingleInv, [Next]_vars
               PROVE  SingleInv'
    OBVIOUS
  <2>1. ASSUME NEW w \in Worker, NEW e \in Event PROVE Fresh(w, e)'
    BY FreshStep DEF SingleInv
  <2>2. ASSUME NEW e \in Event PROVE InBudget(e)' /\ Unsent(e)'
    BY BudgetStep
  <2>3. QED
    BY <2>1, <2>2 DEF SingleInv
<1>3. QED
  BY <1>1, <1>2, InitType, TypeStep

(* With one worker a pending row always has a retry left: the error that   *)
(* uses up the last one marks the row failed in the same UPDATE.           *)
THEOREM BudgetOfOneWorker == SingleWorker => (Spec => []RetryBudget)
<1> SUFFICES ASSUME SingleWorker
             PROVE  Spec => []RetryBudget
    OBVIOUS
<1>1. Init => TypeOK /\ SingleInv
  BY SingleInductive
<1>2. TypeOK /\ SingleInv /\ [Next]_vars => (TypeOK /\ SingleInv)'
  BY SingleInductive
<1>3. SingleInv => RetryBudget
  BY DEF SingleInv, InBudget, RetryBudget
<1>4. QED
  BY <1>1, <1>2, <1>3, PTL DEF Spec

(* With one worker a published row is final.                               *)
THEOREM FinalWithOneWorker == SingleWorker => (Spec => PublishedIsFinal)
<1> SUFFICES ASSUME SingleWorker
             PROVE  Spec => PublishedIsFinal
    OBVIOUS
<1>1. Init => TypeOK /\ SingleInv
  BY SingleInductive
<1>2. TypeOK /\ SingleInv /\ [Next]_vars => (TypeOK /\ SingleInv)'
  BY SingleInductive
<1>3. TypeOK /\ SingleInv /\ [Next]_vars =>
        [\A e \in Event : FinalEvent(e)]_vars
  BY FinalStep
<1>4. QED
  BY <1>1, <1>2, <1>3, PTL DEF Spec, PublishedIsFinal, FinalEvent

-------------------------------------------------------------------------------
(* Delivery by a single worker, as long as nothing fails.  A message goes   *)
(* out only for a pending row, and that row is marked published before the  *)
(* worker looks at the next one: whatever was handed to the connection is    *)
(* published, but for the row whose UPDATE is under way.                     *)

Handed(w, e) == delivered[e] > 0 \/ e \in inflight[w]
AtMostOnce(w, e) ==
    /\ delivered[e] <= 1
    /\ e \in inflight[w] => delivered[e] = 0
    /\ Handed(w, e) =>
          status[e] = "published" \/ (phase[w] = "sent" /\ IsNext(w, e))
OnceInv ==
    faultsLeft = MaxFaults =>
        \A e \in Event : /\ delivered[e] <= 1
                         /\ \A w \in Worker : AtMostOnce(w, e)

(* A step without a fault hands out no message a second time.             *)
LEMMA OnceStep ==
    ASSUME SingleWorker, TypeOK, SingleInv, [Next]_vars,
           faultsLeft = MaxFaults, faultsLeft' = MaxFaults,
           NEW v \in Worker, NEW x \in Event, AtMostOnce(v, x)
    PROVE  AtMostOnce(v, x)'
<1> USE LimitAssumption
        DEF SingleWorker, TypeOK, AtMostOnce, Handed, rowVars, workVars, netVars, limits
<1>1. ASSUME NEW e \in Event, CommitEvent(e) PROVE AtMostOnce(v, x)'
  BY <1>1 DEF CommitEvent, IsNext
<1>2. ASSUME NEW w \in Worker, Start(w) PROVE AtMostOnce(v, x)'
  BY <1>2 DEF Start, IsNext
<1>3. ASSUME NEW w \in Worker, Poll(w) PROVE AtMostOnce(v, x)'
  BY <1>3 DEF Poll, IsNext
<1>4. ASSUME NEW w \in Worker, Publish(w) PROVE AtMostOnce(v, x)'
  <2>1. PICK e \in Event :
          IsNext(w, e) /\ inflight' = [inflight EXCEPT ![w] = @ \cup {e}]
    BY <1>4 DEF Publish
  <2>2. phase'[v] = "sent" /\ phase[v] = "publish" /\ v = w
    BY <1>4 DEF Publish
  <2>3. UNCHANGED <<batch, status, delivered>>
    BY <1>4 DEF Publish
  <2>4. CASE x = e
    <3>1. IsNext(v, x)' /\ status[x] = "pending"
      BY <2>1, <2>2, <2>3, <2>4 DEF IsNext, SingleInv, Fresh
    <3>2. delivered[x] = 0
      BY <2>2, <3>1
    <3>3. QED
      BY <2>2, <2>3, <3>1, <3>2
  <2>5. CASE x # e
    <3>1. x \in inflight'[v] => x \in inflight[v]
      BY <2>1, <2>2, <2>5
    <3>2. Handed(v, x)' => status'[x] = "published"
      BY <2>2, <2>3, <3>1
    <3>3. QED
      BY <2>3, <3>1, <3>2
  <2>6. QED
    BY <2>4, <2>5
<1>5. ASSUME NEW w \in Worker, PublishClosed(w) PROVE AtMostOnce(v, x)'
  BY <1>5 DEF PublishClosed, CountError, IsNext
<1>6. ASSUME NEW w \in Worker, PublishBreaks(w) PROVE AtMostOnce(v, x)'
  BY <1>6 DEF PublishBreaks, Fault
<1>7. ASSUME NEW w \in Worker, HandleSuccess(w) PROVE AtMostOnce(v, x)'
  <2>1. PICK e \in Event : IsNext(w, e) /\ MarkPublished(e)
    BY <1>7 DEF HandleSuccess
  <2>2. status[e] = "pending" /\ v = w
    BY <2>1 DEF IsNext, SingleInv, Fresh
  <2>3. UNCHANGED <<inflight, delivered>>
    BY <1>7 DEF HandleSuccess
  <2>4. CASE x = e
    BY <2>1, <2>2, <2>3, <2>4 DEF MarkPublished
  <2>5. CASE x # e
    <3>1. Handed(v, x) => status[x] = "published"
      BY <2>1, <2>2, <2>5, NextIsUnique
    <3>2. QED
      BY <2>1, <2>3, <2>5, <3>1 DEF MarkPublished
  <2>6. QED
    BY <2>4, <2>5
<1>8. ASSUME NEW w \in Worker, HandleFailure(w) PROVE AtMostOnce(v, x)'
  <2>1. PICK e \in Event : IsNext(w, e) /\ (MarkFailed(e) \/ UNCHANGED status)
    BY <1>8 DEF HandleFailure
  <2>2. status[e] = "pending" /\ phase[v] = "unsent"
    BY <1>8, <2>1 DEF HandleFailure, IsNext, SingleInv, Fresh
  <2>3. UNCHANGED <<inflight, delivered>>
    BY <1>8 DEF HandleFailure
  <2>4. Handed(v, x) => status'[x] = "published"
    BY <2>1, <2>2 DEF MarkFailed
  <2>5. QED
    BY <2>3, <2>4
<1>9. ASSUME NEW w \in Worker, UpdateFails(w) PROVE AtMostOnce(v, x)'
  BY <1>9 DEF UpdateFails, Fault
<1>10. ASSUME NEW w \in Worker, Stop(w) PROVE AtMostOnce(v, x)'
  BY <1>10 DEF Stop, IsNext
<1>11. ASSUME NEW w \in Worker, NoticeStop(w) PROVE AtMostOnce(v, x)'
  BY <1>11 DEF NoticeStop, IsNext
<1>12. ASSUME NEW w \in Worker, Exit(w) PROVE AtMostOnce(v, x)'
  <2>1. v = w /\ phase[v] = "stopped" /\ UNCHANGED <<status, batch>>
    BY <1>12 DEF Exit
  <2>2. inflight'[v] = {}
    BY <1>12, <2>1 DEF Exit
  <2>3. delivered'[x] = IF x \in inflight[w] /\ delivered[x] < 2
                        THEN delivered[x] + 1 ELSE delivered[x]
    BY <1>12 DEF Exit, Deliver
  <2>4. QED
    BY <2>1, <2>2, <2>3
<1>13. ASSUME NEW w \in Worker, Crash(w) PROVE AtMostOnce(v, x)'
  BY <1>13 DEF Crash, Fault
<1>14. ASSUME NEW w \in Worker, Close(w) PROVE AtMostOnce(v, x)'
  BY <1>14 DEF Close, IsNext
<1>15. ASSUME NEW w \in Worker, NEW e \in Event, Accept(w, e) PROVE AtMostOnce(v, x)'
  <2>1. v = w /\ UNCHANGED <<phase, status, batch>>
    BY <1>15 DEF Accept
  <2>2. inflight'[v] = inflight[v] \ {e} /\ e \in inflight[v]
    BY <1>15, <2>1 DEF Accept
  <2>3. delivered'[x] = IF x = e /\ delivered[x] < 2
                        THEN delivered[x] + 1 ELSE delivered[x]
    BY <1>15 DEF Accept, Deliver
  <2>4. Handed(v, x)' => Handed(v, x)
    BY <2>2, <2>3
  <2>5. delivered'[x] <= 1 /\ (x \in inflight'[v] => delivered'[x] = 0)
    BY <2>2, <2>3
  <2>6. QED
    BY <2>1, <2>4, <2>5 DEF IsNext
<1>16. ASSUME NEW w \in Worker, NEW e \in Event, Drop(w, e) PROVE AtMostOnce(v, x)'
  BY <1>16 DEF Drop, IsNext
<1>17. CASE UNCHANGED vars
  BY <1>17 DEF vars, IsNext
<1>18. QED
  BY <1>1, <1>2, <1>3, <1>4, <1>5, <1>6, <1>7, <1>8, <1>9,
     <1>10, <1>11, <1>12, <1>13, <1>14, <1>15, <1>16, <1>17
  DEF Next, Work

(* Faults that were used stay used, and without a worker nothing is sent.  *)
LEMMA FaultsGrow ==
    ASSUME TypeOK, [Next]_vars
    PROVE  /\ faultsLeft' = MaxFaults => faultsLeft = MaxFaults
           /\ Worker = {} => UNCHANGED delivered
<1> USE LimitAssumption DEF TypeOK, limits
<1>1. faultsLeft' = faultsLeft \/ Fault
  BY DEF Next, Work, vars, CommitEvent, Start, Poll, Publish, PublishClosed,
         PublishBreaks, HandleSuccess, HandleFailure, UpdateFails, Stop, NoticeStop,
         Exit, Crash, Close, Accept, Drop
<1>2. Worker = {} => UNCHANGED delivered
  BY DEF Next, vars, CommitEvent, netVars
<1>3. QED
  BY <1>1, <1>2 DEF Fault

(* With one worker, no event reaches the broker twice until a process crashes,
   an UPDATE fails or a publish is cut in half: not when the channel closes
   under published messages, and not across graceful restarts.              *)
THEOREM OnceWithOneWorker == SingleWorker => (Spec => []DeliveredOnce)
<1> SUFFICES ASSUME SingleWorker
             PROVE  Spec => []DeliveredOnce
    OBVIOUS
<1> DEFINE Inv == TypeOK /\ SingleInv /\ OnceInv
<1>1. Init => Inv
  <2>1. Init => OnceInv
    BY DEF Init, OnceInv, AtMostOnce, Handed, Nothing
  <2>2. QED
    BY <2>1, SingleInductive
<1>2. Inv /\ [Next]_vars => Inv'
  <2> SUFFICES ASSUME Inv, [Next]_vars, faultsLeft' = MaxFaults,
                      NEW e \in Event
               PROVE  delivered'[e] <= 1 /\ \A w \in Worker : AtMostOnce(w, e)'
    BY SingleInductive DEF OnceInv
  <2>1. faultsLeft = MaxFaults
    BY FaultsGrow
  <2>2. ASSUME NEW w \in Worker PROVE AtMostOnce(w, e)'
    BY <2>1, OnceStep DEF OnceInv
  <2>3. CASE Worker = {}
    BY <2>1, <2>3, FaultsGrow DEF OnceInv
  <2>4. CASE Worker # {}
    BY <2>2, <2>4 DEF AtMostOnce
  <2>5. QED
    BY <2>2, <2>3, <2>4
<1>3. Inv => DeliveredOnce
  BY DEF OnceInv, DeliveredOnce
<1>4. QED
  BY <1>1, <1>2, <1>3, PTL DEF Spec
===============================================================================
