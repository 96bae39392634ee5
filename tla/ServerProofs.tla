------------------------------ MODULE ServerProofs ------------------------------
(***************************************************************************)
(* Documents under a server that shuts down, fails or is killed, for every *)
(* number of uploads, every deadline and every budget of the shutdown that *)
(* is not shorter than it.                                                 *)
(***************************************************************************)
EXTENDS Server, Integers, TLAPS

-------------------------------------------------------------------------------
(* The uploads.                                                             *)

Target == [tenant : Tenant, tx : Transaction]

(* What an upload has done at each of its steps.                            *)
DocShape(r) ==
    /\ pc[r] # "idle" => target[r] \in Target
    /\ pc[r] \in {"idle", "lookup"} => r \notin objects
    /\ pc[r] \notin Ended => r \notin rows /\ status[r] = 0
    /\ pc[r] \in {"upload", "insert"} => Found(r)
    /\ pc[r] = "insert" => r \in objects
    /\ r \in rows => r \in objects /\ Found(r)
    /\ status[r] = 201 => r \in rows
    /\ status[r] = 404 => r \notin objects /\ r \notin rows

DocInv == DocumentsTypeOK /\ \A r \in Request : DocShape(r)

(* A new upload has done nothing.                                           *)
LEMMA ReceiveKeeps ==
  ASSUME DocInv, NEW r \in Request, Receive(r), UNCHANGED pool
  PROVE  DocInv'
<1>1. PICK t \in Tenant, x \in Transaction :
        target' = [target EXCEPT ![r] = [tenant |-> t, tx |-> x]]
  BY DEF Receive
<1>2. [tenant |-> t, tx |-> x] \in Target
  BY DEF Target
<1>3. /\ pc[r] = "idle" /\ pc' = [pc EXCEPT ![r] = "lookup"]
      /\ ctxDone' = ctxDone /\ status' = status /\ objects' = objects /\ rows' = rows
  BY DEF Receive, Goto
<1>4. DocumentsTypeOK'
  BY <1>1, <1>2, <1>3 DEF DocInv, DocumentsTypeOK, Target, Running
<1>5. ASSUME NEW q \in Request
      PROVE  DocShape(q)'
  BY <1>1, <1>2, <1>3 DEF DocInv, DocumentsTypeOK, DocShape, Found, Ended
<1>6. QED
  BY <1>4, <1>5 DEF DocInv

(* Every step of an upload, failures included.                              *)
LEMMA ProceedKeeps ==
  ASSUME DocInv, NEW r \in Request, Proceed(r), UNCHANGED pool
  PROVE  DocInv'
<1> USE DEF DocInv, Answer, Goto
<1>1. target' = target /\ ctxDone' = ctxDone
  BY DEF Proceed, LookUp, LookUpFails, UploadFile, UploadFails, CreateDocument,
         CreateDocumentFails
<1>2. CASE LookUp(r)
  BY <1>1, <1>2 DEF LookUp, DocumentsTypeOK, DocShape, Found, Running, Ended
<1>3. CASE LookUpFails(r)
  BY <1>1, <1>3 DEF LookUpFails, DocumentsTypeOK, DocShape, Found, Running, Ended
<1>4. CASE UploadFile(r)
  BY <1>1, <1>4 DEF UploadFile, DocumentsTypeOK, DocShape, Found, Running, Ended
<1>5. CASE UploadFails(r)
  BY <1>1, <1>5 DEF UploadFails, DocumentsTypeOK, DocShape, Found, Running, Ended
<1>6. CASE CreateDocument(r)
  BY <1>1, <1>6 DEF CreateDocument, DocumentsTypeOK, DocShape, Found, Running, Ended
<1>7. CASE CreateDocumentFails(r)
  BY <1>1, <1>7 DEF CreateDocumentFails, DocumentsTypeOK, DocShape, Found, Running, Ended
<1>8. QED
  BY <1>2, <1>3, <1>4, <1>5, <1>6, <1>7 DEF Proceed

(* Deadlines that pass, a pool that is closed and a process that ends undo
   nothing of what an upload has done.                                      *)
LEMMA EndKeeps ==
  ASSUME DocInv, UNCHANGED <<target, status, objects, rows>>,
         ctxDone' \in [Request -> BOOLEAN], pool' \in {"open", "closed"},
         pc' = pc \/ Stops
  PROVE  DocInv'
<1>1. pc' \in [Request -> {"idle"} \cup Running \cup Ended]
  BY DEF DocInv, DocumentsTypeOK, Stops, Ended
<1>2. \A r \in Request : pc'[r] = pc[r] \/ (pc[r] \in Running /\ pc'[r] = "dead")
  BY DEF Stops, InFlight, DocInv, DocumentsTypeOK
<1>3. DocumentsTypeOK'
  BY <1>1 DEF DocInv, DocumentsTypeOK
<1>4. ASSUME NEW r \in Request
      PROVE  DocShape(r)'
  BY <1>2, <1>4 DEF DocInv, DocShape, Found, Running, Ended
<1>5. QED
  BY <1>3, <1>4 DEF DocInv

(* What the uploads of a server have done, whatever it does.                *)
LEMMA UploadsKeep ==
  ASSUME DocInv, [Next]_vars
  PROVE  DocInv'
<1>1. ASSUME NEW r \in Request, Accept(r)
      PROVE  DocInv'
  BY <1>1, ReceiveKeeps DEF Accept
<1>2. ASSUME NEW r \in Request, Handle(r)
      PROVE  DocInv'
  BY <1>2, ProceedKeeps DEF Handle
<1>3. ctxDone \in [Request -> BOOLEAN] /\ pool \in {"open", "closed"}
  BY DEF DocInv, DocumentsTypeOK
<1>4. CASE Tick
  <2>1. ctxDone' \in [Request -> BOOLEAN]
    BY <1>4 DEF Tick
  <2>2. QED
    BY <1>3, <1>4, <2>1, EndKeeps DEF Tick
<1>5. CASE ForceClose
  <2>1. ctxDone' \in [Request -> BOOLEAN]
    BY <1>5 DEF ForceClose
  <2>2. QED
    BY <1>3, <1>5, <2>1, EndKeeps DEF ForceClose
<1>6. CASE ClosePool
  BY <1>3, <1>6, EndKeeps DEF ClosePool, docVars
<1>7. CASE Exit \/ Crash
  BY <1>3, <1>7, EndKeeps DEF Exit, Crash
<1>8. CASE UNCHANGED <<docVars, pool>>
  BY <1>3, <1>8, EndKeeps DEF docVars
<1>9. QED
  BY <1>1, <1>2, <1>4, <1>5, <1>6, <1>7, <1>8
     DEF Next, Main, RunMigrations, Connect, Signal, WorkerStopped, ShutdownReturns,
         ListenFails, vars

(* At the start there are none.                                             *)
LEMMA UploadsStart == Init => DocInv
BY DEF Init, DocumentsInit, DocInv, DocumentsTypeOK, DocShape

(* Every document that ListTransactionDocuments lists belongs to a transaction
   of its tenant and is in the object store, whatever failed and whenever the
   server stopped: the object comes first, the row second.                  *)
THEOREM ListedExist == Spec => []ListedDocumentsExist
<1>1. DocInv => ListedDocumentsExist
  BY DEF DocInv, DocumentsTypeOK, DocShape, Found, ListedDocumentsExist,
         ListTransactionDocuments
<1>2. QED
  BY <1>1, UploadsStart, UploadsKeep, PTL DEF Spec

(* Who was told 201 finds the document; who was told 404 left nothing.      *)
THEOREM AnswersAreTrue == Spec => []AnswersHold
<1>1. DocInv => AnswersHold
  <2>1. SUFFICES ASSUME DocInv, NEW r \in Request
                 PROVE  /\ status[r] = 201 =>
                              r \in ListTransactionDocuments(target[r].tenant, target[r].tx)
                        /\ status[r] = 404 => r \notin objects \cup rows
    BY DEF AnswersHold
  <2>2. ASSUME status[r] = 201
        PROVE  target[r] = [tenant |-> target[r].tenant, tx |-> target[r].tx] /\ r \in rows
    BY <2>1, <2>2 DEF DocInv, DocumentsTypeOK, DocShape, Target, Ended
  <2>3. QED
    BY <2>1, <2>2 DEF DocInv, DocShape, ListTransactionDocuments
<1>2. QED
  BY <1>1, UploadsStart, UploadsKeep, PTL DEF Spec

-------------------------------------------------------------------------------
(* The shutdown.                                                            *)

MainTypes ==
    /\ phase \in Phases
    /\ left \in 0..Budget
    /\ age \in [Request -> 0..Timeout]
    /\ outstanding \subseteq Request
    /\ ending \in {"none", "signal", "forced", "error", "crash"}

(* A request that was outstanding at the signal has aged with the budget; once
   the server closes, nobody runs, or whoever does has been told.           *)
ShutInv ==
    /\ MainTypes
    /\ \A r \in Request : ~ctxDone[r] => age[r] < Timeout
    /\ \A r \in outstanding : pc[r] # "idle"
    /\ phase # "exited" => \A r \in Request : pc[r] # "dead"
    /\ phase \in {"migrate", "connect", "serve"} => ending = "none"
    /\ phase \in {"stopWorker", "shutdown"} =>
          /\ ending = "signal"
          /\ \A r \in outstanding \cap InFlight : age[r] >= Budget - left
    /\ phase \in {"close", "exited"} =>
          /\ ending = "signal" => Cut = {}
          /\ ending = "forced" =>
                /\ \A r \in outstanding \cap Cut : age[r] = Timeout
                /\ \A r \in InFlight : ctxDone[r]

(* The server has not started to shut down.                                 *)
LEMMA ShutStarts == Init => ShutInv
BY TimesAssumption
   DEF Init, DocumentsInit, ShutInv, MainTypes, Phases, InFlight, Running

(* A request that is accepted was never outstanding.                        *)
LEMMA AcceptShuts ==
  ASSUME DocInv, ShutInv, NEW r \in Request, Accept(r)
  PROVE  ShutInv'
<1>1. /\ pc[r] = "idle" /\ pc' = [pc EXCEPT ![r] = "lookup"] /\ r \notin outstanding
      /\ phase \in {"serve", "stopWorker"}
      /\ UNCHANGED <<ctxDone, phase, left, outstanding, ending, age>>
  BY DEF Accept, Receive, Goto, mainVars, ShutInv
<1>2. \A q \in Request \ {r} : pc'[q] = pc[q]
  BY <1>1 DEF DocInv, DocumentsTypeOK
<1>3. pc'[r] = "lookup"
  BY <1>1 DEF DocInv, DocumentsTypeOK
<1>4. QED
  BY <1>1, <1>2, <1>3 DEF ShutInv, MainTypes, InFlight

(* A handler goes on, or ends, and does not begin.                          *)
LEMMA HandleShuts ==
  ASSUME DocInv, ShutInv, NEW r \in Request, Handle(r)
  PROVE  ShutInv'
<1>1. /\ pc[r] \in Running /\ \E step \in Running \cup {"done"} : pc' = [pc EXCEPT ![r] = step]
      /\ UNCHANGED <<ctxDone, phase, left, outstanding, ending, age>>
  BY DEF Handle, Proceed, LookUp, LookUpFails, UploadFile, UploadFails, CreateDocument,
         CreateDocumentFails, Answer, Goto, mainVars, Running
<1>2. /\ pc'[r] \in Running \cup {"done"}
      /\ \A q \in Request \ {r} : pc'[q] = pc[q]
  BY <1>1 DEF DocInv, DocumentsTypeOK
<1>3. InFlight' \subseteq InFlight /\ Cut' \subseteq Cut
  BY <1>1, <1>2 DEF InFlight, Cut, Running
<1>4. \A q \in Request : pc'[q] # "dead" \/ pc[q] = "dead"
  BY <1>2 DEF Running
<1>5. \A q \in Request : pc'[q] # "idle" \/ pc[q] = "idle"
  BY <1>2 DEF Running
<1>6. outstanding \subseteq Request
  BY DEF ShutInv, MainTypes
<1>7. MainTypes'
  BY <1>1 DEF ShutInv, MainTypes
<1>8. QED
  BY <1>1, <1>3, <1>4, <1>5, <1>6, <1>7 DEF ShutInv

(* A unit of time passes, for the requests as for the budget.               *)
LEMMA TickShuts ==
  ASSUME DocInv, ShutInv, Tick
  PROVE  ShutInv'
<1>1. /\ phase \notin {"migrate", "connect", "exited"}
      /\ InFlight # {} \/ phase = "stopWorker"
      /\ \A r \in InFlight : ~ctxDone[r]
      /\ pc' = pc /\ phase' = phase /\ outstanding' = outstanding /\ ending' = ending
  BY DEF Tick
<1>2. /\ Timeout \in Nat /\ Budget \in Nat /\ left \in 0..Budget
      /\ age \in [Request -> 0..Timeout] /\ outstanding \subseteq Request
  BY TimesAssumption DEF ShutInv, MainTypes
<1>3. InFlight' = InFlight /\ Cut' = Cut /\ InFlight \subseteq Request /\ InFlight \subseteq Cut
  BY <1>1 DEF InFlight, Cut
<1>4. \A r \in Request : age'[r] = IF r \in InFlight THEN age[r] + 1 ELSE age[r]
  BY DEF Tick
<1>5. \A r \in Request : ~ctxDone'[r] => age'[r] # Timeout
  BY DEF Tick
<1>6. \A r \in InFlight : age[r] < Timeout
  BY <1>1, <1>3 DEF ShutInv
<1>7. age' \in [Request -> 0..Timeout]
  BY <1>2, <1>3, <1>6 DEF Tick
<1>8. /\ left' \in 0..Budget /\ left' >= left - 1
      /\ phase \notin {"stopWorker", "shutdown"} => left' = left
  BY <1>2 DEF Tick
<1>9. MainTypes'
  BY <1>1, <1>7, <1>8 DEF ShutInv, MainTypes
<1>10. ASSUME NEW r \in Request, ~ctxDone'[r]
       PROVE  age'[r] < Timeout
  BY <1>2, <1>5, <1>7, <1>10
<1>11. ASSUME phase \in {"stopWorker", "shutdown"}, NEW r \in outstanding \cap InFlight
       PROVE  age'[r] >= Budget - left'
  <2>1. age[r] >= Budget - left
    BY <1>11 DEF ShutInv
  <2>2. age'[r] = age[r] + 1 /\ age[r] \in Int
    BY <1>2, <1>3, <1>4
  <2>3. QED
    BY <2>1, <2>2, <1>2, <1>8
<1>12. phase = "close" => ending \notin {"signal", "forced"}
  BY <1>1, <1>3 DEF ShutInv
<1>13. QED
  BY <1>1, <1>3, <1>9, <1>10, <1>11, <1>12 DEF ShutInv

(* The signal, and the steps of main after it.                              *)
LEMMA MainShuts ==
  ASSUME DocInv, ShutInv,
         \/ RunMigrations \/ Connect \/ Signal \/ WorkerStopped \/ ShutdownReturns
         \/ ForceClose \/ ListenFails \/ ClosePool \/ Exit \/ Crash
  PROVE  ShutInv'
<1>1. /\ Timeout \in Nat /\ Budget \in Nat /\ Timeout <= Budget /\ Budget \in 0..Budget
      /\ age \in [Request -> 0..Timeout]
  BY TimesAssumption DEF ShutInv, MainTypes
<1>2. InFlight \subseteq Request /\ \A r \in InFlight : pc[r] # "idle"
  BY DEF InFlight, Running
<1>3. CASE RunMigrations \/ Connect \/ ListenFails \/ ClosePool
  BY <1>3
     DEF RunMigrations, Connect, ListenFails, ClosePool, docVars, mainVars, ShutInv,
         MainTypes, Phases, InFlight, Cut
<1>4. CASE Signal
  <2>1. /\ phase' = "stopWorker" /\ left' = Budget /\ outstanding' = InFlight
        /\ ending' = "signal" /\ pc' = pc /\ ctxDone' = ctxDone /\ age' = age
        /\ phase = "serve"
    BY <1>4 DEF Signal, docVars
  <2>2. \A r \in InFlight : age[r] >= Budget - Budget
    BY <1>1, <1>2
  <2>3. QED
    BY <1>1, <1>2, <2>1, <2>2 DEF ShutInv, MainTypes, Phases
<1>5. CASE WorkerStopped
  BY <1>5 DEF WorkerStopped, docVars, ShutInv, MainTypes, Phases, InFlight
<1>6. CASE ShutdownReturns
  <2>1. Cut = {}
    BY <1>6 DEF ShutdownReturns, ShutInv, Cut, InFlight
  <2>2. QED
    BY <1>6, <2>1 DEF ShutdownReturns, docVars, ShutInv, MainTypes, Phases, Cut, InFlight
<1>7. CASE ForceClose
  <2>1. /\ phase = "shutdown" /\ left = 0 /\ phase' = "close" /\ ending' = "forced"
        /\ pc' = pc /\ age' = age /\ left' = left /\ outstanding' = outstanding
        /\ \A r \in Request : ctxDone'[r] = (ctxDone[r] \/ r \in InFlight)
    BY <1>7 DEF ForceClose
  <2>2. InFlight' = InFlight /\ Cut' = Cut /\ Cut = InFlight
    BY <2>1 DEF InFlight, Cut, ShutInv
  <2>3. ASSUME NEW r \in outstanding \cap InFlight
        PROVE  age[r] = Timeout
    <3>1. age[r] >= Budget - left
      BY <2>1 DEF ShutInv
    <3>2. QED
      BY <1>1, <1>2, <2>1, <3>1
  <2>4. MainTypes'
    BY <2>1 DEF ShutInv, MainTypes, Phases
  <2>5. QED
    BY <1>2, <2>1, <2>2, <2>3, <2>4 DEF ShutInv
<1>8. CASE Exit
  <2>1. /\ phase = "close" /\ phase' = "exited"
        /\ ctxDone' = ctxDone /\ left' = left /\ outstanding' = outstanding
        /\ ending' = ending /\ age' = age
    BY <1>8 DEF Exit
  <2>2. \A r \in Request : pc'[r] = IF r \in InFlight THEN "dead" ELSE pc[r]
    BY <1>8 DEF Exit, Stops
  <2>3. InFlight' = {} /\ Cut' \subseteq Cut
    BY <2>2 DEF InFlight, Cut, Running
  <2>4. \A r \in Request : pc'[r] = "idle" => pc[r] = "idle"
    BY <2>2
  <2>5. MainTypes'
    BY <2>1 DEF ShutInv, MainTypes, Phases
  <2>6. QED
    BY <2>1, <2>3, <2>4, <2>5 DEF ShutInv, MainTypes
<1>9. CASE Crash
  <2>1. /\ phase' = "exited" /\ ctxDone' = ctxDone /\ left' = left
        /\ outstanding' = outstanding /\ ending' = "crash" /\ age' = age
    BY <1>9 DEF Crash
  <2>2. \A r \in Request : pc'[r] = "idle" => pc[r] = "idle"
    BY <1>9 DEF Crash, Stops
  <2>3. MainTypes'
    BY <2>1 DEF ShutInv, MainTypes, Phases
  <2>4. QED
    BY <2>1, <2>2, <2>3 DEF ShutInv, MainTypes
<1>10. QED
  BY <1>3, <1>4, <1>5, <1>6, <1>7, <1>8, <1>9

(* The invariant of the server.                                             *)
ServerInv == DocInv /\ ShutInv

(* It holds at the start and is kept by every step.                         *)
LEMMA ServerInvHolds ==
  /\ Init => ServerInv
  /\ ServerInv /\ [Next]_vars => ServerInv'
<1>1. Init => ServerInv
  BY UploadsStart, ShutStarts DEF ServerInv
<1>2. ASSUME ServerInv, [Next]_vars
      PROVE  ServerInv'
  <2>1. DocInv'
    BY <1>2, UploadsKeep DEF ServerInv
  <2>2. CASE UNCHANGED vars
    <3>1. UNCHANGED <<pc, ctxDone, phase, left, outstanding, ending, age>>
      BY <2>2 DEF vars, docVars, mainVars
    <3>2. QED
      BY <1>2, <2>1, <3>1 DEF ServerInv, ShutInv, MainTypes, InFlight, Cut
  <2>3. CASE Next
    BY <1>2, <2>1, <2>3, AcceptShuts, HandleShuts, TickShuts, MainShuts
       DEF ServerInv, Next, Main
  <2>4. QED
    BY <1>2, <2>2, <2>3
<1>3. QED
  BY <1>1, <1>2

(* Every variable keeps its range: no request outlives its deadline and the
   budget of the shutdown is not overdrawn.                                 *)
THEOREM TypeCorrect == Spec => []TypeOK
<1>1. ServerInv => TypeOK
  BY DEF ServerInv, DocInv, ShutInv, MainTypes, TypeOK
<1>2. QED
  BY <1>1, ServerInvHolds, PTL DEF Spec

(* A shutdown that is not forced cuts nobody off, and a forced one only those
   outstanding requests that have used all the time their own deadline allows,
   however long the outbox worker took: for every budget not shorter than the
   request timeout, as the defaults of main.go are.                         *)
THEOREM ShutdownKeepsGrace == Spec => []ShutdownIsGraceful
<1>1. ServerInv => ShutdownIsGraceful
  BY DEF ServerInv, ShutInv, ShutdownIsGraceful
<1>2. QED
  BY <1>1, ServerInvHolds, PTL DEF Spec
===============================================================================
