------------------------------- MODULE Documents -------------------------------
(***************************************************************************)
(* AttachDocument: a file is uploaded to the object store under a fresh    *)
(* key and then described by a row of documents, in two systems that share *)
(* no transaction; and ListTransactionDocuments, which reads the rows.     *)
(*                                                                         *)
(* A request writes at most one object and one row: it names both.         *)
(***************************************************************************)
EXTENDS Naturals

CONSTANTS
    Request,      \* uploads
    Transaction,  \* committed transactions
    Tenant,
    Owner,        \* Owner[x]: the tenant of transaction x
    Faults,       \* stores that may fail: "db", "storage"
    None

ASSUME OwnerAssumption == Owner \in [Transaction -> Tenant]
ASSUME FaultsAssumption == Faults \subseteq {"db", "storage"}
ASSUME NoneAssumption == None \notin [tenant : Tenant, tx : Transaction]

VARIABLES
    pc,       \* pc[r]: the next step of request r
    target,   \* target[r]: the tenant it runs under and the transaction it names
    ctxDone,  \* its context has ended
    status,   \* its HTTP status, 0 while there is none
    objects,  \* object store: the objects
    rows,     \* PostgreSQL: the rows of documents
    pool      \* the connection pool, "open" or "closed"

docVars == <<pc, target, ctxDone, status, objects, rows>>

Running == {"lookup", "upload", "insert"}
Ended == {"done", "dead"}

DocumentsTypeOK ==
    /\ pc \in [Request -> {"idle"} \cup Running \cup Ended]
    /\ target \in [Request -> [tenant : Tenant, tx : Transaction] \cup {None}]
    /\ ctxDone \in [Request -> BOOLEAN]
    /\ status \in [Request -> {0, 201, 404, 500}]
    /\ objects \subseteq Request
    /\ rows \subseteq Request
    /\ pool \in {"open", "closed"}

DocumentsInit ==
    /\ pc = [r \in Request |-> "idle"]
    /\ target = [r \in Request |-> None]
    /\ ctxDone = [r \in Request |-> FALSE]
    /\ status = [r \in Request |-> 0]
    /\ objects = {}
    /\ rows = {}
    /\ pool = "open"

Goto(r, step) == pc' = [pc EXCEPT ![r] = step]
Answer(r, code) == Goto(r, "done") /\ status' = [status EXCEPT ![r] = code]

(* A call succeeds only under a live context, a statement only with a pool. *)
DbWorks(r) == ~ctxDone[r] /\ pool = "open"
DbMayFail(r) == ~DbWorks(r) \/ "db" \in Faults
StorageMayFail(r) == ctxDone[r] \/ "storage" \in Faults

-------------------------------------------------------------------------------

(* The form has been read: its 400s have no effect.                         *)
Receive(r) ==
    /\ pc[r] = "idle"
    /\ \E t \in Tenant, x \in Transaction :
          target' = [target EXCEPT ![r] = [tenant |-> t, tx |-> x]]
    /\ Goto(r, "lookup")
    /\ UNCHANGED <<ctxDone, status, objects, rows>>

(* WHERE id = $1 AND tenant_id = $2.                                        *)
Found(r) == Owner[target[r].tx] = target[r].tenant

LookUp(r) ==
    /\ pc[r] = "lookup" /\ DbWorks(r)
    /\ IF Found(r) THEN Goto(r, "upload") /\ UNCHANGED status ELSE Answer(r, 404)
    /\ UNCHANGED <<target, ctxDone, objects, rows>>

LookUpFails(r) ==
    /\ pc[r] = "lookup" /\ DbMayFail(r)
    /\ Answer(r, 500)
    /\ UNCHANGED <<target, ctxDone, objects, rows>>

UploadFile(r) ==
    /\ pc[r] = "upload" /\ ~ctxDone[r]
    /\ objects' = objects \cup {r}
    /\ Goto(r, "insert")
    /\ UNCHANGED <<target, ctxDone, status, rows>>

(* The object may have been stored, its upload unacknowledged.              *)
UploadFails(r) ==
    /\ pc[r] = "upload" /\ StorageMayFail(r)
    /\ objects' \in {objects, objects \cup {r}}
    /\ Answer(r, 500)
    /\ UNCHANGED <<target, ctxDone, rows>>

(* Mutant: the INSERT is left to the background.                            *)
CreateDocumentLater(r) ==
    /\ pc[r] = "insert" /\ DbWorks(r)
    /\ rows' \in {rows, rows \cup {r}}
    /\ Answer(r, 201)
    /\ UNCHANGED <<target, ctxDone, objects>>

(* The row, and the 201: presigning is local and its failure is ignored.    *)
CreateDocument(r) ==
    /\ pc[r] = "insert" /\ DbWorks(r)
    /\ rows' = rows \cup {r}
    /\ Answer(r, 201)
    /\ UNCHANGED <<target, ctxDone, objects>>

(* Mutant: the object is deleted when the INSERT returns an error.          *)
CreateDocumentCleansUp(r) ==
    /\ pc[r] = "insert" /\ DbMayFail(r)
    /\ rows' = rows \/ (pool = "open" /\ rows' = rows \cup {r})
    /\ objects' = objects \ {r}
    /\ Answer(r, 500)
    /\ UNCHANGED <<target, ctxDone>>

(* The row may have been committed, its reply lost; the object stays.       *)
CreateDocumentFails(r) ==
    /\ pc[r] = "insert" /\ DbMayFail(r)
    /\ rows' = rows \/ (pool = "open" /\ rows' = rows \cup {r})
    /\ Answer(r, 500)
    /\ UNCHANGED <<target, ctxDone, objects>>

Proceed(r) ==
    \/ LookUp(r) \/ LookUpFails(r) \/ UploadFile(r) \/ UploadFails(r)
    \/ CreateDocument(r) \/ CreateDocumentFails(r)

(* WHERE transaction_id = $1 AND tenant_id = $2.                            *)
ListTransactionDocuments(t, x) == {r \in rows : target[r] = [tenant |-> t, tx |-> x]}

-------------------------------------------------------------------------------
(* Properties.                                                              *)

(* Whatever fails, and also when the server is cut off in the middle: every
   document that can be listed belongs to a transaction of the tenant and can
   be downloaded.                                                           *)
ListedDocumentsExist ==
    \A t \in Tenant, x \in Transaction :
        ListTransactionDocuments(t, x) # {} =>
            Owner[x] = t /\ ListTransactionDocuments(t, x) \subseteq objects

(* A client that is told 201 finds its document, one that is told 404 left
   nothing behind: objects without a row come from failed or cut uploads.   *)
AnswersHold ==
    \A r \in Request :
        /\ status[r] = 201 => r \in ListTransactionDocuments(target[r].tenant, target[r].tx)
        /\ status[r] = 404 => r \notin objects \cup rows
===============================================================================
