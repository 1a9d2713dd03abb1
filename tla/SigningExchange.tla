--------------------------- MODULE SigningExchange ---------------------------
(***************************************************************************)
(* The exchange of one signing request and its answers between the relying *)
(* party and a wallet, through the two tables of the relying party's       *)
(* database (app/repositories/db.py):                                      *)
(*                                                                         *)
(*   sd   the request objects wallets may fetch, one row per request id;   *)
(*        while the row is there, uploads for the request are accepted;    *)
(*   sdo  what wallets uploaded: one row per signed document, or one row   *)
(*        without a document when the wallet sent none.                    *)
(*                                                                         *)
(* Every HTTP request runs in a thread of its own and every call into      *)
(* db.py is a transaction on a connection of its own, so a handler is a    *)
(* sequence of transactions other handlers interleave with.  An action     *)
(* below is one transaction with the code around it.  Any transaction may  *)
(* fail in the ways DbFaults allows, and the process may restart between   *)
(* two transactions of a handler.                                          *)
(*                                                                         *)
(* The text of rows (JWT, base64, error message) is abstracted: no code    *)
(* reads the error column, and documents only matter by who sent them.     *)
(* GET handlers that only read (retrieve_request_object,                   *)
(* wait_for_signed_document, get_signed_document) change no table; what    *)
(* they answer is the state predicate Ready, or sd[n] # NULL.  A malformed *)
(* upload is refused before the first transaction and changes no table.    *)
(***************************************************************************)
EXTENDS Integers

CONSTANTS
  Nonce,        \* request ids _get_nonce may draw; no id is drawn twice
  Upload,       \* upload requests wallets send
  View,         \* requests for the page with the signed document
  MaxDocs,      \* bound: documents in one upload
  MaxAge,       \* DB_ENTRY_MAX_AGE_SECONDS, NULL if it is not set
  MaxClock,     \* bound: the clock stops here
  Deliveries,   \* how requests reach the wallet: "request_uri", "link"
  DbFaults,     \* how a transaction may fail, see below
  TimedTables,  \* the tables that have a created_at column
  NULL

(* "connect"   the connection is refused: _get_db_connection raises        *)
(*             ValueError;                                                 *)
(* "rollback"  a statement or the commit fails and nothing is kept:        *)
(*             pymysql.Error, which is not a ValueError;                   *)
(* "lost_ack"  the commit is durable, the connection drops before it is    *)
(*             acknowledged: pymysql.Error again.                          *)
Faults == {"connect", "rollback", "lost_ack"}

ASSUME ExchangeAssumption ==
  /\ MaxDocs \in Nat \ {0} /\ MaxAge \in Nat \cup {NULL} /\ MaxClock \in Nat
  /\ Deliveries \subseteq {"request_uri", "link"}
  /\ DbFaults \subseteq Faults
  /\ TimedTables \subseteq {"sd", "sdo"}
  /\ NULL \notin Nonce /\ NULL \notin Nat /\ NULL \notin Upload \X Nat

VARIABLES
  clock,     \* UTC_TIMESTAMP() of the database server
  issued,    \* issued[n]: when request n was created, NULL before
  linked,    \* requests sent inside the wallet link, without a row in sd
  sd,        \* sd[n]: created_at of the row of n in sd, NULL if none
  sdo,       \* the rows of sdo
  nextId,    \* its AUTO_INCREMENT counter
  upState,   \* upState[u]: how far upload u is, or what it was answered
  upNonce,   \* upNonce[u]: the request id in its path
  upDocs,    \* upDocs[u]: number of documents it carries, NULL if it
             \* names neither documentWithSignature nor signatureObject
  upBegan,   \* upBegan[u]: when u looked its request up, NULL once it has stored
  upStored,  \* history: the created_at of the first row u put in sdo
  vwState,   \* vwState[v]: how far view v is, or what it was answered
  vwNonce,   \* vwNonce[v]: the request id in the session of the browser
  vwSeen     \* vwSeen[v]: the rows its query returned

dbVars == <<sd, sdo, nextId>>
upVars == <<upState, upNonce, upDocs, upBegan, upStored>>
vwVars == <<vwState, vwNonce, vwSeen>>
vars   == <<clock, issued, linked, dbVars, upVars, vwVars>>

Document == Upload \X (1..MaxDocs)

Row == [id : Nat, request_id : Nonce,
        signed_data_object : Document \cup {NULL}, created_at : Nat]

\* "checked": exists_request_object_with_request_id returned True;
\* "stored": add_to_signed_data_object_table returned.  The others are final:
\* "ok" 200; "unknown" 400, no record of the request; "failed" 400, impossible
\* to upload; "error" 500; "crashed" no answer.
UploadState == {"idle", "checked", "stored",
                "ok", "unknown", "failed", "error", "crashed"}

\* "read": retrieve_signed_objects returned rows.  Final: "shown" the page with
\* the document; "empty" no signed documents found; "error" 500; "gone" 500
\* although the rows were deleted; "crashed" no answer.
ViewState == {"idle", "read", "shown", "empty", "error", "gone", "crashed"}

Init ==
  /\ clock = 0
  /\ issued = [n \in Nonce |-> NULL]
  /\ linked = {}
  /\ sd = [n \in Nonce |-> NULL]
  /\ sdo = {}
  /\ nextId = 1
  /\ upState = [u \in Upload |-> "idle"]
  /\ upNonce = [u \in Upload |-> NULL]
  /\ upDocs = [u \in Upload |-> NULL]
  /\ upBegan = [u \in Upload |-> NULL]
  /\ upStored = [u \in Upload |-> NULL]
  /\ vwState = [v \in View |-> "idle"]
  /\ vwNonce = [v \in View |-> NULL]
  /\ vwSeen = [v \in View |-> {}]

-----------------------------------------------------------------------------
(* The repository *)

\* created_at < UTC_TIMESTAMP() - INTERVAL max_age SECOND, which NULL makes NULL.
Expired(created_at) == MaxAge # NULL /\ created_at + MaxAge < clock

\* Mutant of RowsOf: the WHERE clause is forgotten.
RowsOfAnyone(n) == sdo

\* The rows a WHERE request_id = n selects.
RowsOf(n) == {r \in sdo : r.request_id = n}

\* Mutants of Known: the lookup is skipped; its WHERE clause is forgotten.
KnownOnceIssued(n) == issued[n] # NULL
KnownIfAnyIs(n) == \E m \in Nonce : sd[m] # NULL

\* exists_request_object_with_request_id
Known(n) == sd[n] # NULL

\* What wait_for_signed_document and get_signed_document answer 200 to.
Ready(n) == RowsOf(n) # {}

\* The times of the rows of one upload.  Every INSERT takes the time of its own
\* statement, so the rows need not be of one second: from some document on they
\* may be of the next one (later ones behave alike), but none is older than the
\* lookup of its request.
Datings(u) ==
  {time \in [1..MaxDocs -> {t \in {clock - 1, clock} : t >= upBegan[u]}] :
     \A j, k \in 1..MaxDocs : j <= k => time[j] <= time[k]}

\* Mutants of NewRows: documents are counted from 0; inserted last to first.
RowsFromZero(u, time) ==
  {[id |-> nextId + k, request_id |-> upNonce[u], created_at |-> clock,
    signed_data_object |-> IF upDocs[u] = NULL THEN NULL ELSE <<u, k>>] :
      k \in IF upDocs[u] = NULL THEN {0} ELSE 0..upDocs[u] - 1}
RowsReversed(u, time) ==
  LET n == IF upDocs[u] = NULL THEN 1 ELSE upDocs[u]
  IN {[id |-> nextId + n - k, request_id |-> upNonce[u], created_at |-> clock,
       signed_data_object |-> IF upDocs[u] = NULL THEN NULL ELSE <<u, k>>] : k \in 1..n}

\* The rows one upload adds: one per document, in the order of the list, or a
\* single row whose signed_data_object is NULL.
NewRows(u, time) ==
  LET row(k, object) == [id |-> nextId + k - 1, request_id |-> upNonce[u],
                         signed_data_object |-> object, created_at |-> time[k]]
  IN IF upDocs[u] = NULL
     THEN {row(1, NULL)}
     ELSE {row(k, <<u, k>>) : k \in 1..upDocs[u]}

\* Mutant of AddSignedDataObjects: the transaction is not committed.
AddWithoutCommit(u) ==
  /\ upStored' = [upStored EXCEPT ![u] = clock]
  /\ UNCHANGED <<sdo, nextId>>

AddSignedDataObjects(u) ==
  \E time \in Datings(u) :
    /\ sdo' = sdo \cup NewRows(u, time)
    /\ nextId' = nextId + (IF upDocs[u] = NULL THEN 1 ELSE upDocs[u])
    /\ upStored' = [upStored EXCEPT ![u] = time[1]]

\* Mutants of RemoveRequestObject: no commit; no WHERE clause.
RemoveWithoutCommit(n) == UNCHANGED sd
RemoveAllRequestObjects(n) == sd' = [m \in Nonce |-> NULL]

RemoveRequestObject(n) == sd' = [sd EXCEPT ![n] = NULL]

\* Mutant of RemoveSignedDataObjects: no WHERE clause.
RemoveAllDataObjects(n) == sdo' = {}

RemoveSignedDataObjects(n) == sdo' = sdo \ RowsOf(n)

-----------------------------------------------------------------------------
(* Creating a request: create_document_signing_request *)

\* The row is committed before anyone learns the nonce.  A request that goes
\* into the link itself is not recorded.
IssueRequest(n, delivery) ==
  /\ issued[n] = NULL /\ sd[n] = NULL
  /\ issued' = [issued EXCEPT ![n] = clock]
  /\ \/ /\ delivery = "request_uri"
        /\ sd' = [sd EXCEPT ![n] = clock]
        /\ UNCHANGED linked
     \/ /\ delivery = "link"
        /\ linked' = linked \cup {n}
        /\ UNCHANGED sd
  /\ UNCHANGED <<clock, sdo, nextId, upVars, vwVars>>

\* The handler raises, and the row, if it is there, belongs to a request nobody
\* was ever told of.  Every other failure leaves no trace.
IssueFails(n) ==
  /\ "lost_ack" \in DbFaults
  /\ issued[n] = NULL /\ sd[n] = NULL
  /\ sd' = [sd EXCEPT ![n] = clock]
  /\ UNCHANGED <<clock, issued, linked, sdo, nextId, upVars, vwVars>>

-----------------------------------------------------------------------------
(* The upload endpoints: _process_signed_data_objects *)

UploadGoesTo(u, s) ==
  /\ upState' = [upState EXCEPT ![u] = s]
  /\ upBegan' = [upBegan EXCEPT ![u] = IF s = "checked" THEN clock ELSE NULL]

\* An upload arrives and looks the request up.  Nothing guards the lookup, so
\* any failure of it is a 500.  (A list holding something else than texts raises
\* after the lookup, a 500 that leaves the tables as an upload of 0 documents.)
BeginUpload(u, n, docs) ==
  /\ upState[u] = "idle"
  /\ issued[n] # NULL
  /\ upNonce' = [upNonce EXCEPT ![u] = n]
  /\ upDocs' = [upDocs EXCEPT ![u] = docs]
  /\ \/ Known(n) /\ UploadGoesTo(u, "checked")
     \/ ~Known(n) /\ UploadGoesTo(u, "unknown")
     \/ DbFaults # {} /\ UploadGoesTo(u, "error")
  /\ UNCHANGED <<clock, issued, linked, dbVars, upStored, vwVars>>

\* All documents of an upload are inserted in one transaction.  An empty list
\* makes the INSERT of add_to_signed_data_object_table invalid SQL, so it is
\* not stored: see StoreFails.
StoreDocuments(u) ==
  /\ upState[u] = "checked"
  /\ upDocs[u] \notin {NULL, 0}
  /\ AddSignedDataObjects(u)
  /\ UploadGoesTo(u, "stored")
  /\ UNCHANGED <<clock, issued, linked, sd, upNonce, upDocs, vwVars>>

\* Without documents a row records the failure; the request stays open.
StoreFailureReport(u) ==
  /\ upState[u] = "checked"
  /\ upDocs[u] = NULL
  /\ AddSignedDataObjects(u)
  /\ UploadGoesTo(u, "failed")
  /\ UNCHANGED <<clock, issued, linked, sd, upNonce, upDocs, vwVars>>

\* Only the transaction with documents runs inside the try block, and the
\* block only catches ValueError, which only a refused connection raises.
StoreFails(u) ==
  /\ upState[u] = "checked"
  /\ \/ /\ "connect" \in DbFaults
        /\ UploadGoesTo(u, IF upDocs[u] = NULL THEN "error" ELSE "failed")
        /\ UNCHANGED <<sdo, nextId, upStored>>
     \/ /\ "rollback" \in DbFaults \/ upDocs[u] = 0
        /\ UploadGoesTo(u, "error")
        /\ UNCHANGED <<sdo, nextId, upStored>>
     \/ /\ "lost_ack" \in DbFaults /\ upDocs[u] # 0
        /\ AddSignedDataObjects(u)
        /\ UploadGoesTo(u, "error")
  /\ UNCHANGED <<clock, issued, linked, sd, upNonce, upDocs, vwVars>>

\* Mutant of CloseRequest: the row is deleted before the documents are stored.
CloseFirst(u) ==
  /\ upState[u] \in {"checked", "stored"}
  /\ RemoveRequestObject(upNonce[u])
  /\ UploadGoesTo(u, IF upState[u] = "stored" THEN "ok" ELSE "checked")
  /\ UNCHANGED <<clock, issued, linked, sdo, nextId,
                 upNonce, upDocs, upStored, vwVars>>

CloseRequest(u) ==
  /\ upState[u] = "stored"
  /\ RemoveRequestObject(upNonce[u])
  /\ UploadGoesTo(u, "ok")
  /\ UNCHANGED <<clock, issued, linked, sdo, nextId,
                 upNonce, upDocs, upStored, vwVars>>

\* The documents stay, whatever the wallet is told.
CloseFails(u) ==
  /\ upState[u] = "stored"
  /\ \/ /\ "connect" \in DbFaults
        /\ UploadGoesTo(u, "failed")
        /\ UNCHANGED sd
     \/ /\ "rollback" \in DbFaults
        /\ UploadGoesTo(u, "error")
        /\ UNCHANGED sd
     \/ /\ "lost_ack" \in DbFaults
        /\ UploadGoesTo(u, "error")
        /\ RemoveRequestObject(upNonce[u])
  /\ UNCHANGED <<clock, issued, linked, sdo, nextId,
                 upNonce, upDocs, upStored, vwVars>>

-----------------------------------------------------------------------------
(* The page with the signed document: view_signed_document *)

ViewGoesTo(v, s) == vwState' = [vwState EXCEPT ![v] = s]

\* The nonce comes from the session of the browser.
BeginView(v, n) ==
  /\ vwState[v] = "idle"
  /\ issued[n] # NULL
  /\ vwNonce' = [vwNonce EXCEPT ![v] = n]
  /\ \/ /\ RowsOf(n) # {}
        /\ ViewGoesTo(v, "read")
        /\ vwSeen' = [vwSeen EXCEPT ![v] = RowsOf(n)]
     \/ /\ RowsOf(n) = {}
        /\ ViewGoesTo(v, "empty")
        /\ UNCHANGED vwSeen
     \/ /\ DbFaults # {}
        /\ ViewGoesTo(v, "error")
        /\ UNCHANGED vwSeen
  /\ UNCHANGED <<clock, issued, linked, dbVars, upVars>>

\* Every row of the request is deleted, read or not, and only then is the page
\* rendered.
FinishView(v) ==
  /\ vwState[v] = "read"
  /\ RemoveSignedDataObjects(vwNonce[v])
  /\ ViewGoesTo(v, "shown")
  /\ UNCHANGED <<clock, issued, linked, sd, nextId, upVars, vwNonce, vwSeen>>

ViewFails(v) ==
  /\ vwState[v] = "read"
  /\ \/ /\ DbFaults \cap {"connect", "rollback"} # {}
        /\ ViewGoesTo(v, "error")
        /\ UNCHANGED sdo
     \/ /\ "lost_ack" \in DbFaults
        /\ ViewGoesTo(v, "gone")
        /\ RemoveSignedDataObjects(vwNonce[v])
  /\ UNCHANGED <<clock, issued, linked, sd, nextId, upVars, vwNonce, vwSeen>>

\* One document is selected at a time (select_signing_options), and the page
\* pairs the selected documents with the rows in the order of the query, that
\* is by id: it shows the first row and no other.
Shown(v) ==
  (CHOOSE r \in vwSeen[v] : \A s \in vwSeen[v] : r.id <= s.id).signed_data_object

-----------------------------------------------------------------------------
(* Cleanup, time and restarts *)

\* The deletes of one pass of delete_expired_entries, in one transaction.
DeleteExpiredIn(tables) ==
  /\ sd' = [n \in Nonce |->
              IF "sd" \in tables /\ sd[n] # NULL /\ Expired(sd[n])
              THEN NULL ELSE sd[n]]
  /\ sdo' = {r \in sdo : ~("sdo" \in tables /\ Expired(r.created_at))}
  /\ UNCHANGED <<clock, issued, linked, nextId, upVars, vwVars>>

\* A table is passed over when it has no created_at column, and while
\* init_db_schema_flags has not found the column yet.
DeleteExpired == \E tables \in SUBSET TimedTables : DeleteExpiredIn(tables)

\* The process stops and is started again.  The tables survive, the handlers
\* do not.
Restart ==
  /\ upState' = [u \in Upload |-> IF upState[u] \in {"checked", "stored"}
                                  THEN "crashed" ELSE upState[u]]
  /\ upBegan' = [u \in Upload |-> NULL]
  /\ vwState' = [v \in View |-> IF vwState[v] = "read"
                                THEN "crashed" ELSE vwState[v]]
  /\ UNCHANGED <<clock, issued, linked, dbVars,
                 upNonce, upDocs, upStored, vwNonce, vwSeen>>

Tick ==
  /\ clock < MaxClock
  /\ clock' = clock + 1
  /\ UNCHANGED <<issued, linked, dbVars, upVars, vwVars>>

Next ==
  \/ \E n \in Nonce : IssueFails(n) \/ \E d \in Deliveries : IssueRequest(n, d)
  \/ \E u \in Upload :
       \/ \E n \in Nonce, docs \in (0..MaxDocs) \cup {NULL} :
            BeginUpload(u, n, docs)
       \/ StoreDocuments(u) \/ StoreFailureReport(u) \/ StoreFails(u)
       \/ CloseRequest(u) \/ CloseFails(u)
  \/ \E v \in View :
       \/ \E n \in Nonce : BeginView(v, n)
       \/ FinishView(v) \/ ViewFails(v)
  \/ DeleteExpired
  \/ Restart
  \/ Tick

Spec == Init /\ [][Next]_vars

-----------------------------------------------------------------------------
(* What every reachable state satisfies *)

\* The types of the variables, as the code and the schema of db_create.sql fix
\* them.
TypeOK ==
  /\ clock \in 0..MaxClock
  /\ issued \in [Nonce -> Nat \cup {NULL}]
  /\ linked \in SUBSET Nonce
  /\ sd \in [Nonce -> Nat \cup {NULL}]
  /\ sdo \in SUBSET Row
  /\ nextId \in Nat
  /\ upState \in [Upload -> UploadState]
  /\ upNonce \in [Upload -> Nonce \cup {NULL}]
  /\ upDocs \in [Upload -> (0..MaxDocs) \cup {NULL}]
  /\ upBegan \in [Upload -> Nat \cup {NULL}]
  /\ upStored \in [Upload -> Nat \cup {NULL}]
  /\ vwState \in [View -> ViewState]
  /\ vwNonce \in [View -> Nonce \cup {NULL}]
  /\ vwSeen \in [View -> SUBSET Row]

\* Upload u put its documents for n into the database.
Answers(u, n) == upNonce[u] = n /\ upStored[u] # NULL /\ upDocs[u] # NULL

\* A request created with a row in sd loses that row only to an upload whose
\* documents are committed, or to age: no interleaving, failed transaction or
\* restart closes a request nobody answered
\* (_process_signed_data_objects inserts before it deletes).
ClosedMeansAnswered ==
  \A n \in Nonce :
    (issued[n] # NULL /\ n \notin linked /\ sd[n] = NULL /\ ~Expired(issued[n]))
      => \E u \in Upload : Answers(u, n)

\* When a wallet was answered OK, each document of that upload is in the
\* database under the request it was sent for, until it is as old as
\* DB_ENTRY_MAX_AGE_SECONDS or a page for that request collected it.
OkIsDurable ==
  \A u \in Upload : upState[u] = "ok" =>
    \/ \A k \in 1..upDocs[u] :
         \E r \in RowsOf(upNonce[u]) : r.signed_data_object = <<u, k>>
    \/ Expired(upStored[u])
    \/ \E v \in View : /\ vwNonce[v] = upNonce[u]
                       /\ vwState[v] \in {"shown", "gone"}

\* The one row a page shows was uploaded for the request of the page's session,
\* and is the first document of its upload, or it is the report of a failure:
\* never the rest of an upload whose beginning is missing
\* (add_to_signed_data_object_table inserts all documents in one transaction),
\* unless the cleanup took the beginning, which may be a second older.
PageShowsAnAnswer ==
  \A v \in View : vwState[v] \in {"read", "shown"} =>
    \/ Shown(v) = NULL
    \/ \E u \in Upload :
         /\ Answers(u, vwNonce[v])
         /\ \/ Shown(v) = <<u, 1>>
            \/ Expired(upStored[u]) /\ Shown(v)[1] = u

-----------------------------------------------------------------------------
(* What a step may never do *)

\* The request row is gone and no upload that saw it is still to store.
Quiet(n) ==
  /\ issued[n] # NULL
  /\ sd[n] = NULL
  /\ \A u \in Upload : ~(upState[u] = "checked" /\ upNonce[u] = n)

\* From the moment a request is quiet its rows in sdo can only go: a page opened
\* after that reads everything there will ever be, so the delete that follows
\* the query of view_signed_document removes nothing it has not read.
QuietIsFinal ==
  [][\A n \in Nonce : Quiet(n) => Quiet(n)' /\ RowsOf(n)' \subseteq RowsOf(n)]_vars

\* Once one upload for a request was answered OK no other is admitted, however
\* often a wallet retries; only uploads admitted before may still store.
NoAdmissionAfterOk ==
  [][\A u, w \in Upload :
       (/\ upState[u] # "checked" /\ upState'[u] = "checked"
        /\ upState[w] = "ok") => upNonce[w] # upNonce'[u]]_vars

-----------------------------------------------------------------------------
(* What the program says of itself and the exchange does not do *)

\* wait_for_signed_document answers ready, and logs that the signed document was
\* received, only if a signed document is there.
ReadyMeansSigned ==
  \A n \in Nonce : Ready(n) => \E r \in RowsOf(n) : r.signed_data_object # NULL

\* A wallet that is told its signed documents could not be uploaded left none
\* in the database.
FailedMeansNotStored ==
  \A u \in Upload : upState[u] = "failed" => ~Answers(u, upNonce[u])

\* A wallet that answers a request it was sent is told that the application has
\* no record of it only if the request was answered already or has expired.
NoRecordMeansOver ==
  \A u \in Upload : upState[u] = "unknown" =>
    \/ Expired(issued[upNonce[u]])
    \/ \E w \in Upload : Answers(w, upNonce[u])

-----------------------------------------------------------------------------
(* The exchange implements the mailbox *)

StatusOf(n) ==
  IF issued[n] = NULL THEN "new"
  ELSE IF n \in linked THEN "sealed"
  ELSE IF sd[n] # NULL THEN "open" ELSE "closed"

HasLapsed(n) == issued[n] # NULL /\ Expired(issued[n])
IsAnswered(n) == \E u \in Upload : Answers(u, n)
TicketOf(u) == IF upState[u] = "checked" THEN upNonce[u] ELSE NULL
BoxOf(n) == {r.signed_data_object : r \in RowsOf(n)}

Mailbox == INSTANCE RequestMailbox WITH
  status   <- [n \in Nonce |-> StatusOf(n)],
  lapsed   <- {n \in Nonce : HasLapsed(n)},
  answered <- {n \in Nonce : IsAnswered(n)},
  ticket   <- [u \in Upload |-> TicketOf(u)],
  box      <- [n \in Nonce |-> BoxOf(n)]

\* Seen through this mapping, every behaviour of the two tables and their
\* handlers is a behaviour of the mailbox.
ImplementsMailbox == Mailbox!Spec

-----------------------------------------------------------------------------
(* The exchange implements what BrowserSession builds on.  A wallet signs   *)
(* the document the request asks it to sign; which one that is does not     *)
(* matter here, so request n stands for its document.                       *)

RequestOf(n) ==
  IF issued[n] = NULL THEN NULL
  ELSE [doc |-> n, delivery |-> IF n \in linked THEN "link" ELSE "request_uri"]

AnswersTo(n) == {IF r.signed_data_object = NULL THEN NULL ELSE n : r \in RowsOf(n)}

Seen == INSTANCE AnswerBox WITH
  Doc     <- Nonce,
  request <- [n \in Nonce |-> RequestOf(n)],
  box     <- [n \in Nonce |-> AnswersTo(n)]

\* The tables, with their uploads, views and cleanup, show a browser what
\* AnswerBox says: in particular, a request that went into the link never gets an
\* answer, and no request is made twice.
ImplementsAnswerBox == Seen!Spec
=============================================================================
