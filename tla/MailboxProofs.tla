---------------------------- MODULE MailboxProofs ----------------------------
(***************************************************************************)
(* The exchange implements the mailbox, for every number of requests,      *)
(* uploads, views and documents, every maximal age and every choice of     *)
(* faults: each step of the two tables and their handlers is, seen through *)
(* the mapping of SigningExchange, a step of RequestMailbox or none.  And  *)
(* it implements what BrowserSession builds on: each step is, seen through *)
(* its second mapping, a step of AnswerBox or none.                        *)
(***************************************************************************)
EXTENDS SigningExchangeProofs

-----------------------------------------------------------------------------
(* What the mappings need of the exchange *)

\* A request that went into the link has no row.
LinkedHasNoRow == \A n \in linked : issued[n] # NULL /\ sd[n] = NULL

\* A request was issued before an upload for it looked it up, and that before the
\* rows of the upload were inserted: so what is left of an answer is only deleted
\* for its age when the request has lapsed.
IssuedInThePast == \A n \in Nonce : issued[n] # NULL => issued[n] <= clock
BegunAfterIssue ==
  \A u \in Upload : upState[u] = "checked" => issued[upNonce[u]] <= upBegan[u]
StoredAfterIssue ==
  \A r \in sdo : issued[r.request_id] # NULL /\ issued[r.request_id] <= r.created_at

\* An upload is only admitted for a request that was recorded.
AdmittedIsRecorded ==
  \A u \in Upload : upState[u] = "checked" => upNonce[u] \notin linked

\* A view that has read rows knows whose.
ViewsAreAddressed == \A v \in View : vwState[v] = "read" => vwNonce[v] \in Nonce

HistoryInv ==
  /\ LinkedHasNoRow
  /\ IssuedInThePast /\ BegunAfterIssue /\ StoredAfterIssue
  /\ AdmittedIsRecorded
  /\ ViewsAreAddressed

\* The clock only goes forward.
LEMMA ClockGrows ==
  ASSUME TypeOK, [Next]_vars
  PROVE  clock \in Nat /\ clock' \in Nat /\ clock <= clock'
<1>1. clock \in Nat
  BY ExchangeAssumption DEF TypeOK
<1>2. clock' = clock \/ clock' = clock + 1
  BY DEF Next, vars, IssueFails, IssueRequest, BeginUpload, StoreDocuments,
         StoreFailureReport, StoreFails, CloseRequest, CloseFails, BeginView,
         FinishView, ViewFails, DeleteExpired, DeleteExpiredIn, Restart, Tick
<1> QED
  BY <1>1, <1>2

\* Rows are only added by an upload that was admitted.
LEMMA RowStepKinds ==
  ASSUME [Next]_vars
  PROVE  \/ sdo' \subseteq sdo
         \/ \E u \in Upload : /\ upState[u] = "checked" /\ AddSignedDataObjects(u)
                              /\ UNCHANGED <<clock, issued, upNonce, upDocs>>
<1>1. ASSUME NEW u \in Upload,
             StoreDocuments(u) \/ StoreFailureReport(u) \/ StoreFails(u)
      PROVE  \/ sdo' \subseteq sdo
             \/ /\ upState[u] = "checked" /\ AddSignedDataObjects(u)
                /\ UNCHANGED <<clock, issued, upNonce, upDocs>>
  BY <1>1 DEF StoreDocuments, StoreFailureReport, StoreFails
<1>2. ASSUME NEW u \in Upload,
             \/ \E m \in Nonce, docs \in (0..MaxDocs) \cup {NULL} : BeginUpload(u, m, docs)
             \/ CloseRequest(u) \/ CloseFails(u)
      PROVE  sdo' \subseteq sdo
  BY <1>2 DEF BeginUpload, CloseRequest, CloseFails, dbVars
<1>3. ASSUME NEW v \in View,
             \/ \E m \in Nonce : BeginView(v, m)
             \/ FinishView(v) \/ ViewFails(v)
      PROVE  sdo' \subseteq sdo
  BY <1>3 DEF BeginView, FinishView, ViewFails, RemoveSignedDataObjects, dbVars
<1>4. ASSUME \/ \E m \in Nonce : IssueFails(m) \/ \E d \in Deliveries : IssueRequest(m, d)
             \/ DeleteExpired \/ Restart \/ Tick \/ UNCHANGED vars
      PROVE  sdo' \subseteq sdo
  BY <1>4 DEF IssueFails, IssueRequest, DeleteExpired, DeleteExpiredIn, Restart, Tick,
              vars, dbVars
<1> QED
  BY <1>1, <1>2, <1>3, <1>4 DEF Next

\* The rows of an upload: whose they are, what they hold and when they were made.
LEMMA RowsOfAnUpload ==
  ASSUME TypeOK, NEW u \in Upload, upNonce[u] \in Nonce, upBegan[u] \in Nat,
         NEW time \in Datings(u), NEW r \in NewRows(u, time)
  PROVE  /\ r \in Row /\ r.request_id = upNonce[u]
         /\ upBegan[u] <= r.created_at /\ time[1] <= r.created_at
         /\ IF upDocs[u] = NULL
            THEN r.signed_data_object = NULL
            ELSE \E k \in 1..upDocs[u] : r.signed_data_object = <<u, k>>
<1>1. time \in [1..MaxDocs -> Nat] /\ MaxDocs > 0 /\ 1 \in 1..MaxDocs
  BY DatingsAreTimes, ExchangeAssumption
<1>2. \A k \in 1..MaxDocs : upBegan[u] <= time[k] /\ time[1] <= time[k]
  BY <1>1, ExchangeAssumption DEF Datings
<1>3. r \in Row
  BY <1>1, NewRowsAreRows
<1>4. upDocs[u] # NULL => upDocs[u] \in 0..MaxDocs
  BY DEF TypeOK
<1>5. CASE upDocs[u] = NULL
  BY <1>1, <1>2, <1>3, <1>5 DEF NewRows
<1>6. CASE upDocs[u] # NULL
  <2>1. PICK k \in 1..upDocs[u] :
          r = [id |-> nextId + k - 1, request_id |-> upNonce[u],
               signed_data_object |-> <<u, k>>, created_at |-> time[k]]
    BY <1>6 DEF NewRows
  <2>2. k \in 1..MaxDocs
    BY <1>4, <1>6, <2>1, ExchangeAssumption
  <2> QED
    BY <1>2, <1>3, <1>6, <2>1, <2>2
<1> QED
  BY <1>5, <1>6

\* Views only change in their own steps and in a restart.
LEMMA ViewStepKinds ==
  ASSUME [Next]_vars
  PROVE  \/ UNCHANGED vwVars
         \/ \E v \in View : \/ \E n \in Nonce : BeginView(v, n)
                           \/ FinishView(v) \/ ViewFails(v)
         \/ Restart
<1>1. ASSUME NEW u \in Upload,
             \/ \E m \in Nonce, docs \in (0..MaxDocs) \cup {NULL} : BeginUpload(u, m, docs)
             \/ StoreDocuments(u) \/ StoreFailureReport(u) \/ StoreFails(u)
             \/ CloseRequest(u) \/ CloseFails(u)
      PROVE  UNCHANGED vwVars
  BY <1>1 DEF BeginUpload, StoreDocuments, StoreFailureReport, StoreFails, CloseRequest,
              CloseFails
<1>2. ASSUME \/ \E m \in Nonce : IssueFails(m) \/ \E d \in Deliveries : IssueRequest(m, d)
             \/ DeleteExpired \/ Tick \/ UNCHANGED vars
      PROVE  UNCHANGED vwVars
  BY <1>2 DEF IssueFails, IssueRequest, DeleteExpired, DeleteExpiredIn, Tick, vars
<1> QED
  BY <1>1, <1>2 DEF Next

\* The order of the times, and the owners of views, survive every step.
LEMMA StepHistory ==
  ASSUME IInv, OkMeansClosed, HistoryInv, [Next]_vars
  PROVE  HistoryInv'
<1> USE DEF IInv, HistoryInv
<1>0. clock \in Nat /\ clock' \in Nat /\ clock <= clock' /\ NULL \notin Nat /\ TypeOK'
  BY ClockGrows, StepTypeOK, ExchangeAssumption
<1>1. LinkedHasNoRow'
  <2>1. ASSUME NEW n \in linked PROVE n \in Nonce /\ issued'[n] # NULL /\ sd'[n] = NULL
    BY <2>1, IssuedIsForever DEF LinkedHasNoRow, TypeOK
  <2>2. ASSUME NEW m \in Nonce, NEW d \in Deliveries, IssueRequest(m, d)
        PROVE  LinkedHasNoRow'
    BY <1>0, <2>1, <2>2 DEF IssueRequest, LinkedHasNoRow, TypeOK
  <2>3. ASSUME linked' = linked PROVE LinkedHasNoRow'
    BY <2>1, <2>3 DEF LinkedHasNoRow
  <2> QED
    BY <2>2, <2>3, RequestStepKinds DEF IssueFails, DeleteExpired, DeleteExpiredIn
<1>2. IssuedInThePast'
  <2>1. ASSUME NEW n \in Nonce, issued[n] # NULL PROVE issued'[n] <= clock'
    BY <1>0, <2>1, IssuedIsForever DEF IssuedInThePast, TypeOK
  <2>2. ASSUME NEW m \in Nonce, NEW d \in Deliveries, IssueRequest(m, d)
        PROVE  IssuedInThePast'
    BY <1>0, <2>1, <2>2 DEF IssueRequest, IssuedInThePast, TypeOK
  <2>3. ASSUME issued' = issued PROVE IssuedInThePast'
    BY <2>1, <2>3 DEF IssuedInThePast
  <2> QED
    BY <2>2, <2>3, RequestStepKinds DEF IssueFails, DeleteExpired, DeleteExpiredIn
<1>3. BegunAfterIssue'
  <2>1. ASSUME NEW u \in Upload, upState[u] = "checked",
               upNonce'[u] = upNonce[u], upBegan'[u] = upBegan[u]
        PROVE  issued'[upNonce'[u]] <= upBegan'[u]
    BY <2>1, IssuedIsForever DEF BegunAfterIssue, OkMeansClosed, UploadsAreAddressed
  <2>2. CASE UNCHANGED upVars
    BY <2>1, <2>2 DEF upVars, BegunAfterIssue
  <2>3. ASSUME NEW u \in Upload, NEW n \in Nonce, NEW docs \in (0..MaxDocs) \cup {NULL},
               BeginUpload(u, n, docs)
        PROVE  BegunAfterIssue'
    <3>1. issued'[n] <= clock
      BY <2>3 DEF BeginUpload, IssuedInThePast
    <3> QED
      BY <2>1, <2>3, <3>1 DEF BeginUpload, UploadGoesTo, BegunAfterIssue, TypeOK
  <2>4. ASSUME NEW u \in Upload,
               \/ StoreDocuments(u) \/ StoreFailureReport(u) \/ StoreFails(u)
               \/ CloseRequest(u) \/ CloseFails(u)
        PROVE  BegunAfterIssue'
    <3>1. UNCHANGED upNonce /\ \E s \in UploadState \ {"checked"} : UploadGoesTo(u, s)
      BY <2>4 DEF StoreDocuments, StoreFailureReport, StoreFails, CloseRequest,
                  CloseFails, UploadState
    <3> QED
      BY <2>1, <3>1 DEF UploadGoesTo, BegunAfterIssue, TypeOK
  <2>5. CASE Restart
    BY <2>5 DEF Restart, BegunAfterIssue
  <2> QED
    BY <2>2, <2>3, <2>4, <2>5, StepKinds
<1>4. StoredAfterIssue'
  <2>1. ASSUME NEW r \in sdo
        PROVE  issued'[r.request_id] # NULL /\ issued'[r.request_id] <= r.created_at
    <3>1. r.request_id \in Nonce
      BY DEF TypeOK, Row
    <3> QED
      BY <2>1, <3>1, IssuedIsForever DEF StoredAfterIssue
  <2>2. ASSUME sdo' \subseteq sdo PROVE StoredAfterIssue'
    BY <2>1, <2>2 DEF StoredAfterIssue
  <2>3. ASSUME NEW u \in Upload, upState[u] = "checked", AddSignedDataObjects(u),
               UNCHANGED <<clock, issued>>
        PROVE  StoredAfterIssue'
    <3>1. upNonce[u] \in Nonce /\ upBegan[u] \in Nat
      BY <2>3 DEF UploadsAreAddressed
    <3>2. PICK time \in Datings(u) : sdo' = sdo \cup NewRows(u, time)
      BY <2>3 DEF AddSignedDataObjects
    <3>3. issued[upNonce[u]] \in Nat /\ issued[upNonce[u]] <= upBegan[u]
      BY <2>3, <3>1 DEF BegunAfterIssue, OkMeansClosed, TypeOK
    <3>4. ASSUME NEW r \in NewRows(u, time)
          PROVE  issued[r.request_id] # NULL /\ issued[r.request_id] <= r.created_at
      <4>1. /\ r.request_id = upNonce[u] /\ upBegan[u] <= r.created_at
            /\ r.created_at \in Nat
        BY <3>1, RowsOfAnUpload DEF Row
      <4> QED
        BY <1>0, <3>1, <3>3, <4>1
    <3> QED
      BY <2>1, <2>3, <3>2, <3>4 DEF StoredAfterIssue
  <2> QED
    BY <2>2, <2>3, RowStepKinds
<1>5. ViewsAreAddressed'
  <2>1. ASSUME NEW v \in View, NEW n \in Nonce, BeginView(v, n)
        PROVE  ViewsAreAddressed'
    BY <2>1 DEF BeginView, ViewGoesTo, ViewsAreAddressed, TypeOK
  <2>2. ASSUME NEW v \in View, FinishView(v) \/ ViewFails(v)
        PROVE  ViewsAreAddressed'
    BY <2>2 DEF FinishView, ViewFails, ViewGoesTo, ViewsAreAddressed, TypeOK
  <2>3. CASE UNCHANGED vwVars
    BY <2>3 DEF vwVars, ViewsAreAddressed
  <2>4. CASE Restart
    BY <2>4 DEF Restart, ViewsAreAddressed, TypeOK
  <2> QED
    BY <2>1, <2>2, <2>3, <2>4, ViewStepKinds
<1>6. AdmittedIsRecorded'
  <2>1. ASSUME NEW u \in Upload, upState[u] = "checked", upNonce'[u] = upNonce[u]
        PROVE  upNonce'[u] \notin linked'
    <3>1. issued[upNonce[u]] # NULL /\ upNonce[u] \notin linked
      BY <2>1 DEF OkMeansClosed, AdmittedIsRecorded
    <3> QED
      BY <2>1, <3>1, RequestStepKinds
         DEF IssueFails, IssueRequest, DeleteExpired, DeleteExpiredIn
  <2>2. CASE UNCHANGED upVars
    BY <2>1, <2>2 DEF upVars, AdmittedIsRecorded
  <2>3. ASSUME NEW u \in Upload, NEW n \in Nonce, NEW docs \in (0..MaxDocs) \cup {NULL},
               BeginUpload(u, n, docs)
        PROVE  AdmittedIsRecorded'
    <3>1. upState'[u] = "checked" => n \notin linked
      BY <2>3 DEF BeginUpload, UploadGoesTo, Known, LinkedHasNoRow, TypeOK
    <3> QED
      BY <2>1, <2>3, <3>1 DEF BeginUpload, UploadGoesTo, AdmittedIsRecorded, TypeOK
  <2>4. ASSUME NEW u \in Upload,
               \/ StoreDocuments(u) \/ StoreFailureReport(u) \/ StoreFails(u)
               \/ CloseRequest(u) \/ CloseFails(u)
        PROVE  AdmittedIsRecorded'
    <3>1. UNCHANGED upNonce /\ \E s \in UploadState \ {"checked"} : UploadGoesTo(u, s)
      BY <2>4 DEF StoreDocuments, StoreFailureReport, StoreFails, CloseRequest,
                  CloseFails, UploadState
    <3> QED
      BY <2>1, <3>1 DEF UploadGoesTo, AdmittedIsRecorded, TypeOK
  <2>5. CASE Restart
    BY <2>5 DEF Restart, AdmittedIsRecorded
  <2> QED
    BY <2>2, <2>3, <2>4, <2>5, StepKinds
<1> QED
  BY <1>1, <1>2, <1>3, <1>4, <1>5, <1>6

LEMMA HistoryInvariance == Spec => [](IInv /\ OkMeansClosed /\ HistoryInv)
<1>1. Init => HistoryInv
  BY DEF Init, HistoryInv, LinkedHasNoRow, IssuedInThePast, BegunAfterIssue,
         StoredAfterIssue, AdmittedIsRecorded, ViewsAreAddressed
<1>2. IInv /\ OkMeansClosed /\ HistoryInv /\ [Next]_vars => HistoryInv'
  BY StepHistory
<1> QED
  BY <1>1, <1>2, Invariance, OkMeansClosedInvariance, PTL DEF Spec

-----------------------------------------------------------------------------
(* The steps of the mailbox *)

\* A step that leaves every part of the mapping as it is, is no step of the
\* mailbox.
LEMMA SameMailbox ==
  ASSUME \A n \in Nonce : /\ StatusOf(n)' = StatusOf(n)
                          /\ HasLapsed(n)' <=> HasLapsed(n)
                          /\ IsAnswered(n)' <=> IsAnswered(n)
                          /\ BoxOf(n)' = BoxOf(n),
         \A u \in Upload : TicketOf(u)' = TicketOf(u)
  PROVE  UNCHANGED Mailbox!vars
<1>1. [n \in Nonce |-> StatusOf(n)]' = [n \in Nonce |-> StatusOf(n)]
  OBVIOUS
<1>2. {n \in Nonce : HasLapsed(n)}' = {n \in Nonce : HasLapsed(n)}
  OBVIOUS
<1>3. {n \in Nonce : IsAnswered(n)}' = {n \in Nonce : IsAnswered(n)}
  OBVIOUS
<1>4. [u \in Upload |-> TicketOf(u)]' = [u \in Upload |-> TicketOf(u)]
  OBVIOUS
<1>5. [n \in Nonce |-> BoxOf(n)]' = [n \in Nonce |-> BoxOf(n)]
  OBVIOUS
<1> QED
  BY <1>1, <1>2, <1>3, <1>4, <1>5 DEF Mailbox!vars

\* Parts of the mapping that a step does not touch.
LEMMA SameRequests ==
  ASSUME UNCHANGED <<clock, issued, linked, sd>>, NEW n \in Nonce
  PROVE  StatusOf(n)' = StatusOf(n) /\ (HasLapsed(n)' <=> HasLapsed(n))
  BY DEF StatusOf, HasLapsed, Expired

LEMMA SameUploads ==
  ASSUME UNCHANGED upVars
  PROVE  /\ \A n \in Nonce : IsAnswered(n)' <=> IsAnswered(n)
         /\ \A u \in Upload : TicketOf(u)' = TicketOf(u)
  BY DEF upVars, IsAnswered, Answers, TicketOf

LEMMA SameRows ==
  ASSUME UNCHANGED sdo, NEW n \in Nonce
  PROVE  BoxOf(n)' = BoxOf(n)
  BY DEF BoxOf, RowsOf

\* The mailbox is opened, or sealed.
LEMMA IssueIsIssue ==
  ASSUME TypeOK, HistoryInv, NEW n \in Nonce, NEW d \in Deliveries, IssueRequest(n, d)
  PROVE  Mailbox!Issue(n)
<1>0. clock \in Nat /\ clock # NULL
  BY ExchangeAssumption DEF TypeOK
<1>1. n \notin linked
  BY DEF IssueRequest, HistoryInv, LinkedHasNoRow
<1>2. PICK s \in {"open", "sealed"} :
        \A m \in Nonce : StatusOf(m)' = IF m = n THEN s ELSE StatusOf(m)
  BY <1>0, <1>1 DEF IssueRequest, StatusOf, TypeOK
<1>3. \A m \in Nonce : HasLapsed(m)' <=> HasLapsed(m)
  BY <1>0, ExchangeAssumption DEF IssueRequest, HasLapsed, Expired, TypeOK
<1>4. /\ \A m \in Nonce : (IsAnswered(m)' <=> IsAnswered(m)) /\ BoxOf(m)' = BoxOf(m)
      /\ \A u \in Upload : TicketOf(u)' = TicketOf(u)
  BY SameUploads, SameRows DEF IssueRequest
<1>5. StatusOf(n) = "new"
  BY DEF IssueRequest, StatusOf
<1> QED
  BY <1>2, <1>3, <1>4, <1>5 DEF Mailbox!Issue

\* A failed creation leaves no mailbox.
LEMMA IssueFailsIsNothing ==
  ASSUME TypeOK, NEW n \in Nonce, IssueFails(n)
  PROVE  UNCHANGED Mailbox!vars
<1>1. \A m \in Nonce : StatusOf(m)' = StatusOf(m) /\ (HasLapsed(m)' <=> HasLapsed(m))
  BY DEF IssueFails, StatusOf, HasLapsed, Expired, TypeOK
<1>2. /\ \A m \in Nonce : (IsAnswered(m)' <=> IsAnswered(m)) /\ BoxOf(m)' = BoxOf(m)
      /\ \A u \in Upload : TicketOf(u)' = TicketOf(u)
  BY SameUploads, SameRows DEF IssueFails
<1> QED
  BY <1>1, <1>2, SameMailbox

\* An upload that finds its request is admitted; no other changes the mailbox.
LEMMA BeginIsAdmission ==
  ASSUME IInv, HistoryInv, NEW u \in Upload, NEW n \in Nonce,
         NEW docs \in (0..MaxDocs) \cup {NULL}, BeginUpload(u, n, docs)
  PROVE  Mailbox!Admit(u, n) \/ UNCHANGED Mailbox!vars
<1> USE DEF IInv
<1>1. \A m \in Nonce : /\ StatusOf(m)' = StatusOf(m) /\ (HasLapsed(m)' <=> HasLapsed(m))
                       /\ BoxOf(m)' = BoxOf(m)
  BY SameRequests, SameRows DEF BeginUpload, dbVars
<1>2. \A m \in Nonce : IsAnswered(m)' <=> IsAnswered(m)
  <2>1. \A w \in Upload : upStored[w] # NULL => w # u
    BY DEF BeginUpload, UploadsAreAddressed
  <2> QED
    BY <2>1 DEF BeginUpload, IsAnswered, Answers, TypeOK
<1>3. TicketOf(u) = NULL
  BY DEF BeginUpload, TicketOf
<1>4. CASE upState'[u] = "checked"
  <2>1. Known(n)
    BY <1>4 DEF BeginUpload, UploadGoesTo, TypeOK
  <2>2. StatusOf(n) = "open"
    BY <2>1 DEF BeginUpload, Known, StatusOf, HistoryInv, LinkedHasNoRow
  <2>3. \A w \in Upload : TicketOf(w)' = IF w = u THEN n ELSE TicketOf(w)
    BY <1>4 DEF BeginUpload, UploadGoesTo, TicketOf, TypeOK
  <2> QED
    BY <1>1, <1>2, <1>3, <2>2, <2>3 DEF Mailbox!Admit
<1>5. CASE upState'[u] # "checked"
  <2>1. \A w \in Upload : TicketOf(w)' = TicketOf(w)
    BY <1>3, <1>5 DEF BeginUpload, UploadGoesTo, TicketOf, TypeOK
  <2> QED
    BY <1>1, <1>2, <2>1, SameMailbox
<1> QED
  BY <1>4, <1>5

\* Whatever an upload inserts, documents or the report of a failure, acknowledged
\* or not, is one deposit for its ticket.
LEMMA StoringIsDeposit ==
  ASSUME IInv, NEW u \in Upload, upState[u] = "checked", upDocs[u] # 0,
         AddSignedDataObjects(u), NEW s \in UploadState \ {"checked"}, UploadGoesTo(u, s),
         UNCHANGED <<clock, issued, linked, sd, upNonce, upDocs>>
  PROVE  Mailbox!Deposit(u)
<1> USE DEF IInv
<1> DEFINE n == upNonce[u]
<1>1. n \in Nonce /\ upBegan[u] \in Nat /\ TicketOf(u) = n
  BY DEF UploadsAreAddressed, TicketOf
<1>2. PICK time \in Datings(u) : sdo' = sdo \cup NewRows(u, time)
  BY DEF AddSignedDataObjects
<1> DEFINE D == {r.signed_data_object : r \in NewRows(u, time)}
<1>3. \A r \in NewRows(u, time) : r.request_id = n
  BY <1>1, RowsOfAnUpload
<1>4. \A m \in Nonce : BoxOf(m)' = IF m = n THEN BoxOf(m) \cup D ELSE BoxOf(m)
  BY <1>2, <1>3 DEF BoxOf, RowsOf
<1>5. \A m \in Nonce : StatusOf(m)' = StatusOf(m) /\ (HasLapsed(m)' <=> HasLapsed(m))
  BY SameRequests
<1>6. \A w \in Upload : TicketOf(w)' = IF w = u THEN NULL ELSE TicketOf(w)
  BY DEF UploadGoesTo, TicketOf, TypeOK
<1>7. upStored'[u] # NULL /\ \A w \in Upload \ {u} : upStored'[w] = upStored[w]
  BY <1>1, AddKeepsTypes
<1>8. CASE upDocs[u] = NULL
  <2>1. D = {NULL}
    BY <1>8 DEF NewRows
  <2>2. \A m \in Nonce : IsAnswered(m)' <=> IsAnswered(m)
    BY <1>7, <1>8 DEF IsAnswered, Answers
  <2>3. \A m \in Nonce : BoxOf(m)' = IF m = n THEN BoxOf(m) \cup {NULL} ELSE BoxOf(m)
    BY <1>4, <2>1
  <2> QED
    BY <1>1, <1>5, <1>6, <2>2, <2>3 DEF Mailbox!Deposit
<1>9. CASE upDocs[u] # NULL
  <2>1. upDocs[u] \in 1..MaxDocs
    BY <1>9, ExchangeAssumption DEF TypeOK
  <2>2. D \in (SUBSET Document) \ {{}}
    <3>1. ASSUME NEW r \in NewRows(u, time) PROVE r.signed_data_object \in Document
      <4>1. PICK k \in 1..upDocs[u] : r.signed_data_object = <<u, k>>
        BY <1>1, <1>9, RowsOfAnUpload
      <4>2. k \in 1..MaxDocs
        BY <2>1, ExchangeAssumption
      <4> QED
        BY <4>1, <4>2 DEF Document
    <3>2. D # {}
      <4>1. 1 \in 1..upDocs[u]
        BY <2>1, ExchangeAssumption
      <4>2. NewRows(u, time) # {}
        BY <1>9, <4>1 DEF NewRows
      <4> QED
        BY <4>2
    <3> QED
      BY <3>1, <3>2
  <2>3. \A m \in Nonce : IsAnswered(m)' <=> (m = n \/ IsAnswered(m))
    BY <1>7, <1>9 DEF IsAnswered, Answers
  <2> HIDE DEF D
  <2> QED
    BY <1>1, <1>4, <1>5, <1>6, <2>2, <2>3 DEF Mailbox!Deposit
<1> QED
  BY <1>8, <1>9

\* An upload that fails without storing gives its ticket back.
LEMMA FailingIsRelease ==
  ASSUME IInv, NEW u \in Upload, NEW s \in UploadState \ {"checked"}, UploadGoesTo(u, s),
         UNCHANGED <<clock, issued, linked, sd, sdo, upNonce, upDocs, upStored>>
  PROVE  Mailbox!Release
<1> USE DEF IInv
<1>1. \A n \in Nonce : /\ StatusOf(n)' = StatusOf(n) /\ (HasLapsed(n)' <=> HasLapsed(n))
                       /\ BoxOf(n)' = BoxOf(n) /\ (IsAnswered(n)' <=> IsAnswered(n))
  BY SameRequests, SameRows DEF IsAnswered, Answers
<1>2. \A w \in Upload : TicketOf(w)' = IF w \in {u} THEN NULL ELSE TicketOf(w)
  BY DEF UploadGoesTo, TicketOf, TypeOK
<1> QED
  BY <1>1, <1>2 DEF Mailbox!Release

\* The request of an upload that stored is closed, unless its age was faster.
LEMMA ClosingIsClose ==
  ASSUME IInv, NEW u \in Upload, upState[u] = "stored",
         NEW s \in UploadState \ {"checked"}, UploadGoesTo(u, s),
         RemoveRequestObject(upNonce[u]),
         UNCHANGED <<clock, issued, linked, sdo, upNonce, upDocs, upStored>>
  PROVE  Mailbox!Close(upNonce[u]) \/ UNCHANGED Mailbox!vars
<1> USE DEF IInv
<1> DEFINE n == upNonce[u]
<1>1. n \in Nonce /\ IsAnswered(n)
  BY DEF UploadsAreAddressed, StoredMeansAnswer, IsAnswered, Answers
<1>2. \A m \in Nonce : /\ HasLapsed(m)' <=> HasLapsed(m)
                       /\ BoxOf(m)' = BoxOf(m) /\ (IsAnswered(m)' <=> IsAnswered(m))
  BY SameRows DEF IsAnswered, Answers, HasLapsed, Expired
<1>3. \A w \in Upload : TicketOf(w)' = TicketOf(w)
  BY DEF UploadGoesTo, TicketOf, TypeOK
<1>4. CASE StatusOf(n) = "open"
  <2>1. \A m \in Nonce : StatusOf(m)' = IF m = n THEN "closed" ELSE StatusOf(m)
    BY <1>1, <1>4 DEF RemoveRequestObject, StatusOf, TypeOK
  <2> QED
    BY <1>1, <1>2, <1>3, <1>4, <2>1 DEF Mailbox!Close
<1>5. CASE StatusOf(n) # "open"
  <2>1. \A m \in Nonce : StatusOf(m)' = StatusOf(m)
    BY <1>1, <1>5 DEF RemoveRequestObject, StatusOf, TypeOK
  <2> QED
    BY <1>2, <1>3, <2>1, SameMailbox
<1> QED
  BY <1>4, <1>5

\* The delete of a view empties the mailbox of its request.
LEMMA DeletingIsCollect ==
  ASSUME NEW n \in Nonce, RemoveSignedDataObjects(n),
         UNCHANGED <<clock, issued, linked, sd, upVars>>
  PROVE  Mailbox!Collect(n)
<1>1. \A m \in Nonce : BoxOf(m)' = IF m = n THEN {} ELSE BoxOf(m)
  BY DEF RemoveSignedDataObjects, BoxOf, RowsOf
<1>2. /\ \A m \in Nonce : /\ StatusOf(m)' = StatusOf(m)
                          /\ HasLapsed(m)' <=> HasLapsed(m)
                          /\ IsAnswered(m)' <=> IsAnswered(m)
      /\ \A u \in Upload : TicketOf(u)' = TicketOf(u)
  BY SameRequests, SameUploads
<1> QED
  BY <1>1, <1>2 DEF Mailbox!Collect

\* The cleanup takes away only what belongs to lapsed requests.
LEMMA CleanupIsPurge ==
  ASSUME IInv, HistoryInv, DeleteExpired
  PROVE  Mailbox!Purge
<1> USE DEF IInv
<1>0. clock \in Nat /\ (MaxAge # NULL => MaxAge \in Nat)
  BY ExchangeAssumption DEF TypeOK
<1>1. PICK tables \in SUBSET TimedTables : DeleteExpiredIn(tables)
  BY DEF DeleteExpired
<1> DEFINE S == {n \in Nonce : HasLapsed(n) /\ sd'[n] = NULL}
<1>2. \A n \in Nonce : StatusOf(n)' = IF n \in S /\ StatusOf(n) = "open"
                                      THEN "closed" ELSE StatusOf(n)
  BY <1>1 DEF DeleteExpiredIn, StatusOf, HasLapsed, RowsAreDated, TypeOK
<1>3. \A n \in Nonce : BoxOf(n)' \subseteq BoxOf(n)
  BY <1>1 DEF DeleteExpiredIn, BoxOf, RowsOf
<1>4. ASSUME NEW n \in Nonce, ~HasLapsed(n) PROVE BoxOf(n)' = BoxOf(n)
  <2>1. ASSUME NEW r \in RowsOf(n) PROVE ~Expired(r.created_at)
    <3>1. /\ r \in sdo /\ r.request_id = n /\ issued[n] # NULL
          /\ issued[n] <= r.created_at
      BY DEF RowsOf, HistoryInv, StoredAfterIssue
    <3>2. issued[n] \in Nat /\ r.created_at \in Nat
      BY <3>1 DEF TypeOK, Row
    <3> QED
      BY <1>0, <1>4, <3>1, <3>2 DEF HasLapsed, Expired
  <2>2. RowsOf(n)' = RowsOf(n)
    BY <1>1, <2>1 DEF DeleteExpiredIn, RowsOf
  <2> QED
    BY <2>2 DEF BoxOf
<1>5. \A n \in Nonce : BoxOf(n) \subseteq Document \cup {NULL}
  BY DEF BoxOf, RowsOf, TypeOK, Row
<1>6. /\ \A n \in Nonce : /\ HasLapsed(n)' <=> HasLapsed(n)
                          /\ IsAnswered(n)' <=> IsAnswered(n)
      /\ \A u \in Upload : TicketOf(u)' = TicketOf(u)
  BY <1>1, SameUploads DEF DeleteExpiredIn, HasLapsed, Expired
<1>7. [n \in Nonce |-> BoxOf(n)]' \in [Nonce -> SUBSET (Document \cup {NULL})]
  BY <1>3, <1>5
<1>8. S \subseteq {n \in Nonce : HasLapsed(n)}
  OBVIOUS
<1> HIDE DEF S
<1> QED
  BY <1>2, <1>3, <1>4, <1>6, <1>7, <1>8 DEF Mailbox!Purge

\* A restart cuts off whoever holds a ticket.
LEMMA RestartIsRelease ==
  ASSUME IInv, Restart
  PROVE  Mailbox!Release
<1> USE DEF IInv
<1>1. \A n \in Nonce : /\ StatusOf(n)' = StatusOf(n) /\ (HasLapsed(n)' <=> HasLapsed(n))
                       /\ BoxOf(n)' = BoxOf(n) /\ (IsAnswered(n)' <=> IsAnswered(n))
  BY SameRequests, SameRows DEF Restart, dbVars, IsAnswered, Answers
<1>2. \A w \in Upload : TicketOf(w)' = IF w \in Upload THEN NULL ELSE TicketOf(w)
  BY DEF Restart, TicketOf, TypeOK
<1> QED
  BY <1>1, <1>2 DEF Mailbox!Release

\* Time makes requests lapse.
LEMMA TickIsLapse ==
  ASSUME IInv, Tick
  PROVE  Mailbox!Lapse
<1> USE DEF IInv
<1> DEFINE S == {n \in Nonce : HasLapsed(n)'}
<1>1. \A n \in Nonce : HasLapsed(n) => HasLapsed(n)'
  BY ExchangeAssumption DEF Tick, HasLapsed, Expired, TypeOK
<1>2. S \in SUBSET {n \in Nonce : StatusOf(n) # "new"}
  BY DEF Tick, HasLapsed, StatusOf
<1>3. {n \in Nonce : HasLapsed(n)}' = {n \in Nonce : HasLapsed(n)} \cup S
  BY <1>1
<1>4. /\ \A n \in Nonce : /\ StatusOf(n)' = StatusOf(n) /\ BoxOf(n)' = BoxOf(n)
                          /\ IsAnswered(n)' <=> IsAnswered(n)
      /\ \A u \in Upload : TicketOf(u)' = TicketOf(u)
  BY SameUploads, SameRows DEF Tick, dbVars, StatusOf
<1> HIDE DEF S
<1> QED
  BY <1>2, <1>3, <1>4 DEF Mailbox!Lapse

-----------------------------------------------------------------------------
(* The refinement *)

LEMMA UploadStep ==
  ASSUME IInv, HistoryInv, NEW u \in Upload,
         \/ StoreDocuments(u) \/ StoreFailureReport(u) \/ StoreFails(u)
         \/ CloseRequest(u) \/ CloseFails(u)
  PROVE  [Mailbox!Next]_(Mailbox!vars)
<1>0. UploadState \ {"checked"} = {"idle", "stored", "ok", "unknown", "failed",
                                   "error", "crashed"}
  BY DEF UploadState
<1>1. CASE StoreDocuments(u)
  <2>1. Mailbox!Deposit(u)
    BY <1>0, <1>1, StoringIsDeposit DEF StoreDocuments
  <2> QED
    BY <2>1 DEF Mailbox!Next
<1>2. CASE StoreFailureReport(u)
  <2>1. upDocs[u] # 0
    BY <1>2, ExchangeAssumption DEF StoreFailureReport
  <2>2. Mailbox!Deposit(u)
    BY <1>0, <1>2, <2>1, StoringIsDeposit DEF StoreFailureReport
  <2> QED
    BY <2>2 DEF Mailbox!Next
<1>3. CASE StoreFails(u)
  <2>1. PICK s \in UploadState \ {"checked"} : UploadGoesTo(u, s)
    BY <1>0, <1>3 DEF StoreFails
  <2>2. CASE upDocs[u] # 0 /\ AddSignedDataObjects(u)
    <3>1. Mailbox!Deposit(u)
      BY <1>3, <2>1, <2>2, StoringIsDeposit DEF StoreFails
    <3> QED
      BY <3>1 DEF Mailbox!Next
  <2>3. CASE UNCHANGED <<sdo, nextId, upStored>>
    <3>1. Mailbox!Release
      BY <1>3, <2>1, <2>3, FailingIsRelease DEF StoreFails
    <3> QED
      BY <3>1 DEF Mailbox!Next
  <2> QED
    BY <1>3, <2>2, <2>3 DEF StoreFails
<1>4. CASE CloseRequest(u) \/ CloseFails(u)
  <2>1. PICK s \in UploadState \ {"checked"} : UploadGoesTo(u, s)
    BY <1>0, <1>4 DEF CloseRequest, CloseFails
  <2>2. upNonce[u] \in Nonce /\ upState[u] = "stored"
    BY <1>4 DEF CloseRequest, CloseFails, IInv, UploadsAreAddressed
  <2>3. CASE RemoveRequestObject(upNonce[u])
    <3>1. Mailbox!Close(upNonce[u]) \/ UNCHANGED Mailbox!vars
      BY <1>4, <2>1, <2>2, <2>3, ClosingIsClose DEF CloseRequest, CloseFails
    <3> QED
      BY <2>2, <3>1 DEF Mailbox!Next
  <2>4. CASE UNCHANGED sd
    <3>1. Mailbox!Release
      BY <1>4, <2>1, <2>4, FailingIsRelease DEF CloseRequest, CloseFails
    <3> QED
      BY <3>1 DEF Mailbox!Next
  <2> QED
    BY <1>4, <2>3, <2>4 DEF CloseRequest, CloseFails
<1> QED
  BY <1>1, <1>2, <1>3, <1>4

LEMMA ViewStep ==
  ASSUME HistoryInv, NEW v \in View,
         (\E n \in Nonce : BeginView(v, n)) \/ FinishView(v) \/ ViewFails(v)
  PROVE  [Mailbox!Next]_(Mailbox!vars)
<1>1. ASSUME UNCHANGED <<clock, issued, linked, sd, sdo, upVars>>
      PROVE  UNCHANGED Mailbox!vars
  BY <1>1, SameRequests, SameUploads, SameRows, SameMailbox
<1>2. ASSUME NEW n \in Nonce, BeginView(v, n) PROVE UNCHANGED Mailbox!vars
  BY <1>1, <1>2 DEF BeginView, dbVars
<1>3. CASE FinishView(v) \/ ViewFails(v)
  <2>1. vwNonce[v] \in Nonce
    BY <1>3 DEF FinishView, ViewFails, HistoryInv, ViewsAreAddressed
  <2>2. CASE RemoveSignedDataObjects(vwNonce[v])
    <3>1. Mailbox!Collect(vwNonce[v])
      BY <1>3, <2>1, <2>2, DeletingIsCollect DEF FinishView, ViewFails
    <3> QED
      BY <2>1, <3>1 DEF Mailbox!Next
  <2>3. CASE UNCHANGED sdo
    BY <1>1, <1>3, <2>3 DEF FinishView, ViewFails
  <2> QED
    BY <1>3, <2>2, <2>3 DEF FinishView, ViewFails
<1> QED
  BY <1>2, <1>3

\* Every step of the exchange is a step of the mailbox, or none.
LEMMA StepIsMailboxStep ==
  ASSUME IInv, HistoryInv, [Next]_vars
  PROVE  [Mailbox!Next]_(Mailbox!vars)
<1>1. ASSUME NEW n \in Nonce, IssueFails(n) PROVE UNCHANGED Mailbox!vars
  BY <1>1, IssueFailsIsNothing DEF IInv
<1>2. ASSUME NEW n \in Nonce, NEW d \in Deliveries, IssueRequest(n, d)
      PROVE  Mailbox!Next
  BY <1>2, IssueIsIssue DEF IInv, Mailbox!Next
<1>3. ASSUME NEW u \in Upload, NEW n \in Nonce, NEW docs \in (0..MaxDocs) \cup {NULL},
             BeginUpload(u, n, docs)
      PROVE  [Mailbox!Next]_(Mailbox!vars)
  BY <1>3, BeginIsAdmission DEF Mailbox!Next
<1>4. CASE DeleteExpired \/ Restart \/ Tick
  BY <1>4, CleanupIsPurge, RestartIsRelease, TickIsLapse DEF Mailbox!Next
<1>5. CASE UNCHANGED vars
  BY <1>5, SameRequests, SameUploads, SameRows, SameMailbox DEF vars, dbVars
<1> QED
  BY <1>1, <1>2, <1>3, <1>4, <1>5, UploadStep, ViewStep DEF Next

\* Whatever the interleaving, the failures and the restarts: the two tables keep
\* the promise of the mailbox.
THEOREM ExchangeIsMailbox == Spec => ImplementsMailbox
<1>1. Init => Mailbox!Init
  <2> SUFFICES ASSUME Init PROVE Mailbox!Init
    OBVIOUS
  <2>1. \A n \in Nonce : /\ StatusOf(n) = "new" /\ ~HasLapsed(n) /\ ~IsAnswered(n)
                         /\ BoxOf(n) = {}
    BY DEF Init, StatusOf, HasLapsed, IsAnswered, Answers, BoxOf, RowsOf
  <2>2. \A u \in Upload : TicketOf(u) = NULL
    BY DEF Init, TicketOf
  <2> QED
    BY <2>1, <2>2 DEF Mailbox!Init
<1>2. IInv /\ HistoryInv /\ [Next]_vars => [Mailbox!Next]_(Mailbox!vars)
  BY StepIsMailboxStep
<1> QED
  BY <1>1, <1>2, HistoryInvariance, PTL DEF Spec, ImplementsMailbox, Mailbox!Spec

-----------------------------------------------------------------------------
(* What a browser sees *)

\* A step that changes no request and no answer is not seen.
LEMMA SameSeen ==
  ASSUME \A n \in Nonce : RequestOf(n)' = RequestOf(n) /\ AnswersTo(n)' = AnswersTo(n)
  PROVE  UNCHANGED Seen!vars
<1>1. [n \in Nonce |-> RequestOf(n)]' = [n \in Nonce |-> RequestOf(n)]
  OBVIOUS
<1>2. [n \in Nonce |-> AnswersTo(n)]' = [n \in Nonce |-> AnswersTo(n)]
  OBVIOUS
<1> QED
  BY <1>1, <1>2 DEF Seen!vars

\* Only a creation that succeeds changes what was requested.
LEMMA RequestsSeen ==
  ASSUME IInv, [Next]_vars
  PROVE  \/ \A n \in Nonce : RequestOf(n)' = RequestOf(n)
         \/ \E n \in Nonce, d \in Deliveries : IssueRequest(n, d)
BY RequestStepKinds DEF IInv, RequestOf, IssueFails, DeleteExpired, DeleteExpiredIn

\* A creation is seen as one.
LEMMA IssueIsCreate ==
  ASSUME TypeOK, HistoryInv, NEW n \in Nonce, NEW d \in Deliveries, IssueRequest(n, d)
  PROVE  Seen!Next
<1>0. clock # NULL
  BY ExchangeAssumption DEF TypeOK
<1>1. n \notin linked /\ d \in {"request_uri", "link"}
  BY ExchangeAssumption DEF IssueRequest, HistoryInv, LinkedHasNoRow
<1> DEFINE r == [doc |-> n, delivery |-> d]
<1>2. \A m \in Nonce : RequestOf(m)' = IF m = n THEN r ELSE RequestOf(m)
  BY <1>0, <1>1 DEF IssueRequest, RequestOf, TypeOK
<1>3. \A m \in Nonce : AnswersTo(m)' = AnswersTo(m)
  BY DEF IssueRequest, AnswersTo, RowsOf
<1>4. RequestOf(n) = NULL /\ r \in Seen!Request
  BY <1>1 DEF IssueRequest, RequestOf, Seen!Request, Seen!Delivery
<1> HIDE DEF r
<1>5. Seen!Create(n, r)
  BY <1>2, <1>3, <1>4 DEF Seen!Create
<1> QED
  BY <1>4, <1>5 DEF Seen!Next

\* Whoever takes rows away, a view or the cleanup, discards answers.
LEMMA RemovingIsDiscard ==
  ASSUME \A n \in Nonce : RequestOf(n)' = RequestOf(n), sdo' \subseteq sdo
  PROVE  Seen!Discard
<1>1. \A n \in Nonce : AnswersTo(n)' \subseteq AnswersTo(n)
  BY DEF AnswersTo, RowsOf
<1> DEFINE gone(n) == AnswersTo(n) \ AnswersTo(n)'
           lost == UNION {{n} \X gone(n) : n \in Nonce}
<1>2. \A n \in Nonce : \A content : <<n, content>> \in lost <=> content \in gone(n)
  OBVIOUS
<1>3. lost \in SUBSET UNION {{n} \X AnswersTo(n) : n \in Nonce}
  OBVIOUS
<1>4. \A n \in Nonce :
        AnswersTo(n)' = {content \in AnswersTo(n) : <<n, content>> \notin lost}
  BY <1>1, <1>2
<1> HIDE DEF lost
<1> QED
  BY <1>3, <1>4 DEF Seen!Discard

\* An upload that stores answers the request it was admitted for.
LEMMA StoringIsAnswer ==
  ASSUME IInv, HistoryInv, OkMeansClosed,
         \A n \in Nonce : RequestOf(n)' = RequestOf(n),
         NEW u \in Upload, upState[u] = "checked", AddSignedDataObjects(u)
  PROVE  Seen!Answer(upNonce[u]) \/ UNCHANGED Seen!vars
<1> USE DEF IInv
<1> DEFINE n == upNonce[u]
<1>1. n \in Nonce /\ upBegan[u] \in Nat
  BY DEF UploadsAreAddressed
<1>2. RequestOf(n) = [doc |-> n, delivery |-> "request_uri"]
  BY DEF RequestOf, OkMeansClosed, HistoryInv, AdmittedIsRecorded
<1>3. PICK time \in Datings(u) : sdo' = sdo \cup NewRows(u, time)
  BY DEF AddSignedDataObjects
<1> DEFINE content == IF upDocs[u] = NULL THEN NULL ELSE n
<1>4. \A r \in NewRows(u, time) :
        /\ r.request_id = n
        /\ (IF r.signed_data_object = NULL THEN NULL ELSE n) = content
  <2> TAKE r \in NewRows(u, time)
  <2>1. /\ r.request_id = n
        /\ IF upDocs[u] = NULL THEN r.signed_data_object = NULL
           ELSE \E k \in 1..upDocs[u] : r.signed_data_object = <<u, k>>
    BY <1>1, RowsOfAnUpload
  <2>2. ASSUME upDocs[u] # NULL PROVE r.signed_data_object # NULL
    <3>1. PICK k \in 1..upDocs[u] : r.signed_data_object = <<u, k>>
      BY <2>1, <2>2
    <3>2. k \in Nat
      BY <2>2, ExchangeAssumption DEF TypeOK
    <3>3. <<u, k>> \in Upload \X Nat
      BY <3>2
    <3> QED
      BY <3>1, <3>3, ExchangeAssumption
  <2> QED
    BY <2>1, <2>2
<1>5. CASE NewRows(u, time) = {}
  BY <1>3, <1>5, SameSeen DEF AnswersTo, RowsOf
<1>6. CASE NewRows(u, time) # {}
  <2>1. \A m \in Nonce :
          AnswersTo(m)' = IF m = n THEN AnswersTo(m) \cup {content} ELSE AnswersTo(m)
    BY <1>3, <1>4, <1>6 DEF AnswersTo, RowsOf
  <2>2. content \in {n, NULL}
    OBVIOUS
  <2> HIDE DEF content
  <2> DEFINE request == [m \in Nonce |-> RequestOf(m)]
             box == [m \in Nonce |-> AnswersTo(m)]
  <2>3. /\ request[n] \in [doc : Nonce, delivery : {"request_uri"}]
        /\ request[n].doc = n
    BY <1>1, <1>2
  <2>4. box' = [box EXCEPT ![n] = @ \cup {content}]
    BY <1>1, <2>1
  <2>5. request' = request
    OBVIOUS
  <2> QED
    BY <2>2, <2>3, <2>4, <2>5 DEF Seen!Answer
<1> QED
  BY <1>5, <1>6

\* The two tables show a browser what AnswerBox says, whatever is created, uploaded,
\* viewed, deleted and cut off at once: BrowserSession is right to build on it.
THEOREM ExchangeIsAnswerBox == Spec => ImplementsAnswerBox
<1>1. Init => Seen!Init
  <2> SUFFICES ASSUME Init PROVE Seen!Init
    OBVIOUS
  <2>1. \A n \in Nonce : RequestOf(n) = NULL /\ AnswersTo(n) = {}
    BY DEF Init, RequestOf, AnswersTo, RowsOf
  <2> QED
    BY <2>1 DEF Seen!Init
<1>2. IInv /\ OkMeansClosed /\ HistoryInv /\ [Next]_vars => [Seen!Next]_(Seen!vars)
  <2> SUFFICES ASSUME IInv, OkMeansClosed, HistoryInv, [Next]_vars
               PROVE  [Seen!Next]_(Seen!vars)
    OBVIOUS
  <2>1. CASE \A n \in Nonce : RequestOf(n)' = RequestOf(n)
    <3>1. CASE sdo' \subseteq sdo
      BY <2>1, <3>1, RemovingIsDiscard DEF Seen!Next
    <3>2. ASSUME NEW u \in Upload, upState[u] = "checked", AddSignedDataObjects(u)
          PROVE  [Seen!Next]_(Seen!vars)
      <4>1. upNonce[u] \in Nonce
        BY <3>2 DEF IInv, UploadsAreAddressed
      <4> QED
        BY <2>1, <3>2, <4>1, StoringIsAnswer DEF Seen!Next
    <3> QED
      BY <3>1, <3>2, RowStepKinds
  <2>2. ASSUME NEW n \in Nonce, NEW d \in Deliveries, IssueRequest(n, d)
        PROVE  Seen!Next
    BY <2>2, IssueIsCreate DEF IInv
  <2> QED
    BY <2>1, <2>2, RequestsSeen
<1> QED
  BY <1>1, <1>2, HistoryInvariance, PTL DEF Spec, ImplementsAnswerBox, Seen!Spec
=============================================================================
