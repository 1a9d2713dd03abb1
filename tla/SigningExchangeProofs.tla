------------------------ MODULE SigningExchangeProofs ------------------------
(***************************************************************************)
(* Proofs about SigningExchange, for every number of requests, uploads,    *)
(* views and documents, every maximal age and every choice of faults.      *)
(***************************************************************************)
EXTENDS SigningExchange, TLAPS

-----------------------------------------------------------------------------
(* The inductive invariant *)

\* An upload that looked its request up knows its id, and when it did until it
\* stores; one that has not has stored nothing.
UploadsAreAddressed ==
  \A u \in Upload :
    /\ upState[u] # "idle" => upNonce[u] \in Nonce
    /\ upState[u] = "checked" => upBegan[u] \in Nat
    /\ upState[u] = "idle" => upStored[u] = NULL

\* An upload past its insert has put documents into the database.
StoredMeansAnswer ==
  \A u \in Upload :
    upState[u] \in {"stored", "ok"} => upStored[u] # NULL /\ upDocs[u] # NULL

\* The row of a request carries the time the request was issued at.
RowsAreDated ==
  \A n \in Nonce : (issued[n] # NULL /\ sd[n] # NULL) => sd[n] = issued[n]

IInv ==
  /\ TypeOK
  /\ UploadsAreAddressed
  /\ StoredMeansAnswer
  /\ RowsAreDated
  /\ ClosedMeansAnswered

-----------------------------------------------------------------------------
(* Types *)

\* The times of the rows of an upload are times.
LEMMA DatingsAreTimes ==
  ASSUME TypeOK, NEW u \in Upload, upBegan[u] \in Nat, NEW time \in Datings(u)
  PROVE  time \in [1..MaxDocs -> Nat]
<1>1. clock \in Nat
  BY ExchangeAssumption DEF TypeOK
<1>2. {t \in {clock - 1, clock} : t >= upBegan[u]} \subseteq Nat
  BY <1>1
<1> QED
  BY <1>2 DEF Datings

\* The rows an admitted upload adds are rows of sdo.
LEMMA NewRowsAreRows ==
  ASSUME TypeOK, NEW u \in Upload, upNonce[u] \in Nonce, MaxDocs > 0,
         NEW time \in [1..MaxDocs -> Nat]
  PROVE  NewRows(u, time) \subseteq Row
<1>1. nextId \in Nat
  BY DEF TypeOK
<1>2. CASE upDocs[u] = NULL
  <2>1. 1 \in 1..MaxDocs /\ nextId + 1 - 1 \in Nat
    BY <1>1, ExchangeAssumption
  <2> QED
    BY <1>2, <2>1 DEF NewRows, Row
<1>3. CASE upDocs[u] # NULL
  <2>1. upDocs[u] \in 0..MaxDocs
    BY <1>3 DEF TypeOK
  <2> SUFFICES ASSUME NEW k \in 1..upDocs[u]
               PROVE  [id |-> nextId + k - 1, request_id |-> upNonce[u],
                       signed_data_object |-> <<u, k>>, created_at |-> time[k]] \in Row
    BY <1>3 DEF NewRows
  <2>2. k \in 1..MaxDocs /\ nextId + k - 1 \in Nat
    BY <1>1, <2>1, ExchangeAssumption
  <2> QED
    BY <2>2 DEF Row, Document
<1> QED
  BY <1>2, <1>3

\* Adding rows keeps the types of what it writes.
LEMMA AddKeepsTypes ==
  ASSUME TypeOK, NEW u \in Upload, upNonce[u] \in Nonce, upBegan[u] \in Nat,
         AddSignedDataObjects(u)
  PROVE  /\ sdo' \in SUBSET Row
         /\ nextId' \in Nat
         /\ upStored' \in [Upload -> Nat \cup {NULL}]
         /\ upStored'[u] # NULL
         /\ \A w \in Upload \ {u} : upStored'[w] = upStored[w]
<1>1. PICK time \in Datings(u) :
        /\ sdo' = sdo \cup NewRows(u, time)
        /\ nextId' = nextId + (IF upDocs[u] = NULL THEN 1 ELSE upDocs[u])
        /\ upStored' = [upStored EXCEPT ![u] = time[1]]
  BY DEF AddSignedDataObjects
<1>2. time \in [1..MaxDocs -> Nat] /\ time[1] \in Nat
  BY DatingsAreTimes, ExchangeAssumption
<1>3. sdo' \in SUBSET Row
  <2>1. MaxDocs > 0
    BY ExchangeAssumption
  <2>2. NewRows(u, time) \subseteq Row
    BY <1>2, <2>1, NewRowsAreRows
  <2> QED
    BY <1>1, <2>2 DEF TypeOK
<1>4. nextId' \in Nat
  BY <1>1, ExchangeAssumption DEF TypeOK
<1>5. /\ upStored' \in [Upload -> Nat \cup {NULL}] /\ upStored'[u] # NULL
      /\ \A w \in Upload \ {u} : upStored'[w] = upStored[w]
  BY <1>1, <1>2, ExchangeAssumption DEF TypeOK
<1> QED
  BY <1>3, <1>4, <1>5

LEMMA InitTypeOK == Init => TypeOK
  BY ExchangeAssumption DEF Init, TypeOK, UploadState, ViewState

\* Every step keeps the types, one action at a time.
LEMMA StepTypeOK ==
  ASSUME TypeOK, UploadsAreAddressed, [Next]_vars
  PROVE  TypeOK'
<1>0. clock \in Nat
  BY ExchangeAssumption DEF TypeOK
<1> USE DEF TypeOK
<1>1. ASSUME NEW n \in Nonce, IssueFails(n) PROVE TypeOK'
  BY <1>0, <1>1 DEF IssueFails, upVars, vwVars
<1>2. ASSUME NEW n \in Nonce, NEW d \in Deliveries, IssueRequest(n, d)
      PROVE  TypeOK'
  BY <1>0, <1>2 DEF IssueRequest, upVars, vwVars
<1>3. ASSUME NEW u \in Upload, NEW n \in Nonce,
             NEW docs \in (0..MaxDocs) \cup {NULL}, BeginUpload(u, n, docs)
      PROVE  TypeOK'
  <2>1. /\ upState' \in [Upload -> UploadState]
        /\ upBegan' \in [Upload -> Nat \cup {NULL}]
    BY <1>0, <1>3 DEF BeginUpload, UploadGoesTo, UploadState
  <2> QED
    BY <1>3, <2>1 DEF BeginUpload, dbVars, vwVars
<1>4. ASSUME NEW u \in Upload, StoreDocuments(u) PROVE TypeOK'
  <2>1. upNonce[u] \in Nonce /\ upBegan[u] \in Nat /\ AddSignedDataObjects(u)
    BY <1>4 DEF StoreDocuments, UploadsAreAddressed
  <2>2. /\ upState' \in [Upload -> UploadState]
        /\ upBegan' \in [Upload -> Nat \cup {NULL}]
    BY <1>4 DEF StoreDocuments, UploadGoesTo, UploadState
  <2> QED
    BY <1>4, <2>1, <2>2, AddKeepsTypes DEF StoreDocuments, vwVars
<1>5. ASSUME NEW u \in Upload, StoreFailureReport(u) PROVE TypeOK'
  <2>1. upNonce[u] \in Nonce /\ upBegan[u] \in Nat /\ AddSignedDataObjects(u)
    BY <1>5 DEF StoreFailureReport, UploadsAreAddressed
  <2>2. /\ upState' \in [Upload -> UploadState]
        /\ upBegan' \in [Upload -> Nat \cup {NULL}]
    BY <1>5 DEF StoreFailureReport, UploadGoesTo, UploadState
  <2> QED
    BY <1>5, <2>1, <2>2, AddKeepsTypes DEF StoreFailureReport, vwVars
<1>6. ASSUME NEW u \in Upload, StoreFails(u) PROVE TypeOK'
  <2>1. upNonce[u] \in Nonce /\ upBegan[u] \in Nat
    BY <1>6 DEF StoreFails, UploadsAreAddressed
  <2>2. /\ upState' \in [Upload -> UploadState]
        /\ upBegan' \in [Upload -> Nat \cup {NULL}]
    BY <1>6 DEF StoreFails, UploadGoesTo, UploadState
  <2>3. CASE AddSignedDataObjects(u)
    BY <1>6, <2>1, <2>2, <2>3, AddKeepsTypes DEF StoreFails, vwVars
  <2>4. CASE UNCHANGED <<sdo, nextId, upStored>>
    BY <1>6, <2>2, <2>4 DEF StoreFails, vwVars
  <2> QED
    BY <1>6, <2>3, <2>4 DEF StoreFails
<1>7. ASSUME NEW u \in Upload, CloseRequest(u) PROVE TypeOK'
  BY <1>7 DEF CloseRequest, RemoveRequestObject, UploadGoesTo, UploadState, vwVars
<1>8. ASSUME NEW u \in Upload, CloseFails(u) PROVE TypeOK'
  <2>1. /\ upState' \in [Upload -> UploadState]
        /\ upBegan' \in [Upload -> Nat \cup {NULL}]
    BY <1>8 DEF CloseFails, UploadGoesTo, UploadState
  <2>2. sd' \in [Nonce -> Nat \cup {NULL}]
    BY <1>8 DEF CloseFails, RemoveRequestObject
  <2> QED
    BY <1>8, <2>1, <2>2 DEF CloseFails, vwVars
<1>9. ASSUME NEW v \in View, NEW n \in Nonce, BeginView(v, n) PROVE TypeOK'
  <2>1. vwState' \in [View -> ViewState] /\ vwNonce' \in [View -> Nonce \cup {NULL}]
    BY <1>9 DEF BeginView, ViewGoesTo, ViewState
  <2>2. vwSeen' \in [View -> SUBSET Row]
    BY <1>9 DEF BeginView, RowsOf
  <2> QED
    BY <1>9, <2>1, <2>2 DEF BeginView, dbVars, upVars
<1>10. ASSUME NEW v \in View, FinishView(v) PROVE TypeOK'
  BY <1>10 DEF FinishView, RemoveSignedDataObjects, ViewGoesTo, ViewState, upVars
<1>11. ASSUME NEW v \in View, ViewFails(v) PROVE TypeOK'
  <2>1. vwState' \in [View -> ViewState]
    BY <1>11 DEF ViewFails, ViewGoesTo, ViewState
  <2>2. sdo' \in SUBSET Row
    BY <1>11 DEF ViewFails, RemoveSignedDataObjects
  <2> QED
    BY <1>11, <2>1, <2>2 DEF ViewFails, upVars
<1>12. ASSUME DeleteExpired PROVE TypeOK'
  BY <1>12 DEF DeleteExpired, DeleteExpiredIn, upVars, vwVars
<1>13. ASSUME Restart PROVE TypeOK'
  <2>1. /\ upState' \in [Upload -> UploadState]
        /\ upBegan' \in [Upload -> Nat \cup {NULL}]
        /\ vwState' \in [View -> ViewState]
    BY <1>13 DEF Restart, UploadState, ViewState
  <2> QED
    BY <1>13, <2>1 DEF Restart, dbVars
<1>14. ASSUME Tick PROVE TypeOK'
  BY <1>0, <1>14, ExchangeAssumption DEF Tick, dbVars, upVars, vwVars
<1>15. ASSUME UNCHANGED vars PROVE TypeOK'
  BY <1>15 DEF vars, dbVars, upVars, vwVars
<1> QED
  BY <1>1, <1>2, <1>3, <1>4, <1>5, <1>6, <1>7, <1>8, <1>9, <1>10, <1>11,
     <1>12, <1>13, <1>14, <1>15 DEF Next

-----------------------------------------------------------------------------
(* What a step can do to the uploads *)

\* A step either leaves the uploads alone, or is a step of one upload, or is a
\* restart.
LEMMA StepKinds ==
  ASSUME [Next]_vars
  PROVE  \/ UNCHANGED upVars
         \/ \E u \in Upload :
              \/ \E n \in Nonce, docs \in (0..MaxDocs) \cup {NULL} :
                   BeginUpload(u, n, docs)
              \/ StoreDocuments(u) \/ StoreFailureReport(u) \/ StoreFails(u)
              \/ CloseRequest(u) \/ CloseFails(u)
         \/ Restart
  BY DEF Next, vars, upVars, IssueFails, IssueRequest, BeginView, FinishView,
         ViewFails, DeleteExpired, DeleteExpiredIn, Tick

LEMMA StepUploads ==
  ASSUME TypeOK, UploadsAreAddressed, StoredMeansAnswer, [Next]_vars
  PROVE  UploadsAreAddressed' /\ StoredMeansAnswer'
<1> USE DEF TypeOK, UploadsAreAddressed, StoredMeansAnswer
<1>0. clock \in Nat /\ clock # NULL
  BY ExchangeAssumption
<1>1. CASE UNCHANGED upVars
  BY <1>1 DEF upVars
<1>2. ASSUME NEW u \in Upload, NEW n \in Nonce, NEW docs \in (0..MaxDocs) \cup {NULL},
             BeginUpload(u, n, docs)
      PROVE  UploadsAreAddressed' /\ StoredMeansAnswer'
  BY <1>0, <1>2 DEF BeginUpload, UploadGoesTo
<1>3. ASSUME NEW u \in Upload,
             StoreDocuments(u) \/ StoreFailureReport(u) \/ StoreFails(u)
      PROVE  UploadsAreAddressed' /\ StoredMeansAnswer'
  <2>1. /\ upState[u] = "checked" /\ upNonce[u] \in Nonce /\ upBegan[u] \in Nat
        /\ UNCHANGED <<upNonce, upDocs>>
    BY <1>3 DEF StoreDocuments, StoreFailureReport, StoreFails
  <2>2. PICK s \in {"stored", "failed", "error"} : UploadGoesTo(u, s)
    BY <1>3 DEF StoreDocuments, StoreFailureReport, StoreFails
  <2>3. CASE AddSignedDataObjects(u)
    <3>1. \A w \in Upload \ {u} : upStored'[w] = upStored[w]
      BY <2>1, <2>3, AddKeepsTypes
    <3>2. upStored'[u] # NULL
      BY <2>1, <2>3, AddKeepsTypes
    <3>3. s = "stored" => upDocs[u] # NULL
      BY <1>3, <2>2 DEF StoreDocuments, StoreFailureReport, StoreFails, UploadGoesTo
    <3> QED
      BY <2>1, <2>2, <3>1, <3>2, <3>3 DEF UploadGoesTo
  <2>4. CASE UNCHANGED upStored /\ s # "stored"
    BY <2>1, <2>2, <2>4 DEF UploadGoesTo
  <2> QED
    BY <1>3, <2>2, <2>3, <2>4 DEF StoreDocuments, StoreFailureReport, StoreFails,
                                  UploadGoesTo
<1>4. ASSUME NEW u \in Upload, CloseRequest(u) \/ CloseFails(u)
      PROVE  UploadsAreAddressed' /\ StoredMeansAnswer'
  BY <1>4 DEF CloseRequest, CloseFails, UploadGoesTo
<1>5. CASE Restart
  BY <1>5 DEF Restart
<1> QED
  BY <1>1, <1>2, <1>3, <1>4, <1>5, StepKinds

\* What an upload put into the database stays its answer.
LEMMA AnswersPersist ==
  ASSUME TypeOK, UploadsAreAddressed, [Next]_vars,
         NEW w \in Upload, NEW m \in Nonce, Answers(w, m)
  PROVE  Answers(w, m)'
<1> USE DEF TypeOK, UploadsAreAddressed, Answers
<1>0. clock # NULL
  BY ExchangeAssumption
<1>1. CASE UNCHANGED upVars
  BY <1>1 DEF upVars
<1>2. ASSUME NEW u \in Upload, NEW n \in Nonce, NEW docs \in (0..MaxDocs) \cup {NULL},
             BeginUpload(u, n, docs)
      PROVE  Answers(w, m)'
  BY <1>2 DEF BeginUpload
<1>3. ASSUME NEW u \in Upload,
             StoreDocuments(u) \/ StoreFailureReport(u) \/ StoreFails(u)
      PROVE  Answers(w, m)'
  <2>1. /\ upNonce[u] \in Nonce /\ upBegan[u] \in Nat
        /\ UNCHANGED <<upNonce, upDocs>>
        /\ AddSignedDataObjects(u) \/ UNCHANGED upStored
    BY <1>3 DEF StoreDocuments, StoreFailureReport, StoreFails
  <2>2. \A v \in Upload \ {u} : upStored'[v] = upStored[v]
    BY <2>1, AddKeepsTypes
  <2>3. upStored'[w] = upStored[w] \/ upStored'[w] # NULL
    BY <2>1, <2>2, AddKeepsTypes
  <2> QED
    BY <2>1, <2>3
<1>4. ASSUME NEW u \in Upload, CloseRequest(u) \/ CloseFails(u)
      PROVE  Answers(w, m)'
  BY <1>4 DEF CloseRequest, CloseFails
<1>5. CASE Restart
  BY <1>5 DEF Restart
<1> QED
  BY <1>1, <1>2, <1>3, <1>4, <1>5, StepKinds

-----------------------------------------------------------------------------
(* What a step can do to the requests *)

\* A step either leaves the requests alone, or creates one, or closes one, or is
\* the cleanup.
LEMMA RequestStepKinds ==
  ASSUME TypeOK, UploadsAreAddressed, [Next]_vars
  PROVE  \/ UNCHANGED <<issued, linked, sd>>
         \/ \E n \in Nonce : IssueFails(n) \/ \E d \in Deliveries : IssueRequest(n, d)
         \/ \E u \in Upload :
              /\ upState[u] = "stored" /\ upNonce[u] \in Nonce
              /\ RemoveRequestObject(upNonce[u])
              /\ UNCHANGED <<issued, linked>>
         \/ DeleteExpired
<1> USE DEF TypeOK, UploadsAreAddressed
<1>1. ASSUME NEW u \in Upload, CloseRequest(u) \/ CloseFails(u)
      PROVE  \/ UNCHANGED <<issued, linked, sd>>
             \/ /\ upState[u] = "stored" /\ upNonce[u] \in Nonce
                /\ RemoveRequestObject(upNonce[u])
                /\ UNCHANGED <<issued, linked>>
  BY <1>1 DEF CloseRequest, CloseFails
<1>2. ASSUME NEW u \in Upload,
             \/ \E n \in Nonce, docs \in (0..MaxDocs) \cup {NULL} : BeginUpload(u, n, docs)
             \/ StoreDocuments(u) \/ StoreFailureReport(u) \/ StoreFails(u)
      PROVE  UNCHANGED <<issued, linked, sd>>
  BY <1>2 DEF BeginUpload, StoreDocuments, StoreFailureReport, StoreFails, dbVars
<1>3. ASSUME NEW v \in View,
             \/ \E n \in Nonce : BeginView(v, n)
             \/ FinishView(v) \/ ViewFails(v)
      PROVE  UNCHANGED <<issued, linked, sd>>
  BY <1>3 DEF BeginView, FinishView, ViewFails, dbVars
<1>4. ASSUME Restart \/ Tick \/ UNCHANGED vars
      PROVE  UNCHANGED <<issued, linked, sd>>
  BY <1>4 DEF Restart, Tick, vars, dbVars
<1> QED
  BY <1>1, <1>2, <1>3, <1>4 DEF Next

\* A request is issued once, and a row that is gone does not come back.
LEMMA IssuedIsForever ==
  ASSUME TypeOK, UploadsAreAddressed, [Next]_vars, NEW n \in Nonce, issued[n] # NULL
  PROVE  issued'[n] = issued[n] /\ (sd[n] = NULL => sd'[n] = NULL)
<1> DEFINE Kept == issued'[n] = issued[n] /\ (sd[n] = NULL => sd'[n] = NULL)
<1>1. ASSUME NEW m \in Nonce, NEW d \in Deliveries, IssueRequest(m, d)
      PROVE  Kept
  BY <1>1 DEF IssueRequest, TypeOK
<1>2. ASSUME NEW m \in Nonce, IssueFails(m) PROVE Kept
  BY <1>2 DEF IssueFails, TypeOK
<1>3. ASSUME NEW u \in Upload, RemoveRequestObject(upNonce[u]),
             UNCHANGED <<issued, linked>>
      PROVE  Kept
  BY <1>3 DEF RemoveRequestObject, TypeOK
<1>4. CASE DeleteExpired
  BY <1>4 DEF DeleteExpired, DeleteExpiredIn
<1>5. CASE UNCHANGED <<issued, linked, sd>>
  BY <1>5
<1> QED
  BY <1>1, <1>2, <1>3, <1>4, <1>5, RequestStepKinds

\* Time never runs backwards, so what has expired stays expired.
LEMMA ExpiredIsForever ==
  ASSUME TypeOK, [Next]_vars, NEW t \in Nat, Expired(t)
  PROVE  Expired(t)'
<1>1. clock \in Nat /\ clock' \in Nat /\ clock <= clock'
  <2>1. clock \in Nat
    BY ExchangeAssumption DEF TypeOK
  <2>2. clock' = clock \/ clock' = clock + 1
    BY DEF Next, vars, IssueFails, IssueRequest, BeginUpload, StoreDocuments,
           StoreFailureReport, StoreFails, CloseRequest, CloseFails, BeginView,
           FinishView, ViewFails, DeleteExpired, DeleteExpiredIn, Restart, Tick
  <2> QED
    BY <2>1, <2>2
<1> QED
  BY <1>1, ExchangeAssumption DEF Expired

\* A closed request is an answered or an expired one: the invariant of the
\* requests is kept by every step.
LEMMA StepRequests ==
  ASSUME IInv, [Next]_vars
  PROVE  RowsAreDated' /\ ClosedMeansAnswered'
<1> USE DEF IInv
<1>0. clock \in Nat /\ clock # NULL
  BY ExchangeAssumption DEF TypeOK
<1>1. ASSUME NEW n \in Nonce, issued[n] # NULL, n \notin linked, sd[n] = NULL
      PROVE  Expired(issued[n])' \/ \E u \in Upload : Answers(u, n)'
  \* What closed a request keeps it closed.
  <2>1. CASE issued'[n] = issued[n]
    <3>1. CASE Expired(issued[n])
      BY <1>1, <2>1, <3>1, ExpiredIsForever DEF TypeOK, Expired
    <3>2. CASE ~Expired(issued[n])
      BY <1>1, <3>2, AnswersPersist DEF ClosedMeansAnswered
    <3> QED
      BY <3>1, <3>2
  <2>2. issued'[n] = issued[n]
    BY <1>1, IssuedIsForever
  <2> QED
    BY <2>1, <2>2
<1>2. CASE UNCHANGED <<issued, linked, sd>>
  BY <1>1, <1>2 DEF RowsAreDated, ClosedMeansAnswered
<1>3. ASSUME NEW m \in Nonce, IssueFails(m)
      PROVE  RowsAreDated' /\ ClosedMeansAnswered'
  BY <1>0, <1>1, <1>3 DEF IssueFails, RowsAreDated, ClosedMeansAnswered, TypeOK
<1>4. ASSUME NEW m \in Nonce, NEW d \in Deliveries, IssueRequest(m, d)
      PROVE  RowsAreDated' /\ ClosedMeansAnswered'
  BY <1>0, <1>1, <1>4 DEF IssueRequest, RowsAreDated, ClosedMeansAnswered, TypeOK
<1>5. ASSUME NEW u \in Upload, upState[u] = "stored", upNonce[u] \in Nonce,
             RemoveRequestObject(upNonce[u]), UNCHANGED <<issued, linked>>
      PROVE  RowsAreDated' /\ ClosedMeansAnswered'
  <2>1. ASSUME NEW n \in Nonce, n = upNonce[u] PROVE Answers(u, n)'
    BY <1>5, <2>1, AnswersPersist DEF StoredMeansAnswer, Answers
  <2>2. RowsAreDated'
    BY <1>5 DEF RemoveRequestObject, RowsAreDated, TypeOK
  <2>3. ASSUME NEW n \in Nonce, issued[n] # NULL, n \notin linked, sd'[n] = NULL
        PROVE  Expired(issued[n])' \/ \E w \in Upload : Answers(w, n)'
    <3>1. CASE n = upNonce[u]
      BY <2>1, <3>1
    <3>2. CASE n # upNonce[u]
      BY <1>1, <1>5, <2>3, <3>2 DEF RemoveRequestObject, TypeOK
    <3> QED
      BY <3>1, <3>2
  <2>4. ClosedMeansAnswered'
    BY <1>5, <2>3 DEF ClosedMeansAnswered
  <2> QED
    BY <2>2, <2>4
<1>6. CASE DeleteExpired
  <2>1. RowsAreDated'
    BY <1>6 DEF DeleteExpired, DeleteExpiredIn, RowsAreDated
  <2>2. ClosedMeansAnswered'
    BY <1>1, <1>6 DEF DeleteExpired, DeleteExpiredIn, RowsAreDated,
                      ClosedMeansAnswered, Expired
  <2> QED
    BY <2>1, <2>2
<1> QED
  BY <1>2, <1>3, <1>4, <1>5, <1>6, RequestStepKinds

-----------------------------------------------------------------------------
(* The theorems *)

LEMMA InitIInv == Init => IInv
<1>1. Init => UploadsAreAddressed /\ StoredMeansAnswer
  BY DEF Init, UploadsAreAddressed, StoredMeansAnswer
<1>2. Init => RowsAreDated /\ ClosedMeansAnswered
  BY DEF Init, RowsAreDated, ClosedMeansAnswered
<1> QED
  BY <1>1, <1>2, InitTypeOK DEF IInv

LEMMA StepIInv == IInv /\ [Next]_vars => IInv'
<1> SUFFICES ASSUME IInv, [Next]_vars PROVE IInv'
  OBVIOUS
<1>1. TypeOK'
  BY StepTypeOK DEF IInv
<1>2. UploadsAreAddressed' /\ StoredMeansAnswer'
  BY StepUploads DEF IInv
<1>3. RowsAreDated' /\ ClosedMeansAnswered'
  BY StepRequests
<1> QED
  BY <1>1, <1>2, <1>3 DEF IInv

LEMMA Invariance == Spec => []IInv
  BY InitIInv, StepIInv, PTL DEF Spec

\* Every variable keeps the type the code and the schema give it.
THEOREM TypeCorrect == Spec => []TypeOK
<1>1. IInv => TypeOK
  BY DEF IInv
<1> QED
  BY <1>1, Invariance, PTL

\* A request that was recorded and has no row any more was answered by an upload
\* whose documents are committed, or is too old: whatever fails in between.
THEOREM ClosedIsAnswered == Spec => []ClosedMeansAnswered
<1>1. IInv => ClosedMeansAnswered
  BY DEF IInv
<1> QED
  BY <1>1, Invariance, PTL
-----------------------------------------------------------------------------
(* Closing a request is final *)

\* Every upload that looked its request up was sent for an issued one, and one
\* that was answered OK has closed it.
OkMeansClosed ==
  \A u \in Upload :
    /\ upState[u] # "idle" => issued[upNonce[u]] # NULL
    /\ upState[u] = "ok" => sd[upNonce[u]] = NULL

LEMMA StepOkMeansClosed ==
  ASSUME IInv, OkMeansClosed, [Next]_vars
  PROVE  OkMeansClosed'
<1> USE DEF IInv
<1>1. ASSUME NEW w \in Upload, upState[w] # "idle"
      PROVE  /\ issued'[upNonce[w]] # NULL
             /\ upState[w] = "ok" => sd'[upNonce[w]] = NULL
  BY <1>1, IssuedIsForever DEF OkMeansClosed, UploadsAreAddressed
<1>2. ASSUME UNCHANGED upNonce,
             \A w \in Upload : /\ upState'[w] # "idle" => upState[w] # "idle"
                               /\ upState'[w] = "ok" => upState[w] = "ok"
      PROVE  OkMeansClosed'
  BY <1>1, <1>2 DEF OkMeansClosed
<1>3. CASE UNCHANGED upVars
  BY <1>2, <1>3 DEF upVars
<1>4. ASSUME NEW u \in Upload, NEW n \in Nonce, NEW docs \in (0..MaxDocs) \cup {NULL},
             BeginUpload(u, n, docs)
      PROVE  OkMeansClosed'
  BY <1>1, <1>4 DEF BeginUpload, UploadGoesTo, OkMeansClosed, TypeOK
<1>5. ASSUME NEW u \in Upload,
             StoreDocuments(u) \/ StoreFailureReport(u) \/ StoreFails(u) \/ CloseFails(u)
      PROVE  OkMeansClosed'
  BY <1>2, <1>5 DEF StoreDocuments, StoreFailureReport, StoreFails, CloseFails,
                    UploadGoesTo, TypeOK
<1>6. ASSUME NEW u \in Upload, CloseRequest(u)
      PROVE  OkMeansClosed'
  BY <1>1, <1>6 DEF CloseRequest, RemoveRequestObject, UploadGoesTo, OkMeansClosed,
                    TypeOK, UploadsAreAddressed
<1>7. CASE Restart
  BY <1>2, <1>7 DEF Restart, TypeOK
<1> QED
  BY <1>3, <1>4, <1>5, <1>6, <1>7, StepKinds

LEMMA OkMeansClosedInvariance == Spec => []OkMeansClosed
<1>1. Init => OkMeansClosed
  BY DEF Init, OkMeansClosed
<1>2. IInv /\ OkMeansClosed /\ [Next]_vars => OkMeansClosed'
  BY StepOkMeansClosed
<1> QED
  BY <1>1, <1>2, Invariance, PTL DEF Spec

\* After an upload for a request was answered OK, no other is admitted for it.
THEOREM OkIsTheLastAnswer == Spec => NoAdmissionAfterOk
<1> DEFINE Rejected ==
      \A u, w \in Upload :
        (/\ upState[u] # "checked" /\ upState'[u] = "checked"
         /\ upState[w] = "ok") => upNonce[w] # upNonce'[u]
<1>1. IInv /\ OkMeansClosed /\ [Next]_vars => [Rejected]_vars
  <2> SUFFICES ASSUME IInv, OkMeansClosed, [Next]_vars,
                      NEW u \in Upload, NEW w \in Upload,
                      upState[u] # "checked", upState'[u] = "checked", upState[w] = "ok"
               PROVE  upNonce[w] # upNonce'[u]
    OBVIOUS
  <2>1. PICK n \in Nonce, docs \in (0..MaxDocs) \cup {NULL} : BeginUpload(u, n, docs)
    BY StepKinds DEF upVars, BeginUpload, StoreDocuments, StoreFailureReport,
       StoreFails, CloseRequest, CloseFails, Restart, UploadGoesTo, IInv, TypeOK
  <2>2. upNonce'[u] = n /\ sd[n] # NULL /\ upState[u] = "idle"
    BY <2>1 DEF BeginUpload, UploadGoesTo, Known, IInv, TypeOK
  <2> QED
    BY <2>2 DEF OkMeansClosed
<1> QED
  BY <1>1, Invariance, OkMeansClosedInvariance, PTL DEF Spec, NoAdmissionAfterOk
-----------------------------------------------------------------------------
(* A quiet request stays quiet *)

\* Rows are only ever added for the request of an admitted upload.
LEMMA RowsComeFromAdmitted ==
  ASSUME TypeOK, [Next]_vars, NEW n \in Nonce,
         \A u \in Upload : ~(upState[u] = "checked" /\ upNonce[u] = n)
  PROVE  RowsOf(n)' \subseteq RowsOf(n)
<1>1. ASSUME sdo' \subseteq sdo PROVE RowsOf(n)' \subseteq RowsOf(n)
  BY <1>1 DEF RowsOf
<1>2. ASSUME NEW u \in Upload, upState[u] = "checked", AddSignedDataObjects(u)
      PROVE  RowsOf(n)' \subseteq RowsOf(n)
  <2>1. PICK time \in Datings(u) : sdo' = sdo \cup NewRows(u, time)
    BY <1>2 DEF AddSignedDataObjects
  <2>2. \A r \in NewRows(u, time) : r.request_id = upNonce[u]
    BY DEF NewRows
  <2> QED
    BY <1>2, <2>1, <2>2 DEF RowsOf
<1>3. ASSUME NEW u \in Upload,
             StoreDocuments(u) \/ StoreFailureReport(u) \/ StoreFails(u)
      PROVE  RowsOf(n)' \subseteq RowsOf(n)
  BY <1>1, <1>2, <1>3 DEF StoreDocuments, StoreFailureReport, StoreFails
<1>4. ASSUME NEW u \in Upload,
             \/ \E m \in Nonce, docs \in (0..MaxDocs) \cup {NULL} : BeginUpload(u, m, docs)
             \/ CloseRequest(u) \/ CloseFails(u)
      PROVE  sdo' \subseteq sdo
  BY <1>4 DEF BeginUpload, CloseRequest, CloseFails, dbVars
<1>5. ASSUME NEW v \in View,
             \/ \E m \in Nonce : BeginView(v, m)
             \/ FinishView(v) \/ ViewFails(v)
      PROVE  sdo' \subseteq sdo
  BY <1>5 DEF BeginView, FinishView, ViewFails, RemoveSignedDataObjects, dbVars
<1>6. ASSUME \/ \E m \in Nonce : IssueFails(m) \/ \E d \in Deliveries : IssueRequest(m, d)
             \/ DeleteExpired \/ Restart \/ Tick \/ UNCHANGED vars
      PROVE  sdo' \subseteq sdo
  BY <1>6 DEF IssueFails, IssueRequest, DeleteExpired, DeleteExpiredIn, Restart, Tick,
              vars, dbVars
<1> QED
  BY <1>1, <1>3, <1>4, <1>5, <1>6 DEF Next

\* Once no row lets uploads in and none is on its way, nothing is ever stored for
\* the request again.
THEOREM QuietStaysQuiet == Spec => QuietIsFinal
<1> DEFINE Kept ==
      \A n \in Nonce : Quiet(n) => Quiet(n)' /\ RowsOf(n)' \subseteq RowsOf(n)
<1>1. IInv /\ [Next]_vars => Kept
  <2> SUFFICES ASSUME IInv, [Next]_vars, NEW n \in Nonce, Quiet(n)
               PROVE  Quiet(n)' /\ RowsOf(n)' \subseteq RowsOf(n)
    OBVIOUS
  <2> USE DEF IInv
  <2>1. RowsOf(n)' \subseteq RowsOf(n)
    BY RowsComeFromAdmitted DEF Quiet
  <2>2. issued'[n] # NULL /\ sd'[n] = NULL
    BY IssuedIsForever DEF Quiet
  <2>3. ASSUME NEW u \in Upload
        PROVE  ~(upState'[u] = "checked" /\ upNonce'[u] = n)
    <3>1. CASE UNCHANGED upVars
      BY <3>1 DEF Quiet, upVars
    <3>2. ASSUME NEW w \in Upload, NEW m \in Nonce,
                 NEW docs \in (0..MaxDocs) \cup {NULL}, BeginUpload(w, m, docs)
          PROVE  ~(upState'[u] = "checked" /\ upNonce'[u] = n)
      BY <3>2 DEF BeginUpload, UploadGoesTo, Known, Quiet, TypeOK
    <3>3. ASSUME NEW w \in Upload,
                 \/ StoreDocuments(w) \/ StoreFailureReport(w) \/ StoreFails(w)
                 \/ CloseRequest(w) \/ CloseFails(w)
          PROVE  ~(upState'[u] = "checked" /\ upNonce'[u] = n)
      BY <3>3 DEF StoreDocuments, StoreFailureReport, StoreFails, CloseRequest,
                  CloseFails, UploadGoesTo, Quiet, TypeOK
    <3>4. CASE Restart
      BY <3>4 DEF Restart, Quiet, TypeOK
    <3> QED
      BY <3>1, <3>2, <3>3, <3>4, StepKinds
  <2> QED
    BY <2>1, <2>2, <2>3 DEF Quiet
<1>2. Kept => [Kept]_vars
  OBVIOUS
<1> QED
  BY <1>1, <1>2, Invariance, PTL DEF Spec, QuietIsFinal
=============================================================================
