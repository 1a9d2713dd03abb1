-------------------------- MODULE DurabilityProofs --------------------------
(***************************************************************************)
(* What a wallet may rely on after an OK, and a browser about the document *)
(* a page shows it, proved for every number of requests, uploads, views    *)
(* and documents, every maximal age and every choice of faults.            *)
(***************************************************************************)
EXTENDS MailboxProofs, WellFoundedInduction

-----------------------------------------------------------------------------
(* The invariant *)

\* No row of an upload is older than its first: the cleanup has no reason to
\* delete one of them before the first has expired.
RowsAreNotOlder ==
  \A u \in Upload, k \in 1..MaxDocs, r \in sdo :
    r.signed_data_object = <<u, k>> => upStored[u] # NULL /\ upStored[u] <= r.created_at

\* An upload stores once.
AdmittedStoredNothing == \A u \in Upload : upState[u] = "checked" => upStored[u] = NULL

IsThere(u) ==
  \A k \in 1..upDocs[u] :
    \E r \in RowsOf(upNonce[u]) : r.signed_data_object = <<u, k>>
IsCollected(u) ==
  \E v \in View : vwNonce[v] = upNonce[u] /\ vwState[v] \in {"shown", "gone"}

\* What OkIsDurable says, from the moment the documents are committed.
StoredIsDurable ==
  \A u \in Upload : upState[u] \in {"stored", "ok"} =>
    IsThere(u) \/ Expired(upStored[u]) \/ IsCollected(u)

DurableInv == RowsAreNotOlder /\ AdmittedStoredNothing /\ StoredIsDurable

-----------------------------------------------------------------------------
(* Its steps *)

\* The record of what an upload stored is written once.
LEMMA StoredOnce ==
  ASSUME IInv, [Next]_vars, NEW u \in Upload, upState[u] # "checked", upStored[u] # NULL
  PROVE  upStored'[u] = upStored[u] /\ upState'[u] # "checked"
<1> USE DEF IInv
<1>1. CASE UNCHANGED upVars
  BY <1>1 DEF upVars
<1>2. ASSUME NEW w \in Upload, NEW n \in Nonce, NEW docs \in (0..MaxDocs) \cup {NULL},
             BeginUpload(w, n, docs)
      PROVE  upStored'[u] = upStored[u] /\ upState'[u] # "checked"
  BY <1>2 DEF BeginUpload, UploadGoesTo, UploadsAreAddressed, TypeOK
<1>3. ASSUME NEW w \in Upload, StoreDocuments(w) \/ StoreFailureReport(w) \/ StoreFails(w)
      PROVE  upStored'[u] = upStored[u] /\ upState'[u] # "checked"
  <2>1. /\ w # u /\ upNonce[w] \in Nonce /\ upBegan[w] \in Nat
        /\ \E s \in UploadState : UploadGoesTo(w, s)
        /\ AddSignedDataObjects(w) \/ UNCHANGED upStored
    BY <1>3 DEF StoreDocuments, StoreFailureReport, StoreFails, UploadsAreAddressed,
                UploadState
  <2> QED
    BY <2>1, AddKeepsTypes DEF UploadGoesTo, TypeOK
<1>4. ASSUME NEW w \in Upload, CloseRequest(w) \/ CloseFails(w)
      PROVE  upStored'[u] = upStored[u] /\ upState'[u] # "checked"
  BY <1>4 DEF CloseRequest, CloseFails, UploadGoesTo, TypeOK
<1>5. CASE Restart
  BY <1>5 DEF Restart, TypeOK
<1> QED
  BY <1>1, <1>2, <1>3, <1>4, <1>5, StepKinds

\* An upload past its insert has just stored, or was there before and is what it
\* was.
LEMMA StoredStepKinds ==
  ASSUME IInv, [Next]_vars, NEW u \in Upload, upState'[u] \in {"stored", "ok"}
  PROVE  \/ StoreDocuments(u)
         \/ /\ upState[u] \in {"stored", "ok"}
            /\ upNonce'[u] = upNonce[u] /\ upDocs'[u] = upDocs[u]
            /\ upStored'[u] = upStored[u]
<1> USE DEF IInv
<1> SUFFICES ASSUME ~StoreDocuments(u)
             PROVE  /\ upState[u] \in {"stored", "ok"}
                    /\ upNonce'[u] = upNonce[u] /\ upDocs'[u] = upDocs[u]
  BY StoredOnce DEF StoredMeansAnswer
<1>1. CASE UNCHANGED upVars
  BY <1>1 DEF upVars
<1>2. ASSUME NEW w \in Upload, NEW n \in Nonce, NEW docs \in (0..MaxDocs) \cup {NULL},
             BeginUpload(w, n, docs)
      PROVE  /\ upState[u] \in {"stored", "ok"}
             /\ upNonce'[u] = upNonce[u] /\ upDocs'[u] = upDocs[u]
  BY <1>2 DEF BeginUpload, UploadGoesTo, TypeOK
<1>3. ASSUME NEW w \in Upload,
             \/ StoreDocuments(w) \/ StoreFailureReport(w) \/ StoreFails(w)
             \/ CloseRequest(w) \/ CloseFails(w)
      PROVE  /\ upState[u] \in {"stored", "ok"}
             /\ upNonce'[u] = upNonce[u] /\ upDocs'[u] = upDocs[u]
  BY <1>3 DEF StoreDocuments, StoreFailureReport, StoreFails, CloseRequest, CloseFails,
              UploadGoesTo, TypeOK
<1>4. CASE Restart
  BY <1>4 DEF Restart, TypeOK
<1> QED
  BY <1>1, <1>2, <1>3, <1>4, StepKinds

\* Rows are only removed by a view that ends, or by the cleanup.
LEMMA RemovalKinds ==
  ASSUME [Next]_vars
  PROVE  \/ sdo \subseteq sdo'
         \/ \E v \in View : /\ RemoveSignedDataObjects(vwNonce[v])
                            /\ \E s \in {"shown", "gone"} : ViewGoesTo(v, s)
                            /\ UNCHANGED <<vwNonce, upVars>>
         \/ DeleteExpired
<1>1. ASSUME NEW u \in Upload,
             \/ \E m \in Nonce, docs \in (0..MaxDocs) \cup {NULL} : BeginUpload(u, m, docs)
             \/ StoreDocuments(u) \/ StoreFailureReport(u) \/ StoreFails(u)
             \/ CloseRequest(u) \/ CloseFails(u)
      PROVE  sdo \subseteq sdo'
  BY <1>1 DEF BeginUpload, StoreDocuments, StoreFailureReport, StoreFails, CloseRequest,
              CloseFails, AddSignedDataObjects, dbVars
<1>2. ASSUME NEW v \in View,
             (\E n \in Nonce : BeginView(v, n)) \/ FinishView(v) \/ ViewFails(v)
      PROVE  \/ sdo \subseteq sdo'
             \/ /\ RemoveSignedDataObjects(vwNonce[v])
                /\ \E s \in {"shown", "gone"} : ViewGoesTo(v, s)
                /\ UNCHANGED <<vwNonce, upVars>>
  BY <1>2 DEF BeginView, FinishView, ViewFails, dbVars
<1>3. ASSUME \/ \E m \in Nonce : IssueFails(m) \/ \E d \in Deliveries : IssueRequest(m, d)
             \/ Restart \/ Tick \/ UNCHANGED vars
      PROVE  sdo \subseteq sdo'
  BY <1>3 DEF IssueFails, IssueRequest, Restart, Tick, vars, dbVars
<1> QED
  BY <1>1, <1>2, <1>3 DEF Next

LEMMA StepAdmitted ==
  ASSUME IInv, AdmittedStoredNothing, [Next]_vars
  PROVE  AdmittedStoredNothing'
<1> USE DEF IInv
<1>1. CASE UNCHANGED upVars
  BY <1>1 DEF upVars, AdmittedStoredNothing
<1>2. ASSUME NEW w \in Upload, NEW n \in Nonce, NEW docs \in (0..MaxDocs) \cup {NULL},
             BeginUpload(w, n, docs)
      PROVE  AdmittedStoredNothing'
  BY <1>2 DEF BeginUpload, UploadGoesTo, UploadsAreAddressed, AdmittedStoredNothing, TypeOK
<1>3. ASSUME NEW w \in Upload, StoreDocuments(w) \/ StoreFailureReport(w) \/ StoreFails(w)
      PROVE  AdmittedStoredNothing'
  <2>1. /\ upNonce[w] \in Nonce /\ upBegan[w] \in Nat
        /\ \E s \in UploadState \ {"checked"} : UploadGoesTo(w, s)
        /\ AddSignedDataObjects(w) \/ UNCHANGED upStored
    BY <1>3 DEF StoreDocuments, StoreFailureReport, StoreFails, UploadsAreAddressed,
                UploadState
  <2>2. \A u \in Upload \ {w} : upStored'[u] = upStored[u]
    BY <2>1, AddKeepsTypes
  <2> QED
    BY <2>1, <2>2 DEF UploadGoesTo, AdmittedStoredNothing, TypeOK
<1>4. ASSUME NEW w \in Upload, CloseRequest(w) \/ CloseFails(w)
      PROVE  AdmittedStoredNothing'
  BY <1>4 DEF CloseRequest, CloseFails, UploadGoesTo, AdmittedStoredNothing, TypeOK
<1>5. CASE Restart
  BY <1>5 DEF Restart, AdmittedStoredNothing, TypeOK
<1> QED
  BY <1>1, <1>2, <1>3, <1>4, <1>5, StepKinds

LEMMA StepNotOlder ==
  ASSUME IInv, DurableInv, [Next]_vars
  PROVE  RowsAreNotOlder'
<1> USE DEF IInv, DurableInv
<1>1. ASSUME NEW u \in Upload, NEW k \in 1..MaxDocs, NEW r \in sdo,
             r.signed_data_object = <<u, k>>
      PROVE  upStored'[u] # NULL /\ upStored'[u] <= r.created_at
  BY <1>1, StoredOnce DEF RowsAreNotOlder, AdmittedStoredNothing
<1>2. CASE sdo' \subseteq sdo
  BY <1>1, <1>2 DEF RowsAreNotOlder
<1>3. ASSUME NEW w \in Upload, upState[w] = "checked", AddSignedDataObjects(w)
      PROVE  RowsAreNotOlder'
  <2>1. upNonce[w] \in Nonce /\ upBegan[w] \in Nat
    BY <1>3 DEF UploadsAreAddressed
  <2>2. PICK time \in Datings(w) :
          sdo' = sdo \cup NewRows(w, time) /\ upStored' = [upStored EXCEPT ![w] = time[1]]
    BY <1>3 DEF AddSignedDataObjects
  <2>3. upStored'[w] # NULL /\ upStored'[w] = time[1]
    BY <1>3, <2>1, <2>2, AddKeepsTypes DEF TypeOK
  <2>4. ASSUME NEW u \in Upload, NEW k \in 1..MaxDocs, NEW r \in NewRows(w, time),
               r.signed_data_object = <<u, k>>
        PROVE  upStored'[u] # NULL /\ upStored'[u] <= r.created_at
    <3>1. time[1] <= r.created_at
      BY <2>1, RowsOfAnUpload
    <3>2. <<u, k>> # NULL
      BY ExchangeAssumption
    <3>3. u = w
      <4>1. upDocs[w] # NULL
        BY <2>1, <2>4, <3>2, RowsOfAnUpload
      <4>2. PICK j \in 1..upDocs[w] : r.signed_data_object = <<w, j>>
        BY <2>1, <4>1, RowsOfAnUpload
      <4> QED
        BY <2>4, <4>2
    <3> QED
      BY <2>3, <3>1, <3>3
  <2> QED
    BY <1>1, <2>2, <2>4 DEF RowsAreNotOlder
<1> QED
  BY <1>2, <1>3, RowStepKinds

LEMMA StepDurable ==
  ASSUME IInv, DurableInv, [Next]_vars
  PROVE  StoredIsDurable'
<1> USE DEF IInv, DurableInv
<1> SUFFICES ASSUME NEW u \in Upload, upState'[u] \in {"stored", "ok"}
             PROVE  IsThere(u)' \/ Expired(upStored[u])' \/ IsCollected(u)'
  BY DEF StoredIsDurable
<1>1. CASE StoreDocuments(u)
  <2>1. PICK time \in Datings(u) : sdo' = sdo \cup NewRows(u, time)
    BY <1>1 DEF StoreDocuments, AddSignedDataObjects
  <2>2. upNonce' = upNonce /\ upDocs' = upDocs /\ upDocs[u] # NULL
    BY <1>1 DEF StoreDocuments
  <2>3. upNonce[u] \in Nonce /\ upBegan[u] \in Nat
    BY <1>1 DEF StoreDocuments, UploadsAreAddressed
  <2>4. ASSUME NEW k \in 1..upDocs[u]
        PROVE  \E r \in NewRows(u, time) : /\ r.request_id = upNonce[u]
                                           /\ r.signed_data_object = <<u, k>>
    <3> DEFINE row == [id |-> nextId + k - 1, request_id |-> upNonce[u],
                       signed_data_object |-> <<u, k>>, created_at |-> time[k]]
    <3>1. row \in NewRows(u, time)
      BY <2>2 DEF NewRows
    <3>2. row.request_id = upNonce[u] /\ row.signed_data_object = <<u, k>>
      OBVIOUS
    <3> QED
      BY <3>1, <3>2
  <2> QED
    BY <2>1, <2>2, <2>4 DEF IsThere, RowsOf
<1>2. ASSUME upState[u] \in {"stored", "ok"}, upNonce'[u] = upNonce[u],
             upDocs'[u] = upDocs[u], upStored'[u] = upStored[u]
      PROVE  IsThere(u)' \/ Expired(upStored[u])' \/ IsCollected(u)'
  <2>0. upStored[u] \in Nat /\ upNonce[u] \in Nonce
        /\ upDocs[u] \in 0..MaxDocs
    BY <1>2 DEF StoredMeansAnswer, UploadsAreAddressed, TypeOK
  <2>1. CASE Expired(upStored[u])
    BY <1>2, <2>0, <2>1, ExpiredIsForever DEF Expired
  <2>2. CASE IsCollected(u)
    <3>1. ASSUME NEW v \in View, vwState[v] \in {"shown", "gone"}
          PROVE  vwState'[v] = vwState[v] /\ vwNonce'[v] = vwNonce[v]
      BY <3>1, ViewStepKinds DEF vwVars, BeginView, FinishView, ViewFails, Restart,
                                 ViewGoesTo, TypeOK
    <3> QED
      BY <1>2, <2>2, <3>1 DEF IsCollected
  <2>3. CASE IsThere(u) /\ ~Expired(upStored[u])
    <3>1. CASE sdo \subseteq sdo'
      BY <1>2, <2>3, <3>1 DEF IsThere, RowsOf
    <3>2. ASSUME NEW v \in View, RemoveSignedDataObjects(vwNonce[v]),
                 NEW s \in {"shown", "gone"}, ViewGoesTo(v, s),
                 UNCHANGED <<vwNonce, upVars>>
          PROVE  IsThere(u)' \/ IsCollected(u)'
      <4>1. CASE vwNonce[v] = upNonce[u]
        BY <3>2, <4>1 DEF IsCollected, ViewGoesTo, upVars, TypeOK
      <4>2. CASE vwNonce[v] # upNonce[u]
        BY <2>3, <3>2, <4>2 DEF IsThere, RowsOf, RemoveSignedDataObjects, upVars
      <4> QED
        BY <4>1, <4>2
    <3>3. CASE DeleteExpired
      <4>1. PICK tables \in SUBSET TimedTables : DeleteExpiredIn(tables)
        BY <3>3 DEF DeleteExpired
      <4>2. ASSUME NEW k \in 1..upDocs[u], NEW r \in RowsOf(upNonce[u]),
                   r.signed_data_object = <<u, k>>
            PROVE  r \in RowsOf(upNonce[u])'
        <5>1. k \in 1..MaxDocs /\ r \in sdo /\ r.created_at \in Nat
          BY <2>0, ExchangeAssumption DEF RowsOf, TypeOK, Row
        <5>2. upStored[u] <= r.created_at
          BY <4>2, <5>1 DEF RowsAreNotOlder
        <5>3. clock \in Nat /\ (MaxAge # NULL => MaxAge \in Nat)
          BY ExchangeAssumption DEF TypeOK
        <5>4. ~Expired(r.created_at)
          BY <2>0, <2>3, <5>1, <5>2, <5>3 DEF Expired
        <5> QED
          BY <4>1, <5>4 DEF DeleteExpiredIn, RowsOf, upVars
      <4> QED
        BY <1>2, <2>3, <4>2 DEF IsThere
    <3> QED
      BY <3>1, <3>2, <3>3, RemovalKinds
  <2> QED
    BY <1>2, <2>1, <2>2, <2>3 DEF StoredIsDurable
<1> QED
  BY <1>1, <1>2, StoredStepKinds

-----------------------------------------------------------------------------
(* The theorem *)

\* The documents of an upload that was answered OK stay until they are collected
\* for their request or have expired, whatever else fails or restarts.
THEOREM OkIsAlwaysDurable == Spec => []OkIsDurable
<1>1. Init => DurableInv
  BY DEF Init, DurableInv, RowsAreNotOlder, AdmittedStoredNothing, StoredIsDurable
<1>2. IInv /\ DurableInv /\ [Next]_vars => DurableInv'
  BY StepNotOlder, StepAdmitted, StepDurable DEF DurableInv
<1>3. DurableInv => OkIsDurable
  BY DEF DurableInv, StoredIsDurable, IsThere, IsCollected, OkIsDurable
<1> QED
  BY <1>1, <1>2, <1>3, Invariance, PTL DEF Spec

-----------------------------------------------------------------------------
(* The row a page shows *)

\* Row r is a report, or the first of an upload for the request, or a later one
\* with the first among the given rows and before it, unless that has expired.
HasItsBeginning(r, rows) ==
  \/ r.signed_data_object = NULL
  \/ \E u \in Upload, k \in 1..MaxDocs :
       /\ r.signed_data_object = <<u, k>>
       /\ Answers(u, r.request_id)
       /\ \/ k = 1
          \/ Expired(upStored[u])
          \/ \E s \in rows : /\ s.signed_data_object = <<u, 1>>
                            /\ s.request_id = r.request_id
                            /\ s.id < r.id /\ s.created_at = upStored[u]

RowsHaveBeginnings == \A r \in sdo : HasItsBeginning(r, sdo)

\* The same of what a view has read, all of it for the request of its session.
SeenHasBeginnings ==
  \A v \in View : vwState[v] \in {"read", "shown"} =>
    /\ vwSeen[v] # {}
    /\ \A r \in vwSeen[v] : r.request_id = vwNonce[v] /\ HasItsBeginning(r, vwSeen[v])

\* What makes row r have its beginning among rows stays so.
LEMMA UploadsStay ==
  ASSUME IInv, AdmittedStoredNothing, [Next]_vars,
         NEW u \in Upload, NEW n \in Nonce, Answers(u, n)
  PROVE  /\ Answers(u, n)'
         /\ upStored[u] \in Nat /\ upStored'[u] = upStored[u]
         /\ Expired(upStored[u]) => Expired(upStored[u])'
<1> USE DEF IInv
<1>1. Answers(u, n)'
  BY AnswersPersist
<1>2. upStored[u] \in Nat /\ upStored'[u] = upStored[u]
  BY StoredOnce DEF Answers, AdmittedStoredNothing, TypeOK
<1>3. Expired(upStored[u]) => Expired(upStored[u])'
  BY <1>2, ExpiredIsForever DEF Expired
<1> QED
  BY <1>1, <1>2, <1>3 DEF Expired

\* Of the rows an upload inserts the first has the smallest id.
LEMMA NewRowsHaveBeginnings ==
  ASSUME IInv, NEW u \in Upload, upNonce[u] \in Nonce, upBegan[u] \in Nat,
         UNCHANGED <<upNonce, upDocs>>, NEW time \in Datings(u),
         upStored' = [upStored EXCEPT ![u] = time[1]], NEW r \in NewRows(u, time),
         NEW more, NewRows(u, time) \subseteq more
  PROVE  HasItsBeginning(r, more)'
<1> USE DEF IInv
<1>0. time \in [1..MaxDocs -> Nat] /\ 1 \in 1..MaxDocs /\ nextId \in Nat
  BY DatingsAreTimes, ExchangeAssumption DEF TypeOK
<1>1. CASE upDocs[u] = NULL
  BY <1>1, RowsOfAnUpload DEF HasItsBeginning
<1>2. CASE upDocs[u] # NULL
  <2> DEFINE row(k) == [id |-> nextId + k - 1, request_id |-> upNonce[u],
                        signed_data_object |-> <<u, k>>, created_at |-> time[k]]
  <2>1. PICK k \in 1..upDocs[u] : r = row(k)
    BY <1>2 DEF NewRows
  <2>2. upDocs[u] \in 1..MaxDocs /\ k \in 1..MaxDocs /\ 1 \in 1..upDocs[u]
    BY <1>2, <2>1, ExchangeAssumption DEF TypeOK
  <2>3. row(1) \in more
    BY <1>2, <2>2 DEF NewRows
  <2>4. upStored'[u] = time[1] /\ time[1] # NULL
    BY <1>0, ExchangeAssumption DEF TypeOK
  <2>5. Answers(u, r.request_id)'
    BY <1>2, <2>1, <2>4 DEF Answers
  <2>6. k # 1 => row(1).id < r.id
    BY <1>0, <2>1, <2>2
  <2>7. /\ row(1).signed_data_object = <<u, 1>> /\ row(1).request_id = r.request_id
        /\ row(1).created_at = upStored'[u] /\ r.signed_data_object = <<u, k>>
    BY <2>1, <2>4
  <2> HIDE DEF row
  <2> QED
    BY <2>2, <2>3, <2>5, <2>6, <2>7 DEF HasItsBeginning
<1> QED
  BY <1>1, <1>2

LEMMA StepBeginnings ==
  ASSUME IInv, DurableInv, RowsHaveBeginnings, [Next]_vars
  PROVE  RowsHaveBeginnings'
<1>0. TypeOK /\ UploadsAreAddressed /\ AdmittedStoredNothing
  BY DEF IInv, DurableInv
<1>1. PICK more : more = sdo'
  OBVIOUS
<1>2. ASSUME NEW r \in sdo, r \in more PROVE HasItsBeginning(r, more)'
  <2>1. r \in Row /\ HasItsBeginning(r, sdo)
    BY <1>0 DEF RowsHaveBeginnings, TypeOK
  <2>2. CASE r.signed_data_object = NULL
    BY <2>2 DEF HasItsBeginning
  <2>3. ASSUME NEW u \in Upload, NEW k \in 1..MaxDocs,
               r.signed_data_object = <<u, k>>, Answers(u, r.request_id),
               \/ k = 1
               \/ Expired(upStored[u])
               \/ \E s \in sdo : /\ s.signed_data_object = <<u, 1>>
                                /\ s.request_id = r.request_id
                                /\ s.id < r.id /\ s.created_at = upStored[u]
        PROVE  HasItsBeginning(r, more)'
    <3>1. /\ Answers(u, r.request_id)' /\ upStored[u] \in Nat /\ upStored'[u] = upStored[u]
          /\ Expired(upStored[u]) => Expired(upStored[u])'
      BY <1>0, <2>1, <2>3, UploadsStay DEF Row, Expired
    <3>2. ASSUME NEW s \in sdo, s.request_id = r.request_id, s.created_at = upStored[u]
          PROVE  s \in more \/ Expired(upStored[u])
      <4>1. CASE sdo \subseteq sdo'
        BY <1>1, <4>1
      <4>2. ASSUME NEW v \in View, RemoveSignedDataObjects(vwNonce[v])
            PROVE  s \in more
        BY <1>1, <1>2, <3>2, <4>2 DEF RemoveSignedDataObjects, RowsOf
      <4>3. CASE DeleteExpired
        BY <1>0, <1>1, <3>2, <4>3 DEF DeleteExpired, DeleteExpiredIn, TypeOK, Row
      <4> QED
        BY <4>1, <4>2, <4>3, RemovalKinds
    <3> QED
      BY <2>3, <3>1, <3>2 DEF HasItsBeginning
  <2> QED
    BY <2>1, <2>2, <2>3 DEF HasItsBeginning
<1>3. ASSUME NEW r \in more, r \notin sdo PROVE HasItsBeginning(r, more)'
  <2>1. PICK u \in Upload : upState[u] = "checked" /\ AddSignedDataObjects(u)
                           /\ UNCHANGED <<upNonce, upDocs>>
    BY <1>1, <1>3, RowStepKinds
  <2>2. upNonce[u] \in Nonce /\ upBegan[u] \in Nat
    BY <1>0, <2>1 DEF UploadsAreAddressed
  <2>3. PICK time \in Datings(u) :
          sdo' = sdo \cup NewRows(u, time) /\ upStored' = [upStored EXCEPT ![u] = time[1]]
    BY <2>1 DEF AddSignedDataObjects
  <2> QED
    BY <1>1, <1>3, <2>1, <2>2, <2>3, NewRowsHaveBeginnings
<1>4. \A r \in more : HasItsBeginning(r, more)'
  BY <1>2, <1>3
<1> QED
  BY <1>1, <1>4 DEF RowsHaveBeginnings, HasItsBeginning

LEMMA StepSeen ==
  ASSUME IInv, DurableInv, RowsHaveBeginnings, SeenHasBeginnings, [Next]_vars
  PROVE  SeenHasBeginnings'
<1>0. TypeOK /\ UploadsAreAddressed /\ AdmittedStoredNothing
  BY DEF IInv, DurableInv
<1> SUFFICES ASSUME NEW v \in View, vwState'[v] \in {"read", "shown"}
             PROVE  /\ vwSeen'[v] # {}
                    /\ \A r \in vwSeen'[v] : /\ r.request_id = vwNonce'[v]
                                             /\ HasItsBeginning(r, vwSeen[v])'
  BY DEF SeenHasBeginnings
<1>1. ASSUME NEW n \in Nonce, BeginView(v, n), vwState'[v] = "read"
      PROVE  /\ vwSeen'[v] # {}
             /\ \A r \in vwSeen'[v] : /\ r.request_id = vwNonce'[v]
                                      /\ HasItsBeginning(r, vwSeen[v])'
  <2>1. vwSeen'[v] = RowsOf(n) /\ RowsOf(n) # {} /\ vwNonce'[v] = n
    BY <1>0, <1>1 DEF BeginView, ViewGoesTo, TypeOK
  <2>2. UNCHANGED <<clock, upVars>>
    BY <1>1 DEF BeginView
  <2>3. ASSUME NEW r \in RowsOf(n)
        PROVE  r.request_id = n /\ HasItsBeginning(r, RowsOf(n))
    BY DEF RowsOf, RowsHaveBeginnings, HasItsBeginning
  <2> QED
    BY <2>1, <2>2, <2>3 DEF HasItsBeginning, Answers, Expired, upVars
<1>2. ASSUME vwState[v] \in {"read", "shown"}, vwSeen'[v] = vwSeen[v], vwNonce'[v] = vwNonce[v]
      PROVE  /\ vwSeen'[v] # {}
             /\ \A r \in vwSeen'[v] : /\ r.request_id = vwNonce'[v]
                                      /\ HasItsBeginning(r, vwSeen[v])'
  <2>1. PICK rows : rows = vwSeen[v]
    OBVIOUS
  <2>2. ASSUME NEW r \in rows PROVE HasItsBeginning(r, rows)'
    <3>1. r \in Row /\ HasItsBeginning(r, rows)
      BY <1>0, <1>2, <2>1 DEF SeenHasBeginnings, TypeOK
    <3>2. ASSUME NEW u \in Upload, Answers(u, r.request_id)
          PROVE  /\ Answers(u, r.request_id)' /\ upStored'[u] = upStored[u]
                 /\ Expired(upStored[u]) => Expired(upStored[u])'
      BY <1>0, <3>1, <3>2, UploadsStay DEF Row, Expired
    <3> QED
      BY <3>1, <3>2 DEF HasItsBeginning
  <2> QED
    BY <1>2, <2>1, <2>2 DEF SeenHasBeginnings, HasItsBeginning
<1>3. ASSUME NEW w \in View, w # v \/ FinishView(w) \/ ViewFails(w),
             (\E n \in Nonce : BeginView(w, n)) \/ FinishView(w) \/ ViewFails(w)
      PROVE  /\ vwState[v] \in {"read", "shown"}
             /\ vwSeen'[v] = vwSeen[v] /\ vwNonce'[v] = vwNonce[v]
  BY <1>0, <1>3 DEF BeginView, FinishView, ViewFails, ViewGoesTo, TypeOK
<1>4. ASSUME UNCHANGED vwVars \/ Restart
      PROVE  /\ vwState[v] \in {"read", "shown"}
             /\ vwSeen'[v] = vwSeen[v] /\ vwNonce'[v] = vwNonce[v]
  BY <1>0, <1>4 DEF vwVars, Restart, TypeOK
<1>5. ASSUME NEW n \in Nonce, BeginView(v, n) PROVE vwState'[v] = "read"
  BY <1>0, <1>5 DEF BeginView, ViewGoesTo, TypeOK
<1> QED
  BY <1>1, <1>2, <1>3, <1>4, <1>5, ViewStepKinds

LEMMA SomeNumberIsLeast ==
  ASSUME NEW S \in SUBSET Nat, S # {}
  PROVE  \E x \in S : \A y \in S : x <= y
<1> DEFINE less == {ss \in Nat \X Nat : ss[1] < ss[2]}
<1>1. IsWellFoundedOn(less, Nat)
  BY NatLessThanWellFounded DEF OpToRel
<1>2. \A m, n \in Nat : m < n => <<m, n>> \in less
  OBVIOUS
<1> HIDE DEF less
<1>3. PICK x \in S : \A y \in S : <<y, x>> \notin less
  BY <1>1, WFMin
<1>4. ASSUME NEW y \in S PROVE x <= y
  <2>1. x \in Nat /\ y \in Nat /\ <<y, x>> \notin less
    BY <1>3
  <2>2. ~(y < x)
    BY <1>2, <2>1, Zenon
  <2> QED
    BY <2>1, <2>2
<1> QED
  BY <1>4

\* The query of a page returns its rows in an order that has a first.
LEMMA SomeRowIsFirst ==
  ASSUME NEW rows \in SUBSET Row, rows # {}
  PROVE  \E r \in rows : \A s \in rows : r.id <= s.id
<1> DEFINE ids == {r.id : r \in rows}
<1>1. ids \subseteq Nat /\ ids # {}
  BY DEF Row
<1>2. \E x \in ids : \A y \in ids : x <= y
  <2> HIDE DEF ids
  <2> QED
    BY <1>1, SomeNumberIsLeast
<1> QED
  BY <1>2

LEMMA FirstRowIsShown ==
  ASSUME TypeOK, SeenHasBeginnings
  PROVE  PageShowsAnAnswer
<1> SUFFICES ASSUME NEW v \in View, vwState[v] \in {"read", "shown"}
             PROVE  \/ Shown(v) = NULL
                    \/ \E u \in Upload :
                         /\ Answers(u, vwNonce[v])
                         /\ \/ Shown(v) = <<u, 1>>
                            \/ Expired(upStored[u]) /\ Shown(v)[1] = u
  BY DEF PageShowsAnAnswer
<1>1. vwSeen[v] \in SUBSET Row /\ vwSeen[v] # {}
  BY DEF TypeOK, SeenHasBeginnings
<1>2. PICK r \in vwSeen[v] : /\ Shown(v) = r.signed_data_object
                            /\ \A s \in vwSeen[v] : r.id <= s.id
  BY <1>1, SomeRowIsFirst DEF Shown
<1>3. r.request_id = vwNonce[v] /\ HasItsBeginning(r, vwSeen[v])
  BY DEF SeenHasBeginnings
<1>4. \A s \in vwSeen[v] : ~(s.id < r.id)
  BY <1>1, <1>2 DEF Row
<1> QED
  BY <1>2, <1>3, <1>4 DEF HasItsBeginning

\* PageShowsAnAnswer holds of every page, however uploads, the cleanup and
\* restarts fall between its query and its delete: rows come with the first row
\* of their upload, and whatever removes that row removes them too or removes
\* it for its age (add_to_signed_data_object_table, delete_expired_entries and
\* remove_signed_data_object_with_request_id).
THEOREM PageAlwaysShowsAnAnswer == Spec => []PageShowsAnAnswer
<1> DEFINE Inv == IInv /\ DurableInv /\ RowsHaveBeginnings /\ SeenHasBeginnings
<1>1. Init => DurableInv /\ RowsHaveBeginnings /\ SeenHasBeginnings
  BY DEF Init, DurableInv, RowsAreNotOlder, AdmittedStoredNothing, StoredIsDurable,
         RowsHaveBeginnings, SeenHasBeginnings
<1>2. IInv /\ DurableInv /\ [Next]_vars => DurableInv'
  BY StepNotOlder, StepAdmitted, StepDurable DEF DurableInv
<1>3. Inv /\ [Next]_vars => RowsHaveBeginnings' /\ SeenHasBeginnings'
  BY StepBeginnings, StepSeen
<1>4. Inv => PageShowsAnAnswer
  BY FirstRowIsShown DEF IInv
<1> QED
  BY <1>1, <1>2, <1>3, <1>4, Invariance, PTL DEF Spec
=============================================================================
