------------------------ MODULE ItbTransactionsProofs ------------------------
(***************************************************************************)
(* Proofs about ItbTransactions, for every number of transactions, uploads *)
(* and documents, all bodies and every choice of faults: transactions and  *)
(* their logs leave the exchange as it is, and what a log says is true     *)
(* although no lock and no transaction keeps logs and tables together.     *)
(***************************************************************************)
EXTENDS ItbTransactions, DurabilityProofs

-----------------------------------------------------------------------------
(* The tester's endpoints and the exchange *)

LEMMA ItbStepIsExchangeStep ==
  ASSUME [ItbNext]_itbVars
  PROVE  [Next]_vars
<1>1. CASE UNCHANGED itbVars
  BY <1>1 DEF itbVars
<1>2. ASSUME NEW n \in Nonce, SetUpInserts(n) \/ SetUpFails(n)
      PROVE  Next
  BY <1>2, ItbAssumption DEF SetUpInserts, SetUpFails, Next
<1>3. ASSUME NEW n \in Nonce,
             \/ SetUpLogs(n) \/ SetUpReplies(n) \/ Retrieve(n) \/ RefuseUpload(n)
             \/ PollReads(n) \/ PollInVain(n) \/ PollLogs(n) \/ PollMarks(n)
      PROVE  UNCHANGED vars
  BY <1>3 DEF SetUpLogs, SetUpReplies, Retrieve, RefuseUpload,
              PollReads, PollInVain, PollLogs, PollMarks
<1>4. ASSUME NEW u \in Upload, NEW n \in Nonce, NEW p \in Postings, PostUpload(u, n, p)
      PROVE  Next
  <2>1. p.docs \in (0..MaxDocs) \cup {NULL}
    BY DEF Postings
  <2> QED
    BY <1>4, <2>1 DEF PostUpload, Next
<1>5. ASSUME NEW u \in Upload,
             UploadReports(u) \/ UploadStores(u) \/ UploadCloses(u) \/ UploadFails(u)
      PROVE  Next
  BY <1>5 DEF UploadReports, UploadStores, UploadCloses, UploadFails, Next
<1>6. CASE ItbRestart \/ Elsewhere
  BY <1>6 DEF ItbRestart, Elsewhere, Next
<1> QED
  BY <1>1, <1>2, <1>3, <1>4, <1>5, <1>6 DEF ItbNext

-----------------------------------------------------------------------------
(* The invariant *)

\* Every row of sdo, a report too, is what some upload for its request stored.
HasUpload(n) == \E u \in Upload : upNonce[u] = n /\ upStored[u] # NULL
RowsAreUploaded == \A r \in sdo : HasUpload(r.request_id)

\* Uploads, set-ups and polls are of requests that exist.  Logs may be of others.
WorksOnRequests ==
  /\ \A u \in Upload : upState[u] # "idle" => issued[upNonce[u]] # NULL
  /\ \A n \in Nonce : issued[n] = NULL => setUp[n] = "none" /\ poll[n] = "idle"

\* The handler that sets a transaction up finds in the log what it has written
\* there: a restart, which loses the log, ends the handler too.  A poll under way
\* has read rows of its transaction.
LogsKeepUp ==
  \A n \in Nonce :
    /\ setUp[n] \in {"logged", "told"} =>
         logs[n] # NULL /\ "initialized" \in logs[n].messages
    /\ poll[n] \in {"got", "logged"} => HasUpload(n)

LogTypes ==
  /\ logs \in [Nonce -> Log \cup {NULL}]
  /\ setUp \in [Nonce -> SetUp]
  /\ poll \in [Nonce -> Poll]
  /\ posted \in [Upload -> Bodies \cup {NULL}]

ItbInv ==
  /\ RowsAreUploaded
  /\ LogTypes
  /\ WorksOnRequests
  /\ LogsAreTrue
  /\ LogsKeepUp

-----------------------------------------------------------------------------
(* What a step does to the logs *)

\* An entry begins the log of n if there is none, and changes no other log.
LEMMA AddLogGets ==
  ASSUME LogTypes, NEW n \in Nonce, NEW message \in Message, AddLog(n, message)
  PROVE  /\ logs' \in [Nonce -> Log \cup {NULL}]
         /\ \A m \in Nonce \ {n} : logs'[m] = logs[m]
         /\ logs'[n] # NULL
         /\ logs'[n].successful <=> (logs[n] # NULL /\ logs[n].successful)
         /\ logs'[n].messages =
              (IF logs[n] = NULL THEN {} ELSE logs[n].messages) \cup {message}
<1> DEFINE log == LogOf(n)
           entered == [log EXCEPT !.messages = @ \cup {message}]
<1>1. log \in Log
  BY DEF LogOf, LogTypes, Log
<1>2. /\ log.successful <=> (logs[n] # NULL /\ logs[n].successful)
      /\ log.messages = IF logs[n] = NULL THEN {} ELSE logs[n].messages
  BY DEF LogOf
<1> HIDE DEF log
<1>3. /\ entered \in Log
      /\ entered.successful = log.successful
      /\ entered.messages = log.messages \cup {message}
  BY <1>1 DEF Log
<1> HIDE DEF entered
<1>4. logs' = [logs EXCEPT ![n] = entered]
  BY DEF AddLog, entered, log
<1> QED
  BY <1>2, <1>3, <1>4, ItbAssumption DEF LogTypes

\* The mark changes nothing else, and nothing where there is no log.
LEMMA MarkMarks ==
  ASSUME LogTypes, NEW n \in Nonce, MarkSuccessful(n)
  PROVE  /\ logs' \in [Nonce -> Log \cup {NULL}]
         /\ \A m \in Nonce \ {n} : logs'[m] = logs[m]
         /\ logs[n] = NULL => logs'[n] = NULL
         /\ logs[n] # NULL =>
              logs'[n] # NULL /\ logs'[n].successful /\ logs'[n].messages = logs[n].messages
<1>1. CASE logs[n] = NULL
  BY <1>1 DEF MarkSuccessful, LogTypes
<1>2. CASE logs[n] # NULL
  <2> DEFINE marked == [logs[n] EXCEPT !.successful = TRUE]
  <2>1. logs[n] \in Log
    BY <1>2 DEF LogTypes
  <2>2. marked \in Log /\ marked.successful /\ marked.messages = logs[n].messages
    BY <2>1 DEF Log
  <2>3. logs' = [logs EXCEPT ![n] = marked]
    BY <1>2 DEF MarkSuccessful
  <2> HIDE DEF marked
  <2> QED
    BY <1>2, <2>2, <2>3, ItbAssumption DEF LogTypes
<1> QED
  BY <1>1, <1>2

\* Who writes to a log, and what has happened by then.
Occasion(n, message) ==
  /\ message = "received" => \E u \in Upload : upNonce[u] = n /\ CloseRequest(u)
  /\ message = "not_found" => sd[n] = NULL

LEMMA LogStepKinds ==
  ASSUME IInv, ItbInv, [ItbNext]_itbVars
  PROVE  \/ UNCHANGED logs
         \/ ItbRestart
         \/ \E n \in Nonce, message \in Message : AddLog(n, message) /\ Occasion(n, message)
         \/ \E n \in Nonce : poll[n] = "logged" /\ MarkSuccessful(n)
<1>1. CASE UNCHANGED itbVars
  BY <1>1 DEF itbVars
<1>2. ASSUME NEW n \in Nonce, SetUpInserts(n) \/ SetUpReplies(n) \/ SetUpFails(n) \/ PollReads(n)
      PROVE  UNCHANGED logs
  BY <1>2 DEF SetUpInserts, SetUpReplies, SetUpFails, PollReads
<1>3. ASSUME NEW n \in Nonce,
             SetUpLogs(n) \/ Retrieve(n) \/ RefuseUpload(n) \/ PollInVain(n) \/ PollLogs(n)
      PROVE  \E message \in Message : AddLog(n, message) /\ Occasion(n, message)
  BY <1>3 DEF SetUpLogs, Retrieve, RefuseUpload, PollInVain, PollLogs, Known, Occasion,
              Message
<1>4. ASSUME NEW n \in Nonce, PollMarks(n)
      PROVE  poll[n] = "logged" /\ MarkSuccessful(n)
  BY <1>4 DEF PollMarks
<1>5. ASSUME NEW u \in Upload, UploadReports(u) \/ UploadCloses(u)
      PROVE  \E n \in Nonce, message \in Message : AddLog(n, message) /\ Occasion(n, message)
  <2>1. upNonce[u] \in Nonce
    BY <1>5 DEF UploadReports, UploadCloses, StoreFailureReport, CloseRequest,
                IInv, UploadsAreAddressed
  <2> QED
    BY <1>5, <2>1 DEF UploadReports, UploadCloses, Occasion, Message
<1>6. ASSUME NEW u \in Upload,
             \/ \E n \in Nonce, p \in Postings : PostUpload(u, n, p)
             \/ UploadStores(u) \/ UploadFails(u)
      PROVE  UNCHANGED logs
  BY <1>6 DEF PostUpload, UploadStores, UploadFails
<1>7. CASE Elsewhere
  BY <1>7 DEF Elsewhere
<1> QED
  BY <1>1, <1>2, <1>3, <1>4, <1>5, <1>6, <1>7 DEF ItbNext

\* What is in a log stays in it until a restart.
LEMMA LogsGrow ==
  ASSUME IInv, ItbInv, [ItbNext]_itbVars, ~ItbRestart, NEW n \in Nonce, logs[n] # NULL
  PROVE  /\ logs'[n] # NULL
         /\ logs[n].messages \subseteq logs'[n].messages
         /\ logs[n].successful => logs'[n].successful
<1>1. ASSUME NEW m \in Nonce, NEW message \in Message, AddLog(m, message)
      PROVE  /\ logs'[n] # NULL
             /\ logs[n].messages \subseteq logs'[n].messages
             /\ logs[n].successful => logs'[n].successful
  BY <1>1, AddLogGets DEF ItbInv
<1>2. ASSUME NEW m \in Nonce, MarkSuccessful(m)
      PROVE  /\ logs'[n] # NULL
             /\ logs[n].messages \subseteq logs'[n].messages
             /\ logs[n].successful => logs'[n].successful
  BY <1>2, MarkMarks DEF ItbInv
<1> QED
  BY <1>1, <1>2, LogStepKinds
-----------------------------------------------------------------------------
(* What a step does to uploads *)

\* What is known of an upload that has arrived stays known.
LEMMA UploadStays ==
  ASSUME IInv, [Next]_vars, NEW u \in Upload, upState[u] # "idle"
  PROVE  /\ upNonce'[u] = upNonce[u] /\ upState'[u] # "idle"
         /\ upStored[u] # NULL => upStored'[u] # NULL
         /\ upState[u] = "ok" => upState'[u] = "ok"
<1> USE DEF IInv
<1>1. CASE UNCHANGED upVars
  BY <1>1 DEF upVars
<1>2. ASSUME NEW w \in Upload, NEW n \in Nonce, NEW docs \in (0..MaxDocs) \cup {NULL},
             BeginUpload(w, n, docs)
      PROVE  /\ upNonce'[u] = upNonce[u] /\ upState'[u] = upState[u]
             /\ upStored'[u] = upStored[u]
  BY <1>2 DEF BeginUpload, UploadGoesTo, TypeOK
<1>3. ASSUME NEW w \in Upload, StoreDocuments(w) \/ StoreFailureReport(w) \/ StoreFails(w)
      PROVE  /\ upNonce'[u] = upNonce[u] /\ upState'[u] # "idle"
             /\ upStored[u] # NULL => upStored'[u] # NULL
             /\ upState[u] = "ok" => upState'[u] = "ok"
  <2>1. /\ upState[w] = "checked" /\ upNonce[w] \in Nonce /\ upBegan[w] \in Nat
        /\ \E s \in UploadState \ {"idle"} : UploadGoesTo(w, s)
        /\ AddSignedDataObjects(w) \/ UNCHANGED upStored
        /\ UNCHANGED upNonce
    BY <1>3 DEF StoreDocuments, StoreFailureReport, StoreFails, UploadsAreAddressed,
                UploadState
  <2> QED
    BY <2>1, AddKeepsTypes DEF UploadGoesTo, TypeOK
<1>4. ASSUME NEW w \in Upload, CloseRequest(w) \/ CloseFails(w)
      PROVE  /\ upNonce'[u] = upNonce[u] /\ upState'[u] # "idle"
             /\ upStored'[u] = upStored[u]
             /\ upState[u] = "ok" => upState'[u] = "ok"
  BY <1>4 DEF CloseRequest, CloseFails, UploadGoesTo, TypeOK
<1>5. CASE Restart
  BY <1>5 DEF Restart, TypeOK
<1> QED
  BY <1>1, <1>2, <1>3, <1>4, <1>5, StepKinds

\* An upload that arrives is for a request that exists.
LEMMA ArrivesForRequest ==
  ASSUME IInv, [Next]_vars, NEW u \in Upload, upState[u] = "idle", upState'[u] # "idle"
  PROVE  \E n \in Nonce : upNonce'[u] = n /\ issued[n] # NULL
<1> USE DEF IInv
<1>1. ASSUME NEW w \in Upload, NEW n \in Nonce, NEW docs \in (0..MaxDocs) \cup {NULL},
             BeginUpload(w, n, docs)
      PROVE  \E m \in Nonce : upNonce'[u] = m /\ issued[m] # NULL
  BY <1>1 DEF BeginUpload, UploadGoesTo, TypeOK
<1>2. ASSUME NEW w \in Upload, \/ StoreDocuments(w) \/ StoreFailureReport(w) \/ StoreFails(w)
                               \/ CloseRequest(w) \/ CloseFails(w)
      PROVE  FALSE
  BY <1>2 DEF StoreDocuments, StoreFailureReport, StoreFails, CloseRequest, CloseFails,
              UploadGoesTo, TypeOK
<1>3. CASE UNCHANGED upVars \/ Restart
  BY <1>3 DEF upVars, Restart, TypeOK
<1> QED
  BY <1>1, <1>2, <1>3, StepKinds

LEMMA HistoryStays ==
  ASSUME IInv, [Next]_vars, NEW n \in Nonce
  PROVE  /\ HasUpload(n) => HasUpload(n)'
         /\ (\E u \in Upload : upState[u] = "ok" /\ Answers(u, n))
              => \E u \in Upload : (upState[u] = "ok" /\ Answers(u, n))'
<1>1. ASSUME NEW u \in Upload, upNonce[u] = n, upStored[u] # NULL
      PROVE  upNonce'[u] = n /\ upStored'[u] # NULL
  BY <1>1, UploadStays DEF IInv, UploadsAreAddressed
<1>2. ASSUME NEW u \in Upload, upState[u] = "ok", Answers(u, n)
      PROVE  upState'[u] = "ok" /\ Answers(u, n)'
  BY <1>2, UploadStays, AnswersPersist DEF IInv
<1> QED
  BY <1>1, <1>2 DEF HasUpload

\* A transaction that adds rows leaves an upload behind that has stored.
LEMMA StepRowsAreUploaded ==
  ASSUME IInv, RowsAreUploaded, [Next]_vars
  PROVE  RowsAreUploaded'
<1> USE DEF IInv
<1>1. ASSUME NEW r \in sdo PROVE HasUpload(r.request_id)'
  <2>1. r.request_id \in Nonce /\ HasUpload(r.request_id)
    BY DEF RowsAreUploaded, TypeOK, Row
  <2> QED
    BY <2>1, HistoryStays
<1>2. ASSUME NEW u \in Upload, upState[u] = "checked", AddSignedDataObjects(u),
             UNCHANGED <<upNonce, upDocs>>, NEW r \in sdo', r \notin sdo
      PROVE  HasUpload(r.request_id)'
  <2>1. upNonce[u] \in Nonce /\ upBegan[u] \in Nat
    BY <1>2 DEF UploadsAreAddressed
  <2>2. upStored'[u] # NULL
    BY <1>2, <2>1, AddKeepsTypes
  <2>3. r.request_id = upNonce[u]
    BY <1>2 DEF AddSignedDataObjects, NewRows
  <2> QED
    BY <1>2, <2>2, <2>3 DEF HasUpload
<1> QED
  BY <1>1, <1>2, RowStepKinds DEF RowsAreUploaded
-----------------------------------------------------------------------------
(* The steps of the invariant *)

\* How far the handlers of a transaction get in one step.
LEMMA ProgressKinds ==
  ASSUME [ItbNext]_itbVars, LogTypes, NEW n \in Nonce
  PROVE  \/ ItbRestart
         \/ /\ \/ setUp'[n] = setUp[n]
               \/ SetUpInserts(n) /\ setUp'[n] = "inserted"
               \/ SetUpLogs(n) /\ setUp'[n] = "logged"
               \/ SetUpReplies(n) /\ setUp'[n] = "told"
            /\ \/ poll'[n] = poll[n]
               \/ PollReads(n) /\ poll'[n] = "got"
               \/ PollLogs(n) /\ poll'[n] = "logged"
               \/ PollMarks(n) /\ poll'[n] = "done"
<1> USE DEF LogTypes
<1>1. CASE UNCHANGED itbVars
  BY <1>1 DEF itbVars
<1>2. ASSUME NEW m \in Nonce, \/ SetUpInserts(m) \/ SetUpLogs(m) \/ SetUpReplies(m)
                              \/ SetUpFails(m) \/ Retrieve(m) \/ RefuseUpload(m)
      PROVE  /\ poll'[n] = poll[n]
             /\ \/ setUp'[n] = setUp[n]
                \/ SetUpInserts(n) /\ setUp'[n] = "inserted"
                \/ SetUpLogs(n) /\ setUp'[n] = "logged"
                \/ SetUpReplies(n) /\ setUp'[n] = "told"
  <2>1. CASE m = n
    BY <1>2, <2>1 DEF SetUpInserts, SetUpLogs, SetUpReplies, SetUpFails, Retrieve, RefuseUpload
  <2>2. CASE m # n
    BY <1>2, <2>2 DEF SetUpInserts, SetUpLogs, SetUpReplies, SetUpFails, Retrieve, RefuseUpload
  <2> QED
    BY <2>1, <2>2
<1>3. ASSUME NEW m \in Nonce, PollReads(m) \/ PollInVain(m) \/ PollLogs(m) \/ PollMarks(m)
      PROVE  /\ setUp'[n] = setUp[n]
             /\ \/ poll'[n] = poll[n]
                \/ PollReads(n) /\ poll'[n] = "got"
                \/ PollLogs(n) /\ poll'[n] = "logged"
                \/ PollMarks(n) /\ poll'[n] = "done"
  <2>1. CASE m = n
    BY <1>3, <2>1 DEF PollReads, PollInVain, PollLogs, PollMarks
  <2>2. CASE m # n
    BY <1>3, <2>2 DEF PollReads, PollInVain, PollLogs, PollMarks
  <2> QED
    BY <2>1, <2>2
<1>4. ASSUME NEW u \in Upload,
             \/ \E m \in Nonce, p \in Postings : PostUpload(u, m, p)
             \/ UploadReports(u) \/ UploadStores(u) \/ UploadCloses(u) \/ UploadFails(u)
      PROVE  UNCHANGED <<setUp, poll>>
  BY <1>4 DEF PostUpload, UploadReports, UploadStores, UploadCloses, UploadFails
<1>5. CASE Elsewhere
  BY <1>5 DEF Elsewhere
<1> QED
  BY <1>1, <1>2, <1>3, <1>4, <1>5 DEF ItbNext

LEMMA StepLogTypes ==
  ASSUME IInv, ItbInv, [ItbNext]_itbVars
  PROVE  LogTypes'
<1> USE DEF ItbInv, LogTypes
<1>1. logs' \in [Nonce -> Log \cup {NULL}]
  <2>1. CASE ItbRestart
    BY <2>1 DEF ItbRestart
  <2> QED
    BY <2>1, LogStepKinds, AddLogGets, MarkMarks
<1>2. setUp' \in [Nonce -> SetUp] /\ poll' \in [Nonce -> Poll]
  <2>1. ASSUME NEW n \in Nonce,
               \/ SetUpInserts(n) \/ SetUpLogs(n) \/ SetUpReplies(n) \/ SetUpFails(n)
               \/ Retrieve(n) \/ RefuseUpload(n)
        PROVE  setUp' \in [Nonce -> SetUp] /\ poll' \in [Nonce -> Poll]
    BY <2>1 DEF SetUpInserts, SetUpLogs, SetUpReplies, SetUpFails, Retrieve, RefuseUpload, SetUp
  <2>2. ASSUME NEW n \in Nonce, PollReads(n) \/ PollInVain(n) \/ PollLogs(n) \/ PollMarks(n)
        PROVE  setUp' \in [Nonce -> SetUp] /\ poll' \in [Nonce -> Poll]
    BY <2>2 DEF PollReads, PollInVain, PollLogs, PollMarks, Poll
  <2>3. ASSUME NEW u \in Upload,
               \/ \E n \in Nonce, p \in Postings : PostUpload(u, n, p)
               \/ UploadReports(u) \/ UploadStores(u) \/ UploadCloses(u) \/ UploadFails(u)
        PROVE  UNCHANGED <<setUp, poll>>
    BY <2>3 DEF PostUpload, UploadReports, UploadStores, UploadCloses, UploadFails
  <2>4. CASE ItbRestart
    BY <2>4 DEF ItbRestart, SetUp, Poll
  <2> QED
    BY <2>1, <2>2, <2>3, <2>4 DEF ItbNext, itbVars, Elsewhere
<1>3. posted' \in [Upload -> Bodies \cup {NULL}]
  <2>1. ASSUME NEW u \in Upload, NEW n \in Nonce, NEW p \in Postings, PostUpload(u, n, p)
        PROVE  posted' \in [Upload -> Bodies \cup {NULL}]
    <3>1. p.body \in Bodies
      BY DEF Postings
    <3> QED
      BY <2>1, <3>1 DEF PostUpload
  <2>2. ASSUME NEW u \in Upload,
               UploadReports(u) \/ UploadStores(u) \/ UploadCloses(u) \/ UploadFails(u)
        PROVE  posted' \in [Upload -> Bodies \cup {NULL}]
    BY <2>2 DEF UploadReports, UploadStores, UploadCloses, UploadFails
  <2>3. ASSUME NEW n \in Nonce,
               \/ SetUpInserts(n) \/ SetUpLogs(n) \/ SetUpReplies(n) \/ SetUpFails(n)
               \/ Retrieve(n) \/ RefuseUpload(n)
               \/ PollReads(n) \/ PollInVain(n) \/ PollLogs(n) \/ PollMarks(n)
        PROVE  UNCHANGED posted
    BY <2>3 DEF SetUpInserts, SetUpLogs, SetUpReplies, SetUpFails, Retrieve, RefuseUpload,
                PollReads, PollInVain, PollLogs, PollMarks
  <2>4. CASE ItbRestart \/ Elsewhere \/ UNCHANGED itbVars
    BY <2>4 DEF ItbRestart, Elsewhere, itbVars
  <2> QED
    BY <2>1, <2>2, <2>3, <2>4 DEF ItbNext
<1> QED
  BY <1>1, <1>2, <1>3

LEMMA StepWorksOnRequests ==
  ASSUME IInv, ItbInv, [ItbNext]_itbVars
  PROVE  WorksOnRequests'
<1>0. TypeOK /\ UploadsAreAddressed /\ LogTypes /\ WorksOnRequests /\ [Next]_vars
  BY ItbStepIsExchangeStep DEF IInv, ItbInv
<1>1. ASSUME NEW u \in Upload, upState'[u] # "idle" PROVE issued'[upNonce'[u]] # NULL
  <2>1. \E n \in Nonce : upNonce'[u] = n /\ issued[n] # NULL
    BY <1>0, <1>1, UploadStays, ArrivesForRequest DEF WorksOnRequests, UploadsAreAddressed
  <2> QED
    BY <1>0, <2>1, IssuedIsForever
<1>2. ASSUME NEW n \in Nonce, issued'[n] = NULL
      PROVE  setUp'[n] = "none" /\ poll'[n] = "idle"
  <2>1. issued[n] = NULL /\ setUp[n] = "none" /\ poll[n] = "idle"
    BY <1>0, <1>2, IssuedIsForever DEF WorksOnRequests
  <2>2. ~SetUpInserts(n)
    BY <1>0, <1>2, ExchangeAssumption DEF SetUpInserts, IssueRequest, TypeOK
  <2>3. CASE ItbRestart
    BY <2>3, <2>1 DEF ItbRestart
  <2>4. CASE ~ItbRestart
    BY <1>0, <2>1, <2>2, <2>4, ProgressKinds
       DEF SetUpLogs, SetUpReplies, PollReads, PollLogs, PollMarks, MayPoll
  <2> QED
    BY <2>3, <2>4
<1> QED
  BY <1>1, <1>2 DEF WorksOnRequests

\* An id that has a log gets no request any more: whoever sets a transaction up
\* draws one that nobody has asked for.
LEMMA LoggedStaysAbsent ==
  ASSUME IInv, LogTypes, [ItbNext]_itbVars, NEW n \in Nonce, sd[n] = NULL, logs'[n] # NULL
  PROVE  sd'[n] = NULL
<1> USE DEF IInv, TypeOK
<1>1. CASE UNCHANGED itbVars
  BY <1>1 DEF itbVars, vars, dbVars
<1>2. ASSUME NEW m \in Nonce, SetUpInserts(m) \/ SetUpFails(m)
      PROVE  sd'[n] = NULL
  <2>1. m # n
    BY <1>2 DEF SetUpInserts, SetUpFails, Fresh
  <2> QED
    BY <1>2, <2>1 DEF SetUpInserts, SetUpFails, IssueRequest, IssueFails
<1>3. ASSUME NEW m \in Nonce,
             \/ SetUpLogs(m) \/ SetUpReplies(m) \/ Retrieve(m) \/ RefuseUpload(m)
             \/ PollReads(m) \/ PollInVain(m) \/ PollLogs(m) \/ PollMarks(m)
      PROVE  sd'[n] = NULL
  BY <1>3 DEF SetUpLogs, SetUpReplies, Retrieve, RefuseUpload, PollReads, PollInVain,
              PollLogs, PollMarks, vars, dbVars
<1>4. ASSUME NEW u \in Upload,
             \/ \E m \in Nonce, p \in Postings : PostUpload(u, m, p)
             \/ UploadReports(u) \/ UploadStores(u) \/ UploadFails(u)
      PROVE  sd'[n] = NULL
  BY <1>4 DEF PostUpload, UploadReports, UploadStores, UploadFails, BeginUpload,
              StoreFailureReport, StoreDocuments, StoreFails, CloseFails,
              RemoveRequestObject, dbVars
<1>5. ASSUME NEW u \in Upload, UploadCloses(u)
      PROVE  sd'[n] = NULL
  BY <1>5 DEF UploadCloses, CloseRequest, RemoveRequestObject
<1>6. CASE ItbRestart
  BY <1>6 DEF ItbRestart
<1>7. CASE Elsewhere
  BY <1>7 DEF Elsewhere, DeleteExpired, DeleteExpiredIn, Tick, dbVars
<1> QED
  BY <1>1, <1>2, <1>3, <1>4, <1>5, <1>6, <1>7 DEF ItbNext

\* What a log says is true when it is written, and does not become false.
LEMMA StepLogsAreTrue ==
  ASSUME IInv, ItbInv, [ItbNext]_itbVars
  PROVE  LogsAreTrue'
<1> DEFINE answered(n) == \E u \in Upload : upState[u] = "ok" /\ Answers(u, n)
           answeredNext(n) == \E u \in Upload : (upState[u] = "ok" /\ Answers(u, n))'
           said(n) == /\ "received" \in logs'[n].messages => sd'[n] = NULL /\ answeredNext(n)
                      /\ logs'[n].successful => HasUpload(n)'
                      /\ "not_found" \in logs'[n].messages => sd'[n] = NULL
<1>0. LogTypes /\ WorksOnRequests /\ LogsAreTrue /\ LogsKeepUp /\ TypeOK /\ [Next]_vars
  BY ItbStepIsExchangeStep DEF IInv, ItbInv
<1>1. ASSUME NEW n \in Nonce, logs[n] # NULL, logs'[n] # NULL
      PROVE  /\ "received" \in logs[n].messages => sd'[n] = NULL /\ answeredNext(n)
             /\ logs[n].successful => HasUpload(n)'
             /\ "not_found" \in logs[n].messages => sd'[n] = NULL
  <2>2. sd[n] = NULL => sd'[n] = NULL
    BY <1>0, <1>1, LoggedStaysAbsent
  <2>3. /\ "received" \in logs[n].messages => sd[n] = NULL /\ answered(n)
        /\ logs[n].successful => HasUpload(n)
        /\ "not_found" \in logs[n].messages => sd[n] = NULL
    BY <1>0, <1>1 DEF LogsAreTrue, HasUpload
  <2> QED
    BY <1>0, <2>2, <2>3, HistoryStays
<1>2. ASSUME NEW n \in Nonce, NEW message \in Message, Occasion(n, message), logs'[n] # NULL
      PROVE  /\ message = "received" => sd'[n] = NULL /\ answeredNext(n)
             /\ message = "not_found" => sd'[n] = NULL
  <2>1. sd[n] = NULL => sd'[n] = NULL
    BY <1>0, <1>2, LoggedStaysAbsent
  <2>2. ASSUME NEW u \in Upload, upNonce[u] = n, CloseRequest(u)
        PROVE  sd'[n] = NULL /\ answeredNext(n)
    <3>1. Answers(u, n)
      BY <2>2 DEF CloseRequest, Answers, IInv, StoredMeansAnswer
    <3>2. Answers(u, n)' /\ upState'[u] = "ok" /\ sd'[n] = NULL
      BY <1>0, <2>2, <3>1 DEF CloseRequest, UploadGoesTo, RemoveRequestObject, Answers, TypeOK
    <3> QED
      BY <3>2
  <2> QED
    BY <1>2, <2>1, <2>2 DEF Occasion
<1> HIDE DEF answered, answeredNext
<1>3. ASSUME NEW n \in Nonce, logs'[n] # NULL PROVE said(n)
  <2>1. CASE UNCHANGED logs
    BY <1>1, <1>3, <2>1
  <2>2. CASE ItbRestart
    BY <1>3, <2>2 DEF ItbRestart
  <2>3. ASSUME NEW m \in Nonce, NEW message \in Message, AddLog(m, message), Occasion(m, message)
        PROVE  said(n)
    BY <1>0, <1>1, <1>2, <1>3, <2>3, AddLogGets
  <2>4. ASSUME NEW m \in Nonce, poll[m] = "logged", MarkSuccessful(m)
        PROVE  said(n)
    <3>1. HasUpload(m)'
      BY <1>0, <2>4, HistoryStays DEF LogsKeepUp
    <3> QED
      BY <1>0, <1>1, <1>3, <2>4, <3>1, MarkMarks
  <2> QED
    BY <2>1, <2>2, <2>3, <2>4, LogStepKinds
<1> QED
  BY <1>3 DEF LogsAreTrue, HasUpload, answeredNext

LEMMA StepLogsKeepUp ==
  ASSUME IInv, ItbInv, [ItbNext]_itbVars
  PROVE  LogsKeepUp'
<1>0. LogTypes /\ LogsKeepUp /\ RowsAreUploaded /\ [Next]_vars
  BY ItbStepIsExchangeStep DEF ItbInv
<1> SUFFICES ASSUME NEW n \in Nonce
             PROVE  /\ setUp'[n] \in {"logged", "told"} =>
                         logs'[n] # NULL /\ "initialized" \in logs'[n].messages
                    /\ poll'[n] \in {"got", "logged"} => HasUpload(n)'
  BY DEF LogsKeepUp
<1>1. CASE ItbRestart
  BY <1>0, <1>1 DEF ItbRestart, LogTypes, SetUp
<1>2. CASE ~ItbRestart
  <2>1. ASSUME logs[n] # NULL
        PROVE  /\ logs'[n] # NULL
               /\ "initialized" \in logs[n].messages => "initialized" \in logs'[n].messages
    BY <1>2, <2>1, LogsGrow
  <2>2. setUp'[n] \in {"logged", "told"} =>
          logs'[n] # NULL /\ "initialized" \in logs'[n].messages
    <3>1. CASE setUp'[n] = setUp[n] \/ SetUpReplies(n)
      <4>1. setUp'[n] \in {"logged", "told"} => setUp[n] \in {"logged", "told"}
        BY <3>1 DEF SetUpReplies
      <4> QED
        BY <1>0, <2>1, <4>1 DEF LogsKeepUp
    <3>2. CASE SetUpLogs(n)
      BY <1>0, <3>2, AddLogGets DEF SetUpLogs, Message
    <3> QED
      BY <1>0, <1>2, <3>1, <3>2, ProgressKinds
  <2>3. poll'[n] \in {"got", "logged"} => HasUpload(n)'
    <3>1. CASE PollReads(n)
      BY <1>0, <3>1, HistoryStays DEF PollReads, Ready, RowsOf, RowsAreUploaded
    <3>2. CASE poll'[n] = poll[n] \/ PollLogs(n)
      BY <1>0, <3>2, HistoryStays DEF PollLogs, LogsKeepUp
    <3> QED
      BY <1>0, <1>2, <3>1, <3>2, ProgressKinds
  <2> QED
    BY <2>2, <2>3
<1> QED
  BY <1>1, <1>2

LEMMA ItbInvariance == ItbSpec => [](IInv /\ ItbInv)
<1>1. ItbInit => IInv /\ ItbInv
  <2>1. ItbInit => Init
    BY DEF ItbInit
  <2> QED
    BY <2>1, InitIInv DEF ItbInit, Init, ItbInv, RowsAreUploaded, WorksOnRequests, LogsAreTrue,
                          LogsKeepUp, LogTypes, SetUp, Poll
<1>2. IInv /\ ItbInv /\ [ItbNext]_itbVars => (IInv /\ ItbInv)'
  BY ItbStepIsExchangeStep, StepIInv, StepRowsAreUploaded, StepLogTypes, StepWorksOnRequests,
     StepLogsAreTrue, StepLogsKeepUp DEF ItbInv
<1> QED
  BY <1>1, <1>2, PTL DEF ItbSpec

-----------------------------------------------------------------------------
(* The theorems *)

\* The logs and the handlers that write to them are well typed, and a tester is
\* told only of requests that exist and polls only for such (endpoints/itb/routes.py);
\* add_logs makes a log for whatever id it is given.
THEOREM LogsAreTyped == ItbSpec => []ItbTypeOK
<1>1. ItbInv => ItbTypeOK
  BY DEF ItbInv, LogTypes, WorksOnRequests, ItbTypeOK
<1> QED
  BY <1>1, ItbInvariance, PTL

\* No interleaving of uploads, retrievals, polls, restarts and the cleanup makes
\* the log of a transaction say what the tables and the wallets' answers deny
\* (endpoints/wallet/routes.py, endpoints/itb/routes.py).
THEOREM LogsAreAlwaysTrue == ItbSpec => []LogsAreTrue
<1>1. ItbInv => LogsAreTrue
  BY DEF ItbInv
<1> QED
  BY <1>1, ItbInvariance, PTL

\* Between two restarts get_logs has the start of every transaction a tester was
\* told of.
THEOREM TesterAlwaysSeesLogs == ItbSpec => []TesterSeesLogs
<1>1. ItbInv => TesterSeesLogs
  BY DEF ItbInv, LogsKeepUp, TesterSeesLogs
<1> QED
  BY <1>1, ItbInvariance, PTL

\* What the exchange promises it promises to testers too: their endpoints are
\* steps of it, or leave the tables alone.
THEOREM ItbIsExchange == ItbSpec => Spec
<1>1. ItbInit => Init
  BY DEF ItbInit
<1>2. [ItbNext]_itbVars => [Next]_vars
  BY ItbStepIsExchangeStep
<1> QED
  BY <1>1, <1>2, PTL DEF ItbSpec, Spec

\* To wallets and browsers the tables stay the mailbox of each request while testers
\* set up and poll: an OK is as durable, and a page shows an answer.
THEOREM ItbIsMailbox ==
  ItbSpec => /\ ImplementsMailbox /\ ImplementsAnswerBox
             /\ [](OkIsDurable /\ PageShowsAnAnswer)
  BY ItbIsExchange, ExchangeIsMailbox, ExchangeIsAnswerBox, OkIsAlwaysDurable,
     PageAlwaysShowsAnAnswer, PTL
=============================================================================
