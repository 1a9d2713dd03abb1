--------------------------- MODULE ItbTransactions ---------------------------
(***************************************************************************)
(* The exchange as an interoperability tester sees it: the endpoints of    *)
(* app/api/endpoints/itb, which set a transaction up, poll for its signed  *)
(* document and read its log, and the logs themselves                      *)
(* (app/services/log_service.py), kept in memory beside the tables.  The   *)
(* endpoints of the wallet write to them too.                              *)
(*                                                                         *)
(* A handler adds its entry after its transaction and before its answer.   *)
(* The entry is one step with the transaction where no other handler can   *)
(* tell: a restart between the two loses all logs anyway.                  *)
(***************************************************************************)
EXTENDS SigningExchange, Sequences

CONSTANTS
  Content,  \* the contents of documents and signatures
  Bodies    \* the bodies wallets post, see UploadForms

INSTANCE UploadForms

VARIABLES
  logs,    \* logs[n]: the log of transaction n, NULL if there is none
  setUp,   \* setUp[n]: how far the handler that sets n up is
  poll,    \* poll[n]: how far the tester's poll for n is
  posted   \* posted[u]: the body of upload u while it is looked up, or NULL

itbVars == <<vars, logs, setUp, poll, posted>>

\* "initialized" and so on stand for the messages; wording, times and the order of
\* the entries are left out.
Message == {"initialized", "retrieved", "not_found", "refused", "report",
            "received", "got", "not_yet", "poll_failed"}
Log == [successful : BOOLEAN, messages : SUBSET Message]

\* Transactions of testers are delivered by reference.
ASSUME ItbAssumption ==
  /\ "request_uri" \in Deliveries
  /\ NULL \notin Log

ASSUME BodiesAssumption ==
  /\ Bodies \subseteq Body /\ NULL \notin Bodies
  /\ NULL \notin Seq(Decoded)

\* "inserted": create_document_signing_request returned; "logged"; "told": the
\* tester has the transaction id; "forgotten": it has, and the service restarted.
SetUp == {"none", "inserted", "logged", "told", "forgotten"}

\* "got": retrieve_signed_objects returned rows; "logged": and this is in the log;
\* "done": the tester has them.
Poll == {"idle", "got", "logged", "done"}

ItbInit ==
  /\ Init
  /\ logs = [n \in Nonce |-> NULL]
  /\ setUp = [n \in Nonce |-> "none"]
  /\ poll = [n \in Nonce |-> "idle"]
  /\ posted = [u \in Upload |-> NULL]

-----------------------------------------------------------------------------
(* The logs *)

\* Mutant of LogOf: an entry starts the log anew.
NewLog(n) == [successful |-> FALSE, messages |-> {}]

LogOf(n) == IF logs[n] = NULL THEN [successful |-> FALSE, messages |-> {}] ELSE logs[n]

\* add_logs
AddLog(n, message) ==
  logs' = [logs EXCEPT ![n] = [LogOf(n) EXCEPT !.messages = @ \cup {message}]]

\* mark_successful: a transaction without a log is passed over.
MarkSuccessful(n) ==
  logs' = IF logs[n] = NULL THEN logs ELSE [logs EXCEPT ![n].successful = TRUE]

-----------------------------------------------------------------------------
(* Setting a transaction up: get_document_for_signature *)

\* _get_nonce draws 32 random bytes: no id somebody has already asked for in vain.
Fresh(n) == logs[n] = NULL

SetUpInserts(n) ==
  /\ setUp[n] = "none" /\ Fresh(n)
  /\ IssueRequest(n, "request_uri")
  /\ setUp' = [setUp EXCEPT ![n] = "inserted"]
  /\ UNCHANGED <<logs, poll, posted>>

\* Mutant of SetUpLogs: the entry is forgotten.
SetUpSkipsLog(n) ==
  /\ setUp[n] = "inserted"
  /\ setUp' = [setUp EXCEPT ![n] = "logged"]
  /\ UNCHANGED <<vars, logs, poll, posted>>

SetUpLogs(n) ==
  /\ setUp[n] = "inserted"
  /\ AddLog(n, "initialized")
  /\ setUp' = [setUp EXCEPT ![n] = "logged"]
  /\ UNCHANGED <<vars, poll, posted>>

SetUpReplies(n) ==
  /\ setUp[n] = "logged"
  /\ setUp' = [setUp EXCEPT ![n] = "told"]
  /\ UNCHANGED <<vars, logs, poll, posted>>

\* Mutant of SetUpFails: the error is swallowed, and the handler goes on.
SetUpGoesOn(n) ==
  /\ Fresh(n) /\ IssueFails(n)
  /\ setUp' = [setUp EXCEPT ![n] = "inserted"]
  /\ UNCHANGED <<logs, poll, posted>>

\* A failure is logged under the id in the path, and this path has none.
SetUpFails(n) == Fresh(n) /\ IssueFails(n) /\ UNCHANGED <<logs, setUp, poll, posted>>

-----------------------------------------------------------------------------
(* The endpoints of the wallet, with what they log.  They look at the form of  *)
(* the id only, and so begin a log for any id they are asked for.              *)

\* retrieve_request_object.  A failure of the query is logged nowhere.
Retrieve(n) ==
  /\ AddLog(n, IF Known(n) THEN "retrieved" ELSE "not_found")
  /\ UNCHANGED <<vars, setUp, poll, posted>>

\* A body that is no form, or not JSON, gets no further.
RefuseUpload(n) ==
  /\ AddLog(n, "refused")
  /\ UNCHANGED <<vars, setUp, poll, posted>>

\* The bodies with the number of documents the upload endpoints find in them.
\* Bodies with more than MaxDocs are not posted.
Postings ==
  {p \in {[body |-> body, docs |-> LET objects == Received(body)
                                  IN IF objects = NULL THEN NULL ELSE Len(objects)] :
            body \in Bodies} : p.docs \in (0..MaxDocs) \cup {NULL}}

\* The two upload endpoints up to the lookup of the request.
PostUpload(u, n, p) ==
  /\ BeginUpload(u, n, p.docs)
  /\ posted' = [posted EXCEPT ![u] = IF upState'[u] = "checked" THEN p.body ELSE NULL]
  /\ UNCHANGED <<logs, setUp, poll>>

UploadReports(u) ==
  /\ StoreFailureReport(u)
  /\ AddLog(upNonce[u], "report")
  /\ UNCHANGED <<setUp, poll>>
  /\ posted' = [posted EXCEPT ![u] = NULL]

\* Mutant of UploadStores: the entry is added before the request is closed.
UploadStoresAndLogs(u) ==
  /\ StoreDocuments(u)
  /\ AddLog(upNonce[u], "received")
  /\ UNCHANGED <<setUp, poll>>
  /\ posted' = [posted EXCEPT ![u] = NULL]

UploadStores(u) ==
  /\ StoreDocuments(u)
  /\ UNCHANGED <<logs, setUp, poll>>
  /\ posted' = [posted EXCEPT ![u] = NULL]

UploadCloses(u) ==
  /\ CloseRequest(u)
  /\ AddLog(upNonce[u], "received")
  /\ UNCHANGED <<setUp, poll, posted>>

\* No failure of these transactions is logged under the request.
UploadFails(u) ==
  /\ StoreFails(u) \/ CloseFails(u)
  /\ UNCHANGED <<logs, setUp, poll>>
  /\ posted' = [posted EXCEPT ![u] = NULL]

-----------------------------------------------------------------------------
(* Polling: get_signed_document *)

\* A tester polls for the transactions it was told of.
MayPoll(n) == setUp[n] \in {"told", "forgotten"} /\ poll[n] = "idle"

\* Mutant of PollReads: the table of requests is asked.
PollReadsRequests(n) ==
  /\ MayPoll(n) /\ Known(n)
  /\ poll' = [poll EXCEPT ![n] = "got"]
  /\ UNCHANGED <<vars, logs, setUp, posted>>

PollReads(n) ==
  /\ MayPoll(n) /\ Ready(n)
  /\ poll' = [poll EXCEPT ![n] = "got"]
  /\ UNCHANGED <<vars, logs, setUp, posted>>

\* Answered 404, or 500 when the query failed: the tester tries again.  Anybody may
\* ask so, and for any id.
PollInVain(n) ==
  /\ \/ ~Ready(n) /\ AddLog(n, "not_yet")
     \/ DbFaults # {} /\ AddLog(n, "poll_failed")
  /\ UNCHANGED <<vars, setUp, poll, posted>>

PollLogs(n) ==
  /\ poll[n] = "got"
  /\ AddLog(n, "got")
  /\ poll' = [poll EXCEPT ![n] = "logged"]
  /\ UNCHANGED <<vars, setUp, posted>>

PollMarks(n) ==
  /\ poll[n] = "logged"
  /\ MarkSuccessful(n)
  /\ poll' = [poll EXCEPT ![n] = "done"]
  /\ UNCHANGED <<vars, setUp, posted>>

-----------------------------------------------------------------------------

\* The logs go with the process, and so do the handlers: a tester whose poll is
\* lost polls again, and one that has its document finds no log of it any more.
ItbRestart ==
  /\ Restart
  /\ logs' = [n \in Nonce |-> NULL]
  /\ setUp' = [n \in Nonce |-> IF setUp[n] \in {"told", "forgotten"}
                              THEN "forgotten" ELSE "none"]
  /\ poll' = [n \in Nonce |-> IF poll[n] = "done" THEN "done" ELSE "idle"]
  /\ posted' = [u \in Upload |-> NULL]

\* The cleanup and the clock do not know the logs.
Elsewhere == (DeleteExpired \/ Tick) /\ UNCHANGED <<logs, setUp, poll, posted>>

ItbNext ==
  \/ \E n \in Nonce :
       \/ SetUpInserts(n) \/ SetUpLogs(n) \/ SetUpReplies(n) \/ SetUpFails(n)
       \/ Retrieve(n) \/ RefuseUpload(n)
       \/ PollReads(n) \/ PollInVain(n) \/ PollLogs(n) \/ PollMarks(n)
  \/ \E u \in Upload :
       \/ \E n \in Nonce, p \in Postings : PostUpload(u, n, p)
       \/ UploadReports(u) \/ UploadStores(u) \/ UploadCloses(u) \/ UploadFails(u)
  \/ ItbRestart
  \/ Elsewhere

\* A tester polls until it has the document, and the service is not restarted in
\* every single poll.
ItbSpec ==
  /\ ItbInit /\ [][ItbNext]_itbVars
  /\ \A n \in Nonce : SF_itbVars(PollReads(n)) /\ SF_itbVars(PollLogs(n))
                                               /\ SF_itbVars(PollMarks(n))

-----------------------------------------------------------------------------
(* Properties *)

\* The types of the logs and of the steps of the handlers that write to them; a
\* tester deals only with requests that exist, while logs exist for any id.
ItbTypeOK ==
  /\ logs \in [Nonce -> Log \cup {NULL}]
  /\ setUp \in [Nonce -> SetUp]
  /\ poll \in [Nonce -> Poll]
  /\ posted \in [Upload -> Bodies \cup {NULL}]
  /\ \A n \in Nonce : issued[n] = NULL => setUp[n] = "none" /\ poll[n] = "idle"

\* A log says what happened to the tables, though nothing keeps the two together:
\* after "Document signed by Wallet received" the request is closed and the
\* documents of an upload answered OK were stored; a transaction is successful
\* only after something was stored for it; and a log that says that the request
\* object was not found is right for good.
LogsAreTrue ==
  \A n \in Nonce : logs[n] # NULL =>
    /\ "received" \in logs[n].messages =>
         sd[n] = NULL /\ \E u \in Upload : upState[u] = "ok" /\ Answers(u, n)
    /\ logs[n].successful =>
         \E u \in Upload : upNonce[u] = n /\ upStored[u] # NULL
    /\ "not_found" \in logs[n].messages => sd[n] = NULL

\* Until the service is restarted, a tester that was told of a transaction finds
\* the start of it in the log (get_logs has an answer), whoever wrote to the log
\* in between.
TesterSeesLogs ==
  \A n \in Nonce : setUp[n] = "told" =>
    logs[n] # NULL /\ "initialized" \in logs[n].messages

\* What an upload is going to store is what the wallet posted, in its order and the
\* documents in base64, in every notation that can carry it.
DecodedAsSent ==
  \A u \in Upload :
    (/\ posted[u] # NULL
     /\ Carries(posted[u].notation, posted[u].documents)
     /\ Carries(posted[u].notation, posted[u].signatures)) => ArrivesAsSent(posted[u])

\* Once a wallet was answered OK the tester that set the transaction up gets what
\* it uploaded, unless the cleanup is faster.
OkReachesTester ==
  \A n \in Nonce :
    (/\ setUp[n] \in {"told", "forgotten"}
     /\ \E u \in Upload : upState[u] = "ok" /\ upNonce[u] = n)
      ~> (poll[n] = "done" \/ ~Ready(n))
=============================================================================
