# Wallet-driven relying party: specifications

Specifications of the relying party web service of this repository: TLA+ modules
translated from the code under `app/`, TLC runs that check them on small
instances, and proofs about them checked by TLAPS.

## The system

A user picks a sample document and signature options in the browser. The service
turns them into a signing request (a signed JSON object), records it in the table
`sd` under a fresh nonce and shows a link and a QR code for the user's EUDI
Wallet. The wallet fetches the request, has the document signed, and uploads the
result to the service, which stores it in the table `sdo` and deletes the row of
`sd`. Meanwhile the page in the browser polls the service; when an answer is
there it opens a page with the signed document, and the service deletes it from
`sdo`. A background thread deletes what got too old.

| Component | State | Operations | Works with |
|---|---|---|---|
| Signing exchange: `repositories/db.py`, `endpoints/wallet`, `signature_request_service.py`, the views of `endpoints/documents` | tables `sd`, `sdo` in MariaDB | create a request, fetch it, upload an answer (form, JSON), poll, view | every handler is a thread of its own and every call of `db.py` a transaction of its own |
| Document selection page: `document-select.html`, `document-select-options.js`, `select_signing_options` | options kept in `documentStates` and in the radio buttons; the options in the session | pick, click, remove, change options, confirm, submit | writes the session the next pages read |
| Wallet selection page: `wallet-select.html`, `WalletOptions` | radio buttons | choose protocol and delivery, submit | creates the request |
| Browser session: Flask-Session files, `utils/session.py`, `endpoints/auth`, `wallet-redirect.html` | user, options and nonce of one browser | loaded at the start of a request, saved as a whole at its end | login, selection pages, polling, view |
| Cleanup thread and startup: `utils/cleanup.py`, `app/__init__.py` | key material, flags for the `created_at` columns | start, a pass every 300 s | tables; the thread runs beside the start |
| ITB endpoints and logs: `endpoints/itb`, `log_service.py` | log entries per transaction, in memory | create, poll, read logs | tables, lost on restart |
| Form decoding of uploads: `endpoints/wallet` | none | notations for lists of documents | upload, before its first transaction |
| Request objects and keys: `protocols/`, `key_service.py` | keys, loaded once at start | build and sign a JSON object | create a request |
| Users, index pages, settings, logging | none that changes | read at startup; the login only marks the session | every page |

### What is hard

* **Interleaving.** Two uploads for one request, an upload and a view, the cleanup
  and everything else meet between transactions: the existence check, the insert
  and the delete of an upload are three transactions, the query and the delete of
  a view two.
* **Partial failure and crashes.** A connection may be refused, a statement or a
  commit fail, a commit be durable without its acknowledgement, and the process
  stop between two transactions. Only a refused connection raises the `ValueError`
  the upload catches.
* **Retries and order.** A wallet that was told 400, or nothing, tries again; an
  answer comes after the user stopped waiting, or after a first answer.
* **Age.** Whatever is older than `DB_ENTRY_MAX_AGE_SECONDS` goes away, also
  while an upload for it is under way.
* **Start-up beside the thread.** The cleanup thread runs before the keys are loaded
  and before it is known which tables have a date; its passes read two flags that are
  set one after the other.
* **Two memories.** The logs of transactions are in memory, the tables are not: a
  restart loses one and keeps the other, and nothing writes to both at once.
* **Two copies.** The selection page shows options in one place and submits them
  from another; every request of a browser works on a copy of the session, and of
  requests that overlap the last to end wins.
* **Abandoned pages.** Tabs are closed, pages reloaded and forms sent twice while
  the handler of the first request still runs, and has its effect.

### What makes each part correct

* Exchange: a request that was recorded is closed only by an answer or by age; what
  was acknowledged stays until it is viewed or too old; after an acknowledgement no
  further upload is admitted; nothing reaches another request; old rows go away.
* Document selection: what is stored is what was confirmed, what was confirmed is
  what the page shows, and the parts of a choice fit each other.
* Wallet selection: a form with everything the validator asks for is accepted.
* Browser session: the document is shown under its own name, a page polls for the
  request whose link it shows, an answer is taken only to be shown, waiting ends,
  and no order of requests leaves a session the view cannot work with.
* Cleanup and startup: a pass deletes what the columns allow, whichever of the
  thread and the initialisation comes first; what can be deleted eventually is; the
  service with all this around it is still the exchange.
* ITB: what the logs say of a transaction agrees with what happened to it, the tester
  finds the log, and gets the document when the wallet was told OK.
* Form decoding: every notation the endpoint accepts for a list of documents gives
  the documents that were sent, in their order.

The hazards, each at its line and with the properties that watch it, are listed in
`PROJECT.json`.

## Modules

| Module | What it is |
|---|---|
| `RequestMailbox` | abstract specification: what the exchange promises about a request, without tables |
| `AnswerBox` | abstract specification: what a browser can tell of the exchange, where `SigningExchange` and `BrowserSession` meet |
| `SigningExchange` | the exchange: the two tables, the handlers as sequences of transactions, failures, restarts, the cleanup and the clock |
| `MCSigningExchange` | symmetry for its runs |
| `SigningExchangeProofs` | theorems about `SigningExchange`: types, closed requests, action properties |
| `MailboxProofs` | that it implements `RequestMailbox`, and `AnswerBox` |
| `DurabilityProofs` | what was acknowledged stays, and what a page shows |
| `KeyMaterial` | operators: settings, their validation and the keys that are loaded from them |
| `RelyingParty` | the process: `create_app`, the cleanup thread and, around them, the handlers of `SigningExchange` |
| `MCRelyingParty` | the setups its run launches the service with |
| `RelyingPartyProofs` | theorems about `RelyingParty` |
| `UploadForms` | operators: how the upload endpoints find documents in a body |
| `ItbTransactions` | the endpoints of an interoperability tester and the logs, with the exchange |
| `MCItbTransactions` | the bodies its run posts |
| `ItbTransactionsProofs` | theorems about `ItbTransactions` |
| `UploadFormsProofs` | that every notation is decoded as it was sent, for lists of any length |
| `DocumentSelectPage` | the document selection page and the handler it submits to |
| `DocumentSelectPageProofs` | theorems about `DocumentSelectPage` |
| `WalletSelectPage` | the wallet selection form and its validation |
| `BrowserSession` | one browser with its tabs and its session, from the login to the signed document |
| `MCBrowserSession` | symmetry for its runs |
| `BrowserSessionProofs` | theorems about `BrowserSession`, however requests overlap, and when they come one after the other |

`RelyingParty` and `ItbTransactions` extend `SigningExchange`: their steps are its
steps, or steps of their own variables. `BrowserSession` sees the exchange through
`AnswerBox`: its steps that concern the exchange are actions of that module, and
`SigningExchange` is proved to implement it.

### SigningExchange

State. `sd[n]` is the creation time of the row of request `n` (NULL: no row);
`sdo` is the set of its rows, with the `AUTO_INCREMENT` id. Each upload `u` has a
program counter `upState[u]`, each view `v` a `vwState[v]`; their final values are
the answers of the handler (200, the two kinds of 400, 500, none). `issued`, `linked`
and `upStored` are history: when a request was made, whether it was put in the link,
which date the first row of an upload has.

| Action | Code |
|---|---|
| `IssueRequest`, `IssueFails` | `create_document_signing_request` down to `add_to_request_object_to_table` |
| `BeginUpload` | `_process_signed_data_objects` up to and with `exists_request_object_with_request_id` |
| `StoreDocuments`, `StoreFailureReport`, `StoreFails` | `add_to_signed_data_object_table` and what follows it |
| `CloseRequest`, `CloseFails` | `remove_request_object_with_request_id` and the answer |
| `BeginView` | `view_signed_document` up to and with its query |
| `FinishView`, `ViewFails` | `remove_signed_data_object_with_request_id` and the answer |
| `DeleteExpired` | `delete_expired_entries` |
| `Restart`, `Tick` | the process is started again; the clock of the database |

`DbFaults` chooses which failures of a transaction are possible. The handlers that
only read (fetching the request object, the two polling endpoints) change no table
and are state predicates (`Ready`). Rows are abstracted to who sent them: no code
reads a document or the error text.

Every `INSERT` takes `UTC_TIMESTAMP()` of its own statement, so the rows of one upload
need not be of one second. `Datings` chooses their dates: not descending, of this tick
or the one before, and never before the lookup of the request (`upBegan`). The cleanup
may therefore take the first document of an upload and leave the others, which
`PageShowsAnAnswer` allows for, once the first has expired.

`DeleteExpired` deletes from any of the tables in `TimedTables`. That is what a pass can
do as the exchange sees it; which tables a pass really takes is in `RelyingParty`.

### RequestMailbox and the refinement

A request is a mailbox that is open, sealed (sent in the link), or closed. An upload
admitted to an open mailbox holds a ticket for one deposit; only an answered or
lapsed mailbox closes; only a collecting view or the lapse empties it.

| Mailbox | Tables and handlers |
|---|---|
| `status` | `StatusOf`: new before it is issued, sealed if it went into the link, open while `sd` has its row, closed after |
| `lapsed` | `HasLapsed`: issued longer ago than the age |
| `answered` | `IsAnswered`: some upload has put documents into `sdo` for it |
| `ticket` | `TicketOf`: the request of an upload between its lookup and its insert |
| `box` | `BoxOf`: what the rows of `sdo` hold for it |

`ImplementsMailbox` is the specification of the mailbox under this mapping.

### AnswerBox and the second refinement

A browser knows less of the exchange than a wallet does, and something else: which
document a request is about. `AnswerBox` has just that. `request[n]` is what request
`n` asks for and how it is sent; `box[n]` the answers to it that are stored, the signed
document or the report of a failure. A request is created once (`Create`), only one that
was recorded is answered (`Answer`), and answers may be discarded at any time
(`Discard`).

| AnswerBox | Tables and handlers |
|---|---|
| `request` | `RequestOf`: NULL before `n` is issued, then its document and whether it went into the link |
| `box` | `AnswersTo`: what the rows of `sdo` hold for it, a document or none |

The tables do not say which document a request is about, so a request stands for its
document: what is answered is the signature of the document that was asked for, which
is up to the wallet. `ImplementsAnswerBox` is the specification of `AnswerBox` under this
mapping.

### KeyMaterial and RelyingParty

State. `columns` is the schema: the tables of this database that have `created_at`.
`phase` is where `create_app` is, `setup` the settings it was launched with, `material`
the keys that were loaded, `flags` the two booleans of `db.py`, `thread` what the
cleanup thread is doing; all but `columns` are memory and lost when the process ends.
A setup says which algorithm is set and where each path leads: nothing set, nothing
there, a file no loader reads, or a file with some of a private key, which is of a kind,
a certificate, and the certificate of a CA. `LoadKeyMaterial` is what the loaders make
of it. `CanSign` is whether a request that has to be signed can be: there is a
certificate, and the key is of the kind `jwt.encode` wants for `JWT_ALGORITHM`
(`TakesKey`). Start-up does not ask it; `CreateRequest` does, for every request that is
delivered by reference.

| Action | Code |
|---|---|
| `Launch` | `create_app` up to the start of the thread: logging, `validate_settings` |
| `InitJwtKeyMaterial` | `init_jwt_key_material` |
| `InitDbSchemaFlag` | `init_db_schema_flags`, one table at a time |
| `StartupFails`, `Crash` | `create_app` raises; the process ends |
| `PassBegins` | a pass of `CleanupThread.run` connects and reads the flag of `sd` |
| `PassEnds`, `PassFails` | it reads the flag of `sdo`, deletes, commits; whatever is raised is caught |
| `CreateRequest` | `IssueRequest`, `IssueFails` of the exchange: what has to be signed needs the keys |
| `Serve`, `TimePasses` | the handlers, once `create_app` has returned; the clock |

A pass that spares a table raises `UnboundLocalError` after its commit, when it returns
the numbers of rows it deleted. Its effect is done by then and the exception is caught,
so this is part of `PassEnds`. A `DELETE` by `created_at` from a table without that
column is an error of the database, and nothing of the pass is committed
(`PassDeletes`).

### UploadForms and ItbTransactions

`UploadForms` has the decoders of the endpoints as operators (`ListValues`, `FromForm`,
`FromJson`) and, to compare them with, the six notations a wallet may choose
(`Entries`). A text is the sequence of what its commas separate, base64 or not; which
characters it has is left out.

State of `ItbTransactions`. `logs[n]` is the entry of transaction `n` in `_logs` (NULL:
none): whether it is marked successful, and which messages it has. `setUp[n]` and
`poll[n]` are how far the handlers of the tester are, `posted[u]` the body of an upload
under way.

| Action | Code |
|---|---|
| `SetUpInserts`, `SetUpLogs`, `SetUpReplies`, `SetUpFails` | `get_document_for_signature` |
| `PollReads`, `PollLogs`, `PollMarks`, `PollInVain` | `get_signed_document` |
| `Retrieve` | `retrieve_request_object` |
| `RefuseUpload`, `PostUpload` | the two upload endpoints up to the lookup |
| `UploadReports`, `UploadStores`, `UploadCloses`, `UploadFails` | the rest of `_process_signed_data_objects`, with what it logs |
| `ItbRestart`, `Elsewhere` | the logs and the handlers go with the process; the cleanup and the clock |

The endpoints of the wallet and the poll look at the form of an id only: a log can begin
for an id that is no transaction's, and `Retrieve`, `RefuseUpload` and `PollInVain` are
possible for any. `Fresh` says that `_get_nonce` draws no id that somebody asked for
before. A restart takes the logs away and leaves a tester the document it has: `poll[n]`
may be "done" with no log of `n`, or one begun anew.

`get_logs` only reads; what it reads is in the properties. Messages are a set: nothing
reads their order or number.

### DocumentSelectPage

State. `documentStates` is the script's map, `checked`, `disabled`, `visible`,
`locked` and `submitShown` are the parts of the DOM its handlers read or write.
An action is one event handler. `selectDocument`, which most handlers end in, is the
operator `SelectDocument`; the order of its calls matters, because
`lockOptionsPanel` overwrites what `onChangeContainer` disabled. A radio button whose
label is hidden cannot be chosen (the style sheet of Bootstrap the pages load hides
`[hidden]` whatever other rules say). The service's handler and the answer are one
action, `Answered`; `SubmitFails` is a request or an answer that got lost, or a 500.

### WalletSelectPage

State. `form` has the four choices and the set of groups whose inputs are disabled.
The two `onchange` handlers and the two conditional choices are the actions. Whether
the service takes the form is a predicate: `Accepted` is what pydantic demands of the
fields, `Required` what `check_conditional_requirements` does.

### BrowserSession

State. `session` is what the server has stored for the browser: whether a user is
logged in, the document of the options, the nonce. `handler[h]` is a request being
handled, with the copy of the session it took. `tab[t]` is the page in a tab, and
`awaits[t]` the handler whose reply the tab waits for: leaving a page drops the reply,
but not what its handler does. `request` and `box` are the exchange as `AnswerBox`
has it.

A handler is two steps, its arrival, which takes the copy, and its reply, which does
everything else; between them anything may happen. So the order in which sessions
are loaded and saved is free, and so is the order of the effects.

| Action | Code |
|---|---|
| `LogIn`, `LogOut`, `OpenSelect`, `SubmitOptions`, `SubmitWalletForm`, `FollowTesterLink`, `OpenView` | the forms, links and scripts of the pages |
| `ClickAgain`, `Reload` | the same request sent once more |
| `Back` | an earlier page is shown again as it was, without a request |
| `Poll`, `TenMinutesPass`, `GiveUp` | `fetchAndUpdatePage` of `wallet-redirect.html` |
| `Unauthorized` | `login_required`, for every page but the login |
| `Login`, `Logout` | `endpoints/auth/routes.py` |
| `SelectDocument`, `SelectSigningOptions` | the two handlers of `/document/select` |
| `SignWithWallet`, `SignFails` | `sign_with_wallet` |
| `WaitForSignedDocument` | the polling endpoint |
| `ViewSignedDocument`, `ViewFails`, `ViewTakesAndFails` | `view_signed_document`; the last one deletes the rows and is answered 500 |
| `LoseSession` | the session expires, or its file is evicted |
| `Answer`, `Discard` | the exchange, from `AnswerBox`: an upload is committed; the cleanup runs, or somebody else views |

`Send`, `Reply`, `Save`, `Keep` and `LoseSession` stand for the browser and for the
libraries (Flask-Session, Flask-Login), which are not in the repository. Whether
Flask-Session saves a copy nothing was assigned to depends on its version:
`SavesUnmodified` leaves it open, and all runs allow it. `Navigation` says what the
user does besides following the pages: leave a page that is still loading (`abort`),
reload (`reload`), type the address of the view (`address`). `DbFaults` lets a
transaction fail without an effect, or after its commit. A waiting page that has given
up (`timed_out`) still shows its link, and reloading it sends its form again.

A user may go back, too. Whether the browser then asks for the page again or shows it as
it was depends on the browser and on how the page came about: `base.html` (line 29) has a
meta element that says `no-store`, but no response has that header, and HTML gives such an
element no meaning. `Restored` is the set of pages it shows as they were (`Back`); the
others are asked for again, which is `OpenSelect`, `OpenView` or `Reload`. Any page in
`Restored` may come back at any time, also one this tab has not shown, and a waiting page
of any request: more than a browser does, so what holds here holds there. A waiting page
that was gone back to is marked (`restored`), `Loaded` pages are those that were not.
`AnswerBox` restrains the exchange less than the code does: an
answer may come and go at any time, also for a request that is closed.

## What is checked

Passing runs:

| Run | Shows | Bounds |
|---|---|---|
| `exchange` | `ClosedMeansAnswered`, `OkIsDurable`, `PageShowsAnAnswer`, `QuietIsFinal` and `NoAdmissionAfterOk`, under all failures and restarts | 2 requests, both deliveries, 2 uploads of up to 2 documents, 1 view, age 1, clock to 2 |
| `service` | `ImplementsExchange`, `ImplementsMailbox`, `ImplementsAnswerBox`, and `ExpiredIsPurged` under fairness, for every start-up and schema | 11 setups, 1 request, 1 upload of 1 document, 1 view, age 1, clock to 2, refused connections and lost acknowledgements |
| `itb` | `LogsAreTrue`, `TesterSeesLogs`, `DecodedAsSent`, and `OkReachesTester` under fairness | 1 transaction, 1 upload in 6 notations with up to 3 documents, age 1, clock to 2, refused connections and lost acknowledgements |
| `document_select` | `PackagingFits`, `ConfirmedIsShown`, `StoredIsConfirmed`, `ConfirmedIsFrozen` | 2 documents, one refused, all containers, formats, packagings, 2 levels |
| `session_in_turn` | `SignedUnderOwnName`, `PollsShownRequest`, and `WaitingEnds` under fairness | 1 tab, requests one after the other, 2 documents, 2 requests, everything in `Navigation`, wallet and waiting pages restored |
| `session_overlap` | `NonceHasOptions`, `TakenIsShown` | 2 tabs, 2 requests handled at once, everything in `Navigation`, selection pages restored, 1 document, 1 signing request |

Why the bounds are enough. The properties of the exchange relate one upload, one
view and one request, or two uploads of one request, so two uploads and one view on
one request meet in every way; the second request is there to catch a missing `WHERE`.
Two documents make the order of rows matter. Age 1 with a clock to 2 lets something
expire while a handler is between two transactions, and lets a fresh and an expired
row coexist. Two levels are enough to tell a forgotten level from a kept one. In `service` one
request is enough, because what is new there, the flags, the phases and the passes,
knows no requests; two uploads that race for one request are in `exchange`. The setups
are two that work, three that start and cannot sign (an RSA key under ES256, an empty
certificate file, a bundle without a key), three whose keys do not load and one refused
for each reason. In `itb` logs are separate for each transaction, and two documents and a
signature are the shortest body in which order, a comma and the boundary between the
two lists can all go wrong; the clock goes one step beyond the age, so a poll can meet
the cleanup. A rolled back transaction is left out of these two runs: it differs from
a refused connection only in what the wallet is told, which `exchange` checks. Of the
session, an overlap is between two handlers, and what a third could bring back one of
the two has brought back before, and nothing `session_overlap` checks compares two
documents; the theorems below do not depend on this. In one tab
a stale page is a page of the request before, so two documents and two requests show it;
that more of them change nothing is proved.

Deadlock is not checked for the exchange: uploads and views are finite sets and the
clock is bounded, so the instance stops when they are used up. It is checked for the
pages and the browser, which can always go on.

Fairness. `create_app` is assumed to run to its end, or to raise (weak fairness of
`InitJwtKeyMaterial`, `InitDbSchemaFlag`, `StartupFails`). `CleanupThread.run` calls
`delete_expired_entries` for ever, catches every exception and waits 300 seconds: a
pass begins (weak fairness), and not every one of them meets a database that fails
(strong fairness of `PassEnds`). Nobody is bound to launch the service again, so what
is promised ends when the process does. A tester is assumed to poll until it has its
document, and not to meet a restart in every single poll (strong fairness of the three
steps of a poll that succeeds). Of the browser it is assumed that a request that
arrived is replied to (every handler runs to its end or to an exception, which is a
500), that the script of an open page runs, and that ten minutes pass. Nothing is
assumed about users and wallets, nor about the steps of an upload or a view.

`SignedUnderOwnName` and `PollsShownRequest` are properties of one tab whose requests
do not overlap. The code keeps options and nonce under two keys of one session, and only
`select_document` clears the nonce:

* `SignedUnderOwnName` is checked and proved where the selection page is asked for again
  (it is not in `Restored`). Where it is restored, one tab is enough to break it: sign
  the first document, go back, submit the second, and open the view: the answer to the
  first request is offered under the name of the second document.
* `PollsShownRequest` is about the waiting pages that were made and not gone back to
  (`Loaded`); of these it is proved in every browser. One that was gone back to shows the link of
  its request, and its script polls for the request of the session.

A second tab, or a form sent twice, breaks both, with nothing restored. The repository
says nothing of what a page shows in any of these cases (the meta element of `base.html`
asks that pages are not stored, which would spare it the first two), so no run states
them. What remains true in every browser and however requests overlap is checked by
`session_overlap`, and proved.

Runs that end in a counterexample; each shows that the program does not do what it
says of itself:

| Run | Statement | What happens |
|---|---|---|
| `exchange_ready` | `ReadyMeansSigned` | an upload without documents stores a row without a document, and polling answers "ready" |
| `exchange_told_failed` | `FailedMeansNotStored` | the delete fails after the insert was committed, the wallet is told its documents could not be uploaded |
| `exchange_no_record` | `NoRecordMeansOver` | a request sent in the link is never recorded, its answer is refused, even if no age is set (`MaxAge` is NULL) |
| `document_asic` | `AsicIsDetached` | clicking the document in the list enables PAdES and JAdES again |
| `document_redirect` | `RedirectMeansStored` | an error of the handler has status 200, the page moves on with nothing stored |
| `wallet_toggle` | `CompleteIsAccepted` | a group that was shown and hidden again is missing from the form, which is refused |

Every property of a passing run comes with a mutant, a definition next to the one it
replaces (comment "Mutant of"): a plausible mistake, like a forgotten `WHERE` or a
missing commit, under which TLC finds the property violated.

## What is proved

`SigningExchangeProofs`, for every set of requests, uploads and views, every number
of documents, every age, every choice of faults and deliveries, and every bound of
the clock, from the assumption `ExchangeAssumption` on the constants (NULL is none
of the values it stands beside, and the numbers are natural numbers; the age may be NULL,
an unset `DB_ENTRY_MAX_AGE_SECONDS`, with which nothing expires):

* `TypeCorrect`: `Spec => []TypeOK`;
* `ClosedIsAnswered`: `Spec => []ClosedMeansAnswered`;
* `OkIsTheLastAnswer`: `Spec => NoAdmissionAfterOk`;
* `QuietStaysQuiet`: `Spec => QuietIsFinal`.

Neither of the first two is inductive. The types need that an admitted upload has a
request id (`UploadsAreAddressed`), or the rows it adds would have none. That a
closed request is answered needs two facts more: an upload past its insert has put
documents into the table (`StoredMeansAnswer`), for the step that deletes the row of
`sd`; and the row of a request carries the time the request was issued
(`RowsAreDated`), for the cleanup, which looks at the age of the row. `IInv` is their
conjunction. `StepKinds` and `RequestStepKinds` say what a step can do to the uploads
and to the requests, so that each proof has a case per kind of step and not per
action. `OkIsTheLastAnswer` adds `OkMeansClosed`, on top of `IInv`.

`BrowserSessionProofs`, for every set of tabs, handlers, documents and requests and
every choice of `Navigation`, `Restored`, `SavesUnmodified` and `DbFaults`, from
`BrowserAssumption` (NULL is none of the values it stands beside, the records of calls
and requests among them, and the sets of choices are within those the module names):

* `TypeCorrect`: `Spec => []TypeOK`;
* `NonceAlwaysHasOptions`: `Spec => []NonceHasOptions`;
* `TakenIsAlwaysShown`: `Spec => TakenIsShown`;
* `BrowserKeepsAnswerBox`: `Spec => Answers!Spec`, the other side of
  `ExchangeIsAnswerBox` below: no handler does more to the exchange than create a fresh
  request or take answers away, whatever copy of the session it works on.

That a nonce has options is not inductive, because a reply saves a copy taken long
before: the copies of all handlers must have it too (`CallsArePaired`). A tab waits
for a handler of its own, and for a poll only on the waiting page (`AwaitedIsBusy`); a
page that is loading waits for one (`LoadingAwaits`), which the types of the pages and
the repeated click need. `SendKeepsIInv` and `ReplyKeepsIInv` carry the invariant
through a request and a reply once for all actions that end in one. `OnlyViewsTake` says
that a step that ends a handler and takes answers is a view, and `StepTakes` what the tab
that waits for it is shown: one of the answers, or an error where the acknowledgement of
their removal was lost. (A view nobody waits for any more takes them all the same.)

The second half of the module assumes `InTurn` besides, that there is one tab and
one request at a time; for every number of documents and signing requests, every
`Navigation` and sessions lost at any time:

* `SignedAlwaysUnderOwnName`: if `"select" \notin Restored`, `Spec => []SignedUnderOwnName`;
* `PollsAlwaysShownRequest`: `Spec => []PollsShownRequest`.

The code keeps options and nonce under two keys and checks neither against the other;
what ties them together is the order of the pages. `Matches` says it: the nonce of a
session is of a request for the document of its options. It survives a submission of
options because a page where options are chosen has cleared the nonce before
(`Selects`), and it has to hold of the copy a handler works on as well (`CopiesFit`),
which is the session or a session that was lost meanwhile (`CopiesAreCurrent`). The
reply to the one request is awaited, or the user has gone back to a page that was
restored (`RepliesAreAwaited`), so a nonce is stored with the waiting page it was made
for, or with no waiting page there. `BoxIsOwn` carries this on to the answers. The parts of the
invariant name what they depend on: `Matches` and `Selects` fail with a restored
selection page, whose session still has a nonce, and `Polls` is about `Loaded` pages
only. They also show where two tabs break it: in the second tab `Selects` is
about a session the first tab goes on to change.

`DocumentSelectPageProofs`, for every set of documents, refused ones among them, and
every set of levels with the default in it, from `PageAssumption`:

* `TypeCorrect`, `PackagingAlwaysFits`, `ConfirmedIsAlwaysShown`,
  `StoredIsAlwaysConfirmed`: `Spec => []P` for the invariants of the run;
* `ConfirmedIsAlwaysFrozen`: `Spec => ConfirmedIsFrozen`.

The page has its options twice, in `documentStates` and in the DOM, and each handler
writes some of both. `PageInv` says how they go together: buttons and options agree on
container, packaging and level always, and on the format as soon as a packaging is
saved or can be chosen (`PanelShowsOptions`; after another container was chosen the
button of the format is off while the map still has it); only packagings that go with
the saved container and format are visible (`VisibleIsOffered`); the panel of a
confirmed document is disabled as a whole (`ConfirmedIsLocked`), which is why
`ConfirmedIsFrozen` holds although no handler that saves an option looks at `confirmed`. That only complete options are
confirmed (`ConfirmedIsComplete`) and only those are on their way (`SentIsConfirmed`)
carries `StoredIsConfirmed` from the page to the session.

`MailboxProofs`, from the same assumption as `SigningExchangeProofs`:

* `ExchangeIsMailbox`: `Spec => ImplementsMailbox`;
* `ExchangeIsAnswerBox`: `Spec => ImplementsAnswerBox`.

The initial states map to the initial state; then there is a lemma per kind of step,
which says what the step is of the mailbox. The hard kind is the cleanup: it deletes
rows by their own age, the mailbox gives up a request when the request has lapsed. That
the one implies the other is `HistoryInv`: a request was issued before any upload for
it looked it up, and that before its rows were dated. For `AnswerBox` there are three
kinds: a creation, an insert, which is an answer because an admitted upload is for a
request that was recorded (`AdmittedIsRecorded`), and everything else, which can only
take rows away (`RowStepKinds`).

`DurabilityProofs`, from the same:

* `OkIsAlwaysDurable`: `Spec => []OkIsDurable`;
* `PageAlwaysShowsAnAnswer`: `Spec => []PageShowsAnAnswer`.

For the first, `StoredIsDurable` says of an upload from its commit on what
`OkIsDurable` says of it from its answer on, and it needs that no row of an upload is
older than its first (`RowsAreNotOlder`) and that an upload stores once
(`AdmittedStoredNothing`). For the second, every row of `sdo` comes with the first row
of its upload, under a smaller id and for the same request, unless that one has expired
(`RowsHaveBeginnings`), and so does every row a view has read (`SeenHasBeginnings`): what
is shown is the row with the least id, which exists because ids are natural numbers.

`RelyingPartyProofs`, for every schema, all setups, and everything the exchange leaves
open, from `SetupAssumption` (NULL is no setup and no key material):

* `MemoryFitsPhase`: `ServiceSpec => []ServiceTypeOK`;
* `ServiceIsExchange`: `ServiceSpec => ImplementsExchange`;
* `ServiceClosesAnswered`, `ServiceIsMailbox`, `ServiceIsAnswerBox`, `ServiceIsDurable`:
  what the exchange has been proved to do the service does.

The types need that only validated settings get as far as the keys
(`KeysAreValidated`). That a pass is a `DeleteExpired` of the exchange needs
`DeletesAreFlagged`: the flag a pass read at its beginning, before it was interleaved
with everything else, still stands at its end.

`ItbTransactionsProofs`, from `ItbAssumption` (transactions of testers are delivered by
reference; NULL is no log and no body):

* `LogsAreTyped`, `LogsAreAlwaysTrue`, `TesterAlwaysSeesLogs`: `ItbSpec => []P` for the
  invariants of the run;
* `ItbIsExchange`: `ItbSpec => Spec`, and what follows from it, `ItbIsMailbox`.

`ItbInv` adds to them that every row is of an upload that stored it
(`RowsAreUploaded`), that uploads, set-ups and polls are of requests that exist
(`WorksOnRequests`; logs need not be), that the handler that sets a transaction up finds
in the log what it has written, and that a poll under way has read rows of its
transaction (`LogsKeepUp`): logs only grow but in a restart, and a restart ends the
handlers too. That a request object once reported missing stays missing rests on
`LoggedStaysAbsent`: an id that has a log is never drawn for a new request.

`UploadFormsProofs`, from the same assumption and `BodiesAssumption` (bodies are lists of
non-empty texts in one of the notations, and NULL is none of them):

* `AlwaysDecodedAsSent`: `ItbSpec => []DecodedAsSent`.

The run posts bodies with up to three texts, the theorem is about lists of any length.
`At`, which picks the entries of a name out of a form, is defined by counting, so what it
returns follows from the cardinality of an interval (`AtInterval`). `FlattenSeq` is a
recursive function, and is only needed of lists with one member (`FlattenOne`), and of
lists whose members have length one: the least index at which such a concatenation were
wrong is none (`FlattenSingles`). With these there is a lemma per notation, up to
`ListIsFound`: what a form carries under a name is found under it, whatever stands before
and after (`Carried`).

Only model-checked: the liveness properties `ExpiredIsPurged`, `OkReachesTester` and
`WaitingEnds`. They rest on fairness, which is about ENABLED, and that is out of reach of
the prover. All other properties of the passing runs are theorems. The runs that end in a
counterexample state what the code does not do, so there is nothing to prove.

## What was met on the way

Behaviour a reader of the code may not expect, and that no statement in the repository
denies:

* Start-up loads the keys and does not try them. With an empty certificate file (which
  counts as no certificate, `NoCertificate`), with a bundle that lacks the key or the
  certificate, or with a key of another kind than `JWT_ALGORITHM` wants, an RSA key under
  the default ES256 for one, the service comes up, creates requests that go into the
  link, and fails to create every other (`CanSign`, `CreateRequest`).
* A tester that has its document may find no log of the transaction, or one that does not
  say successful: the logs are lost in a restart, and `mark_successful` passes over a
  transaction without a log.
* A browser that shows an earlier selection or waiting page again as it was pairs it with
  a session that has moved on, as two tabs do; see "What is checked".
* A view whose delete is committed and not acknowledged is answered 500, and the signed
  document is gone (`ViewTakesAndFails`); so it is when the user leaves the page before
  the view is done.
* With no `DB_ENTRY_MAX_AGE_SECONDS` nothing ever expires, and no pass reports it. The
  sample settings have it empty, which is a text and not unset: what the server makes of
  `INTERVAL '' SECOND`, an age of 0 or a statement that fails, the model has both.
* A list of documents sent as `name[]` keeps only its first: `form.items()` has one
  value per key (`Carries`).
* A text with a comma has to be base64 or be sent in a JSON list or under an index;
  otherwise it is split (`Carries`).
* `get_logs` returns None for a transaction without a log, which every transaction is
  after a restart until something is logged for it.
* The report of a failed signing makes a transaction successful once it is polled: what
  `LogsAreTrue` can say of a successful transaction is only that something was stored.

## What is not modelled

* The contents of request objects. The two builders fill a JSON object from their
  arguments; they keep no state, and what the wallet makes of a request is not in this
  repository. Whether a request can be signed is modelled.
* The list of users, the index pages, the settings that are handed to libraries, log
  files: nothing in them changes after start-up. That a user is logged in is part of
  the session.
* PEM, DER, PKCS#12 and passwords: a file has some of the parts, or cannot be read.
* The texts of documents and errors, and the limits of the columns (`varchar(255)`,
  `text`, `mediumtext`): exceeding one is a failed statement, which `DbFaults` has.
* Session identifiers: a browser whose session was lost goes on with an empty one.
* `get_logs` and the other handlers that only read are state predicates. The memory that
  logs take is not bounded by the code and not counted by the model.

## Plan

1. `WalletSelectPage`: what does hold of the form, with its proof: a form is accepted
   until a group is hidden, and a required group is never disabled.
2. The limits of the columns of `sdo` as a failure of its own, with the report of a
   failure that is too long to be stored.
