--------------------------- MODULE BrowserSession ---------------------------
(***************************************************************************)
(* One browser, its tabs and its session, from the login to the page with  *)
(* the signed document.                                                    *)
(*                                                                         *)
(* The server keeps one session per browser.  Every request loads a copy   *)
(* of it, works on the copy, and at its end saves the copy as a whole if   *)
(* something was assigned: of requests that overlap the last to end wins.  *)
(* A handler is two steps here: its arrival, which takes the copy, and its *)
(* reply, which does everything else.                                      *)
(*                                                                         *)
(* Of the exchange with the wallet a browser sees what AnswerBox says of   *)
(* it, which SigningExchange implements: answers may be stored, and thrown *)
(* away, at any time.                                                      *)
(***************************************************************************)
EXTENDS Naturals, FiniteSets

CONSTANTS
  Doc,             \* the sample documents
  Tab,             \* tabs of the browser
  Handler,         \* bound: requests the server may be handling at once
  Nonce,           \* bound: signing requests
  Navigation,      \* what the user does besides following the pages
  Restored,        \* pages shown again as they were when the user goes back to them
  SavesUnmodified, \* may Flask-Session save a copy nothing was assigned to
  DbFaults,        \* how a transaction may fail: with no effect, or after its commit
  NULL

VARIABLES
  session,  \* what the server has stored for this browser
  handler,  \* handler[h]: the request being handled, with its copy
  tab,      \* tab[t]: the page in the tab
  awaits,   \* awaits[t]: the handler whose reply the tab waits for
  request,  \* request[n]: what request n asks to be signed, and how it is sent
  box       \* box[n]: the answers to n that are stored

browser  == <<session, handler, tab, awaits>>
exchange == <<request, box>>
vars     == <<browser, exchange>>

Answers == INSTANCE AnswerBox

Delivery == Answers!Delivery
Session == [user : BOOLEAN, options : Doc \cup {NULL}, nonce : Nonce \cup {NULL}]
EmptySession == [user |-> FALSE, options |-> NULL, nonce |-> NULL]

Kind == {"login", "logout", "select", "options", "sign", "poll", "view"}
Arg  == Doc \cup Delivery \cup {"invalid", NULL}
Call == [tab : Tab, sess : Session, kind : Kind, arg : Arg]
Request == Answers!Request

ASSUME BrowserAssumption ==
  /\ Navigation \subseteq {"abort", "reload", "address"}
  /\ Restored \subseteq {"select", "wallet", "waiting"}
  /\ SavesUnmodified \in BOOLEAN
  /\ DbFaults \subseteq {"rollback", "lost_ack"}
  /\ NULL \notin Doc \cup Nonce \cup Handler \cup Call \cup Request

\* Pages without a state of their own; "ready" is the waiting page that was
\* told so, "loading" a page on its way out.  A waiting page that has given up
\* is "timed_out", with its link still there.
At(p) == [page |-> p]
WaitingPage(n, d) ==
  [page |-> "waiting", nonce |-> n, delivery |-> d, late |-> FALSE, restored |-> FALSE]
SignedPage(name, content) == [page |-> "signed", name |-> name, content |-> content]

Page == {At(p) : p \in {"login", "account", "select", "wallet", "ready", "nothing",
                        "error", "loading"}}
          \cup [page : {"waiting", "timed_out"},
                nonce : Nonce, delivery : Delivery, late : BOOLEAN, restored : BOOLEAN]
          \cup [page : {"signed"}, name : Doc, content : Doc \cup {NULL}]

Init ==
  /\ session = EmptySession
  /\ handler = [h \in Handler |-> NULL]
  /\ tab = [t \in Tab |-> At("login")]
  /\ awaits = [t \in Tab |-> NULL]
  /\ request = [n \in Nonce |-> NULL]
  /\ box = [n \in Nonce |-> {}]

-----------------------------------------------------------------------------
(* The browser.                                                            *)

\* Tab t sends a request, which is handled from now on, and goes to page p.
Send(t, kind, arg, p) ==
  LET free == {h \in Handler : handler[h] = NULL}
      h    == CHOOSE x \in free : TRUE
  IN /\ free # {}
     /\ handler' = [handler EXCEPT ![h] =
                      [tab |-> t, kind |-> kind, arg |-> arg, sess |-> session]]
     /\ awaits' = [awaits EXCEPT ![t] = h]
     /\ tab' = [tab EXCEPT ![t] = p]
     /\ UNCHANGED <<session, exchange>>

\* Leaving a page drops the reply it waits for; a user who aborts leaves
\* a page that is still loading, too.
MayLeave(t) == tab[t].page # "loading" \/ "abort" \in Navigation

LogIn(t) ==
  /\ tab[t].page = "login"
  /\ Send(t, "login", NULL, At("loading"))

LogOut(t) ==
  /\ tab[t].page = "account"
  /\ Send(t, "logout", NULL, At("loading"))

OpenSelect(t) ==
  /\ MayLeave(t)
  /\ Send(t, "select", NULL, At("loading"))

\* The button is disabled while a submission is under way.
SubmitOptions(t, d) ==
  /\ tab[t].page = "select"
  /\ awaits[t] = NULL
  /\ Send(t, "options", d, tab[t])

\* Every request being created will need a fresh nonce: stay within Nonce.
NonceLeft ==
  Cardinality({h \in Handler : handler[h] # NULL /\ handler[h].kind = "sign"})
    < Cardinality({n \in Nonce : request[n] = NULL})

\* What WalletSelectPage leaves of the form: how the request object will be
\* delivered, or a form the service refuses.
SubmitWalletForm(t) ==
  /\ tab[t].page = "wallet"
  /\ NonceLeft
  /\ \E arg \in Delivery \cup {"invalid"} : Send(t, "sign", arg, At("loading"))

FollowTesterLink(t) ==
  /\ tab[t].page = "wallet"
  /\ NonceLeft
  /\ Send(t, "sign", "request_uri", At("loading"))

\* fetchAndUpdatePage: fetch until told to be ready, or until 10 minutes are
\* over.  The deadline is looked at between two fetches only.
Poll(t) ==
  /\ tab[t].page = "waiting"
  /\ awaits[t] = NULL
  /\ ~tab[t].late
  /\ Send(t, "poll", NULL, tab[t])

TenMinutesPass(t) ==
  /\ tab[t].page = "waiting"
  /\ ~tab[t].late
  /\ tab' = [tab EXCEPT ![t].late = TRUE]
  /\ UNCHANGED <<session, handler, awaits, exchange>>

GiveUp(t) ==
  /\ tab[t].page = "waiting"
  /\ awaits[t] = NULL
  /\ tab[t].late
  /\ tab' = [tab EXCEPT ![t].page = "timed_out"]
  /\ UNCHANGED <<session, handler, awaits, exchange>>

OpenView(t) ==
  /\ \/ tab[t].page = "ready"
     \/ "address" \in Navigation /\ MayLeave(t)
  /\ Send(t, "view", NULL, At("loading"))

\* A click that is repeated, a page that is reloaded: the request is sent again.
ClickAgain(t) ==
  /\ "abort" \in Navigation
  /\ tab[t].page = "loading"
  /\ LET call == handler[awaits[t]] IN
       /\ call.kind = "sign" => NonceLeft
       /\ Send(t, call.kind, call.arg, At("loading"))

Reload(t) ==
  /\ "reload" \in Navigation
  /\ \/ /\ tab[t].page \in {"waiting", "timed_out"}
        /\ NonceLeft
        /\ Send(t, "sign", tab[t].delivery, At("loading"))
     \/ /\ tab[t].page \in {"signed", "nothing"}
        /\ Send(t, "view", NULL, At("loading"))

\* Of the pages the user goes back to the browser may show some as they were, although
\* base.html asks in a meta element that pages are not stored; no response has such a
\* header.  No handler runs, and the script of a waiting page goes on or starts anew.  (Any page
\* in Restored may come back, whether or not the tab has shown it, but for the waiting
\* page it shows.)  All other pages are asked for again, see OpenSelect, OpenView and
\* Reload.
Waiting(t, n) == tab[t].page = "waiting" /\ tab[t].nonce = n

Restorable(t) ==
  {At(p) : p \in Restored \ {"waiting"}}
    \cup {[WaitingPage(n, request[n].delivery) EXCEPT !.restored = TRUE] :
            n \in {m \in Nonce : /\ "waiting" \in Restored
                                /\ request[m] # NULL /\ ~Waiting(t, m)}}

Back(t) ==
  /\ MayLeave(t)
  /\ \E p \in Restorable(t) : tab' = [tab EXCEPT ![t] = p]
  /\ awaits' = [awaits EXCEPT ![t] = NULL]
  /\ UNCHANGED <<session, handler, exchange>>

-----------------------------------------------------------------------------
(* The replies of the server.                                              *)

\* Handler h replies with page p, which is shown if the tab still waits for it.
Reply(h, p) ==
  LET t == handler[h].tab IN
  /\ handler' = [handler EXCEPT ![h] = NULL]
  /\ IF awaits[t] = h
     THEN tab' = [tab EXCEPT ![t] = p] /\ awaits' = [awaits EXCEPT ![t] = NULL]
     ELSE UNCHANGED <<tab, awaits>>

\* save_session of Flask-Session: the whole copy, or nothing.
Save(sess) == session' = sess
Keep(h) ==
  \/ UNCHANGED session
  \/ SavesUnmodified /\ session' = handler[h].sess

Handles(h, kind) ==
  /\ handler[h] # NULL
  /\ handler[h].kind = kind
  /\ kind # "login" => handler[h].sess.user

\* login_required: a redirect to the login page, with a message flashed into
\* the session.  A fetch follows the redirect and is answered 200: the waiting
\* page takes that for "ready", the selection page for success.
Unauthorized(h) ==
  /\ handler[h] # NULL
  /\ handler[h].kind # "login"
  /\ ~handler[h].sess.user
  /\ Save(handler[h].sess)
  /\ Reply(h, IF handler[h].kind = "poll" THEN At("ready") ELSE At("login"))
  /\ UNCHANGED exchange

Login(h) ==
  /\ Handles(h, "login")
  /\ Save([handler[h].sess EXCEPT !.user = TRUE])
  /\ Reply(h, At("account"))
  /\ UNCHANGED exchange

\* logout_user leaves the options and the nonce where they are.
Logout(h) ==
  /\ Handles(h, "logout")
  /\ Save([handler[h].sess EXCEPT !.user = FALSE])
  /\ Reply(h, At("login"))
  /\ UNCHANGED exchange

\* Mutant of ClearSession: the nonce of the last request stays.
ClearOptions(sess) == [sess EXCEPT !.options = NULL]

ClearSession(sess) == [sess EXCEPT !.options = NULL, !.nonce = NULL]

\* The session is cleared even when the folder of the documents cannot be read.
SelectDocument(h) ==
  LET sess == handler[h].sess IN
  /\ Handles(h, "select")
  /\ IF ClearSession(sess) = sess THEN Keep(h) ELSE Save(ClearSession(sess))
  /\ Reply(h, At("select")) \/ Reply(h, At("error"))
  /\ UNCHANGED exchange

\* Refused options are answered with status 200, too: the page moves on.
SelectSigningOptions(h) ==
  /\ Handles(h, "options")
  /\ \/ Save([handler[h].sess EXCEPT !.options = handler[h].arg])
     \/ Keep(h)
  /\ Reply(h, At("wallet"))
  /\ UNCHANGED exchange

\* Mutants of StoreNonce: the nonce is not stored; it is stored under the wrong key.
ForgetNonce(sess, n) == sess
StoreAsOptions(sess, n) == [sess EXCEPT !.options = n]

StoreNonce(sess, n) == [sess EXCEPT !.nonce = n]

SignWithWallet(h) ==
  LET sess == handler[h].sess
      arg  == handler[h].arg
  IN /\ Handles(h, "sign")
     /\ arg \in Delivery
     /\ sess.options # NULL
     /\ \E n \in Nonce :
          /\ Answers!Create(n, [doc |-> sess.options, delivery |-> arg])
          /\ Save(StoreNonce(sess, n))
          /\ Reply(h, WaitingPage(n, arg))

\* An invalid form; no options to sign (TypeError); no database.  A request that was
\* recorded all the same is one nobody knows of, and not in the exchange.
SignFails(h) ==
  /\ Handles(h, "sign")
  /\ \/ handler[h].arg = "invalid"
     \/ handler[h].sess.options = NULL
     \/ DbFaults # {}
  /\ Keep(h)
  /\ Reply(h, At("error"))
  /\ UNCHANGED exchange

HasAnswer(n) == n # NULL /\ box[n] # {}

\* Mutant of WaitForSignedDocument: the rows are fetched and deleted.
PollAndCollect(h) ==
  LET n == handler[h].sess.nonce IN
  /\ Handles(h, "poll")
  /\ Keep(h)
  /\ IF HasAnswer(n)
     THEN Reply(h, At("ready")) /\ box' = [box EXCEPT ![n] = {}] /\ UNCHANGED request
     ELSE Reply(h, tab[handler[h].tab]) /\ UNCHANGED exchange

\* Mutant of WaitForSignedDocument: the deadline is set anew with every fetch.
PollAnew(h) ==
  LET n == handler[h].sess.nonce
      page == tab[handler[h].tab]
  IN /\ Handles(h, "poll")
     /\ Keep(h)
     /\ IF HasAnswer(n) THEN Reply(h, At("ready"))
        ELSE IF page.page = "waiting" THEN Reply(h, [page EXCEPT !.late = FALSE])
        ELSE Reply(h, page)
     /\ UNCHANGED exchange

\* 404, and 500 when the database fails: the page sleeps and tries again.
WaitForSignedDocument(h) ==
  LET n == handler[h].sess.nonce
      page == tab[handler[h].tab]
  IN /\ Handles(h, "poll")
     /\ Keep(h)
     /\ \/ HasAnswer(n) /\ Reply(h, At("ready"))
        \/ (HasAnswer(n) => DbFaults # {}) /\ Reply(h, page)
     /\ UNCHANGED exchange

ViewSignedDocument(h) ==
  LET sess == handler[h].sess IN
  /\ Handles(h, "view")
  /\ HasAnswer(sess.nonce)
  /\ sess.options # NULL
  /\ Keep(h)
  /\ \E content \in box[sess.nonce] : Reply(h, SignedPage(sess.options, content))
  /\ box' = [box EXCEPT ![sess.nonce] = {}]
  /\ UNCHANGED request

\* No nonce or no rows: a page that says so.  No options to pair the rows with
\* (TypeError), or no database: an error.
ViewFails(h) ==
  LET sess == handler[h].sess IN
  /\ Handles(h, "view")
  /\ \/ ~HasAnswer(sess.nonce) /\ Reply(h, At("nothing"))
     \/ /\ DbFaults # {} \/ (HasAnswer(sess.nonce) /\ sess.options = NULL)
        /\ Reply(h, At("error"))
  /\ Keep(h)
  /\ UNCHANGED exchange

\* The rows were paired and removed, but the acknowledgement is lost: an error.
ViewTakesAndFails(h) ==
  LET sess == handler[h].sess IN
  /\ Handles(h, "view")
  /\ "lost_ack" \in DbFaults
  /\ HasAnswer(sess.nonce)
  /\ sess.options # NULL
  /\ Keep(h)
  /\ Reply(h, At("error"))
  /\ box' = [box EXCEPT ![sess.nonce] = {}]
  /\ UNCHANGED request

\* The session expires, or its file is evicted at SESSION_FILE_THRESHOLD.
LoseSession ==
  /\ session # EmptySession
  /\ session' = EmptySession
  /\ UNCHANGED <<handler, tab, awaits, exchange>>

-----------------------------------------------------------------------------
(* The exchange *)

Answer(n) == Answers!Answer(n) /\ UNCHANGED browser

\* The cleanup, or a view from elsewhere.
Discard == Answers!Discard /\ UNCHANGED browser

User(t) ==
  \/ LogIn(t) \/ LogOut(t) \/ OpenSelect(t)
  \/ \E d \in Doc : SubmitOptions(t, d)
  \/ SubmitWalletForm(t) \/ FollowTesterLink(t)
  \/ ClickAgain(t) \/ Reload(t) \/ Back(t)

Serve(h) ==
  \/ Unauthorized(h) \/ Login(h) \/ Logout(h) \/ SelectDocument(h)
  \/ SelectSigningOptions(h) \/ SignWithWallet(h) \/ SignFails(h)
  \/ WaitForSignedDocument(h)
  \/ ViewSignedDocument(h) \/ ViewFails(h) \/ ViewTakesAndFails(h)

Next ==
  \/ \E t \in Tab :
       User(t) \/ OpenView(t) \/ Poll(t) \/ TenMinutesPass(t) \/ GiveUp(t)
  \/ \E h \in Handler : Serve(h)
  \/ LoseSession
  \/ \E n \in Nonce : Answer(n)
  \/ Discard

Spec == Init /\ [][Next]_vars

\* Requests are served, the script of the waiting page runs, and time passes.
\* Nothing is assumed of the user and of the wallet.
FairSpec ==
  /\ Spec
  /\ \A h \in Handler : WF_vars(Serve(h))
  /\ \A t \in Tab : WF_vars(Poll(t)) /\ WF_vars(TenMinutesPass(t)) /\ WF_vars(GiveUp(t))

-----------------------------------------------------------------------------
TypeOK ==
  /\ session \in Session
  /\ handler \in [Handler -> Call \cup {NULL}]
  /\ tab \in [Tab -> Page]
  /\ awaits \in [Tab -> Handler \cup {NULL}]
  /\ request \in [Nonce -> Request \cup {NULL}]
  /\ box \in [Nonce -> SUBSET (Doc \cup {NULL})]

\* The name under which the page offers a signed document, made from the
\* options in the session, is the name of the document that was signed.  A browser
\* that restores the selection page breaks this, and so do requests that overlap:
\* options are then chosen while the nonce of the last request is still there.
SignedUnderOwnName ==
  \A t \in Tab : tab[t].page = "signed" =>
    tab[t].content \in {tab[t].name, NULL}

\* A page that was made to show the link of a request polls for that request, unless
\* the session was lost, also after other waiting pages were gone back to.  (Those show
\* the link of one request and poll for another; so may any of them when requests
\* overlap: the session has the nonce of the last request.)
Loaded(page) == page.page = "waiting" /\ ~page.restored

PollsShownRequest ==
  \A t \in Tab : Loaded(tab[t]) =>
    session.nonce = tab[t].nonce \/ session.options = NULL

\* However requests overlap, there is never a nonce without options to pair its
\* rows with: view_signed_document never fails on them.
NonceHasOptions == session.nonce # NULL => session.options # NULL

\* Only a view takes answers out of the database, and only those to the request
\* its session had.  If the tab still waits for it, it shows one of them, unless the
\* acknowledgement of their removal was lost: then they are gone and nobody has seen
\* them, and the tab at least says that something went wrong.
TakenIsShown ==
  [][\A h \in Handler, n \in Nonce :
       /\ handler[h] # NULL /\ handler'[h] = NULL
       /\ box'[n] # box[n]
       => LET t == handler[h].tab
          IN /\ handler[h].kind = "view" /\ handler[h].sess.nonce = n
             /\ awaits[t] = h =>
                  \/ tab'[t].page = "signed" /\ tab'[t].content \in box[n]
                  \/ tab'[t].page = "error" /\ "lost_ack" \in DbFaults]_vars

\* No page waits for ever, whatever becomes of the session and of the request, and
\* whichever request it polls for.
WaitingEnds == \A t \in Tab, n \in Nonce : Waiting(t, n) ~> ~Waiting(t, n)
=============================================================================
