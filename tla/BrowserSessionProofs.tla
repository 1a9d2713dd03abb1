------------------------ MODULE BrowserSessionProofs ------------------------
(***************************************************************************)
(* Proofs about BrowserSession, for every number of tabs, handlers,        *)
(* documents and requests and every choice of Navigation, Restored,        *)
(* SavesUnmodified and DbFaults, unless a theorem restricts it.            *)
(***************************************************************************)
EXTENDS BrowserSession, TLAPS

-----------------------------------------------------------------------------
(* The inductive invariant *)

\* A session with a nonce has options, too; so has every copy of it, because
\* copies are saved as a whole.
Paired(sess) == sess.nonce # NULL => sess.options # NULL

CallsArePaired ==
  \A h \in Handler : handler[h] # NULL =>
    /\ Paired(handler[h].sess)
    /\ handler[h].kind = "options" => handler[h].arg \in Doc

\* A tab waits for a handler that is busy with its own request.
AwaitedIsBusy ==
  \A t \in Tab : awaits[t] # NULL =>
    /\ handler[awaits[t]] # NULL
    /\ handler[awaits[t]].tab = t
    /\ handler[awaits[t]].kind = "poll" => tab[t].page = "waiting"

LoadingAwaits == \A t \in Tab : tab[t].page = "loading" => awaits[t] # NULL

IInv ==
  /\ TypeOK
  /\ Paired(session)
  /\ CallsArePaired
  /\ AwaitedIsBusy
  /\ LoadingAwaits

LEMMA SimplePages ==
  ASSUME NEW p \in {"login", "account", "select", "wallet", "ready", "nothing",
                    "error", "loading"}
  PROVE  At(p) \in Page /\ At(p).page = p
BY DEF Page, At

LEMMA WaitingPagesAreTyped ==
  ASSUME NEW p \in Page, p.page \in {"waiting", "timed_out"}
  PROVE  /\ p.delivery \in Delivery
         /\ [p EXCEPT !.late = TRUE] \in Page
         /\ [p EXCEPT !.late = TRUE].page = p.page
         /\ [p EXCEPT !.late = TRUE].nonce = p.nonce
         /\ [p EXCEPT !.late = TRUE].restored = p.restored
         /\ [p EXCEPT !.page = "timed_out"] \in Page
         /\ [p EXCEPT !.page = "timed_out"].page = "timed_out"
<1> DEFINE Pages == [page : {"waiting", "timed_out"},
                     nonce : Nonce, delivery : Delivery, late : BOOLEAN,
                     restored : BOOLEAN]
<1>1. p \in Pages
  BY DEF Page, At
<1>2. [p EXCEPT !.late = TRUE] \in Pages /\ [p EXCEPT !.page = "timed_out"] \in Pages
  BY <1>1
<1>3. /\ p.delivery \in Delivery
      /\ [p EXCEPT !.late = TRUE].page = p.page
      /\ [p EXCEPT !.late = TRUE].nonce = p.nonce
      /\ [p EXCEPT !.late = TRUE].restored = p.restored
      /\ [p EXCEPT !.page = "timed_out"].page = "timed_out"
  BY <1>1
<1>4. Pages \subseteq Page
  BY Zenon DEF Page
<1> QED  BY <1>2, <1>3, <1>4

\* Going back shows a page of a kind the browser restores.
LEMMA RestorablePagesAreTyped ==
  ASSUME request \in [Nonce -> Request \cup {NULL}], NEW t \in Tab, NEW p \in Restorable(t)
  PROVE  /\ p \in Page /\ p.page \in Restored
         /\ p.page # "loading" /\ p.page # "signed" /\ ~Loaded(p)
<1>1. CASE \E q \in Restored \ {"waiting"} : p = At(q)
  BY <1>1, BrowserAssumption, SimplePages DEF Loaded
<1>2. CASE \E n \in {m \in Nonce : /\ "waiting" \in Restored
                                  /\ request[m] # NULL /\ ~Waiting(t, m)} :
              p = [WaitingPage(n, request[n].delivery) EXCEPT !.restored = TRUE]
  <2>1. PICK n \in Nonce :
          /\ "waiting" \in Restored /\ request[n] # NULL
          /\ p = [WaitingPage(n, request[n].delivery) EXCEPT !.restored = TRUE]
    BY <1>2
  <2>2. request[n].delivery \in Delivery
    BY <2>1 DEF Request, Answers!Request, Delivery
  <2>3. p \in [page : {"waiting", "timed_out"},
               nonce : Nonce, delivery : Delivery, late : BOOLEAN, restored : BOOLEAN]
    BY <2>1, <2>2 DEF WaitingPage
  <2>4. p \in Page
    BY <2>3, Zenon DEF Page
  <2> QED  BY <2>1, <2>2, <2>4 DEF WaitingPage, Loaded
<1> QED  BY <1>1, <1>2 DEF Restorable

LEMMA InitIInv == Init => IInv
<1> SUFFICES ASSUME Init PROVE IInv  OBVIOUS
<1>1. TypeOK
  BY SimplePages DEF Init, TypeOK, EmptySession, Session
<1> QED
  BY <1>1 DEF Init, IInv, Paired, EmptySession, CallsArePaired, AwaitedIsBusy,
              LoadingAwaits, At

\* Sending a request: the copy is paired because the session is.
LEMMA SendKeepsIInv ==
  ASSUME IInv, NEW t \in Tab, NEW kind \in Kind, NEW arg \in Arg, NEW p \in Page,
         kind = "options" => arg \in Doc,
         kind = "poll" => p.page = "waiting",
         Send(t, kind, arg, p)
  PROVE  IInv'
<1> DEFINE free == {h \in Handler : handler[h] = NULL}
           h    == CHOOSE x \in free : TRUE
           call == [tab |-> t, kind |-> kind, arg |-> arg, sess |-> session]
<1>1. /\ h \in Handler /\ handler[h] = NULL
      /\ handler' = [handler EXCEPT ![h] = call]
      /\ awaits' = [awaits EXCEPT ![t] = h]
      /\ tab' = [tab EXCEPT ![t] = p]
      /\ UNCHANGED <<session, request, box>>
  <2>1. free # {}  BY DEF Send
  <2>2. h \in free  BY <2>1
  <2> QED  BY <2>2 DEF Send, exchange
<1> HIDE DEF h
<1>2. call \in Call /\ call # NULL
  <2>1. call \in Call  BY DEF Call, IInv, TypeOK
  <2> QED  BY <2>1, BrowserAssumption
<1>3. TypeOK'
  <2>1. handler' \in [Handler -> Call \cup {NULL}]
    BY <1>1, <1>2 DEF IInv, TypeOK
  <2>2. tab' \in [Tab -> Page]
    BY <1>1 DEF IInv, TypeOK
  <2>3. awaits' \in [Tab -> Handler \cup {NULL}]
    BY <1>1 DEF IInv, TypeOK
  <2> QED  BY <1>1, <2>1, <2>2, <2>3 DEF IInv, TypeOK
<1>4. Paired(session)' /\ CallsArePaired'
  BY <1>1, <1>2 DEF IInv, TypeOK, Paired, CallsArePaired
<1>5. AwaitedIsBusy'
  <2> SUFFICES ASSUME NEW s \in Tab, awaits'[s] # NULL
               PROVE  /\ handler'[awaits'[s]] # NULL
                      /\ handler'[awaits'[s]].tab = s
                      /\ handler'[awaits'[s]].kind = "poll" => tab'[s].page = "waiting"
    BY DEF AwaitedIsBusy
  <2>1. CASE s = t
    BY <2>1, <1>1, <1>2 DEF IInv, TypeOK
  <2>2. CASE s # t
    <3>1. awaits'[s] = awaits[s] /\ tab'[s] = tab[s]
      BY <2>2, <1>1 DEF IInv, TypeOK
    <3>2. awaits[s] \in Handler /\ handler[awaits[s]] # NULL /\ awaits[s] # h
      BY <3>1, <1>1 DEF IInv, TypeOK, AwaitedIsBusy
    <3>3. handler'[awaits[s]] = handler[awaits[s]]
      BY <3>2, <1>1 DEF IInv, TypeOK
    <3> QED  BY <3>1, <3>2, <3>3 DEF IInv, AwaitedIsBusy
  <2> QED  BY <2>1, <2>2
<1>6. LoadingAwaits'
  BY <1>1, BrowserAssumption DEF IInv, TypeOK, LoadingAwaits
<1> QED  BY <1>3, <1>4, <1>5, <1>6 DEF IInv

\* Replying: what the handler saves has to be paired; the page it replies with
\* is shown only where it is awaited.
LEMMA ReplyKeepsIInv ==
  ASSUME IInv, NEW h \in Handler, handler[h] # NULL, NEW p \in Page,
         awaits[handler[h].tab] = h => p.page # "loading",
         session' \in Session, Paired(session'),
         request' \in [Nonce -> Request \cup {NULL}],
         box' \in [Nonce -> SUBSET (Doc \cup {NULL})],
         Reply(h, p)
  PROVE  IInv'
<1> DEFINE t == handler[h].tab
<1>1. t \in Tab
  BY DEF IInv, TypeOK, Call
<1>2. handler' = [handler EXCEPT ![h] = NULL]
  BY DEF Reply
<1>3. CASE awaits[t] = h
  <2>1. tab' = [tab EXCEPT ![t] = p] /\ awaits' = [awaits EXCEPT ![t] = NULL]
    BY <1>3 DEF Reply
  <2>2. TypeOK'
    BY <1>1, <1>2, <2>1 DEF IInv, TypeOK
  <2>3. CallsArePaired'
    BY <1>2 DEF IInv, TypeOK, CallsArePaired
  <2>4. AwaitedIsBusy'
    <3> SUFFICES ASSUME NEW s \in Tab, awaits'[s] # NULL
                 PROVE  /\ handler'[awaits'[s]] # NULL
                        /\ handler'[awaits'[s]].tab = s
                        /\ handler'[awaits'[s]].kind = "poll" => tab'[s].page = "waiting"
      BY DEF AwaitedIsBusy
    <3>1. s # t /\ awaits'[s] = awaits[s] /\ tab'[s] = tab[s]
      BY <1>1, <2>1 DEF IInv, TypeOK
    <3>2. awaits[s] \in Handler /\ awaits[s] # h
      BY <3>1 DEF IInv, TypeOK, AwaitedIsBusy
    <3>3. handler'[awaits[s]] = handler[awaits[s]]
      BY <1>2, <3>2 DEF IInv, TypeOK
    <3> QED  BY <3>1, <3>3 DEF IInv, AwaitedIsBusy
  <2>5. LoadingAwaits'
    BY <1>1, <1>3, <2>1 DEF IInv, TypeOK, LoadingAwaits
  <2> QED  BY <2>2, <2>3, <2>4, <2>5 DEF IInv, Paired
<1>4. CASE awaits[t] # h
  <2>1. UNCHANGED <<tab, awaits>>
    BY <1>4 DEF Reply
  <2>2. TypeOK'
    BY <1>2, <2>1 DEF IInv, TypeOK
  <2>3. CallsArePaired'
    BY <1>2 DEF IInv, TypeOK, CallsArePaired
  <2>4. AwaitedIsBusy'
    <3> SUFFICES ASSUME NEW s \in Tab, awaits[s] # NULL
                 PROVE  handler'[awaits[s]] = handler[awaits[s]]
      BY <2>1 DEF AwaitedIsBusy, IInv
    <3>1. awaits[s] \in Handler /\ awaits[s] # h
      BY <1>4 DEF IInv, TypeOK, AwaitedIsBusy
    <3> QED  BY <1>2, <3>1 DEF IInv, TypeOK
  <2>5. LoadingAwaits'
    BY <2>1 DEF IInv, LoadingAwaits
  <2> QED  BY <2>2, <2>3, <2>4, <2>5 DEF IInv, Paired
<1> QED  BY <1>3, <1>4

LEMMA KeepIsPaired ==
  ASSUME IInv, NEW h \in Handler, handler[h] # NULL, Keep(h)
  PROVE  session' \in Session /\ Paired(session')
BY DEF IInv, TypeOK, Keep, Call, CallsArePaired, Paired

\* What the browser does.
LEMMA TabStep ==
  ASSUME IInv, NEW t \in Tab,
         User(t) \/ OpenView(t) \/ Poll(t) \/ TenMinutesPass(t) \/ GiveUp(t)
  PROVE  IInv'
<1>p. tab[t] \in Page  BY DEF IInv, TypeOK
<1>1. CASE LogIn(t) \/ LogOut(t) \/ OpenSelect(t) \/ SubmitWalletForm(t)
             \/ FollowTesterLink(t) \/ OpenView(t)
  <2>1. \E kind \in Kind \ {"options", "poll"}, arg \in Arg :
          Send(t, kind, arg, At("loading"))
    BY <1>1 DEF LogIn, LogOut, OpenSelect, SubmitWalletForm, FollowTesterLink, OpenView,
                Kind, Arg, Delivery, Answers!Delivery
  <2> QED  BY <2>1, SendKeepsIInv, SimplePages
<1>2. CASE \E d \in Doc : SubmitOptions(t, d)
  <2>1. PICK d \in Doc : SubmitOptions(t, d)  BY <1>2
  <2>2. Send(t, "options", d, tab[t])  BY <2>1 DEF SubmitOptions
  <2>3. "options" \in Kind /\ d \in Arg  BY DEF Kind, Arg
  <2> QED  BY <1>p, <2>2, <2>3, SendKeepsIInv
<1>3. CASE Poll(t)
  <2>1. Send(t, "poll", NULL, tab[t]) /\ tab[t].page = "waiting"  BY <1>3 DEF Poll
  <2>2. "poll" \in Kind /\ NULL \in Arg  BY DEF Kind, Arg
  <2> QED  BY <1>p, <2>1, <2>2, SendKeepsIInv
<1>4. CASE ClickAgain(t)
  <2> DEFINE call == handler[awaits[t]]
  <2>1. tab[t].page = "loading" /\ Send(t, call.kind, call.arg, At("loading"))
    BY <1>4 DEF ClickAgain
  <2>2. awaits[t] # NULL /\ awaits[t] \in Handler /\ call # NULL
    BY <2>1 DEF IInv, TypeOK, LoadingAwaits, AwaitedIsBusy
  <2>3. call.kind \in Kind /\ call.arg \in Arg
    BY <2>2 DEF IInv, TypeOK, Call
  <2>4. call.kind = "options" => call.arg \in Doc
    BY <2>2 DEF IInv, CallsArePaired
  <2>5. call.kind # "poll"
    BY <2>1, <2>2 DEF IInv, AwaitedIsBusy
  <2> QED  BY <2>1, <2>3, <2>4, <2>5, SendKeepsIInv, SimplePages
<1>5. CASE Reload(t)
  <2>1. \E kind \in Kind \ {"options", "poll"}, arg \in Arg :
          Send(t, kind, arg, At("loading"))
    <3>1. CASE tab[t].page \in {"waiting", "timed_out"}
      <4>1. tab[t].delivery \in Arg  BY <1>p, <3>1, WaitingPagesAreTyped DEF Arg
      <4>2. Send(t, "sign", tab[t].delivery, At("loading"))  BY <1>5, <3>1 DEF Reload
      <4> QED  BY <4>1, <4>2 DEF Kind
    <3>2. CASE tab[t].page \notin {"waiting", "timed_out"}
      BY <1>5, <3>2 DEF Reload, Kind, Arg
    <3> QED  BY <3>1, <3>2
  <2> QED  BY <2>1, SendKeepsIInv, SimplePages
<1>6. CASE TenMinutesPass(t)
  <2>1. /\ tab[t].page = "waiting"
        /\ tab' = [tab EXCEPT ![t] = [tab[t] EXCEPT !.late = TRUE]]
        /\ UNCHANGED <<session, handler, awaits, request, box>>
    BY <1>6 DEF TenMinutesPass, exchange
  <2> DEFINE p == [tab[t] EXCEPT !.late = TRUE]
  <2>2. p \in Page /\ p.page = "waiting"
    BY <1>p, <2>1, WaitingPagesAreTyped
  <2>3. tab' = [tab EXCEPT ![t] = p]  BY <2>1
  <2> HIDE DEF p
  <2>4. /\ tab' \in [Tab -> Page]
        /\ \A s \in Tab : tab'[s].page = tab[s].page
    BY <2>1, <2>2, <2>3 DEF IInv, TypeOK
  <2> QED
    BY <2>1, <2>4 DEF IInv, TypeOK, Paired, CallsArePaired, AwaitedIsBusy, LoadingAwaits
<1>7. CASE GiveUp(t)
  <2> DEFINE p == [tab[t] EXCEPT !.page = "timed_out"]
  <2>1. /\ tab[t].page = "waiting" /\ awaits[t] = NULL
        /\ tab' = [tab EXCEPT ![t] = p]
        /\ UNCHANGED <<session, handler, awaits, request, box>>
    BY <1>7 DEF GiveUp, exchange
  <2>2. p \in Page /\ p.page = "timed_out"
    BY <1>p, <2>1, WaitingPagesAreTyped
  <2> HIDE DEF p
  <2>3. TypeOK' /\ Paired(session)' /\ CallsArePaired'
    BY <2>1, <2>2 DEF IInv, TypeOK, Paired, CallsArePaired
  <2>4. AwaitedIsBusy' /\ LoadingAwaits'
    BY <2>1, <2>2 DEF IInv, TypeOK, AwaitedIsBusy, LoadingAwaits
  <2> QED  BY <2>3, <2>4 DEF IInv
<1>8. CASE Back(t)
  <2>1. PICK p \in Restorable(t) : tab' = [tab EXCEPT ![t] = p]
    BY <1>8 DEF Back
  <2>2. /\ awaits' = [awaits EXCEPT ![t] = NULL]
        /\ UNCHANGED <<session, handler, request, box>>
    BY <1>8 DEF Back, exchange
  <2>3. p \in Page /\ p.page # "loading"
    BY RestorablePagesAreTyped DEF IInv, TypeOK
  <2>4. TypeOK' /\ Paired(session)' /\ CallsArePaired'
    BY <2>1, <2>2, <2>3 DEF IInv, TypeOK, Paired, CallsArePaired
  <2>5. AwaitedIsBusy' /\ LoadingAwaits'
    BY <2>1, <2>2, <2>3 DEF IInv, TypeOK, AwaitedIsBusy, LoadingAwaits
  <2> QED  BY <2>4, <2>5 DEF IInv
<1> QED  BY <1>1, <1>2, <1>3, <1>4, <1>5, <1>6, <1>7, <1>8 DEF User

\* What the server does: every handler saves a copy that is paired, changed in
\* a way that keeps it so.
LEMMA HandlerStep ==
  ASSUME IInv, NEW h \in Handler, Serve(h)
  PROVE  IInv'
<1> DEFINE sess == handler[h].sess
<1>1. handler[h] # NULL
  BY DEF Serve, Unauthorized, Login, Logout, SelectDocument, SelectSigningOptions,
         SignWithWallet, SignFails, WaitForSignedDocument, ViewSignedDocument, ViewFails,
         ViewTakesAndFails, Handles
<1>2. sess \in Session /\ Paired(sess) /\ handler[h].tab \in Tab
  BY <1>1 DEF IInv, TypeOK, Call, CallsArePaired
<1>3. /\ request \in [Nonce -> Request \cup {NULL}]
      /\ box \in [Nonce -> SUBSET (Doc \cup {NULL})]
  BY DEF IInv, TypeOK
<1>4. ASSUME NEW p \in {"login", "account", "select", "wallet", "ready", "nothing",
                        "error"},
             Reply(h, At(p)), session' \in Session, Paired(session'),
             UNCHANGED exchange
      PROVE  IInv'
  <2>1. At(p) \in Page /\ At(p).page # "loading"
    BY SimplePages
  <2> QED  BY <1>1, <1>3, <1>4, <2>1, ReplyKeepsIInv DEF exchange
<1>5. CASE Unauthorized(h) \/ Login(h) \/ Logout(h)
  <2>1. session' \in Session /\ Paired(session')
    BY <1>2, <1>5 DEF Unauthorized, Login, Logout, Save, Session, Paired
  <2>2. \E p \in {"login", "account", "ready"} : Reply(h, At(p))
    BY <1>5 DEF Unauthorized, Login, Logout
  <2>3. UNCHANGED exchange
    BY <1>5 DEF Unauthorized, Login, Logout
  <2> QED  BY <1>4, <2>1, <2>2, <2>3
<1>6. CASE SelectDocument(h)
  <2>1. session' \in Session /\ Paired(session')
    BY <1>1, <1>2, <1>6, KeepIsPaired
       DEF SelectDocument, ClearSession, Save, Session, Paired
  <2> QED  BY <1>4, <1>6, <2>1 DEF SelectDocument
<1>7. CASE SelectSigningOptions(h)
  <2>1. handler[h].arg \in Doc
    BY <1>1, <1>7 DEF SelectSigningOptions, Handles, IInv, CallsArePaired
  <2>2. session' \in Session /\ Paired(session')
    BY <1>1, <1>2, <1>7, <2>1, KeepIsPaired, BrowserAssumption
       DEF SelectSigningOptions, Save, Session, Paired
  <2> QED  BY <1>4, <1>7, <2>2 DEF SelectSigningOptions
<1>8. CASE SignWithWallet(h)
  <2>1. PICK n \in Nonce :
          /\ request' = [request EXCEPT ![n] =
                           [doc |-> sess.options, delivery |-> handler[h].arg]]
          /\ session' = [sess EXCEPT !.nonce = n]
          /\ Reply(h, WaitingPage(n, handler[h].arg))
    BY <1>8 DEF SignWithWallet, Save, StoreNonce, Answers!Create
  <2>2. handler[h].arg \in Delivery /\ sess.options # NULL /\ UNCHANGED box
    BY <1>8 DEF SignWithWallet, Answers!Create
  <2>3. session' \in Session /\ Paired(session')
    BY <1>2, <2>1, <2>2 DEF Session, Paired
  <2>4. request' \in [Nonce -> Request \cup {NULL}]
    BY <1>2, <1>3, <2>1, <2>2 DEF Session, Request, Answers!Request, Delivery
  <2>5. /\ WaitingPage(n, handler[h].arg) \in Page
        /\ WaitingPage(n, handler[h].arg).page # "loading"
    BY <2>2 DEF WaitingPage, Page
  <2>6. box' \in [Nonce -> SUBSET (Doc \cup {NULL})]
    BY <1>3, <2>2
  <2> QED  BY <1>1, <2>1, <2>3, <2>4, <2>5, <2>6, ReplyKeepsIInv
<1>9. CASE SignFails(h) \/ ViewFails(h)
  <2>1. session' \in Session /\ Paired(session')
    BY <1>1, <1>9, KeepIsPaired DEF SignFails, ViewFails
  <2>2. \E p \in {"error", "nothing"} : Reply(h, At(p))
    BY <1>9 DEF SignFails, ViewFails
  <2>3. UNCHANGED exchange
    BY <1>9 DEF SignFails, ViewFails
  <2> QED  BY <1>4, <2>1, <2>2, <2>3
<1>10. CASE WaitForSignedDocument(h)
  <2>1. session' \in Session /\ Paired(session')
    BY <1>1, <1>10, KeepIsPaired DEF WaitForSignedDocument
  <2>2. CASE Reply(h, At("ready"))
    BY <1>4, <1>10, <2>1, <2>2 DEF WaitForSignedDocument
  <2>3. CASE Reply(h, tab[handler[h].tab])
    <3> DEFINE p == tab[handler[h].tab]
    <3>1. p \in Page
      BY <1>2 DEF IInv, TypeOK
    <3>2. awaits[handler[h].tab] = h => p.page = "waiting"
      BY <1>2, <1>10, BrowserAssumption
         DEF WaitForSignedDocument, Handles, IInv, AwaitedIsBusy
    <3>3. /\ request' \in [Nonce -> Request \cup {NULL}]
          /\ box' \in [Nonce -> SUBSET (Doc \cup {NULL})]
      BY <1>3, <1>10 DEF WaitForSignedDocument, exchange
    <3> QED  BY <1>1, <2>1, <2>3, <3>1, <3>2, <3>3, ReplyKeepsIInv
  <2> QED  BY <1>10, <2>2, <2>3 DEF WaitForSignedDocument
<1>11. CASE ViewSignedDocument(h)
  <2> DEFINE n == sess.nonce
  <2>1. n \in Nonce /\ sess.options \in Doc
    BY <1>2, <1>11 DEF ViewSignedDocument, HasAnswer, Session
  <2>2. PICK content \in box[n] : Reply(h, SignedPage(sess.options, content))
    BY <1>11 DEF ViewSignedDocument
  <2>3. /\ SignedPage(sess.options, content) \in Page
        /\ SignedPage(sess.options, content).page # "loading"
    BY <1>3, <2>1, <2>2 DEF SignedPage, Page
  <2>4. session' \in Session /\ Paired(session')
    BY <1>1, <1>11, KeepIsPaired DEF ViewSignedDocument
  <2>5. /\ request' = request
        /\ box' \in [Nonce -> SUBSET (Doc \cup {NULL})]
    BY <1>3, <1>11, <2>1 DEF ViewSignedDocument
  <2> QED  BY <1>1, <1>3, <2>2, <2>3, <2>4, <2>5, ReplyKeepsIInv
<1>12. CASE ViewTakesAndFails(h)
  <2>1. session' \in Session /\ Paired(session')
    BY <1>1, <1>12, KeepIsPaired DEF ViewTakesAndFails
  <2>2. /\ request' = request
        /\ box' = [box EXCEPT ![sess.nonce] = {}]
        /\ Reply(h, At("error"))
    BY <1>12 DEF ViewTakesAndFails
  <2>3. box' \in [Nonce -> SUBSET (Doc \cup {NULL})]
    BY <1>3, <2>2
  <2>4. At("error") \in Page /\ At("error").page # "loading"
    BY SimplePages
  <2> QED  BY <1>1, <1>3, <2>1, <2>2, <2>3, <2>4, ReplyKeepsIInv
<1> QED
  BY <1>5, <1>6, <1>7, <1>8, <1>9, <1>10, <1>11, <1>12 DEF Serve

\* The box only grows by an answer to a request that was made.
LEMMA AnswersAreOwn ==
  ASSUME IInv, (\E n \in Nonce : Answers!Answer(n)) \/ Answers!Discard
  PROVE  /\ UNCHANGED request
         /\ box' \in [Nonce -> SUBSET (Doc \cup {NULL})]
         /\ \A m \in Nonce : \/ box'[m] \subseteq box[m]
                            \/ /\ request[m] # NULL
                               /\ box'[m] \subseteq box[m] \cup {request[m].doc, NULL}
<1>1. /\ box \in [Nonce -> SUBSET (Doc \cup {NULL})]
      /\ NULL \notin Request
  BY BrowserAssumption DEF IInv, TypeOK
<1>2. ASSUME NEW n \in Nonce, Answers!Answer(n)
      PROVE  /\ UNCHANGED request
             /\ box' \in [Nonce -> SUBSET (Doc \cup {NULL})]
             /\ request[n] # NULL /\ box'[n] \subseteq box[n] \cup {request[n].doc, NULL}
             /\ \A m \in Nonce \ {n} : box'[m] = box[m]
  <2>1. request[n] \in Request /\ request[n].doc \in Doc
    BY <1>2 DEF Answers!Answer, Request, Answers!Request, Answers!Delivery
  <2>2. PICK content \in {request[n].doc, NULL} :
          box' = [box EXCEPT ![n] = @ \cup {content}]
    BY <1>2 DEF Answers!Answer
  <2>3. UNCHANGED request
    BY <1>2 DEF Answers!Answer
  <2> QED
    BY <1>1, <2>1, <2>2, <2>3
<1>3. CASE Answers!Discard
  <2>1. PICK lost : box' = [m \in Nonce |-> {content \in box[m] : <<m, content>> \notin lost}]
    BY <1>3 DEF Answers!Discard
  <2>2. \A m \in Nonce : box'[m] \subseteq box[m]
    BY <2>1
  <2> QED
    BY <1>1, <1>3, <2>1, <2>2 DEF Answers!Discard
<1> QED
  BY <1>2, <1>3

\* What neither does: losses of the session, answers and their expiry.
LEMMA OtherStep ==
  ASSUME IInv, LoseSession \/ (\E n \in Nonce : Answer(n)) \/ Discard
  PROVE  IInv'
<1>1. CASE LoseSession
  <2>1. session' = EmptySession /\ UNCHANGED <<handler, tab, awaits, request, box>>
    BY <1>1 DEF LoseSession, exchange
  <2>2. EmptySession \in Session /\ Paired(EmptySession)
    BY DEF EmptySession, Session, Paired
  <2> QED
    BY <2>1, <2>2 DEF IInv, TypeOK, CallsArePaired, AwaitedIsBusy, LoadingAwaits
<1>2. CASE (\E n \in Nonce : Answer(n)) \/ Discard
  <2>1. UNCHANGED <<session, handler, tab, awaits, request>>
    BY <1>2, AnswersAreOwn DEF Answer, Discard, browser
  <2>2. box' \in [Nonce -> SUBSET (Doc \cup {NULL})]
    BY <1>2, AnswersAreOwn DEF Answer, Discard
  <2> QED
    BY <2>1, <2>2 DEF IInv, TypeOK, Paired, CallsArePaired, AwaitedIsBusy, LoadingAwaits
<1> QED  BY <1>1, <1>2

LEMMA StepIInv == IInv /\ [Next]_vars => IInv'
<1> SUFFICES ASSUME IInv, [Next]_vars PROVE IInv'  OBVIOUS
<1>1. CASE Next
  BY <1>1, TabStep, HandlerStep, OtherStep DEF Next
<1>2. CASE UNCHANGED vars
  BY <1>2 DEF vars, browser, exchange, IInv, TypeOK, Paired, CallsArePaired,
              AwaitedIsBusy, LoadingAwaits
<1> QED  BY <1>1, <1>2

LEMMA Invariance == Spec => []IInv
BY InitIInv, StepIInv, PTL DEF Spec

-----------------------------------------------------------------------------
\* Every reachable state of the browser, its handlers and its session is well
\* typed, however many tabs and overlapping requests there are.
THEOREM TypeCorrect == Spec => []TypeOK
<1>1. IInv => TypeOK  BY DEF IInv
<1> QED  BY <1>1, Invariance, PTL

\* However requests of one browser overlap, are repeated or abandoned, its session
\* never has a nonce without the options view_signed_document pairs its rows with.
THEOREM NonceAlwaysHasOptions == Spec => []NonceHasOptions
<1>1. IInv => NonceHasOptions  BY DEF IInv, Paired, NonceHasOptions
<1> QED  BY <1>1, Invariance, PTL

\* Only views take answers out of the database.
LEMMA OnlyViewsTake ==
  ASSUME IInv, [Next]_vars, NEW h \in Handler, NEW n \in Nonce,
         handler[h] # NULL, handler'[h] = NULL, box'[n] # box[n]
  PROVE  /\ ViewSignedDocument(h) \/ ViewTakesAndFails(h)
         /\ n = handler[h].sess.nonce
<1>1. ASSUME NEW s \in Tab,
             User(s) \/ OpenView(s) \/ Poll(s) \/ TenMinutesPass(s) \/ GiveUp(s)
      PROVE  UNCHANGED box
  BY <1>1 DEF User, LogIn, LogOut, OpenSelect, SubmitOptions, SubmitWalletForm,
              FollowTesterLink, ClickAgain, Reload, Back, OpenView, Poll, TenMinutesPass,
              GiveUp, Send, exchange
<1>2. ASSUME NEW g \in Handler, Serve(g), ~ViewSignedDocument(g), ~ViewTakesAndFails(g)
      PROVE  UNCHANGED box
  BY <1>2 DEF Serve, Unauthorized, Login, Logout, SelectDocument, SelectSigningOptions,
              SignWithWallet, SignFails, WaitForSignedDocument, ViewFails, exchange,
              Answers!Create
<1>3. ASSUME (\E m \in Nonce : Answer(m)) \/ Discard
      PROVE  UNCHANGED handler
  BY <1>3 DEF Answer, Discard, browser
<1>4. PICK g \in Handler : ViewSignedDocument(g) \/ ViewTakesAndFails(g)
  BY <1>1, <1>2, <1>3 DEF Next, vars, exchange, LoseSession
<1>5. /\ handler[g].sess.nonce \in Nonce
      /\ handler' = [handler EXCEPT ![g] = NULL]
      /\ box' = [box EXCEPT ![handler[g].sess.nonce] = {}]
  BY <1>4 DEF ViewSignedDocument, ViewTakesAndFails, Reply, Handles, HasAnswer, IInv, TypeOK,
              Call, Session
<1>6. g = h /\ n = handler[h].sess.nonce
  BY <1>5 DEF IInv, TypeOK
<1> QED  BY <1>4, <1>6

LEMMA StepTakes ==
  ASSUME IInv, [Next]_vars, NEW h \in Handler, NEW n \in Nonce,
         handler[h] # NULL, handler'[h] = NULL, box'[n] # box[n]
  PROVE  LET t == handler[h].tab
         IN /\ handler[h].kind = "view" /\ handler[h].sess.nonce = n
            /\ awaits[t] = h =>
                 \/ tab'[t].page = "signed" /\ tab'[t].content \in box[n]
                 \/ tab'[t].page = "error" /\ "lost_ack" \in DbFaults
<1> DEFINE t == handler[h].tab
<1>1. t \in Tab
  BY DEF IInv, TypeOK, Call
<1>2. /\ ViewSignedDocument(h) \/ ViewTakesAndFails(h)
      /\ n = handler[h].sess.nonce
  BY OnlyViewsTake
<1>3. handler[h].kind = "view"
  BY <1>2 DEF ViewSignedDocument, ViewTakesAndFails, Handles
<1>4. ASSUME awaits[t] = h
      PROVE  \/ tab'[t].page = "signed" /\ tab'[t].content \in box[n]
             \/ tab'[t].page = "error" /\ "lost_ack" \in DbFaults
  <2>1. ASSUME NEW p, Reply(h, p) PROVE tab'[t] = p
    BY <1>1, <1>4, <2>1 DEF Reply, IInv, TypeOK
  <2>2. CASE ViewSignedDocument(h)
    <3>1. PICK content \in box[n] : Reply(h, SignedPage(handler[h].sess.options, content))
      BY <1>2, <2>2 DEF ViewSignedDocument
    <3>2. tab'[t] = SignedPage(handler[h].sess.options, content)
      BY <2>1, <3>1
    <3> QED  BY <3>1, <3>2 DEF SignedPage
  <2>3. CASE ViewTakesAndFails(h)
    <3>1. Reply(h, At("error")) /\ "lost_ack" \in DbFaults
      BY <2>3 DEF ViewTakesAndFails
    <3>2. tab'[t] = At("error")
      BY <2>1, <3>1
    <3> QED  BY <3>1, <3>2 DEF At
  <2> QED  BY <1>2, <2>2, <2>3
<1> QED  BY <1>2, <1>3, <1>4

\* Polling takes nothing out of the database, nor does a view of another request or
\* one that fails before the removal (view_signed_document).  Where answers are taken
\* and not shown, the acknowledgement was lost or nobody waits for the page any more.
THEOREM TakenIsAlwaysShown == Spec => TakenIsShown
<1>1. IInv /\ [Next]_vars =>
        [\A h \in Handler, n \in Nonce :
           /\ handler[h] # NULL /\ handler'[h] = NULL
           /\ box'[n] # box[n]
           => LET t == handler[h].tab
              IN /\ handler[h].kind = "view" /\ handler[h].sess.nonce = n
                 /\ awaits[t] = h =>
                      \/ tab'[t].page = "signed" /\ tab'[t].content \in box[n]
                      \/ tab'[t].page = "error" /\ "lost_ack" \in DbFaults]_vars
  BY StepTakes
<1> QED  BY <1>1, Invariance, PTL DEF Spec, TakenIsShown

-----------------------------------------------------------------------------
\* What a handler does to the exchange is creating a request, or discarding the
\* answers it took.
LEMMA HandlerKeepsAnswerBox ==
  ASSUME IInv, NEW h \in Handler, Serve(h)
  PROVE  [Answers!Next]_(Answers!vars)
<1> DEFINE sess == handler[h].sess
<1>1. CASE SignWithWallet(h)
  <2> DEFINE r == [doc |-> sess.options, delivery |-> handler[h].arg]
  <2>1. PICK n \in Nonce : Answers!Create(n, r)
    BY <1>1 DEF SignWithWallet
  <2>2. sess \in Session /\ sess.options # NULL /\ handler[h].arg \in Delivery
    BY <1>1 DEF SignWithWallet, Handles, IInv, TypeOK, Call
  <2>3. r \in Answers!Request
    BY <2>2 DEF Session, Delivery, Answers!Request
  <2> QED
    BY <2>1, <2>3 DEF Answers!Next
<1>2. CASE ViewSignedDocument(h) \/ ViewTakesAndFails(h)
  <2> DEFINE n    == sess.nonce
             lost == {n} \X box[n]
  <2>1. n \in Nonce
    BY <1>2 DEF ViewSignedDocument, ViewTakesAndFails, HasAnswer, Handles, IInv, TypeOK,
                Call, Session
  <2>2. lost \in SUBSET UNION {{m} \X box[m] : m \in Nonce}
    BY <2>1
  <2>3. box' = [m \in Nonce |-> {content \in box[m] : <<m, content>> \notin lost}]
    <3>1. \A m \in Nonce :
            (IF m = n THEN {} ELSE box[m]) = {content \in box[m] : <<m, content>> \notin lost}
      OBVIOUS
    <3>2. box' = [m \in Nonce |-> IF m = n THEN {} ELSE box[m]]
      BY <1>2, <2>1 DEF ViewSignedDocument, ViewTakesAndFails, IInv, TypeOK
    <3> HIDE DEF lost, n
    <3> QED
      BY <3>1, <3>2
  <2> HIDE DEF lost
  <2> QED
    BY <1>2, <2>2, <2>3 DEF ViewSignedDocument, ViewTakesAndFails, Answers!Discard,
                            Answers!Next
<1>3. CASE ~SignWithWallet(h) /\ ~ViewSignedDocument(h) /\ ~ViewTakesAndFails(h)
  <2>1. UNCHANGED exchange
    BY <1>3 DEF Serve, Unauthorized, Login, Logout, SelectDocument, SelectSigningOptions,
                SignFails, WaitForSignedDocument, ViewFails
  <2> QED
    BY <2>1 DEF exchange, Answers!vars
<1> QED
  BY <1>1, <1>2, <1>3

\* Whatever the browser, its tabs and its handlers do at once, to the exchange they
\* do what AnswerBox allows: no handler answers a request, or makes one twice.
THEOREM BrowserKeepsAnswerBox == Spec => Answers!Spec
<1>1. Init => Answers!Init
  BY DEF Init, Answers!Init
<1>2. IInv /\ [Next]_vars => [Answers!Next]_(Answers!vars)
  <2> SUFFICES ASSUME IInv, [Next]_vars PROVE [Answers!Next]_(Answers!vars)
    OBVIOUS
  <2>1. ASSUME NEW t \in Tab,
               User(t) \/ OpenView(t) \/ Poll(t) \/ TenMinutesPass(t) \/ GiveUp(t)
        PROVE  UNCHANGED exchange
    BY <2>1 DEF User, LogIn, LogOut, OpenSelect, SubmitOptions, SubmitWalletForm,
                FollowTesterLink, ClickAgain, Reload, Back, OpenView, Poll,
                TenMinutesPass, GiveUp, Send
  <2>2. CASE (\E n \in Nonce : Answer(n)) \/ Discard
    BY <2>2 DEF Answer, Discard, Answers!Next
  <2>3. CASE LoseSession \/ UNCHANGED vars
    BY <2>3 DEF LoseSession, vars, exchange, Answers!vars
  <2> QED
    BY <2>1, <2>2, <2>3, HandlerKeepsAnswerBox DEF Next, exchange, Answers!vars
<1> QED
  BY <1>1, <1>2, Invariance, PTL DEF Spec, Answers!Spec

-----------------------------------------------------------------------------
(***************************************************************************)
(* Requests that come one after the other: one tab, and a server that      *)
(* handles one request at a time.                                          *)
(*                                                                         *)
(* Options and nonce are two keys of one session, and nothing in the code  *)
(* ties them together.  What keeps them together is the order in which one *)
(* tab goes through the pages.  A browser that shows an earlier page again *)
(* without asking for it breaks that order, so each part of the invariant  *)
(* says which pages must not be restored, or which pages it is about.      *)
(***************************************************************************)

InTurn ==
  /\ \A g, h \in Handler : g = h
  /\ \A s, t \in Tab : s = t

-----------------------------------------------------------------------------
(* The inductive invariant *)

\* The nonce of a session is of a request for the document of its options.
Matches(sess) ==
  "select" \notin Restored /\ sess.nonce # NULL =>
    request[sess.nonce] # NULL /\ request[sess.nonce].doc = sess.options

\* The reply to whatever is being handled will be shown, unless the user went back.
Dropped(page) == page.page \in Restored \cup {"timed_out"} /\ ~Loaded(page)

RepliesAreAwaited ==
  \A h \in Handler : handler[h] # NULL =>
    awaits[handler[h].tab] = h \/ Dropped(tab[handler[h].tab])

\* A page polls for the request it was made for, or for none.
Polls(page, sess) ==
  Loaded(page) =>
    sess.nonce = page.nonce \/ sess.options = NULL

\* Options can be chosen only while there is no request to go with others.
Selects(page, sess) ==
  "select" \notin Restored /\ page.page = "select" => sess.nonce = NULL

\* What holds of the session, and of its copy while a request is handled.
Fits(sess) ==
  /\ Matches(sess)
  /\ \A t \in Tab : Polls(tab[t], sess) /\ Selects(tab[t], sess)

CopiesFit ==
  \A h \in Handler : handler[h] # NULL =>
    /\ Fits(handler[h].sess)
    /\ "select" \notin Restored /\ handler[h].kind = "options" => handler[h].sess.nonce = NULL

\* Nobody else changes a session that is being worked on; it may get lost.
CopiesAreCurrent ==
  \A h \in Handler : handler[h] # NULL =>
    session = handler[h].sess \/ session = EmptySession

\* Nothing is stored for a request but the document it is about, or a report.
BoxIsOwn ==
  \A n \in Nonce :
    /\ request[n] = NULL => box[n] = {}
    /\ request[n] # NULL => box[n] \subseteq {request[n].doc, NULL}

TurnInv ==
  /\ RepliesAreAwaited
  /\ Fits(session) /\ CopiesFit /\ CopiesAreCurrent
  /\ BoxIsOwn
  /\ "select" \notin Restored => SignedUnderOwnName

LEMMA InitTurnInv == Init => TurnInv
BY DEF Init, TurnInv, RepliesAreAwaited, Fits, Matches, Polls, Loaded, Selects, CopiesFit,
       CopiesAreCurrent, BoxIsOwn, SignedUnderOwnName, EmptySession, At

-----------------------------------------------------------------------------
(* What the actions have in common *)

\* Sending a request: the copy fits because the session does, and no other request
\* is on its way.
LEMMA SendKeepsTurnInv ==
  ASSUME InTurn, IInv, TurnInv, NEW t \in Tab, NEW kind, NEW arg, NEW p,
         "select" \notin Restored /\ kind = "options" => session.nonce = NULL,
         p = At("loading") \/ p = tab[t],
         Send(t, kind, arg, p)
  PROVE  TurnInv'
<1> DEFINE free == {h \in Handler : handler[h] = NULL}
           h    == CHOOSE x \in free : TRUE
           call == [tab |-> t, kind |-> kind, arg |-> arg, sess |-> session]
<1>1. /\ h \in Handler
      /\ handler' = [handler EXCEPT ![h] = call]
      /\ awaits' = [awaits EXCEPT ![t] = h]
      /\ tab' = [tab EXCEPT ![t] = p]
      /\ UNCHANGED <<session, request, box>>
  <2>1. free # {}
    BY DEF Send
  <2>2. h \in free
    BY <2>1
  <2> QED
    BY <2>2 DEF Send, exchange
<1> HIDE DEF h
<1>2. \A g \in Handler : g = h /\ handler'[g] = call
  BY <1>1 DEF InTurn, IInv, TypeOK
<1>3. \A s \in Tab : s = t /\ tab'[s] = p /\ awaits'[s] = h
  BY <1>1 DEF InTurn, IInv, TypeOK
<1>4. RepliesAreAwaited'
  BY <1>2, <1>3 DEF RepliesAreAwaited
<1>5. Fits(session)'
  BY <1>1, <1>3 DEF TurnInv, Fits, Matches, Polls, Loaded, Selects, At
<1>6. CopiesFit' /\ CopiesAreCurrent'
  BY <1>1, <1>2, <1>5 DEF CopiesFit, CopiesAreCurrent, Fits, Matches
<1>7. ("select" \notin Restored => SignedUnderOwnName)'
  BY <1>3 DEF TurnInv, SignedUnderOwnName, At
<1> QED
  BY <1>1, <1>4, <1>5, <1>6, <1>7 DEF TurnInv, BoxIsOwn

\* Replying: the page that sent the request is replaced, and no copy is left.  A
\* reply that is dropped finds a restored page.
LEMMA ReplyKeepsTurnInv ==
  ASSUME InTurn, IInv, TurnInv, NEW h \in Handler, handler[h] # NULL, NEW p,
         Matches(session)', Polls(p, session'), Selects(p, session'),
         "select" \notin Restored /\ p.page = "signed" => p.content \in {p.name, NULL},
         BoxIsOwn',
         Reply(h, p)
  PROVE  TurnInv'
<1> DEFINE t == handler[h].tab
<1>1. t \in Tab
  BY DEF IInv, TypeOK, Call
<1>2. handler' = [handler EXCEPT ![h] = NULL]
  BY DEF Reply
<1>3. \A g \in Handler : handler'[g] = NULL
  BY <1>2 DEF InTurn, IInv, TypeOK
<1>4. RepliesAreAwaited' /\ CopiesFit' /\ CopiesAreCurrent'
  BY <1>3 DEF RepliesAreAwaited, CopiesFit, CopiesAreCurrent
<1>5. CASE awaits[t] = h
  <2>1. tab' = [tab EXCEPT ![t] = p]
    BY <1>5 DEF Reply
  <2>2. \A s \in Tab : tab'[s] = p
    BY <1>1, <2>1 DEF InTurn, IInv, TypeOK
  <2>3. Fits(session)' /\ ("select" \notin Restored => SignedUnderOwnName)'
    BY <2>2 DEF Fits, Polls, Loaded, Selects, SignedUnderOwnName
  <2> QED
    BY <1>4, <2>3 DEF TurnInv
<1>6. CASE awaits[t] # h
  <2>1. tab' = tab
    BY <1>6 DEF Reply
  <2>2. \A s \in Tab : Dropped(tab[s])
    BY <1>1, <1>6 DEF TurnInv, RepliesAreAwaited, InTurn
  <2>3. \A s \in Tab : Polls(tab'[s], session') /\ Selects(tab'[s], session')
    BY <2>1, <2>2 DEF Dropped, Loaded, Polls, Selects
  <2>4. Fits(session)'
    BY <2>3 DEF Fits, Polls, Loaded, Selects
  <2>5. ("select" \notin Restored => SignedUnderOwnName)'
    BY <2>1 DEF TurnInv, SignedUnderOwnName
  <2> QED
    BY <1>4, <2>4, <2>5 DEF TurnInv
<1> QED
  BY <1>5, <1>6

\* What may be stored when nothing was assigned.
LEMMA KeptFits ==
  ASSUME TurnInv, NEW h \in Handler, handler[h] # NULL, Keep(h)
  PROVE  Fits(session')
BY DEF TurnInv, CopiesFit, Keep

-----------------------------------------------------------------------------
(* The steps *)

LEMMA TabTurnStep ==
  ASSUME InTurn, IInv, TurnInv, NEW t \in Tab,
         User(t) \/ OpenView(t) \/ Poll(t) \/ TenMinutesPass(t) \/ GiveUp(t)
  PROVE  TurnInv'
<1>1. CASE \/ LogIn(t) \/ LogOut(t) \/ OpenSelect(t) \/ SubmitWalletForm(t)
           \/ FollowTesterLink(t) \/ OpenView(t) \/ Reload(t)
  <2>1. \E kind \in Kind \ {"options"} : \E arg : Send(t, kind, arg, At("loading"))
    <3>1. \E kind \in {"login", "logout", "select", "sign", "view"} : \E arg :
            Send(t, kind, arg, At("loading"))
      BY <1>1 DEF LogIn, LogOut, OpenSelect, SubmitWalletForm, FollowTesterLink,
                  OpenView, Reload
    <3> QED
      BY <3>1 DEF Kind
  <2> QED
    BY <2>1, SendKeepsTurnInv
<1>2. CASE \E d \in Doc : SubmitOptions(t, d)
  <2>1. PICK d \in Doc : tab[t].page = "select" /\ Send(t, "options", d, tab[t])
    BY <1>2 DEF SubmitOptions
  <2>2. "select" \notin Restored => session.nonce = NULL
    BY <2>1 DEF TurnInv, Fits, Selects
  <2> QED
    BY <2>1, <2>2, SendKeepsTurnInv
<1>3. CASE Poll(t)
  <2>1. Send(t, "poll", NULL, tab[t])
    BY <1>3 DEF Poll
  <2> QED
    BY <2>1, SendKeepsTurnInv
<1>4. CASE ClickAgain(t)
  <2>1. tab[t].page = "loading" /\ \E h \in Handler : handler[h] = NULL
    BY <1>4 DEF ClickAgain, Send
  <2>2. awaits[t] # NULL /\ handler[awaits[t]] # NULL /\ awaits[t] \in Handler
    BY <2>1 DEF IInv, TypeOK, LoadingAwaits, AwaitedIsBusy
  <2> QED
    BY <2>1, <2>2 DEF InTurn
<1>5. CASE TenMinutesPass(t)
  <2>1. /\ tab[t].page = "waiting"
        /\ tab' = [tab EXCEPT ![t] = [tab[t] EXCEPT !.late = TRUE]]
        /\ UNCHANGED <<session, handler, awaits, request, box>>
    BY <1>5 DEF TenMinutesPass, exchange
  <2> DEFINE p == [tab[t] EXCEPT !.late = TRUE]
  <2>2. p.page = "waiting" /\ p.nonce = tab[t].nonce /\ p.restored = tab[t].restored
    BY <2>1, WaitingPagesAreTyped DEF IInv, TypeOK
  <2>3. tab' = [tab EXCEPT ![t] = p]
    BY <2>1
  <2> HIDE DEF p
  <2>4. \A s \in Tab : tab'[s] = IF s = t THEN p ELSE tab[s]
    BY <2>3 DEF IInv, TypeOK
  <2>5. ASSUME NEW sess, Fits(sess) PROVE Fits(sess)'
    BY <2>1, <2>2, <2>4, <2>5 DEF Fits, Matches, Polls, Loaded, Selects
  <2>6. ("select" \notin Restored => SignedUnderOwnName)'
    BY <2>2, <2>4 DEF TurnInv, SignedUnderOwnName
  <2>7. RepliesAreAwaited'
    BY <2>1, <2>2, <2>4 DEF TurnInv, RepliesAreAwaited, Dropped, Loaded, IInv, TypeOK, Call
  <2> QED
    BY <2>1, <2>5, <2>6, <2>7 DEF TurnInv, CopiesFit, CopiesAreCurrent, BoxIsOwn
<1>6. CASE GiveUp(t)
  <2> DEFINE p == [tab[t] EXCEPT !.page = "timed_out"]
  <2>1. /\ tab[t].page = "waiting"
        /\ tab' = [tab EXCEPT ![t] = p]
        /\ UNCHANGED <<session, handler, awaits, request, box>>
    BY <1>6 DEF GiveUp, exchange
  <2>2. p.page = "timed_out"
    BY <2>1, WaitingPagesAreTyped DEF IInv, TypeOK
  <2> HIDE DEF p
  <2>3. \A s \in Tab : tab'[s] = IF s = t THEN p ELSE tab[s]
    BY <2>1 DEF IInv, TypeOK
  <2>4. ASSUME NEW sess, Fits(sess) PROVE Fits(sess)'
    BY <2>1, <2>2, <2>3, <2>4 DEF Fits, Matches, Polls, Loaded, Selects
  <2>5. ("select" \notin Restored => SignedUnderOwnName)'
    BY <2>2, <2>3 DEF TurnInv, SignedUnderOwnName
  <2>6. RepliesAreAwaited'
    BY <2>1, <2>2, <2>3 DEF TurnInv, RepliesAreAwaited, Dropped, Loaded, IInv, TypeOK, Call
  <2> QED
    BY <2>1, <2>4, <2>5, <2>6 DEF TurnInv, CopiesFit, CopiesAreCurrent, BoxIsOwn
<1>7. CASE Back(t)
  <2>1. PICK p \in Restorable(t) : tab' = [tab EXCEPT ![t] = p]
    BY <1>7 DEF Back
  <2>2. UNCHANGED <<session, handler, request, box>>
    BY <1>7 DEF Back, exchange
  <2>3. p.page \in Restored /\ p.page # "signed" /\ ~Loaded(p)
    BY RestorablePagesAreTyped DEF IInv, TypeOK
  <2>4. \A s \in Tab : tab'[s] = p
    BY <2>1 DEF InTurn, IInv, TypeOK
  <2>5. ASSUME NEW sess, Fits(sess) PROVE Fits(sess)'
    BY <2>2, <2>3, <2>4, <2>5 DEF Fits, Matches, Polls, Loaded, Selects
  <2>6. ("select" \notin Restored => SignedUnderOwnName)'
    BY <2>3, <2>4 DEF SignedUnderOwnName
  <2>7. RepliesAreAwaited'
    BY <2>2, <2>3, <2>4 DEF RepliesAreAwaited, Dropped, IInv, TypeOK, Call
  <2> QED
    BY <2>2, <2>5, <2>6, <2>7 DEF TurnInv, CopiesFit, CopiesAreCurrent, BoxIsOwn
<1> QED
  BY <1>1, <1>2, <1>3, <1>4, <1>5, <1>6, <1>7 DEF User

LEMMA HandlerTurnStep ==
  ASSUME InTurn, IInv, TurnInv, NEW h \in Handler, Serve(h)
  PROVE  TurnInv'
<1> DEFINE sess == handler[h].sess
           t    == handler[h].tab
<1>1. handler[h] # NULL
  BY DEF Serve, Unauthorized, Login, Logout, SelectDocument, SelectSigningOptions,
         SignWithWallet, SignFails, WaitForSignedDocument, ViewSignedDocument, ViewFails,
         ViewTakesAndFails, Handles
<1>2. sess \in Session /\ t \in Tab /\ Matches(sess)
  BY <1>1 DEF IInv, TypeOK, Call, TurnInv, CopiesFit, Fits
<1>3. ASSUME NEW p \in {"login", "account", "select", "wallet", "ready", "nothing",
                        "error"},
             Reply(h, At(p)), Matches(session'), p = "select" => session'.nonce = NULL,
             UNCHANGED exchange
      PROVE  TurnInv'
  <2>1. Matches(session)' /\ BoxIsOwn'
    BY <1>3 DEF Matches, exchange, TurnInv, BoxIsOwn
  <2>2. Polls(At(p), session') /\ Selects(At(p), session') /\ At(p).page # "signed"
    BY <1>3 DEF At, Polls, Loaded, Selects
  <2> QED
    BY <1>1, <1>3, <2>1, <2>2, ReplyKeepsTurnInv
<1>4. CASE Unauthorized(h) \/ Login(h) \/ Logout(h)
  <2>1. session'.nonce = sess.nonce /\ session'.options = sess.options
    BY <1>2, <1>4 DEF Unauthorized, Login, Logout, Save, Session
  <2>2. Matches(session')
    BY <1>2, <2>1 DEF Matches
  <2>3. \E p \in {"login", "account", "ready"} : Reply(h, At(p))
    BY <1>4 DEF Unauthorized, Login, Logout
  <2>4. UNCHANGED exchange
    BY <1>4 DEF Unauthorized, Login, Logout
  <2> QED
    BY <1>3, <2>2, <2>3, <2>4
<1>5. CASE SelectDocument(h)
  <2>1. session'.nonce = NULL
    <3>1. CASE ClearSession(sess) = sess
      <4>1. sess.nonce = NULL
        BY <1>2, <3>1 DEF ClearSession, Session
      <4>2. session.nonce = NULL
        BY <1>1, <4>1 DEF TurnInv, CopiesAreCurrent, EmptySession
      <4> QED
        BY <1>5, <3>1, <4>1, <4>2 DEF SelectDocument, Keep
    <3>2. CASE ClearSession(sess) # sess
      BY <1>2, <1>5, <3>2 DEF SelectDocument, ClearSession, Save, Session
    <3> QED
      BY <3>1, <3>2
  <2>2. Matches(session')
    BY <2>1 DEF Matches
  <2> QED
    BY <1>3, <1>5, <2>1, <2>2 DEF SelectDocument
<1>6. CASE SelectSigningOptions(h)
  <2>1. Matches(session')
    <3>1. CASE Keep(h)
      BY <1>1, <3>1, KeptFits DEF Fits
    <3>2. CASE "select" \in Restored
      BY <3>2 DEF Matches
    <3>3. CASE "select" \notin Restored /\ Save([sess EXCEPT !.options = handler[h].arg])
      <4>1. sess.nonce = NULL
        BY <1>1, <1>6, <3>3 DEF SelectSigningOptions, Handles, TurnInv, CopiesFit
      <4>2. session'.nonce = NULL
        BY <1>2, <3>3, <4>1 DEF Save, Session
      <4> QED
        BY <4>2 DEF Matches
    <3> QED
      BY <1>6, <3>1, <3>2, <3>3 DEF SelectSigningOptions
  <2> QED
    BY <1>3, <1>6, <2>1 DEF SelectSigningOptions
<1>7. CASE SignWithWallet(h)
  <2> DEFINE arg == handler[h].arg
  <2>1. PICK n \in Nonce :
          /\ request[n] = NULL
          /\ request' = [request EXCEPT ![n] = [doc |-> sess.options, delivery |-> arg]]
          /\ session' = [sess EXCEPT !.nonce = n]
          /\ Reply(h, WaitingPage(n, arg))
    BY <1>7 DEF SignWithWallet, Save, StoreNonce, Answers!Create
  <2>2. sess.options \in Doc /\ arg \in Delivery /\ UNCHANGED box
    BY <1>2, <1>7 DEF SignWithWallet, Session, Answers!Create
  <2>3. session'.nonce = n /\ session'.options = sess.options
    BY <1>2, <2>1 DEF Session
  <2>4. /\ request'[n] = [doc |-> sess.options, delivery |-> arg]
        /\ request'[n] # NULL
        /\ \A m \in Nonce \ {n} : request'[m] = request[m]
    <3>1. request'[n] = [doc |-> sess.options, delivery |-> arg]
      BY <2>1 DEF IInv, TypeOK
    <3>2. request'[n] \in Request
      BY <2>2, <3>1 DEF Request, Answers!Request, Delivery
    <3> QED
      BY <2>1, <3>1, <3>2, BrowserAssumption DEF IInv, TypeOK
  <2>5. Matches(session)'
    BY <2>3, <2>4 DEF Matches
  <2>6. BoxIsOwn'
    BY <2>1, <2>2, <2>4 DEF TurnInv, BoxIsOwn
  <2>7. /\ Polls(WaitingPage(n, arg), session')
        /\ Selects(WaitingPage(n, arg), session')
        /\ WaitingPage(n, arg).page # "signed"
    BY <2>3 DEF WaitingPage, Polls, Loaded, Selects
  <2> QED
    BY <1>1, <2>1, <2>5, <2>6, <2>7, ReplyKeepsTurnInv
<1>8. CASE SignFails(h) \/ ViewFails(h)
  <2>1. Matches(session')
    BY <1>1, <1>8, KeptFits DEF SignFails, ViewFails, Fits
  <2>2. \E p \in {"error", "nothing"} : Reply(h, At(p))
    BY <1>8 DEF SignFails, ViewFails
  <2>3. UNCHANGED exchange
    BY <1>8 DEF SignFails, ViewFails
  <2> QED
    BY <1>3, <2>1, <2>2, <2>3
<1>9. CASE WaitForSignedDocument(h)
  <2>1. Fits(session') /\ UNCHANGED exchange
    BY <1>1, <1>9, KeptFits DEF WaitForSignedDocument
  <2>2. CASE Reply(h, At("ready"))
    BY <1>3, <2>1, <2>2 DEF Fits
  <2>3. CASE Reply(h, tab[t])
    <3>1. Matches(session)' /\ BoxIsOwn'
      BY <2>1 DEF Fits, Matches, exchange, TurnInv, BoxIsOwn
    <3>2. Polls(tab[t], session') /\ Selects(tab[t], session')
      BY <1>2, <2>1 DEF Fits
    <3>3. "select" \notin Restored /\ tab[t].page = "signed" => tab[t].content \in {tab[t].name, NULL}
      BY <1>2 DEF TurnInv, SignedUnderOwnName
    <3> QED
      BY <1>1, <2>3, <3>1, <3>2, <3>3, ReplyKeepsTurnInv
  <2> QED
    BY <1>9, <2>2, <2>3 DEF WaitForSignedDocument
<1>10. CASE ViewSignedDocument(h)
  <2> DEFINE n == sess.nonce
  <2>1. n \in Nonce /\ n # NULL
    BY <1>2, <1>10 DEF ViewSignedDocument, HasAnswer, Session
  <2>2. PICK content \in box[n] : Reply(h, SignedPage(sess.options, content))
    BY <1>10 DEF ViewSignedDocument
  <2>3. "select" \notin Restored => content \in {sess.options, NULL}
    BY <1>2, <2>1, <2>2 DEF Matches, TurnInv, BoxIsOwn
  <2>4. Matches(session') /\ request' = request /\ box' = [box EXCEPT ![n] = {}]
    BY <1>1, <1>10, KeptFits DEF ViewSignedDocument, Fits
  <2>5. Matches(session)' /\ BoxIsOwn'
    BY <2>1, <2>4 DEF Matches, TurnInv, BoxIsOwn, IInv, TypeOK
  <2>6. /\ Polls(SignedPage(sess.options, content), session')
        /\ Selects(SignedPage(sess.options, content), session')
        /\ "select" \notin Restored =>
             SignedPage(sess.options, content).content
               \in {SignedPage(sess.options, content).name, NULL}
    BY <2>3 DEF SignedPage, Polls, Loaded, Selects
  <2> QED
    BY <1>1, <2>2, <2>5, <2>6, ReplyKeepsTurnInv
<1>11. CASE ViewTakesAndFails(h)
  <2>1. sess.nonce \in Nonce
    BY <1>2, <1>11 DEF ViewTakesAndFails, HasAnswer, Session
  <2>2. /\ Matches(session') /\ request' = request
        /\ box' = [box EXCEPT ![sess.nonce] = {}]
        /\ Reply(h, At("error"))
    BY <1>1, <1>11, KeptFits DEF ViewTakesAndFails, Fits
  <2>3. Matches(session)' /\ BoxIsOwn'
    BY <2>1, <2>2 DEF Matches, TurnInv, BoxIsOwn, IInv, TypeOK
  <2>4. /\ Polls(At("error"), session') /\ Selects(At("error"), session')
        /\ At("error").page # "signed"
    BY DEF At, Polls, Loaded, Selects
  <2> QED
    BY <1>1, <2>2, <2>3, <2>4, ReplyKeepsTurnInv
<1> QED
  BY <1>4, <1>5, <1>6, <1>7, <1>8, <1>9, <1>10, <1>11 DEF Serve

LEMMA OtherTurnStep ==
  ASSUME IInv, TurnInv, LoseSession \/ (\E n \in Nonce : Answer(n)) \/ Discard
  PROVE  TurnInv'
<1>1. CASE LoseSession
  <2>1. session' = EmptySession /\ UNCHANGED <<handler, tab, awaits, request, box>>
    BY <1>1 DEF LoseSession, exchange
  <2>2. Fits(session)'
    BY <2>1 DEF Fits, Matches, Polls, Loaded, Selects, EmptySession
  <2>3. CopiesFit'
    BY <2>1 DEF TurnInv, CopiesFit, Fits, Matches
  <2> QED
    BY <2>1, <2>2, <2>3 DEF TurnInv, RepliesAreAwaited, CopiesAreCurrent, BoxIsOwn,
                            SignedUnderOwnName, EmptySession
<1>2. CASE (\E n \in Nonce : Answer(n)) \/ Discard
  <2>1. UNCHANGED <<session, handler, tab, awaits, request>>
    BY <1>2, AnswersAreOwn DEF Answer, Discard, browser
  <2>2. BoxIsOwn'
    BY <1>2, <2>1, AnswersAreOwn DEF Answer, Discard, TurnInv, BoxIsOwn
  <2>3. Fits(session)' /\ CopiesFit'
    BY <2>1 DEF TurnInv, CopiesFit, Fits, Matches
  <2> QED
    BY <2>1, <2>2, <2>3 DEF TurnInv, RepliesAreAwaited, CopiesAreCurrent,
                            SignedUnderOwnName
<1> QED
  BY <1>1, <1>2

LEMMA StepTurnInv == InTurn /\ IInv /\ TurnInv /\ [Next]_vars => TurnInv'
<1> SUFFICES ASSUME InTurn, IInv, TurnInv, [Next]_vars PROVE TurnInv'
  OBVIOUS
<1>1. CASE Next
  BY <1>1, TabTurnStep, HandlerTurnStep, OtherTurnStep DEF Next
<1>2. CASE UNCHANGED vars
  BY <1>2 DEF vars, browser, exchange, TurnInv, RepliesAreAwaited, Fits, Matches,
              CopiesFit, CopiesAreCurrent, BoxIsOwn, SignedUnderOwnName
<1> QED
  BY <1>1, <1>2

LEMMA TurnInvariance ==
  ASSUME InTurn
  PROVE  Spec => []TurnInv
BY InitTurnInv, StepTurnInv, Invariance, PTL DEF Spec

-----------------------------------------------------------------------------
\* In turn, view_signed_document never offers the signature of one document under
\* the name of another, whatever is reloaded, clicked twice or lost, if going back to
\* the selection page asks for it again (select_document then drops the nonce).  A
\* browser that restores that page, or a second tab, can make it do so.
THEOREM SignedAlwaysUnderOwnName ==
  ASSUME InTurn, "select" \notin Restored
  PROVE  Spec => []SignedUnderOwnName
<1>1. TurnInv => SignedUnderOwnName
  BY DEF TurnInv
<1> QED
  BY <1>1, TurnInvariance, PTL

\* In turn, a waiting page asks for the request it was made for as long as the session
\* has options, whatever was gone back to before: no other step stores another nonce
\* behind its back.  (A waiting page gone back to is not made for the session it meets.)
THEOREM PollsAlwaysShownRequest ==
  ASSUME InTurn
  PROVE  Spec => []PollsShownRequest
<1>1. TurnInv => PollsShownRequest
  BY DEF TurnInv, Fits, Polls, PollsShownRequest
<1> QED
  BY <1>1, TurnInvariance, PTL
=============================================================================
