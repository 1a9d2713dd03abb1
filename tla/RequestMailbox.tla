--------------------------- MODULE RequestMailbox ---------------------------
(***************************************************************************)
(* What the relying party promises about one signing request, whatever     *)
(* tables, transactions and threads implement it.                          *)
(*                                                                         *)
(* A request is a mailbox.  While it is open, an upload of the wallet may  *)
(* be admitted: it then holds a ticket, and a ticket is good for one       *)
(* deposit, even if the mailbox is closed in between.  A mailbox is closed *)
(* by one of its answers, or because the request lapsed (it is older than  *)
(* DB_ENTRY_MAX_AGE_SECONDS); a closed mailbox admits nothing any more.    *)
(* What was deposited stays until it is collected by a view of the signed  *)
(* document, or until the request has lapsed.                              *)
(***************************************************************************)

CONSTANTS
  Nonce,    \* request ids
  Upload,   \* upload requests a wallet may send
  Document, \* signed documents an upload may carry
  NULL      \* no ticket; in a mailbox, the report of a failure

VARIABLES
  status,   \* status[n]: where the mailbox of n is in its life
  lapsed,   \* the requests that are too old to be kept
  answered, \* the requests some signed document was deposited for
  ticket,   \* ticket[u]: the mailbox the upload u may still deposit into
  box       \* box[n]: what was deposited for n and is still there

vars == <<status, lapsed, answered, ticket, box>>

\* A request sent inside the wallet link gets no mailbox: it is "sealed".
Status == {"new", "open", "sealed", "closed"}

Init ==
  /\ status = [n \in Nonce |-> "new"]
  /\ lapsed = {}
  /\ answered = {}
  /\ ticket = [u \in Upload |-> NULL]
  /\ box = [n \in Nonce |-> {}]

Issue(n) ==
  /\ status[n] = "new"
  /\ \E s \in {"open", "sealed"} : status' = [status EXCEPT ![n] = s]
  /\ UNCHANGED <<lapsed, answered, ticket, box>>

Admit(u, n) ==
  /\ ticket[u] = NULL
  /\ status[n] = "open"
  /\ ticket' = [ticket EXCEPT ![u] = n]
  /\ UNCHANGED <<status, lapsed, answered, box>>

\* The ticket is spent.  A deposit of documents answers the request; the
\* report of a failure is kept in the mailbox but answers nothing.
Deposit(u) ==
  LET n == ticket[u] IN
  /\ n \in Nonce
  /\ ticket' = [ticket EXCEPT ![u] = NULL]
  /\ \/ /\ \E D \in (SUBSET Document) \ {{}} :
               box' = [box EXCEPT ![n] = @ \cup D]
        /\ answered' = answered \cup {n}
     \/ /\ box' = [box EXCEPT ![n] = @ \cup {NULL}]
        /\ UNCHANGED answered
  /\ UNCHANGED <<status, lapsed>>

\* Uploads that failed, or that a restart of the service cut off.
Release ==
  /\ \E S \in SUBSET Upload :
       ticket' = [u \in Upload |-> IF u \in S THEN NULL ELSE ticket[u]]
  /\ UNCHANGED <<status, lapsed, answered, box>>

Close(n) ==
  /\ status[n] = "open"
  /\ n \in answered
  /\ status' = [status EXCEPT ![n] = "closed"]
  /\ UNCHANGED <<lapsed, answered, ticket, box>>

Collect(n) ==
  /\ box' = [box EXCEPT ![n] = {}]
  /\ UNCHANGED <<status, lapsed, answered, ticket>>

Lapse ==
  /\ \E S \in SUBSET {n \in Nonce : status[n] # "new"} : lapsed' = lapsed \cup S
  /\ UNCHANGED <<status, answered, ticket, box>>

\* Only a lapsed request loses its mailbox or what is in it.
Purge ==
  /\ \E S \in SUBSET lapsed :
       status' = [n \in Nonce |->
                    IF n \in S /\ status[n] = "open" THEN "closed" ELSE status[n]]
  /\ box' \in [Nonce -> SUBSET (Document \cup {NULL})]
  /\ \A n \in Nonce : /\ box'[n] \subseteq box[n]
                      /\ n \notin lapsed => box'[n] = box[n]
  /\ UNCHANGED <<lapsed, answered, ticket>>

Next ==
  \/ \E n \in Nonce : Issue(n) \/ Close(n) \/ Collect(n)
  \/ \E u \in Upload : Deposit(u) \/ \E n \in Nonce : Admit(u, n)
  \/ Release \/ Lapse \/ Purge

Spec == Init /\ [][Next]_vars
=============================================================================
