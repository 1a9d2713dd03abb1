------------------------------ MODULE AnswerBox ------------------------------
(***************************************************************************)
(* What a browser can tell of the exchange with the wallet: the requests   *)
(* that were made, and the answers to each that are stored.                *)
(*                                                                         *)
(* SigningExchange implements this, and BrowserSession builds on it: the   *)
(* two models meet here.  Nothing is said of when answers are discarded.   *)
(***************************************************************************)

CONSTANTS
  Nonce,  \* signing requests
  Doc,    \* the documents they are about
  NULL    \* no request; as an answer, the report of a failure

VARIABLES
  request,  \* request[n]: what request n asks to be signed, and how it is sent
  box       \* box[n]: the answers to n that are stored

vars == <<request, box>>

Delivery == {"request_uri", "link"}
Request == [doc : Doc, delivery : Delivery]

Init ==
  /\ request = [n \in Nonce |-> NULL]
  /\ box = [n \in Nonce |-> {}]

Create(n, r) ==
  /\ request[n] = NULL
  /\ request' = [request EXCEPT ![n] = r]
  /\ UNCHANGED box

\* A wallet answers a request that was recorded, perhaps more than once, with the
\* signed document or the report of a failure.
Answer(n) ==
  /\ request[n] \in [doc : Doc, delivery : {"request_uri"}]
  /\ \E content \in {request[n].doc, NULL} : box' = [box EXCEPT ![n] = @ \cup {content}]
  /\ UNCHANGED request

\* Answers were taken by somebody, or are too old.
Discard ==
  /\ \E lost \in SUBSET UNION {{n} \X box[n] : n \in Nonce} :
       box' = [n \in Nonce |-> {content \in box[n] : <<n, content>> \notin lost}]
  /\ UNCHANGED request

Next ==
  \/ \E n \in Nonce : Answer(n) \/ \E r \in Request : Create(n, r)
  \/ Discard

Spec == Init /\ [][Next]_vars
=============================================================================
