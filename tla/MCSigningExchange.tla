------------------------- MODULE MCSigningExchange -------------------------
(* Model values and symmetry for the runs of SigningExchange. *)
EXTENDS SigningExchange, TLC

\* Requests, uploads and views are interchangeable in every definition.
Symmetry == Permutations(Nonce) \cup Permutations(Upload) \cup Permutations(View)
=============================================================================
