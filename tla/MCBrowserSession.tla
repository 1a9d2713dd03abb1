-------------------------- MODULE MCBrowserSession --------------------------
(* Model values and symmetry for the runs of BrowserSession. *)
EXTENDS BrowserSession, TLC

\* Documents and requests are interchangeable in every definition, and so are
\* tabs.  Handlers are not: a request takes the first that is free.
Symmetry == Permutations(Doc) \cup Permutations(Nonce) \cup Permutations(Tab)
=============================================================================
