--------------------------- MODULE MCRelyingParty ---------------------------
(* Settings for the run of RelyingParty. *)
EXTENDS RelyingParty, TLC

\* Every path leads to what it should, and the key fits the algorithm.
Good(source) ==
  [source |-> source, algorithm |-> "ES",
   at |-> "ACCESS_CERTIFICATE_PRIVATE_KEY_PATH" :> {"EC"}
       @@ "ACCESS_CERTIFICATE_PATH" :> {"certificate"}
       @@ "ACCESS_CERTIFICATE_CA_PATH" :> {"certificate"}
       @@ "ACCESS_CERTIFICATE_P12_PATH" :> {"EC", "certificate", "ca_certificate"}
       @@ "SAMPLE_DOCUMENTS_FOLDER" :> {}
       @@ "LOGS_FOLDER" :> {}]

But(s, path, content) == [s EXCEPT !.at[path] = content]

\* Two that work; three that start and cannot sign: an RSA key for ES256, an empty
\* certificate file, a bundle without key; three whose keys do not load; and one
\* refused for each reason.
MCSetups ==
  {Good("p12"),
   But(Good("pem"), "ACCESS_CERTIFICATE_CA_PATH", {}),
   But(Good("pem"), "ACCESS_CERTIFICATE_PRIVATE_KEY_PATH", {"RSA"}),
   But(Good("pem"), "ACCESS_CERTIFICATE_PATH", {}),
   But(Good("p12"), "ACCESS_CERTIFICATE_P12_PATH", {"certificate"}),
   But(Good("pem"), "ACCESS_CERTIFICATE_PATH", MALFORMED),
   But(Good("pem"), "ACCESS_CERTIFICATE_PRIVATE_KEY_PATH", {}),
   But(Good("p12"), "ACCESS_CERTIFICATE_P12_PATH", MALFORMED),
   But(Good("pem"), "LOGS_FOLDER", UNSET),
   But(Good("p12"), "SAMPLE_DOCUMENTS_FOLDER", MISSING),
   Good("other")}
=============================================================================
