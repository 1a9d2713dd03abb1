----------------------------- MODULE KeyMaterial -----------------------------
(***************************************************************************)
(* What create_app makes of the settings before it serves anything:        *)
(* configure_logging, validate_settings (app/core) and                     *)
(* init_jwt_key_material (app/services/key_service.py).                    *)
(*                                                                         *)
(* A setup is the environment and the files of one start of the service.   *)
(* Of a file only matters which parts of the key material a loader finds   *)
(* in it, and of which kind the key is; PEM, DER and passwords are left    *)
(* out: a file no loader can read is MALFORMED.                            *)
(***************************************************************************)

CONSTANTS
  UNSET,      \* the setting is not set, or empty
  MISSING,    \* there is nothing at the path
  MALFORMED,  \* what is there cannot be read, or created
  NULL        \* no key material

\* JWT_ALGORITHM by family, with the kind of private key PyJWT signs with; "other"
\* is a family with a shared secret, or a name PyJWT does not know.
KeyOf == [ES |-> "EC", RS |-> "RSA", EdDSA |-> "Ed25519"]
Algorithm == DOMAIN KeyOf \cup {"none", "other"}

PrivateKey == {KeyOf[a] : a \in DOMAIN KeyOf}
Part == PrivateKey \cup {"certificate", "ca_certificate"}

\* A bundle has one private key at most; of a file with more the first is taken.
Parts == {c \in SUBSET Part : \A k, l \in c \cap PrivateKey : k = l}

PemPath == {"ACCESS_CERTIFICATE_PRIVATE_KEY_PATH", "ACCESS_CERTIFICATE_PATH",
            "ACCESS_CERTIFICATE_CA_PATH"}
Path == PemPath \cup {"ACCESS_CERTIFICATE_P12_PATH",
                      "SAMPLE_DOCUMENTS_FOLDER", "LOGS_FOLDER"}

\* What a path leads to.  An empty file holds no part, nor does a folder; where a
\* file is expected a folder is MALFORMED.
Content == {UNSET, MISSING, MALFORMED} \cup Parts

Setup == [source : {"pem", "p12", "other"}, algorithm : Algorithm,
          at : [Path -> Content]]

\* configure_logging makes the folder of the logs, or fails.
LoggingConfigured(s) == s.at["LOGS_FOLDER"] \notin {UNSET, MALFORMED}

\* The paths validate_settings looks at.  It looks at LOGS_FOLDER too, which is
\* there by then.
Required(s) ==
  {"SAMPLE_DOCUMENTS_FOLDER"} \cup
  (IF s.source = "p12" THEN {"ACCESS_CERTIFICATE_P12_PATH"} ELSE PemPath)

\* validate_settings does not look into the files.
Validated(s) ==
  /\ s.source # "other"
  /\ \A p \in Required(s) : s.at[p] \notin {UNSET, MISSING}

\* _load_certificate_any_encoding raises nothing for an empty file: the
\* certificate is None.
NoCertificate(content) == content # MALFORMED /\ content = {}
LoadsCertificate(content) == content # MALFORMED /\ "certificate" \in content

\* _load_from_pem_files, NULL if it raises: three files with one part each.
FromPemFiles(s) ==
  LET key  == s.at["ACCESS_CERTIFICATE_PRIVATE_KEY_PATH"]
      cert == s.at["ACCESS_CERTIFICATE_PATH"]
      ca   == s.at["ACCESS_CERTIFICATE_CA_PATH"]
  IN IF /\ key # MALFORMED /\ key \cap PrivateKey # {}
        /\ \A c \in {cert, ca} : LoadsCertificate(c) \/ NoCertificate(c)
     THEN (key \cap PrivateKey)
          \cup (IF LoadsCertificate(cert) THEN {"certificate"} ELSE {})
          \cup (IF LoadsCertificate(ca) THEN {"ca_certificate"} ELSE {})
     ELSE NULL

\* _load_from_p12, NULL if it raises: what the bundle lacks is None.
FromP12(s) ==
  LET bundle == s.at["ACCESS_CERTIFICATE_P12_PATH"]
  IN IF bundle \in {MALFORMED, {}} THEN NULL ELSE bundle

\* _load_key_material, for validated settings.
LoadKeyMaterial(s) == IF s.source = "p12" THEN FromP12(s) ELSE FromPemFiles(s)

\* jwt.encode takes a key of the kind of its algorithm, and no key for "none".
TakesKey(algorithm, material) ==
  IF algorithm = "none" THEN material \cap PrivateKey = {}
  ELSE algorithm \in DOMAIN KeyOf /\ KeyOf[algorithm] \in material

\* Whether _get_jar_from_request_object makes a JWT of a request.  The certificate
\* None has no public_bytes; the one of the CA may be None.  Nothing looks at any of
\* this before the first request.
CanSign(algorithm, material) ==
  "certificate" \in material /\ TakesKey(algorithm, material)
=============================================================================
