------------------------- MODULE RelyingPartyProofs -------------------------
(***************************************************************************)
(* Proofs about RelyingParty, for every schema of the database, every set  *)
(* of settings and every size of the exchange: the memory of the process   *)
(* is what its phase says, and the service implements the exchange, whose  *)
(* theorems therefore hold of the service.                                 *)
(***************************************************************************)
EXTENDS RelyingParty, DurabilityProofs

-----------------------------------------------------------------------------
(* The memory of the process *)

\* create_app only gets to the keys with settings it has validated.
KeysAreValidated == phase = "keys" => Validated(setup)

\* A pass has executed its first DELETE only if the flag of sd was True, and flags
\* do not go back while the process lives.
DeletesAreFlagged == thread = "deleted_sd" => "sd" \in flags

ServiceIInv == ServiceTypeOK /\ KeysAreValidated /\ DeletesAreFlagged

\* What the loader returns for validated settings is key material, or nothing.
LEMMA MaterialIsParts ==
  ASSUME NEW s \in Setup, Validated(s)
  PROVE  LoadKeyMaterial(s) \in Parts \cup {NULL}
<1>1. CASE s.source = "p12"
  <2> DEFINE bundle == s.at["ACCESS_CERTIFICATE_P12_PATH"]
  <2>1. bundle \in Content /\ bundle \notin {UNSET, MISSING}
    BY <1>1 DEF Setup, Path, Validated, Required
  <2>2. bundle # MALFORMED => bundle \in Parts
    BY <2>1 DEF Content
  <2> QED
    BY <1>1, <2>2 DEF LoadKeyMaterial, FromP12
<1>2. CASE s.source # "p12"
  <2> DEFINE key   == s.at["ACCESS_CERTIFICATE_PRIVATE_KEY_PATH"]
             certs == {"certificate", "ca_certificate"}
  <2>1. key \in Content /\ key \notin {UNSET, MISSING}
    BY <1>2 DEF Setup, Path, PemPath, Validated, Required
  <2>2. key # MALFORMED => key \in Parts
    BY <2>1 DEF Content
  <2>3. ASSUME NEW extra \in SUBSET certs, key \in Parts
        PROVE  (key \cap PrivateKey) \cup extra \in Parts
    <3>1. certs \cap PrivateKey = {}
      BY DEF PrivateKey, KeyOf
    <3> QED
      BY <2>3, <3>1 DEF Parts, Part
  <2> DEFINE cert == IF LoadsCertificate(s.at["ACCESS_CERTIFICATE_PATH"])
                     THEN {"certificate"} ELSE {}
             ca == IF LoadsCertificate(s.at["ACCESS_CERTIFICATE_CA_PATH"])
                   THEN {"ca_certificate"} ELSE {}
  <2>4. cert \cup ca \in SUBSET certs
    OBVIOUS
  <2>5. \/ FromPemFiles(s) = NULL
        \/ key # MALFORMED /\ FromPemFiles(s) = (key \cap PrivateKey) \cup (cert \cup ca)
    BY DEF FromPemFiles
  <2> HIDE DEF key, cert, ca, certs
  <2> QED
    BY <1>2, <2>2, <2>3, <2>4, <2>5 DEF LoadKeyMaterial
<1> QED
  BY <1>1, <1>2

LEMMA ServiceInitIInv == ServiceInit => ServiceIInv
  BY SetupAssumption DEF ServiceInit, ServiceIInv, ServiceTypeOK, KeysAreValidated,
                         DeletesAreFlagged, Phase, Thread

\* Every step of the process keeps the invariant; a step of the exchange does not
\* touch the memory.
LEMMA ServiceStepIInv ==
  ASSUME ServiceIInv, [ServiceNext]_serviceVars
  PROVE  ServiceIInv'
<1> USE DEF ServiceIInv, ServiceTypeOK, KeysAreValidated, DeletesAreFlagged,
           Phase, Thread
<1>1. ASSUME NEW s \in Setups, Launch(s) PROVE ServiceIInv'
  <2>1. s # NULL /\ Validated(s) /\ material = NULL /\ flags = {}
    BY <1>1, SetupAssumption DEF Launch
  <2> QED
    BY <1>1, <2>1 DEF Launch
<1>2. CASE InitJwtKeyMaterial
  <2>1. setup \in Setup /\ Validated(setup)
    BY <1>2, SetupAssumption DEF InitJwtKeyMaterial
  <2>2. LoadKeyMaterial(setup) \in Parts
    BY <1>2, <2>1, MaterialIsParts DEF InitJwtKeyMaterial
  <2>3. material' # NULL
    BY <1>2 DEF InitJwtKeyMaterial
  <2> QED
    BY <1>2, <2>2, <2>3 DEF InitJwtKeyMaterial
<1>3. ASSUME NEW t \in {"sd", "sdo"}, InitDbSchemaFlag(t) PROVE ServiceIInv'
  <2>1. columns \subseteq {"sd", "sdo"}
    BY ExchangeAssumption
  <2>2. flags' = {c \in columns' : phase' = "up" \/ (phase' = "sdo" /\ c = "sd")}
    BY <1>3, <2>1 DEF InitDbSchemaFlag, ColumnExists
  <2> QED
    BY <1>3, <2>2 DEF InitDbSchemaFlag
<1>4. CASE ProcessEnds
  BY <1>4, SetupAssumption DEF ProcessEnds
<1>5. CASE PassBegins
  BY <1>5 DEF PassBegins
<1>6. CASE PassEnds \/ PassFails
  BY <1>6 DEF PassEnds, PassFails
<1>7. CASE UNCHANGED <<columns, processVars>>
  BY <1>7 DEF processVars
<1> QED
  BY <1>1, <1>2, <1>3, <1>4, <1>5, <1>6, <1>7
     DEF ServiceNext, StartupFails, Crash, Serve, TimePasses, serviceVars

LEMMA ServiceInvariance == ServiceSpec => []ServiceIInv
  BY ServiceInitIInv, ServiceStepIInv, PTL DEF ServiceSpec

\* In every phase the memory of the process holds what that phase has loaded.
THEOREM MemoryFitsPhase == ServiceSpec => []ServiceTypeOK
<1>1. ServiceIInv => ServiceTypeOK
  BY DEF ServiceIInv
<1> QED
  BY <1>1, ServiceInvariance, PTL

-----------------------------------------------------------------------------
(* The service implements the exchange *)

\* The flags a pass has read are of tables that have the column, whenever in the
\* start-up it read them: no pass fails for want of it.
LEMMA PassIsCleanup ==
  ASSUME ServiceIInv, PassDeletes
  PROVE  DeleteExpired
<1>1. PassTables \subseteq columns
  BY DEF PassTables, ServiceIInv, ServiceTypeOK, DeletesAreFlagged
<1>2. PassTables \in SUBSET TimedTables
  BY <1>1 DEF ServiceIInv, ServiceTypeOK
<1> QED
  BY <1>1, <1>2 DEF PassDeletes, DeleteExpired

\* A step of the service is a step of the exchange, or leaves it alone.
LEMMA ServiceStepIsExchangeStep ==
  ASSUME ServiceIInv, [ServiceNext]_serviceVars
  PROVE  [Next]_vars
<1>1. CASE UNCHANGED vars
  BY <1>1
<1>2. CASE ProcessEnds
  BY <1>2 DEF ProcessEnds, Next
<1>3. CASE PassEnds \/ PassFails
  <2>1. UNCHANGED vars \/ DeleteExpired
    BY <1>3, PassIsCleanup DEF PassEnds, PassFails
  <2> QED
    BY <2>1 DEF Next
<1>4. CASE Serve
  BY <1>4 DEF Serve, CreateRequest, Next
<1>5. CASE TimePasses
  BY <1>5 DEF TimePasses, Next
<1>6. ASSUME \/ \E s \in Setups : Launch(s)
             \/ InitJwtKeyMaterial
             \/ \E t \in {"sd", "sdo"} : InitDbSchemaFlag(t)
             \/ PassBegins
      PROVE  UNCHANGED vars
  BY <1>6 DEF Launch, InitJwtKeyMaterial, InitDbSchemaFlag, PassBegins
<1> QED
  BY <1>1, <1>2, <1>3, <1>4, <1>5, <1>6
     DEF ServiceNext, StartupFails, Crash, serviceVars

\* Whatever the order of start-up, thread and handlers, the tables go only
\* through states and steps of the exchange.
THEOREM ServiceIsExchange == ServiceSpec => ImplementsExchange
<1>1. ServiceInit => Init
  BY DEF ServiceInit
<1>2. ServiceIInv /\ [ServiceNext]_serviceVars => [Next]_vars
  BY ServiceStepIsExchangeStep
<1> QED
  BY <1>1, <1>2, ServiceInvariance, PTL DEF ServiceSpec, Spec, ImplementsExchange

\* So requests of the service are closed only by an answer or by age.
THEOREM ServiceClosesAnswered == ServiceSpec => []ClosedMeansAnswered
  BY ServiceIsExchange, ClosedIsAnswered, PTL DEF ImplementsExchange

\* To wallets and browsers the service with its start-up and its thread is the
\* mailbox of each request.
THEOREM ServiceIsMailbox == ServiceSpec => ImplementsMailbox
  BY ServiceIsExchange, ExchangeIsMailbox, PTL DEF ImplementsExchange

\* To the session of a browser it is what BrowserSession builds on.
THEOREM ServiceIsAnswerBox == ServiceSpec => ImplementsAnswerBox
  BY ServiceIsExchange, ExchangeIsAnswerBox, PTL DEF ImplementsExchange

\* An OK is as durable, and a page shows an answer, whatever the schema of the
\* database and whenever the process ends.
THEOREM ServiceIsDurable == ServiceSpec => [](OkIsDurable /\ PageShowsAnAnswer)
  BY ServiceIsExchange, OkIsAlwaysDurable, PageAlwaysShowsAnAnswer, PTL
     DEF ImplementsExchange

=============================================================================
