---------------------------- MODULE RelyingParty ----------------------------
(***************************************************************************)
(* The service as a process: create_app (app/__init__.py), the cleanup     *)
(* thread it starts (app/utils/cleanup.py) and, once it is up, the         *)
(* handlers of SigningExchange.                                            *)
(*                                                                         *)
(* create_app starts the thread before it has loaded the keys and before   *)
(* it knows which tables have a created_at column, so the first passes of  *)
(* the thread run beside the rest of the start-up.  When start-up fails,   *)
(* the process ends, and the thread, a daemon, with it.  Nothing restarts  *)
(* it: the service is launched again by hand, with the settings of then.   *)
(***************************************************************************)
EXTENDS SigningExchange

CONSTANTS
  UNSET, MISSING, MALFORMED,  \* see KeyMaterial
  Setups                      \* the settings the service may be launched with

INSTANCE KeyMaterial

ASSUME SetupAssumption ==
  /\ Setups \subseteq Setup /\ NULL \notin Setup
  /\ \A parts \in Parts : parts # NULL

VARIABLES
  columns,   \* the tables of this database that have a created_at column
  phase,     \* what create_app does next; "up" when it has returned
  setup,     \* the settings the process was launched with
  material,  \* _key_material: the parts that are not None
  flags,     \* the tables whose flag _sd_has_created_at or
             \* _sdo_has_created_at is True
  thread     \* the cleanup thread, and what its pass did with table sd

processVars == <<phase, setup, material, flags, thread>>
serviceVars == <<vars, columns, processVars>>

\* "keys": init_jwt_key_material; "sd", "sdo": the flags of init_db_schema_flags.
Phase == {"down", "keys", "sd", "sdo", "up"}

\* "waiting": for the next pass; the others: in a pass that has, or has not,
\* executed the DELETE on sd.
Thread == {"none", "waiting", "deleted_sd", "spared_sd"}

ServiceInit ==
  /\ Init
  /\ columns \in SUBSET TimedTables
  /\ phase = "down"
  /\ setup = NULL /\ material = NULL /\ flags = {} /\ thread = "none"

-----------------------------------------------------------------------------
(* create_app *)

\* Up to the start of the thread create_app is alone.  A launch whose logging or
\* settings are refused changes nothing.
Launch(s) ==
  /\ phase = "down"
  /\ LoggingConfigured(s) /\ Validated(s)
  /\ phase' = "keys"
  /\ setup' = s
  /\ thread' = "waiting"
  /\ UNCHANGED <<vars, columns, material, flags>>

InitJwtKeyMaterial ==
  /\ phase = "keys"
  /\ LoadKeyMaterial(setup) # NULL
  /\ material' = LoadKeyMaterial(setup)
  /\ phase' = "sd"
  /\ UNCHANGED <<vars, columns, setup, flags, thread>>

\* Mutant of ColumnExists: the other table is asked for.
OtherColumnExists(t) == (IF t = "sd" THEN "sdo" ELSE "sd") \in columns

ColumnExists(t) == t \in columns

\* init_db_schema_flags sets one flag after the other, the thread running.
InitDbSchemaFlag(t) ==
  /\ phase = t
  /\ flags' = flags \cup (IF ColumnExists(t) THEN {t} ELSE {})
  /\ phase' = IF t = "sd" THEN "sdo" ELSE "up"
  /\ UNCHANGED <<vars, columns, setup, material, thread>>

\* The memory of the process is lost, the tables are not.
ProcessEnds ==
  /\ phase' = "down"
  /\ setup' = NULL /\ material' = NULL /\ flags' = {} /\ thread' = "none"
  /\ Restart
  /\ UNCHANGED columns

\* create_app raises.
StartupFails ==
  /\ \/ phase = "keys" /\ LoadKeyMaterial(setup) = NULL
     \/ phase \in {"sd", "sdo"} /\ DbFaults # {}
  /\ ProcessEnds

Crash == phase # "down" /\ ProcessEnds

-----------------------------------------------------------------------------
(* CleanupThread.run *)

\* The pass connects and reads the flag of sd.
PassBegins ==
  /\ thread = "waiting"
  /\ thread' = IF "sd" \in flags THEN "deleted_sd" ELSE "spared_sd"
  /\ UNCHANGED <<vars, columns, phase, setup, material, flags>>

\* Mutant of PassTables: the flags are not looked at.  (From a table without the
\* column nothing is deleted either way, but the pass fails as a whole.)
PassAnyTable == {"sd", "sdo"}

\* The tables the pass deletes from: it reads the flag of sdo only now.
PassTables ==
  (IF thread = "deleted_sd" THEN {"sd"} ELSE {}) \cup (flags \cap {"sdo"})

\* Mutants of PassDeletes: the name that is unbound when a table was spared is
\* used before the commit; the condition on created_at is forgotten.
PassRaisesFirst ==
  IF PassTables = {"sd", "sdo"}
  THEN DeleteExpiredIn(PassTables)
  ELSE UNCHANGED vars
PassDeletesAll ==
  /\ sdo' = IF "sdo" \in PassTables THEN {} ELSE sdo
  /\ UNCHANGED <<clock, issued, linked, sd, nextId, upVars, vwVars>>

\* A DELETE by created_at from a table that has no such column is an error, and what
\* the pass deleted before is rolled back.  Otherwise delete_expired_entries
\* commits, and only then raises UnboundLocalError unless it deleted from both tables.
PassDeletes ==
  IF PassTables \subseteq columns THEN DeleteExpiredIn(PassTables) ELSE UNCHANGED vars

\* Whatever the pass raised is caught, and the thread waits for the next one.
\* (A DELETE takes the time of its statement: what expires between it and the
\* commit is left to the next pass, as if the pass had been earlier.)
PassEnds ==
  /\ thread \in {"deleted_sd", "spared_sd"}
  /\ PassDeletes
  /\ thread' = "waiting"
  /\ UNCHANGED <<columns, phase, setup, material, flags>>

PassFails ==
  /\ thread \in {"deleted_sd", "spared_sd"}
  /\ DbFaults # {}
  /\ \/ UNCHANGED vars
     \/ "lost_ack" \in DbFaults /\ PassDeletes
  /\ thread' = "waiting"
  /\ UNCHANGED <<columns, phase, setup, material, flags>>

-----------------------------------------------------------------------------
(* The service *)

\* Building a request that is delivered by reference signs it, before its row
\* is inserted; one that goes into the link is not signed.  A process that cannot
\* sign fails each request by reference, and is up all the same.
CreateRequest(n) ==
  \/ CanSign(setup.algorithm, material) /\ IssueFails(n)
  \/ \E d \in Deliveries :
       /\ d = "request_uri" => CanSign(setup.algorithm, material)
       /\ IssueRequest(n, d)

\* The handlers run once create_app has returned.
Serve ==
  /\ phase = "up"
  /\ \/ \E n \in Nonce : CreateRequest(n)
     \/ \E u \in Upload :
          \/ \E n \in Nonce, docs \in (0..MaxDocs) \cup {NULL} :
               BeginUpload(u, n, docs)
          \/ StoreDocuments(u) \/ StoreFailureReport(u) \/ StoreFails(u)
          \/ CloseRequest(u) \/ CloseFails(u)
     \/ \E v \in View :
          \/ \E n \in Nonce : BeginView(v, n)
          \/ FinishView(v) \/ ViewFails(v)
  /\ UNCHANGED <<columns, processVars>>

TimePasses == Tick /\ UNCHANGED <<columns, processVars>>

ServiceNext ==
  \/ \E s \in Setups : Launch(s)
  \/ InitJwtKeyMaterial
  \/ \E t \in {"sd", "sdo"} : InitDbSchemaFlag(t)
  \/ StartupFails \/ Crash
  \/ PassBegins \/ PassEnds \/ PassFails
  \/ Serve \/ TimePasses

ServiceSpec == ServiceInit /\ [][ServiceNext]_serviceVars

\* create_app runs to its end, the thread makes one pass after the other, and the
\* database does not refuse every pass.  Nobody is bound to launch the service.
FairServiceSpec ==
  /\ ServiceSpec
  /\ WF_serviceVars(InitJwtKeyMaterial)
  /\ \A t \in {"sd", "sdo"} : WF_serviceVars(InitDbSchemaFlag(t))
  /\ WF_serviceVars(StartupFails)
  /\ WF_serviceVars(PassBegins)
  /\ SF_serviceVars(PassEnds)

-----------------------------------------------------------------------------
(* Properties *)

\* The types, and what the memory of the process holds in each phase: a flag is
\* True only for a table with the column, and once create_app has returned it is
\* True for each of them.
ServiceTypeOK ==
  /\ columns \in SUBSET TimedTables
  /\ phase \in Phase
  /\ setup \in Setups \cup {NULL} /\ (setup # NULL <=> phase # "down")
  /\ material \in {NULL} \cup Parts
  /\ material # NULL <=> phase \in {"sd", "sdo", "up"}
  /\ flags = {t \in columns : phase = "up" \/ (phase = "sdo" /\ t = "sd")}
  /\ thread \in Thread /\ (thread = "none" <=> phase = "down")

\* Request n still has a row a pass of the cleanup should have deleted.
Overdue(n) ==
  \/ "sd" \in columns /\ sd[n] # NULL /\ Expired(sd[n])
  \/ "sdo" \in columns /\ \E r \in RowsOf(n) : Expired(r.created_at)

\* A row of a table with a created_at column is eventually deleted once it is
\* older than DB_ENTRY_MAX_AGE_SECONDS, even if nobody ever asks for it again,
\* every pass raises after its commit, the other table has no such column, and the
\* first passes ran before the flags were set; unless the process ends.
ExpiredIsPurged ==
  \A n \in Nonce : Overdue(n) ~> (~Overdue(n) \/ phase = "down")

\* The process, its start-ups and its thread do to the tables only what the
\* exchange allows, so what is true of the exchange is true of the service.
ImplementsExchange == Spec
=============================================================================
