------------------------- MODULE DocumentSelectPage -------------------------
(***************************************************************************)
(* The page on which the user picks a document and its signature options   *)
(* (document-select.html with document-select-options.js), and the handler *)
(* it submits to (select_signing_options).                                 *)
(*                                                                         *)
(* The page keeps the chosen options twice: in documentStates, which is    *)
(* what is submitted, and in the radio buttons, which is what the user     *)
(* sees.  Event handlers copy between the two and enable, disable, show    *)
(* and hide radio buttons.  An action is one event handler of the page,    *)
(* run to its end, or one answer of the service.  While the page waits for *)
(* an answer the user may go on using it.                                  *)
(*                                                                         *)
(* Left out: previews, toasts and CSS classes, which no handler reads.     *)
(***************************************************************************)
CONSTANTS
  Doc,       \* the files of the sample folder, each with a button of its own
  Refused,   \* those the service refuses: the name starts with a dot, or the
             \* file is gone since the page was rendered
  Level,     \* the conformance levels offered (bound: a subset of the four)
  NULL

VARIABLES
  documentStates,    \* documentStates[f]: the options of f, NULL if f is not listed
  selectedDocument,  \* the document whose options panel is open, or NULL
  checked,           \* checked[g]: the radio button of group g that is on, or NULL
  disabled,          \* the radio buttons that cannot be switched on
  visible,           \* the packagings whose radio button is not hidden
  locked,            \* the button "Save Options" is disabled
  submitShown,       \* the button "Continue" is shown
  sending,           \* what the page waits for an answer to, NULL if nothing
  left,              \* the page moved on to /document/sign
  stored             \* what the session of the browser holds, NULL if nothing

panel == <<checked, disabled, visible, locked>>
vars  == <<documentStates, selectedDocument, panel, submitShown, sending, left, stored>>

Container == {"No", "ASiC-S", "ASiC-E"}
Format    == {"X", "C", "P", "J"}
Packaging == {"Detached", "Attached", "Parallel", "Certification", "Revision",
              "Enveloped", "Enveloping"}
Radio     == Container \cup Format \cup Packaging \cup Level
Group     == {"container", "signature_format", "packaging", "level"}

Options == [container : Container, signature_format : Format \cup {NULL},
            packaging : Packaging \cup {NULL}, level : Level, confirmed : BOOLEAN]

ASSUME PageAssumption ==
  /\ Refused \subseteq Doc
  /\ Level \subseteq {"AdES-B-B", "AdES-B-T", "AdES-B-LT", "AdES-B-LTA"}
  /\ "AdES-B-B" \in Level
  /\ NULL \notin Doc \cup Radio \cup Options

\* Mutant of DEFAULT_OPTIONS: no container is pre-selected.
NO_CONTAINER == [container |-> NULL, signature_format |-> NULL, packaging |-> NULL,
                 level |-> "AdES-B-B", confirmed |-> FALSE]

DEFAULT_OPTIONS == [container |-> "No", signature_format |-> NULL, packaging |-> NULL,
                    level |-> "AdES-B-B", confirmed |-> FALSE]

PACKAGING_BY_FORMAT ==
  [C |-> {"Attached", "Detached", "Parallel"},
   P |-> {"Certification", "Revision"},
   X |-> {"Enveloped", "Enveloping", "Detached"},
   J |-> {"Detached", "Attached", "Parallel"}]

DEFAULT_PACKAGING_BY_FORMAT ==
  [C |-> "Attached", P |-> "Certification", X |-> "Enveloped", J |-> "Attached"]

ASiC == {"ASiC-S", "ASiC-E"}

\* What showPackagingOptions makes visible, and what is pre-selected.
Offered(container, format) ==
  IF container \in ASiC THEN {"Detached"} ELSE PACKAGING_BY_FORMAT[format]

Preselected(container, format) ==
  IF container \in ASiC THEN "Detached" ELSE DEFAULT_PACKAGING_BY_FORMAT[format]

Listed == {f \in Doc : documentStates[f] # NULL}

Init ==
  /\ documentStates = [f \in Doc |-> NULL]
  /\ selectedDocument = NULL
  /\ checked = [g \in Group |-> NULL]
  /\ disabled = {}
  /\ visible = {}
  /\ locked = FALSE
  /\ submitShown = FALSE
  /\ sending = NULL
  /\ left = FALSE
  /\ stored = NULL

-----------------------------------------------------------------------------
(* Opening the options panel of a document *)

\* Mutant of LockOptionsPanel: a confirmed document is not locked.
NeverLock(lock) == disabled' = {} /\ locked' = FALSE

\* Every radio button of the panel is set, those onChangeContainer has just
\* disabled included.
LockOptionsPanel(lock) ==
  /\ disabled' = IF lock THEN Radio ELSE {}
  /\ locked' = lock

\* Mutant of LoadOptionsPanel: the level is forgotten.
LoadAllButLevel(state) ==
  /\ checked' = [g \in Group |-> IF g = "level" THEN checked[g] ELSE state[g]]
  /\ visible' = IF state.signature_format = NULL THEN {}
                ELSE Offered(state.container, state.signature_format)

\* The handlers of the radio buttons run without resetting each other and save
\* what they have just read.
LoadOptionsPanel(state) ==
  /\ checked' = [g \in Group |-> state[g]]
  /\ visible' = IF state.signature_format = NULL THEN {}
                ELSE Offered(state.container, state.signature_format)

SelectDocument(f, states) ==
  /\ documentStates' = states
  /\ selectedDocument' = f
  /\ LoadOptionsPanel(states[f])
  /\ LockOptionsPanel(states[f].confirmed)

-----------------------------------------------------------------------------
(* What the user may do with the list of documents *)

\* updateDocumentsList: the page lists one document at a time.
PickDocument(f) ==
  /\ ~left
  /\ SelectDocument(f, [g \in Doc |-> IF g = f THEN DEFAULT_OPTIONS ELSE NULL])
  /\ submitShown' = FALSE
  /\ UNCHANGED <<sending, left, stored>>

ClickListItem(f) ==
  /\ ~left
  /\ f \in Listed
  /\ SelectDocument(f, documentStates)
  /\ UNCHANGED <<submitShown, sending, left, stored>>

\* The one document of the list: nothing is left to select.
RemoveItem(f) ==
  /\ ~left
  /\ f \in Listed
  /\ documentStates' = [documentStates EXCEPT ![f] = NULL]
  /\ selectedDocument' = NULL
  /\ submitShown' = FALSE
  /\ UNCHANGED <<panel, sending, left, stored>>

-----------------------------------------------------------------------------
(* What the user may do with the options *)

\* The panel is open, and a click on button r of group g changes it.
CanSwitchOn(g, r) ==
  /\ ~left
  /\ selectedDocument # NULL
  /\ r \notin disabled
  /\ checked[g] # r

\* Mutant of ChangeContainer: the saved packaging survives.
ChangeContainerOnly(c) ==
  /\ CanSwitchOn("container", c)
  /\ documentStates' = [documentStates EXCEPT ![selectedDocument].container = c]
  /\ checked' = [checked EXCEPT !["container"] = c, !["signature_format"] = NULL]
  /\ visible' = {}
  /\ disabled' = IF c \in ASiC THEN {"P", "J"} ELSE {}
  /\ UNCHANGED <<selectedDocument, locked, submitShown, sending, left, stored>>

\* Neither a format whose button is disabled nor the saved format is deselected.
ChangeContainer(c) ==
  /\ CanSwitchOn("container", c)
  /\ documentStates' = [documentStates EXCEPT ![selectedDocument].container = c,
                                              ![selectedDocument].packaging = NULL]
  /\ checked' = [checked EXCEPT
        !["container"] = c,
        !["signature_format"] = IF @ \in disabled THEN @ ELSE NULL,
        !["packaging"] = NULL]
  /\ visible' = {}
  /\ disabled' = (disabled \ Format) \cup (IF c \in ASiC THEN {"P", "J"} ELSE {})
  /\ UNCHANGED <<selectedDocument, locked, submitShown, sending, left, stored>>

ChangeSignatureFormat(v) ==
  LET container == IF checked["container"] = NULL THEN "No" ELSE checked["container"]
      packaging == Preselected(container, v)
  IN
  /\ CanSwitchOn("signature_format", v)
  /\ documentStates' = [documentStates EXCEPT ![selectedDocument].signature_format = v,
                                              ![selectedDocument].packaging = packaging]
  /\ checked' = [checked EXCEPT !["signature_format"] = v, !["packaging"] = packaging]
  /\ visible' = Offered(container, v)
  /\ UNCHANGED <<selectedDocument, disabled, locked, submitShown, sending, left, stored>>

ChangePackaging(p) ==
  /\ CanSwitchOn("packaging", p)
  /\ p \in visible
  /\ documentStates' = [documentStates EXCEPT ![selectedDocument].packaging = p]
  /\ checked' = [checked EXCEPT !["packaging"] = p]
  /\ UNCHANGED <<selectedDocument, disabled, visible, locked,
                 submitShown, sending, left, stored>>

ChangeLevel(l) ==
  /\ CanSwitchOn("level", l)
  /\ documentStates' = [documentStates EXCEPT ![selectedDocument].level = l]
  /\ checked' = [checked EXCEPT !["level"] = l]
  /\ UNCHANGED <<selectedDocument, disabled, visible, locked,
                 submitShown, sending, left, stored>>

AllConfirmed == Listed # {} /\ \A f \in Listed : documentStates[f].confirmed

\* Without a format or a packaging the button only complains.
ConfirmDocumentOptions ==
  /\ ~left
  /\ selectedDocument # NULL /\ ~locked
  /\ documentStates[selectedDocument].signature_format # NULL
  /\ documentStates[selectedDocument].packaging # NULL
  /\ documentStates' = [documentStates EXCEPT ![selectedDocument].confirmed = TRUE]
  /\ LockOptionsPanel(TRUE)
  /\ submitShown' = AllConfirmed'
  /\ UNCHANGED <<selectedDocument, checked, visible, sending, left, stored>>

-----------------------------------------------------------------------------
(* Submitting the options *)

\* handleSubmit and submitAll, up to the await: the button is disabled until the
\* answer is there, the rest of the page is not.
Submit ==
  /\ ~left
  /\ submitShown /\ sending = NULL
  /\ AllConfirmed
  /\ sending' = {[document |-> f, options |-> documentStates[f]] : f \in Listed}
  /\ UNCHANGED <<documentStates, selectedDocument, panel, submitShown, left, stored>>

\* SigningOptions: every choice is one of those offered, and none is missing.
SigningOptions(options) ==
  /\ options.container \in Container /\ options.signature_format \in Format
  /\ options.packaging \in Packaging /\ options.level \in Level

\* What select_signing_options stores in the session instead of an error.
Acceptable(sent) ==
  /\ \E d \in sent : sent = {d}
  /\ \A d \in sent : d.document \notin Refused /\ SigningOptions(d.options)

\* Mutant of Answered: options that cannot be used are skipped, as select_document
\* skips files, and what is left is stored.
AnsweredInPart ==
  /\ sending # NULL
  /\ stored' = {d \in sending : Acceptable({d})}
  /\ sending' = NULL
  /\ left' = TRUE
  /\ UNCHANGED <<documentStates, selectedDocument, panel, submitShown>>

\* An error of select_signing_options is a JSON list with status 200, which is as
\* good as success to the page.
Answered ==
  /\ sending # NULL
  /\ stored' = IF Acceptable(sending) THEN sending ELSE stored
  /\ sending' = NULL
  /\ left' = TRUE
  /\ UNCHANGED <<documentStates, selectedDocument, panel, submitShown>>

\* The request or its answer is lost, or the answer is a 500.
SubmitFails ==
  /\ sending # NULL
  /\ stored' \in {stored, IF Acceptable(sending) THEN sending ELSE stored}
  /\ sending' = NULL
  /\ UNCHANGED <<documentStates, selectedDocument, panel, submitShown, left>>

\* The page is loaded again, which clears the session (select_document).  Bound:
\* not while the page waits for an answer.
OpenPage ==
  /\ sending = NULL
  /\ documentStates' = [f \in Doc |-> NULL]
  /\ selectedDocument' = NULL
  /\ checked' = [g \in Group |-> NULL]
  /\ disabled' = {} /\ visible' = {}
  /\ locked' = FALSE
  /\ submitShown' = FALSE
  /\ left' = FALSE
  /\ stored' = NULL
  /\ UNCHANGED sending

Next ==
  \/ \E f \in Doc : PickDocument(f) \/ ClickListItem(f) \/ RemoveItem(f)
  \/ \E c \in Container : ChangeContainer(c)
  \/ \E v \in Format : ChangeSignatureFormat(v)
  \/ \E p \in Packaging : ChangePackaging(p)
  \/ \E l \in Level : ChangeLevel(l)
  \/ ConfirmDocumentOptions
  \/ Submit \/ Answered \/ SubmitFails
  \/ OpenPage

Spec == Init /\ [][Next]_vars

-----------------------------------------------------------------------------
(* Properties *)

\* What documentStates and the buttons may hold.
TypeOK ==
  /\ documentStates \in [Doc -> Options \cup {NULL}]
  /\ selectedDocument \in Doc \cup {NULL}
  /\ checked \in [Group -> Radio \cup {NULL}]
  /\ disabled \subseteq Radio
  /\ visible \subseteq Packaging
  /\ locked \in BOOLEAN /\ submitShown \in BOOLEAN /\ left \in BOOLEAN
  /\ \A sent \in {sending, stored} :
       sent = NULL \/ sent \subseteq [document : Doc, options : Options]

\* However the user changes container, format and packaging, clicks the document
\* in the list and changes them again, the saved packaging is one the page offers
\* for the saved container and format: the handlers reset what a change made
\* invalid (onChangeContainer, onChangeSignatureFormat).
PackagingFits ==
  \A f \in Listed :
    LET o == documentStates[f] IN
    o.packaging # NULL =>
      o.signature_format # NULL /\ o.packaging \in Offered(o.container, o.signature_format)

\* When the options of the open panel are confirmed, the buttons that are on show
\* exactly the options that will be submitted, although the two are kept apart
\* (saveOption, setRadio).
ConfirmedIsShown ==
  (selectedDocument # NULL /\ documentStates[selectedDocument].confirmed) =>
    \A g \in Group : checked[g] = documentStates[selectedDocument][g]

\* Confirmed options never change: a user who wants others has to pick the
\* document anew (lockOptionsPanel).
ConfirmedIsFrozen ==
  [][\A f \in Listed \cap Listed' :
       documentStates[f].confirmed /\ documentStates'[f].confirmed
         => documentStates'[f] = documentStates[f]]_vars

\* The session only ever holds the complete, confirmed options of one document the
\* service can read, whatever is picked while the page waits for the answer.
StoredIsConfirmed ==
  stored # NULL =>
    \E d \in stored : /\ stored = {d}
                      /\ d.document \notin Refused
                      /\ d.options.confirmed
                      /\ d.options.signature_format # NULL
                      /\ d.options.packaging # NULL

-----------------------------------------------------------------------------
(* What the script says of itself and does not do *)

\* An ASiC container is only confirmed with a detached XAdES or CAdES signature.
AsicIsDetached ==
  \A f \in Listed :
    LET o == documentStates[f] IN
    (o.confirmed /\ o.container \in ASiC) =>
      o.packaging = "Detached" /\ o.signature_format \in {"X", "C"}

\* The page moves on only when the service has stored the options.
RedirectMeansStored == left => stored # NULL
=============================================================================
