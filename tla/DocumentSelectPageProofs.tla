----------------------- MODULE DocumentSelectPageProofs -----------------------
(***************************************************************************)
(* Proofs about DocumentSelectPage, for every set of documents, refused    *)
(* ones among them, and every choice of conformance levels: what the page  *)
(* submits is what it shows, whatever the user clicks in which order.      *)
(***************************************************************************)
EXTENDS DocumentSelectPage, TLAPS

-----------------------------------------------------------------------------
(* The inductive invariant *)

\* The list has at most one document, and the open panel is that document's.
OneIsListed == \A f, g \in Listed : f = g
SelectedIsListed == selectedDocument # NULL => selectedDocument \in Listed

\* The options of the document whose panel is open.
Open == documentStates[selectedDocument]

\* The buttons of the open panel show the saved options, but for the format: after
\* another container was chosen its button is off, while documentStates keeps it.
\* It is on again when a packaging is saved or can be chosen.
PanelShowsOptions ==
  selectedDocument # NULL =>
    /\ \A g \in {"container", "packaging", "level"} : checked[g] = Open[g]
    /\ Open.packaging # NULL \/ visible # {} =>
         checked["signature_format"] = Open.signature_format

\* Only packagings that go with the saved container and format can be chosen.
VisibleIsOffered ==
  (selectedDocument # NULL /\ visible # {}) =>
    /\ Open.signature_format # NULL
    /\ visible = Offered(Open.container, Open.signature_format)

\* The panel of a confirmed document does not react.
ConfirmedIsLocked ==
  (selectedDocument # NULL /\ Open.confirmed) => disabled = Radio /\ locked

\* Options are only confirmed when they are complete, and only sent when confirmed.
Complete(o) == o.confirmed => o.signature_format # NULL /\ o.packaging # NULL
ConfirmedIsComplete == \A f \in Listed : Complete(documentStates[f])
SentIsConfirmed ==
  sending # NULL => \A d \in sending : d.options.confirmed /\ Complete(d.options)

PageInv ==
  /\ OneIsListed /\ SelectedIsListed
  /\ PackagingFits /\ PanelShowsOptions /\ VisibleIsOffered
  /\ ConfirmedIsLocked /\ ConfirmedIsComplete

IInv == TypeOK /\ PageInv /\ SentIsConfirmed /\ StoredIsConfirmed

-----------------------------------------------------------------------------
(* The options of a document *)

LEMMA OfferedIsPackaging ==
  ASSUME NEW c \in Container, NEW v \in Format
  PROVE  /\ Offered(c, v) \subseteq Packaging
         /\ Preselected(c, v) \in Offered(c, v)
BY DEF Offered, Preselected, Format, Packaging, PACKAGING_BY_FORMAT,
       DEFAULT_PACKAGING_BY_FORMAT

LEMMA ButtonsAreRadios ==
  ASSUME NEW o \in Options
  PROVE  [g \in Group |-> o[g]] \in [Group -> Radio \cup {NULL}]
<1>1. o["container"] \in Radio \cup {NULL} /\ o["signature_format"] \in Radio \cup {NULL}
  BY DEF Options, Radio
<1>2. o["packaging"] \in Radio \cup {NULL} /\ o["level"] \in Radio \cup {NULL}
  BY DEF Options, Radio
<1> QED
  BY <1>1, <1>2 DEF Group

LEMMA DefaultIsOptions == DEFAULT_OPTIONS \in Options
BY PageAssumption DEF DEFAULT_OPTIONS, Options, Container

LEMMA InitIInv == Init => IInv
<1> SUFFICES ASSUME Init PROVE IInv
  OBVIOUS
<1>1. Listed = {}
  BY DEF Init, Listed
<1>2. TypeOK
  BY DEF Init, TypeOK
<1> QED
  BY <1>1, <1>2 DEF Init, IInv, PageInv, OneIsListed, SelectedIsListed, PackagingFits,
     PanelShowsOptions, VisibleIsOffered, ConfirmedIsLocked, ConfirmedIsComplete,
     SentIsConfirmed, StoredIsConfirmed

-----------------------------------------------------------------------------
(* What the event handlers have in common *)

\* What PackagingFits says, of one document's options.
Fits(o) ==
  o.packaging # NULL =>
    o.signature_format # NULL /\ o.packaging \in Offered(o.container, o.signature_format)

\* The types of what the user works on.
PageTypes ==
  /\ documentStates \in [Doc -> Options \cup {NULL}]
  /\ selectedDocument \in Doc \cup {NULL}
  /\ checked \in [Group -> Radio \cup {NULL}]
  /\ disabled \subseteq Radio
  /\ visible \subseteq Packaging
  /\ locked \in BOOLEAN

\* selectDocument shows the one document of the list as it is saved.
LEMMA SelectShowsOptions ==
  ASSUME NEW f \in Doc, NEW states \in [Doc -> Options \cup {NULL}],
         states[f] # NULL, \A g \in Doc : states[g] # NULL => g = f,
         Fits(states[f]), Complete(states[f]),
         SelectDocument(f, states)
  PROVE  PageTypes' /\ PageInv'
<1> DEFINE o == states[f]
<1>1. /\ documentStates' = states /\ selectedDocument' = f
      /\ checked' = [g \in Group |-> o[g]]
      /\ visible' = IF o.signature_format = NULL THEN {}
                    ELSE Offered(o.container, o.signature_format)
      /\ disabled' = IF o.confirmed THEN Radio ELSE {}
      /\ locked' = o.confirmed
  BY DEF SelectDocument, LoadOptionsPanel, LockOptionsPanel
<1>2. o \in Options /\ f # NULL
  BY PageAssumption
<1>3. Listed' = {f}
  BY <1>1 DEF Listed
<1>4. PageTypes'
  <2>1. checked' \in [Group -> Radio \cup {NULL}]
    BY <1>1, <1>2, ButtonsAreRadios
  <2>2. visible' \subseteq Packaging
    BY <1>1, <1>2, OfferedIsPackaging DEF Options
  <2>3. disabled' \subseteq Radio /\ locked' \in BOOLEAN
    BY <1>1, <1>2 DEF Options
  <2> QED
    BY <1>1, <2>1, <2>2, <2>3 DEF PageTypes
<1>5. OneIsListed' /\ SelectedIsListed' /\ ConfirmedIsComplete'
  BY <1>1, <1>3 DEF OneIsListed, SelectedIsListed, ConfirmedIsComplete
<1>6. PackagingFits'
  BY <1>1, <1>3 DEF PackagingFits, Fits
<1>7. PanelShowsOptions'
  <2>1. \A g \in Group : checked'[g] = Open'[g]
    BY <1>1 DEF Open
  <2> QED
    BY <2>1 DEF PanelShowsOptions, Group
<1>8. VisibleIsOffered' /\ ConfirmedIsLocked'
  BY <1>1, <1>2 DEF VisibleIsOffered, ConfirmedIsLocked, Open, Options
<1> QED
  BY <1>4, <1>5, <1>6, <1>7, <1>8 DEF PageInv

\* saveOption changes the options of the document whose panel is open, and of no
\* other.
LEMMA SaveKeepsList ==
  ASSUME PageTypes, PageInv, selectedDocument # NULL, NEW o \in Options,
         Fits(o), Complete(o),
         documentStates' = [documentStates EXCEPT ![selectedDocument] = o],
         UNCHANGED selectedDocument
  PROVE  /\ documentStates' \in [Doc -> Options \cup {NULL}]
         /\ Open' = o
         /\ OneIsListed' /\ SelectedIsListed' /\ PackagingFits' /\ ConfirmedIsComplete'
<1>1. selectedDocument \in Doc /\ o # NULL
  BY PageAssumption DEF PageTypes
<1>2. /\ documentStates' \in [Doc -> Options \cup {NULL}]
      /\ Open' = o
      /\ \A f \in Doc \ {selectedDocument} : documentStates'[f] = documentStates[f]
  BY <1>1 DEF PageTypes, Open
<1>3. Listed' = Listed /\ selectedDocument \in Listed
  BY <1>1, <1>2 DEF Listed, PageInv, SelectedIsListed, Open
<1>4. Listed = {selectedDocument}
  BY <1>3 DEF PageInv, OneIsListed
<1>5. OneIsListed' /\ SelectedIsListed'
  BY <1>3 DEF PageInv, OneIsListed, SelectedIsListed
<1>6. PackagingFits' /\ ConfirmedIsComplete'
  BY <1>2, <1>3, <1>4 DEF PackagingFits, ConfirmedIsComplete, Fits, Open
<1> QED
  BY <1>2, <1>5, <1>6

\* A button of a confirmed document cannot be switched on.
LEMMA SwitchedIsOpen ==
  ASSUME PageTypes, PageInv, NEW g, NEW r \in Radio, CanSwitchOn(g, r)
  PROVE  /\ selectedDocument \in Doc /\ selectedDocument # NULL
         /\ Open \in Options /\ ~Open.confirmed
         /\ Fits(Open)
<1>1. selectedDocument \in Doc /\ selectedDocument \in Listed
  BY DEF CanSwitchOn, PageTypes, PageInv, SelectedIsListed
<1>2. Open \in Options /\ Fits(Open)
  BY <1>1 DEF PageTypes, PageInv, PackagingFits, Fits, Open, Listed
<1> QED
  BY <1>1, <1>2 DEF CanSwitchOn, PageInv, ConfirmedIsLocked

-----------------------------------------------------------------------------
(* The event handlers *)

LEMMA ListStep ==
  ASSUME PageTypes, PageInv, NEW f \in Doc,
         PickDocument(f) \/ ClickListItem(f) \/ RemoveItem(f)
  PROVE  PageTypes' /\ PageInv'
<1>1. CASE PickDocument(f)
  <2> DEFINE states == [g \in Doc |-> IF g = f THEN DEFAULT_OPTIONS ELSE NULL]
  <2>1. /\ states \in [Doc -> Options \cup {NULL}]
        /\ states[f] = DEFAULT_OPTIONS
        /\ \A g \in Doc : states[g] # NULL => g = f
    BY DefaultIsOptions
  <2>2. states[f] # NULL
    BY <2>1, DefaultIsOptions, PageAssumption
  <2>3. Fits(states[f]) /\ Complete(states[f])
    BY <2>1 DEF DEFAULT_OPTIONS, Fits, Complete
  <2>4. SelectDocument(f, states)
    BY <1>1 DEF PickDocument
  <2> HIDE DEF states
  <2> QED
    BY <2>1, <2>2, <2>3, <2>4, SelectShowsOptions
<1>2. CASE ClickListItem(f)
  <2>1. f \in Listed /\ SelectDocument(f, documentStates)
    BY <1>2 DEF ClickListItem
  <2>2. /\ documentStates \in [Doc -> Options \cup {NULL}]
        /\ documentStates[f] # NULL
        /\ \A g \in Doc : documentStates[g] # NULL => g = f
        /\ Fits(documentStates[f]) /\ Complete(documentStates[f])
    BY <2>1 DEF PageTypes, Listed, PageInv, OneIsListed, PackagingFits, Fits,
                ConfirmedIsComplete
  <2> QED
    BY <2>1, <2>2, SelectShowsOptions
<1>3. CASE RemoveItem(f)
  <2>1. /\ f \in Listed /\ selectedDocument' = NULL
        /\ documentStates' = [documentStates EXCEPT ![f] = NULL]
        /\ UNCHANGED <<checked, disabled, visible, locked>>
    BY <1>3 DEF RemoveItem, panel
  <2>2. Listed' = {}
    BY <2>1 DEF Listed, PageTypes, PageInv, OneIsListed
  <2>3. PageTypes'
    BY <2>1 DEF PageTypes
  <2>4. PageInv'
    BY <2>1, <2>2 DEF PageInv, OneIsListed, SelectedIsListed, PackagingFits,
       PanelShowsOptions, VisibleIsOffered, ConfirmedIsLocked, ConfirmedIsComplete
  <2> QED
    BY <2>3, <2>4
<1> QED
  BY <1>1, <1>2, <1>3

\* Another container: the packaging is dropped, so no options fit worse than before.
LEMMA ContainerStep ==
  ASSUME PageTypes, PageInv, NEW c \in Container, ChangeContainer(c)
  PROVE  PageTypes' /\ PageInv'
<1> DEFINE o == [Open EXCEPT !.container = c, !.packaging = NULL]
<1>1. /\ selectedDocument \in Doc /\ selectedDocument # NULL
      /\ Open \in Options /\ ~Open.confirmed
  BY SwitchedIsOpen DEF ChangeContainer, Radio
<1>2. documentStates' = [documentStates EXCEPT ![selectedDocument] = o]
  BY <1>1 DEF ChangeContainer, Open, PageTypes
<1>3. /\ o \in Options /\ o.container = c /\ o.packaging = NULL
      /\ o.level = Open.level /\ ~o.confirmed
  BY <1>1 DEF Options
<1> HIDE DEF o
<1>4. Fits(o) /\ Complete(o)
  BY <1>3 DEF Fits, Complete
<1>5. /\ documentStates' \in [Doc -> Options \cup {NULL}] /\ Open' = o
      /\ OneIsListed' /\ SelectedIsListed' /\ PackagingFits' /\ ConfirmedIsComplete'
  BY <1>1, <1>2, <1>3, <1>4, SaveKeepsList DEF ChangeContainer
<1>6. PageTypes'
  <2>1. checked' \in [Group -> Radio \cup {NULL}]
    BY DEF ChangeContainer, PageTypes, Radio, Group
  <2>2. disabled' \subseteq Radio
    BY DEF ChangeContainer, PageTypes, Radio, Format
  <2> QED
    BY <1>5, <2>1, <2>2 DEF ChangeContainer, PageTypes
<1>7. PanelShowsOptions'
  <2>1. /\ checked'["container"] = c /\ checked'["packaging"] = NULL
        /\ checked'["level"] = checked["level"]
    BY DEF ChangeContainer, PageTypes, Group
  <2>2. checked["level"] = Open["level"]
    BY <1>1 DEF PageInv, PanelShowsOptions
  <2>3. visible' = {}
    BY DEF ChangeContainer
  <2> QED
    BY <1>3, <1>5, <2>1, <2>2, <2>3 DEF PanelShowsOptions
<1>8. VisibleIsOffered' /\ ConfirmedIsLocked'
  BY <1>3, <1>5 DEF ChangeContainer, VisibleIsOffered, ConfirmedIsLocked
<1> QED
  BY <1>5, <1>6, <1>7, <1>8 DEF PageInv

\* A format: its packagings are shown and one of them is saved.
LEMMA FormatStep ==
  ASSUME PageTypes, PageInv, NEW v \in Format, ChangeSignatureFormat(v)
  PROVE  PageTypes' /\ PageInv'
<1>1. /\ selectedDocument \in Doc /\ selectedDocument # NULL
      /\ Open \in Options /\ ~Open.confirmed
  BY SwitchedIsOpen DEF ChangeSignatureFormat, Radio
<1> DEFINE c == Open.container
           p == Preselected(c, v)
           o == [Open EXCEPT !.signature_format = v, !.packaging = p]
<1>2. checked["container"] = c /\ checked["level"] = Open["level"] /\ c \in Container
  BY <1>1 DEF PageInv, PanelShowsOptions, Options
<1>3. c # NULL /\ v # NULL
  BY <1>2, PageAssumption DEF Radio
<1>4. p \in Offered(c, v) /\ Offered(c, v) \subseteq Packaging
  BY <1>2, OfferedIsPackaging
<1>5. /\ documentStates' = [documentStates EXCEPT ![selectedDocument].signature_format = v,
                                                  ![selectedDocument].packaging = p]
      /\ checked' = [checked EXCEPT !["signature_format"] = v, !["packaging"] = p]
      /\ visible' = Offered(c, v)
      /\ UNCHANGED <<selectedDocument, disabled, locked>>
  BY <1>2, <1>3 DEF ChangeSignatureFormat
<1> HIDE DEF p
<1>6. documentStates' = [documentStates EXCEPT ![selectedDocument] = o]
  BY <1>1, <1>5 DEF Open, PageTypes
<1>7. /\ o \in Options /\ o.container = c /\ o.signature_format = v /\ o.packaging = p
      /\ o.level = Open.level /\ ~o.confirmed
  BY <1>1, <1>4 DEF Options
<1> HIDE DEF o, c
<1>8. Fits(o) /\ Complete(o)
  BY <1>3, <1>4, <1>7 DEF Fits, Complete
<1>9. /\ documentStates' \in [Doc -> Options \cup {NULL}] /\ Open' = o
      /\ OneIsListed' /\ SelectedIsListed' /\ PackagingFits' /\ ConfirmedIsComplete'
  BY <1>1, <1>5, <1>6, <1>7, <1>8, SaveKeepsList
<1>10. PageTypes'
  <2>1. checked' \in [Group -> Radio \cup {NULL}]
    BY <1>4, <1>5 DEF PageTypes, Radio, Group
  <2> QED
    BY <1>4, <1>5, <1>9, <2>1 DEF PageTypes
<1>11. PanelShowsOptions'
  <2>1. /\ checked'["container"] = c /\ checked'["signature_format"] = v
        /\ checked'["packaging"] = p /\ checked'["level"] = checked["level"]
    BY <1>2, <1>5 DEF PageTypes, Group
  <2> QED
    BY <1>2, <1>7, <1>9, <2>1 DEF PanelShowsOptions
<1>12. VisibleIsOffered' /\ ConfirmedIsLocked'
  BY <1>3, <1>5, <1>7, <1>9 DEF VisibleIsOffered, ConfirmedIsLocked
<1> QED
  BY <1>9, <1>10, <1>11, <1>12 DEF PageInv

\* A packaging is chosen among those on offer.
LEMMA PackagingStep ==
  ASSUME PageTypes, PageInv, NEW p \in Packaging, ChangePackaging(p)
  PROVE  PageTypes' /\ PageInv'
<1> DEFINE o == [Open EXCEPT !.packaging = p]
<1>1. /\ selectedDocument \in Doc /\ selectedDocument # NULL
      /\ Open \in Options /\ ~Open.confirmed
  BY SwitchedIsOpen DEF ChangePackaging, Radio
<1>2. /\ p \in visible
      /\ documentStates' = [documentStates EXCEPT ![selectedDocument].packaging = p]
      /\ checked' = [checked EXCEPT !["packaging"] = p]
      /\ UNCHANGED <<selectedDocument, disabled, visible, locked>>
  BY DEF ChangePackaging
<1>3. documentStates' = [documentStates EXCEPT ![selectedDocument] = o]
  BY <1>1, <1>2 DEF Open, PageTypes
<1>4. /\ o \in Options /\ o.packaging = p /\ o.container = Open.container
      /\ o.signature_format = Open.signature_format
      /\ o.level = Open.level /\ ~o.confirmed
  BY <1>1 DEF Options
<1> HIDE DEF o
<1>5. /\ Open.signature_format # NULL
      /\ visible = Offered(Open.container, Open.signature_format)
  BY <1>1, <1>2 DEF PageInv, VisibleIsOffered
<1>6. Fits(o) /\ Complete(o)
  BY <1>2, <1>4, <1>5 DEF Fits, Complete
<1>7. /\ documentStates' \in [Doc -> Options \cup {NULL}] /\ Open' = o
      /\ OneIsListed' /\ SelectedIsListed' /\ PackagingFits' /\ ConfirmedIsComplete'
  BY <1>1, <1>2, <1>3, <1>4, <1>6, SaveKeepsList
<1>8. PageTypes'
  BY <1>2, <1>7 DEF PageTypes, Radio, Group
<1>9. PanelShowsOptions'
  <2>1. /\ checked["container"] = Open["container"] /\ checked["level"] = Open["level"]
        /\ checked["signature_format"] = Open.signature_format
    BY <1>1, <1>2 DEF PageInv, PanelShowsOptions
  <2>2. /\ checked'["packaging"] = p
        /\ \A g \in Group \ {"packaging"} : checked'[g] = checked[g]
    BY <1>2 DEF PageTypes, Group
  <2> QED
    BY <1>4, <1>7, <2>1, <2>2 DEF PanelShowsOptions, Group
<1>10. VisibleIsOffered' /\ ConfirmedIsLocked'
  BY <1>2, <1>4, <1>5, <1>7 DEF VisibleIsOffered, ConfirmedIsLocked
<1> QED
  BY <1>7, <1>8, <1>9, <1>10 DEF PageInv

LEMMA LevelStep ==
  ASSUME PageTypes, PageInv, NEW l \in Level, ChangeLevel(l)
  PROVE  PageTypes' /\ PageInv'
<1> DEFINE o == [Open EXCEPT !.level = l]
<1>1. /\ selectedDocument \in Doc /\ selectedDocument # NULL
      /\ Open \in Options /\ ~Open.confirmed /\ Fits(Open)
  BY SwitchedIsOpen DEF ChangeLevel, Radio
<1>2. /\ documentStates' = [documentStates EXCEPT ![selectedDocument].level = l]
      /\ checked' = [checked EXCEPT !["level"] = l]
      /\ UNCHANGED <<selectedDocument, disabled, visible, locked>>
  BY DEF ChangeLevel
<1>3. documentStates' = [documentStates EXCEPT ![selectedDocument] = o]
  BY <1>1, <1>2 DEF Open, PageTypes
<1>4. /\ o \in Options /\ o.level = l /\ ~o.confirmed
      /\ o.container = Open.container /\ o.signature_format = Open.signature_format
      /\ o.packaging = Open.packaging
  BY <1>1 DEF Options
<1> HIDE DEF o
<1>5. Fits(o) /\ Complete(o)
  BY <1>1, <1>4 DEF Fits, Complete
<1>6. /\ documentStates' \in [Doc -> Options \cup {NULL}] /\ Open' = o
      /\ OneIsListed' /\ SelectedIsListed' /\ PackagingFits' /\ ConfirmedIsComplete'
  BY <1>1, <1>2, <1>3, <1>4, <1>5, SaveKeepsList
<1>7. PageTypes'
  BY <1>2, <1>6 DEF PageTypes, Radio, Group
<1>8. PanelShowsOptions'
  <2>1. /\ checked["container"] = Open["container"]
        /\ checked["packaging"] = Open["packaging"]
        /\ Open.packaging # NULL \/ visible # {} =>
             checked["signature_format"] = Open.signature_format
    BY <1>1 DEF PageInv, PanelShowsOptions
  <2>2. /\ checked'["level"] = l
        /\ \A g \in Group \ {"level"} : checked'[g] = checked[g]
    BY <1>2 DEF PageTypes, Group
  <2> QED
    BY <1>2, <1>4, <1>6, <2>1, <2>2 DEF PanelShowsOptions, Group
<1>9. VisibleIsOffered' /\ ConfirmedIsLocked'
  BY <1>1, <1>2, <1>4, <1>6 DEF PageInv, VisibleIsOffered, ConfirmedIsLocked
<1> QED
  BY <1>6, <1>7, <1>8, <1>9 DEF PageInv

LEMMA ConfirmStep ==
  ASSUME PageTypes, PageInv, ConfirmDocumentOptions
  PROVE  PageTypes' /\ PageInv'
<1> DEFINE o == [Open EXCEPT !.confirmed = TRUE]
<1>1. /\ selectedDocument # NULL
      /\ Open.signature_format # NULL /\ Open.packaging # NULL
      /\ documentStates' = [documentStates EXCEPT ![selectedDocument].confirmed = TRUE]
      /\ disabled' = Radio /\ locked' = TRUE
      /\ UNCHANGED <<selectedDocument, checked, visible>>
  BY DEF ConfirmDocumentOptions, LockOptionsPanel, Open
<1>2. selectedDocument \in Doc /\ Open \in Options /\ Fits(Open)
  BY <1>1 DEF PageTypes, PageInv, SelectedIsListed, PackagingFits, Fits, Open, Listed
<1>3. documentStates' = [documentStates EXCEPT ![selectedDocument] = o]
  BY <1>1, <1>2 DEF Open, PageTypes
<1>4. /\ o \in Options /\ o.container = Open.container /\ o.packaging = Open.packaging
      /\ o.signature_format = Open.signature_format /\ o.level = Open.level
  BY <1>2 DEF Options
<1> HIDE DEF o
<1>5. Fits(o) /\ Complete(o)
  BY <1>1, <1>2, <1>4 DEF Fits, Complete
<1>6. /\ documentStates' \in [Doc -> Options \cup {NULL}] /\ Open' = o
      /\ OneIsListed' /\ SelectedIsListed' /\ PackagingFits' /\ ConfirmedIsComplete'
  BY <1>1, <1>3, <1>4, <1>5, SaveKeepsList
<1>7. PageTypes'
  BY <1>1, <1>6 DEF PageTypes
<1>8. PanelShowsOptions' /\ VisibleIsOffered' /\ ConfirmedIsLocked'
  BY <1>1, <1>4, <1>6 DEF PageInv, PanelShowsOptions, VisibleIsOffered,
                          ConfirmedIsLocked
<1> QED
  BY <1>6, <1>7, <1>8 DEF PageInv

-----------------------------------------------------------------------------
(* The steps of the page and of the service *)

\* What is on the page, and the handlers that only work on it.
pageVars == <<documentStates, selectedDocument, panel>>

UserStep ==
  \/ \E f \in Doc : PickDocument(f) \/ ClickListItem(f) \/ RemoveItem(f)
  \/ \E c \in Container : ChangeContainer(c)
  \/ \E v \in Format : ChangeSignatureFormat(v)
  \/ \E p \in Packaging : ChangePackaging(p)
  \/ \E l \in Level : ChangeLevel(l)
  \/ ConfirmDocumentOptions

\* A step is the user's, or it is between the page and the service, or the page is
\* loaded anew.
LEMMA StepKinds ==
  ASSUME [Next]_vars
  PROVE  \/ UserStep /\ UNCHANGED <<sending, left, stored>>
         \/ (Submit \/ Answered \/ SubmitFails) /\ UNCHANGED pageVars
         \/ OpenPage
         \/ UNCHANGED vars
<1>1. UserStep => UNCHANGED <<sending, left, stored>>
  BY DEF UserStep, PickDocument, ClickListItem, RemoveItem, ChangeContainer,
         ChangeSignatureFormat, ChangePackaging, ChangeLevel, ConfirmDocumentOptions
<1>2. Submit \/ Answered \/ SubmitFails => UNCHANGED pageVars
  BY DEF Submit, Answered, SubmitFails, pageVars
<1> QED
  BY <1>1, <1>2 DEF Next, UserStep

LEMMA UserKeepsPageInv ==
  ASSUME PageTypes, PageInv, UserStep
  PROVE  PageTypes' /\ PageInv' /\ (submitShown \in BOOLEAN => submitShown' \in BOOLEAN)
<1>1. PageTypes' /\ PageInv'
  BY ListStep, ContainerStep, FormatStep, PackagingStep, LevelStep, ConfirmStep
     DEF UserStep
<1>2. submitShown \in BOOLEAN => submitShown' \in BOOLEAN
  BY DEF UserStep, PickDocument, ClickListItem, RemoveItem, ChangeContainer,
         ChangeSignatureFormat, ChangePackaging, ChangeLevel, ConfirmDocumentOptions,
         AllConfirmed
<1> QED
  BY <1>1, <1>2

\* What the page and the service hand on is typed, confirmed and complete.
MessageTypes ==
  \A sent \in {sending, stored} :
    sent = NULL \/ sent \subseteq [document : Doc, options : Options]

SessionInv == MessageTypes /\ SentIsConfirmed /\ StoredIsConfirmed

LEMMA SubmitKeepsSessionInv ==
  ASSUME PageTypes, PageInv, SessionInv, Submit
  PROVE  SessionInv'
<1>1. /\ \A f \in Listed : documentStates[f].confirmed
      /\ sending' = {[document |-> f, options |-> documentStates[f]] : f \in Listed}
      /\ UNCHANGED stored
  BY DEF Submit, AllConfirmed
<1>2. \A f \in Listed : documentStates[f] \in Options /\ Complete(documentStates[f])
  BY DEF PageTypes, PageInv, ConfirmedIsComplete, Listed
<1>3. \A d \in sending' :
        /\ d \in [document : Doc, options : Options]
        /\ d.options.confirmed /\ Complete(d.options)
  BY <1>1, <1>2 DEF Listed
<1>4. MessageTypes'
  BY <1>1, <1>3 DEF SessionInv, MessageTypes
<1> QED
  BY <1>1, <1>3, <1>4 DEF SessionInv, SentIsConfirmed, StoredIsConfirmed

\* The service stores what it was sent, if it is of one document it can read, and
\* nothing else.
LEMMA AnswerKeepsSessionInv ==
  ASSUME SessionInv, Answered \/ SubmitFails
  PROVE  SessionInv'
<1>1. /\ sending # NULL /\ sending' = NULL
      /\ stored' = stored \/ (Acceptable(sending) /\ stored' = sending)
  BY DEF Answered, SubmitFails
<1>2. CASE stored' = stored
  BY <1>1, <1>2 DEF SessionInv, MessageTypes, SentIsConfirmed, StoredIsConfirmed
<1>3. CASE Acceptable(sending) /\ stored' = sending
  <2>1. PICK d \in sending : sending = {d} /\ d.document \notin Refused
    BY <1>3 DEF Acceptable
  <2>2. d.options.confirmed /\ Complete(d.options)
    BY <1>1, <2>1 DEF SessionInv, SentIsConfirmed
  <2>3. StoredIsConfirmed'
    BY <1>3, <2>1, <2>2 DEF StoredIsConfirmed, Complete
  <2> QED
    BY <1>1, <1>3, <2>3 DEF SessionInv, MessageTypes, SentIsConfirmed
<1> QED
  BY <1>1, <1>2, <1>3

LEMMA OpenPageResets ==
  ASSUME SessionInv, OpenPage
  PROVE  PageTypes' /\ PageInv' /\ SessionInv'
<1>1. Listed' = {}
  BY DEF OpenPage, Listed
<1>2. PageTypes'
  BY DEF OpenPage, PageTypes
<1>3. PageInv'
  BY <1>1 DEF OpenPage, PageInv, OneIsListed, SelectedIsListed, PackagingFits,
     PanelShowsOptions, VisibleIsOffered, ConfirmedIsLocked, ConfirmedIsComplete
<1>4. SessionInv'
  BY DEF OpenPage, SessionInv, MessageTypes, SentIsConfirmed, StoredIsConfirmed
<1> QED
  BY <1>2, <1>3, <1>4

\* The types, from their parts.
LEMMA TypesOfParts ==
  TypeOK <=> /\ PageTypes /\ MessageTypes
             /\ submitShown \in BOOLEAN /\ left \in BOOLEAN
BY DEF TypeOK, PageTypes, MessageTypes

LEMMA StepIInv == IInv /\ [Next]_vars => IInv'
<1> SUFFICES ASSUME IInv, [Next]_vars PROVE IInv'
  OBVIOUS
<1>1. /\ PageTypes /\ PageInv /\ SessionInv
      /\ submitShown \in BOOLEAN /\ left \in BOOLEAN
  BY TypesOfParts DEF IInv, SessionInv
<1>2. SUFFICES /\ PageTypes' /\ PageInv' /\ SessionInv'
               /\ submitShown' \in BOOLEAN /\ left' \in BOOLEAN
  BY DEF IInv, SessionInv, TypeOK, PageTypes, MessageTypes
<1>3. CASE UserStep /\ UNCHANGED <<sending, left, stored>>
  <2>1. SessionInv'
    BY <1>1, <1>3 DEF SessionInv, MessageTypes, SentIsConfirmed, StoredIsConfirmed
  <2> QED
    BY <1>1, <1>3, <2>1, UserKeepsPageInv
<1>4. CASE (Submit \/ Answered \/ SubmitFails) /\ UNCHANGED pageVars
  <2>1. PageTypes' /\ PageInv'
    BY <1>1, <1>4 DEF pageVars, panel, PageTypes, PageInv, OneIsListed, SelectedIsListed,
       PackagingFits, PanelShowsOptions, VisibleIsOffered, ConfirmedIsLocked,
       ConfirmedIsComplete, Listed, Open
  <2>2. SessionInv'
    BY <1>1, <1>4, SubmitKeepsSessionInv, AnswerKeepsSessionInv
  <2>3. submitShown' \in BOOLEAN /\ left' \in BOOLEAN
    BY <1>1, <1>4 DEF Submit, Answered, SubmitFails
  <2> QED
    BY <2>1, <2>2, <2>3
<1>5. CASE OpenPage
  BY <1>1, <1>5, OpenPageResets DEF OpenPage
<1>6. CASE UNCHANGED vars
  BY <1>1, <1>6 DEF vars, panel, PageTypes, PageInv, OneIsListed, SelectedIsListed,
     PackagingFits, PanelShowsOptions, VisibleIsOffered, ConfirmedIsLocked,
     ConfirmedIsComplete, Listed, Open, SessionInv, MessageTypes, SentIsConfirmed,
     StoredIsConfirmed
<1> QED
  BY <1>3, <1>4, <1>5, <1>6, StepKinds

LEMMA Invariance == Spec => []IInv
BY InitIInv, StepIInv, PTL DEF Spec

-----------------------------------------------------------------------------
(* The theorems *)

\* Every reachable state of the page, and what it sends and the session holds, is
\* well typed: a packaging is never saved for a format that has none.
THEOREM TypeCorrect == Spec => []TypeOK
<1>1. IInv => TypeOK
  BY DEF IInv
<1> QED
  BY <1>1, Invariance, PTL

\* Whatever the user changes in which order, the saved packaging is one the page
\* offers for the saved container and format (onChangeContainer,
\* onChangeSignatureFormat, onChangePackaging).
THEOREM PackagingAlwaysFits == Spec => []PackagingFits
<1>1. IInv => PackagingFits
  BY DEF IInv, PageInv
<1> QED
  BY <1>1, Invariance, PTL

\* The buttons of a confirmed document show what will be submitted, although
\* buttons and documentStates are kept apart (saveOption, setRadio).
THEOREM ConfirmedIsAlwaysShown == Spec => []ConfirmedIsShown
<1>1. ASSUME IInv, selectedDocument # NULL, Open.confirmed
      PROVE  \A g \in Group : checked[g] = Open[g]
  <2>1. Open.packaging # NULL
    BY <1>1 DEF IInv, PageInv, SelectedIsListed, ConfirmedIsComplete, Complete, Open
  <2> QED
    BY <1>1, <2>1 DEF IInv, PageInv, PanelShowsOptions, Group
<1>2. IInv => ConfirmedIsShown
  BY <1>1 DEF ConfirmedIsShown, Open
<1> QED
  BY <1>2, Invariance, PTL

\* The session only ever holds what was confirmed and is complete, of one document
\* the service can read (select_signing_options).
THEOREM StoredIsAlwaysConfirmed == Spec => []StoredIsConfirmed
<1>1. IInv => StoredIsConfirmed
  BY DEF IInv
<1> QED
  BY <1>1, Invariance, PTL

\* A step that changes the options of a document makes them unconfirmed, or they
\* were unconfirmed before.
LEMMA StepFreezes ==
  ASSUME IInv, [Next]_vars, NEW f \in Listed, documentStates[f].confirmed,
         f \in Listed', documentStates'[f].confirmed
  PROVE  documentStates'[f] = documentStates[f]
<1>1. /\ f \in Doc /\ documentStates \in [Doc -> Options \cup {NULL}]
      /\ PageTypes /\ PageInv
  BY TypesOfParts DEF IInv, Listed, PageTypes
<1>2. ASSUME NEW g, NEW r \in Radio, CanSwitchOn(g, r)
      PROVE  selectedDocument # f
  BY <1>1, <1>2, SwitchedIsOpen DEF Open
<1>3. ASSUME NEW g \in Doc, PickDocument(g)
      PROVE  FALSE
  <2>1. documentStates' = [h \in Doc |-> IF h = g THEN DEFAULT_OPTIONS ELSE NULL]
    BY <1>3 DEF PickDocument, SelectDocument
  <2>2. documentStates'[f] = DEFAULT_OPTIONS
    BY <1>1, <2>1 DEF Listed
  <2> QED
    BY <2>2 DEF DEFAULT_OPTIONS
<1>4. ASSUME NEW g \in Doc, ClickListItem(g) \/ RemoveItem(g)
      PROVE  documentStates'[f] = documentStates[f]
  BY <1>1, <1>4 DEF ClickListItem, SelectDocument, RemoveItem, Listed
<1>5. ASSUME \/ \E c \in Container : ChangeContainer(c)
             \/ \E v \in Format : ChangeSignatureFormat(v)
             \/ \E p \in Packaging : ChangePackaging(p)
             \/ \E l \in Level : ChangeLevel(l)
      PROVE  documentStates'[f] = documentStates[f]
  <2>1. selectedDocument # f
    BY <1>2, <1>5 DEF ChangeContainer, ChangeSignatureFormat, ChangePackaging,
                      ChangeLevel, Radio
  <2> QED
    BY <1>1, <1>5, <2>1 DEF ChangeContainer, ChangeSignatureFormat, ChangePackaging,
                            ChangeLevel
<1>6. ASSUME ConfirmDocumentOptions
      PROVE  documentStates'[f] = documentStates[f]
  <2>1. selectedDocument # f
    BY <1>1, <1>6 DEF ConfirmDocumentOptions, PageInv, ConfirmedIsLocked, Open
  <2> QED
    BY <1>1, <1>6, <2>1 DEF ConfirmDocumentOptions
<1>7. ASSUME OpenPage
      PROVE  FALSE
  BY <1>1, <1>7 DEF OpenPage, Listed
<1> QED
  BY <1>3, <1>4, <1>5, <1>6, <1>7, StepKinds DEF UserStep, pageVars, vars

\* No click changes options that were confirmed: every handler that saves an option
\* is behind a button lockOptionsPanel has disabled.
THEOREM ConfirmedIsAlwaysFrozen == Spec => ConfirmedIsFrozen
<1>1. IInv /\ [Next]_vars =>
        [\A f \in Listed \cap Listed' :
           documentStates[f].confirmed /\ documentStates'[f].confirmed
             => documentStates'[f] = documentStates[f]]_vars
  BY StepFreezes
<1> QED
  BY <1>1, Invariance, PTL DEF Spec, ConfirmedIsFrozen
=============================================================================
