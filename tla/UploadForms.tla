----------------------------- MODULE UploadForms -----------------------------
(***************************************************************************)
(* How the upload endpoints find the signed documents in the body of a     *)
(* POST request (app/api/endpoints/wallet/routes.py).                      *)
(*                                                                         *)
(* A text is the sequence of the pieces split(',') makes of it, one for    *)
(* the empty text; a piece is base64, and then free of commas, or not.  A  *)
(* form is the sequence of its entries [name, index, value]: index 0       *)
(* stands for the key name itself, 1 for name[] and i + 2 for name[i].  A  *)
(* value is one text, or a JSON list of texts; a text that is none does    *)
(* not begin with [ and end with ].                                        *)
(***************************************************************************)
EXTENDS Integers, Sequences, FiniteSets

CONSTANTS
  NULL,     \* nothing was sent
  Content   \* the contents of pieces

Lists == INSTANCE SequencesExt

Map(Op(_), seq) == [i \in DOMAIN seq |-> Op(seq[i])]
FlatMap(Op(_), seq) == Lists!FlattenSeq(Map(Op, seq))

\* The elements of seq at the given positions, in their order.
At(seq, positions) ==
  LET th(k) == CHOOSE i \in positions : Cardinality({j \in positions : j <= i}) = k
  IN [k \in 1..Cardinality(positions) |-> seq[th(k)]]

-----------------------------------------------------------------------------
(* The endpoints *)

Piece(content, base64) == [content |-> content, base64 |-> base64]

\* _is_base64: a comma is not in the alphabet.
IsBase64(text) == Len(text) = 1 /\ text[1].base64

\* Mutant of EnsureBase64: what is base64 already is encoded once more.
AlwaysEncode(text) == <<Piece(text, TRUE)>>

EnsureBase64(text) == IF IsBase64(text) THEN text ELSE <<Piece(text, TRUE)>>

\* form.items() has one entry per key, the first.
IsItem(form, i) ==
  \A j \in 1..i - 1 : <<form[j].name, form[j].index>> # <<form[i].name, form[i].index>>

\* _parse_indexed_form_values
IndexedValues(form, name) ==
  LET text(entry) == entry.value.texts[1]
  IN Map(text, At(form, {i \in DOMAIN form : /\ form[i].name = name /\ form[i].index # 0
                                             /\ IsItem(form, i)}))

\* form.getlist
PlainValues(form, name) ==
  LET value(entry) == entry.value
  IN Map(value, At(form, {i \in DOMAIN form : form[i].name = name /\ form[i].index = 0}))

\* Mutant of Normalized: the items of a list are taken as they are.
TakenAsTheyAre(value) == value.texts

\* _normalize_bracket_encoded_values, for one value.
Normalized(value) ==
  IF value.list THEN Map(EnsureBase64, value.texts) ELSE value.texts

\* item.split(',')
SplitAtCommas(text) == [i \in DOMAIN text |-> <<text[i]>>]

\* retrieve_list_values_from_form_urlencoded
ListValues(form, name) ==
  LET indexed == IndexedValues(form, name)
      plain   == PlainValues(form, name)
  IN IF indexed # <<>> THEN indexed
     ELSE IF plain = <<>> THEN NULL
     ELSE FlatMap(SplitAtCommas, FlatMap(Normalized, plain))

\* What _process_signed_data_objects is to store, NULL if the body names neither
\* field: the documents are encoded if they are not, signatureObject is not.
SignedDataObjects(documents, signatures) ==
  IF documents = NULL /\ signatures = NULL THEN NULL
  ELSE (IF documents = NULL THEN <<>> ELSE Map(EnsureBase64, documents))
       \o (IF signatures = NULL THEN <<>> ELSE signatures)

\* place_signed_document
FromForm(form) ==
  SignedDataObjects(ListValues(form, "documentWithSignature"),
                    ListValues(form, "signatureObject"))

\* place_signed_document_json: a single text counts as a list of one.
FromJson(data) == SignedDataObjects(data.documents, data.signatures)

-----------------------------------------------------------------------------
(* The wallets *)

Notation == {"repeated", "commas", "encoded_list", "indexed", "brackets", "json"}

Text == Seq([content : Content, base64 : BOOLEAN]) \ {<<>>}

\* Texts and what is made of them.
Decoded == Seq([content : Content \cup Text, base64 : BOOLEAN])

\* A list with nothing in it can be written in JSON only.
Body ==
  {b \in [notation : Notation, documents : Seq(Text) \cup {NULL},
          signatures : Seq(Text) \cup {NULL}] :
     <<>> \in {b.documents, b.signatures} => b.notation \in {"json", "encoded_list"}}

\* The entries that carry a list of texts under a name, none if it is left out.
Entries(notation, name, texts) ==
  LET entry(index, list, value) ==
        [name |-> name, index |-> index, value |-> [list |-> list, texts |-> value]]
  IN IF texts = NULL THEN <<>>
     ELSE CASE notation = "repeated" ->
                 [i \in DOMAIN texts |-> entry(0, FALSE, <<texts[i]>>)]
            [] notation = "commas" -> <<entry(0, FALSE, <<Lists!FlattenSeq(texts)>>)>>
            [] notation = "encoded_list" -> <<entry(0, TRUE, texts)>>
            [] notation = "indexed" ->
                 [i \in DOMAIN texts |-> entry(i + 1, FALSE, <<texts[i]>>)]
            [] notation = "brackets" ->
                 [i \in DOMAIN texts |-> entry(1, FALSE, <<texts[i]>>)]

\* A body is a list of documents and one of signatures, in some notation.
Received(body) ==
  IF body.notation = "json" THEN FromJson(body)
  ELSE FromForm(Entries(body.notation, "documentWithSignature", body.documents)
                \o Entries(body.notation, "signatureObject", body.signatures))

\* A text that split(',') breaks.
HasComma(text) == Len(text) > 1

\* Whether the notation carries the list: name[] is one key whatever the number
\* of values, and only base64 is safe from the commas of the plain notations.
Carries(notation, texts) ==
  \/ texts = NULL
  \/ notation \in {"json", "indexed", "encoded_list"}
  \/ notation = "brackets" /\ Len(texts) <= 1
  \/ notation \in {"repeated", "commas"} /\ \A i \in DOMAIN texts : ~HasComma(texts[i])

\* Stored is the base64 of what the wallet sent, once.
Encodes(stored, sent) ==
  IF IsBase64(sent) THEN stored = sent ELSE stored = <<Piece(sent, TRUE)>>

\* What is found in a body is what the wallet put there, in its order, each
\* document in base64 and each signature as it is, or in base64 if it was in a
\* JSON list of a form.
ArrivesAsSent(body) ==
  LET Number(texts) == IF texts = NULL THEN 0 ELSE Len(texts)
      d == Number(body.documents)
      s == Number(body.signatures)
      objects == Received(body)
  IN IF body.documents = NULL /\ body.signatures = NULL
     THEN objects = NULL
     ELSE /\ Len(objects) = d + s
          /\ \A i \in 1..d : Encodes(objects[i], body.documents[i])
          /\ \A i \in 1..s :
               IF body.notation = "encoded_list"
               THEN Encodes(objects[d + i], body.signatures[i])
               ELSE objects[d + i] = body.signatures[i]
=============================================================================
