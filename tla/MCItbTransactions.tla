-------------------------- MODULE MCItbTransactions --------------------------
(***************************************************************************)
(* The bodies of uploads for the model checker: up to two documents and a  *)
(* signature, in base64 or with a comma in it.                             *)
(***************************************************************************)
EXTENDS ItbTransactions

CONSTANTS doc, sig, csv1, csv2

MCContent == {doc, sig, csv1, csv2}

csv == <<Piece(csv1, FALSE), Piece(csv2, FALSE)>>

MCDocuments ==
  LET texts == {<<Piece(doc, TRUE)>>, csv}
  IN {NULL, <<>>} \cup {<<t>> : t \in texts} \cup (texts \X texts)

MCSignatures == {NULL, <<<<Piece(sig, TRUE)>>>>, <<csv>>}

MCBodies ==
  {b \in [notation : Notation, documents : MCDocuments, signatures : MCSignatures] :
     b.documents = <<>> => b.notation \in {"json", "encoded_list"}}
=============================================================================
