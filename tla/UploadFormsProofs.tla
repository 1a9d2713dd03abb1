-------------------------- MODULE UploadFormsProofs --------------------------
(***************************************************************************)
(* Proofs about UploadForms, for lists of any length and all contents: the *)
(* upload endpoints find in a body what the wallet put there, in every     *)
(* notation that can carry it.                                             *)
(***************************************************************************)
EXTENDS ItbTransactionsProofs, FiniteSetTheorems, SequenceTheorems

-----------------------------------------------------------------------------
(* The operators on lists *)

\* The elements of seq from a + 1 to a + n.
LEMMA AtInterval ==
  ASSUME NEW seq, NEW a \in Nat, NEW n \in Nat
  PROVE  /\ DOMAIN At(seq, a + 1..a + n) = 1..n
         /\ \A k \in 1..n : At(seq, a + 1..a + n)[k] = seq[a + k]
<1> DEFINE here == a + 1..a + n
<1>1. Cardinality(here) = n
  BY FS_Interval
<1>2. ASSUME NEW i \in here
      PROVE  Cardinality({j \in here : j <= i}) = i - a
  <2>1. {j \in here : j <= i} = a + 1..i /\ i \in Int /\ a + 1 <= i
    OBVIOUS
  <2>2. Cardinality(a + 1..i) = i - a
    BY <2>1, FS_Interval
  <2> QED
    BY <2>1, <2>2
<1>3. ASSUME NEW k \in 1..n
      PROVE  (CHOOSE i \in here : Cardinality({j \in here : j <= i}) = k) = a + k
  <2>1. a + k \in here
    OBVIOUS
  <2>2. ASSUME NEW i \in here
        PROVE  Cardinality({j \in here : j <= i}) = k <=> i = a + k
    BY <1>2
  <2> HIDE DEF here
  <2> QED
    BY <2>1, <2>2
<1> HIDE DEF here
<1> DEFINE th(k) == CHOOSE i \in here : Cardinality({j \in here : j <= i}) = k
<1>4. At(seq, here) = [k \in 1..Cardinality(here) |-> seq[th(k)]]
  BY DEF At
<1>5. \A k \in 1..n : th(k) = a + k
  BY <1>3
<1> HIDE DEF th
<1>6. At(seq, here) = [k \in 1..n |-> seq[a + k]]
  BY <1>1, <1>4, <1>5
<1> QED
  BY <1>6 DEF here

LEMMA AtNowhere ==
  ASSUME NEW seq
  PROVE  At(seq, {}) = <<>>
  BY FS_EmptySet DEF At

LEMMA FlattenOne ==
  ASSUME NEW x
  PROVE  Lists!FlattenSeq(<<x>>) = x
<1> DEFINE Flattens(f) == f = [i \in 1..Len(<<x>>) |-> IF i = 1 THEN <<x>>[i]
                                                       ELSE f[i - 1] \o <<x>>[i]]
<1>1. Len(<<x>>) = 1 /\ <<x>>[1] = x /\ 1..1 = {1}
  OBVIOUS
<1>2. Flattens([i \in {1} |-> x])
  BY <1>1
<1>3. ASSUME NEW f, Flattens(f) PROVE f[1] = x
  BY <1>1, <1>3
<1>4. Lists!FlattenSeq(<<x>>) = (CHOOSE f : Flattens(f))[1]
  BY <1>1 DEF Lists!FlattenSeq
<1> HIDE DEF Flattens
<1>5. Flattens(CHOOSE f : Flattens(f))
  BY <1>2, Zenon
<1> QED
  BY <1>3, <1>4, <1>5, Zenon

\* Lists of one element each make the list of these elements: the i-th part of the
\* concatenation is the beginning of length i.
LEMMA FlattenSingles ==
  ASSUME NEW S, NEW s \in Seq(S)
  PROVE  Lists!FlattenSeq([i \in 1..Len(s) |-> <<s[i]>>]) = s
<1> DEFINE n == Len(s)
           singles == [i \in 1..n |-> <<s[i]>>]
           Flattens(f) == f = [i \in 1..Len(singles) |-> IF i = 1 THEN singles[i]
                                                         ELSE f[i - 1] \o singles[i]]
           beginning(i) == SubSeq(s, 1, i)
<1>1. n \in Nat /\ Len(singles) = n /\ \A i \in 1..n : singles[i] = <<s[i]>>
  OBVIOUS
<1>2. CASE n = 0
  <2>1. singles = s
    BY <1>2
  <2> QED
    BY <1>2, <2>1 DEF Lists!FlattenSeq
<1>3. CASE n # 0
  <2>1. beginning(1) = <<s[1]>> /\ beginning(n) = s
    <3>1. /\ beginning(1) \in Seq(S) /\ Len(beginning(1)) = 1
          /\ beginning(1)[1] = s[1]
      BY <1>1, <1>3, SubSeqProperties
    <3>2. <<s[1]>> \in Seq(S) /\ Len(<<s[1]>>) = 1 /\ <<s[1]>>[1] = s[1]
      BY <1>1, <1>3
    <3> HIDE DEF beginning
    <3>3. beginning(1) = <<s[1]>>
      BY <3>1, <3>2, SeqEqual
    <3> QED
      BY <3>3, SubSeqFull DEF beginning
  <2>2. ASSUME NEW i \in 2..n
        PROVE  beginning(i) = beginning(i - 1) \o <<s[i]>>
    BY <1>1, SubSeqRecursiveSecond
  <2>3. Lists!FlattenSeq(singles) = (CHOOSE f : Flattens(f))[n]
    BY <1>1, <1>3 DEF Lists!FlattenSeq
  <2>4. \E f : Flattens(f)
    <3> DEFINE b == [i \in 1..n |-> beginning(i)]
    <3>1. ASSUME NEW i \in 1..n
          PROVE  beginning(i) = IF i = 1 THEN singles[i] ELSE b[i - 1] \o singles[i]
      <4>1. singles[i] = <<s[i]>> /\ (i = 1 => beginning(i) = <<s[1]>>)
        BY <1>1, <2>1
      <4>2. CASE i # 1
        <5>1. i \in 2..n /\ i - 1 \in 1..n
          BY <1>1, <4>2
        <5>2. b[i - 1] = beginning(i - 1)
          BY <5>1
        <5> HIDE DEF b, beginning, singles
        <5> QED
          BY <2>2, <4>1, <4>2, <5>1, <5>2
      <4> QED
        BY <4>1, <4>2
    <3> HIDE DEF singles, beginning
    <3>2. b = [i \in 1..n |-> IF i = 1 THEN singles[i] ELSE b[i - 1] \o singles[i]]
      BY <3>1
    <3> HIDE DEF b
    <3> QED
      BY <1>1, <3>2
  <2>5. ASSUME NEW f, Flattens(f) PROVE f[n] = s
    <3> DEFINE wrong == {i \in 1..n : f[i] # beginning(i)}
    <3>1. \A i \in 1..n : f[i] = IF i = 1 THEN <<s[1]>> ELSE f[i - 1] \o <<s[i]>>
      BY <1>1, <2>5
    <3>2. ASSUME NEW i \in wrong, \A j \in wrong : i <= j
          PROVE  FALSE
      <4>1. i # 1
        BY <2>1, <3>1, <3>2
      <4>2. i - 1 \in 1..n /\ i - 1 \notin wrong /\ i \in 2..n
        BY <1>1, <3>2, <4>1
      <4>3. f[i - 1] = beginning(i - 1) /\ f[i] = f[i - 1] \o <<s[i]>>
        BY <3>1, <4>1, <4>2
      <4>4. f[i] = beginning(i)
        <5> HIDE DEF beginning
        <5> QED
          BY <2>2, <4>2, <4>3
      <4> QED
        BY <3>2, <4>4
    <3>3. wrong = {}
      <4>1. wrong \subseteq Nat
        BY <1>1
      <4> HIDE DEF wrong
      <4> QED
        BY <3>2, <4>1, SomeNumberIsLeast
    <3> QED
      BY <1>1, <1>3, <2>1, <3>3
  <2> HIDE DEF Flattens
  <2>6. Flattens(CHOOSE f : Flattens(f))
    BY <2>4, Zenon
  <2> QED
    BY <2>3, <2>5, <2>6, Zenon
<1> QED
  BY <1>1, <1>2, <1>3

-----------------------------------------------------------------------------
(* The entries of a name in a form *)

\* The entries of form under name are the given ones, one after the other from
\* position a + 1.
Carried(form, a, name, entries) ==
  /\ a \in Nat /\ Len(entries) \in Nat
  /\ a + 1..a + Len(entries) \subseteq DOMAIN form
  /\ \E n \in Nat : DOMAIN form = 1..n
  /\ \A i \in DOMAIN form : form[i].name = name <=> i \in a + 1..a + Len(entries)
  /\ \A i \in 1..Len(entries) : form[a + i] = entries[i]

\* Under the name itself, all entries are found, and none under other keys.
LEMMA PlainFound ==
  ASSUME NEW form, NEW a, NEW name, NEW entries, Carried(form, a, name, entries),
         \A i \in 1..Len(entries) : entries[i].index = 0
  PROVE  /\ IndexedValues(form, name) = <<>>
         /\ PlainValues(form, name) = [i \in 1..Len(entries) |-> entries[i].value]
<1> DEFINE n == Len(entries)
           found == {i \in DOMAIN form : form[i].name = name /\ form[i].index = 0}
           indexed == {i \in DOMAIN form : /\ form[i].name = name /\ form[i].index # 0
                                           /\ IsItem(form, i)}
<1>1. a \in Nat /\ n \in Nat
  BY DEF Carried
<1>2. ASSUME NEW i \in DOMAIN form, form[i].name = name
      PROVE  form[i].index = 0
  <2>1. i \in a + 1..a + n
    BY <1>2 DEF Carried
  <2>2. i - a \in 1..n /\ i = a + (i - a)
    BY <1>1, <2>1
  <2>3. form[a + (i - a)] = entries[i - a]
    BY <2>2 DEF Carried
  <2> QED
    BY <2>2, <2>3
<1>3. found = a + 1..a + n
  BY <1>2 DEF Carried
<1>4. indexed = {}
  BY <1>1, <1>2
<1>5. /\ DOMAIN At(form, found) = 1..n /\ At(form, indexed) = <<>>
      /\ \A k \in 1..n : At(form, found)[k] = form[a + k]
  <2> HIDE DEF found, indexed, n
  <2>1. /\ DOMAIN At(form, a + 1..a + n) = 1..n
        /\ \A k \in 1..n : At(form, a + 1..a + n)[k] = form[a + k]
    BY <1>1, AtInterval
  <2> QED
    BY <1>3, <1>4, <2>1, AtNowhere
<1>6. PlainValues(form, name) = [i \in DOMAIN At(form, found) |-> At(form, found)[i].value]
  BY DEF PlainValues, Map
<1>7. IndexedValues(form, name) =
        [i \in DOMAIN At(form, indexed) |-> At(form, indexed)[i].value.texts[1]]
  BY DEF IndexedValues, Map
<1>8. \A k \in 1..n : form[a + k] = entries[k]
  BY DEF Carried
<1> HIDE DEF found, indexed
<1>9. PlainValues(form, name) = [i \in 1..n |-> entries[i].value]
  BY <1>5, <1>6, <1>8
<1>10. IndexedValues(form, name) = <<>>
  BY <1>5, <1>7
<1> QED
  BY <1>9, <1>10

\* Under keys that differ, and none of them the name itself, all are found.
LEMMA IndexedFound ==
  ASSUME NEW form, NEW a, NEW name, NEW entries, Carried(form, a, name, entries),
         \A i \in 1..Len(entries) : entries[i].index # 0,
         \A i, j \in 1..Len(entries) : i # j => entries[i].index # entries[j].index
  PROVE  IndexedValues(form, name) = [i \in 1..Len(entries) |-> entries[i].value.texts[1]]
<1> DEFINE n == Len(entries)
           indexed == {i \in DOMAIN form : /\ form[i].name = name /\ form[i].index # 0
                                           /\ IsItem(form, i)}
<1>1. a \in Nat /\ n \in Nat
  BY DEF Carried
<1>2. ASSUME NEW i \in a + 1..a + n
      PROVE  /\ i \in DOMAIN form /\ form[i].name = name
             /\ i - a \in 1..n /\ form[i] = entries[i - a]
  <2>1. i - a \in 1..n /\ i = a + (i - a)
    BY <1>1
  <2> QED
    BY <2>1 DEF Carried
<1>3. ASSUME NEW i \in a + 1..a + n
      PROVE  IsItem(form, i)
  <2> SUFFICES ASSUME NEW j \in 1..i - 1, form[j].name = form[i].name,
                      form[j].index = form[i].index
               PROVE  FALSE
    BY DEF IsItem
  <2>1. CASE j \in a + 1..a + n
    <3>1. j - a # i - a
      BY <1>1
    <3>2. entries[j - a].index = entries[i - a].index
      BY <1>2, <2>1
    <3> QED
      BY <1>2, <2>1, <3>1, <3>2
  <2>2. CASE j \notin a + 1..a + n
    <3>1. i \in DOMAIN form /\ form[i].name = name
      BY <1>2
    <3>2. j \in DOMAIN form
      BY <3>1 DEF Carried
    <3> QED
      BY <2>2, <3>1, <3>2 DEF Carried
  <2> QED
    BY <2>1, <2>2
<1>4. indexed = a + 1..a + n
  BY <1>2, <1>3 DEF Carried
<1>5. /\ DOMAIN At(form, indexed) = 1..n
      /\ \A k \in 1..n : At(form, indexed)[k] = form[a + k]
  <2> HIDE DEF indexed, n
  <2>1. /\ DOMAIN At(form, a + 1..a + n) = 1..n
        /\ \A k \in 1..n : At(form, a + 1..a + n)[k] = form[a + k]
    BY <1>1, AtInterval
  <2> QED
    BY ONLY <1>4, <2>1
<1>6. IndexedValues(form, name) =
        [i \in DOMAIN At(form, indexed) |-> At(form, indexed)[i].value.texts[1]]
  BY DEF IndexedValues, Map
<1>7. \A k \in 1..n : form[a + k] = entries[k]
  BY DEF Carried
<1> HIDE DEF indexed
<1> QED
  BY <1>5, <1>6, <1>7

-----------------------------------------------------------------------------
(* Texts *)

\* Whatever is sent becomes base64, which commas do not break; lists of texts, and
\* of their base64, are sent.
LEMMA TextsDecode ==
  /\ \A t \in Text : t \in Decoded /\ Len(t) \in Nat \ {0} /\ DOMAIN t = 1..Len(t)
  /\ \A t \in Text : EnsureBase64(t) \in Decoded /\ Len(EnsureBase64(t)) = 1
  /\ \A t \in Decoded : Len(t) = 1 => t = <<t[1]>>
<1>1. ASSUME NEW t \in Text
      PROVE  t \in Decoded /\ Len(t) \in Nat \ {0} /\ DOMAIN t = 1..Len(t)
  <2> DEFINE sent == [content : Content, base64 : BOOLEAN]
             made == [content : Content \cup Text, base64 : BOOLEAN]
  <2>1. sent \subseteq made
    OBVIOUS
  <2>2. t \in Seq(sent) /\ t # <<>>
    BY DEF Text
  <2> HIDE DEF sent, made
  <2>3. t \in Seq(made) /\ Len(t) \in Nat \ {0} /\ DOMAIN t = 1..Len(t)
    BY <2>1, <2>2
  <2> QED
    BY <2>3 DEF Decoded, made
<1>2. ASSUME NEW t \in Text
      PROVE  EnsureBase64(t) \in Decoded /\ Len(EnsureBase64(t)) = 1
  <2>1. CASE IsBase64(t)
    BY <1>1, <2>1 DEF EnsureBase64, IsBase64
  <2>2. CASE ~IsBase64(t)
    <3>1. Piece(t, TRUE) \in [content : Content \cup Text, base64 : BOOLEAN]
      BY DEF Piece
    <3>2. ASSUME NEW S, NEW x \in S PROVE <<x>> \in Seq(S) /\ Len(<<x>>) = 1
      OBVIOUS
    <3>3. <<Piece(t, TRUE)>> \in Decoded /\ Len(<<Piece(t, TRUE)>>) = 1
      BY <3>1, <3>2, Zenon DEF Decoded
    <3> QED
      BY <2>2, <3>3 DEF EnsureBase64
  <2> QED
    BY <2>1, <2>2
<1>3. ASSUME NEW t \in Decoded, Len(t) = 1
      PROVE  t = <<t[1]>>
  BY <1>3 DEF Decoded
<1> QED
  BY <1>1, <1>2, <1>3

LEMMA ListsAreSent ==
  ASSUME NEW texts \in Seq(Text)
  PROVE  /\ texts \in Seq(Decoded) /\ texts # NULL
         /\ Map(EnsureBase64, texts) \in Seq(Decoded)
         /\ Map(EnsureBase64, texts) # NULL
         /\ Len(texts) \in Nat /\ Len(Map(EnsureBase64, texts)) = Len(texts)
         /\ \A i \in 1..Len(texts) : /\ Map(EnsureBase64, texts)[i] = EnsureBase64(texts[i])
                                     /\ Len(Map(EnsureBase64, texts)[i]) = 1
<1>1. Len(texts) \in Nat /\ DOMAIN texts = 1..Len(texts) /\ \A i \in 1..Len(texts) : texts[i] \in Text
  OBVIOUS
<1>2. texts \in Seq(Decoded)
  <2>1. texts \in [1..Len(texts) -> Decoded]
    BY <1>1, TextsDecode
  <2> QED
    BY <1>1, <2>1
<1>3. Map(EnsureBase64, texts) = [i \in 1..Len(texts) |-> EnsureBase64(texts[i])]
  BY <1>1 DEF Map
<1>4. Map(EnsureBase64, texts) \in [1..Len(texts) -> Decoded]
  BY <1>1, <1>3, TextsDecode
<1>5. Map(EnsureBase64, texts) \in Seq(Decoded) /\ Len(Map(EnsureBase64, texts)) = Len(texts)
  BY <1>1, <1>4
<1>6. \A i \in 1..Len(texts) : Len(EnsureBase64(texts[i])) = 1
  BY <1>1, TextsDecode
<1> QED
  BY <1>2, <1>3, <1>5, <1>6, BodiesAssumption

\* What has no commas is not broken.
LEMMA NothingToSplit ==
  ASSUME NEW texts \in Seq(Decoded), \A i \in 1..Len(texts) : Len(texts[i]) = 1
  PROVE  FlatMap(SplitAtCommas, texts) = texts
<1>1. ASSUME NEW i \in 1..Len(texts)
      PROVE  SplitAtCommas(texts[i]) = <<texts[i]>>
  <2>1. texts[i] \in Decoded /\ Len(texts[i]) = 1
    OBVIOUS
  <2>2. texts[i] = <<texts[i][1]>> /\ DOMAIN texts[i] = 1..1
    BY <2>1, TextsDecode DEF Decoded
  <2>3. SplitAtCommas(texts[i]) = [j \in 1..1 |-> <<texts[i][j]>>]
    BY <2>2 DEF SplitAtCommas
  <2> QED
    BY <2>2, <2>3
<1>2. Map(SplitAtCommas, texts) = [i \in 1..Len(texts) |-> <<texts[i]>>]
  <2>1. Map(SplitAtCommas, texts) = [i \in 1..Len(texts) |-> SplitAtCommas(texts[i])]
    BY DEF Map
  <2> QED
    BY <1>1, <2>1
<1> QED
  BY <1>2, FlattenSingles DEF FlatMap

-----------------------------------------------------------------------------
(* The notations *)

\* What the endpoint of forms makes of a list.
AsFound(notation, texts) ==
  IF texts # NULL /\ notation = "encoded_list" THEN Map(EnsureBase64, texts) ELSE texts

\* A name that is not in the form.
LEMMA NotThere ==
  ASSUME NEW form, NEW a, NEW name, Carried(form, a, name, <<>>)
  PROVE  ListValues(form, name) = NULL
<1>1. IndexedValues(form, name) = <<>> /\ PlainValues(form, name) = <<>>
  <2>1. Len(<<>>) = 0
    OBVIOUS
  <2>2. [i \in 1..Len(<<>>) |-> <<>>[i].value] = <<>>
    BY <2>1
  <2> QED
    BY <2>1, <2>2, PlainFound
<1> QED
  BY <1>1 DEF ListValues

LEMMA IsList ==
  ASSUME NEW n \in Nat, NEW f, f = [i \in 1..n |-> f[i]]
  PROVE  f \in Seq({f[i] : i \in 1..n}) /\ Len(f) = n
<1> DEFINE S == {f[i] : i \in 1..n}
<1>1. f \in [1..n -> S]
  OBVIOUS
<1> HIDE DEF S
<1>2. f \in Seq(S) /\ Len(f) = n
  BY <1>1
<1> QED
  BY <1>2 DEF S

LEMMA ListHasTexts ==
  ASSUME NEW texts \in Seq(Text), texts # <<>>
  PROVE  Len(texts) \in Nat \ {0} /\ DOMAIN texts = 1..Len(texts) /\ texts # NULL
<1>1. Len(texts) \in Nat \ {0} /\ DOMAIN texts = 1..Len(texts)
  OBVIOUS
<1> QED
  BY <1>1, ListsAreSent

\* The key is repeated, once for each text.
LEMMA RepeatedIsFound ==
  ASSUME NEW form, NEW a, NEW name, NEW texts \in Seq(Text), texts # <<>>,
         Carried(form, a, name, Entries("repeated", name, texts)),
         \A i \in 1..Len(texts) : Len(texts[i]) = 1
  PROVE  ListValues(form, name) = texts
<1> DEFINE n == Len(texts)
           entries == Entries("repeated", name, texts)
           value(i) == [list |-> FALSE, texts |-> <<texts[i]>>]
           plain == [i \in 1..n |-> value(i)]
<1>1. n \in Nat \ {0} /\ DOMAIN texts = 1..n /\ texts # NULL
  BY ListHasTexts
<1>2. entries = [i \in 1..n |-> [name |-> name, index |-> 0, value |-> value(i)]]
  BY <1>1 DEF Entries
<1>3. IndexedValues(form, name) = <<>> /\ PlainValues(form, name) = plain
  <2>1. /\ Len(entries) = n
        /\ \A i \in 1..n : entries[i].index = 0 /\ entries[i].value = value(i)
    <3> HIDE DEF entries, n, value
    <3>1. \A i \in 1..n : entries[i].index = 0 /\ entries[i].value = value(i)
      BY <1>2
    <3>2. entries = [i \in 1..n |-> entries[i]]
      BY <1>2
    <3> QED
      BY <1>1, <3>1, <3>2, IsList
  <2>2. Carried(form, a, name, entries)
    OBVIOUS
  <2> HIDE DEF entries, value
  <2>3. /\ IndexedValues(form, name) = <<>>
        /\ PlainValues(form, name) = [i \in 1..Len(entries) |-> entries[i].value]
    BY <2>1, <2>2, PlainFound
  <2> QED
    BY <2>1, <2>3
<1>4. FlatMap(Normalized, plain) = texts
  <2>1. Map(Normalized, plain) = [i \in 1..n |-> <<texts[i]>>]
    BY DEF Map, Normalized
  <2> QED
    BY <2>1, FlattenSingles DEF FlatMap
<1>5. FlatMap(SplitAtCommas, texts) = texts
  BY NothingToSplit, ListsAreSent
<1>6. plain # <<>>
  BY <1>1
<1> HIDE DEF plain
<1> QED
  BY <1>3, <1>4, <1>5, <1>6 DEF ListValues

\* The name once, with one value.
LEMMA OneValueFound ==
  ASSUME NEW form, NEW a, NEW name, NEW value, NEW entries, Carried(form, a, name, entries),
         entries = <<[name |-> name, index |-> 0, value |-> value]>>
  PROVE  IndexedValues(form, name) = <<>> /\ PlainValues(form, name) = <<value>>
<1>1. Len(entries) = 1 /\ entries[1].index = 0 /\ entries[1].value = value
  <2> DEFINE first == [name |-> name, index |-> 0, value |-> value]
  <2>1. entries = <<first>> /\ first.index = 0 /\ first.value = value
    OBVIOUS
  <2> HIDE DEF first
  <2> QED
    BY <2>1
<1>2. \A i \in 1..Len(entries) : entries[i].index = 0
  BY <1>1
<1>3. Carried(form, a, name, entries)
  OBVIOUS
<1>4. /\ IndexedValues(form, name) = <<>>
      /\ PlainValues(form, name) = [i \in 1..Len(entries) |-> entries[i].value]
  BY ONLY <1>2, <1>3, PlainFound
<1> QED
  BY <1>1, <1>4

\* One value, of all texts with commas in between.
LEMMA CommasAreFound ==
  ASSUME NEW form, NEW a, NEW name, NEW texts \in Seq(Text), texts # <<>>,
         Carried(form, a, name, Entries("commas", name, texts)),
         \A i \in 1..Len(texts) : Len(texts[i]) = 1
  PROVE  ListValues(form, name) = texts
<1> DEFINE n == Len(texts)
           entries == Entries("commas", name, texts)
           joined == Lists!FlattenSeq(texts)
           value == [list |-> FALSE, texts |-> <<joined>>]
           pieces == [i \in 1..n |-> texts[i][1]]
           Pieces == [content : Content \cup Text, base64 : BOOLEAN]
<1>1. n \in Nat \ {0} /\ DOMAIN texts = 1..n /\ texts # NULL
  BY ListHasTexts
<1>2. entries = <<[name |-> name, index |-> 0, value |-> value]>>
  BY <1>1 DEF Entries
<1>3. IndexedValues(form, name) = <<>> /\ PlainValues(form, name) = <<value>>
  <2>1. Carried(form, a, name, entries)
    OBVIOUS
  <2> HIDE DEF entries, value
  <2> QED
    BY <1>2, <2>1, OneValueFound
<1>4. joined = pieces
  <2>1. \A i \in 1..n : texts[i] \in Decoded /\ Len(texts[i]) = 1 /\ texts[i] = <<texts[i][1]>>
    BY <1>1, TextsDecode
  <2>2. texts = [i \in 1..n |-> <<pieces[i]>>]
    BY <1>1, <2>1
  <2>3. pieces \in [1..n -> Pieces]
    <3>1. ASSUME NEW i \in 1..n PROVE texts[i][1] \in Pieces
      <4>1. texts[i] \in Seq(Pieces) /\ Len(texts[i]) = 1
        BY <2>1 DEF Decoded
      <4> HIDE DEF Pieces
      <4> QED
        BY <4>1
    <3> HIDE DEF Pieces
    <3> QED
      BY <3>1
  <2> HIDE DEF pieces, Pieces
  <2>4. pieces \in Seq(Pieces) /\ Len(pieces) = n
    BY <1>1, <2>3
  <2> QED
    BY <2>2, <2>4, FlattenSingles
<1>5. FlatMap(Normalized, <<value>>) = <<joined>>
  <2> HIDE DEF joined
  <2>1. Map(Normalized, <<value>>) = <<(<<joined>>)>>
    BY DEF Map, Normalized
  <2> QED
    BY <2>1, FlattenOne DEF FlatMap
<1>6. FlatMap(SplitAtCommas, <<joined>>) = SplitAtCommas(joined)
  <2> HIDE DEF joined
  <2>1. Map(SplitAtCommas, <<joined>>) = <<SplitAtCommas(joined)>>
    BY DEF Map
  <2> QED
    BY <2>1, FlattenOne DEF FlatMap
<1>7. SplitAtCommas(joined) = texts
  <2>1. \A i \in 1..n : texts[i] = <<texts[i][1]>>
    BY <1>1, TextsDecode
  <2>2. SplitAtCommas(pieces) = [i \in 1..n |-> <<texts[i][1]>>]
    BY DEF SplitAtCommas
  <2> HIDE DEF pieces, joined
  <2> QED
    BY <1>1, <1>4, <2>1, <2>2
<1>8. <<value>> # <<>>
  OBVIOUS
<1> HIDE DEF value, joined
<1> QED
  BY <1>3, <1>5, <1>6, <1>7, <1>8 DEF ListValues

\* One value, a JSON list, which may have nothing in it.
LEMMA JsonListIsFound ==
  ASSUME NEW form, NEW a, NEW name, NEW texts \in Seq(Text),
         Carried(form, a, name, Entries("encoded_list", name, texts))
  PROVE  ListValues(form, name) = Map(EnsureBase64, texts)
<1> DEFINE entries == Entries("encoded_list", name, texts)
           value == [list |-> TRUE, texts |-> texts]
           encoded == Map(EnsureBase64, texts)
<1>1. entries = <<[name |-> name, index |-> 0, value |-> value]>>
  BY ListsAreSent DEF Entries
<1>2. IndexedValues(form, name) = <<>> /\ PlainValues(form, name) = <<value>>
  <2>1. Carried(form, a, name, entries)
    OBVIOUS
  <2> HIDE DEF entries, value
  <2> QED
    BY <1>1, <2>1, OneValueFound
<1>3. FlatMap(Normalized, <<value>>) = encoded
  <2> HIDE DEF encoded
  <2>1. Map(Normalized, <<value>>) = <<encoded>>
    BY DEF Map, Normalized, encoded
  <2> QED
    BY <2>1, FlattenOne DEF FlatMap
<1>4. FlatMap(SplitAtCommas, encoded) = encoded
  <2> HIDE DEF encoded
  <2>1. encoded \in Seq(Decoded) /\ \A i \in 1..Len(encoded) : Len(encoded[i]) = 1
    BY ListsAreSent DEF encoded
  <2> QED
    BY <2>1, NothingToSplit
<1>5. <<value>> # <<>>
  OBVIOUS
<1> HIDE DEF value, encoded
<1>6. ListValues(form, name) = encoded
  BY <1>2, <1>3, <1>4, <1>5 DEF ListValues
<1> QED
  BY <1>6 DEF encoded

\* name[0], name[1], ..., or name[] for one text.
LEMMA KeysAreFound ==
  ASSUME NEW form, NEW a, NEW name, NEW texts \in Seq(Text), texts # <<>>,
         NEW notation \in {"indexed", "brackets"},
         notation = "brackets" => Len(texts) <= 1,
         Carried(form, a, name, Entries(notation, name, texts))
  PROVE  ListValues(form, name) = texts
<1> DEFINE n == Len(texts)
           entries == Entries(notation, name, texts)
           key(i) == IF notation = "indexed" THEN i + 1 ELSE 1
           entry(i) == [name |-> name, index |-> key(i),
                        value |-> [list |-> FALSE, texts |-> <<texts[i]>>]]
<1>1. n \in Nat \ {0} /\ DOMAIN texts = 1..n /\ texts # NULL
  BY ListHasTexts
<1>2. entries = [i \in 1..n |-> entry(i)]
  <2>1. CASE notation = "indexed"
    BY <1>1, <2>1 DEF Entries
  <2>2. CASE notation = "brackets"
    BY <1>1, <2>2 DEF Entries
  <2> QED
    BY <2>1, <2>2
<1>3. \A i \in 1..n : entry(i).index = key(i) /\ entry(i).value.texts[1] = texts[i]
  OBVIOUS
<1>4. \A i \in 1..n : key(i) # 0 /\ \A j \in 1..n : i # j => key(i) # key(j)
  BY <1>1
<1>5. Carried(form, a, name, entries)
  OBVIOUS
<1> HIDE DEF entries, entry, key
<1>6. /\ Len(entries) = n
      /\ \A i \in 1..n : entries[i].index = key(i) /\ entries[i].value.texts[1] = texts[i]
  <2>1. entries = [i \in 1..n |-> entries[i]]
    BY <1>2
  <2>2. Len(entries) = n
    <3> HIDE DEF n
    <3> QED
      BY <1>1, <2>1, IsList
  <2> QED
    BY <1>2, <1>3, <2>2
<1>7. IndexedValues(form, name) = [i \in 1..Len(entries) |-> entries[i].value.texts[1]]
  <2> HIDE DEF n
  <2>1. /\ \A i \in 1..Len(entries) : entries[i].index # 0
        /\ \A i, j \in 1..Len(entries) : i # j => entries[i].index # entries[j].index
    BY <1>4, <1>6
  <2> QED
    BY <1>5, <2>1, IndexedFound
<1>8. IndexedValues(form, name) = texts
  BY <1>1, <1>6, <1>7
<1> QED
  BY <1>8 DEF ListValues

\* The list a wallet posts under a name is found in every notation that carries it.
LEMMA ListIsFound ==
  ASSUME NEW form, NEW a, NEW name, NEW texts \in Seq(Text) \cup {NULL},
         NEW notation \in Notation \ {"json"},
         Carries(notation, texts), texts = <<>> => notation = "encoded_list",
         Carried(form, a, name, Entries(notation, name, texts))
  PROVE  ListValues(form, name) = AsFound(notation, texts)
<1>1. CASE texts = NULL
  BY <1>1, NotThere DEF Entries, AsFound
<1>2. CASE texts # NULL
  <2>1. texts \in Seq(Text)
    BY <1>2
  <2>2. CASE notation = "encoded_list"
    BY <1>2, <2>1, <2>2, JsonListIsFound DEF AsFound
  <2>3. CASE notation # "encoded_list"
    <3>1. texts # <<>> /\ AsFound(notation, texts) = texts
      BY <2>3 DEF AsFound
    <3>2. CASE notation \in {"indexed", "brackets"}
      BY <1>2, <2>1, <3>1, <3>2, KeysAreFound DEF Carries
    <3>3. CASE notation \in {"repeated", "commas"}
      <4>1. ASSUME NEW i \in 1..Len(texts)
            PROVE  Len(texts[i]) = 1
        <5>1. texts[i] \in Text /\ i \in DOMAIN texts
          BY <2>1
        <5>2. Len(texts[i]) \in Nat \ {0} /\ ~(Len(texts[i]) > 1)
          BY <1>2, <3>3, <5>1, TextsDecode DEF Carries, HasComma
        <5> QED
          BY ONLY <5>2
      <4> QED
        BY <2>1, <3>1, <3>3, <4>1, RepeatedIsFound, CommasAreFound
    <3> QED
      BY <2>3, <3>2, <3>3 DEF Notation
  <2> QED
    BY <2>2, <2>3
<1> QED
  BY <1>1, <1>2

-----------------------------------------------------------------------------
(* Forms *)

LEMMA Concatenated ==
  ASSUME NEW S, NEW a \in Seq(S), NEW b \in Seq(S)
  PROVE  /\ Len(a \o b) = Len(a) + Len(b) /\ DOMAIN (a \o b) = 1..Len(a) + Len(b)
         /\ \A i \in 1..Len(a) : (a \o b)[i] = a[i]
         /\ \A i \in 1..Len(b) : (a \o b)[Len(a) + i] = b[i]
<1>1. Len(a) \in Nat /\ Len(b) \in Nat
  OBVIOUS
<1>2. ASSUME NEW i \in 1..Len(b)
      PROVE  (a \o b)[Len(a) + i] = b[i]
  <2>1. Len(a) + i \in 1..Len(a) + Len(b) /\ Len(a) + i > Len(a)
    BY <1>1
  <2> QED
    BY <1>1, <2>1
<1> QED
  BY <1>1, <1>2

AreEntries(entries, n, name) ==
  entries = [i \in 1..n |-> entries[i]] /\ \A i \in 1..n : entries[i].name = name

\* All entries of a list have its name.
LEMMA EntriesHaveName ==
  ASSUME NEW notation \in Notation \ {"json"}, NEW name, NEW texts \in Seq(Text) \cup {NULL}
  PROVE  \E n \in Nat : AreEntries(Entries(notation, name, texts), n, name)
<1> DEFINE entries == Entries(notation, name, texts)
<1>1. CASE texts = NULL
  <2>1. AreEntries(entries, 0, name)
    BY <1>1 DEF Entries, AreEntries
  <2> QED
    BY <2>1
<1>2. CASE texts # NULL /\ notation \in {"repeated", "indexed", "brackets"}
  <2>1. Len(texts) \in Nat /\ DOMAIN texts = 1..Len(texts)
    BY <1>2
  <2>2. AreEntries(entries, Len(texts), name)
    BY <1>2, <2>1 DEF Entries, AreEntries
  <2> QED
    BY <2>1, <2>2
<1>3. CASE texts # NULL /\ notation \in {"commas", "encoded_list"}
  <2>1. \E value : entries = <<[name |-> name, index |-> 0, value |-> value]>>
    BY <1>3 DEF Entries
  <2> HIDE DEF entries
  <2>2. AreEntries(entries, 1, name)
    BY <2>1 DEF AreEntries
  <2> QED
    BY <2>2 DEF entries
<1> QED
  BY <1>1, <1>2, <1>3 DEF Notation

\* A form of two lists carries each under its name.
LEMMA FormCarries ==
  ASSUME NEW name, NEW d, NEW dn \in Nat, AreEntries(d, dn, name),
         NEW other, NEW e, NEW en \in Nat, AreEntries(e, en, other), name # other
  PROVE  Carried(d \o e, 0, name, d) /\ Carried(d \o e, dn, other, e)
<1> DEFINE S == {d[i] : i \in 1..dn} \cup {e[i] : i \in 1..en}
           form == d \o e
<1>1. d \in Seq(S) /\ Len(d) = dn
  <2>1. d \in Seq({d[i] : i \in 1..dn}) /\ Len(d) = dn
    BY IsList DEF AreEntries
  <2> QED
    BY <2>1
<1>2. e \in Seq(S) /\ Len(e) = en
  <2>1. e \in Seq({e[i] : i \in 1..en}) /\ Len(e) = en
    BY IsList DEF AreEntries
  <2> QED
    BY <2>1
<1>3. /\ DOMAIN form = 1..dn + en
      /\ \A i \in 1..dn : form[i] = d[i]
      /\ \A i \in 1..en : form[dn + i] = e[i]
  <2> HIDE DEF form, S
  <2>1. d \in Seq(S) /\ e \in Seq(S)
    BY <1>1, <1>2
  <2>2. /\ DOMAIN (d \o e) = 1..Len(d) + Len(e)
        /\ \A i \in 1..Len(d) : (d \o e)[i] = d[i]
        /\ \A i \in 1..Len(e) : (d \o e)[Len(d) + i] = e[i]
    BY ONLY <2>1, Concatenated
  <2> QED
    BY ONLY <1>1, <1>2, <2>2 DEF form
<1> HIDE DEF form, S
<1>4. \A i \in dn + 1..dn + en : i - dn \in 1..en /\ i = dn + (i - dn)
  OBVIOUS
<1>5. \A i \in DOMAIN form : i \in 1..dn \/ i \in dn + 1..dn + en
  BY <1>3
<1>6. \A i \in dn + 1..dn + en : form[i].name = other
  BY <1>3, <1>4 DEF AreEntries
<1>7. \A i \in 1..dn : form[i].name = name
  BY <1>3 DEF AreEntries
<1>8. Carried(form, 0, name, d)
  <2>1. \A i \in DOMAIN form : form[i].name = name <=> i \in 0 + 1..0 + dn
    BY <1>3, <1>5, <1>6, <1>7
  <2>2. /\ 0 + 1..0 + dn \subseteq DOMAIN form /\ \E n \in Nat : DOMAIN form = 1..n
        /\ \A i \in 1..dn : form[0 + i] = d[i]
    BY <1>3
  <2> QED
    BY <1>1, <2>1, <2>2 DEF Carried
<1>9. Carried(form, dn, other, e)
  <2>1. \A i \in DOMAIN form : form[i].name = other <=> i \in dn + 1..dn + en
    BY <1>3, <1>5, <1>6, <1>7
  <2>2. /\ dn + 1..dn + en \subseteq DOMAIN form /\ \E n \in Nat : DOMAIN form = 1..n
        /\ \A i \in 1..en : form[dn + i] = e[i]
    BY <1>3
  <2> QED
    BY <1>2, <2>1, <2>2 DEF Carried
<1> QED
  BY <1>8, <1>9 DEF form

\* What the endpoint of forms finds.
LEMMA FormIsFound ==
  ASSUME NEW body \in Body, body.notation # "json",
         Carries(body.notation, body.documents), Carries(body.notation, body.signatures)
  PROVE  Received(body) = SignedDataObjects(AsFound(body.notation, body.documents),
                                            AsFound(body.notation, body.signatures))
<1> DEFINE d == Entries(body.notation, "documentWithSignature", body.documents)
           e == Entries(body.notation, "signatureObject", body.signatures)
<1>1. /\ body.notation \in Notation \ {"json"}
      /\ body.documents \in Seq(Text) \cup {NULL} /\ body.signatures \in Seq(Text) \cup {NULL}
      /\ body.documents = <<>> => body.notation = "encoded_list"
      /\ body.signatures = <<>> => body.notation = "encoded_list"
  BY DEF Body
<1>2. PICK dn \in Nat : AreEntries(d, dn, "documentWithSignature")
  BY <1>1, EntriesHaveName
<1>3. PICK en \in Nat : AreEntries(e, en, "signatureObject")
  BY <1>1, EntriesHaveName
<1>4. /\ Carried(d \o e, 0, "documentWithSignature", d)
      /\ Carried(d \o e, dn, "signatureObject", e)
  <2> HIDE DEF d, e
  <2> QED
    BY <1>2, <1>3, FormCarries
<1>5. ListValues(d \o e, "documentWithSignature") = AsFound(body.notation, body.documents)
  <2> DEFINE form == d \o e
  <2>1. Carried(form, 0, "documentWithSignature", d)
    BY <1>4
  <2> HIDE DEF form
  <2>2. ListValues(form, "documentWithSignature") = AsFound(body.notation, body.documents)
    BY <1>1, <2>1, ListIsFound
  <2> QED
    BY <2>2 DEF form
<1>6. ListValues(d \o e, "signatureObject") = AsFound(body.notation, body.signatures)
  <2> DEFINE form == d \o e
  <2>1. Carried(form, dn, "signatureObject", e)
    BY <1>4
  <2> HIDE DEF form
  <2>2. ListValues(form, "signatureObject") = AsFound(body.notation, body.signatures)
    BY <1>1, <2>1, ListIsFound
  <2> QED
    BY <2>2 DEF form
<1> QED
  BY <1>5, <1>6 DEF Received, FromForm

-----------------------------------------------------------------------------
(* What is stored *)

\* _ensure_base64 encodes what is not base64 yet, and is done then.
LEMMA EncodedOnce ==
  ASSUME NEW text
  PROVE  /\ Encodes(EnsureBase64(text), text)
         /\ EnsureBase64(EnsureBase64(text)) = EnsureBase64(text)
<1>1. IsBase64(EnsureBase64(text))
  BY DEF EnsureBase64, IsBase64, Piece
<1>2. Encodes(EnsureBase64(text), text)
  BY DEF EnsureBase64, Encodes
<1> QED
  BY <1>1, <1>2 DEF EnsureBase64

\* The documents of a JSON list in a form go through _ensure_base64 twice.
LEMMA DocumentsEncodedOnce ==
  ASSUME NEW texts \in Seq(Text), NEW notation
  PROVE  /\ AsFound(notation, texts) # NULL
         /\ Map(EnsureBase64, AsFound(notation, texts)) = Map(EnsureBase64, texts)
<1> DEFINE n == Len(texts)
           once == Map(EnsureBase64, texts)
<1>1. DOMAIN texts = 1..n
  OBVIOUS
<1>2. once = [i \in 1..n |-> EnsureBase64(texts[i])]
  BY <1>1 DEF Map
<1>3. Map(EnsureBase64, once) = once
  <2>1. Map(EnsureBase64, once) = [i \in 1..n |-> EnsureBase64(once[i])]
    BY <1>2 DEF Map
  <2>2. \A i \in 1..n : EnsureBase64(once[i]) = EnsureBase64(texts[i])
    BY <1>2, EncodedOnce
  <2> QED
    BY <1>2, <2>1, <2>2
<1> QED
  BY <1>3, ListsAreSent DEF AsFound

LEMMA StoredAsSent ==
  ASSUME NEW body \in Body,
         Received(body) = SignedDataObjects(AsFound(body.notation, body.documents),
                                            AsFound(body.notation, body.signatures))
  PROVE  ArrivesAsSent(body)
<1> DEFINE docs == IF body.documents = NULL THEN <<>> ELSE Map(EnsureBase64, body.documents)
           sigs == IF body.signatures = NULL THEN <<>>
                   ELSE AsFound(body.notation, body.signatures)
           d == IF body.documents = NULL THEN 0 ELSE Len(body.documents)
           s == IF body.signatures = NULL THEN 0 ELSE Len(body.signatures)
<1>1. /\ body.documents # NULL => body.documents \in Seq(Text)
      /\ body.signatures # NULL => body.signatures \in Seq(Text)
  BY DEF Body
<1>2. Received(body) = IF body.documents = NULL /\ body.signatures = NULL THEN NULL
                       ELSE docs \o sigs
  <2>1. AsFound(body.notation, NULL) = NULL
    BY DEF AsFound
  <2> QED
    BY <1>1, <2>1, DocumentsEncodedOnce DEF SignedDataObjects
<1>3. /\ docs \in Seq(Decoded) /\ Len(docs) = d /\ d \in Nat
      /\ \A i \in 1..d : Encodes(docs[i], body.documents[i])
  <2>1. CASE body.documents = NULL
    BY <2>1
  <2>2. CASE body.documents # NULL
    <3> DEFINE texts == body.documents
    <3>1. texts \in Seq(Text) /\ docs = Map(EnsureBase64, texts) /\ d = Len(texts)
      BY <1>1, <2>2
    <3> HIDE DEF docs, texts, d
    <3>2. /\ docs \in Seq(Decoded) /\ Len(docs) = d /\ d \in Nat
          /\ \A i \in 1..d : docs[i] = EnsureBase64(texts[i])
      <4>1. texts \in Seq(Text)
        BY <3>1
      <4>2. /\ Map(EnsureBase64, texts) \in Seq(Decoded)
            /\ Len(texts) \in Nat /\ Len(Map(EnsureBase64, texts)) = Len(texts)
            /\ \A i \in 1..Len(texts) : Map(EnsureBase64, texts)[i] = EnsureBase64(texts[i])
        BY ONLY <4>1, ListsAreSent
      <4> QED
        BY ONLY <3>1, <4>2
    <3>3. \A i \in 1..d : Encodes(docs[i], texts[i])
      BY <3>2, EncodedOnce
    <3> QED
      BY <3>2, <3>3 DEF texts
  <2> QED
    BY <2>1, <2>2
<1>4. /\ sigs \in Seq(Decoded) /\ Len(sigs) = s /\ s \in Nat
      /\ \A i \in 1..s : IF body.notation = "encoded_list"
                         THEN Encodes(sigs[i], body.signatures[i])
                         ELSE sigs[i] = body.signatures[i]
  <2>1. CASE body.signatures = NULL
    BY <2>1
  <2>2. CASE body.signatures # NULL
    <3> DEFINE texts == body.signatures
    <3>1. texts \in Seq(Text) /\ sigs = AsFound(body.notation, texts) /\ s = Len(texts)
      BY <1>1, <2>2
    <3> HIDE DEF sigs, texts, s
    <3>2. CASE body.notation = "encoded_list"
      <4>1. sigs = Map(EnsureBase64, texts)
        BY <3>1, <3>2, ListsAreSent DEF AsFound
      <4>2. /\ sigs \in Seq(Decoded) /\ Len(sigs) = s /\ s \in Nat
            /\ \A i \in 1..s : sigs[i] = EnsureBase64(texts[i])
        <5>1. texts \in Seq(Text)
          BY <3>1
        <5>2. /\ Map(EnsureBase64, texts) \in Seq(Decoded)
              /\ Len(texts) \in Nat /\ Len(Map(EnsureBase64, texts)) = Len(texts)
              /\ \A i \in 1..Len(texts) : Map(EnsureBase64, texts)[i] = EnsureBase64(texts[i])
          BY ONLY <5>1, ListsAreSent
        <5> QED
          BY ONLY <3>1, <4>1, <5>2
      <4>3. \A i \in 1..s : Encodes(sigs[i], texts[i])
        BY <4>2, EncodedOnce
      <4> QED
        BY <3>2, <4>2, <4>3 DEF texts
    <3>3. CASE body.notation # "encoded_list"
      <4>1. sigs = texts
        BY <3>1, <3>3 DEF AsFound
      <4>2. sigs \in Seq(Decoded) /\ Len(sigs) = s /\ s \in Nat
        <5>1. texts \in Seq(Text)
          BY <3>1
        <5>2. texts \in Seq(Decoded) /\ Len(texts) \in Nat
          BY ONLY <5>1, ListsAreSent
        <5> QED
          BY ONLY <3>1, <4>1, <5>2
      <4> QED
        BY <3>3, <4>1, <4>2 DEF texts
    <3> QED
      BY <3>2, <3>3
  <2> QED
    BY <2>1, <2>2
<1> HIDE DEF docs, sigs, d, s
<1>5. /\ Len(docs \o sigs) = d + s
      /\ \A i \in 1..d : (docs \o sigs)[i] = docs[i]
      /\ \A i \in 1..s : (docs \o sigs)[d + i] = sigs[i]
  <2>1. docs \in Seq(Decoded) /\ sigs \in Seq(Decoded)
    BY <1>3, <1>4
  <2>2. /\ Len(docs \o sigs) = Len(docs) + Len(sigs)
        /\ \A i \in 1..Len(docs) : (docs \o sigs)[i] = docs[i]
        /\ \A i \in 1..Len(sigs) : (docs \o sigs)[Len(docs) + i] = sigs[i]
    BY ONLY <2>1, Concatenated
  <2> QED
    BY ONLY <1>3, <1>4, <2>2
<1>6. IF body.documents = NULL /\ body.signatures = NULL THEN Received(body) = NULL
      ELSE /\ Len(Received(body)) = d + s
           /\ \A i \in 1..d : Encodes(Received(body)[i], body.documents[i])
           /\ \A i \in 1..s : IF body.notation = "encoded_list"
                              THEN Encodes(Received(body)[d + i], body.signatures[i])
                              ELSE Received(body)[d + i] = body.signatures[i]
  <2> DEFINE objects == docs \o sigs
  <2>1. /\ \A i \in 1..d : Encodes(objects[i], body.documents[i])
        /\ \A i \in 1..s : IF body.notation = "encoded_list"
                           THEN Encodes(objects[d + i], body.signatures[i])
                           ELSE objects[d + i] = body.signatures[i]
    BY <1>3, <1>4, <1>5
  <2> HIDE DEF objects
  <2> QED
    BY <1>2, <1>5, <2>1 DEF objects
<1> QED
  BY <1>6 DEF ArrivesAsSent, d, s

-----------------------------------------------------------------------------
(* The theorem *)

\* DecodedAsSent holds of lists of any length and whatever they contain, in JSON
\* and in the five notations of forms: the endpoint finds every document and every
\* signature, in their order, and a document is stored in base64, encoded exactly
\* if it was not (retrieve_list_values_from_form_urlencoded, _ensure_base64).
THEOREM AlwaysDecodedAsSent == ItbSpec => []DecodedAsSent
<1>1. ASSUME NEW body \in Body,
             Carries(body.notation, body.documents), Carries(body.notation, body.signatures)
      PROVE  ArrivesAsSent(body)
  <2>1. CASE body.notation = "json"
    <3>1. Received(body) = SignedDataObjects(AsFound(body.notation, body.documents),
                                             AsFound(body.notation, body.signatures))
      BY <2>1 DEF Received, FromJson, AsFound
    <3> QED
      BY <3>1, StoredAsSent
  <2>2. CASE body.notation # "json"
    BY <1>1, <2>2, FormIsFound, StoredAsSent
  <2> QED
    BY <2>1, <2>2
<1>2. ItbTypeOK => DecodedAsSent
  BY <1>1, BodiesAssumption DEF ItbTypeOK, DecodedAsSent
<1> QED
  BY <1>2, LogsAreTyped, PTL
=============================================================================
