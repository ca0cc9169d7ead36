--------------------------------- MODULE Codec ---------------------------------
(***************************************************************************)
(* protocol/Ascii.ts, Field.ts and Header.ts: how numbers, text and codes  *)
(* become fields of a fixed width, fields a data field, and a data field a *)
(* frame.                                                                  *)
(*                                                                         *)
(* A character is its code, a text a sequence of characters.  What may     *)
(* fail returns a set: empty, or holding the one thing it made.  A field   *)
(* is a record; its last part, of, is the largest value of a number, the   *)
(* literals of an enumeration or the text of a filler.  Only numbers TLC   *)
(* can hold are decoded: up to nine digits that count.                     *)
(***************************************************************************)
EXTENDS Integers, SequencesExt

Space == 32
Dash == 45
Zero == 48
Colon == 58
Terminator == 0
HeaderLength == 20

\* Str.substring.
Part(text, from, to) == SubSeq(text, from + 1, Min({to, Len(text)}))

Blanks(count) == [i \in 1 .. count |-> Space]
Zeroes(count) == [i \in 1 .. count |-> Zero]
Printed(text) == {i \in DOMAIN text : text[i] # Space}
TrimEnd(text) == SubSeq(text, 1, Max(Printed(text) \cup {0}))
Trim(text) ==
    IF Printed(text) = {} THEN <<>>
    ELSE SubSeq(text, Min(Printed(text)), Max(Printed(text)))

\* Str.join, by halves: texts are longer than a recursion may be deep.
Joined(texts) ==
    LET join[span \in (DOMAIN texts) \X (DOMAIN texts)] ==
          LET middle == (span[1] + span[2]) \div 2
          IN  IF span[1] = span[2] THEN texts[span[1]]
              ELSE join[<<span[1], middle>>] \o join[<<middle + 1, span[2]>>]
    IN  IF texts = <<>> THEN <<>> ELSE join[<<1, Len(texts)>>]

-----------------------------------------------------------------------------
\* Ascii.ts.
IsDigit(char) == char \in Zero .. Zero + 9
IsDigits(text) == text # <<>> /\ \A i \in DOMAIN text : IsDigit(text[i])
NumberOf(text) == FoldLeft(LAMBDA n, char : 10 * n + (char - Zero), 0, text)
ParseDigits(text) == {NumberOf(t) : t \in {u \in {text} : IsDigits(u)}}

\* padNumber: at least width digits, more when the number needs them.
TenTo(k) ==
    <<1, 10, 100, 1000, 10000, 100000, 1000000, 10000000, 100000000, 1000000000>>[k + 1]
Needs(number) == Min({k \in 1 .. 10 : k = 10 \/ number < TenTo(k)})
DigitsOf(number, count) ==
    [i \in 1 .. count |-> Zero + ((number \div TenTo(count - i)) % 10)]
PadNumber(number, width) == DigitsOf(number, Max({width, Needs(number)}))

PadText(text, width) == Part(text \o Blanks(width), 0, width)

-----------------------------------------------------------------------------
\* The constructors of Field.ts; id is empty where the layout has none.
Digits(name, id, width, largest) ==
    [name |-> name, kind |-> "digits", id |-> id, width |-> width, of |-> largest]
Text(name, id, width) ==
    [name |-> name, kind |-> "text", id |-> id, width |-> width, of |-> <<>>]
Raw(name, id, width) ==
    [name |-> name, kind |-> "raw", id |-> id, width |-> width, of |-> <<>>]
Timestamp(name, id) ==
    [name |-> name, kind |-> "timestamp", id |-> id, width |-> 19, of |-> <<>>]
Enumerated(name, id, literals) ==
    [name |-> name, kind |-> "enumerated", id |-> id, width |-> 1, of |-> literals]
Filler(id, value) ==
    [name |-> "", kind |-> "filler", id |-> id, width |-> Len(value), of |-> value]

IsNamed(field) == field.kind # "filler"

\* ControllerTimestamp of TighteningResult.ts.
IsTimestamp(text) ==
    /\ Len(text) = 19
    /\ \A i \in DOMAIN text :
          IF i - 1 \in {4, 7, 10, 13, 16} THEN text[i] \in {Dash, Colon}
          ELSE IsDigit(text[i])

\* The codec of one field, on as many characters as it is wide.
ReadField(field, text) ==
    CASE field.kind = "digits" -> {n \in ParseDigits(text) : n <= field.of}
      [] field.kind = "text" -> {TrimEnd(text)}
      [] field.kind = "raw" -> {text}
      [] field.kind = "timestamp" -> {t \in {text} : IsTimestamp(t)}
      [] field.kind = "enumerated" ->
            {field.of[n + 1] : n \in {m \in ParseDigits(text) : m < Len(field.of)}}

\* The other way.  A value that does not fit is refused, never cut short.
WriteField(field, value) ==
    CASE field.kind = "digits" ->
            {t \in {PadNumber(n, field.width) : n \in {value} \cap 0 .. field.of} :
                 Len(t) = field.width}
      [] field.kind = "text" ->
            {PadText(t, field.width) : t \in {u \in {value} : Len(u) <= field.width}}
      [] field.kind = "raw" -> {t \in {value} : Len(t) = field.width}
      [] field.kind = "timestamp" -> {t \in {value} : IsTimestamp(t)}
      [] field.kind = "enumerated" ->
            {PadNumber(i - 1, field.width) : i \in {j \in DOMAIN field.of : field.of[j] = value}}

-----------------------------------------------------------------------------
\* A function, and what another one has beside it.
Beside(f, g) == [x \in DOMAIN f \cup DOMAIN g |-> IF x \in DOMAIN f THEN f[x] ELSE g[x]]

\* placed: every entry with the place where it starts in the data field.
Takes(field) == Len(field.id) + field.width
Layout(entries) ==
    LET start[i \in DOMAIN entries] ==
            IF i = 1 THEN 0 ELSE start[i - 1] + Takes(entries[i - 1])
    IN  [i \in DOMAIN entries |-> Beside([at |-> start[i]], entries[i])]

\* step, slice: the id and the text that stand at the place of a field.
IdAt(field, data) == Part(data, field.at, field.at + Len(field.id))
ValueAt(field, data) ==
    LET start == field.at + Len(field.id) IN Part(data, start, start + field.width)

IsScanned(layout, data) ==
    \A i \in DOMAIN layout :
       /\ IdAt(layout[i], data) = layout[i].id
       /\ Len(ValueAt(layout[i], data)) = layout[i].width

NamedEntries(layout) == {i \in DOMAIN layout : IsNamed(layout[i])}
Names(layout) == {layout[i].name : i \in NamedEntries(layout)}
At(layout, name) == CHOOSE i \in NamedEntries(layout) : layout[i].name = name

\* A field whose width is enough for what it may hold, and a layout of them:
\* one behind the other, no name twice, not longer than a frame may be.
IsField(field) ==
    /\ field.id \in Seq(0 .. 127)
    /\ \/ /\ field.kind = "digits" /\ field.width \in 1 .. 10 /\ field.of \in Nat
          /\ field.of \div TenTo(field.width - 1) <= 9
       \/ field.kind \in {"text", "raw"} /\ field.width \in Nat
       \/ field.kind = "timestamp" /\ field.width = 19
       \/ /\ field.kind = "enumerated" /\ field.width = 1
          /\ field.of \in Seq(STRING) /\ Len(field.of) <= 10
       \/ /\ field.kind = "filler" /\ field.width = Len(field.of)
          /\ field.of \in Seq(0 .. 127)

IsLayout(layout) ==
    /\ layout \in Seq(Range(layout))
    /\ \A i \in DOMAIN layout :
          /\ IsField(layout[i])
          /\ layout[i].at = IF i = 1 THEN 0 ELSE layout[i - 1].at + Takes(layout[i - 1])
          /\ layout[i].at + Takes(layout[i]) <= 9999 - HeaderLength
    /\ \A i, j \in NamedEntries(layout) : layout[i].name = layout[j].name => i = j

\* Values whose texts are of the characters the wire has.
IsOfText(field) == field.kind \in {"text", "raw", "timestamp"}
Suits(layout, values) ==
    \A i \in NamedEntries(layout) :
       IsOfText(layout[i]) => values[layout[i].name] \in Seq(0 .. 127)

\* layout, decoding: every id and width is checked, the text of a filler and
\* what follows the last entry are not.
ReadEntries(layout, data) ==
    [n \in Names(layout) |->
        ReadField(layout[At(layout, n)], ValueAt(layout[At(layout, n)], data))]
DecodeLayout(layout, data) ==
    {[n \in DOMAIN read |-> CHOOSE v \in read[n] : TRUE] :
        read \in {r \in {ReadEntries(layout, data)} :
                     IsScanned(layout, data) /\ \A n \in DOMAIN r : r[n] # {}}}

\* layout, encoding: join.
WriteEntry(entry, values) ==
    IF IsNamed(entry) THEN WriteField(entry, values[entry.name]) ELSE {entry.of}
EncodeLayout(layout, values) ==
    {Joined([i \in DOMAIN layout |-> layout[i].id \o CHOOSE t \in write[i] : TRUE]) :
        write \in {w \in {[i \in DOMAIN layout |-> WriteEntry(layout[i], values)]} :
                     \A i \in DOMAIN layout : w[i] # {}}}

-----------------------------------------------------------------------------
\* Header.ts.  A header that is refused is refused: whether as malformed or
\* for an unsupported feature, the session is lost all the same.
HeaderField(raw) == ParseDigits(Trim(raw))
FieldOrDefault(raw, default) == IF Trim(raw) = <<>> THEN default ELSE HeaderField(raw)
MidNumber == 0 .. 9999
RevisionNumber == 1 .. 999
Header ==
    [length : HeaderLength .. 9999, mid : MidNumber, revision : RevisionNumber,
     noAck : BOOLEAN, stationId : 1 .. 99, spindleId : 1 .. 99]

AtLeastOne(number) == Max({number, 1})

\* The parts of a header: where each stands, and what a blank one means.
HeaderParts ==
    [length |-> <<0, 4, {}>>, mid |-> <<4, 8, {}>>, revision |-> <<8, 11, {1}>>,
     noAck |-> <<11, 12, {0}>>, stationId |-> <<12, 14, {1}>>, spindleId |-> <<14, 16, {1}>>]
ReservedParts == {<<16, 18, {0}>>, <<18, 19, {0}>>, <<19, 20, {0}>>}
ReadPart(text, part) == FieldOrDefault(Part(text, part[1], part[2]), part[3])
ReadHeader(text) ==
    [part \in DOMAIN HeaderParts |-> CHOOSE n \in ReadPart(text, HeaderParts[part]) : TRUE]
HeaderOf(read) ==
    [length |-> read.length, mid |-> read.mid, revision |-> AtLeastOne(read.revision),
     noAck |-> read.noAck = 1, stationId |-> AtLeastOne(read.stationId),
     spindleId |-> AtLeastOne(read.spindleId)]

DecodeHeader(text) ==
    {HeaderOf(ReadHeader(t)) :
        t \in {u \in {text} :
                 /\ Len(u) >= HeaderLength
                 /\ \A part \in DOMAIN HeaderParts : ReadPart(u, HeaderParts[part]) # {}
                 /\ \A part \in ReservedParts : ReadPart(u, part) = {0}}} \cap Header

EncodeHeader(header) ==
    PadNumber(header.length, 4) \o PadNumber(header.mid, 4) \o PadNumber(header.revision, 3)
    \o (IF header.noAck THEN <<Zero + 1>> ELSE <<Zero>>)
    \o PadNumber(header.stationId, 2) \o PadNumber(header.spindleId, 2) \o Zeroes(4)

EncodeFrame(mid, revision, data) ==
    EncodeHeader([length |-> HeaderLength + Len(data), mid |-> mid, revision |-> revision,
                  noAck |-> FALSE, stationId |-> 1, spindleId |-> 1])
    \o data \o <<Terminator>>

=============================================================================
