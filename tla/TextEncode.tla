----------------------------- MODULE TextEncode -----------------------------
(***************************************************************************)
(* The text encoders of src/src/wb_lwm2m_encode.c, one pass of a loop per   *)
(* step, into a buffer of any size: the link-format payload ("link"), all   *)
(* readable resources of an instance as SenML-JSON ("instance"), and one    *)
(* resource ("single").                                                     *)
(*                                                                          *)
(* A text is a sequence of pieces: a name for what a conversion writes, and *)
(* the number of characters it takes.  How a number is printed is left out; *)
(* its characters are part of the input.  base64 is kept, sextet by sextet. *)
(***************************************************************************)
EXTENDS Integers, Sequences

CONSTANTS
    Jobs,      \* [job, items]: what to encode
    Rooms,     \* buf_size
    B64Size    \* sizeof(b64)

\* An item of a link is an instance of an object: its path's digits are chars.  An
\* item of the others is a resource: digits of its ID, whether the callback yields
\* a value, the value's type, its characters, or its bytes when it is OPAQUE.
NumberTypes == {"INTEGER", "UINTEGER", "TIME", "FLOAT"}
ValueTypes == NumberTypes \cup {"STRING", "CORELNK", "BOOLEAN", "OPAQUE", "OBJLINK", "NONE"}

Byte == 0 .. 255
Items == [id : Nat, idChars : Nat, readable : BOOLEAN, type : ValueTypes,
          chars : Nat, bytes : Seq(Byte)]

ASSUME JobAssumption ==
    \A j \in Jobs : /\ j.job \in {"link", "instance", "single"}
                    /\ j.items \in Seq(Items)
                    /\ j.job = "single" => Len(j.items) = 1
ASSUME RoomAssumption == Rooms \subseteq Nat \ {0}
ASSUME B64Assumption == B64Size \in Nat

VARIABLES
    job, items, room,
    next,      \* i + 1
    first,     \* first, first_record
    out,       \* the text, offset, and how far the buffer has been written
    phase      \* opening, writing, done, or failed (-1)

vars == <<job, items, room, next, first, out, phase>>

-----------------------------------------------------------------------------
(* base64_encode *)

Pad == 64   \* '='
B64Chars(n) == 4 * ((n + 2) \div 3)

\* Past its end the value counts as 0.
ByteAt(bytes, i) == IF i < Len(bytes) THEN bytes[i + 1] ELSE 0

\* n >> 18, n >> 12, n >> 6 and n
Shifts == <<262144, 4096, 64, 1>>

\* The three bytes from i on.
Group(bytes, i) == ByteAt(bytes, i) * 65536 + ByteAt(bytes, i + 1) * 256 + ByteAt(bytes, i + 2)

\* Character p of the four for them.
Base64Char(bytes, i, p) ==
    IF p > 1 /\ i + p - 1 >= Len(bytes)
    THEN Pad
    ELSE (Group(bytes, i) \div Shifts[p + 1]) % 64

Base64(bytes) ==
    [k \in 1 .. B64Chars(Len(bytes)) |->
        Base64Char(bytes, 3 * ((k - 1) \div 4), (k - 1) % 4)]

-----------------------------------------------------------------------------
(* The pieces *)

Key(type) == CASE type \in {"STRING", "CORELNK"} -> "vs"
               [] type \in NumberTypes -> "v"
               [] type = "BOOLEAN" -> "vb"
               [] type = "OPAQUE" -> "vd"
               [] type = "OBJLINK" -> "vlo"
               [] OTHER -> "none"

Encodable(r) == /\ r.type # "NONE"
                /\ r.type = "OPAQUE" => B64Chars(Len(r.bytes)) + 1 <= B64Size

\* The value field and its closing brace: ,"vs":"..."} and so on.
Value(r) == <<Key(r.type), IF r.type = "OPAQUE" THEN Base64(r.bytes) ELSE r.chars>>
Frame == [vs |-> 9, v |-> 6, vb |-> 7, vd |-> 9, vlo |-> 11, none |-> 0]
ValueChars(r) ==
    Frame[Key(r.type)] + (IF r.type = "OPAQUE" THEN B64Chars(Len(r.bytes)) ELSE r.chars)

\* {"bn":"/3/0/","n":"10" and {"n":"10"; the object and instance have a digit each.
Base(r) == <<"base", r.id>>
BaseChars(r) == 20 + r.idChars
Name(r) == <<"name", r.id>>
NameChars(r) == 7 + r.idChars

Link(r) == <<"link", r.id>>
LinkChars(r) == 4 + r.chars

Open == <<"[">>
Comma == <<",">>
Close == <<"]">>

-----------------------------------------------------------------------------
(* Writing *)

Halted(o, top) == [ok |-> FALSE, text |-> o.text, offset |-> o.offset, top |-> top]

\* return -1
Refuse(o) == Halted(o, o.top)

\* Variant: a text that leaves no room for its NUL is accepted.
SnprintfUnterminated(o, pieces, w) ==
    IF w <= room - o.offset
    THEN [ok |-> o.ok, text |-> o.text \o pieces, offset |-> o.offset + w,
          top |-> o.offset + w + 1]
    ELSE Halted(o, room)

\* snprintf and the test after it.  A text too long fills what is left; nothing is
\* printed after a failure.
Snprintf(o, pieces, w) ==
    IF o.ok /\ w < room - o.offset
    THEN [ok |-> TRUE, text |-> o.text \o pieces, offset |-> o.offset + w,
          top |-> o.offset + w + 1]
    ELSE Halted(o, IF o.ok THEN room ELSE o.top)

\* buf[offset++] = ',' with the test before it
Store(o, piece) ==
    IF o.ok /\ o.offset < room
    THEN [ok |-> TRUE, text |-> Append(o.text, piece), offset |-> o.offset + 1,
          top |-> o.offset + 1]
    ELSE Refuse(o)

Blank == [ok |-> TRUE, text |-> <<>>, offset |-> 0, top |-> 0]

Init ==
    /\ \E j \in Jobs : job = j.job /\ items = j.items
    /\ room \in Rooms
    /\ next = 1
    /\ first = TRUE
    /\ out = Blank
    /\ phase = IF job = "instance" THEN "opening" ELSE "writing"

Goes(o, then) ==
    /\ out' = o
    /\ phase' = IF o.ok THEN then ELSE "failed"

Begin ==
    /\ phase = "opening"
    /\ Goes(IF room < 2 THEN Refuse(out) ELSE Store(out, Open), "writing")
    /\ UNCHANGED <<job, items, room, next, first>>

Pending == phase = "writing" /\ job # "single" /\ next <= Len(items)

\* Variant: a resource that is skipped takes the first one's place.
SkipAsFirst ==
    /\ Pending
    /\ ~items[next].readable
    /\ next' = next + 1
    /\ first' = FALSE
    /\ UNCHANGED <<job, items, room, out, phase>>

\* A NULL object; a resource of type NONE, without read callback, or whose callback
\* fails.
Skip ==
    /\ Pending
    /\ ~items[next].readable
    /\ next' = next + 1
    /\ UNCHANGED <<job, items, room, first, out, phase>>

WriteLink ==
    /\ Pending /\ job = "link"
    /\ items[next].readable
    /\ LET r == items[next]
       IN  Goes(IF first THEN Snprintf(out, <<Link(r)>>, LinkChars(r))
                ELSE Snprintf(out, <<Comma, Link(r)>>, 1 + LinkChars(r)),
                "writing")
    /\ first' = FALSE
    /\ next' = next + 1
    /\ UNCHANGED <<job, items, room>>

\* Variant: the comma goes by the resource's place, not by what was written.
SeparatorByIndex == IF next = 1 THEN out ELSE Store(out, Comma)
Separator == IF first THEN out ELSE Store(out, Comma)

WriteRecord ==
    /\ Pending /\ job = "instance"
    /\ items[next].readable
    /\ LET r == items[next]
           head == IF Separator.offset = 1
                   THEN Snprintf(Separator, <<Base(r)>>, BaseChars(r))
                   ELSE Snprintf(Separator, <<Name(r)>>, NameChars(r))
       IN  Goes(IF Encodable(r) THEN Snprintf(head, <<Value(r)>>, ValueChars(r))
                                ELSE Refuse(head),
                "writing")
    /\ first' = FALSE
    /\ next' = next + 1
    /\ UNCHANGED <<job, items, room>>

\* wb_lwm2m_encode_senml_json, in one snprintf
WriteSingle ==
    /\ phase = "writing" /\ job = "single"
    /\ LET r == items[1]
       IN  Goes(IF Encodable(r)
                THEN Snprintf(out, <<Open, Base(r), Value(r), Close>>,
                           2 + BaseChars(r) + ValueChars(r))
                ELSE Refuse(out),
                "done")
    /\ UNCHANGED <<job, items, room, next, first>>

\* Variant: the NUL after the bracket is forgotten.
ClosedUnterminated == [ok |-> TRUE, text |-> Append(out.text, Close),
                       offset |-> out.offset + 1, top |-> out.offset + 1]
Closed == [ok |-> TRUE, text |-> Append(out.text, Close),
           offset |-> out.offset + 1, top |-> out.offset + 2]

\* Variant: no room is asked for the NUL.
CloseFitsOffByOne == out.offset < room
CloseFits == out.offset + 1 < room

Finish ==
    /\ phase = "writing" /\ job # "single" /\ next > Len(items)
    /\ Goes(IF job = "link" THEN out ELSE IF CloseFits THEN Closed ELSE Refuse(out), "done")
    /\ UNCHANGED <<job, items, room, next, first>>

Next == Begin \/ Skip \/ WriteLink \/ WriteRecord \/ WriteSingle \/ Finish

Spec == Init /\ [][Next]_vars

-----------------------------------------------------------------------------
(* Properties *)

\* No snprintf, comma or bracket goes past the end of the caller's buffer, at any
\* size, also in the passes that fail.
WithinBuffer == out.top <= room /\ out.offset <= room

\* A text that is returned ends in a NUL inside the buffer.  (A link-format payload
\* of no object is never written at all: see the README.)
Terminated ==
    (phase = "done" /\ out.text # <<>>) => out.top = out.offset + 1

\* Where the text ends: what a step writes depends on where the last one ended, and
\* only links are handed back as the last pass left them.
BufferInv ==
    /\ job \in {"link", "instance", "single"}
    /\ items \in Seq(Items)
    /\ job = "single" => Len(items) = 1
    /\ room \in Nat \ {0}
    /\ next \in Nat \ {0}
    /\ phase \in {"opening", "writing", "done", "failed"}
    /\ phase = "opening" => job = "instance" /\ out.offset = 0
    /\ out = [ok |-> out.ok, text |-> out.text, offset |-> out.offset, top |-> out.top]
    /\ out.ok \in BOOLEAN
    /\ out.offset \in Nat
    /\ out.top \in Nat
    /\ WithinBuffer
    /\ (phase = "writing" /\ job = "link") => out.text = <<>> \/ out.top = out.offset + 1
    /\ Terminated

\* base64 by the bits: character k holds bits 6(k-1) to 6k-1 of the value.
BitWeights == <<128, 64, 32, 16, 8, 4, 2, 1>>
BitAt(bytes, j) ==
    IF j < 8 * Len(bytes)
    THEN (bytes[j \div 8 + 1] \div BitWeights[(j % 8) + 1]) % 2 ELSE 0
SextetAt(bytes, j) ==
    32 * BitAt(bytes, j) + 16 * BitAt(bytes, j + 1) + 8 * BitAt(bytes, j + 2)
        + 4 * BitAt(bytes, j + 3) + 2 * BitAt(bytes, j + 4) + BitAt(bytes, j + 5)
ByBits(bytes) ==
    [k \in 1 .. B64Chars(Len(bytes)) |->
        IF 6 * (k - 1) >= 8 * Len(bytes) THEN Pad ELSE SextetAt(bytes, 6 * (k - 1))]

\* The items that belong in the text of a kind of job, and whether item i of s is the
\* first of them.
InText(kind, r) == r.readable \/ kind = "single"
NoneBefore(kind, s, i) == \A j \in 1 .. i - 1 : ~InText(kind, s[j])

\* What item i adds to the text: separated by commas, the base name in the first record
\* and only there.
Part(kind, s, i) ==
    LET r == s[i]
        value == IF r.type = "OPAQUE" THEN <<"vd", ByBits(r.bytes)>> ELSE Value(r)
        comma == IF NoneBefore(kind, s, i) THEN <<>> ELSE <<Comma>>
    IN  IF ~InText(kind, r) THEN <<>>
        ELSE IF kind = "link" THEN comma \o <<Link(r)>>
        ELSE comma \o <<IF NoneBefore(kind, s, i) THEN Base(r) ELSE Name(r), value>>
Listed(kind, s, n) ==
    LET text[k \in 0 .. Len(s)] == IF k = 0 THEN <<>> ELSE text[k - 1] \o Part(kind, s, k)
    IN  text[n]

\* The text by its grammar.
Expected ==
    LET listed == Listed(job, items, Len(items))
    IN  IF job = "link" THEN listed ELSE <<Open>> \o listed \o <<Close>>

\* Whatever is skipped, whatever fails to be read: the text returned is that one.
Complete == phase = "done" => out.text = Expected

\* Its length, from the same grammar.
Width(kind, s, i) ==
    LET r == s[i]
        comma == IF NoneBefore(kind, s, i) THEN 0 ELSE 1
    IN  IF ~InText(kind, r) THEN 0
        ELSE IF kind = "link" THEN comma + LinkChars(r)
        ELSE comma + (IF NoneBefore(kind, s, i) THEN BaseChars(r) ELSE NameChars(r))
                   + ValueChars(r)
ListedChars(kind, s, n) ==
    LET chars[k \in 0 .. Len(s)] == IF k = 0 THEN 0 ELSE chars[k - 1] + Width(kind, s, k)
    IN  chars[n]
Length == ListedChars(job, items, Len(items)) + (IF job = "link" THEN 0 ELSE 2)

\* The values that belong in the text; those of a type with no text; the opaque ones
\* whose base64 and its NUL b64 can hold, up to 255 bytes in the code.
Values == {items[i] : i \in {k \in DOMAIN items : job # "link" /\ InText(job, items[k])}}
Typed == \A r \in Values : r.type # "NONE"
FitsB64(r) == r.type = "OPAQUE" => B64Chars(Len(r.bytes)) + 1 <= B64Size

\* Unless an opaque value is too long for b64 (see BinaryFits), an encoder fails only
\* for a value of type NONE, or when the text and its NUL are longer than the buffer:
\* no check on the way is stricter than the last one.  What it returns is the length.
FailsOnlyIfTooLong ==
    /\ phase = "failed" /\ (\A r \in Values : FitsB64(r)) => ~Typed \/ Length >= room
    /\ phase = "done" => Typed /\ Length = out.offset /\ Length < room

\* "enough for 256 bytes of binary input" (src/src/wb_lwm2m_encode.c:131, of
\* char b64[344]): no opaque value of up to 256 bytes makes the encoder of one
\* resource fail when its buffer has room.  The code does not keep it: 256 bytes are
\* 344 characters, and a NUL.
BinaryFits ==
    (/\ phase = "failed" /\ job = "single"
     /\ items[1].type = "OPAQUE" /\ Len(items[1].bytes) <= 256) => Length >= room

\* The two together, exactly: an encoder fails for a value that has no text or none
\* that fits b64, or for want of room.
AllEncodable ==
    job = "link" \/ \A i \in DOMAIN items : InText(job, items[i]) => Encodable(items[i])
FailsExactly ==
    /\ phase = "failed" => ~AllEncodable \/ Length >= room
    /\ phase = "done" => AllEncodable /\ Length = out.offset /\ Length < room

\* After every pass, of skipped and failing resources too: the text so far and its
\* length are those of the items so far, every one of which can be encoded; the next
\* separator is decided by whether one of them is in the text (first, first_record); and
\* there is room for a NUL.
Opened == IF job = "instance" THEN <<Open>> ELSE <<>>
SoFar ==
    /\ next \in 1 .. Len(items) + 1
    /\ job = "single" => next = 1
    /\ phase # "failed" => out.ok
    /\ phase = "opening" => next = 1 /\ first /\ out = Blank
    /\ phase = "writing" =>
          /\ first = NoneBefore(job, items, next)
          /\ out.text = Opened \o Listed(job, items, next - 1)
          /\ out.offset = Len(Opened) + ListedChars(job, items, next - 1)
          /\ job = "link" \/ \A i \in 1 .. next - 1 : InText(job, items[i]) => Encodable(items[i])
          /\ out.offset < room

\* The inductive invariant of TextEncode_proofs: no step is right about the buffer, the
\* text or its length without the others.
TextInv == BufferInv /\ SoFar /\ Complete /\ FailsExactly
=============================================================================
