----------------------------- MODULE TlvTransfer -----------------------------
(***************************************************************************)
(* An object instance written by wb_lwm2m_tlv_encode_instance, one pass of  *)
(* its loop per step, into a buffer of any size, and read back record by    *)
(* record the way wb_lwm2m_tlv.h's decoding example does.                   *)
(***************************************************************************)
EXTENDS TlvCodec

CONSTANTS Instances, Rooms   \* the instances and the buffer sizes to try

\* A resource, whether its callback yields a value, and that value.
Resources == [id : Identifiers, readable : BOOLEAN, value : Value]

\* Resources of one ID that are read have one type: the reader of the bytes has nothing
\* else to tell their values by.
ASSUME InstanceAssumption ==
    \A rs \in Instances :
        /\ rs \in Seq(Resources)
        /\ \A i, j \in DOMAIN rs :
              rs[i].readable /\ rs[j].readable /\ rs[i].id = rs[j].id
                 => rs[i].value.type = rs[j].value.type

\* wb_lwm2m_tlv_encode_instance refuses a buffer of size 0 before anything else.
ASSUME RoomAssumption == Rooms \subseteq Nat \ {0}

VARIABLES
    resources,  \* obj->resources, in order
    room,       \* buf_size
    next,       \* i + 1
    buf,        \* buf[0 .. offset - 1]
    phase,      \* encoding, rejected (-1), decoding, decoded, broken
    pos,        \* bytes the reader has consumed
    received    \* the records the reader has decoded

vars == <<resources, room, next, buf, phase, pos, received>>

Init ==
    /\ resources \in Instances
    /\ room \in Rooms
    /\ next = 1
    /\ buf = <<>>
    /\ phase = "encoding"
    /\ pos = 0
    /\ received = <<>>

\* Execute-only resources, those without a read callback and those whose callback
\* fails are left out.  A callback may succeed and leave the value's type NONE.
Written(r) == r.readable

Skip ==
    /\ phase = "encoding"
    /\ next <= Len(resources)
    /\ ~Written(resources[next])
    /\ next' = next + 1
    /\ UNCHANGED <<resources, room, buf, phase, pos, received>>

\* Variant: each record gets buf_size instead of buf_size - offset.
RoomLeftWhole == room
RoomLeft == room - Len(buf)

Record == EncodeResource(resources[next].id, resources[next].value, RoomLeft)

Write ==
    /\ phase = "encoding"
    /\ next <= Len(resources)
    /\ Written(resources[next])
    /\ \/ /\ Record # NoBytes
          /\ buf' = buf \o Record
          /\ next' = next + 1
          /\ UNCHANGED phase
       \/ /\ Record = NoBytes
          /\ phase' = "rejected"
          /\ UNCHANGED <<buf, next>>
    /\ UNCHANGED <<resources, room, pos, received>>

Finish ==
    /\ phase = "encoding"
    /\ next > Len(resources)
    /\ phase' = "decoding"
    /\ UNCHANGED <<resources, room, next, buf, pos, received>>

\* The reader knows the type of a resource from its ID.
TypeOf(id) ==
    LET of == {i \in DOMAIN resources : Written(resources[i]) /\ resources[i].id = id}
    IN  IF of = {} THEN "NONE" ELSE resources[CHOOSE i \in of : TRUE].value.type

Read ==
    /\ phase = "decoding"
    /\ pos < Len(buf)
    /\ LET rest == SubSeq(buf, pos + 1, Len(buf))
           h == DecodeHeader(rest)
           value == DecodeValue(TypeOf(h.id), SubSeq(rest, h.offset + 1, h.offset + h.len))
       IN  \/ /\ h.ok /\ h.type = 3 /\ value # InvalidSize
              /\ received' = Append(received, [id |-> h.id, value |-> value])
              /\ pos' = pos + h.offset + h.len
              /\ UNCHANGED phase
           \/ /\ ~(h.ok /\ h.type = 3 /\ value # InvalidSize)
              /\ phase' = "broken"
              /\ UNCHANGED <<pos, received>>
    /\ UNCHANGED <<resources, room, next, buf>>

End ==
    /\ phase = "decoding"
    /\ pos = Len(buf)
    /\ phase' = "decoded"
    /\ UNCHANGED <<resources, room, next, buf, pos, received>>

Next == Skip \/ Write \/ Finish \/ Read \/ End

Spec == Init /\ [][Next]_vars

-----------------------------------------------------------------------------
\* A resource as the reader should report it.
Entry(r) == [id |-> r.id, value |-> r.value]

\* What should arrive of the first n resources: those written, in order.
Sent(rs, n) ==
    LET sent[k \in 0 .. Len(rs)] ==
            IF k = 0 THEN <<>>
            ELSE IF Written(rs[k]) THEN Append(sent[k - 1], Entry(rs[k])) ELSE sent[k - 1]
    IN  sent[n]

\* Every instance that is encoded is read back exactly, whatever the forms of its
\* headers and the widths of its integers: no record is misread as another one.
RoundTrip ==
    /\ phase # "broken"
    /\ phase = "decoded" => received = Sent(resources, Len(resources))

\* A record cut off anywhere is refused: no byte past the end of the reader's buffer
\* is taken for a value.
CutIsRefused ==
    (phase = "decoding" /\ pos < Len(buf)) =>
        LET rest == SubSeq(buf, pos + 1, Len(buf))
            h == DecodeHeader(rest)
        IN  \A n \in 1 .. h.offset + h.len - 1 : ~DecodeHeader(SubSeq(rest, 1, n)).ok

\* The records never pass the end of the caller's buffer, however many were written
\* before, and the reader never passes the end of the records.
WithinBuffer == Len(buf) <= room /\ pos <= Len(buf)

\* The bytes a value takes by the layout of wb_lwm2m_tlv.c:4-19, written without
\* reference to the encoder; Unencodable when the layout has no place for it.
Unencodable == -1
Shortest(ns) == CHOOSE n \in ns : \A m \in ns : n <= m
ValueSize(value) ==
    CASE value.type \in ByteTypes ->
            IF Len(value.v) < Power(Field, 3) THEN Len(value.v) ELSE Unencodable
      [] value.type \in SignedTypes ->
            Shortest({n \in Widths : value.v \in -(Power(Digit, n) \div 2) .. (Power(Digit, n) \div 2) - 1})
      [] value.type = "UINTEGER" -> Shortest({n \in Widths : value.v \in Unsigned(n)})
      [] value.type = "FLOAT" -> value.v.width
      [] value.type = "BOOLEAN" -> 1
      [] value.type = "OBJLINK" -> 4
      [] OTHER -> Unencodable
RecordSize(r) ==
    LET n == ValueSize(r.value)
        forms == {f \in 0 .. 3 : IF f = 0 THEN n < 8 ELSE n < Power(Field, f)}
    IN  1 + (IF r.id < Field THEN 1 ELSE 2) + Shortest(forms) + n
TotalSize(rs, n) ==
    LET size[k \in 0 .. Len(rs)] ==
            IF k = 0 THEN 0
            ELSE IF Written(rs[k]) THEN size[k - 1] + RecordSize(rs[k]) ELSE size[k - 1]
    IN  size[n]

\* val_buf holds a value that is no string or opaque, or one of ValueMax bytes at most.
FitsValBuf(value) == value.type \in ByteTypes => Len(value.v) <= ValueMax

\* An instance all of whose values fit the encoder's 256-byte val_buf is rejected only
\* when a value has no type or the shortest encoding is longer than the buffer ("Buffer
\* too small", wb_lwm2m_tlv.c:307).  What is accepted takes exactly the bytes of the
\* shortest encoding: no header or integer is longer than it need be.  Of instances with
\* a longer value, which wb_lwm2m_object.h:288 and 293 allow, nothing is said: they are
\* rejected whatever the buffer.
RejectedOnlyIfTooLong ==
    LET written == {i \in DOMAIN resources : Written(resources[i])}
        encodable == \A i \in written : ValueSize(resources[i].value) # Unencodable
        size == TotalSize(resources, Len(resources))
    IN  /\ (phase = "rejected" /\ \A i \in written : FitsValBuf(resources[i].value))
               => ~encodable \/ size > room
        /\ phase \in {"decoding", "decoded"} => encodable /\ size = Len(buf)
=============================================================================
