------------------------------ MODULE TlvCodec ------------------------------
(***************************************************************************)
(* The pure functions of src/src/wb_lwm2m_tlv.c: one TLV record, and the    *)
(* values in it, as sequences of bytes.                                     *)
(*                                                                          *)
(* A byte of the code has 256 values.  Here the bytes that carry integers   *)
(* have Digit values and the bytes that carry an identifier or a length     *)
(* have Field: integers of 1, 2, 4 and 8 bytes and lengths of 0 to 3 bytes  *)
(* keep their boundaries while small enough for TLC.  The type byte keeps   *)
(* its eight bits.                                                          *)
(***************************************************************************)
EXTENDS Integers, Sequences

CONSTANTS
    Digit,      \* values of a byte of an integer
    Field,      \* values of a byte of the ID and length fields
    ValueMax    \* sizeof(val_buf)

ASSUME DigitAssumption == Digit \in Nat /\ Digit > 1 /\ Digit % 2 = 0
ASSUME FieldAssumption == Field \in Nat /\ Field > 8
\* The longest value has a length that three bytes can hold.
ASSUME ValueAssumption == ValueMax \in 8 .. Field * Field * Field - 1

Widths == {1, 2, 4, 8}

-----------------------------------------------------------------------------
(* Bytes, big-endian *)

\* The number of values of n bytes.
Power(radix, n) == LET p[k \in Nat] == IF k = 0 THEN 1 ELSE radix * p[k - 1] IN  p[n]

\* The loops that shift a number out of and into n bytes.
ToBytes(radix, v, n) == [k \in 1 .. n |-> (v \div Power(radix, n - k)) % radix]

FromBytes(radix, start, bytes) ==
    LET v[k \in 0 .. Len(bytes)] ==
            IF k = 0 THEN start ELSE v[k - 1] * radix + bytes[k]
    IN  v[Len(bytes)]

-----------------------------------------------------------------------------
(* Integers *)

\* Variant: INT8_MAX + 1 is taken for an int8_t.
FitsSignedOffByOne(v, n) ==
    -(Power(Digit, n) \div 2) <= v /\ v <= Power(Digit, n) \div 2

\* v is between INTn_MIN and INTn_MAX, for n bytes.
FitsSigned(v, n) == -(Power(Digit, n) \div 2) <= v /\ v < Power(Digit, n) \div 2

IntByteCount(v) == IF FitsSigned(v, 1) THEN 1
                   ELSE IF FitsSigned(v, 2) THEN 2
                   ELSE IF FitsSigned(v, 4) THEN 4 ELSE 8

FitsUnsigned(v, n) == v < Power(Digit, n)

UintByteCount(v) == IF FitsUnsigned(v, 1) THEN 1
                    ELSE IF FitsUnsigned(v, 2) THEN 2
                    ELSE IF FitsUnsigned(v, 4) THEN 4 ELSE 8

\* write_uint_be, and write_int_be on the two's complement of v.
WriteBe(v, n) == ToBytes(Digit, v % Power(Digit, 8), n)

\* Variant: no sign extension from the first byte.
ReadUnextended(bytes) == FromBytes(Digit, 0, bytes)

\* read_int_be: the first byte is an int8_t.
ReadIntBe(bytes) ==
    LET first == IF bytes[1] < Digit \div 2 THEN bytes[1] ELSE bytes[1] - Digit
    IN  FromBytes(Digit, first, Tail(bytes))

ReadUintBe(bytes) == FromBytes(Digit, 0, bytes)

-----------------------------------------------------------------------------
(* The record header *)

NoBytes == <<-1>>   \* the return value -1

\* Variant: a length of Field is taken for one byte.
LengthFormOffByOne(n) == IF n <= 7 THEN 0
                         ELSE IF n <= Field THEN 1
                         ELSE IF n < Power(Field, 2) THEN 2
                         ELSE IF n < Power(Field, 3) THEN 3 ELSE 4

\* The number of length bytes for a value of n bytes; 4 is "too large".
LengthForm(n) == IF n <= 7 THEN 0
                 ELSE IF n < Field THEN 1
                 ELSE IF n < Power(Field, 2) THEN 2
                 ELSE IF n < Power(Field, 3) THEN 3 ELSE 4

FieldBytes(v, n) == ToBytes(Field, v, n)

IdForm(id) == IF id < Field THEN 1 ELSE 2

\* The type byte: identifier type 11 (resource), then the form of the ID, the form
\* of the length, and the length itself in the short form.
TypeByte(id, n) ==
    192 + 32 * (IdForm(id) - 1) + 8 * LengthForm(n) + (IF n <= 7 THEN n ELSE 0)

\* write_tlv_header
Header(id, n, room) ==
    IF LengthForm(n) = 4 \/ 1 + IdForm(id) + LengthForm(n) + n > room
    THEN NoBytes
    ELSE <<TypeByte(id, n)>> \o FieldBytes(id, IdForm(id)) \o FieldBytes(n, LengthForm(n))

\* Variant: the length found is not compared with the buffer.
CutShortUnchecked(size, offset, len) == size < 2 \/ offset > size
CutShort(size, offset, len) == size < 2 \/ offset > size \/ offset + len > size

Undecoded == [ok |-> FALSE, type |-> 0, id |-> 0, offset |-> 0, len |-> 0]

\* wb_lwm2m_tlv_decode_header: every field is checked against the end of the buffer
\* before it is read, and the value after all of them.
DecodeHeader(buf) ==
    LET idForm == 1 + ((buf[1] \div 32) % 2)
        lenForm == (buf[1] \div 8) % 4
        offset == 1 + idForm + lenForm
        Read(from, n) == FromBytes(Field, 0, SubSeq(buf, from, from + n - 1))
        len == IF lenForm = 0 THEN buf[1] % 8 ELSE Read(2 + idForm, lenForm)
    IN  IF CutShort(Len(buf), offset, len)
        THEN Undecoded
        ELSE [ok |-> TRUE, type |-> buf[1] \div 64, id |-> Read(2, idForm),
              offset |-> offset, len |-> len]

-----------------------------------------------------------------------------
(* Values *)

ByteTypes == {"STRING", "CORELNK", "OPAQUE"}
SignedTypes == {"INTEGER", "TIME"}

\* A value is a record of its type and v: bytes, an integer of 8 bytes, a BOOLEAN, a
\* pair of IDs for OBJLINK, and for FLOAT the width in which it is exact with its
\* IEEE 754 bits.
Unsigned(n) == 0 .. Power(Digit, n) - 1
Signed == -(Power(Digit, 8) \div 2) .. (Power(Digit, 8) \div 2) - 1
Identifiers == 0 .. Field * Field - 1

Value ==
    [type : ByteTypes, v : Seq(Nat)]
    \cup [type : SignedTypes, v : Signed]
    \cup [type : {"UINTEGER"}, v : Unsigned(8)]
    \cup [type : {"FLOAT"},
          v : [width : {4}, bits : Unsigned(4)] \cup [width : {8}, bits : Unsigned(8)]]
    \cup [type : {"BOOLEAN"}, v : BOOLEAN]
    \cup [type : {"OBJLINK"}, v : Identifiers \X Identifiers]
    \cup [type : {"NONE"}, v : {0}]

\* The switch of wb_lwm2m_tlv_encode_resource.
ValueBytes(value) ==
    CASE value.type \in ByteTypes ->
            IF Len(value.v) > ValueMax THEN NoBytes ELSE value.v
      [] value.type \in SignedTypes -> WriteBe(value.v, IntByteCount(value.v))
      [] value.type = "UINTEGER" -> WriteBe(value.v, UintByteCount(value.v))
      [] value.type = "FLOAT" -> WriteBe(value.v.bits, value.v.width)
      [] value.type = "BOOLEAN" -> <<IF value.v THEN 1 ELSE 0>>
      [] value.type = "OBJLINK" -> FieldBytes(value.v[1], 2) \o FieldBytes(value.v[2], 2)
      [] OTHER -> NoBytes

\* wb_lwm2m_tlv_encode_resource
EncodeResource(id, value, room) ==
    LET bytes == ValueBytes(value)
        header == Header(id, Len(bytes), room)
    IN  IF \/ room = 0 \/ bytes = NoBytes \/ header = NoBytes
           \/ Len(header) + Len(bytes) > room
        THEN NoBytes
        ELSE header \o bytes

InvalidSize == [type |-> "INVALID_SIZE", v |-> 0]

\* wb_lwm2m_tlv_decode_value
DecodeValue(type, data) ==
    CASE type \in ByteTypes -> [type |-> type, v |-> data]
      [] type \in SignedTypes /\ Len(data) \in Widths ->
            [type |-> type, v |-> ReadIntBe(data)]
      [] type = "UINTEGER" /\ Len(data) \in Widths ->
            [type |-> type, v |-> ReadUintBe(data)]
      [] type = "FLOAT" /\ Len(data) \in {4, 8} ->
            [type |-> type, v |-> [width |-> Len(data), bits |-> ReadUintBe(data)]]
      [] type = "BOOLEAN" /\ Len(data) = 1 -> [type |-> type, v |-> data[1] # 0]
      [] type = "OBJLINK" /\ Len(data) = 4 ->
            [type |-> type, v |-> <<data[1] * Field + data[2], data[3] * Field + data[4]>>]
      [] OTHER -> InvalidSize
=============================================================================
