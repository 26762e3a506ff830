------------------------- MODULE TlvTransfer_proofs -------------------------
(***************************************************************************)
(* What TlvTransfer promises, for every instance, every buffer size and     *)
(* every radix.                                                             *)
(***************************************************************************)
EXTENDS TlvTransfer, TlvCodec_proofs

-----------------------------------------------------------------------------
(* Records *)

Encodable(r) == ValueBytes(r.value) # NoBytes

\* The bytes of one resource; none if its value cannot be encoded.
Bytes(r) ==
    IF Encodable(r)
    THEN Fields(r.id, Len(ValueBytes(r.value))) \o ValueBytes(r.value)
    ELSE <<>>

\* The least element of a set of numbers.
LEMMA ShortestIs ==
  ASSUME NEW ns, ns \subseteq Int, NEW n \in ns, \A m \in ns : n <= m
  PROVE  Shortest(ns) = n
<1>1. \A x \in ns : (\A m \in ns : x <= m) => x = n
  <2>1. ASSUME NEW x \in ns, \A m \in ns : x <= m
        PROVE  x = n
    <3>1. x <= n /\ n <= x /\ x \in Int /\ n \in Int
      BY <2>1
    <3> QED
      BY <3>1
  <2> QED
    BY <2>1
<1> QED
  BY <1>1 DEF Shortest

\* The layout's size of a value, by type.
LEMMA ValueSizeCases ==
  ASSUME NEW value
  PROVE  /\ value.type \in ByteTypes
               => ValueSize(value) = IF Len(value.v) < Power(Field, 3) THEN Len(value.v) ELSE Unencodable
         /\ value.type \in SignedTypes
               => ValueSize(value)
                     = Shortest({n \in Widths : value.v \in -(Power(Digit, n) \div 2) .. (Power(Digit, n) \div 2) - 1})
         /\ value.type = "UINTEGER"
               => ValueSize(value) = Shortest({n \in Widths : value.v \in Unsigned(n)})
         /\ value.type = "FLOAT" => ValueSize(value) = value.v.width
         /\ value.type = "BOOLEAN" => ValueSize(value) = 1
         /\ value.type = "OBJLINK" => ValueSize(value) = 4
         /\ value.type = "NONE" => ValueSize(value) = Unencodable
<1>1. value.type \in ByteTypes
         => ValueSize(value) = IF Len(value.v) < Power(Field, 3) THEN Len(value.v) ELSE Unencodable
  BY Zenon DEF ValueSize, ByteTypes, SignedTypes
<1>2. value.type \in SignedTypes
         => ValueSize(value)
               = Shortest({n \in Widths : value.v \in -(Power(Digit, n) \div 2) .. (Power(Digit, n) \div 2) - 1})
  BY Zenon DEF ValueSize, ByteTypes, SignedTypes
<1>3. value.type = "UINTEGER" => ValueSize(value) = Shortest({n \in Widths : value.v \in Unsigned(n)})
  BY Zenon DEF ValueSize, ByteTypes, SignedTypes
<1>4. value.type = "FLOAT" => ValueSize(value) = value.v.width
  BY Zenon DEF ValueSize, ByteTypes, SignedTypes
<1>5. value.type = "BOOLEAN" => ValueSize(value) = 1
  BY Zenon DEF ValueSize, ByteTypes, SignedTypes
<1>6. value.type = "OBJLINK" => ValueSize(value) = 4
  BY Zenon DEF ValueSize, ByteTypes, SignedTypes
<1>7. value.type = "NONE" => ValueSize(value) = Unencodable
  BY Zenon DEF ValueSize, ByteTypes, SignedTypes
<1> QED
  BY <1>1, <1>2, <1>3, <1>4, <1>5, <1>6, <1>7

\* The encoder uses no more bytes than the layout needs, and refuses only a value that
\* the layout or val_buf has no place for.
LEMMA ValueSizeIs ==
  ASSUME NEW value \in Value
  PROVE  IF ValueBytes(value) = NoBytes
         THEN /\ ValueSize(value) = Unencodable \/ ~FitsValBuf(value)
              /\ ValueSize(value) \in {Unencodable} \cup 0 .. Power(Field, 3) - 1
         ELSE /\ ValueBytes(value) \in Seq(Nat)
              /\ DecodeValue(value.type, ValueBytes(value)) = value
              /\ ValueSize(value) = Len(ValueBytes(value))
              /\ Len(ValueBytes(value)) \in 0 .. ValueMax
              /\ FitsValBuf(value)
<1> DEFINE bytes == ValueBytes(value)
           v == value.v
<1>1. ValueMax \in Nat /\ ValueMax >= 8
  BY ValueAssumption
<1>2. CASE value.type = "NONE"
  BY <1>2, NoBytesWhen, ValueSizeCases
<1>3. CASE value.type \in ByteTypes /\ Len(v) > ValueMax
  <2>1. Len(v) \in Nat
    BY <1>3, ValueShapes DEF ByteTypes, SignedTypes
  <2>2. ~FitsValBuf(value)
    BY <1>1, <1>3, <2>1 DEF FitsValBuf
  <2>3. ValueSize(value) \in {Unencodable} \cup 0 .. Power(Field, 3) - 1
    <3>1. ValueSize(value) = IF Len(v) < Power(Field, 3) THEN Len(v) ELSE Unencodable
      BY <1>3, ValueSizeCases
    <3>2. Power(Field, 3) \in Int
      BY FieldPowers
    <3> HIDE DEF v
    <3> QED
      BY <2>1, <3>1, <3>2
  <2>4. ValueBytes(value) = NoBytes
    BY <1>3, NoBytesWhen
  <2> QED
    BY <2>2, <2>3, <2>4
<1>4. CASE value.type # "NONE" /\ ~(value.type \in ByteTypes /\ Len(v) > ValueMax)
  <2>1. value.type \in ByteTypes => v \in Seq(Nat) /\ Len(v) \in 0 .. ValueMax
    <3> SUFFICES ASSUME value.type \in ByteTypes
                 PROVE  v \in Seq(Nat) /\ Len(v) \in 0 .. ValueMax
      OBVIOUS
    <3>1. v \in Seq(Nat)
      BY ValueShapes DEF ByteTypes, SignedTypes
    <3>2. ~(Len(v) > ValueMax)
      BY <1>4
    <3> HIDE DEF v
    <3> QED
      BY <1>1, <3>1, <3>2
  <2>2. /\ bytes \in Seq(Nat)
        /\ DecodeValue(value.type, bytes) = value
        /\ value.type \in ByteTypes => Len(bytes) = Len(v)
        /\ value.type \in SignedTypes => Len(bytes) = IntByteCount(v)
        /\ value.type = "UINTEGER" => Len(bytes) = UintByteCount(v)
        /\ value.type = "FLOAT" => Len(bytes) = v.width
        /\ value.type = "BOOLEAN" => Len(bytes) = 1
        /\ value.type = "OBJLINK" => Len(bytes) = 4
    BY <1>4, <2>1, ValueEncoded
  <2>3. bytes # NoBytes /\ FitsValBuf(value)
    <3>1. bytes # NoBytes
      BY <1>4, NoBytesWhen
    <3>2. FitsValBuf(value)
      BY <1>1, <2>1 DEF FitsValBuf
    <3> QED
      BY <3>1, <3>2
  <2> HIDE DEF bytes
  <2> SUFFICES ValueSize(value) = Len(bytes) /\ Len(bytes) \in 0 .. ValueMax
    BY <2>2, <2>3 DEF bytes
  <2>4. CASE value.type \in ByteTypes
    <3>1. Len(v) \in 0 .. ValueMax /\ Len(bytes) = Len(v)
      BY <2>1, <2>2, <2>4
    <3>2. Len(v) < Power(Field, 3)
      BY <1>1, <3>1, FieldPowers, ValueAssumption
    <3>3. ValueSize(value) = Len(v)
      BY <2>4, <3>2, ValueSizeCases, Zenon
    <3> QED
      BY <3>1, <3>3
  <2>5. CASE value.type \in SignedTypes
    <3> DEFINE ns == {n \in Widths : v \in -(Power(Digit, n) \div 2) .. (Power(Digit, n) \div 2) - 1}
    <3>1. v \in Signed /\ v \in Int
      <4>1. v \in Signed
        BY <2>5, ValueShapes DEF ByteTypes, SignedTypes
      <4> HIDE DEF v
      <4> QED
        BY <4>1 DEF Signed
    <3>2. ASSUME NEW n \in Widths
          PROVE  FitsSigned(v, n) <=> n \in ns
      <4> DEFINE h == Power(Digit, n) \div 2
      <4>1. h \in Nat
        BY WidthPower
      <4>2. FitsSigned(v, n) <=> (-h <= v /\ v < h)
        BY DEF FitsSigned
      <4>3. n \in ns <=> v \in -h .. h - 1
        OBVIOUS
      <4> HIDE DEF h, ns
      <4> QED
        BY <3>1, <4>1, <4>2, <4>3
    <3>3. ns \subseteq Widths
      OBVIOUS
    <3>4. ValueSize(value) = Shortest(ns)
      BY <2>5, ValueSizeCases
    <3> HIDE DEF ns
    <3>5. IntByteCount(v) \in ns /\ \A n \in ns : IntByteCount(v) <= n
      BY <3>1, <3>2, <3>3, IntByteCountLeast
    <3>6. ns \subseteq Int /\ IntByteCount(v) \in 0 .. 8
      <4>1. Widths \subseteq 0 .. 8 /\ 0 .. 8 \subseteq Int
        BY DEF Widths
      <4> QED
        BY <3>3, <3>5, <4>1
    <3>7. Shortest(ns) = IntByteCount(v)
      BY <3>5, <3>6, ShortestIs
    <3> QED
      BY <1>1, <2>2, <2>5, <3>4, <3>6, <3>7
  <2>6. CASE value.type = "UINTEGER"
    <3> DEFINE ns == {n \in Widths : v \in Unsigned(n)}
    <3>1. v \in Unsigned(8) /\ v \in Nat
      <4>1. v \in Unsigned(8)
        BY <2>6, ValueShapes DEF ByteTypes, SignedTypes
      <4> HIDE DEF v
      <4> QED
        BY <4>1 DEF Unsigned
    <3>2. ASSUME NEW n \in Widths
          PROVE  FitsUnsigned(v, n) <=> n \in ns
      <4>1. Power(Digit, n) \in Nat
        BY WidthPower
      <4> QED
        BY <3>1, <4>1 DEF FitsUnsigned, Unsigned
    <3>3. ns \subseteq Widths
      OBVIOUS
    <3>4. ValueSize(value) = Shortest(ns)
      BY <2>6, ValueSizeCases
    <3> HIDE DEF ns
    <3>5. UintByteCount(v) \in ns /\ \A n \in ns : UintByteCount(v) <= n
      BY <3>1, <3>2, <3>3, UintByteCountLeast
    <3>6. ns \subseteq Int /\ UintByteCount(v) \in 0 .. 8
      <4>1. Widths \subseteq 0 .. 8 /\ 0 .. 8 \subseteq Int
        BY DEF Widths
      <4> QED
        BY <3>3, <3>5, <4>1
    <3>7. Shortest(ns) = UintByteCount(v)
      BY <3>5, <3>6, ShortestIs
    <3> QED
      BY <1>1, <2>2, <2>6, <3>4, <3>6, <3>7
  <2>7. CASE value.type = "FLOAT"
    <3>1. v.width \in {4, 8}
      BY <2>7, ValueShapes DEF ByteTypes, SignedTypes
    <3>2. ValueSize(value) = v.width
      BY <2>7, ValueSizeCases, Zenon
    <3>3. Len(bytes) = v.width
      BY <2>2, <2>7
    <3> QED
      BY <1>1, <3>1, <3>2, <3>3
  <2>8. CASE value.type = "BOOLEAN"
    <3>1. ValueSize(value) = 1
      BY <2>8, ValueSizeCases, Zenon
    <3>2. Len(bytes) = 1
      BY <2>2, <2>8
    <3> QED
      BY <1>1, <3>1, <3>2
  <2>9. CASE value.type = "OBJLINK"
    <3>1. ValueSize(value) = 4
      BY <2>9, ValueSizeCases, Zenon
    <3>2. Len(bytes) = 4
      BY <2>2, <2>9
    <3> QED
      BY <1>1, <3>1, <3>2
  <2> QED
    BY <1>4, <2>4, <2>5, <2>6, <2>7, <2>8, <2>9, ValueShapes
<1> QED
  BY <1>2, <1>3, <1>4

\* The form of a length is the shortest that holds it.
LEMMA ShortestForm ==
  ASSUME NEW n \in 0 .. Power(Field, 3) - 1
  PROVE  /\ LengthForm(n) \in 0 .. 3
         /\ Shortest({f \in 0 .. 3 : IF f = 0 THEN n < 8 ELSE n < Power(Field, f)}) = LengthForm(n)
<1> DEFINE forms == {f \in 0 .. 3 : IF f = 0 THEN n < 8 ELSE n < Power(Field, f)}
           p2 == Power(Field, 2)
           p3 == Power(Field, 3)
<1>1. n \in Nat /\ n < p3
  BY FieldPowers
<1>2. Power(Field, 1) = Field /\ Field \in Nat /\ p2 \in Int /\ p3 \in Int
  BY FieldPowers
<1>3. /\ 0 \in forms <=> n < 8
      /\ 1 \in forms <=> n < Field
      /\ 2 \in forms <=> n < p2
      /\ 3 \in forms
      /\ forms \subseteq 0 .. 3
  BY <1>1, <1>2
<1>4. LengthForm(n) = IF n <= 7 THEN 0 ELSE IF n < Field THEN 1
                      ELSE IF n < p2 THEN 2 ELSE IF n < p3 THEN 3 ELSE 4
  BY DEF LengthForm
<1> HIDE DEF forms, p2, p3
<1>5. LengthForm(n) \in forms /\ LengthForm(n) \in 0 .. 3
  BY <1>1, <1>2, <1>3, <1>4
<1>6. \A f \in 0 .. 3 : f \in forms => LengthForm(n) <= f
  BY <1>1, <1>2, <1>3, <1>4
<1>7. forms \subseteq Int /\ \A f \in forms : LengthForm(n) <= f
  BY <1>3, <1>6
<1>8. Shortest(forms) = LengthForm(n)
  BY <1>5, <1>7, ShortestIs
<1> QED
  BY <1>5, <1>8 DEF forms

\* There is one for every value of the encoder.
LEMMA LengthFormIs ==
  ASSUME NEW n \in 0 .. ValueMax
  PROVE  /\ LengthForm(n) \in 0 .. 3
         /\ Shortest({f \in 0 .. 3 : IF f = 0 THEN n < 8 ELSE n < Power(Field, f)}) = LengthForm(n)
<1>1. n \in 0 .. Power(Field, 3) - 1
  BY FieldPowers, ValueAssumption
<1> QED
  BY <1>1, ShortestForm

\* wb_lwm2m_tlv_encode_resource writes the record or nothing, and nothing only when it
\* has no value or no room.
LEMMA RecordIs ==
  ASSUME NEW r \in Resources
  PROVE  /\ Encodable(r) <=> ValueSize(r.value) # Unencodable /\ FitsValBuf(r.value)
         /\ Bytes(r) \in Seq(Nat)
         /\ Encodable(r) => Len(Bytes(r)) = RecordSize(r) /\ Len(Bytes(r)) >= 2
         /\ \A left \in Nat :
               EncodeResource(r.id, r.value, left)
                  = IF Encodable(r) /\ Len(Bytes(r)) <= left THEN Bytes(r) ELSE NoBytes
<1> DEFINE v == ValueBytes(r.value)
           n == Len(v)
           f == Fields(r.id, n)
<1>1. r.id \in Identifiers /\ r.value \in Value
  BY DEF Resources
<1>2. Encodable(r) <=> v # NoBytes
  BY DEF Encodable
<1>3. NoBytes \notin Seq(Nat)
  BY DEF NoBytes
<1>4. CASE ~Encodable(r)
  <2>1. ValueSize(r.value) = Unencodable \/ ~FitsValBuf(r.value)
    BY <1>1, <1>2, <1>4, ValueSizeIs
  <2>2. Bytes(r) = <<>>
    BY <1>4 DEF Bytes
  <2>3. \A left \in Nat : EncodeResource(r.id, r.value, left) = NoBytes
    BY <1>2, <1>4 DEF EncodeResource
  <2> QED
    BY <1>4, <2>1, <2>2, <2>3
<1>5. CASE Encodable(r)
  <2>1. v \in Seq(Nat) /\ ValueSize(r.value) = n /\ n \in 0 .. ValueMax
    BY <1>1, <1>2, <1>5, ValueSizeIs
  <2>2. n \in Nat /\ ValueSize(r.value) # Unencodable /\ FitsValBuf(r.value)
    <3>1. FitsValBuf(r.value)
      BY <1>1, <1>2, <1>5, ValueSizeIs
    <3> QED
      BY <2>1, <3>1 DEF Unencodable
  <2>3. Bytes(r) = f \o v
    BY <1>5 DEF Bytes
  <2> HIDE DEF n
  <2>4. LengthForm(n) \in 0 .. 3 /\ LengthForm(n) # 4
    <3>1. LengthForm(n) \in 0 .. 3
      BY <2>1, LengthFormIs
    <3> QED
      BY <3>1
  <2>5. f \in Seq(Nat) /\ Len(f) = 1 + IdForm(r.id) + LengthForm(n)
    BY <1>1, <2>2, <2>4, FieldsFacts
  <2>6. IdForm(r.id) \in 1 .. 2 /\ IdForm(r.id) = IF r.id < Field THEN 1 ELSE 2
    BY <1>1, FormsFit DEF IdForm
  <2>7. RecordSize(r) = 1 + IdForm(r.id) + LengthForm(n) + n
    BY <2>1, <2>6, LengthFormIs DEF RecordSize
  <2>8. Bytes(r) \in Seq(Nat) /\ Len(Bytes(r)) = Len(f) + n
    <3> HIDE DEF f, v
    <3>1. f \o v \in Seq(Nat) /\ Len(f \o v) = Len(f) + Len(v)
      BY <2>1, <2>5, ConcatProperties
    <3> QED
      BY <2>3, <3>1 DEF n
  <2>9. Len(Bytes(r)) = RecordSize(r) /\ Len(Bytes(r)) >= 2
    BY <2>2, <2>4, <2>5, <2>6, <2>7, <2>8
  <2>10. ASSUME NEW left \in Nat
         PROVE  EncodeResource(r.id, r.value, left)
                   = IF Len(Bytes(r)) <= left THEN Bytes(r) ELSE NoBytes
    <3> DEFINE h == Header(r.id, n, left)
    <3>1. h = IF 1 + IdForm(r.id) + LengthForm(n) + n > left THEN NoBytes ELSE f
      BY <2>4 DEF Header, Fields
    <3>2. EncodeResource(r.id, r.value, left)
             = IF left = 0 \/ v = NoBytes \/ h = NoBytes \/ Len(h) + n > left
               THEN NoBytes ELSE h \o v
      BY DEF EncodeResource, n
    <3>3. v # NoBytes
      BY <1>2, <1>5
    <3> HIDE DEF h, v, f
    <3>4. CASE Len(Bytes(r)) <= left
      <4>1. h = f
        BY <2>2, <2>4, <2>5, <2>6, <2>8, <3>1, <3>4
      <4>2. left # 0 /\ ~(Len(h) + n > left) /\ h # NoBytes
        BY <1>3, <2>2, <2>5, <2>8, <2>9, <3>4, <4>1
      <4>3. EncodeResource(r.id, r.value, left) = h \o v
        BY <3>2, <3>3, <4>2
      <4> QED
        BY <2>3, <3>4, <4>1, <4>3
    <3>5. CASE ~(Len(Bytes(r)) <= left)
      <4>1. h = NoBytes
        BY <2>2, <2>4, <2>5, <2>6, <2>8, <3>1, <3>5
      <4> QED
        BY <3>2, <3>5, <4>1
    <3> QED
      BY <3>4, <3>5
  <2> QED
    BY <1>5, <2>2, <2>8, <2>9, <2>10
<1> QED
  BY <1>4, <1>5

\* The reader takes a record for the one that was written, whatever follows it.
LEMMA RecordIsRead ==
  ASSUME NEW r \in Resources, Encodable(r), NEW rest \in Seq(Nat)
  PROVE  LET s == Bytes(r) \o rest
             h == DecodeHeader(s)
         IN  /\ h.ok /\ h.type = 3 /\ h.id = r.id
             /\ h.offset + h.len = Len(Bytes(r))
             /\ h.offset \in Nat /\ h.len \in Nat
             /\ DecodeValue(r.value.type, SubSeq(s, h.offset + 1, h.offset + h.len)) = r.value
<1> DEFINE v == ValueBytes(r.value)
           n == Len(v)
           f == Fields(r.id, n)
           s == Bytes(r) \o rest
           h == DecodeHeader(s)
           m == Len(f)
<1>1. r.id \in Identifiers /\ r.value \in Value
  BY DEF Resources
<1>2. v \in Seq(Nat) /\ n \in 0 .. ValueMax /\ n \in Nat /\ DecodeValue(r.value.type, v) = r.value
  BY <1>1, ValueSizeIs DEF Encodable
<1>3. Bytes(r) = f \o v
  BY DEF Bytes
<1> HIDE DEF n
<1>4. LengthForm(n) # 4
  <2>1. LengthForm(n) \in 0 .. 3
    BY <1>2, LengthFormIs
  <2> QED
    BY <2>1
<1>5. f \in Seq(Nat) /\ m \in Nat
  BY <1>1, <1>2, <1>4, FieldsFacts
<1>6. v \o rest \in Seq(Nat) /\ Len(v \o rest) = n + Len(rest) /\ n <= Len(v \o rest)
  <2> HIDE DEF v
  <2>1. v \o rest \in Seq(Nat) /\ Len(v \o rest) = Len(v) + Len(rest)
    BY <1>2, ConcatProperties
  <2>2. Len(rest) \in Nat
    OBVIOUS
  <2> QED
    BY <1>2, <2>1, <2>2 DEF n
<1>7. s = f \o (v \o rest)
  <2> HIDE DEF f, v
  <2>1. (f \o v) \o rest = f \o (v \o rest)
    BY <1>2, <1>5, BytesAssociative
  <2> QED
    BY <1>3, <2>1
<1>8. h = [ok |-> TRUE, type |-> 3, id |-> r.id, offset |-> m, len |-> n]
  <2>1. DecodeHeader(f \o (v \o rest))
           = [ok |-> TRUE, type |-> 3, id |-> r.id, offset |-> m, len |-> n]
    BY <1>1, <1>2, <1>4, <1>6, HeaderRoundTrip
  <2> QED
    BY <1>7, <2>1
<1>9. SubSeq(s, m + 1, m + n) = v
  <2> DEFINE t == v \o rest
  <2>1. \A k \in 1 .. n : t[k] = v[k]
    <3> HIDE DEF v
    <3>1. \A k \in 1 .. Len(v) + Len(rest) : t[k] = IF k <= Len(v) THEN v[k] ELSE rest[k - Len(v)]
      BY <1>2, ConcatProperties
    <3>2. Len(v) = n /\ Len(rest) \in Nat
      BY DEF n
    <3>3. \A k \in 1 .. n : k \in 1 .. Len(v) + Len(rest) /\ k <= Len(v)
      BY <1>2, <3>2
    <3> HIDE DEF t, n
    <3> QED
      BY <3>1, <3>3
  <2>2. t \in Seq(Nat) /\ Len(t) \in Nat /\ n <= Len(t)
    BY <1>6
  <2> HIDE DEF t, f, v, m
  <2>3. /\ s \in Seq(Nat) /\ Len(s) = m + Len(t)
        /\ \A k \in 1 .. m + Len(t) : s[k] = IF k <= m THEN f[k] ELSE t[k - m]
    <3>1. /\ f \o t \in Seq(Nat) /\ Len(f \o t) = Len(f) + Len(t)
          /\ \A k \in 1 .. Len(f) + Len(t) : (f \o t)[k] = IF k <= Len(f) THEN f[k] ELSE t[k - Len(f)]
      BY <1>5, <2>2, ConcatProperties
    <3> QED
      BY <1>7, <3>1 DEF m, t
  <2> HIDE DEF s
  <2>4. m + 1 \in Nat \ {0} /\ (m + 1) + Len(v) - 1 = m + n /\ (m + 1) + Len(v) - 1 <= Len(s)
    BY <1>2, <1>5, <2>2, <2>3 DEF n
  <2>5. \A k \in 1 .. Len(v) : s[(m + 1) + k - 1] = v[k]
    <3> SUFFICES ASSUME NEW k \in 1 .. n PROVE s[(m + 1) + k - 1] = v[k]
      BY DEF n
    <3>1. (m + 1) + k - 1 = m + k /\ m + k \in 1 .. m + Len(t) /\ ~(m + k <= m) /\ (m + k) - m = k
      BY <1>2, <1>5, <2>2
    <3> QED
      BY <2>1, <2>3, <3>1
  <2>6. SubSeq(s, m + 1, (m + 1) + Len(v) - 1) = v
    BY <1>2, <2>3, <2>4, <2>5, SubSeqIs
  <2> QED
    BY <2>4, <2>6
<1>10. Len(Bytes(r)) = m + n
  <2> HIDE DEF f, v
  <2>1. Len(f \o v) = Len(f) + Len(v)
    BY <1>2, <1>5, ConcatProperties
  <2> QED
    BY <1>3, <2>1 DEF n, m
<1> HIDE DEF s, m, v, n
<1>11. h.ok /\ h.type = 3 /\ h.id = r.id /\ h.offset = m /\ h.len = n
  BY <1>8
<1> HIDE DEF h
<1>12. DecodeValue(r.value.type, SubSeq(s, h.offset + 1, h.offset + h.len)) = r.value
  BY <1>2, <1>9, <1>11
<1> QED
  BY <1>2, <1>5, <1>10, <1>11, <1>12 DEF s, h

\* The layout gives every resource a size, which counts only when it is encodable.
LEMMA RecordSizeInt ==
  ASSUME NEW r \in Resources
  PROVE  RecordSize(r) \in Int
<1>1. CASE Encodable(r)
  <2>1. Bytes(r) \in Seq(Nat) /\ Len(Bytes(r)) = RecordSize(r)
    BY <1>1, RecordIs
  <2> QED
    BY <2>1
<1>2. CASE ~Encodable(r)
  <2> DEFINE n == ValueSize(r.value)
             forms == {f \in 0 .. 3 : IF f = 0 THEN n < 8 ELSE n < Power(Field, f)}
  <2>1. n = -1 \/ n \in 0 .. Power(Field, 3) - 1
    BY <1>2, ValueSizeIs DEF Encodable, Resources, Unencodable
  <2>2. RecordSize(r) = 1 + (IF r.id < Field THEN 1 ELSE 2) + Shortest(forms) + n
    BY DEF RecordSize
  <2>3. CASE n \in 0 .. Power(Field, 3) - 1
    <3>1. Shortest(forms) \in Int
      BY <2>3, ShortestForm
    <3>2. n \in Int
      BY <2>3, FieldPowers
    <3> HIDE DEF n, forms
    <3> QED
      BY <2>2, <3>1, <3>2
  <2>4. CASE n = -1
    <3>1. 0 \in forms /\ forms \subseteq Int /\ \A f \in forms : 0 <= f
      BY <2>4
    <3> HIDE DEF n, forms
    <3>2. Shortest(forms) = 0
      BY <3>1, ShortestIs
    <3> QED
      BY <2>2, <2>4, <3>2
  <2> QED
    BY <2>1, <2>3, <2>4
<1> QED
  BY <1>1, <1>2


-----------------------------------------------------------------------------
(* What is written of the first n resources *)

\* The bytes of the first n resources.
Encoded(rs, n) ==
    LET bytes[k \in 0 .. Len(rs)] ==
            IF k = 0 THEN <<>>
            ELSE IF Written(rs[k]) THEN bytes[k - 1] \o Bytes(rs[k]) ELSE bytes[k - 1]
    IN  bytes[n]

\* The bytes, resource by resource.
LEMMA EncodedIs ==
  ASSUME NEW rs \in Seq(Resources)
  PROVE  /\ Encoded(rs, 0) = <<>>
         /\ \A k \in 1 .. Len(rs) :
               /\ Encoded(rs, k - 1) \in Seq(Nat)
               /\ Encoded(rs, k) = IF Written(rs[k]) THEN Encoded(rs, k - 1) \o Bytes(rs[k])
                                ELSE Encoded(rs, k - 1)
         /\ \A k \in 0 .. Len(rs) : Encoded(rs, k) \in Seq(Nat)
<1> DEFINE n == Len(rs)
           S == Seq(Nat)
           step == [x \in S \X (1 .. n) |->
                       IF Written(rs[x[2]]) THEN x[1] \o Bytes(rs[x[2]]) ELSE x[1]]
           Is(g) == g = [k \in 0 .. n |->
                           IF k = 0 THEN <<>>
                           ELSE IF Written(rs[k]) THEN g[k - 1] \o Bytes(rs[k]) ELSE g[k - 1]]
<1>1. n \in Nat /\ \A k \in 1 .. n : rs[k] \in Resources
  OBVIOUS
<1>2. <<>> \in S /\ \A x \in S, k \in 1 .. n : Written(rs[k]) => x \o Bytes(rs[k]) \in S
  <2> SUFFICES ASSUME NEW x \in Seq(Nat), NEW k \in 1 .. n PROVE x \o Bytes(rs[k]) \in Seq(Nat)
    OBVIOUS
  <2>1. Bytes(rs[k]) \in Seq(Nat)
    BY <1>1, RecordIs
  <2> QED
    BY <2>1, ConcatProperties
<1> HIDE DEF n, S
<1>3. PICK g \in [0 .. n -> S] : FollowsUpTo(g, <<>>, step, n)
  <2>1. step \in [S \X (1 .. n) -> S]
    <3>1. \A x \in S \X (1 .. n) : x[1] \in S /\ x[2] \in 1 .. n
      OBVIOUS
    <3> QED
      BY <1>2, <3>1
  <2> HIDE DEF step
  <2> QED
    BY <1>1, <1>2, <2>1, RecursionUpTo
<1>4. \A k \in 1 .. n : g[k] = IF Written(rs[k]) THEN g[k - 1] \o Bytes(rs[k]) ELSE g[k - 1]
  <2> SUFFICES ASSUME NEW k \in 1 .. n
               PROVE  g[k] = IF Written(rs[k]) THEN g[k - 1] \o Bytes(rs[k]) ELSE g[k - 1]
    OBVIOUS
  <2>1. g[k] = step[<<g[k - 1], k>>]
    BY <1>3 DEF FollowsUpTo
  <2>2. k - 1 \in 0 .. n
    BY <1>1
  <2>3. <<g[k - 1], k>> \in S \X (1 .. n)
    BY <2>2
  <2>4. step[<<g[k - 1], k>>] = IF Written(rs[k]) THEN g[k - 1] \o Bytes(rs[k]) ELSE g[k - 1]
    BY <2>3
  <2> QED
    BY <2>1, <2>4
<1>5. g[0] = <<>>
  BY <1>3 DEF FollowsUpTo
<1>6. Is(g)
  <2>1. \A k \in 0 .. n :
           g[k] = IF k = 0 THEN <<>> ELSE IF Written(rs[k]) THEN g[k - 1] \o Bytes(rs[k]) ELSE g[k - 1]
    <3>1. \A k \in 0 .. n : k = 0 \/ (k # 0 /\ k \in 1 .. n)
      BY <1>1
    <3> QED
      BY <1>4, <1>5, <3>1, Zenon
  <2> HIDE DEF step
  <2> QED
    BY <1>3, <2>1, Zenon
<1> DEFINE bytes == CHOOSE s : Is(s)
<1>7. Is(bytes)
  BY <1>6
<1>8. \A k \in 0 .. n : Encoded(rs, k) = bytes[k]
  BY DEF Encoded, n
<1> HIDE DEF bytes
<1>9. \A k \in 0 .. n : bytes[k] = IF k = 0 THEN <<>>
                                 ELSE IF Written(rs[k]) THEN bytes[k - 1] \o Bytes(rs[k])
                                 ELSE bytes[k - 1]
  BY <1>7
<1>10. bytes[0] = <<>> /\ 0 \in 0 .. n /\ \A k \in 1 .. n : k \in 0 .. n /\ k - 1 \in 0 .. n /\ k # 0
  BY <1>1, <1>9
<1>11. \A k \in 1 .. n :
          bytes[k] = IF Written(rs[k]) THEN bytes[k - 1] \o Bytes(rs[k]) ELSE bytes[k - 1]
  BY <1>9, <1>10
<1> HIDE DEF Is
<1>12. \A k \in 0 .. n : bytes[k] \in S
  <2> DEFINE P == {k \in 0 .. n : bytes[k] \in S}
  <2>1. 0 \in P
    BY <1>2, <1>10
  <2>2. \A k \in 1 .. n : k - 1 \in P => k \in P
    BY <1>2, <1>10, <1>11
  <2> HIDE DEF P
  <2>3. \A k \in 0 .. n : k \in P
    BY <1>1, <2>1, <2>2, BoundedInduction
  <2> QED
    BY <2>3 DEF P
<1> QED
  BY <1>8, <1>10, <1>11, <1>12 DEF n, S

\* What should arrive, resource by resource.
LEMMA SentIs ==
  ASSUME NEW rs \in Seq(Resources)
  PROVE  /\ Sent(rs, 0) = <<>>
         /\ \A k \in 1 .. Len(rs) :
               /\ Sent(rs, k - 1) \in Seq([id : Identifiers, value : Value])
               /\ Sent(rs, k) = IF Written(rs[k]) THEN Append(Sent(rs, k - 1), Entry(rs[k]))
                                ELSE Sent(rs, k - 1)
         /\ \A k \in 0 .. Len(rs) : Sent(rs, k) \in Seq([id : Identifiers, value : Value])
<1> DEFINE n == Len(rs)
           S == Seq([id : Identifiers, value : Value])
           step == [x \in S \X (1 .. n) |->
                       IF Written(rs[x[2]]) THEN Append(x[1], Entry(rs[x[2]])) ELSE x[1]]
           Is(g) == g = [k \in 0 .. n |->
                           IF k = 0 THEN <<>>
                           ELSE IF Written(rs[k]) THEN Append(g[k - 1], Entry(rs[k])) ELSE g[k - 1]]
<1>1. n \in Nat /\ \A k \in 1 .. n : rs[k] \in Resources
  OBVIOUS
<1>2. <<>> \in S /\ \A x \in S, k \in 1 .. n : Written(rs[k]) => Append(x, Entry(rs[k])) \in S
  <2>1. <<>> \in S
    OBVIOUS
  <2>2. ASSUME NEW x \in S, NEW k \in 1 .. n
        PROVE  Append(x, Entry(rs[k])) \in S
    <3>1. Entry(rs[k]) \in [id : Identifiers, value : Value]
      BY <1>1 DEF Resources, Entry
    <3> QED
      BY <3>1
  <2> QED
    BY <2>1, <2>2
<1> HIDE DEF n, S
<1>3. PICK g \in [0 .. n -> S] : FollowsUpTo(g, <<>>, step, n)
  <2>1. step \in [S \X (1 .. n) -> S]
    <3>1. \A x \in S \X (1 .. n) : x[1] \in S /\ x[2] \in 1 .. n
      OBVIOUS
    <3> QED
      BY <1>2, <3>1
  <2> HIDE DEF step
  <2> QED
    BY <1>1, <1>2, <2>1, RecursionUpTo
<1>4. \A k \in 1 .. n : g[k] = IF Written(rs[k]) THEN Append(g[k - 1], Entry(rs[k])) ELSE g[k - 1]
  <2> SUFFICES ASSUME NEW k \in 1 .. n
               PROVE  g[k] = IF Written(rs[k]) THEN Append(g[k - 1], Entry(rs[k])) ELSE g[k - 1]
    OBVIOUS
  <2>1. g[k] = step[<<g[k - 1], k>>]
    BY <1>3 DEF FollowsUpTo
  <2>2. k - 1 \in 0 .. n
    BY <1>1
  <2>3. <<g[k - 1], k>> \in S \X (1 .. n)
    BY <2>2
  <2>4. step[<<g[k - 1], k>>] = IF Written(rs[k]) THEN Append(g[k - 1], Entry(rs[k])) ELSE g[k - 1]
    BY <2>3
  <2> QED
    BY <2>1, <2>4
<1>5. g[0] = <<>>
  BY <1>3 DEF FollowsUpTo
<1>6. Is(g)
  <2>1. \A k \in 0 .. n :
           g[k] = IF k = 0 THEN <<>> ELSE IF Written(rs[k]) THEN Append(g[k - 1], Entry(rs[k])) ELSE g[k - 1]
    <3>1. \A k \in 0 .. n : k = 0 \/ (k # 0 /\ k \in 1 .. n)
      BY <1>1
    <3> QED
      BY <1>4, <1>5, <3>1, Zenon
  <2> HIDE DEF step
  <2> QED
    BY <1>3, <2>1, Zenon
<1> DEFINE sent == CHOOSE s : Is(s)
<1>7. Is(sent)
  BY <1>6
<1>8. \A k \in 0 .. n : Sent(rs, k) = sent[k]
  BY DEF Sent, n
<1> HIDE DEF sent
<1>9. \A k \in 0 .. n : sent[k] = IF k = 0 THEN <<>>
                                 ELSE IF Written(rs[k]) THEN Append(sent[k - 1], Entry(rs[k]))
                                 ELSE sent[k - 1]
  BY <1>7
<1>10. sent[0] = <<>> /\ 0 \in 0 .. n /\ \A k \in 1 .. n : k \in 0 .. n /\ k - 1 \in 0 .. n /\ k # 0
  BY <1>1, <1>9
<1>11. \A k \in 1 .. n :
          sent[k] = IF Written(rs[k]) THEN Append(sent[k - 1], Entry(rs[k])) ELSE sent[k - 1]
  BY <1>9, <1>10
<1> HIDE DEF Is
<1>12. \A k \in 0 .. n : sent[k] \in S
  <2> DEFINE P == {k \in 0 .. n : sent[k] \in S}
  <2>1. 0 \in P
    BY <1>2, <1>10
  <2>2. \A k \in 1 .. n : k - 1 \in P => k \in P
    BY <1>2, <1>10, <1>11
  <2> HIDE DEF P
  <2>3. \A k \in 0 .. n : k \in P
    BY <1>1, <2>1, <2>2, BoundedInduction
  <2> QED
    BY <2>3 DEF P
<1> QED
  BY <1>8, <1>10, <1>11, <1>12 DEF n, S

\* The size of an instance, resource by resource.
LEMMA TotalSizeIs ==
  ASSUME NEW rs \in Seq(Resources)
  PROVE  /\ TotalSize(rs, 0) = 0
         /\ \A k \in 1 .. Len(rs) :
               /\ TotalSize(rs, k - 1) \in Int
               /\ TotalSize(rs, k) = IF Written(rs[k]) THEN TotalSize(rs, k - 1) + RecordSize(rs[k])
                                ELSE TotalSize(rs, k - 1)
         /\ \A k \in 0 .. Len(rs) : TotalSize(rs, k) \in Int
<1> DEFINE n == Len(rs)
           S == Int
           step == [x \in S \X (1 .. n) |->
                       IF Written(rs[x[2]]) THEN x[1] + RecordSize(rs[x[2]]) ELSE x[1]]
           Is(g) == g = [k \in 0 .. n |->
                           IF k = 0 THEN 0
                           ELSE IF Written(rs[k]) THEN g[k - 1] + RecordSize(rs[k]) ELSE g[k - 1]]
<1>1. n \in Nat /\ \A k \in 1 .. n : rs[k] \in Resources
  OBVIOUS
<1>2. 0 \in S /\ \A x \in S, k \in 1 .. n : Written(rs[k]) => x + RecordSize(rs[k]) \in S
  <2> SUFFICES ASSUME NEW x \in Int, NEW k \in 1 .. n
               PROVE  x + RecordSize(rs[k]) \in Int
    OBVIOUS
  <2>1. RecordSize(rs[k]) \in Int
    BY <1>1, RecordSizeInt
  <2> QED
    BY <2>1
<1> HIDE DEF n, S
<1>3. PICK g \in [0 .. n -> S] : FollowsUpTo(g, 0, step, n)
  <2>1. step \in [S \X (1 .. n) -> S]
    <3>1. \A x \in S \X (1 .. n) : x[1] \in S /\ x[2] \in 1 .. n
      OBVIOUS
    <3> QED
      BY <1>2, <3>1
  <2> HIDE DEF step
  <2> QED
    BY <1>1, <1>2, <2>1, RecursionUpTo
<1>4. \A k \in 1 .. n : g[k] = IF Written(rs[k]) THEN g[k - 1] + RecordSize(rs[k]) ELSE g[k - 1]
  <2> SUFFICES ASSUME NEW k \in 1 .. n
               PROVE  g[k] = IF Written(rs[k]) THEN g[k - 1] + RecordSize(rs[k]) ELSE g[k - 1]
    OBVIOUS
  <2>1. g[k] = step[<<g[k - 1], k>>]
    BY <1>3 DEF FollowsUpTo
  <2>2. k - 1 \in 0 .. n
    BY <1>1
  <2>3. <<g[k - 1], k>> \in S \X (1 .. n)
    BY <2>2
  <2>4. step[<<g[k - 1], k>>] = IF Written(rs[k]) THEN g[k - 1] + RecordSize(rs[k]) ELSE g[k - 1]
    BY <2>3
  <2> QED
    BY <2>1, <2>4
<1>5. g[0] = 0
  BY <1>3 DEF FollowsUpTo
<1>6. Is(g)
  <2>1. \A k \in 0 .. n :
           g[k] = IF k = 0 THEN 0 ELSE IF Written(rs[k]) THEN g[k - 1] + RecordSize(rs[k]) ELSE g[k - 1]
    <3>1. \A k \in 0 .. n : k = 0 \/ (k # 0 /\ k \in 1 .. n)
      BY <1>1
    <3> QED
      BY <1>4, <1>5, <3>1, Zenon
  <2> HIDE DEF step
  <2> QED
    BY <1>3, <2>1, Zenon
<1> DEFINE size == CHOOSE s : Is(s)
<1>7. Is(size)
  BY <1>6
<1>8. \A k \in 0 .. n : TotalSize(rs, k) = size[k]
  BY DEF TotalSize, n
<1> HIDE DEF size
<1>9. \A k \in 0 .. n : size[k] = IF k = 0 THEN 0
                                 ELSE IF Written(rs[k]) THEN size[k - 1] + RecordSize(rs[k])
                                 ELSE size[k - 1]
  BY <1>7
<1>10. size[0] = 0 /\ 0 \in 0 .. n /\ \A k \in 1 .. n : k \in 0 .. n /\ k - 1 \in 0 .. n /\ k # 0
  BY <1>1, <1>9
<1>11. \A k \in 1 .. n :
          size[k] = IF Written(rs[k]) THEN size[k - 1] + RecordSize(rs[k]) ELSE size[k - 1]
  BY <1>9, <1>10
<1> HIDE DEF Is
<1>12. \A k \in 0 .. n : size[k] \in S
  <2> DEFINE P == {k \in 0 .. n : size[k] \in S}
  <2>1. 0 \in P
    BY <1>2, <1>10
  <2>2. \A k \in 1 .. n : k - 1 \in P => k \in P
    BY <1>2, <1>10, <1>11
  <2> HIDE DEF P
  <2>3. \A k \in 0 .. n : k \in P
    BY <1>1, <2>1, <2>2, BoundedInduction
  <2> QED
    BY <2>3 DEF P
<1> QED
  BY <1>8, <1>10, <1>11, <1>12 DEF n, S

\* Later resources only add bytes at the end.
LEMMA EncodedGrows ==
  ASSUME NEW rs \in Seq(Resources), NEW m \in 0 .. Len(rs), NEW n \in 0 .. Len(rs), m <= n
  PROVE  \E t \in Seq(Nat) : Encoded(rs, n) = Encoded(rs, m) \o t
<1> DEFINE P == {k \in 0 .. Len(rs) :
                    m <= k => \E t \in Seq(Nat) : Encoded(rs, k) = Encoded(rs, m) \o t}
<1>1. Len(rs) \in Nat /\ \A k \in 1 .. Len(rs) : rs[k] \in Resources
  OBVIOUS
<1>2. \A k \in 0 .. Len(rs) : Encoded(rs, k) \in Seq(Nat)
  BY EncodedIs
<1>3. \E t \in Seq(Nat) : Encoded(rs, m) = Encoded(rs, m) \o t
  <2>1. Encoded(rs, m) \o <<>> = Encoded(rs, m)
    BY <1>2, ConcatEmptySeq
  <2>2. <<>> \in Seq(Nat)
    OBVIOUS
  <2> QED
    BY <2>1, <2>2, Zenon
<1>4. 0 \in P
  <2>1. m <= 0 => m = 0
    OBVIOUS
  <2> QED
    BY <1>1, <1>3, <2>1
<1>5. ASSUME NEW k \in 1 .. Len(rs), k - 1 \in P
      PROVE  k \in P
  <2> SUFFICES ASSUME m <= k
               PROVE  \E t \in Seq(Nat) : Encoded(rs, k) = Encoded(rs, m) \o t
    <3>1. k \in 0 .. Len(rs)
      BY <1>1
    <3> QED
      BY <3>1, Zenon
  <2>1. CASE m = k
    BY <1>3, <2>1
  <2>2. CASE m # k
    <3>1. m <= k - 1
      BY <2>2
    <3>2. PICK t \in Seq(Nat) : Encoded(rs, k - 1) = Encoded(rs, m) \o t
      BY <1>5, <3>1
    <3>3. CASE Written(rs[k])
      <4>1. Encoded(rs, k) = (Encoded(rs, m) \o t) \o Bytes(rs[k])
        BY <3>2, <3>3, EncodedIs
      <4> DEFINE e == Encoded(rs, m)
                 b == Bytes(rs[k])
      <4>2. e \in Seq(Nat) /\ b \in Seq(Nat) /\ t \in Seq(Nat)
        BY <1>1, <1>2, RecordIs
      <4> HIDE DEF e, b
      <4>3. (e \o t) \o b = e \o (t \o b)
        BY <4>2, BytesAssociative
      <4>4. t \o b \in Seq(Nat)
        BY <4>2, ConcatProperties
      <4> QED
        BY <4>1, <4>3, <4>4 DEF e, b
    <3>4. CASE ~Written(rs[k])
      <4>1. Encoded(rs, k) = Encoded(rs, k - 1)
        BY <3>4, EncodedIs
      <4> QED
        BY <3>2, <4>1
    <3> QED
      BY <3>3, <3>4
  <2> QED
    BY <2>1, <2>2
<1> HIDE DEF P
<1>6. \A k \in 0 .. Len(rs) : k \in P
  BY <1>1, <1>4, <1>5, BoundedInduction
<1> QED
  BY <1>6 DEF P

\* Resources that are left out change nothing.
LEMMA NoneBetween ==
  ASSUME NEW rs \in Seq(Resources), NEW m \in 0 .. Len(rs), NEW n \in 0 .. Len(rs), m <= n,
         \A k \in m + 1 .. n : ~Written(rs[k])
  PROVE  Encoded(rs, n) = Encoded(rs, m) /\ Sent(rs, n) = Sent(rs, m)
<1> DEFINE P == {k \in 0 .. Len(rs) :
                    m <= k /\ k <= n => /\ Encoded(rs, k) = Encoded(rs, m)
                                        /\ Sent(rs, k) = Sent(rs, m)}
<1>1. Len(rs) \in Nat
  OBVIOUS
<1>2. 0 \in P
  <2>1. m <= 0 => m = 0
    OBVIOUS
  <2> QED
    BY <1>1, <2>1
<1>3. ASSUME NEW k \in 1 .. Len(rs), k - 1 \in P
      PROVE  k \in P
  <2> SUFFICES ASSUME m <= k, k <= n, m # k
               PROVE  Encoded(rs, k) = Encoded(rs, m) /\ Sent(rs, k) = Sent(rs, m)
    BY <1>1
  <2>1. m <= k - 1 /\ k - 1 <= n /\ k \in m + 1 .. n
    BY <1>1
  <2>2. Encoded(rs, k - 1) = Encoded(rs, m) /\ Sent(rs, k - 1) = Sent(rs, m)
    BY <1>3, <2>1
  <2>3. ~Written(rs[k])
    BY <2>1
  <2>4. Encoded(rs, k) = Encoded(rs, k - 1) /\ Sent(rs, k) = Sent(rs, k - 1)
    BY <2>3, EncodedIs, SentIs
  <2> QED
    BY <2>2, <2>4
<1> HIDE DEF P
<1>4. \A k \in 0 .. Len(rs) : k \in P
  BY <1>1, <1>2, <1>3, BoundedInduction
<1> QED
  BY <1>4 DEF P

\* Every written resource among the first n has a value that can be encoded.
Good(rs, n) == \A k \in 1 .. n : Written(rs[k]) => Encodable(rs[k])

\* The layout's size is the number of bytes.
LEMMA SizeIsLength ==
  ASSUME NEW rs \in Seq(Resources), NEW n \in 0 .. Len(rs), Good(rs, n)
  PROVE  TotalSize(rs, n) = Len(Encoded(rs, n))
<1> DEFINE P == {k \in 0 .. Len(rs) : k <= n => TotalSize(rs, k) = Len(Encoded(rs, k))}
<1>1. Len(rs) \in Nat /\ \A k \in 1 .. Len(rs) : rs[k] \in Resources
  OBVIOUS
<1>2. 0 \in P
  BY <1>1, EncodedIs, TotalSizeIs
<1>3. ASSUME NEW k \in 1 .. Len(rs), k - 1 \in P
      PROVE  k \in P
  <2> SUFFICES ASSUME k <= n
               PROVE  TotalSize(rs, k) = Len(Encoded(rs, k))
    BY <1>1
  <2>1. TotalSize(rs, k - 1) = Len(Encoded(rs, k - 1)) /\ k \in 1 .. n
    BY <1>3
  <2>2. CASE Written(rs[k])
    <3>1. Bytes(rs[k]) \in Seq(Nat) /\ Len(Bytes(rs[k])) = RecordSize(rs[k])
      BY <1>1, <2>1, <2>2, RecordIs DEF Good
    <3>2. TotalSize(rs, k) = TotalSize(rs, k - 1) + RecordSize(rs[k])
      BY <2>2, TotalSizeIs
    <3>3. Encoded(rs, k) = Encoded(rs, k - 1) \o Bytes(rs[k]) /\ Encoded(rs, k - 1) \in Seq(Nat)
      BY <2>2, EncodedIs
    <3>4. Len(Encoded(rs, k - 1) \o Bytes(rs[k])) = Len(Encoded(rs, k - 1)) + Len(Bytes(rs[k]))
      BY <3>1, <3>3, ConcatProperties
    <3> QED
      BY <2>1, <3>1, <3>2, <3>3, <3>4
  <2>3. CASE ~Written(rs[k])
    BY <2>1, <2>3, EncodedIs, TotalSizeIs
  <2> QED
    BY <2>2, <2>3
<1> HIDE DEF P
<1>4. \A k \in 0 .. Len(rs) : k \in P
  BY <1>1, <1>2, <1>3, BoundedInduction
<1> QED
  BY <1>4 DEF P

-----------------------------------------------------------------------------
(* The protocol *)

\* The reader's table gives each resource its own type.
LEMMA TypeOfIs ==
  ASSUME resources \in Instances, NEW i \in DOMAIN resources, Written(resources[i])
  PROVE  TypeOf(resources[i].id) = resources[i].value.type
<1> DEFINE id == resources[i].id
           of == {k \in DOMAIN resources : Written(resources[k]) /\ resources[k].id = id}
           j == CHOOSE k \in of : TRUE
<1>1. i \in of /\ j \in of
  OBVIOUS
<1>2. TypeOf(id) = resources[j].value.type
  BY <1>1 DEF TypeOf
<1>3. resources[j].value.type = resources[i].value.type
  BY <1>1, InstanceAssumption DEF Written
<1> QED
  BY <1>2, <1>3

TypeOK ==
    /\ resources \in Instances
    /\ room \in Nat
    /\ next \in 1 .. Len(resources) + 1
    /\ buf \in Seq(Nat)
    /\ phase \in {"encoding", "rejected", "decoding", "decoded"}

\* The buffer holds the records of the resources before next, in every phase.
BufferIs ==
    /\ Good(resources, next - 1)
    /\ buf = Encoded(resources, next - 1)
    /\ Len(buf) <= room

\* Nothing is read before everything is written.
NothingRead == phase \in {"encoding", "rejected"} => pos = 0 /\ received = <<>>

\* The record that stopped the writer has no value or no room.
RejectedAt ==
    phase = "rejected" =>
        /\ next <= Len(resources)
        /\ Written(resources[next])
        /\ Encodable(resources[next]) => Len(buf) + Len(Bytes(resources[next])) > room

\* The reader has consumed the records of some first resources, whole, and has them.
ReadUpTo(m) == pos = Len(Encoded(resources, m)) /\ received = Sent(resources, m)
ReaderIs ==
    phase \in {"decoding", "decoded"} =>
        /\ next = Len(resources) + 1
        /\ \E m \in 0 .. Len(resources) : ReadUpTo(m)
        /\ phase = "decoded" => pos = Len(buf)

IInv == TypeOK /\ BufferIs /\ NothingRead /\ RejectedAt /\ ReaderIs

\* The instance is a sequence of resources, and its bytes are bytes.
LEMMA InstanceFacts ==
  ASSUME resources \in Instances
  PROVE  /\ resources \in Seq(Resources)
         /\ Len(resources) \in Nat
         /\ DOMAIN resources = 1 .. Len(resources)
         /\ \A k \in 1 .. Len(resources) : resources[k] \in Resources
         /\ \A k \in 0 .. Len(resources) : Encoded(resources, k) \in Seq(Nat)
<1>1. resources \in Seq(Resources)
  BY InstanceAssumption
<1> QED
  BY <1>1, EncodedIs

\* Before anything is written.
LEMMA IInvInit == Init => IInv
<1> SUFFICES ASSUME Init
             PROVE  IInv
  OBVIOUS
<1>1. resources \in Seq(Resources) /\ Len(resources) \in Nat
  BY InstanceFacts DEF Init
<1>2. TypeOK
  BY <1>1, RoomAssumption DEF Init, TypeOK
<1>3. BufferIs
  <2>1. Good(resources, 0)
    BY DEF Good
  <2>2. Encoded(resources, 0) = <<>>
    BY <1>1, EncodedIs
  <2>3. next - 1 = 0 /\ buf = <<>> /\ Len(buf) = 0 /\ room >= 0
    BY <1>2 DEF Init, TypeOK
  <2> QED
    BY <2>1, <2>2, <2>3 DEF BufferIs
<1> QED
  BY <1>2, <1>3 DEF IInv, NothingRead, RejectedAt, ReaderIs, Init

\* A resource that is left out adds no bytes.
LEMMA IInvSkip == IInv /\ Skip => IInv'
<1> SUFFICES ASSUME IInv, Skip
             PROVE  IInv'
  OBVIOUS
<1>1. /\ resources \in Seq(Resources) /\ Len(resources) \in Nat
      /\ next \in 1 .. Len(resources) /\ next' - 1 = next /\ next' = next + 1
      /\ UNCHANGED <<resources, room, buf, phase, pos, received>>
      /\ phase = "encoding" /\ ~Written(resources[next])
  BY InstanceFacts DEF IInv, TypeOK, Skip
<1>2. TypeOK'
  BY <1>1 DEF IInv, TypeOK
<1>3. BufferIs'
  <2>1. Encoded(resources, next) = Encoded(resources, next - 1)
    BY <1>1, EncodedIs
  <2>2. Good(resources, next)
    <3>1. \A k \in 1 .. next : k = next \/ k \in 1 .. next - 1
      BY <1>1
    <3> QED
      BY <1>1, <3>1 DEF IInv, BufferIs, Good
  <2>3. buf' = Encoded(resources', next' - 1) /\ Good(resources', next' - 1)
    BY <1>1, <2>1, <2>2 DEF IInv, BufferIs
  <2> QED
    BY <1>1, <2>3 DEF IInv, BufferIs
<1>4. NothingRead'
  BY <1>1 DEF IInv, NothingRead
<1> QED
  BY <1>1, <1>2, <1>3, <1>4 DEF IInv, RejectedAt, ReaderIs

\* A record is appended when it has a value and room, and else the writer stops.
LEMMA IInvWrite == IInv /\ Write => IInv'
<1> SUFFICES ASSUME IInv, Write
             PROVE  IInv'
  OBVIOUS
<1> DEFINE r == resources[next]
           left == room - Len(buf)
<1>1. /\ resources \in Seq(Resources) /\ Len(resources) \in Nat
      /\ next \in 1 .. Len(resources) /\ next <= Len(resources)
      /\ UNCHANGED <<resources, room, pos, received>>
      /\ phase = "encoding" /\ Written(r) /\ r \in Resources
      /\ pos = 0 /\ received = <<>>
  BY InstanceFacts DEF IInv, TypeOK, NothingRead, Write
<1>2. /\ buf = Encoded(resources, next - 1) /\ Good(resources, next - 1)
      /\ buf \in Seq(Nat) /\ Len(buf) \in Nat /\ room \in Nat /\ left \in Nat
  BY DEF IInv, TypeOK, BufferIs
<1>3. /\ Bytes(r) \in Seq(Nat)
      /\ Record = IF Encodable(r) /\ Len(Bytes(r)) <= left THEN Bytes(r) ELSE NoBytes
  <2>1. EncodeResource(r.id, r.value, left)
           = IF Encodable(r) /\ Len(Bytes(r)) <= left THEN Bytes(r) ELSE NoBytes
    BY <1>1, <1>2, RecordIs
  <2> QED
    BY <1>1, <2>1, RecordIs DEF Record, RoomLeft
<1>4. Record = NoBytes <=> ~(Encodable(r) /\ Len(Bytes(r)) <= left)
  <2>1. NoBytes \notin Seq(Nat)
    BY DEF NoBytes
  <2> QED
    BY <1>3, <2>1
<1>5. Len(Bytes(r)) \in Nat
  BY <1>3
<1>6. CASE Record # NoBytes /\ buf' = buf \o Record /\ next' = next + 1 /\ UNCHANGED phase
  <2>1. Encodable(r) /\ Len(Bytes(r)) <= left /\ Record = Bytes(r)
    BY <1>3, <1>4, <1>6
  <2>2. buf' \in Seq(Nat) /\ Len(buf') = Len(buf) + Len(Bytes(r))
    BY <1>2, <1>3, <1>6, <2>1, ConcatProperties
  <2>3. Encoded(resources, next) = Encoded(resources, next - 1) \o Bytes(r)
    BY <1>1, EncodedIs
  <2>4. Good(resources, next)
    <3>1. \A k \in 1 .. next : k = next \/ k \in 1 .. next - 1
      BY <1>1
    <3> QED
      BY <1>2, <2>1, <3>1 DEF Good
  <2>5. next' - 1 = next /\ next' \in 1 .. Len(resources) + 1
    BY <1>1, <1>6
  <2>6. BufferIs'
    <3>1. buf' = Encoded(resources', next' - 1) /\ Good(resources', next' - 1)
      BY <1>1, <1>2, <1>6, <2>1, <2>3, <2>4, <2>5
    <3>2. Len(buf') <= room'
      BY <1>1, <1>2, <1>5, <2>1, <2>2
    <3> QED
      BY <3>1, <3>2 DEF BufferIs
  <2>7. TypeOK'
    BY <1>1, <1>6, <2>2, <2>5 DEF IInv, TypeOK
  <2> QED
    BY <1>1, <1>6, <2>6, <2>7 DEF IInv, NothingRead, RejectedAt, ReaderIs
<1>7. CASE Record = NoBytes /\ phase' = "rejected" /\ UNCHANGED <<buf, next>>
  <2>1. Encodable(r) => Len(buf) + Len(Bytes(r)) > room
    BY <1>2, <1>4, <1>5, <1>7
  <2>2. RejectedAt'
    BY <1>1, <1>7, <2>1 DEF RejectedAt
  <2>3. TypeOK' /\ BufferIs'
    BY <1>1, <1>7 DEF IInv, TypeOK, BufferIs
  <2> QED
    BY <1>1, <1>7, <2>2, <2>3 DEF IInv, NothingRead, ReaderIs
<1> QED
  BY <1>6, <1>7 DEF Write

\* The reader starts with nothing.
LEMMA IInvFinish == IInv /\ Finish => IInv'
<1> SUFFICES ASSUME IInv, Finish
             PROVE  IInv'
  OBVIOUS
<1>1. /\ resources \in Seq(Resources) /\ Len(resources) \in Nat
      /\ next = Len(resources) + 1 /\ phase' = "decoding"
      /\ UNCHANGED <<resources, room, next, buf, pos, received>>
      /\ pos = 0 /\ received = <<>>
  <2>1. next \in 1 .. Len(resources) + 1 /\ next > Len(resources)
    BY DEF IInv, TypeOK, Finish
  <2>2. resources \in Seq(Resources) /\ Len(resources) \in Nat
    BY InstanceFacts DEF IInv, TypeOK
  <2>3. phase = "encoding" /\ phase' = "decoding" /\ UNCHANGED <<resources, room, next, buf, pos, received>>
    BY DEF Finish
  <2>4. pos = 0 /\ received = <<>>
    BY <2>3 DEF IInv, NothingRead
  <2>5. next = Len(resources) + 1
    BY <2>1, <2>2
  <2> QED
    BY <2>2, <2>3, <2>4, <2>5
<1>2. TypeOK' /\ BufferIs'
  BY <1>1 DEF IInv, TypeOK, BufferIs
<1>3. ReadUpTo(0)' /\ 0 \in 0 .. Len(resources)
  <2>1. Encoded(resources, 0) = <<>> /\ Sent(resources, 0) = <<>> /\ Len(<<>>) = 0
    BY <1>1, EncodedIs, SentIs
  <2> QED
    BY <1>1, <2>1 DEF ReadUpTo
<1>4. ReaderIs'
  BY <1>1, <1>3 DEF ReaderIs
<1> QED
  BY <1>1, <1>2, <1>4 DEF IInv, NothingRead, RejectedAt

\* After the records of the first m resources comes the record of a later one, or the end.
LEMMA NextRecord ==
  ASSUME NEW rs \in Seq(Resources), Good(rs, Len(rs)), NEW m \in 0 .. Len(rs)
  PROVE  \/ Encoded(rs, Len(rs)) = Encoded(rs, m) /\ Sent(rs, Len(rs)) = Sent(rs, m)
         \/ \E j \in m + 1 .. Len(rs) :
               /\ Written(rs[j]) /\ Encodable(rs[j])
               /\ Encoded(rs, j) = Encoded(rs, m) \o Bytes(rs[j])
               /\ Sent(rs, j) = Append(Sent(rs, m), Entry(rs[j]))
               /\ \E t \in Seq(Nat) :
                     Encoded(rs, Len(rs)) = Encoded(rs, m) \o (Bytes(rs[j]) \o t)
<1> DEFINE n == Len(rs)
           later == {k \in m + 1 .. n : Written(rs[k])}
<1>1. n \in Nat /\ m \in Nat /\ m <= n /\ n \in 0 .. n /\ n <= n
  OBVIOUS
<1>2. CASE later = {}
  <2>1. \A k \in m + 1 .. n : ~Written(rs[k])
    BY <1>2
  <2> QED
    BY <1>1, <2>1, NoneBetween
<1>3. CASE later # {}
  <2>1. later \subseteq Nat
    BY <1>1
  <2>2. PICK j \in later : \A k \in later : j <= k
    <3> HIDE DEF later
    <3> QED
      BY <1>3, <2>1, LeastNatural
  <2>3. /\ j \in m + 1 .. n /\ Written(rs[j])
        /\ \A k \in m + 1 .. n : Written(rs[k]) => j <= k
    BY <2>2
  <2> HIDE DEF later
  <2>4. /\ j \in 1 .. n /\ j \in 0 .. n /\ j - 1 \in 0 .. n /\ m <= j - 1 /\ j <= n
        /\ \A k \in m + 1 .. j - 1 : k \in m + 1 .. n /\ ~(j <= k)
    BY <1>1, <2>3
  <2>5. \A k \in m + 1 .. j - 1 : ~Written(rs[k])
    BY <2>3, <2>4
  <2>6. Encoded(rs, j - 1) = Encoded(rs, m) /\ Sent(rs, j - 1) = Sent(rs, m)
    BY <2>4, <2>5, NoneBetween
  <2>7. Encoded(rs, j) = Encoded(rs, m) \o Bytes(rs[j])
    BY <2>3, <2>4, <2>6, EncodedIs
  <2>8. Sent(rs, j) = Append(Sent(rs, m), Entry(rs[j]))
    BY <2>3, <2>4, <2>6, SentIs
  <2>9. PICK t \in Seq(Nat) : Encoded(rs, n) = Encoded(rs, j) \o t
    BY <1>1, <2>4, EncodedGrows
  <2>10. Encodable(rs[j])
    BY <2>3, <2>4 DEF Good
  <2>11. Encoded(rs, n) = Encoded(rs, m) \o (Bytes(rs[j]) \o t)
    <3> DEFINE e == Encoded(rs, m)
               b == Bytes(rs[j])
    <3>1. rs[j] \in Resources
      BY <2>4
    <3>2. e \in Seq(Nat) /\ b \in Seq(Nat) /\ t \in Seq(Nat)
      BY <3>1, EncodedIs, RecordIs
    <3> HIDE DEF e, b
    <3>3. (e \o b) \o t = e \o (b \o t)
      BY ONLY <3>2, BytesAssociative
    <3> QED
      BY <2>7, <2>9, <3>3 DEF e, b
  <2> QED
    BY <2>3, <2>7, <2>8, <2>10, <2>11
<1> QED
  BY <1>2, <1>3

\* The tail of a concatenation.
LEMMA TailIs ==
  ASSUME NEW e \in Seq(Nat), NEW s \in Seq(Nat)
  PROVE  SubSeq(e \o s, Len(e) + 1, Len(e \o s)) = s
<1> DEFINE m == Len(e) + 1
           u == e \o s
<1>1. /\ u \in Seq(Nat) /\ Len(u) = Len(e) + Len(s)
      /\ \A k \in 1 .. Len(e) + Len(s) : u[k] = IF k <= Len(e) THEN e[k] ELSE s[k - Len(e)]
  BY ConcatProperties
<1>2. Len(e) \in Nat /\ Len(s) \in Nat
  OBVIOUS
<1> HIDE DEF u
<1>3. m \in Nat \ {0} /\ m + Len(s) - 1 = Len(u)
  BY <1>1, <1>2
<1>4. ASSUME NEW k \in 1 .. Len(s)
      PROVE  u[m + k - 1] = s[k]
  <2>1. /\ m + k - 1 = Len(e) + k /\ Len(e) + k \in 1 .. Len(e) + Len(s)
        /\ ~(Len(e) + k <= Len(e)) /\ (Len(e) + k) - Len(e) = k
    BY <1>2
  <2> HIDE DEF m
  <2> QED
    BY <1>1, <2>1
<1>5. Len(u) <= Len(u)
  BY <1>1, <1>2
<1> HIDE DEF m
<1>6. SubSeq(u, m, m + Len(s) - 1) = s
  BY <1>1, <1>3, <1>4, <1>5, SubSeqIs
<1> QED
  BY <1>3, <1>6 DEF m, u

\* A value is never taken for a wrong size.
LEMMA ValueIsValid ==
  ASSUME NEW value \in Value
  PROVE  value # InvalidSize
<1>1. value.type # "INVALID_SIZE"
  BY ValueShapes DEF ByteTypes, SignedTypes
<1> QED
  BY <1>1 DEF InvalidSize

\* Every record is read as the one that was written, and the reader stops at the end of
\* a record.
LEMMA IInvRead == IInv /\ Read => IInv'
<1> SUFFICES ASSUME IInv, Read
             PROVE  IInv'
  OBVIOUS
<1> DEFINE n == Len(resources)
           rest == SubSeq(buf, pos + 1, Len(buf))
           h == DecodeHeader(rest)
           value == DecodeValue(TypeOf(h.id), SubSeq(rest, h.offset + 1, h.offset + h.len))
<1>1. /\ resources \in Seq(Resources) /\ n \in Nat /\ next = n + 1
      /\ DOMAIN resources = 1 .. n
      /\ \A k \in 0 .. n : Encoded(resources, k) \in Seq(Nat)
      /\ phase = "decoding" /\ pos < Len(buf)
      /\ UNCHANGED <<resources, room, next, buf>>
  BY InstanceFacts DEF IInv, TypeOK, ReaderIs, Read
<1>2. buf = Encoded(resources, n) /\ Good(resources, n)
  <2>1. next - 1 = n
    BY <1>1
  <2> QED
    BY <2>1 DEF IInv, BufferIs
<1>3. PICK m \in 0 .. n : ReadUpTo(m)
  BY <1>1 DEF IInv, ReaderIs
<1>4. PICK j \in m + 1 .. n :
         /\ Written(resources[j]) /\ Encodable(resources[j])
         /\ Encoded(resources, j) = Encoded(resources, m) \o Bytes(resources[j])
         /\ Sent(resources, j) = Append(Sent(resources, m), Entry(resources[j]))
         /\ \E t \in Seq(Nat) :
               Encoded(resources, n) = Encoded(resources, m) \o (Bytes(resources[j]) \o t)
  <2>1. Encoded(resources, n) # Encoded(resources, m)
    <3>1. Len(Encoded(resources, m)) \in Nat
      BY <1>1
    <3> QED
      BY <1>1, <1>2, <1>3, <3>1 DEF ReadUpTo
  <2> QED
    BY <1>1, <1>2, <2>1, NextRecord
<1>5. PICK t \in Seq(Nat) :
         Encoded(resources, n) = Encoded(resources, m) \o (Bytes(resources[j]) \o t)
  BY <1>4
<1> DEFINE r == resources[j]
           e == Encoded(resources, m)
           b == Bytes(r)
<1>6. /\ j \in 1 .. n /\ j \in 0 .. n /\ r \in Resources
      /\ e \in Seq(Nat) /\ b \in Seq(Nat)
      /\ r.value \in Value
  <2>1. j \in 1 .. n /\ j \in 0 .. n
    BY <1>1
  <2>2. r \in Resources
    BY <1>1, <2>1
  <2> QED
    BY <1>1, <2>1, <2>2, RecordIs DEF Resources
<1>7. rest = b \o t
  <2> HIDE DEF e, b
  <2>1. b \o t \in Seq(Nat)
    BY <1>6, ConcatProperties
  <2>2. buf = e \o (b \o t) /\ pos = Len(e)
    BY <1>2, <1>3, <1>5 DEF ReadUpTo, e, b
  <2> QED
    BY <1>6, <2>1, <2>2, TailIs
<1>8. /\ h.ok /\ h.type = 3 /\ h.id = r.id
      /\ h.offset + h.len = Len(b) /\ h.offset \in Nat /\ h.len \in Nat
      /\ DecodeValue(r.value.type, SubSeq(rest, h.offset + 1, h.offset + h.len)) = r.value
  <2>1. rest = Bytes(r) \o t
    BY <1>7
  <2> HIDE DEF rest, r
  <2> QED
    BY <1>4, <1>6, <2>1, RecordIsRead DEF r
<1>9. value = r.value
  <2>1. TypeOf(r.id) = r.value.type
    BY <1>1, <1>4, <1>6, TypeOfIs DEF IInv, TypeOK
  <2> HIDE DEF r, rest, h
  <2> QED
    BY <1>8, <2>1
<1>10. value # InvalidSize
  BY <1>6, <1>9, ValueIsValid
<1>11. /\ received' = Append(received, [id |-> h.id, value |-> value])
       /\ pos' = pos + h.offset + h.len
       /\ UNCHANGED phase
  BY <1>8, <1>10 DEF Read
<1> HIDE DEF rest, h, value
<1>12. received' = Sent(resources, j)
  BY <1>3, <1>4, <1>8, <1>9, <1>11 DEF ReadUpTo, Entry
<1>13. pos' = Len(Encoded(resources, j))
  <2>1. pos = Len(e) /\ Len(e) \in Nat
    BY <1>3, <1>6 DEF ReadUpTo
  <2>2. Encoded(resources, j) = e \o b
    BY <1>4
  <2> HIDE DEF e, b
  <2>3. Len(e \o b) = Len(e) + Len(b)
    BY <1>6, ConcatProperties
  <2>4. /\ h.offset + h.len = Len(b) /\ h.offset \in Nat /\ h.len \in Nat
        /\ pos' = pos + h.offset + h.len
    BY <1>8, <1>11 DEF b
  <2>5. pos' = Len(e) + Len(b)
    BY <2>1, <2>4
  <2> QED
    BY <2>2, <2>3, <2>5
<1>14. ReadUpTo(j)'
  BY <1>1, <1>12, <1>13 DEF ReadUpTo
<1>15. TypeOK' /\ BufferIs'
  BY <1>1, <1>11 DEF IInv, TypeOK, BufferIs
<1>16. ReaderIs'
  BY <1>1, <1>6, <1>11, <1>14 DEF ReaderIs
<1> QED
  BY <1>1, <1>11, <1>15, <1>16 DEF IInv, NothingRead, RejectedAt

\* The invariant holds in every state.
LEMMA Invariance == Spec => []IInv
<1>1. IInv /\ [Next]_vars => IInv'
  <2> SUFFICES ASSUME IInv, [Next]_vars
               PROVE  IInv'
    OBVIOUS
  <2>1. CASE Skip
    BY <2>1, IInvSkip
  <2>2. CASE Write
    BY <2>2, IInvWrite
  <2>3. CASE Finish
    BY <2>3, IInvFinish
  <2>4. CASE Read
    BY <2>4, IInvRead
  <2>5. CASE End
    <3>1. /\ UNCHANGED <<resources, room, next, buf, pos, received>>
          /\ phase = "decoding" /\ phase' = "decoded" /\ pos = Len(buf)
      BY <2>5 DEF End
    <3>2. TypeOK' /\ BufferIs' /\ NothingRead' /\ RejectedAt'
      BY <3>1 DEF IInv, TypeOK, BufferIs, NothingRead, RejectedAt
    <3>3. ReaderIs'
      BY <3>1 DEF IInv, ReaderIs, ReadUpTo
    <3> QED
      BY <3>2, <3>3 DEF IInv
  <2>6. CASE UNCHANGED vars
    BY <2>6 DEF vars, IInv, TypeOK, BufferIs, NothingRead, RejectedAt, ReaderIs, ReadUpTo
  <2> QED
    BY <2>1, <2>2, <2>3, <2>4, <2>5, <2>6 DEF Next
<1> QED
  BY IInvInit, <1>1, PTL DEF Spec

-----------------------------------------------------------------------------
(* What is promised *)

\* Whatever the radixes, the buffer sizes and the instances, as long as the resources of
\* one ID have one type: an instance that wb_lwm2m_tlv_encode_instance writes is read
\* back resource by resource, with nothing lost, added or taken for something else.
THEOREM RoundTripHolds == Spec => []RoundTrip
<1>1. ASSUME IInv, phase = "decoded"
      PROVE  received = Sent(resources, Len(resources))
  <2> DEFINE n == Len(resources)
  <2>1. /\ resources \in Seq(Resources) /\ n \in Nat
        /\ \A k \in 0 .. n : Encoded(resources, k) \in Seq(Nat)
        /\ next = n + 1 /\ pos = Len(buf)
    BY <1>1, InstanceFacts DEF IInv, TypeOK, ReaderIs
  <2>2. buf = Encoded(resources, n) /\ Good(resources, n)
    <3>1. next - 1 = n
      BY <2>1
    <3> QED
      BY <1>1, <3>1 DEF IInv, BufferIs
  <2>3. PICK m \in 0 .. n : ReadUpTo(m)
    BY <1>1 DEF IInv, ReaderIs
  <2>4. CASE Encoded(resources, n) = Encoded(resources, m) /\ Sent(resources, n) = Sent(resources, m)
    BY <2>3, <2>4 DEF ReadUpTo
  <2>5. ASSUME NEW j \in m + 1 .. n, Encodable(resources[j]), NEW t \in Seq(Nat),
               Encoded(resources, n) = Encoded(resources, m) \o (Bytes(resources[j]) \o t)
        PROVE  FALSE
    <3> DEFINE e == Encoded(resources, m)
               b == Bytes(resources[j])
    <3>1. resources[j] \in Resources
      BY <2>1
    <3>2. e \in Seq(Nat) /\ b \in Seq(Nat) /\ t \in Seq(Nat) /\ Len(b) >= 2
      BY <2>1, <2>5, <3>1, RecordIs
    <3>3. Len(e) = Len(buf) /\ buf = e \o (b \o t)
      BY <2>1, <2>2, <2>3, <2>5 DEF ReadUpTo
    <3> HIDE DEF e, b
    <3>4. b \o t \in Seq(Nat) /\ Len(b \o t) = Len(b) + Len(t)
      BY ONLY <3>2, ConcatProperties
    <3>5. Len(e \o (b \o t)) = Len(e) + Len(b \o t)
      BY ONLY <3>2, <3>4, ConcatProperties
    <3>6. Len(e) \in Nat /\ Len(b) \in Nat /\ Len(t) \in Nat
      BY <3>2
    <3> QED
      BY <3>2, <3>3, <3>4, <3>5, <3>6
  <2> QED
    BY <2>1, <2>2, <2>4, <2>5, NextRecord
<1>2. IInv => RoundTrip
  BY <1>1 DEF IInv, TypeOK, RoundTrip
<1> QED
  BY Invariance, <1>2, PTL

\* No record is written past buf_size, and the reader never leaves the records.
THEOREM WithinBufferHolds == Spec => []WithinBuffer
<1>1. IInv => WithinBuffer
  <2> SUFFICES ASSUME IInv
               PROVE  Len(buf) <= room /\ pos <= Len(buf)
    BY DEF WithinBuffer
  <2>1. Len(buf) <= room /\ Len(buf) \in Nat
    BY DEF IInv, BufferIs, TypeOK
  <2>2. CASE phase \in {"encoding", "rejected"}
    BY <2>1, <2>2 DEF IInv, NothingRead
  <2>3. CASE phase \in {"decoding", "decoded"}
    <3> DEFINE n == Len(resources)
    <3>1. /\ resources \in Seq(Resources) /\ n \in Nat /\ next = n + 1
          /\ \A k \in 0 .. n : Encoded(resources, k) \in Seq(Nat)
      BY <2>3, InstanceFacts DEF IInv, TypeOK, ReaderIs
    <3>2. buf = Encoded(resources, n)
      <4>1. next - 1 = n
        BY <3>1
      <4> QED
        BY <4>1 DEF IInv, BufferIs
    <3>3. PICK m \in 0 .. n : ReadUpTo(m)
      BY <2>3 DEF IInv, ReaderIs
    <3>4. n \in 0 .. n /\ m <= n
      BY <3>1
    <3>5. PICK t \in Seq(Nat) : Encoded(resources, n) = Encoded(resources, m) \o t
      BY <3>1, <3>4, EncodedGrows
    <3> DEFINE e == Encoded(resources, m)
    <3>6. e \in Seq(Nat) /\ t \in Seq(Nat) /\ pos = Len(e) /\ buf = e \o t
      BY <3>1, <3>2, <3>3, <3>5 DEF ReadUpTo
    <3> HIDE DEF e
    <3>7. Len(e \o t) = Len(e) + Len(t)
      BY ONLY <3>6, ConcatProperties
    <3>8. Len(e) \in Nat /\ Len(t) \in Nat
      BY <3>6
    <3> QED
      BY <2>1, <3>6, <3>7, <3>8
  <2> QED
    BY <2>2, <2>3 DEF IInv, TypeOK
<1> QED
  BY Invariance, <1>1, PTL

\* Of values that fit val_buf, the encoder refuses an instance only when the layout has no
\* place for one of them or the whole has none in the buffer, and what it accepts takes
\* exactly the bytes of the layout.
THEOREM RejectedOnlyIfTooLongHolds == Spec => []RejectedOnlyIfTooLong
<1>1. IInv => RejectedOnlyIfTooLong
  <2> DEFINE n == Len(resources)
             written == {i \in DOMAIN resources : Written(resources[i])}
             encodable == \A i \in written : ValueSize(resources[i].value) # Unencodable
             fit == \A i \in written : FitsValBuf(resources[i].value)
             size == TotalSize(resources, n)
  <2> SUFFICES ASSUME IInv
               PROVE  /\ phase = "rejected" /\ fit => ~encodable \/ size > room
                      /\ phase \in {"decoding", "decoded"} => encodable /\ size = Len(buf)
    BY DEF RejectedOnlyIfTooLong
  <2>1. /\ resources \in Seq(Resources) /\ n \in Nat /\ DOMAIN resources = 1 .. n
        /\ \A k \in 1 .. n : resources[k] \in Resources
        /\ \A k \in 0 .. n : Encoded(resources, k) \in Seq(Nat)
    BY InstanceFacts DEF IInv, TypeOK
  <2>2. encodable /\ fit <=> Good(resources, n)
    <3>1. ASSUME NEW k \in 1 .. n
          PROVE  Encodable(resources[k]) <=> /\ ValueSize(resources[k].value) # Unencodable
                                             /\ FitsValBuf(resources[k].value)
      BY <2>1, RecordIs
    <3> QED
      BY <2>1, <3>1 DEF Good
  <2>3. n \in 0 .. n
    BY <2>1
  <2>4. Good(resources, n) => size = Len(Encoded(resources, n))
    BY <2>1, <2>3, SizeIsLength
  <2> HIDE DEF encodable, fit, size
  <2>5. ASSUME phase = "rejected", fit, encodable
        PROVE  size > room
    <3> DEFINE b == Bytes(resources[next])
    <3>1. /\ next \in 1 .. n /\ next \in 0 .. n /\ next <= n /\ Written(resources[next])
          /\ Encodable(resources[next]) => Len(buf) + Len(b) > room
      BY <2>1, <2>5 DEF IInv, TypeOK, RejectedAt
    <3>2. Encodable(resources[next])
      BY <2>2, <2>5, <3>1 DEF Good
    <3>3. buf = Encoded(resources, next - 1) /\ buf \in Seq(Nat) /\ room \in Nat
      BY DEF IInv, TypeOK, BufferIs
    <3>4. Encoded(resources, next) = buf \o b
      BY <2>1, <3>1, <3>3, EncodedIs
    <3>5. PICK t \in Seq(Nat) : Encoded(resources, n) = Encoded(resources, next) \o t
      BY <2>1, <2>3, <3>1, EncodedGrows
    <3>6. buf \in Seq(Nat) /\ b \in Seq(Nat) /\ t \in Seq(Nat)
      <4>1. resources[next] \in Resources
        BY <2>1, <3>1
      <4> QED
        BY <3>3, <4>1, RecordIs
    <3> HIDE DEF b
    <3>7. buf \o b \in Seq(Nat) /\ Len(buf \o b) = Len(buf) + Len(b)
      BY ONLY <3>6, ConcatProperties
    <3>8. Len((buf \o b) \o t) = Len(buf \o b) + Len(t)
      BY ONLY <3>6, <3>7, ConcatProperties
    <3>9. size = Len((buf \o b) \o t)
      BY <2>2, <2>4, <2>5, <3>4, <3>5
    <3>10. Len(buf) \in Nat /\ Len(b) \in Nat /\ Len(t) \in Nat
      BY <3>6
    <3> QED
      BY <3>1, <3>2, <3>3, <3>7, <3>8, <3>9, <3>10
  <2>6. ASSUME phase \in {"decoding", "decoded"}
        PROVE  encodable /\ size = Len(buf)
    <3>1. next - 1 = n
      BY <2>1, <2>6 DEF IInv, ReaderIs
    <3>2. buf = Encoded(resources, n) /\ Good(resources, n)
      BY <3>1 DEF IInv, BufferIs
    <3> QED
      BY <2>2, <2>4, <3>2
  <2> QED
    BY <2>5, <2>6
<1> QED
  BY Invariance, <1>1, PTL

\* wb_lwm2m_tlv_decode_header reads nothing from a buffer that ends before its record
\* does, at whatever byte it ends.
THEOREM CutIsRefusedHolds == Spec => []CutIsRefused
<1>1. IInv => CutIsRefused
  <2> DEFINE rest == SubSeq(buf, pos + 1, Len(buf))
             h == DecodeHeader(rest)
  <2> SUFFICES ASSUME IInv, phase = "decoding", pos < Len(buf),
                      NEW n \in 1 .. h.offset + h.len - 1
               PROVE  ~DecodeHeader(SubSeq(rest, 1, n)).ok
    BY DEF CutIsRefused
  <2>1. pos \in Nat /\ buf \in Seq(Nat) /\ Len(buf) \in Nat
    <3>1. buf \in Seq(Nat) /\ Len(buf) \in Nat
      BY DEF IInv, TypeOK
    <3>2. PICK m \in 0 .. Len(resources) : ReadUpTo(m)
      BY DEF IInv, ReaderIs
    <3>3. Encoded(resources, m) \in Seq(Nat)
      BY InstanceFacts DEF IInv, TypeOK
    <3>4. pos \in Nat
      BY <3>2, <3>3 DEF ReadUpTo
    <3> QED
      BY <3>1, <3>4
  <2>2. rest \in Seq(Nat) /\ Len(rest) # 0
    <3>1. pos + 1 \in Int /\ Len(buf) \in Int /\ pos + 1 <= Len(buf)
      BY <2>1
    <3>2. \A k \in pos + 1 .. Len(buf) : buf[k] \in Nat
      BY <2>1
    <3>3. rest \in Seq(Nat) /\ Len(rest) = Len(buf) - (pos + 1) + 1
      BY <3>1, <3>2, SubSeqProperties
    <3> HIDE DEF rest
    <3> QED
      BY <2>1, <3>1, <3>3
  <2> HIDE DEF rest
  <2>3. rest # <<>>
    BY <2>2
  <2> QED
    BY <2>2, <2>3, PrefixRefused
<1> QED
  BY Invariance, <1>1, PTL
=============================================================================
