------------------------- MODULE TextEncode_proofs -------------------------
(***************************************************************************)
(* The text encoders of wb_lwm2m_encode.c, for every object, value and      *)
(* buffer size: they stay inside the caller's buffer, terminate what they   *)
(* return, return the whole text, every bit of an opaque value in its       *)
(* base64, and, if opaque values fit b64, fail only for want of a text or   *)
(* of room.                                                                 *)
(*                                                                          *)
(* The buffer first, then base64, then what the first items put into the    *)
(* text, then one lemma for each step of an encoder.                        *)
(***************************************************************************)
EXTENDS TextEncode, Induction_proofs, SequenceTheorems

\* A record of the shape of out, inside the buffer.
Sound(o) ==
    /\ o = [ok |-> o.ok, text |-> o.text, offset |-> o.offset, top |-> o.top]
    /\ o.ok \in BOOLEAN
    /\ o.offset \in Nat
    /\ o.top \in Nat
    /\ o.offset <= room
    /\ o.top <= room

\* base64 has a length, whatever the value.
LEMMA B64Natural ==
  ASSUME NEW n \in Nat
  PROVE  B64Chars(n) \in Nat
  BY DEF B64Chars

\* Every piece has a width.
LEMMA WidthFacts ==
  ASSUME NEW r \in Items
  PROVE  /\ LinkChars(r) \in Nat
         /\ BaseChars(r) \in Nat
         /\ NameChars(r) \in Nat
         /\ ValueChars(r) \in Nat
<1>1. /\ r.idChars \in Nat
      /\ r.chars \in Nat
      /\ r.bytes \in Seq(Byte)
  BY DEF Items
<1>2. Len(r.bytes) \in Nat
  BY <1>1
<1>3. B64Chars(Len(r.bytes)) \in Nat
  BY <1>2, B64Natural
<1>4. Key(r.type) \in {"vs", "v", "vb", "vd", "vlo", "none"}
  BY DEF Key
<1>5. Frame[Key(r.type)] \in Nat
  BY <1>4 DEF Frame
<1>6. ValueChars(r) \in Nat
  BY <1>1, <1>3, <1>5 DEF ValueChars
<1> QED
  BY <1>1, <1>6 DEF LinkChars, BaseChars, NameChars

\* snprintf and its test keep to the buffer; when the test passes, a NUL is the last
\* character written.
LEMMA SnprintfFacts ==
  ASSUME room \in Nat, NEW o, NEW pieces, NEW w \in Nat, Sound(o)
  PROVE  /\ Sound(Snprintf(o, pieces, w))
         /\ Snprintf(o, pieces, w).ok =>
               Snprintf(o, pieces, w).top = Snprintf(o, pieces, w).offset + 1
<1>1. CASE o.ok /\ w < room - o.offset
  BY <1>1 DEF Snprintf, Halted, Sound
<1>2. CASE ~(o.ok /\ w < room - o.offset)
  <2>1. Snprintf(o, pieces, w) = Halted(o, IF o.ok THEN room ELSE o.top)
    BY <1>2 DEF Snprintf
  <2>2. Sound(Halted(o, IF o.ok THEN room ELSE o.top))
    BY DEF Halted, Sound
  <2> QED
    BY <2>1, <2>2 DEF Halted
<1> QED
  BY <1>1, <1>2

\* So do the store of one character and a refusal.
LEMMA StoreFacts ==
  ASSUME room \in Nat, NEW o, NEW piece, Sound(o)
  PROVE  Sound(Store(o, piece)) /\ Sound(Refuse(o)) /\ ~Refuse(o).ok
<1>1. CASE o.ok /\ o.offset < room
  BY <1>1 DEF Store, Refuse, Halted, Sound
<1>2. CASE ~(o.ok /\ o.offset < room)
  BY <1>2 DEF Store, Refuse, Halted, Sound
<1> QED
  BY <1>1, <1>2

\* The initial states are inside the buffer: nothing is written.
LEMMA BufferInit == Init => BufferInv
  BY JobAssumption, RoomAssumption DEF Init, BufferInv, Blank, WithinBuffer, Terminated

\* No pass of any encoder leaves the buffer.
LEMMA BufferStep == BufferInv /\ [Next]_vars => BufferInv'
<1> SUFFICES ASSUME BufferInv, [Next]_vars
             PROVE  BufferInv'
  OBVIOUS
<1> DEFINE Fixed == /\ job' = job /\ items' = items /\ room' = room
                    /\ next' \in Nat \ {0}
<1>1. Sound(out) /\ room \in Nat
  BY DEF BufferInv, Sound, WithinBuffer
<1>2. ASSUME NEW o, NEW then, Sound(o), Goes(o, then), Fixed,
             then \in {"writing", "done"},
             (o.ok /\ (then = "done" \/ job = "link")) =>
                 o.text = <<>> \/ o.top = o.offset + 1
      PROVE  BufferInv'
  <2>1. out' = o /\ phase' \in {then, "failed"} /\ (phase' = then \/ ~o.ok)
    BY <1>2 DEF Goes
  <2>2. phase' = "failed" <=> ~o.ok
    BY <1>2 DEF Goes
  <2> QED
    BY <1>2, <2>1, <2>2 DEF Sound, BufferInv, WithinBuffer, Terminated
<1>3. ASSUME next <= Len(items)
      PROVE  items[next] \in Items /\ next + 1 \in Nat \ {0}
  BY <1>3 DEF BufferInv
<1>4. CASE Begin
  <2> DEFINE o == IF room < 2 THEN Refuse(out) ELSE Store(out, Open)
  <2>1. Sound(o)
    BY <1>1, StoreFacts
  <2>2. Goes(o, "writing") /\ Fixed /\ job # "link"
    BY <1>4 DEF Begin, BufferInv
  <2> HIDE DEF o
  <2> QED
    BY <1>2, <2>1, <2>2
<1>5. CASE Skip
  BY <1>5, <1>3 DEF Skip, Pending, BufferInv, WithinBuffer, Terminated
<1>6. CASE WriteLink
  <2> DEFINE r == items[next]
             o == IF first THEN Snprintf(out, <<Link(r)>>, LinkChars(r))
                  ELSE Snprintf(out, <<Comma, Link(r)>>, 1 + LinkChars(r))
  <2>1. LinkChars(r) \in Nat /\ 1 + LinkChars(r) \in Nat
    BY <1>3, <1>6, WidthFacts DEF WriteLink, Pending
  <2>2. Sound(o) /\ (o.ok => o.top = o.offset + 1)
    BY <1>1, <2>1, SnprintfFacts
  <2>3. Goes(o, "writing") /\ Fixed
    BY <1>3, <1>6 DEF WriteLink, Pending
  <2> HIDE DEF o
  <2> QED
    BY <1>2, <2>2, <2>3
<1>7. CASE WriteRecord
  <2> DEFINE r == items[next]
             head == IF Separator.offset = 1
                     THEN Snprintf(Separator, <<Base(r)>>, BaseChars(r))
                     ELSE Snprintf(Separator, <<Name(r)>>, NameChars(r))
             o == IF Encodable(r) THEN Snprintf(head, <<Value(r)>>, ValueChars(r))
                                  ELSE Refuse(head)
  <2>1. BaseChars(r) \in Nat /\ NameChars(r) \in Nat /\ ValueChars(r) \in Nat
    BY <1>3, <1>7, WidthFacts DEF WriteRecord, Pending
  <2>2. Sound(Separator)
    BY <1>1, StoreFacts DEF Separator
  <2>3. Sound(head)
    BY <1>1, <2>1, <2>2, SnprintfFacts
  <2>4. Goes(o, "writing") /\ Fixed /\ job # "link"
    BY <1>3, <1>7 DEF WriteRecord, Pending
  <2> HIDE DEF head
  <2>5. Sound(o)
    BY <1>1, <2>1, <2>3, SnprintfFacts, StoreFacts
  <2> HIDE DEF o
  <2> QED
    BY <1>2, <2>4, <2>5
<1>8. CASE WriteSingle
  <2> DEFINE r == items[1]
             w == 2 + BaseChars(r) + ValueChars(r)
             o == IF Encodable(r)
                  THEN Snprintf(out, <<Open, Base(r), Value(r), Close>>, w)
                  ELSE Refuse(out)
  <2>1. r \in Items
    <3>1. items \in Seq(Items) /\ Len(items) = 1
      BY <1>8 DEF WriteSingle, BufferInv
    <3> QED
      BY <3>1
  <2>2. w \in Nat
    BY <2>1, WidthFacts
  <2>3. Goes(o, "done") /\ Fixed
    <3>1. Goes(o, "done") /\ UNCHANGED <<job, items, room, next, first>>
      BY <1>8 DEF WriteSingle
    <3> HIDE DEF o
    <3> QED
      BY <3>1 DEF BufferInv
  <2> HIDE DEF w
  <2>4. Sound(o) /\ (o.ok => o.top = o.offset + 1)
    BY <1>1, <2>2, SnprintfFacts, StoreFacts
  <2> HIDE DEF o
  <2> QED
    BY <1>2, <2>3, <2>4
<1>9. CASE Finish
  <2> DEFINE o == IF job = "link" THEN out ELSE IF CloseFits THEN Closed ELSE Refuse(out)
  <2>1. Goes(o, "done") /\ Fixed
    BY <1>9 DEF Finish, BufferInv
  <2>2. CASE job = "link"
    <3>1. o = out /\ (out.text = <<>> \/ out.top = out.offset + 1)
      BY <1>9, <2>2 DEF Finish, BufferInv
    <3> HIDE DEF o
    <3> QED
      BY <1>1, <1>2, <2>1, <3>1
  <2>3. CASE job # "link" /\ CloseFits
    <3>1. Sound(Closed) /\ Closed.top = Closed.offset + 1
      BY <1>1, <2>3 DEF Closed, CloseFits, Sound
    <3>2. o = Closed
      BY <2>3
    <3> HIDE DEF o
    <3> QED
      BY <1>2, <2>1, <3>1, <3>2
  <2>4. CASE job # "link" /\ ~CloseFits
    <3>1. o = Refuse(out)
      BY <2>4
    <3>2. Sound(o) /\ ~o.ok
      BY <1>1, <3>1, StoreFacts
    <3> HIDE DEF o
    <3> QED
      BY <1>2, <2>1, <3>2
  <2> QED
    BY <2>2, <2>3, <2>4
<1>10. CASE UNCHANGED vars
  BY <1>10 DEF vars, BufferInv, WithinBuffer, Terminated
<1> QED
  BY <1>4, <1>5, <1>6, <1>7, <1>8, <1>9, <1>10 DEF Next

-----------------------------------------------------------------------------
(* base64 *)

\* The bit of a byte with that weight.
BitOf(b, weight) == (b \div weight) % 2

\* A byte as a number.
LEMMA ByteIs == \A a \in Byte : a \in Nat /\ a < 256
  BY DEF Byte

\* The parts of a byte that base64 takes, by their bits.
LEMMA ByteByBits ==
  ASSUME NEW a \in Byte
  PROVE  /\ a \div 4 = 32 * BitOf(a, 128) + 16 * BitOf(a, 64) + 8 * BitOf(a, 32)
                           + 4 * BitOf(a, 16) + 2 * BitOf(a, 8) + BitOf(a, 4)
         /\ a % 4 = 2 * BitOf(a, 2) + BitOf(a, 1)
         /\ a \div 16 = 8 * BitOf(a, 128) + 4 * BitOf(a, 64) + 2 * BitOf(a, 32) + BitOf(a, 16)
         /\ a % 16 = 8 * BitOf(a, 8) + 4 * BitOf(a, 4) + 2 * BitOf(a, 2) + BitOf(a, 1)
         /\ a \div 64 = 2 * BitOf(a, 128) + BitOf(a, 64)
         /\ a % 64 = 32 * BitOf(a, 32) + 16 * BitOf(a, 16) + 8 * BitOf(a, 8)
                           + 4 * BitOf(a, 4) + 2 * BitOf(a, 2) + BitOf(a, 1)
<1>1. a \in Nat /\ a < 256
  BY ByteIs
<1>2. a \div 4 = 32 * BitOf(a, 128) + 16 * BitOf(a, 64) + 8 * BitOf(a, 32)
        + 4 * BitOf(a, 16) + 2 * BitOf(a, 8) + BitOf(a, 4)
  BY <1>1, SMT DEF BitOf
<1>3. a % 4 = 2 * BitOf(a, 2) + BitOf(a, 1)
  BY <1>1, SMT DEF BitOf
<1>4. a \div 16 = 8 * BitOf(a, 128) + 4 * BitOf(a, 64) + 2 * BitOf(a, 32) + BitOf(a, 16)
  BY <1>1, SMT DEF BitOf
<1>5. a % 16 = 8 * BitOf(a, 8) + 4 * BitOf(a, 4) + 2 * BitOf(a, 2) + BitOf(a, 1)
  BY <1>1, SMT DEF BitOf
<1>6. a \div 64 = 2 * BitOf(a, 128) + BitOf(a, 64)
  BY <1>1, SMT DEF BitOf
<1>7. a % 64 = 32 * BitOf(a, 32) + 16 * BitOf(a, 16) + 8 * BitOf(a, 8)
        + 4 * BitOf(a, 4) + 2 * BitOf(a, 2) + BitOf(a, 1)
  BY <1>1, SMT DEF BitOf
<1> QED
  BY <1>2, <1>3, <1>4, <1>5, <1>6, <1>7

\* Quotient and remainder by the four shifts.
LEMMA ShiftedBack ==
  ASSUME NEW q \in Nat, NEW m \in Nat
  PROVE  /\ m < 262144 => (262144 * q + m) \div 262144 = q
         /\ m < 4096 => (4096 * q + m) \div 4096 = q
         /\ m < 64 => (64 * q + m) \div 64 = q /\ (64 * q + m) % 64 = m
OBVIOUS

\* The four sextets of a group of three bytes.
LEMMA SextetsOf ==
  ASSUME NEW a \in Byte, NEW b \in Byte, NEW c \in Byte,
         NEW g, g = a * 65536 + b * 256 + c
  PROVE  /\ (g \div 262144) % 64 = a \div 4
         /\ (g \div 4096) % 64 = 16 * (a % 4) + (b \div 16)
         /\ (g \div 64) % 64 = 4 * (b % 16) + (c \div 64)
         /\ (g \div 1) % 64 = c % 64
<1> DEFINE a1 == a \div 4
           a2 == a % 4
           b1 == b \div 16
           b2 == b % 16
           c1 == c \div 64
           c2 == c % 64
<1>1. /\ a = 4 * a1 + a2 /\ a1 \in Nat /\ a1 < 64 /\ a2 \in Nat /\ a2 < 4
      /\ b = 16 * b1 + b2 /\ b1 \in Nat /\ b1 < 16
      /\ b2 \in Nat /\ b2 < 16
      /\ c = 64 * c1 + c2 /\ c1 \in Nat /\ c1 < 4 /\ c2 \in Nat /\ c2 < 64
      /\ a \in Nat /\ b \in Nat /\ c \in Nat /\ b < 256 /\ c < 256
  BY ByteIs
<1> HIDE DEF a1, a2, b1, b2, c1, c2
<1>2. /\ g = 262144 * a1 + (65536 * a2 + 256 * b + c)
      /\ g = 4096 * (64 * a1 + (16 * a2 + b1)) + (256 * b2 + c)
      /\ g = 64 * (64 * (16 * a + b1) + (4 * b2 + c1)) + c2
  BY <1>1
<1>3. g \div 262144 = a1
  <2>1. 65536 * a2 + 256 * b + c \in Nat /\ 65536 * a2 + 256 * b + c < 262144
    BY <1>1
  <2> QED
    BY <1>1, <1>2, <2>1, ShiftedBack
<1>4. g \div 4096 = 64 * a1 + (16 * a2 + b1)
  <2>1. 256 * b2 + c \in Nat /\ 256 * b2 + c < 4096 /\ 64 * a1 + (16 * a2 + b1) \in Nat
    BY <1>1
  <2> QED
    BY <1>2, <2>1, ShiftedBack
<1>5. g \div 64 = 64 * (16 * a + b1) + (4 * b2 + c1) /\ g % 64 = c2
  <2>1. 64 * (16 * a + b1) + (4 * b2 + c1) \in Nat /\ c2 \in Nat /\ c2 < 64
    BY <1>1
  <2> QED
    BY <1>2, <2>1, ShiftedBack
<1>6. a1 % 64 = a1
  BY <1>1
<1>7. (64 * a1 + (16 * a2 + b1)) % 64 = 16 * a2 + b1
  <2>1. 16 * a2 + b1 \in Nat /\ 16 * a2 + b1 < 64 /\ a1 \in Nat
    BY <1>1
  <2> QED
    BY <2>1, ShiftedBack
<1>8. (64 * (16 * a + b1) + (4 * b2 + c1)) % 64 = 4 * b2 + c1
  <2>1. 4 * b2 + c1 \in Nat /\ 4 * b2 + c1 < 64 /\ 16 * a + b1 \in Nat
    BY <1>1
  <2> QED
    BY <2>1, ShiftedBack
<1>9. g \div 1 = g
  BY <1>1
<1> QED
  BY <1>3, <1>4, <1>5, <1>6, <1>7, <1>8, <1>9 DEF a1, a2, b1, b2, c1, c2

\* Bit o of byte n.
LEMMA BitOfByte ==
  ASSUME NEW bytes \in Seq(Byte), NEW n \in Nat, NEW o \in 0 .. 7
  PROVE  BitAt(bytes, 8 * n + o) = BitOf(ByteAt(bytes, n), BitWeights[o + 1])
<1>1. (8 * n + o) \div 8 = n /\ (8 * n + o) % 8 = o
  OBVIOUS
<1>2. Len(bytes) \in Nat
  OBVIOUS
<1>3. 8 * n + o < 8 * Len(bytes) <=> n < Len(bytes)
  BY <1>2
<1>4. CASE n < Len(bytes)
  BY <1>1, <1>3, <1>4, Zenon DEF BitAt, ByteAt, BitOf
<1>5. CASE ~(n < Len(bytes))
  <2>1. BitAt(bytes, 8 * n + o) = 0 /\ ByteAt(bytes, n) = 0
    BY <1>3, <1>5, Zenon DEF BitAt, ByteAt
  <2>2. BitWeights[o + 1] \in Nat \ {0}
    BY DEF BitWeights
  <2>3. \A w \in Nat \ {0} : (0 \div w) % 2 = 0
    OBVIOUS
  <2> QED
    BY <2>1, <2>2, <2>3 DEF BitOf
<1> QED
  BY <1>4, <1>5

\* The same, weight by weight.
LEMMA BitsOfByte ==
  ASSUME NEW bytes \in Seq(Byte), NEW n \in Nat
  PROVE  /\ BitAt(bytes, 8 * n + 0) = BitOf(ByteAt(bytes, n), 128)
         /\ BitAt(bytes, 8 * n + 1) = BitOf(ByteAt(bytes, n), 64)
         /\ BitAt(bytes, 8 * n + 2) = BitOf(ByteAt(bytes, n), 32)
         /\ BitAt(bytes, 8 * n + 3) = BitOf(ByteAt(bytes, n), 16)
         /\ BitAt(bytes, 8 * n + 4) = BitOf(ByteAt(bytes, n), 8)
         /\ BitAt(bytes, 8 * n + 5) = BitOf(ByteAt(bytes, n), 4)
         /\ BitAt(bytes, 8 * n + 6) = BitOf(ByteAt(bytes, n), 2)
         /\ BitAt(bytes, 8 * n + 7) = BitOf(ByteAt(bytes, n), 1)
<1>1. \A o \in 0 .. 7 : BitAt(bytes, 8 * n + o) = BitOf(ByteAt(bytes, n), BitWeights[o + 1])
  BY BitOfByte
<1>2. /\ BitWeights[1] = 128 /\ BitWeights[2] = 64 /\ BitWeights[3] = 32 /\ BitWeights[4] = 16
      /\ BitWeights[5] = 8 /\ BitWeights[6] = 4 /\ BitWeights[7] = 2 /\ BitWeights[8] = 1
  BY DEF BitWeights
<1>3. BitAt(bytes, 8 * n + 0) = BitOf(ByteAt(bytes, n), 128)
  <2>1. 0 \in 0 .. 7 /\ 0 + 1 = 1
    OBVIOUS
  <2>2. BitAt(bytes, 8 * n + 0) = BitOf(ByteAt(bytes, n), BitWeights[0 + 1])
    BY <1>1, <2>1, Zenon
  <2> QED
    BY <1>2, <2>1, <2>2, Zenon
<1>4. BitAt(bytes, 8 * n + 1) = BitOf(ByteAt(bytes, n), 64)
  <2>1. 1 \in 0 .. 7 /\ 1 + 1 = 2
    OBVIOUS
  <2>2. BitAt(bytes, 8 * n + 1) = BitOf(ByteAt(bytes, n), BitWeights[1 + 1])
    BY <1>1, <2>1, Zenon
  <2> QED
    BY <1>2, <2>1, <2>2, Zenon
<1>5. BitAt(bytes, 8 * n + 2) = BitOf(ByteAt(bytes, n), 32)
  <2>1. 2 \in 0 .. 7 /\ 2 + 1 = 3
    OBVIOUS
  <2>2. BitAt(bytes, 8 * n + 2) = BitOf(ByteAt(bytes, n), BitWeights[2 + 1])
    BY <1>1, <2>1, Zenon
  <2> QED
    BY <1>2, <2>1, <2>2, Zenon
<1>6. BitAt(bytes, 8 * n + 3) = BitOf(ByteAt(bytes, n), 16)
  <2>1. 3 \in 0 .. 7 /\ 3 + 1 = 4
    OBVIOUS
  <2>2. BitAt(bytes, 8 * n + 3) = BitOf(ByteAt(bytes, n), BitWeights[3 + 1])
    BY <1>1, <2>1, Zenon
  <2> QED
    BY <1>2, <2>1, <2>2, Zenon
<1>7. BitAt(bytes, 8 * n + 4) = BitOf(ByteAt(bytes, n), 8)
  <2>1. 4 \in 0 .. 7 /\ 4 + 1 = 5
    OBVIOUS
  <2>2. BitAt(bytes, 8 * n + 4) = BitOf(ByteAt(bytes, n), BitWeights[4 + 1])
    BY <1>1, <2>1, Zenon
  <2> QED
    BY <1>2, <2>1, <2>2, Zenon
<1>8. BitAt(bytes, 8 * n + 5) = BitOf(ByteAt(bytes, n), 4)
  <2>1. 5 \in 0 .. 7 /\ 5 + 1 = 6
    OBVIOUS
  <2>2. BitAt(bytes, 8 * n + 5) = BitOf(ByteAt(bytes, n), BitWeights[5 + 1])
    BY <1>1, <2>1, Zenon
  <2> QED
    BY <1>2, <2>1, <2>2, Zenon
<1>9. BitAt(bytes, 8 * n + 6) = BitOf(ByteAt(bytes, n), 2)
  <2>1. 6 \in 0 .. 7 /\ 6 + 1 = 7
    OBVIOUS
  <2>2. BitAt(bytes, 8 * n + 6) = BitOf(ByteAt(bytes, n), BitWeights[6 + 1])
    BY <1>1, <2>1, Zenon
  <2> QED
    BY <1>2, <2>1, <2>2, Zenon
<1>10. BitAt(bytes, 8 * n + 7) = BitOf(ByteAt(bytes, n), 1)
  <2>1. 7 \in 0 .. 7 /\ 7 + 1 = 8
    OBVIOUS
  <2>2. BitAt(bytes, 8 * n + 7) = BitOf(ByteAt(bytes, n), BitWeights[7 + 1])
    BY <1>1, <2>1, Zenon
  <2> QED
    BY <1>2, <2>1, <2>2, Zenon
<1> QED
  BY <1>3, <1>4, <1>5, <1>6, <1>7, <1>8, <1>9, <1>10, Zenon

\* A byte is a byte, also past the end of the value.
LEMMA ByteAtIs ==
  ASSUME NEW bytes \in Seq(Byte), NEW n \in Nat
  PROVE  ByteAt(bytes, n) \in Byte
<1>1. Len(bytes) \in Nat
  OBVIOUS
<1>2. CASE n < Len(bytes)
  <2>1. n + 1 \in 1 .. Len(bytes)
    BY <1>1, <1>2
  <2>2. bytes[n + 1] \in Byte
    BY <2>1, ElementOfSeq, Zenon
  <2> QED
    BY <1>2, <2>2, Zenon DEF ByteAt
<1>3. CASE ~(n < Len(bytes))
  BY <1>3 DEF ByteAt, Byte
<1> QED
  BY <1>2, <1>3

\* A bit is a number.
LEMMA BitIs ==
  ASSUME NEW a \in Byte
  PROVE  \A w \in {1, 2, 4, 8, 16, 32, 64, 128} : BitOf(a, w) \in Nat
<1>1. a \in Nat
  BY ByteIs
<1> QED
  BY <1>1, SMT DEF BitOf

\* Six bits in two parts.
LEMMA Weighted ==
  ASSUME NEW t \in Nat, NEW u \in Nat, NEW v \in Nat, NEW x \in Nat, NEW y \in Nat, NEW z \in Nat
  PROVE  /\ 32 * t + 16 * u + 8 * v + 4 * x + 2 * y + z =
                16 * (2 * t + u) + (8 * v + 4 * x + 2 * y + z)
         /\ 32 * t + 16 * u + 8 * v + 4 * x + 2 * y + z =
                4 * (8 * t + 4 * u + 2 * v + x) + (2 * y + z)
OBVIOUS

\* A sextet from the values of its six bits.
LEMMA SextetOf ==
  ASSUME NEW bytes, NEW j, NEW s, NEW t, NEW u, NEW v, NEW w, NEW x,
         BitAt(bytes, j) = s, BitAt(bytes, j + 1) = t, BitAt(bytes, j + 2) = u,
         BitAt(bytes, j + 3) = v, BitAt(bytes, j + 4) = w, BitAt(bytes, j + 5) = x
  PROVE  SextetAt(bytes, j) = 32 * s + 16 * t + 8 * u + 4 * v + 2 * w + x
BY Zenon DEF SextetAt

\* A sextet of the group that starts at byte i is six bits of the value.
LEMMA GroupByBits ==
  ASSUME NEW bytes \in Seq(Byte), NEW i \in Nat
  PROVE  \A p \in 0 .. 3 :
            (Group(bytes, i) \div Shifts[p + 1]) % 64 = SextetAt(bytes, 8 * i + 6 * p)
<1> DEFINE a == ByteAt(bytes, i + 0)
           b == ByteAt(bytes, i + 1)
           c == ByteAt(bytes, i + 2)
<1>1. \A n \in Nat : ByteAt(bytes, n) \in Byte
  BY ByteAtIs
<1>2. a \in Byte /\ b \in Byte /\ c \in Byte
  <2>1. i + 0 \in Nat /\ i + 1 \in Nat /\ i + 2 \in Nat
    OBVIOUS
  <2> QED
    BY <1>1, <2>1
<1>3. /\ BitAt(bytes, 8 * i + 0) = BitOf(a, 128)
      /\ BitAt(bytes, 8 * i + 1) = BitOf(a, 64)
      /\ BitAt(bytes, 8 * i + 2) = BitOf(a, 32)
      /\ BitAt(bytes, 8 * i + 3) = BitOf(a, 16)
      /\ BitAt(bytes, 8 * i + 4) = BitOf(a, 8)
      /\ BitAt(bytes, 8 * i + 5) = BitOf(a, 4)
      /\ BitAt(bytes, 8 * i + 6) = BitOf(a, 2)
      /\ BitAt(bytes, 8 * i + 7) = BitOf(a, 1)
  <2> DEFINE m == i + 0
  <2>1. m \in Nat
    OBVIOUS
  <2>2. /\ BitAt(bytes, 8 * m + 0) = BitOf(ByteAt(bytes, m), 128)
        /\ BitAt(bytes, 8 * m + 1) = BitOf(ByteAt(bytes, m), 64)
        /\ BitAt(bytes, 8 * m + 2) = BitOf(ByteAt(bytes, m), 32)
        /\ BitAt(bytes, 8 * m + 3) = BitOf(ByteAt(bytes, m), 16)
        /\ BitAt(bytes, 8 * m + 4) = BitOf(ByteAt(bytes, m), 8)
        /\ BitAt(bytes, 8 * m + 5) = BitOf(ByteAt(bytes, m), 4)
        /\ BitAt(bytes, 8 * m + 6) = BitOf(ByteAt(bytes, m), 2)
        /\ BitAt(bytes, 8 * m + 7) = BitOf(ByteAt(bytes, m), 1)
    BY <2>1, BitsOfByte
  <2>3. /\ 8 * m + 0 = 8 * i + 0
        /\ 8 * m + 1 = 8 * i + 1
        /\ 8 * m + 2 = 8 * i + 2
        /\ 8 * m + 3 = 8 * i + 3
        /\ 8 * m + 4 = 8 * i + 4
        /\ 8 * m + 5 = 8 * i + 5
        /\ 8 * m + 6 = 8 * i + 6
        /\ 8 * m + 7 = 8 * i + 7
    OBVIOUS
  <2>4. a = ByteAt(bytes, m)
    OBVIOUS
  <2> HIDE DEF m, a
  <2> QED
    BY <2>2, <2>3, <2>4
<1>4. /\ BitAt(bytes, 8 * i + 8) = BitOf(b, 128)
      /\ BitAt(bytes, 8 * i + 9) = BitOf(b, 64)
      /\ BitAt(bytes, 8 * i + 10) = BitOf(b, 32)
      /\ BitAt(bytes, 8 * i + 11) = BitOf(b, 16)
      /\ BitAt(bytes, 8 * i + 12) = BitOf(b, 8)
      /\ BitAt(bytes, 8 * i + 13) = BitOf(b, 4)
      /\ BitAt(bytes, 8 * i + 14) = BitOf(b, 2)
      /\ BitAt(bytes, 8 * i + 15) = BitOf(b, 1)
  <2> DEFINE m == i + 1
  <2>1. m \in Nat
    OBVIOUS
  <2>2. /\ BitAt(bytes, 8 * m + 0) = BitOf(ByteAt(bytes, m), 128)
        /\ BitAt(bytes, 8 * m + 1) = BitOf(ByteAt(bytes, m), 64)
        /\ BitAt(bytes, 8 * m + 2) = BitOf(ByteAt(bytes, m), 32)
        /\ BitAt(bytes, 8 * m + 3) = BitOf(ByteAt(bytes, m), 16)
        /\ BitAt(bytes, 8 * m + 4) = BitOf(ByteAt(bytes, m), 8)
        /\ BitAt(bytes, 8 * m + 5) = BitOf(ByteAt(bytes, m), 4)
        /\ BitAt(bytes, 8 * m + 6) = BitOf(ByteAt(bytes, m), 2)
        /\ BitAt(bytes, 8 * m + 7) = BitOf(ByteAt(bytes, m), 1)
    BY <2>1, BitsOfByte
  <2>3. /\ 8 * m + 0 = 8 * i + 8
        /\ 8 * m + 1 = 8 * i + 9
        /\ 8 * m + 2 = 8 * i + 10
        /\ 8 * m + 3 = 8 * i + 11
        /\ 8 * m + 4 = 8 * i + 12
        /\ 8 * m + 5 = 8 * i + 13
        /\ 8 * m + 6 = 8 * i + 14
        /\ 8 * m + 7 = 8 * i + 15
    OBVIOUS
  <2>4. b = ByteAt(bytes, m)
    OBVIOUS
  <2> HIDE DEF m, b
  <2> QED
    BY <2>2, <2>3, <2>4
<1>5. /\ BitAt(bytes, 8 * i + 16) = BitOf(c, 128)
      /\ BitAt(bytes, 8 * i + 17) = BitOf(c, 64)
      /\ BitAt(bytes, 8 * i + 18) = BitOf(c, 32)
      /\ BitAt(bytes, 8 * i + 19) = BitOf(c, 16)
      /\ BitAt(bytes, 8 * i + 20) = BitOf(c, 8)
      /\ BitAt(bytes, 8 * i + 21) = BitOf(c, 4)
      /\ BitAt(bytes, 8 * i + 22) = BitOf(c, 2)
      /\ BitAt(bytes, 8 * i + 23) = BitOf(c, 1)
  <2> DEFINE m == i + 2
  <2>1. m \in Nat
    OBVIOUS
  <2>2. /\ BitAt(bytes, 8 * m + 0) = BitOf(ByteAt(bytes, m), 128)
        /\ BitAt(bytes, 8 * m + 1) = BitOf(ByteAt(bytes, m), 64)
        /\ BitAt(bytes, 8 * m + 2) = BitOf(ByteAt(bytes, m), 32)
        /\ BitAt(bytes, 8 * m + 3) = BitOf(ByteAt(bytes, m), 16)
        /\ BitAt(bytes, 8 * m + 4) = BitOf(ByteAt(bytes, m), 8)
        /\ BitAt(bytes, 8 * m + 5) = BitOf(ByteAt(bytes, m), 4)
        /\ BitAt(bytes, 8 * m + 6) = BitOf(ByteAt(bytes, m), 2)
        /\ BitAt(bytes, 8 * m + 7) = BitOf(ByteAt(bytes, m), 1)
    BY <2>1, BitsOfByte
  <2>3. /\ 8 * m + 0 = 8 * i + 16
        /\ 8 * m + 1 = 8 * i + 17
        /\ 8 * m + 2 = 8 * i + 18
        /\ 8 * m + 3 = 8 * i + 19
        /\ 8 * m + 4 = 8 * i + 20
        /\ 8 * m + 5 = 8 * i + 21
        /\ 8 * m + 6 = 8 * i + 22
        /\ 8 * m + 7 = 8 * i + 23
    OBVIOUS
  <2>4. c = ByteAt(bytes, m)
    OBVIOUS
  <2> HIDE DEF m, c
  <2> QED
    BY <2>2, <2>3, <2>4
<1> HIDE DEF a, b, c
<1>7. /\ SextetAt(bytes, 8 * i + 0) = a \div 4
      /\ SextetAt(bytes, 8 * i + 6) = 16 * (a % 4) + (b \div 16)
      /\ SextetAt(bytes, 8 * i + 12) = 4 * (b % 16) + (c \div 64)
      /\ SextetAt(bytes, 8 * i + 18) = c % 64
  <2>1. SextetAt(bytes, 8 * i + 0) = a \div 4
    <3>1. SextetAt(bytes, 8 * i + 0) =
              32 * BitOf(a, 128) + 16 * BitOf(a, 64) + 8 * BitOf(a, 32) + 4 * BitOf(a, 16) + 2 * BitOf(a, 8) + BitOf(a, 4)
      <4>1. /\ 8 * i + 0 + 1 = 8 * i + 1
            /\ 8 * i + 0 + 2 = 8 * i + 2
            /\ 8 * i + 0 + 3 = 8 * i + 3
            /\ 8 * i + 0 + 4 = 8 * i + 4
            /\ 8 * i + 0 + 5 = 8 * i + 5
        OBVIOUS
      <4>2. /\ BitAt(bytes, 8 * i + 0) = BitOf(a, 128)
            /\ BitAt(bytes, 8 * i + 0 + 1) = BitOf(a, 64)
            /\ BitAt(bytes, 8 * i + 0 + 2) = BitOf(a, 32)
            /\ BitAt(bytes, 8 * i + 0 + 3) = BitOf(a, 16)
            /\ BitAt(bytes, 8 * i + 0 + 4) = BitOf(a, 8)
            /\ BitAt(bytes, 8 * i + 0 + 5) = BitOf(a, 4)
        BY <4>1, <1>3, Zenon
      <4> QED
        BY ONLY <4>2, SextetOf
    <3>2. /\ a \div 4 = 32 * BitOf(a, 128) + 16 * BitOf(a, 64) + 8 * BitOf(a, 32) + 4 * BitOf(a, 16) + 2 * BitOf(a, 8) + BitOf(a, 4)
      BY <1>2, ByteByBits
    <3> QED
      BY <3>1, <3>2, Zenon
  <2>2. SextetAt(bytes, 8 * i + 6) = 16 * (a % 4) + (b \div 16)
    <3>1. SextetAt(bytes, 8 * i + 6) =
              32 * BitOf(a, 2) + 16 * BitOf(a, 1) + 8 * BitOf(b, 128) + 4 * BitOf(b, 64) + 2 * BitOf(b, 32) + BitOf(b, 16)
      <4>1. /\ 8 * i + 6 + 1 = 8 * i + 7
            /\ 8 * i + 6 + 2 = 8 * i + 8
            /\ 8 * i + 6 + 3 = 8 * i + 9
            /\ 8 * i + 6 + 4 = 8 * i + 10
            /\ 8 * i + 6 + 5 = 8 * i + 11
        OBVIOUS
      <4>2. /\ BitAt(bytes, 8 * i + 6) = BitOf(a, 2)
            /\ BitAt(bytes, 8 * i + 6 + 1) = BitOf(a, 1)
            /\ BitAt(bytes, 8 * i + 6 + 2) = BitOf(b, 128)
            /\ BitAt(bytes, 8 * i + 6 + 3) = BitOf(b, 64)
            /\ BitAt(bytes, 8 * i + 6 + 4) = BitOf(b, 32)
            /\ BitAt(bytes, 8 * i + 6 + 5) = BitOf(b, 16)
        BY <4>1, <1>3, <1>4, Zenon
      <4> QED
        BY ONLY <4>2, SextetOf
    <3>2. /\ a % 4 = 2 * BitOf(a, 2) + BitOf(a, 1)
          /\ b \div 16 = 8 * BitOf(b, 128) + 4 * BitOf(b, 64) + 2 * BitOf(b, 32) + BitOf(b, 16)
      BY <1>2, ByteByBits
    <3>3. /\ BitOf(a, 2) \in Nat
          /\ BitOf(a, 1) \in Nat
          /\ BitOf(b, 128) \in Nat
          /\ BitOf(b, 64) \in Nat
          /\ BitOf(b, 32) \in Nat
          /\ BitOf(b, 16) \in Nat
      BY <1>2, BitIs
    <3> DEFINE t == BitOf(a, 2)
               u == BitOf(a, 1)
               v == BitOf(b, 128)
               x == BitOf(b, 64)
               y == BitOf(b, 32)
               z == BitOf(b, 16)
    <3>4. t \in Nat /\ u \in Nat /\ v \in Nat /\ x \in Nat /\ y \in Nat /\ z \in Nat
      BY <3>3
    <3> HIDE DEF t, u, v, x, y, z
    <3>5. 32 * t + 16 * u + 8 * v + 4 * x + 2 * y + z =
              16 * (2 * t + u) + (8 * v + 4 * x + 2 * y + z)
      BY <3>4, Weighted
    <3> QED
      BY <3>1, <3>2, <3>5, Zenon DEF t, u, v, x, y, z
  <2>3. SextetAt(bytes, 8 * i + 12) = 4 * (b % 16) + (c \div 64)
    <3>1. SextetAt(bytes, 8 * i + 12) =
              32 * BitOf(b, 8) + 16 * BitOf(b, 4) + 8 * BitOf(b, 2) + 4 * BitOf(b, 1) + 2 * BitOf(c, 128) + BitOf(c, 64)
      <4>1. /\ 8 * i + 12 + 1 = 8 * i + 13
            /\ 8 * i + 12 + 2 = 8 * i + 14
            /\ 8 * i + 12 + 3 = 8 * i + 15
            /\ 8 * i + 12 + 4 = 8 * i + 16
            /\ 8 * i + 12 + 5 = 8 * i + 17
        OBVIOUS
      <4>2. /\ BitAt(bytes, 8 * i + 12) = BitOf(b, 8)
            /\ BitAt(bytes, 8 * i + 12 + 1) = BitOf(b, 4)
            /\ BitAt(bytes, 8 * i + 12 + 2) = BitOf(b, 2)
            /\ BitAt(bytes, 8 * i + 12 + 3) = BitOf(b, 1)
            /\ BitAt(bytes, 8 * i + 12 + 4) = BitOf(c, 128)
            /\ BitAt(bytes, 8 * i + 12 + 5) = BitOf(c, 64)
        BY <4>1, <1>4, <1>5, Zenon
      <4> QED
        BY ONLY <4>2, SextetOf
    <3>2. /\ b % 16 = 8 * BitOf(b, 8) + 4 * BitOf(b, 4) + 2 * BitOf(b, 2) + BitOf(b, 1)
          /\ c \div 64 = 2 * BitOf(c, 128) + BitOf(c, 64)
      BY <1>2, ByteByBits
    <3>3. /\ BitOf(b, 8) \in Nat
          /\ BitOf(b, 4) \in Nat
          /\ BitOf(b, 2) \in Nat
          /\ BitOf(b, 1) \in Nat
          /\ BitOf(c, 128) \in Nat
          /\ BitOf(c, 64) \in Nat
      BY <1>2, BitIs
    <3> DEFINE t == BitOf(b, 8)
               u == BitOf(b, 4)
               v == BitOf(b, 2)
               x == BitOf(b, 1)
               y == BitOf(c, 128)
               z == BitOf(c, 64)
    <3>4. t \in Nat /\ u \in Nat /\ v \in Nat /\ x \in Nat /\ y \in Nat /\ z \in Nat
      BY <3>3
    <3> HIDE DEF t, u, v, x, y, z
    <3>5. 32 * t + 16 * u + 8 * v + 4 * x + 2 * y + z =
              4 * (8 * t + 4 * u + 2 * v + x) + (2 * y + z)
      BY <3>4, Weighted
    <3> QED
      BY <3>1, <3>2, <3>5, Zenon DEF t, u, v, x, y, z
  <2>4. SextetAt(bytes, 8 * i + 18) = c % 64
    <3>1. SextetAt(bytes, 8 * i + 18) =
              32 * BitOf(c, 32) + 16 * BitOf(c, 16) + 8 * BitOf(c, 8) + 4 * BitOf(c, 4) + 2 * BitOf(c, 2) + BitOf(c, 1)
      <4>1. /\ 8 * i + 18 + 1 = 8 * i + 19
            /\ 8 * i + 18 + 2 = 8 * i + 20
            /\ 8 * i + 18 + 3 = 8 * i + 21
            /\ 8 * i + 18 + 4 = 8 * i + 22
            /\ 8 * i + 18 + 5 = 8 * i + 23
        OBVIOUS
      <4>2. /\ BitAt(bytes, 8 * i + 18) = BitOf(c, 32)
            /\ BitAt(bytes, 8 * i + 18 + 1) = BitOf(c, 16)
            /\ BitAt(bytes, 8 * i + 18 + 2) = BitOf(c, 8)
            /\ BitAt(bytes, 8 * i + 18 + 3) = BitOf(c, 4)
            /\ BitAt(bytes, 8 * i + 18 + 4) = BitOf(c, 2)
            /\ BitAt(bytes, 8 * i + 18 + 5) = BitOf(c, 1)
        BY <4>1, <1>5, Zenon
      <4> QED
        BY ONLY <4>2, SextetOf
    <3>2. /\ c % 64 = 32 * BitOf(c, 32) + 16 * BitOf(c, 16) + 8 * BitOf(c, 8) + 4 * BitOf(c, 4) + 2 * BitOf(c, 2) + BitOf(c, 1)
      BY <1>2, ByteByBits
    <3> QED
      BY <3>1, <3>2, Zenon
  <2> QED
    BY <2>1, <2>2, <2>3, <2>4
<1> DEFINE g == Group(bytes, i)
<1>8. g = a * 65536 + b * 256 + c
  <2>1. i + 0 = i
    OBVIOUS
  <2> QED
    BY <2>1, SMT DEF Group, a, b, c
<1> HIDE DEF g
<1>9. /\ (g \div Shifts[1]) % 64 = a \div 4
      /\ (g \div Shifts[2]) % 64 = 16 * (a % 4) + (b \div 16)
      /\ (g \div Shifts[3]) % 64 = 4 * (b % 16) + (c \div 64)
      /\ (g \div Shifts[4]) % 64 = c % 64
  <2>1. /\ (g \div 262144) % 64 = a \div 4
        /\ (g \div 4096) % 64 = 16 * (a % 4) + (b \div 16)
        /\ (g \div 64) % 64 = 4 * (b % 16) + (c \div 64)
        /\ (g \div 1) % 64 = c % 64
    BY <1>2, <1>8, SextetsOf, SMT
  <2>2. Shifts[1] = 262144 /\ Shifts[2] = 4096 /\ Shifts[3] = 64 /\ Shifts[4] = 1
    BY SMT DEF Shifts
  <2> QED
    BY <2>1, <2>2, SMT
<1> DEFINE Right(p) == (g \div Shifts[p + 1]) % 64 = SextetAt(bytes, 8 * i + 6 * p)
<1>10. Right(0)
  BY <1>7, <1>9, SMT
<1>11. Right(1)
  BY <1>7, <1>9, SMT
<1>12. Right(2)
  BY <1>7, <1>9, SMT
<1>13. Right(3)
  BY <1>7, <1>9, SMT
<1> HIDE DEF Right
<1>14. \A p \in 0 .. 3 : Right(p)
  BY <1>10, <1>11, <1>12, <1>13
<1> QED
  BY <1>14, Zenon DEF g, Right

\* base64_encode writes the bits of the value six by six, and pads as the text's length
\* asks for, for values of any length.
LEMMA Base64ByBits ==
  ASSUME NEW bytes \in Seq(Byte)
  PROVE  Base64(bytes) = ByBits(bytes)
<1> DEFINE L == Len(bytes)
           N == B64Chars(L)
<1>1. L \in Nat
  OBVIOUS
<1>2. ASSUME NEW k \in 1 .. N
      PROVE  Base64Char(bytes, 3 * ((k - 1) \div 4), (k - 1) % 4)
                 = IF 6 * (k - 1) >= 8 * L THEN Pad ELSE SextetAt(bytes, 6 * (k - 1))
  <2> DEFINE q == (k - 1) \div 4
             p == (k - 1) % 4
             i == 3 * q
             M == (L + 2) \div 3
  <2>1. N = 4 * M
    BY DEF B64Chars
  <2>2. 3 * M <= L + 2 /\ M \in Nat
    BY <1>1
  <2>3. k \in Nat /\ k >= 1 /\ k <= 4 * M
    BY <2>1, <2>2
  <2> HIDE DEF M, N, L
  <2>4. k - 1 = 4 * q + p /\ q \in Nat /\ p \in 0 .. 3
    BY <2>3
  <2> HIDE DEF q, p
  <2>5. i \in Nat /\ i < L
    BY <1>1, <2>2, <2>3, <2>4
  <2>6. 6 * (k - 1) = 8 * i + 6 * p
    BY <2>4
  <2> HIDE DEF i
  <2>7. (p > 1 /\ i + p - 1 >= L) <=> 6 * (k - 1) >= 8 * L
    <3>1. p = 0 \/ p = 1 \/ p = 2 \/ p = 3
      BY <2>4
    <3> QED
      BY <1>1, <2>5, <2>6, <3>1
  <2>8. (Group(bytes, i) \div Shifts[p + 1]) % 64 = SextetAt(bytes, 6 * (k - 1))
    BY <2>4, <2>5, <2>6, GroupByBits, Zenon
  <2>9. Base64Char(bytes, i, p)
            = IF 6 * (k - 1) >= 8 * L THEN Pad ELSE SextetAt(bytes, 6 * (k - 1))
    <3>1. CASE 6 * (k - 1) >= 8 * L
      BY <2>7, <3>1, Zenon DEF Base64Char, L
    <3>2. CASE ~(6 * (k - 1) >= 8 * L)
      BY <2>7, <2>8, <3>2, Zenon DEF Base64Char, L
    <3> QED
      BY <3>1, <3>2, Zenon
  <2> QED
    BY <2>9, Zenon DEF i, q, p
<1> QED
  BY <1>2, Zenon DEF Base64, ByBits


-----------------------------------------------------------------------------
(* What the first n items put into the text *)

\* The pieces a text is made of.
Pieces == {Open, Comma, Close} \cup {Link(r) : r \in Items} \cup {Base(r) : r \in Items}
              \cup {Name(r) : r \in Items} \cup {Value(r) : r \in Items}

\* The piece that the grammar asks for a resource's value is the one that is written:
\* base64 is the bits of an opaque value.
LEMMA ReferenceValue ==
  ASSUME NEW r \in Items
  PROVE  (IF r.type = "OPAQUE" THEN <<"vd", ByBits(r.bytes)>> ELSE Value(r)) = Value(r)
<1>1. CASE r.type = "OPAQUE"
  <2>1. Key(r.type) = "vd"
    <3>1. r.type \notin {"STRING", "CORELNK"} /\ r.type \notin NumberTypes /\ r.type # "BOOLEAN"
      BY <1>1 DEF NumberTypes
    <3> QED
      BY <1>1, <3>1, Zenon DEF Key
  <2>2. r.bytes \in Seq(Byte)
    BY DEF Items
  <2>3. Base64(r.bytes) = ByBits(r.bytes)
    BY <2>2, Base64ByBits
  <2> QED
    BY <1>1, <2>1, <2>3, Zenon DEF Value
<1> QED
  BY <1>1

\* What an item adds to the text, in the pieces that are written.
LEMMA PartOf ==
  ASSUME NEW kind, NEW s \in Seq(Items), NEW i \in 1 .. Len(s)
  PROVE  /\ ~InText(kind, s[i]) => Part(kind, s, i) = <<>>
         /\ InText(kind, s[i]) /\ kind = "link" =>
               Part(kind, s, i) = (IF NoneBefore(kind, s, i) THEN <<>> ELSE <<Comma>>)
                                      \o <<Link(s[i])>>
         /\ InText(kind, s[i]) /\ kind # "link" =>
               Part(kind, s, i) = (IF NoneBefore(kind, s, i) THEN <<>> ELSE <<Comma>>)
                                      \o <<IF NoneBefore(kind, s, i) THEN Base(s[i])
                                           ELSE Name(s[i]), Value(s[i])>>
<1>1. s[i] \in Items
  OBVIOUS
<1> DEFINE value == IF s[i].type = "OPAQUE" THEN <<"vd", ByBits(s[i].bytes)>>
                    ELSE Value(s[i])
<1>2. value = Value(s[i])
  BY <1>1, ReferenceValue
<1>3. Part(kind, s, i) =
          IF ~InText(kind, s[i]) THEN <<>>
          ELSE IF kind = "link"
          THEN (IF NoneBefore(kind, s, i) THEN <<>> ELSE <<Comma>>) \o <<Link(s[i])>>
          ELSE (IF NoneBefore(kind, s, i) THEN <<>> ELSE <<Comma>>)
                  \o <<IF NoneBefore(kind, s, i) THEN Base(s[i]) ELSE Name(s[i]), value>>
  BY Zenon DEF Part
<1> HIDE DEF value
<1> QED
  BY <1>2, <1>3

\* It is a sequence of pieces.
LEMMA PartIs ==
  ASSUME NEW kind, NEW s \in Seq(Items), NEW i \in 1 .. Len(s)
  PROVE  Part(kind, s, i) \in Seq(Pieces)
<1> DEFINE r == s[i]
           comma == IF NoneBefore(kind, s, i) THEN <<>> ELSE <<Comma>>
           head == IF NoneBefore(kind, s, i) THEN Base(r) ELSE Name(r)
<1>1. r \in Items
  OBVIOUS
<1>2. Comma \in Pieces /\ Link(r) \in Pieces /\ head \in Pieces /\ Value(r) \in Pieces
  BY <1>1, Zenon DEF Pieces
<1>3. comma \in Seq(Pieces)
  BY <1>2
<1>4. Part(kind, s, i) = <<>> \/ Part(kind, s, i) = comma \o <<Link(r)>>
         \/ Part(kind, s, i) = comma \o <<head, Value(r)>>
  BY PartOf
<1> HIDE DEF r, comma, head
<1>5. <<Link(r)>> \in Seq(Pieces) /\ <<head, Value(r)>> \in Seq(Pieces)
  BY <1>2
<1>6. comma \o <<Link(r)>> \in Seq(Pieces) /\ comma \o <<head, Value(r)>> \in Seq(Pieces)
  BY <1>3, <1>5, ConcatProperties
<1>7. <<>> \in Seq(Pieces)
  OBVIOUS
<1> QED
  BY <1>4, <1>6, <1>7, Zenon

\* Its width is a number.
LEMMA WidthIs ==
  ASSUME NEW kind, NEW s \in Seq(Items), NEW i \in 1 .. Len(s)
  PROVE  Width(kind, s, i) \in Nat
<1>1. s[i] \in Items
  OBVIOUS
<1>2. BaseChars(s[i]) \in Nat /\ NameChars(s[i]) \in Nat /\ ValueChars(s[i]) \in Nat
      /\ LinkChars(s[i]) \in Nat
  BY <1>1, WidthFacts
<1> QED
  BY <1>2 DEF Width

\* The text of the first k items, item by item.
LEMMA ListedIs ==
  ASSUME NEW kind, NEW s \in Seq(Items)
  PROVE  /\ Listed(kind, s, 0) = <<>>
         /\ \A k \in 1 .. Len(s) :
               Listed(kind, s, k) = Listed(kind, s, k - 1) \o Part(kind, s, k)
         /\ \A k \in 0 .. Len(s) : Listed(kind, s, k) \in Seq(Pieces)
<1> DEFINE n == Len(s)
           S == Seq(Pieces)
           step == [x \in S \X (1 .. n) |-> x[1] \o Part(kind, s, x[2])]
           Is(g) == g = [k \in 0 .. n |-> IF k = 0 THEN <<>> ELSE g[k - 1] \o Part(kind, s, k)]
<1>1. n \in Nat
  OBVIOUS
<1>2. <<>> \in S /\ \A x \in S, k \in 1 .. n : x \o Part(kind, s, k) \in S
  <2> SUFFICES ASSUME NEW x \in Seq(Pieces), NEW k \in 1 .. Len(s)
               PROVE  x \o Part(kind, s, k) \in Seq(Pieces)
    OBVIOUS
  <2>1. Part(kind, s, k) \in Seq(Pieces)
    BY PartIs
  <2> QED
    BY <2>1, ConcatProperties
<1> HIDE DEF n, S
<1>3. PICK g \in [0 .. n -> S] : FollowsUpTo(g, <<>>, step, n)
  <2>1. step \in [S \X (1 .. n) -> S]
    <3>1. \A x \in S \X (1 .. n) : x[1] \in S /\ x[2] \in 1 .. n
      OBVIOUS
    <3> QED
      BY <1>2, <3>1
  <2> HIDE DEF step
  <2> QED
    BY <1>1, <1>2, <2>1, RecursionUpTo
<1>4. \A k \in 1 .. n : g[k] = g[k - 1] \o Part(kind, s, k)
  <2> SUFFICES ASSUME NEW k \in 1 .. n
               PROVE  g[k] = g[k - 1] \o Part(kind, s, k)
    OBVIOUS
  <2>1. g[k] = step[<<g[k - 1], k>>]
    BY <1>3 DEF FollowsUpTo
  <2>2. k - 1 \in 0 .. n
    BY <1>1
  <2>3. <<g[k - 1], k>> \in S \X (1 .. n)
    BY <2>2
  <2>4. step[<<g[k - 1], k>>] = g[k - 1] \o Part(kind, s, k)
    BY <2>3
  <2> QED
    BY <2>1, <2>4
<1>5. g[0] = <<>>
  BY <1>3 DEF FollowsUpTo
<1>6. Is(g)
  <2>1. \A k \in 0 .. n : g[k] = IF k = 0 THEN <<>> ELSE g[k - 1] \o Part(kind, s, k)
    <3>1. \A k \in 0 .. n : k = 0 \/ (k # 0 /\ k \in 1 .. n)
      BY <1>1
    <3> QED
      BY <1>4, <1>5, <3>1, Zenon
  <2> HIDE DEF step
  <2> QED
    BY <1>3, <2>1, Zenon
<1> DEFINE text == CHOOSE t : Is(t)
<1>7. Is(text)
  BY <1>6
<1>8. \A k \in 0 .. n : Listed(kind, s, k) = text[k]
  BY DEF Listed, n
<1> HIDE DEF text
<1>9. \A k \in 0 .. n : text[k] = IF k = 0 THEN <<>> ELSE text[k - 1] \o Part(kind, s, k)
  BY <1>7
<1>10. text[0] = <<>> /\ 0 \in 0 .. n /\ \A k \in 1 .. n : k \in 0 .. n /\ k - 1 \in 0 .. n /\ k # 0
  BY <1>1, <1>9
<1>11. \A k \in 1 .. n : text[k] = text[k - 1] \o Part(kind, s, k)
  BY <1>9, <1>10
<1> HIDE DEF Is
<1>12. \A k \in 0 .. n : text[k] \in S
  <2> DEFINE P == {k \in 0 .. n : text[k] \in S}
  <2>1. 0 \in P
    BY <1>2, <1>10
  <2>2. \A k \in 1 .. n : k - 1 \in P => k \in P
    BY <1>2, <1>10, <1>11
  <2> HIDE DEF P
  <2>3. \A k \in 0 .. n : k \in P
    BY <1>1, <2>1, <2>2, BoundedInduction
  <2> QED
    BY <2>3 DEF P
<1> QED
  BY <1>8, <1>10, <1>11, <1>12 DEF n, S

\* Their length, item by item.
LEMMA ListedCharsIs ==
  ASSUME NEW kind, NEW s \in Seq(Items)
  PROVE  /\ ListedChars(kind, s, 0) = 0
         /\ \A k \in 1 .. Len(s) :
               ListedChars(kind, s, k) = ListedChars(kind, s, k - 1) + Width(kind, s, k)
         /\ \A k \in 0 .. Len(s) : ListedChars(kind, s, k) \in Nat
<1> DEFINE n == Len(s)
           S == Nat
           step == [x \in S \X (1 .. n) |-> x[1] + Width(kind, s, x[2])]
           Is(g) == g = [k \in 0 .. n |-> IF k = 0 THEN 0 ELSE g[k - 1] + Width(kind, s, k)]
<1>1. n \in Nat
  OBVIOUS
<1>2. 0 \in S /\ \A x \in S, k \in 1 .. n : x + Width(kind, s, k) \in S
  <2> SUFFICES ASSUME NEW x \in Nat, NEW k \in 1 .. Len(s)
               PROVE  x + Width(kind, s, k) \in Nat
    OBVIOUS
  <2>1. Width(kind, s, k) \in Nat
    BY WidthIs
  <2> QED
    BY <2>1
<1> HIDE DEF n, S
<1>3. PICK g \in [0 .. n -> S] : FollowsUpTo(g, 0, step, n)
  <2>1. step \in [S \X (1 .. n) -> S]
    <3>1. \A x \in S \X (1 .. n) : x[1] \in S /\ x[2] \in 1 .. n
      OBVIOUS
    <3> QED
      BY <1>2, <3>1
  <2> HIDE DEF step
  <2> QED
    BY <1>1, <1>2, <2>1, RecursionUpTo
<1>4. \A k \in 1 .. n : g[k] = g[k - 1] + Width(kind, s, k)
  <2> SUFFICES ASSUME NEW k \in 1 .. n
               PROVE  g[k] = g[k - 1] + Width(kind, s, k)
    OBVIOUS
  <2>1. g[k] = step[<<g[k - 1], k>>]
    BY <1>3 DEF FollowsUpTo
  <2>2. k - 1 \in 0 .. n
    BY <1>1
  <2>3. <<g[k - 1], k>> \in S \X (1 .. n)
    BY <2>2
  <2>4. step[<<g[k - 1], k>>] = g[k - 1] + Width(kind, s, k)
    BY <2>3
  <2> QED
    BY <2>1, <2>4
<1>5. g[0] = 0
  BY <1>3 DEF FollowsUpTo
<1>6. Is(g)
  <2>1. \A k \in 0 .. n : g[k] = IF k = 0 THEN 0 ELSE g[k - 1] + Width(kind, s, k)
    <3>1. \A k \in 0 .. n : k = 0 \/ (k # 0 /\ k \in 1 .. n)
      BY <1>1
    <3> QED
      BY <1>4, <1>5, <3>1, Zenon
  <2> HIDE DEF step
  <2> QED
    BY <1>3, <2>1, Zenon
<1> DEFINE chars == CHOOSE t : Is(t)
<1>7. Is(chars)
  BY <1>6
<1>8. \A k \in 0 .. n : ListedChars(kind, s, k) = chars[k]
  BY DEF ListedChars, n
<1> HIDE DEF chars
<1>9. \A k \in 0 .. n : chars[k] = IF k = 0 THEN 0 ELSE chars[k - 1] + Width(kind, s, k)
  BY <1>7
<1>10. chars[0] = 0 /\ 0 \in 0 .. n /\ \A k \in 1 .. n : k \in 0 .. n /\ k - 1 \in 0 .. n /\ k # 0
  BY <1>1, <1>9
<1>11. \A k \in 1 .. n : chars[k] = chars[k - 1] + Width(kind, s, k)
  BY <1>9, <1>10
<1> HIDE DEF Is
<1>12. \A k \in 0 .. n : chars[k] \in S
  <2> DEFINE P == {k \in 0 .. n : chars[k] \in S}
  <2>1. 0 \in P
    BY <1>2, <1>10
  <2>2. \A k \in 1 .. n : k - 1 \in P => k \in P
    BY <1>2, <1>10, <1>11
  <2> HIDE DEF P
  <2>3. \A k \in 0 .. n : k \in P
    BY <1>1, <2>1, <2>2, BoundedInduction
  <2> QED
    BY <2>3 DEF P
<1> QED
  BY <1>8, <1>10, <1>11, <1>12 DEF n, S

\* The text only grows.
LEMMA TextGrows ==
  ASSUME NEW kind, NEW s \in Seq(Items), NEW k \in 0 .. Len(s)
  PROVE  ListedChars(kind, s, k) <= ListedChars(kind, s, Len(s))
<1> DEFINE n == Len(s)
           P == {m \in 0 .. n : k <= m => ListedChars(kind, s, k) <= ListedChars(kind, s, m)}
<1>1. n \in Nat /\ \A m \in 0 .. n : ListedChars(kind, s, m) \in Nat
  <2>1. n \in Nat
    OBVIOUS
  <2> QED
    BY <2>1, ListedCharsIs, Zenon
<1>2. 0 \in P
  BY <1>1
<1>3. ASSUME NEW m \in 1 .. n, m - 1 \in P
      PROVE  m \in P
  <2>1. ListedChars(kind, s, m) = ListedChars(kind, s, m - 1) + Width(kind, s, m)
    BY ListedCharsIs
  <2>2. Width(kind, s, m) \in Nat
    BY WidthIs
  <2>3. m \in 0 .. n /\ m - 1 \in 0 .. n /\ (k <= m => k = m \/ k <= m - 1)
    BY <1>1
  <2>4. k <= m - 1 => ListedChars(kind, s, k) <= ListedChars(kind, s, m - 1)
    BY <1>3
  <2>5. ListedChars(kind, s, k) \in Nat /\ ListedChars(kind, s, m - 1) \in Nat
    BY <1>1, <2>3
  <2> HIDE DEF n
  <2> QED
    BY <2>1, <2>2, <2>3, <2>4, <2>5
<1> HIDE DEF P
<1>4. \A m \in 0 .. n : m \in P
  BY <1>1, <1>2, <1>3, BoundedInduction
<1>5. n \in P
  BY <1>1, <1>4
<1> QED
  BY <1>1, <1>5 DEF P

\* Before the first item that belongs in it there is none.
LEMMA NothingYet ==
  ASSUME NEW kind, NEW s \in Seq(Items), NEW i \in 1 .. Len(s) + 1, NoneBefore(kind, s, i)
  PROVE  ListedChars(kind, s, i - 1) = 0
<1> DEFINE n == i - 1
           P == {m \in 0 .. n : ListedChars(kind, s, m) = 0}
<1>1. n \in Nat /\ n <= Len(s)
  OBVIOUS
<1>2. 0 \in P
  BY <1>1, ListedCharsIs
<1>3. ASSUME NEW m \in 1 .. n, m - 1 \in P
      PROVE  m \in P
  <2>1. m \in 1 .. Len(s) /\ m \in 0 .. n
    BY <1>1
  <2>2. ListedChars(kind, s, m) = ListedChars(kind, s, m - 1) + Width(kind, s, m)
    BY <2>1, ListedCharsIs
  <2>3. ~InText(kind, s[m])
    BY <2>1 DEF NoneBefore
  <2>4. Width(kind, s, m) = 0
    BY <2>3 DEF Width
  <2>5. ListedChars(kind, s, m - 1) = 0
    BY <1>3
  <2> HIDE DEF n
  <2> QED
    BY <2>1, <2>2, <2>4, <2>5
<1> HIDE DEF P
<1>4. \A m \in 0 .. n : m \in P
  BY <1>1, <1>2, <1>3, BoundedInduction
<1>5. n \in P
  BY <1>1, <1>4
<1> QED
  BY <1>5 DEF P

\* One item more.
LEMMA OneMore ==
  ASSUME NEW kind, NEW s \in Seq(Items), NEW i \in 1 .. Len(s)
  PROVE  NoneBefore(kind, s, i + 1) <=> NoneBefore(kind, s, i) /\ ~InText(kind, s[i])
<1>1. i \in Nat /\ (i + 1) - 1 = i /\ \A j \in 1 .. i : j = i \/ j \in 1 .. i - 1
  OBVIOUS
<1>2. i \in 1 .. i /\ \A j \in 1 .. i - 1 : j \in 1 .. i
  OBVIOUS
<1> QED
  BY <1>1, <1>2, Zenon DEF NoneBefore

-----------------------------------------------------------------------------
(* The text that is returned is the whole text *)

\* Two pieces after each other.
LEMMA Pair ==
  ASSUME NEW T, NEW c \in T, NEW p \in T
  PROVE  <<c, p>> = <<c>> \o <<p>>
<1>1. <<c>> \in Seq(T) /\ <<p>> \in Seq(T) /\ <<c, p>> \in Seq(T)
  OBVIOUS
<1>2. Len(<<c>>) = 1 /\ Len(<<p>>) = 1 /\ Len(<<c, p>>) = 2 /\ <<c>>[1] = c /\ <<p>>[1] = p
  OBVIOUS
<1>3. /\ <<c>> \o <<p>> \in Seq(T)
      /\ Len(<<c>> \o <<p>>) = 2
      /\ (<<c>> \o <<p>>)[1] = c /\ (<<c>> \o <<p>>)[2] = p
  BY <1>1, <1>2, ConcatProperties
<1>4. \A i \in 1 .. 2 : <<c, p>>[i] = (<<c>> \o <<p>>)[i]
  <2>1. \A i \in 1 .. 2 : i = 1 \/ i = 2
    OBVIOUS
  <2>2. <<c, p>>[1] = c /\ <<c, p>>[2] = p
    OBVIOUS
  <2> QED
    BY <1>3, <2>1, <2>2
<1> QED
  BY <1>1, <1>2, <1>3, <1>4, SeqEqual

\* How the pieces of one item join the text x.
LEMMA Joined ==
  ASSUME NEW T, NEW x \in Seq(T), NEW c \in T, NEW p \in T, NEW q \in T
  PROVE  /\ x \o <<p>> = x \o (<<>> \o <<p>>)
         /\ x \o <<c, p>> = x \o (<<c>> \o <<p>>)
         /\ (x \o <<p>>) \o <<q>> = x \o (<<>> \o <<p, q>>)
         /\ ((x \o <<c>>) \o <<p>>) \o <<q>> = x \o (<<c>> \o <<p, q>>)
<1>1. \A u, v, w \in Seq(T) : (u \o v) \o w = u \o (v \o w)
  BY ConcatAssociative
<1>2. \A u \in Seq(T) : <<>> \o u = u
  BY ConcatEmptySeq
<1>3. <<p>> \in Seq(T) /\ <<q>> \in Seq(T) /\ <<c>> \in Seq(T) /\ <<p, q>> \in Seq(T)
  OBVIOUS
<1>4. <<c, p>> = <<c>> \o <<p>> /\ <<p, q>> = <<p>> \o <<q>>
  BY Pair
<1>5. <<>> \o <<p>> = <<p>> /\ <<>> \o <<p, q>> = <<p, q>>
  BY <1>2, <1>3
<1>6. (x \o <<p>>) \o <<q>> = x \o <<p, q>>
  BY <1>1, <1>3, <1>4
<1>7. ((x \o <<c>>) \o <<p>>) \o <<q>> = x \o (<<c>> \o <<p, q>>)
  <2>1. x \o <<c>> \in Seq(T)
    BY <1>3, ConcatProperties
  <2>2. ((x \o <<c>>) \o <<p>>) \o <<q>> = (x \o <<c>>) \o (<<p>> \o <<q>>)
    BY <1>1, <1>3, <2>1
  <2>3. (x \o <<c>>) \o <<p, q>> = x \o (<<c>> \o <<p, q>>)
    BY <1>1, <1>3
  <2> QED
    BY <1>4, <2>1, <2>2, <2>3
<1> QED
  BY <1>4, <1>5, <1>6, <1>7

\* Four pieces in a row.
LEMMA Four ==
  ASSUME NEW T, NEW a \in T, NEW b \in T, NEW c \in T, NEW d \in T
  PROVE  (<<a>> \o <<b, c>>) \o <<d>> = <<a, b, c, d>>
<1> DEFINE u == <<a>> \o <<b, c>>
<1>1. /\ <<a>> \in Seq(T) /\ <<b, c>> \in Seq(T) /\ <<d>> \in Seq(T) /\ <<a, b, c, d>> \in Seq(T)
  OBVIOUS
<1>2. /\ Len(<<a>>) = 1 /\ <<a>>[1] = a /\ Len(<<d>>) = 1 /\ <<d>>[1] = d
      /\ Len(<<b, c>>) = 2 /\ <<b, c>>[1] = b /\ <<b, c>>[2] = c
  OBVIOUS
<1>3. u \in Seq(T) /\ Len(u) = 3 /\ u[1] = a /\ u[2] = b /\ u[3] = c
  BY <1>1, <1>2, ConcatProperties
<1> DEFINE v == <<d>>
<1>4. v \in Seq(T) /\ Len(v) = 1 /\ v[1] = d
  BY <1>1, <1>2
<1> HIDE DEF u, v
<1>5. /\ u \o v \in Seq(T) /\ Len(u \o v) = 4
      /\ (u \o v)[1] = a /\ (u \o v)[2] = b /\ (u \o v)[3] = c /\ (u \o v)[4] = d
  <2> DEFINE w == u \o v
  <2>1. /\ w \in Seq(T) /\ Len(w) = Len(u) + Len(v)
        /\ \A i \in 1 .. Len(u) + Len(v) : w[i] = IF i <= Len(u) THEN u[i] ELSE v[i - Len(u)]
    BY <1>3, <1>4, ConcatProperties
  <2> HIDE DEF w
  <2>2. Len(w) = 4 /\ w[1] = a /\ w[2] = b /\ w[3] = c /\ w[4] = d
    BY <1>3, <1>4, <2>1
  <2> QED
    BY <2>1, <2>2 DEF w
<1>6. /\ Len(<<a, b, c, d>>) = 4 /\ <<a, b, c, d>>[1] = a /\ <<a, b, c, d>>[2] = b
      /\ <<a, b, c, d>>[3] = c /\ <<a, b, c, d>>[4] = d
  OBVIOUS
<1>7. \A i \in 1 .. 4 : i = 1 \/ i = 2 \/ i = 3 \/ i = 4
  OBVIOUS
<1>8. \A i \in 1 .. 4 : (u \o v)[i] = <<a, b, c, d>>[i]
  BY <1>5, <1>6, <1>7
<1>9. u \o v = <<a, b, c, d>>
  <2> DEFINE y == u \o v
             z == <<a, b, c, d>>
  <2>1. /\ y \in Seq(T) /\ z \in Seq(T) /\ Len(y) = 4 /\ Len(z) = 4
        /\ \A i \in 1 .. 4 : y[i] = z[i]
    BY <1>1, <1>5, <1>6, <1>8, Zenon
  <2> HIDE DEF y, z
  <2>2. y = z
    BY ONLY <2>1, SeqEqual
  <2> QED
    BY <2>2 DEF y, z
<1> QED
  BY <1>9 DEF u, v

\* What an snprintf and its test do to the text.
LEMMA SnprintfWrites ==
  ASSUME NEW o, NEW pieces, NEW w
  PROVE  /\ Snprintf(o, pieces, w).ok =>
               /\ o.ok /\ w < room - o.offset
               /\ Snprintf(o, pieces, w).text = o.text \o pieces
               /\ Snprintf(o, pieces, w).offset = o.offset + w
         /\ ~Snprintf(o, pieces, w).ok => ~o.ok \/ ~(w < room - o.offset)
<1>1. CASE o.ok /\ w < room - o.offset
  BY <1>1 DEF Snprintf, Halted
<1>2. CASE ~(o.ok /\ w < room - o.offset)
  <2>1. Snprintf(o, pieces, w) = Halted(o, IF o.ok THEN room ELSE o.top)
    BY <1>2 DEF Snprintf
  <2> QED
    BY <1>2, <2>1 DEF Halted
<1> QED
  BY <1>1, <1>2

\* What the invariant says of an encoder in its loop, in numbers.
LEMMA LoopFacts ==
  ASSUME BufferInv, SoFar
  PROVE  /\ room \in Nat /\ out.offset \in Nat /\ out.ok \in BOOLEAN /\ Sound(out)
         /\ Len(items) \in Nat /\ next \in Nat /\ next - 1 \in 0 .. Len(items)
         /\ items \in Seq(Items)
         /\ Opened \in Seq(Pieces) /\ Len(Opened) \in Nat /\ Len(Opened) <= 1
         /\ job # "instance" => Opened = <<>> /\ Len(Opened) = 0
         /\ job = "instance" => Opened = <<Open>> /\ Len(Opened) = 1
         /\ \A k \in 0 .. Len(items) : /\ ListedChars(job, items, k) \in Nat
                                       /\ ListedChars(job, items, k) <= Length
         /\ job # "link" => ListedChars(job, items, Len(items)) + 2 = Length
<1>1. /\ room \in Nat /\ out.offset \in Nat /\ out.ok \in BOOLEAN
      /\ items \in Seq(Items)
  BY DEF BufferInv
<1>2. Sound(out)
  BY DEF BufferInv, Sound, WithinBuffer
<1>3. Len(items) \in Nat /\ next \in 1 .. Len(items) + 1
  BY <1>1 DEF SoFar
<1>4. next \in Nat /\ next - 1 \in 0 .. Len(items)
  BY <1>3
<1>5. Open \in Pieces
  BY DEF Pieces
<1>6. /\ Opened \in Seq(Pieces) /\ Len(Opened) \in Nat /\ Len(Opened) <= 1
      /\ job # "instance" => Opened = <<>> /\ Len(Opened) = 0
      /\ job = "instance" => Opened = <<Open>> /\ Len(Opened) = 1
  BY <1>5 DEF Opened
<1>7. \A k \in 0 .. Len(items) :
         /\ ListedChars(job, items, k) \in Nat
         /\ ListedChars(job, items, k) <= ListedChars(job, items, Len(items))
  BY <1>1, ListedCharsIs, TextGrows
<1>8. Len(items) \in 0 .. Len(items)
  BY <1>3
<1>9. ListedChars(job, items, Len(items)) \in Nat
  BY <1>7, <1>8
<1>10. /\ ListedChars(job, items, Len(items)) <= Length
       /\ Length \in Nat
       /\ job # "link" => ListedChars(job, items, Len(items)) + 2 = Length
  BY <1>9 DEF Length
<1>11. \A k \in 0 .. Len(items) : ListedChars(job, items, k) <= Length
  BY <1>7, <1>9, <1>10
<1> QED
  BY <1>1, <1>2, <1>3, <1>4, <1>6, <1>7, <1>10, <1>11

\* A pass of a loop that writes an item: its part of the text, or none for a reason.
LEMMA PassStep ==
  ASSUME BufferInv, SoFar, phase = "writing", next <= Len(items), job # "single",
         InText(job, items[next]),
         NEW o, Goes(o, "writing"), first' = FALSE, next' = next + 1,
         job' = job, items' = items, room' = room,
         o.ok => /\ o.text = out.text \o Part(job, items, next)
                 /\ o.offset = out.offset + Width(job, items, next)
                 /\ o.offset < room
                 /\ job = "link" \/ Encodable(items[next]),
         ~o.ok => \/ out.offset + Width(job, items, next) >= room
                  \/ job # "link" /\ ~Encodable(items[next])
  PROVE  SoFar' /\ Complete' /\ FailsExactly'
<1> DEFINE n == Len(items)
           W == Width(job, items, next)
           before == ListedChars(job, items, next - 1)
           after == ListedChars(job, items, next)
<1>1. /\ n \in Nat /\ next \in 1 .. n /\ next \in 0 .. n /\ next - 1 \in 0 .. n
      /\ next + 1 \in 1 .. n + 1 /\ (next + 1) - 1 = next
      /\ room \in Nat /\ items \in Seq(Items)
      /\ out.offset \in Nat /\ Opened \in Seq(Pieces) /\ Len(Opened) \in Nat
  <2>1. /\ room \in Nat /\ out.offset \in Nat /\ items \in Seq(Items)
        /\ Len(items) \in Nat /\ next \in Nat /\ next - 1 \in 0 .. Len(items)
        /\ Opened \in Seq(Pieces) /\ Len(Opened) \in Nat
    BY LoopFacts, Zenon
  <2> QED
    BY <2>1
<1>2. after = before + W /\ W \in Nat /\ before \in Nat /\ after \in Nat
  BY <1>1, ListedCharsIs, WidthIs
<1>3. Listed(job, items, next) = Listed(job, items, next - 1) \o Part(job, items, next)
  BY <1>1, ListedIs
<1>4. out.text = Opened \o Listed(job, items, next - 1) /\ out.offset = Len(Opened) + before
  BY DEF SoFar
<1>5. ~NoneBefore(job, items, next + 1)
  BY <1>1, OneMore
<1>6. out' = o /\ phase' = IF o.ok THEN "writing" ELSE "failed"
  BY DEF Goes
<1>7. CASE o.ok
  <2>1. o.text = Opened \o Listed(job, items, next)
    <3>1. /\ Listed(job, items, next - 1) \in Seq(Pieces)
          /\ Part(job, items, next) \in Seq(Pieces)
      BY <1>1, ListedIs, PartIs
    <3>2. (Opened \o Listed(job, items, next - 1)) \o Part(job, items, next)
              = Opened \o (Listed(job, items, next - 1) \o Part(job, items, next))
      <4>1. Opened \in Seq(Pieces)
        BY <1>1, Zenon
      <4>2. \A x, y, z \in Seq(Pieces) : (x \o y) \o z = x \o (y \o z)
        BY ONLY ConcatAssociative
      <4> QED
        BY ONLY <3>1, <4>1, <4>2, Zenon
    <3> QED
      BY <1>3, <1>4, <1>7, <3>2
  <2>2. o.offset = Len(Opened) + after
    BY <1>1, <1>2, <1>4, <1>7
  <2>3. job = "link" \/ \A i \in 1 .. next : InText(job, items[i]) => Encodable(items[i])
    <3>1. \A i \in 1 .. next : i = next \/ i \in 1 .. next - 1
      BY <1>1
    <3> QED
      BY <1>7, <3>1 DEF SoFar
  <2>4. phase' = "writing" /\ out'.ok
    BY <1>6, <1>7
  <2> HIDE DEF n, W, before
  <2>5. SoFar'
    <3>1. Opened' = Opened
      BY DEF Opened
    <3>2. /\ next' \in 1 .. Len(items') + 1 /\ (job' = "single" => next' = 1)
          /\ next' - 1 = next /\ out'.offset < room'
      BY <1>1, <1>6, <1>7 DEF n
    <3>3. out'.text = Opened' \o Listed(job', items', next' - 1)
      BY <1>6, <2>1, <3>1, <3>2
    <3>4. out'.offset = Len(Opened') + ListedChars(job', items', next' - 1)
      BY <1>6, <2>2, <3>1, <3>2
    <3>5. first' = NoneBefore(job', items', next')
      <4>1. NoneBefore(job, items, next + 1) \in BOOLEAN
        BY DEF NoneBefore
      <4> QED
        BY <1>5, <4>1, Zenon
    <3>6. job' = "link" \/ \A i \in 1 .. next' - 1 : InText(job', items'[i]) => Encodable(items'[i])
      BY <2>3, <3>2
    <3>7. phase' # "opening"
      BY <2>4
    <3> QED
      BY <2>4, <3>2, <3>3, <3>4, <3>5, <3>6, <3>7, Zenon DEF SoFar
  <2>6. Complete' /\ FailsExactly'
    BY <2>4 DEF Complete, FailsExactly
  <2> QED
    BY <2>5, <2>6
<1>8. CASE ~o.ok
  <2>1. phase' = "failed"
    BY <1>6, <1>8
  <2>2. ~AllEncodable \/ Length >= room
    <3>1. CASE out.offset + W >= room
      <4>1. Len(Opened) + after >= room
        BY <1>1, <1>2, <1>4, <3>1
      <4>2. after <= ListedChars(job, items, n) /\ ListedChars(job, items, n) \in Nat
        <5>1. n \in 0 .. n
          BY <1>1
        <5> QED
          BY <1>1, <5>1, TextGrows, ListedCharsIs
      <4>3. Len(Opened) + ListedChars(job, items, n) <= Length
        <5>1. Len(Opened) \in Nat /\ Len(Opened) <= 1 /\ (job = "link" => Len(Opened) = 0)
          BY LoopFacts
        <5>2. CASE job = "link"
          <6>1. Length = ListedChars(job, items, n) + 0
            BY <5>2 DEF Length
          <6> HIDE DEF n
          <6> QED
            BY <4>2, <5>1, <5>2, <6>1
        <5>3. CASE job # "link"
          <6>1. Length = ListedChars(job, items, n) + 2
            BY <5>3 DEF Length
          <6> HIDE DEF n
          <6> QED
            BY <4>2, <5>1, <6>1
        <5> QED
          BY <5>2, <5>3
      <4>4. Length \in Nat
        BY <4>2 DEF Length
      <4>5. room \in Nat /\ Len(Opened) \in Nat /\ after \in Nat
        BY <1>1, <1>2, LoopFacts
      <4> HIDE DEF n, after
      <4> QED
        BY ONLY <4>1, <4>2, <4>3, <4>4, <4>5
    <3>2. CASE job # "link" /\ ~Encodable(items[next])
      <4>1. next \in DOMAIN items
        BY <1>1
      <4> QED
        BY <3>2, <4>1 DEF AllEncodable
    <3> QED
      BY <1>8, <3>1, <3>2
  <2> HIDE DEF n, W, before, after
  <2>3. AllEncodable' = AllEncodable /\ Length' = Length
    BY DEF AllEncodable, Length
  <2>4. FailsExactly' /\ Complete'
    BY <2>1, <2>2, <2>3 DEF FailsExactly, Complete
  <2>5. SoFar'
    BY <1>1, <2>1 DEF SoFar, n
  <2> QED
    BY <2>4, <2>5
<1> QED
  BY <1>7, <1>8

\* Nothing is written at first.
LEMMA TextInit == Init => TextInv
<1> SUFFICES ASSUME Init PROVE TextInv
  OBVIOUS
<1>1. BufferInv
  BY BufferInit
<1>2. /\ items \in Seq(Items) /\ Len(items) \in Nat /\ next = 1 /\ first = TRUE /\ out = Blank
      /\ room \in Nat \ {0}
      /\ phase = IF job = "instance" THEN "opening" ELSE "writing"
  BY <1>1 DEF Init, BufferInv
<1>3. next \in 1 .. Len(items) + 1 /\ next - 1 = 0 /\ 1 .. next - 1 = {}
  BY <1>2
<1>4. Listed(job, items, next - 1) = <<>> /\ ListedChars(job, items, next - 1) = 0
  BY <1>2, <1>3, ListedIs, ListedCharsIs
<1>5. NoneBefore(job, items, next) = TRUE
  BY <1>3, Zenon DEF NoneBefore
<1>6. phase = "writing" => Opened = <<>> /\ Len(Opened) = 0 /\ <<>> \o <<>> = <<>>
  BY <1>2 DEF Opened
<1>7. out.text = <<>> /\ out.offset = 0 /\ out.ok = TRUE
  BY <1>2 DEF Blank
<1>8. phase = "writing" =>
          /\ first = NoneBefore(job, items, next)
          /\ out.text = Opened \o Listed(job, items, next - 1)
          /\ out.offset = Len(Opened) + ListedChars(job, items, next - 1)
          /\ job = "link" \/ \A i \in 1 .. next - 1 : InText(job, items[i]) => Encodable(items[i])
          /\ out.offset < room
  <2>1. first = NoneBefore(job, items, next)
    BY <1>2, <1>5, Zenon
  <2>2. \A i \in 1 .. next - 1 : InText(job, items[i]) => Encodable(items[i])
    BY <1>3
  <2>3. phase = "writing" => out.text = Opened \o Listed(job, items, next - 1)
    BY <1>4, <1>6, <1>7
  <2>4. phase = "writing" => out.offset = Len(Opened) + ListedChars(job, items, next - 1)
    BY <1>4, <1>6, <1>7
  <2>5. out.offset < room
    BY <1>2, <1>7
  <2> QED
    BY <2>1, <2>2, <2>3, <2>4, <2>5, Zenon
<1>9. SoFar
  BY <1>2, <1>3, <1>7, <1>8 DEF SoFar
<1>10. phase # "done" /\ phase # "failed"
  BY <1>2
<1> QED
  BY <1>1, <1>9, <1>10 DEF TextInv, Complete, FailsExactly

\* The opening bracket.
LEMMA BeginStep ==
  ASSUME TextInv, Begin
  PROVE  SoFar' /\ Complete' /\ FailsExactly'
<1> DEFINE o == IF room < 2 THEN Refuse(out) ELSE Store(out, Open)
<1>1. BufferInv /\ SoFar
  BY DEF TextInv
<1>2. /\ phase = "opening" /\ job = "instance" /\ out = Blank /\ next = 1 /\ first
      /\ Goes(o, "writing")
      /\ job' = job /\ items' = items /\ room' = room /\ next' = next /\ first' = first
  BY <1>1 DEF Begin, BufferInv, SoFar
<1>3. /\ room \in Nat /\ items \in Seq(Items) /\ Len(items) \in Nat
      /\ Opened = <<Open>> /\ Len(Opened) = 1 /\ next \in 1 .. Len(items) + 1
      /\ ListedChars(job, items, Len(items)) + 2 = Length
      /\ ListedChars(job, items, Len(items)) \in Nat
  <2>1. Len(items) \in 0 .. Len(items) /\ next \in 1 .. Len(items) + 1
    BY <1>1, <1>2, LoopFacts
  <2> QED
    BY <1>1, <1>2, <2>1, LoopFacts
<1>4. CASE room < 2
  <2>1. o = Refuse(out) /\ ~o.ok
    BY <1>4 DEF Refuse, Halted
  <2> HIDE DEF o
  <2>2. phase' = "failed"
    BY <1>2, <2>1 DEF Goes
  <2>3. Length >= room
    BY <1>3, <1>4
  <2>4. Length' = Length
    BY <1>2 DEF Length
  <2>5. FailsExactly' /\ Complete'
    BY <1>2, <2>2, <2>3, <2>4 DEF FailsExactly, Complete
  <2>6. SoFar'
    BY <1>2, <1>3, <2>2 DEF SoFar
  <2> QED
    BY <2>5, <2>6
<1>5. CASE ~(room < 2)
  <2>1. o = [ok |-> TRUE, text |-> <<Open>>, offset |-> 1, top |-> 1]
    <3>1. Append(<<>>, Open) = <<Open>>
      OBVIOUS
    <3> QED
      BY <1>2, <1>3, <1>5, <3>1 DEF Store, Blank
  <2> HIDE DEF o
  <2>2. phase' = "writing" /\ out' = o /\ o.ok /\ o.text = <<Open>> /\ o.offset = 1
    BY <1>2, <2>1 DEF Goes
  <2>3. next' - 1 = 0 /\ 1 .. next' - 1 = {}
    BY <1>2
  <2>4. Listed(job', items', next' - 1) = <<>> /\ ListedChars(job', items', next' - 1) = 0
    BY <1>2, <1>3, <2>3, ListedIs, ListedCharsIs
  <2>5. NoneBefore(job', items', next') = TRUE /\ first' = TRUE
    <3>1. first' = TRUE
      BY <1>2
    <3>2. NoneBefore(job', items', next')
      BY <2>3, Zenon DEF NoneBefore
    <3>3. NoneBefore(job', items', next') \in BOOLEAN
      BY Zenon DEF NoneBefore
    <3> QED
      BY <3>1, <3>2, <3>3, Zenon
  <2>6. Opened' = <<Open>> /\ <<Open>> \o <<>> = <<Open>> /\ Len(<<Open>>) = 1
    BY <1>2 DEF Opened
  <2>7. SoFar'
    <3>1. next' \in 1 .. Len(items') + 1 /\ (job' = "single" => next' = 1) /\ out'.offset < room'
      BY <1>2, <1>3, <1>5, <2>2
    <3>2. out'.text = Opened' \o Listed(job', items', next' - 1)
      BY <2>2, <2>4, <2>6
    <3>3. out'.offset = Len(Opened') + ListedChars(job', items', next' - 1)
      BY <2>2, <2>4, <2>6
    <3>4. phase' # "opening" /\ out'.ok
      BY <2>2
    <3>5. \A i \in 1 .. next' - 1 : InText(job', items'[i]) => Encodable(items'[i])
      BY <2>3
    <3> QED
      BY <2>5, <3>1, <3>2, <3>3, <3>4, <3>5, Zenon DEF SoFar
  <2>8. Complete' /\ FailsExactly'
    BY <2>2 DEF Complete, FailsExactly
  <2> QED
    BY <2>7, <2>8
<1> QED
  BY <1>4, <1>5

\* An item that is passed over leaves the text as it was, and the comma too.
LEMMA SkipStep ==
  ASSUME TextInv, Skip
  PROVE  SoFar' /\ Complete' /\ FailsExactly'
<1>1. BufferInv /\ SoFar
  BY DEF TextInv
<1>2. /\ phase = "writing" /\ job # "single" /\ next <= Len(items) /\ ~items[next].readable
      /\ next' = next + 1 /\ job' = job /\ items' = items /\ room' = room
      /\ first' = first /\ out' = out /\ phase' = phase
  BY DEF Skip, Pending
<1>3. /\ items \in Seq(Items) /\ Len(items) \in Nat /\ next \in Nat
      /\ next \in 1 .. Len(items) /\ next - 1 \in 0 .. Len(items)
      /\ next' - 1 = next /\ next' \in 1 .. Len(items) + 1
  <2>1. /\ items \in Seq(Items) /\ Len(items) \in Nat /\ next \in Nat
        /\ next - 1 \in 0 .. Len(items)
    BY <1>1, LoopFacts, Zenon
  <2> QED
    BY <1>2, <2>1
<1>4. ~InText(job, items[next])
  BY <1>2 DEF InText
<1>5. Listed(job, items, next) = Listed(job, items, next - 1)
  <2>1. Part(job, items, next) = <<>>
    BY <1>3, <1>4, PartOf
  <2>2. Listed(job, items, next - 1) \in Seq(Pieces)
    BY <1>3, ListedIs
  <2>3. Listed(job, items, next - 1) \o <<>> = Listed(job, items, next - 1)
    BY <2>2, ConcatEmptySeq
  <2>4. Listed(job, items, next) = Listed(job, items, next - 1) \o Part(job, items, next)
    BY <1>3, ListedIs
  <2> QED
    BY <2>1, <2>3, <2>4
<1>6. ListedChars(job, items, next) = ListedChars(job, items, next - 1)
  <2>1. Width(job, items, next) = 0
    BY <1>4 DEF Width
  <2>2. ListedChars(job, items, next - 1) \in Nat
    BY <1>3, ListedCharsIs
  <2>3. ListedChars(job, items, next) = ListedChars(job, items, next - 1) + Width(job, items, next)
    BY <1>3, ListedCharsIs
  <2> QED
    BY <2>1, <2>2, <2>3
<1>7. NoneBefore(job, items, next + 1) = NoneBefore(job, items, next)
  <2>1. NoneBefore(job, items, next + 1) \in BOOLEAN /\ NoneBefore(job, items, next) \in BOOLEAN
    BY Zenon DEF NoneBefore
  <2>2. NoneBefore(job, items, next + 1) <=> NoneBefore(job, items, next)
    BY <1>3, <1>4, OneMore
  <2> QED
    BY <2>1, <2>2
<1>8. SoFar'
  <2>1. /\ first = NoneBefore(job, items, next)
        /\ out.text = Opened \o Listed(job, items, next - 1)
        /\ out.offset = Len(Opened) + ListedChars(job, items, next - 1)
        /\ job = "link" \/ \A i \in 1 .. next - 1 : InText(job, items[i]) => Encodable(items[i])
        /\ out.offset < room /\ out.ok
    BY <1>1, <1>2 DEF SoFar
  <2>2. job = "link" \/ \A i \in 1 .. next : InText(job, items[i]) => Encodable(items[i])
    <3>1. \A i \in 1 .. next : i = next \/ i \in 1 .. next - 1
      BY <1>3
    <3> QED
      BY <1>4, <2>1, <3>1
  <2>3. Opened' = Opened
    BY <1>2 DEF Opened
  <2>4. first' = NoneBefore(job', items', next')
    BY <1>2, <1>7, <2>1, Zenon
  <2>5. out'.text = Opened' \o Listed(job', items', next' - 1)
    BY <1>2, <1>3, <1>5, <2>1, <2>3
  <2>6. out'.offset = Len(Opened') + ListedChars(job', items', next' - 1)
    BY <1>2, <1>3, <1>6, <2>1, <2>3
  <2>7. job' = "link" \/ \A i \in 1 .. next' - 1 : InText(job', items'[i]) => Encodable(items'[i])
    BY <1>2, <1>3, <2>2
  <2>8. /\ next' \in 1 .. Len(items') + 1 /\ (job' = "single" => next' = 1)
        /\ phase' # "opening" /\ out'.ok /\ out'.offset < room'
    BY <1>2, <1>3, <2>1
  <2> QED
    BY <2>4, <2>5, <2>6, <2>7, <2>8, Zenon DEF SoFar
<1>9. Complete' /\ FailsExactly'
  BY <1>2 DEF Complete, FailsExactly
<1> QED
  BY <1>8, <1>9

\* Facts of a pass that writes an item.
LEMMA PassFacts ==
  ASSUME TextInv, Pending, items[next].readable
  PROVE  /\ BufferInv /\ SoFar /\ phase = "writing" /\ job # "single"
         /\ items \in Seq(Items) /\ next \in 1 .. Len(items) /\ next <= Len(items)
         /\ items[next] \in Items /\ InText(job, items[next])
         /\ room \in Nat /\ out.offset \in Nat /\ out.ok /\ out.offset < room
         /\ out.text \in Seq(Pieces)
         /\ first <=> NoneBefore(job, items, next)
<1>1. BufferInv /\ SoFar /\ phase = "writing" /\ job # "single" /\ next <= Len(items)
  BY DEF TextInv, Pending
<1>2. /\ items \in Seq(Items) /\ Len(items) \in Nat /\ next \in 1 .. Len(items)
      /\ next - 1 \in 0 .. Len(items) /\ room \in Nat /\ out.offset \in Nat
      /\ Opened \in Seq(Pieces)
  BY <1>1, LoopFacts
<1>3. items[next] \in Items
  BY <1>2
<1>4. InText(job, items[next])
  BY DEF InText
<1>5. /\ first = NoneBefore(job, items, next)
      /\ out.text = Opened \o Listed(job, items, next - 1)
      /\ out.offset < room /\ out.ok
  BY <1>1 DEF SoFar
<1>6. Listed(job, items, next - 1) \in Seq(Pieces)
  BY <1>2, ListedIs
<1>7. out.text \in Seq(Pieces)
  BY <1>2, <1>5, <1>6, ConcatProperties
<1>8. first <=> NoneBefore(job, items, next)
  BY <1>5, Zenon
<1> QED
  BY <1>1, <1>2, <1>3, <1>4, <1>5, <1>7, <1>8

\* An instance of an object in the link-format payload.
LEMMA LinkStep ==
  ASSUME TextInv, WriteLink
  PROVE  SoFar' /\ Complete' /\ FailsExactly'
<1> DEFINE r == items[next]
           o == IF first THEN Snprintf(out, <<Link(r)>>, LinkChars(r))
                ELSE Snprintf(out, <<Comma, Link(r)>>, 1 + LinkChars(r))
<1>1. Pending /\ job = "link" /\ r.readable
  BY DEF WriteLink
<1>2. /\ Goes(o, "writing") /\ first' = FALSE /\ next' = next + 1
      /\ job' = job /\ items' = items /\ room' = room
  BY DEF WriteLink
<1>3. /\ BufferInv /\ SoFar /\ phase = "writing" /\ job # "single"
      /\ items \in Seq(Items) /\ next \in 1 .. Len(items) /\ next <= Len(items)
      /\ r \in Items /\ InText(job, r)
      /\ room \in Nat /\ out.offset \in Nat /\ out.ok /\ out.offset < room
      /\ out.text \in Seq(Pieces)
      /\ first <=> NoneBefore(job, items, next)
  BY <1>1, PassFacts
<1>4. LinkChars(r) \in Nat
  BY <1>3, WidthFacts
<1>5. Comma \in Pieces /\ Link(r) \in Pieces
  BY <1>3, Zenon DEF Pieces
<1>6. /\ Part(job, items, next) = (IF NoneBefore(job, items, next) THEN <<>> ELSE <<Comma>>)
                                      \o <<Link(r)>>
      /\ Width(job, items, next) = (IF NoneBefore(job, items, next) THEN 0 ELSE 1) + LinkChars(r)
  <2>1. Width(job, items, next) = (IF NoneBefore(job, items, next) THEN 0 ELSE 1) + LinkChars(r)
    BY <1>1, <1>3, Zenon DEF Width
  <2> QED
    BY <1>1, <1>3, <2>1, PartOf
<1>7. /\ out.text \o <<Link(r)>> = out.text \o (<<>> \o <<Link(r)>>)
      /\ out.text \o <<Comma, Link(r)>> = out.text \o (<<Comma>> \o <<Link(r)>>)
  <2>1. out.text \in Seq(Pieces) /\ Comma \in Pieces /\ Link(r) \in Pieces
    BY <1>3, <1>5, Zenon
  <2> QED
    BY ONLY <2>1, Joined
<1>8. room \in Nat /\ out.offset \in Nat /\ out.ok /\ LinkChars(r) \in Nat
  BY <1>3, <1>4
<1> DEFINE Written(x) ==
               /\ x.ok => /\ x.text = out.text \o Part(job, items, next)
                          /\ x.offset = out.offset + Width(job, items, next)
                          /\ x.offset < room
               /\ ~x.ok => out.offset + Width(job, items, next) >= room
<1>9. ASSUME first PROVE Written(o)
  <2> DEFINE x == Snprintf(out, <<Link(r)>>, LinkChars(r))
  <2>1. /\ x.ok => LinkChars(r) < room - out.offset /\ x.offset = out.offset + LinkChars(r)
        /\ ~x.ok => ~out.ok \/ ~(LinkChars(r) < room - out.offset)
    BY SnprintfWrites
  <2>2. x.ok => x.text = out.text \o <<Link(r)>>
    BY SnprintfWrites
  <2>3. Part(job, items, next) = <<>> \o <<Link(r)>>
    BY <1>3, <1>6, <1>9
  <2>4. Width(job, items, next) = 0 + LinkChars(r)
    BY <1>3, <1>6, <1>9
  <2>5. o = x
    BY <1>9
  <2> HIDE DEF x, r
  <2>6. x.ok => x.text = out.text \o Part(job, items, next)
    BY <1>7, <2>2, <2>3
  <2>7. x.ok => x.offset = out.offset + Width(job, items, next) /\ x.offset < room
    BY <1>8, <2>1, <2>4
  <2>8. ~x.ok => out.offset + Width(job, items, next) >= room
    BY <1>8, <2>1, <2>4
  <2>9. Written(x)
    BY <2>6, <2>7, <2>8
  <2> HIDE DEF Written, o
  <2> QED
    BY <2>5, <2>9
<1>10. ASSUME ~first PROVE Written(o)
  <2> DEFINE x == Snprintf(out, <<Comma, Link(r)>>, 1 + LinkChars(r))
  <2>1. /\ x.ok => 1 + LinkChars(r) < room - out.offset /\ x.offset = out.offset + (1 + LinkChars(r))
        /\ ~x.ok => ~out.ok \/ ~(1 + LinkChars(r) < room - out.offset)
    BY SnprintfWrites
  <2>2. x.ok => x.text = out.text \o <<Comma, Link(r)>>
    BY SnprintfWrites
  <2>3. Part(job, items, next) = <<Comma>> \o <<Link(r)>>
    BY <1>3, <1>6, <1>10
  <2>4. Width(job, items, next) = 1 + LinkChars(r)
    BY <1>3, <1>6, <1>10
  <2>5. o = x
    BY <1>10
  <2> HIDE DEF x, r
  <2>6. x.ok => x.text = out.text \o Part(job, items, next)
    BY <1>7, <2>2, <2>3
  <2>7. x.ok => x.offset = out.offset + Width(job, items, next) /\ x.offset < room
    BY <1>8, <2>1, <2>4
  <2>8. ~x.ok => out.offset + Width(job, items, next) >= room
    BY <1>8, <2>1, <2>4
  <2>9. Written(x)
    BY <2>6, <2>7, <2>8
  <2> HIDE DEF Written, o
  <2> QED
    BY <2>5, <2>9
<1>11. Written(o)
  BY <1>9, <1>10
<1> HIDE DEF r, o
<1>12. /\ o.ok => /\ o.text = out.text \o Part(job, items, next)
                  /\ o.offset = out.offset + Width(job, items, next)
                  /\ o.offset < room
                  /\ job = "link" \/ Encodable(items[next])
       /\ ~o.ok => \/ out.offset + Width(job, items, next) >= room
                   \/ job # "link" /\ ~Encodable(items[next])
  BY <1>1, <1>11
<1> QED
  BY <1>2, <1>3, <1>12, PassStep DEF r

\* A record of an instance in SenML-JSON.
LEMMA RecordStep ==
  ASSUME TextInv, WriteRecord
  PROVE  SoFar' /\ Complete' /\ FailsExactly'
<1> DEFINE r == items[next]
           sep == Separator
           h == IF sep.offset = 1 THEN Snprintf(sep, <<Base(r)>>, BaseChars(r))
                ELSE Snprintf(sep, <<Name(r)>>, NameChars(r))
           o == IF Encodable(r) THEN Snprintf(h, <<Value(r)>>, ValueChars(r)) ELSE Refuse(h)
           none == NoneBefore(job, items, next)
           comma == IF none THEN <<>> ELSE <<Comma>>
           head == IF none THEN Base(r) ELSE Name(r)
           c == IF none THEN 0 ELSE 1
           w == IF none THEN BaseChars(r) ELSE NameChars(r)
<1>1. Pending /\ job = "instance" /\ r.readable
  BY DEF WriteRecord
<1>2. /\ Goes(o, "writing") /\ first' = FALSE /\ next' = next + 1
      /\ job' = job /\ items' = items /\ room' = room
  BY DEF WriteRecord
<1>3. /\ BufferInv /\ SoFar /\ phase = "writing" /\ job # "single"
      /\ items \in Seq(Items) /\ next \in 1 .. Len(items) /\ next <= Len(items)
      /\ r \in Items /\ InText(job, r)
      /\ room \in Nat /\ out.offset \in Nat /\ out.ok /\ out.offset < room
      /\ out.text \in Seq(Pieces)
      /\ first <=> NoneBefore(job, items, next)
  BY <1>1, PassFacts
<1>4. BaseChars(r) \in Nat /\ NameChars(r) \in Nat /\ ValueChars(r) \in Nat
  BY <1>3, WidthFacts
<1>5. Comma \in Pieces /\ Base(r) \in Pieces /\ Name(r) \in Pieces /\ Value(r) \in Pieces
  BY <1>3, Zenon DEF Pieces
<1>6. Part(job, items, next) = comma \o <<head, Value(r)>>
  BY <1>1, <1>3, PartOf
<1>7. Width(job, items, next) = c + w + ValueChars(r)
  BY <1>1, <1>3, Zenon DEF Width
<1>8. out.offset = 1 + ListedChars(job, items, next - 1) /\ ListedChars(job, items, next - 1) \in Nat
      /\ (none => ListedChars(job, items, next - 1) = 0)
  <2>1. out.offset = Len(Opened) + ListedChars(job, items, next - 1) /\ Len(Opened) = 1
    BY <1>1, <1>3, LoopFacts DEF SoFar
  <2>2. next - 1 \in 0 .. Len(items) /\ next \in 1 .. Len(items) + 1
    BY <1>3
  <2> QED
    BY <1>3, <2>1, <2>2, ListedCharsIs, NothingYet
<1>9. /\ sep.ok /\ sep.offset = out.offset + c
      /\ sep.text = IF none THEN out.text ELSE out.text \o <<Comma>>
      /\ sep.offset = 1 <=> none
  <2>1. CASE none
    BY <1>3, <1>8, <2>1 DEF Separator
  <2>2. CASE ~none
    <3>1. Append(out.text, Comma) = out.text \o <<Comma>>
      BY <1>3, <1>5, AppendIsConcat
    <3>2. sep = [ok |-> TRUE, text |-> Append(out.text, Comma), offset |-> out.offset + 1,
                 top |-> out.offset + 1]
      BY <1>3, <2>2 DEF Separator, Store
    <3> HIDE DEF sep
    <3> QED
      BY <1>3, <1>8, <2>2, <3>1, <3>2
  <2> QED
    BY <2>1, <2>2
<1>10. h = Snprintf(sep, <<head>>, w)
  BY <1>9
<1>11. head \in Pieces /\ w \in Nat /\ c \in Nat
  BY <1>4, <1>5
<1>12. (sep.text \o <<head>>) \o <<Value(r)>> = out.text \o (comma \o <<head, Value(r)>>)
  <2>1. CASE none
    <3>1. sep.text = out.text /\ comma = <<>>
      BY <1>9, <2>1
    <3> HIDE DEF sep, comma, head, none, r
    <3>2. (out.text \o <<head>>) \o <<Value(r)>> = out.text \o (<<>> \o <<head, Value(r)>>)
      <4>1. /\ out.text \in Seq(Pieces) /\ Comma \in Pieces
            /\ head \in Pieces /\ Value(r) \in Pieces
        BY <1>3, <1>5, <1>11
      <4> QED
        BY ONLY <4>1, Joined
    <3> QED
      BY <3>1, <3>2
  <2>2. CASE ~none
    <3>1. sep.text = out.text \o <<Comma>> /\ comma = <<Comma>>
      BY <1>9, <2>2
    <3> HIDE DEF sep, comma, head, none, r
    <3>2. ((out.text \o <<Comma>>) \o <<head>>) \o <<Value(r)>>
              = out.text \o (<<Comma>> \o <<head, Value(r)>>)
      <4>1. /\ out.text \in Seq(Pieces) /\ Comma \in Pieces
            /\ head \in Pieces /\ Value(r) \in Pieces
        BY <1>3, <1>5, <1>11
      <4> QED
        BY ONLY <4>1, Joined
    <3> QED
      BY <3>1, <3>2
  <2> QED
    BY <2>1, <2>2
<1> HIDE DEF sep, head, comma, c, w, none, h
<1>13. /\ h.ok => /\ w < room - sep.offset
                  /\ h.text = sep.text \o <<head>> /\ h.offset = sep.offset + w
       /\ ~h.ok => ~sep.ok \/ ~(w < room - sep.offset)
  BY <1>10, SnprintfWrites
<1>14. /\ room \in Nat /\ out.offset \in Nat /\ c \in Nat /\ w \in Nat
       /\ ValueChars(r) \in Nat
  BY <1>3, <1>4, <1>11
<1>15. CASE ~Encodable(r)
  <2>1. o = Refuse(h) /\ ~o.ok
    BY <1>15 DEF Refuse, Halted
  <2> HIDE DEF o
  <2> QED
    BY <1>1, <1>2, <1>3, <1>15, <2>1, PassStep DEF r
<1>16. CASE Encodable(r)
  <2> DEFINE x == Snprintf(h, <<Value(r)>>, ValueChars(r))
  <2>1. /\ x.ok => /\ h.ok /\ ValueChars(r) < room - h.offset
                   /\ x.text = h.text \o <<Value(r)>> /\ x.offset = h.offset + ValueChars(r)
        /\ ~x.ok => ~h.ok \/ ~(ValueChars(r) < room - h.offset)
    BY SnprintfWrites
  <2>2. o = x
    BY <1>16
  <2> HIDE DEF x, o, r
  <2>3. x.ok => /\ x.text = out.text \o Part(job, items, next)
                /\ x.offset = out.offset + Width(job, items, next)
                /\ x.offset < room
    <3> SUFFICES ASSUME x.ok
                 PROVE  /\ x.text = out.text \o Part(job, items, next)
                        /\ x.offset = out.offset + Width(job, items, next)
                        /\ x.offset < room
      OBVIOUS
    <3>1. x.text = (sep.text \o <<head>>) \o <<Value(r)>>
      BY <1>13, <2>1, Zenon
    <3>2. /\ x.offset = h.offset + ValueChars(r) /\ ValueChars(r) < room - h.offset
          /\ h.offset = sep.offset + w /\ sep.offset = out.offset + c
      BY <1>9, <1>13, <2>1
    <3>3. x.text = out.text \o Part(job, items, next)
      BY <1>6, <1>12, <3>1
    <3>4. x.offset = ((out.offset + c) + w) + ValueChars(r) /\ x.offset < room
      BY <1>14, <3>2
    <3>5. ((out.offset + c) + w) + ValueChars(r) = out.offset + (c + w + ValueChars(r))
      BY <1>14
    <3> QED
      BY <1>7, <3>3, <3>4, <3>5
  <2>4. ~x.ok => out.offset + Width(job, items, next) >= room
    <3> SUFFICES ASSUME ~x.ok
                 PROVE  out.offset + (c + w + ValueChars(r)) >= room
      BY <1>7
    <3>1. CASE h.ok
      <4>1. h.offset = (out.offset + c) + w /\ ~(ValueChars(r) < room - h.offset)
        BY <1>9, <1>13, <2>1, <3>1
      <4> QED
        BY <1>14, <4>1
    <3>2. CASE ~h.ok
      <4>1. ~(w < room - (out.offset + c))
        BY <1>9, <1>13, <3>2
      <4> QED
        BY <1>14, <4>1
    <3> QED
      BY <3>1, <3>2
  <2> QED
    BY <1>1, <1>2, <1>3, <1>16, <2>2, <2>3, <2>4, PassStep DEF r
<1> QED
  BY <1>15, <1>16

\* One resource, in one snprintf.
LEMMA SingleStep ==
  ASSUME TextInv, WriteSingle
  PROVE  SoFar' /\ Complete' /\ FailsExactly'
<1> DEFINE r == items[1]
           w == 2 + BaseChars(r) + ValueChars(r)
           o == IF Encodable(r) THEN Snprintf(out, <<Open, Base(r), Value(r), Close>>, w)
                ELSE Refuse(out)
<1>1. BufferInv /\ SoFar /\ phase = "writing" /\ job = "single"
  BY DEF TextInv, WriteSingle
<1>2. /\ Goes(o, "done")
      /\ job' = job /\ items' = items /\ room' = room /\ next' = next /\ first' = first
  BY DEF WriteSingle
<1>3. /\ items \in Seq(Items) /\ Len(items) = 1 /\ next = 1 /\ next - 1 = 0
      /\ room \in Nat /\ out.ok
  BY <1>1 DEF BufferInv, SoFar
<1>4. r \in Items /\ 1 \in 1 .. Len(items) /\ 0 \in 0 .. Len(items) /\ 1 - 1 = 0
  BY <1>3
<1>5. BaseChars(r) \in Nat /\ ValueChars(r) \in Nat
  BY <1>4, WidthFacts
<1>6. InText(job, r) /\ NoneBefore(job, items, 1)
  BY <1>1 DEF InText, NoneBefore
<1>7. out.text = <<>> /\ out.offset = 0
  <2>1. Listed(job, items, 0) = <<>> /\ ListedChars(job, items, 0) = 0
    BY <1>3, ListedIs, ListedCharsIs
  <2>2. Opened = <<>> /\ Len(Opened) = 0 /\ <<>> \o <<>> = <<>>
    BY <1>1 DEF Opened
  <2>3. out.text = Opened \o Listed(job, items, next - 1)
        /\ out.offset = Len(Opened) + ListedChars(job, items, next - 1)
    BY <1>1 DEF SoFar
  <2> QED
    BY <1>3, <2>1, <2>2, <2>3
<1>8. Listed(job, items, 1) = <<>> \o (<<>> \o <<Base(r), Value(r)>>)
  <2>1. Listed(job, items, 1) = Listed(job, items, 0) \o Part(job, items, 1)
    BY <1>3, <1>4, ListedIs
  <2>2. Listed(job, items, 0) = <<>>
    BY <1>3, ListedIs
  <2>3. Part(job, items, 1) = <<>> \o <<Base(r), Value(r)>>
    BY <1>1, <1>3, <1>4, <1>6, PartOf
  <2> QED
    BY <2>1, <2>2, <2>3
<1>9. Length = w
  <2>1. ListedChars(job, items, 1) = ListedChars(job, items, 0) + Width(job, items, 1)
    BY <1>3, <1>4, ListedCharsIs
  <2>2. ListedChars(job, items, 0) = 0
    BY <1>3, ListedCharsIs
  <2>3. Width(job, items, 1) = 0 + BaseChars(r) + ValueChars(r)
    BY <1>1, <1>6, Zenon DEF Width
  <2>4. Length = ListedChars(job, items, 1) + 2
    BY <1>1, <1>3 DEF Length
  <2> HIDE DEF r
  <2> QED
    BY <1>5, <2>1, <2>2, <2>3, <2>4
<1>10. Expected = <<Open, Base(r), Value(r), Close>>
  <2>1. Expected = (<<Open>> \o Listed(job, items, 1)) \o <<Close>>
    BY <1>1, <1>3 DEF Expected
  <2>2. /\ Open \in Pieces /\ Base(r) \in Pieces /\ Value(r) \in Pieces /\ Close \in Pieces
    BY <1>4, Zenon DEF Pieces
  <2> HIDE DEF r
  <2>3. <<>> \o (<<>> \o <<Base(r), Value(r)>>) = <<Base(r), Value(r)>>
    <3>1. <<Base(r), Value(r)>> \in Seq(Pieces)
      BY <2>2
    <3> QED
      BY <3>1, ConcatEmptySeq
  <2>4. (<<Open>> \o <<Base(r), Value(r)>>) \o <<Close>> = <<Open, Base(r), Value(r), Close>>
    BY <2>2, Four
  <2> QED
    BY <1>8, <2>1, <2>3, <2>4
<1>11. AllEncodable <=> Encodable(r)
  <2>1. DOMAIN items = {1}
    BY <1>3
  <2> QED
    BY <1>1, <1>6, <2>1 DEF AllEncodable
<1>12. phase' = IF o.ok THEN "done" ELSE "failed"
  BY <1>2 DEF Goes
<1>13. out' = o
  BY <1>2 DEF Goes
<1>14. Expected' = Expected /\ Length' = Length /\ AllEncodable' = AllEncodable
  BY <1>2 DEF Expected, Length, AllEncodable
<1>15. CASE ~Encodable(r)
  <2>1. ~o.ok
    BY <1>15 DEF Refuse, Halted
  <2> HIDE DEF o, r, w
  <2>2. phase' = "failed"
    BY <1>12, <2>1
  <2> QED
    BY <1>2, <1>3, <1>11, <1>14, <1>15, <2>2 DEF SoFar, Complete, FailsExactly
<1>16. CASE Encodable(r)
  <2> DEFINE pieces == <<Open, Base(r), Value(r), Close>>
             x == Snprintf(out, pieces, w)
  <2>1. /\ x.ok => w < room - out.offset /\ x.text = out.text \o pieces /\ x.offset = out.offset + w
        /\ ~x.ok => ~out.ok \/ ~(w < room - out.offset)
    BY SnprintfWrites
  <2>2. o = x
    BY <1>16
  <2>3. <<>> \o pieces = pieces
    OBVIOUS
  <2>4. w \in Nat
    BY <1>5
  <2> HIDE DEF o, x, w, pieces
  <2>5. CASE x.ok
    <3>1. phase' = "done" /\ out'.ok /\ out'.text = pieces /\ out'.offset = w /\ w < room
      BY <1>3, <1>7, <1>12, <1>13, <2>1, <2>2, <2>3, <2>4, <2>5
    <3>2. Complete'
      BY <1>10, <1>14, <3>1 DEF Complete, pieces
    <3>3. FailsExactly'
      BY <1>2, <1>9, <1>11, <1>14, <1>16, <3>1 DEF FailsExactly
    <3>4. SoFar'
      BY <1>2, <1>3, <3>1 DEF SoFar
    <3> QED
      BY <3>2, <3>3, <3>4
  <2>6. CASE ~x.ok
    <3>1. phase' = "failed"
      BY <1>12, <2>2, <2>6
    <3>2. w >= room
      BY <1>3, <1>7, <2>1, <2>4, <2>6
    <3> QED
      BY <1>2, <1>3, <1>9, <1>14, <3>1, <3>2 DEF SoFar, Complete, FailsExactly
  <2> QED
    BY <2>5, <2>6
<1> QED
  BY <1>15, <1>16

\* The end of a loop: the closing bracket, or the links as they are.
LEMMA FinishStep ==
  ASSUME TextInv, Finish
  PROVE  SoFar' /\ Complete' /\ FailsExactly'
<1> DEFINE o == IF job = "link" THEN out ELSE IF CloseFits THEN Closed ELSE Refuse(out)
           n == Len(items)
<1>1. BufferInv /\ SoFar /\ phase = "writing" /\ job # "single" /\ next > n
  BY DEF TextInv, Finish
<1>2. /\ Goes(o, "done")
      /\ job' = job /\ items' = items /\ room' = room /\ next' = next /\ first' = first
  BY DEF Finish
<1>3. /\ items \in Seq(Items) /\ n \in Nat /\ next \in 1 .. n + 1 /\ next - 1 = n
      /\ room \in Nat /\ out.offset \in Nat /\ Opened \in Seq(Pieces)
      /\ job \in {"link", "instance", "single"}
  <2>1. next \in 1 .. n + 1 /\ n \in Nat
    BY <1>1, LoopFacts DEF SoFar
  <2>2. next - 1 = n
    BY <1>1, <2>1
  <2> QED
    BY <1>1, <2>1, <2>2, LoopFacts DEF BufferInv
<1>4. /\ out.text = Opened \o Listed(job, items, n)
      /\ out.offset = Len(Opened) + ListedChars(job, items, n)
      /\ job = "link" \/ \A i \in 1 .. n : InText(job, items[i]) => Encodable(items[i])
      /\ out.offset < room /\ out.ok
  BY <1>1, <1>3 DEF SoFar
<1>5. Listed(job, items, n) \in Seq(Pieces) /\ ListedChars(job, items, n) \in Nat
  <2>1. n \in 0 .. n
    BY <1>3
  <2> QED
    BY <1>3, <2>1, ListedIs, ListedCharsIs
<1>6. AllEncodable
  <2>1. DOMAIN items = 1 .. n
    BY <1>3
  <2> QED
    BY <1>4, <2>1 DEF AllEncodable
<1>7. phase' = (IF o.ok THEN "done" ELSE "failed") /\ out' = o
  BY <1>2 DEF Goes
<1>8. Expected' = Expected /\ Length' = Length /\ AllEncodable' = AllEncodable
  BY <1>2 DEF Expected, Length, AllEncodable
<1>9. CASE job = "link"
  <2>1. o = out
    BY <1>9
  <2>2. Opened = <<>> /\ Len(Opened) = 0
    BY <1>9 DEF Opened
  <2>3. <<>> \o Listed(job, items, n) = Listed(job, items, n)
    BY <1>5, ConcatEmptySeq
  <2>4. Expected = Listed(job, items, n) /\ Length = ListedChars(job, items, n) + 0
    BY <1>9 DEF Expected, Length
  <2> HIDE DEF o, n
  <2>5. phase' = "done" /\ out' = out
    BY <1>4, <1>7, <2>1
  <2>6. out.text = Expected
    BY <1>4, <2>2, <2>3, <2>4
  <2>7. Length = out.offset
    BY <1>4, <1>5, <2>2, <2>4
  <2>8. Complete'
    BY <1>8, <2>5, <2>6 DEF Complete
  <2>9. FailsExactly'
    BY <1>2, <1>4, <1>6, <1>8, <2>5, <2>7 DEF FailsExactly
  <2>10. SoFar'
    BY <1>2, <1>3, <1>4, <1>9, <2>5 DEF SoFar, n
  <2> QED
    BY <2>8, <2>9, <2>10
<1>10. CASE job # "link"
  <2>1. Opened = <<Open>> /\ Len(Opened) = 1
    BY <1>1, <1>3, <1>10 DEF Opened
  <2>2. Length = ListedChars(job, items, n) + 2
    BY <1>10 DEF Length
  <2>3. Expected = (<<Open>> \o Listed(job, items, n)) \o <<Close>>
    BY <1>10 DEF Expected
  <2>4. Length = out.offset + 1
    <3> HIDE DEF n
    <3> QED
      BY <1>4, <1>5, <2>1, <2>2
  <2>5. CASE CloseFits
    <3>1. o = Closed /\ Closed.ok /\ Closed.text = Append(out.text, Close)
          /\ Closed.offset = out.offset + 1
      BY <1>10, <2>5 DEF Closed
    <3>2. out.offset + 1 < room
      BY <2>5 DEF CloseFits
    <3> HIDE DEF o, n
    <3>3. phase' = "done" /\ out'.ok /\ out'.text = Append(out.text, Close)
          /\ out'.offset = out.offset + 1
      BY <1>7, <3>1
    <3>4. Append(out.text, Close) = out.text \o <<Close>>
      <4>1. out.text \in Seq(Pieces)
        BY <1>3, <1>4, <1>5, ConcatProperties
      <4>2. Close \in Pieces
        BY Zenon DEF Pieces
      <4> QED
        BY <4>1, <4>2, AppendIsConcat
    <3>5. Complete'
      BY <1>4, <1>8, <2>1, <2>3, <3>3, <3>4 DEF Complete
    <3>6. FailsExactly'
      BY <1>2, <1>6, <1>8, <2>4, <3>2, <3>3 DEF FailsExactly
    <3>7. SoFar'
      BY <1>1, <1>2, <1>3, <3>3 DEF SoFar, n
    <3> QED
      BY <3>5, <3>6, <3>7
  <2>6. CASE ~CloseFits
    <3>1. o = Refuse(out) /\ ~o.ok
      BY <1>10, <2>6 DEF Refuse, Halted
    <3>2. out.offset + 1 >= room
      BY <1>3, <2>6 DEF CloseFits
    <3> HIDE DEF o, n
    <3>3. phase' = "failed"
      BY <1>7, <3>1
    <3>4. FailsExactly' /\ Complete'
      BY <1>2, <1>8, <2>4, <3>2, <3>3 DEF FailsExactly, Complete
    <3>5. SoFar'
      BY <1>1, <1>2, <1>3, <3>3 DEF SoFar, n
    <3> QED
      BY <3>4, <3>5
  <2> QED
    BY <2>5, <2>6
<1> QED
  BY <1>9, <1>10

\* A step that changes nothing.
LEMMA IdleStep ==
  ASSUME TextInv, UNCHANGED vars
  PROVE  SoFar' /\ Complete' /\ FailsExactly'
<1>1. SoFar /\ Complete /\ FailsExactly
  BY DEF TextInv
<1>2. /\ job' = job /\ items' = items /\ room' = room /\ next' = next
      /\ first' = first /\ out' = out /\ phase' = phase
  BY DEF vars
<1>3. /\ Expected' = Expected /\ Length' = Length /\ AllEncodable' = AllEncodable
      /\ Opened' = Opened
  BY <1>2 DEF Expected, Length, AllEncodable, Opened
<1>4. SoFar'
  BY <1>1, <1>2, <1>3 DEF SoFar
<1>5. Complete' /\ FailsExactly'
  BY <1>1, <1>2, <1>3 DEF Complete, FailsExactly
<1> QED
  BY <1>4, <1>5

\* Every pass of every encoder keeps TextInv.
LEMMA TextStep == TextInv /\ [Next]_vars => TextInv'
<1> SUFFICES ASSUME TextInv, [Next]_vars
             PROVE  TextInv'
  OBVIOUS
<1>1. BufferInv'
  BY BufferStep DEF TextInv
<1>2. SoFar' /\ Complete' /\ FailsExactly'
  BY BeginStep, SkipStep, LinkStep, RecordStep, SingleStep, FinishStep, IdleStep DEF Next
<1> QED
  BY <1>1, <1>2 DEF TextInv

\* Every behaviour of every encoder keeps TextInv.
LEMMA TextInvariance == Spec => []TextInv
  BY TextInit, TextStep, PTL DEF Spec

\* No encoder writes past the end of the caller's buffer.
THEOREM StaysWithinBuffer == Spec => []WithinBuffer
  BY TextInvariance, PTL DEF TextInv, BufferInv

\* Whatever an encoder returns, an empty link-format payload apart, ends in a NUL.
THEOREM ReturnsTerminated == Spec => []Terminated
  BY TextInvariance, PTL DEF TextInv, BufferInv

\* After every pass, the text so far and its length are those of the items so far, and
\* the next separator is decided by whether one of them is in the text.
THEOREM TextInvariant == Spec => []SoFar
  BY TextInvariance, PTL DEF TextInv

\* The text returned is the whole text: the commas between the items that have one, the
\* base name in the first record alone, every bit of an opaque value in its base64.
THEOREM ReturnsWholeText == Spec => []Complete
  BY TextInvariance, PTL DEF TextInv

\* What is known of every value is known of the list, and the other way round.
LEMMA EncodableIs ==
  /\ AllEncodable => Typed
  /\ (\A r \in Values : FitsB64(r)) /\ Typed => AllEncodable
<1>1. ASSUME AllEncodable, NEW r \in Values
      PROVE  r.type # "NONE"
  <2>1. PICK i \in DOMAIN items : job # "link" /\ InText(job, items[i]) /\ r = items[i]
    BY <1>1 DEF Values
  <2> QED
    BY <1>1, <2>1 DEF AllEncodable, Encodable
<1>2. ASSUME \A r \in Values : FitsB64(r), Typed, job # "link",
             NEW i \in DOMAIN items, InText(job, items[i])
      PROVE  Encodable(items[i])
  <2>1. items[i] \in Values
    BY <1>2 DEF Values
  <2> QED
    BY <1>2, <2>1 DEF Typed, FitsB64, Encodable
<1> QED
  BY <1>1, <1>2 DEF Typed, AllEncodable

\* If every opaque value fits b64, the encoders fail for a value of type NONE, or for
\* want of room for the text and its NUL, and never else; what they return has the
\* length they say.
THEOREM FailsForWantOfRoom == Spec => []FailsOnlyIfTooLong
<1>1. FailsExactly => FailsOnlyIfTooLong
  BY EncodableIs DEF FailsExactly, FailsOnlyIfTooLong
<1> QED
  BY <1>1, TextInvariance, PTL DEF TextInv
=============================================================================
