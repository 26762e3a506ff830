-------------------------- MODULE TlvCodec_proofs --------------------------
(***************************************************************************)
(* The codec of wb_lwm2m_tlv.c for every radix: what is written to bytes is *)
(* what is read from them, for integers, headers, values and records.       *)
(***************************************************************************)
EXTENDS TlvCodec, Induction_proofs, SequenceTheorems

-----------------------------------------------------------------------------
(* Arithmetic *)

\* Shifting by two amounts is shifting by their sum.
LEMMA DivDiv ==
  ASSUME NEW x \in Nat, NEW a \in Nat \ {0}, NEW b \in Nat \ {0}
  PROVE  (x \div a) \div b = x \div (a * b)
<1> DEFINE q == x \div a
           r == x % a
           p == q \div b
           t == q % b
<1>1. q \in Nat /\ r \in 0 .. a - 1 /\ x = q * a + r
  OBVIOUS
<1>2. p \in Nat /\ t \in 0 .. b - 1 /\ q = p * b + t
  BY <1>1
<1> HIDE DEF q, r, p, t
<1>3. x = p * (a * b) + (t * a + r)
  BY <1>1, <1>2
<1>4. t * a <= (b - 1) * a
  BY <1>2
<1>5. t * a + r \in 0 .. a * b - 1
  BY <1>1, <1>2, <1>4
<1>6. a * b \in Nat \ {0}
  OBVIOUS
<1>7. x \div (a * b) = p
  <2> DEFINE ab == a * b
             s == t * a + r
  <2>1. ab \in Nat \ {0} /\ s \in 0 .. ab - 1 /\ x = p * ab + s
    BY <1>3, <1>5, <1>6
  <2> HIDE DEF ab, s
  <2>2. x \div ab = p
    BY <1>2, <2>1
  <2> QED
    BY <2>2 DEF ab
<1> QED
  BY <1>7 DEF q, p

\* A remainder, one digit at a time.
LEMMA ModMul ==
  ASSUME NEW x \in Nat, NEW a \in Nat \ {0}, NEW b \in Nat \ {0}
  PROVE  ((x \div a) % b) * a + (x % a) = x % (a * b)
<1> DEFINE q == x \div a
           r == x % a
           p == q \div b
           t == q % b
<1>1. q \in Nat /\ r \in 0 .. a - 1 /\ x = q * a + r
  OBVIOUS
<1>2. p \in Nat /\ t \in 0 .. b - 1 /\ q = p * b + t
  BY <1>1
<1> HIDE DEF q, r, p, t
<1>3. x = p * (a * b) + (t * a + r)
  BY <1>1, <1>2
<1>4. t * a <= (b - 1) * a
  BY <1>2
<1>5. t * a + r \in 0 .. a * b - 1
  BY <1>1, <1>2, <1>4
<1>6. x % (a * b) = t * a + r
  <2> DEFINE ab == a * b
             s == t * a + r
  <2>1. ab \in Nat \ {0} /\ s \in 0 .. ab - 1 /\ x = p * ab + s
    BY <1>3, <1>5
  <2> HIDE DEF ab, s
  <2>2. x % ab = s
    BY <1>2, <2>1
  <2> QED
    BY <2>2 DEF ab, s
<1> QED
  BY <1>6 DEF q, r, t

\* The recursion of Power.
LEMMA PowerFacts ==
  ASSUME NEW radix \in Nat \ {0}
  PROVE  /\ Power(radix, 0) = 1
         /\ \A n \in Nat : /\ Power(radix, n) \in Nat \ {0}
                           /\ Power(radix, n + 1) = radix * Power(radix, n)
<1> DEFINE step == [x \in Nat \X Nat |-> radix * x[1]]
           p == CHOOSE p : p = [k \in Nat |-> IF k = 0 THEN 1 ELSE radix * p[k - 1]]
<1>1. PICK f \in [Nat -> Nat] : Follows(f, 1, step)
  <2>1. step \in [Nat \X Nat -> Nat]
    OBVIOUS
  <2> HIDE DEF step
  <2> QED
    BY <2>1, RecursionDefines
<1>2. f = [k \in Nat |-> IF k = 0 THEN 1 ELSE radix * f[k - 1]]
  <2>1. f[0] = 1 /\ \A k \in Nat \ {0} : f[k] = step[<<f[k - 1], k>>]
    BY <1>1 DEF Follows
  <2>2. \A k \in Nat \ {0} : step[<<f[k - 1], k>>] = radix * f[k - 1]
    OBVIOUS
  <2> HIDE DEF step
  <2> QED
    BY <2>1, <2>2
<1>3. p = [k \in Nat |-> IF k = 0 THEN 1 ELSE radix * p[k - 1]]
  BY <1>2
<1>4. \A n \in Nat : Power(radix, n) = p[n]
  BY DEF Power
<1> HIDE DEF p
<1>5. p[0] = 1 /\ \A n \in Nat : p[n + 1] = radix * p[n]
  <2>1. \A n \in Nat : p[n] = IF n = 0 THEN 1 ELSE radix * p[n - 1]
    BY <1>3
  <2> QED
    BY <2>1
<1>6. \A n \in Nat : p[n] \in Nat \ {0}
  <2> DEFINE P == {n \in Nat : p[n] \in Nat \ {0}}
  <2>1. 0 \in P
    BY <1>5
  <2>2. \A n \in Nat : n \in P => n + 1 \in P
    BY <1>5
  <2> HIDE DEF P
  <2>3. \A n \in Nat : n \in P
    BY <2>1, <2>2, SetInduction
  <2> QED
    BY <2>3 DEF P
<1> QED
  BY <1>4, <1>5, <1>6

-----------------------------------------------------------------------------
(* Bytes *)

\* Concatenation of bytes is associative.
LEMMA BytesAssociative ==
  ASSUME NEW s \in Seq(Nat), NEW t \in Seq(Nat), NEW u \in Seq(Nat)
  PROVE  (s \o t) \o u = s \o (t \o u)
OBVIOUS

\* The recursion of FromBytes, as far as byte n.
Shifts(v, radix, bytes, n) == \A k \in 1 .. n : v[k] = v[k - 1] * radix + bytes[k]
Reads(v, radix, start, bytes) ==
    /\ v \in [0 .. Len(bytes) -> Int]
    /\ v[0] = start
    /\ Shifts(v, radix, bytes, Len(bytes))

\* The loop that reads bytes has one outcome, and FromBytes is its last value.
LEMMA FromBytesFacts ==
  ASSUME NEW radix \in Nat, NEW start \in Int, NEW bytes \in Seq(Nat)
  PROVE  \E v : /\ Reads(v, radix, start, bytes)
                /\ FromBytes(radix, start, bytes) = v[Len(bytes)]
<1> DEFINE n == Len(bytes)
           step == [x \in Int \X Nat |->
                       x[1] * radix + (IF x[2] \in 1 .. n THEN bytes[x[2]] ELSE 0)]
           Is(v) == v = [k \in 0 .. n |-> IF k = 0 THEN start
                                          ELSE v[k - 1] * radix + bytes[k]]
<1>1. n \in Nat /\ \A k \in 1 .. n : bytes[k] \in Nat
  OBVIOUS
<1> HIDE DEF n
<1>2. PICK f \in [Nat -> Int] : Follows(f, start, step)
  <2>1. step \in [Int \X Nat -> Int]
    <3>1. \A x \in Int \X Nat :
             x[1] * radix + (IF x[2] \in 1 .. n THEN bytes[x[2]] ELSE 0) \in Int
      BY <1>1
    <3> QED
      BY <3>1
  <2> HIDE DEF step
  <2> QED
    BY <2>1, RecursionDefines
<1> DEFINE g == [k \in 0 .. n |-> f[k]]
<1>3. g \in [0 .. n -> Int] /\ g[0] = start
  BY <1>1, <1>2 DEF Follows
<1>4. \A k \in 1 .. n : g[k] = g[k - 1] * radix + bytes[k]
  <2>1. \A k \in Nat \ {0} : f[k] = step[<<f[k - 1], k>>]
    BY <1>2 DEF Follows
  <2>2. ASSUME NEW k \in 1 .. n
        PROVE  step[<<f[k - 1], k>>] = f[k - 1] * radix + bytes[k]
    <3>1. k \in Nat /\ k - 1 \in Nat
      BY <1>1
    <3>2. <<f[k - 1], k>> \in Int \X Nat
      BY <3>1
    <3> QED
      BY <3>2
  <2>3. \A k \in 1 .. n : k \in Nat \ {0} /\ g[k] = f[k] /\ g[k - 1] = f[k - 1]
    BY <1>1
  <2> HIDE DEF step, g
  <2> QED
    BY <2>1, <2>2, <2>3
<1>5. Is(g)
  <2> HIDE DEF g
  <2> QED
    BY <1>1, <1>3, <1>4
<1> DEFINE v == CHOOSE v : Is(v)
<1>6. Is(v)
  BY <1>5
<1>7. FromBytes(radix, start, bytes) = v[n]
  BY DEF FromBytes, n
<1> HIDE DEF v
<1>8. v[0] = start /\ \A k \in 1 .. n : v[k] = v[k - 1] * radix + bytes[k]
  <2>1. \A k \in 0 .. n : v[k] = IF k = 0 THEN start ELSE v[k - 1] * radix + bytes[k]
    BY <1>6
  <2> QED
    BY <1>1, <2>1
<1>9. v \in [0 .. n -> Int]
  <2> DEFINE P == {k \in Nat : k <= n => v[k] \in Int}
  <2>1. 0 \in P
    BY <1>8
  <2>2. ASSUME NEW k \in Nat, k \in P
        PROVE  k + 1 \in P
    <3> SUFFICES ASSUME k + 1 <= n PROVE v[k + 1] \in Int
      OBVIOUS
    <3>1. v[k] \in Int /\ k + 1 \in 1 .. n /\ (k + 1) - 1 = k
      BY <1>1, <2>2
    <3>2. v[k + 1] = v[k] * radix + bytes[k + 1]
      BY <3>1, <1>8
    <3>3. v[k] * radix \in Int /\ bytes[k + 1] \in Int
      BY <1>1, <3>1
    <3> QED
      BY <3>2, <3>3
  <2> HIDE DEF P
  <2>3. \A k \in Nat : k \in P
    BY <2>1, <2>2, SetInduction
  <2>4. \A k \in 0 .. n : v[k] \in Int
    BY <1>1, <2>3 DEF P
  <2> QED
    BY <1>6, <2>4
<1> QED
  BY <1>7, <1>8, <1>9 DEF n, Reads, Shifts

\* Two readings that agree at one place agree from there on.
LEMMA ReadsAgree ==
  ASSUME NEW v, NEW w, NEW radix, NEW n \in Nat, NEW bytes,
         v[0] = w[0], Shifts(v, radix, bytes, n), Shifts(w, radix, bytes, n)
  PROVE  v[n] = w[n]
<1> DEFINE P == {k \in Nat : k <= n => v[k] = w[k]}
<1>1. 0 \in P
  OBVIOUS
<1>2. ASSUME NEW k \in Nat, k \in P
      PROVE  k + 1 \in P
  <2> SUFFICES ASSUME k + 1 <= n PROVE v[k + 1] = w[k + 1]
    OBVIOUS
  <2>1. v[k] = w[k] /\ k + 1 \in 1 .. n /\ (k + 1) - 1 = k
    BY <1>2
  <2> QED
    BY <2>1 DEF Shifts
<1> HIDE DEF P
<1>3. \A k \in Nat : k \in P
  BY <1>1, <1>2, SetInduction
<1> QED
  BY <1>3 DEF P

\* No byte to read.
LEMMA FromBytesEmpty ==
  ASSUME NEW radix \in Nat, NEW start \in Int
  PROVE  FromBytes(radix, start, <<>>) = start
<1>1. <<>> \in Seq(Nat) /\ Len(<<>>) = 0
  OBVIOUS
<1>2. PICK v : Reads(v, radix, start, <<>>) /\ FromBytes(radix, start, <<>>) = v[Len(<<>>)]
  BY <1>1, FromBytesFacts
<1> QED
  BY <1>1, <1>2 DEF Reads

\* The last byte is the lowest.
LEMMA FromBytesAppend ==
  ASSUME NEW radix \in Nat, NEW start \in Int, NEW bytes \in Seq(Nat), NEW b \in Nat
  PROVE  FromBytes(radix, start, Append(bytes, b)) = FromBytes(radix, start, bytes) * radix + b
<1> DEFINE n == Len(bytes)
           more == Append(bytes, b)
<1>1. /\ n \in Nat
      /\ more \in Seq(Nat)
      /\ Len(more) = n + 1
      /\ \A k \in 1 .. n : more[k] = bytes[k]
      /\ more[n + 1] = b
  OBVIOUS
<1> HIDE DEF more
<1>2. PICK v : Reads(v, radix, start, bytes) /\ FromBytes(radix, start, bytes) = v[n]
  BY FromBytesFacts
<1>3. PICK w : Reads(w, radix, start, more) /\ FromBytes(radix, start, more) = w[n + 1]
  BY <1>1, FromBytesFacts
<1>4. v[n] = w[n]
  <2>1. v[0] = w[0]
    BY <1>2, <1>3 DEF Reads
  <2>2. Shifts(v, radix, bytes, n)
    BY <1>2 DEF Reads
  <2>3. Shifts(w, radix, bytes, n)
    BY <1>1, <1>3 DEF Reads, Shifts
  <2> HIDE DEF n
  <2> QED
    BY <1>1, <2>1, <2>2, <2>3, ReadsAgree
<1>5. w[n + 1] = w[n] * radix + b
  <2>1. n + 1 \in 1 .. Len(more) /\ (n + 1) - 1 = n
    BY <1>1
  <2> QED
    BY <1>1, <1>3, <2>1 DEF Reads, Shifts
<1> QED
  BY <1>2, <1>3, <1>4, <1>5 DEF more

\* The bytes of a number.
LEMMA ToBytesFacts ==
  ASSUME NEW radix \in Nat \ {0}, NEW x \in Nat, NEW n \in Nat
  PROVE  /\ ToBytes(radix, x, n) \in Seq(Nat)
         /\ Len(ToBytes(radix, x, n)) = n
         /\ \A k \in 1 .. n : /\ ToBytes(radix, x, n)[k] = (x \div Power(radix, n - k)) % radix
                              /\ ToBytes(radix, x, n)[k] \in 0 .. radix - 1
<1>1. ASSUME NEW k \in 1 .. n
      PROVE  (x \div Power(radix, n - k)) % radix \in 0 .. radix - 1
  <2>1. n - k \in Nat
    OBVIOUS
  <2>2. Power(radix, n - k) \in Nat \ {0}
    BY <2>1, PowerFacts
  <2>3. x \div Power(radix, n - k) \in Nat
    BY <2>2
  <2> QED
    BY <2>3
<1>2. ToBytes(radix, x, n) \in [1 .. n -> 0 .. radix - 1]
  BY <1>1 DEF ToBytes
<1>3. \A k \in 1 .. n : ToBytes(radix, x, n)[k] = (x \div Power(radix, n - k)) % radix
  BY DEF ToBytes
<1> QED
  BY <1>2, <1>3

\* Writing one byte more: the rest of the number first, its lowest digit last.
LEMMA ToBytesAppend ==
  ASSUME NEW radix \in Nat \ {0}, NEW x \in Nat, NEW n \in Nat
  PROVE  ToBytes(radix, x, n + 1) = Append(ToBytes(radix, x \div radix, n), x % radix)
<1> DEFINE s == ToBytes(radix, x, n + 1)
           t == ToBytes(radix, x \div radix, n)
           u == Append(t, x % radix)
<1>1. x \div radix \in Nat /\ x % radix \in Nat
  OBVIOUS
<1>2. s \in Seq(Nat) /\ Len(s) = n + 1
  BY ToBytesFacts
<1>3. t \in Seq(Nat) /\ Len(t) = n
  BY <1>1, ToBytesFacts
<1>4. u \in Seq(Nat) /\ Len(u) = n + 1
  BY <1>1, <1>3
<1>5. ASSUME NEW k \in 1 .. n + 1
      PROVE  s[k] = u[k]
  <2>1. s[k] = (x \div Power(radix, n + 1 - k)) % radix
    BY ToBytesFacts
  <2>2. CASE k = n + 1
    <3>1. Power(radix, n + 1 - k) = 1
      BY <2>2, PowerFacts
    <3>2. x \div 1 = x
      OBVIOUS
    <3>3. u[k] = x % radix
      BY <1>3, <2>2
    <3> QED
      BY <2>1, <3>1, <3>2, <3>3
  <2>3. CASE k \in 1 .. n
    <3> DEFINE j == n - k
    <3>1. j \in Nat /\ n + 1 - k = j + 1
      BY <2>3
    <3> HIDE DEF j
    <3>2. Power(radix, j + 1) = radix * Power(radix, j) /\ Power(radix, j) \in Nat \ {0}
      BY <3>1, PowerFacts
    <3>3. x \div Power(radix, j + 1) = (x \div radix) \div Power(radix, j)
      BY <3>2, DivDiv
    <3>4. t[k] = ((x \div radix) \div Power(radix, n - k)) % radix
      BY <1>1, <2>3, ToBytesFacts
    <3>5. u[k] = t[k]
      BY <1>1, <1>3, <2>3
    <3> QED
      BY <2>1, <3>1, <3>3, <3>4, <3>5 DEF j
  <2>4. k = n + 1 \/ k \in 1 .. n
    OBVIOUS
  <2> HIDE DEF s, u
  <2> QED
    BY <2>2, <2>3, <2>4
<1> HIDE DEF s, u
<1>6. s = u
  BY <1>2, <1>4, <1>5, SeqEqual
<1> QED
  BY <1>6 DEF s, u

\* What is written is read, up to the width.
LEMMA ReadsWhatIsWritten ==
  ASSUME NEW radix \in Nat \ {0}
  PROVE  \A n \in Nat : \A x \in Nat :
            FromBytes(radix, 0, ToBytes(radix, x, n)) = x % Power(radix, n)
<1> DEFINE P == {n \in Nat : \A x \in Nat :
                    FromBytes(radix, 0, ToBytes(radix, x, n)) = x % Power(radix, n)}
<1>1. 0 \in P
  <2> SUFFICES ASSUME NEW x \in Nat
               PROVE  FromBytes(radix, 0, ToBytes(radix, x, 0)) = x % Power(radix, 0)
    OBVIOUS
  <2>1. ToBytes(radix, x, 0) = <<>>
    BY ToBytesFacts
  <2>2. Power(radix, 0) = 1 /\ x % 1 = 0
    BY PowerFacts
  <2> QED
    BY <2>1, <2>2, FromBytesEmpty
<1>2. ASSUME NEW n \in Nat, n \in P
      PROVE  n + 1 \in P
  <2> SUFFICES ASSUME NEW x \in Nat
               PROVE  FromBytes(radix, 0, ToBytes(radix, x, n + 1)) = x % Power(radix, n + 1)
    OBVIOUS
  <2> DEFINE q == x \div radix
             t == ToBytes(radix, q, n)
  <2>1. q \in Nat /\ x % radix \in Nat
    OBVIOUS
  <2>2. FromBytes(radix, 0, t) = q % Power(radix, n)
    BY <1>2, <2>1
  <2>3. t \in Seq(Nat)
    BY <2>1, ToBytesFacts
  <2>4. ToBytes(radix, x, n + 1) = Append(t, x % radix)
    BY ToBytesAppend
  <2>5. FromBytes(radix, 0, Append(t, x % radix)) = FromBytes(radix, 0, t) * radix + (x % radix)
    <3> HIDE DEF t
    <3> QED
      BY <2>1, <2>3, FromBytesAppend
  <2>6. (q % Power(radix, n)) * radix + (x % radix) = x % (radix * Power(radix, n))
    BY PowerFacts, ModMul
  <2>7. Power(radix, n + 1) = radix * Power(radix, n)
    BY PowerFacts
  <2> QED
    BY <2>2, <2>4, <2>5, <2>6, <2>7
<1> HIDE DEF P
<1>3. \A n \in Nat : n \in P
  BY <1>1, <1>2, SetInduction
<1> QED
  BY <1>3 DEF P

\* Reading on from another start.
LEMMA FromBytesShift ==
  ASSUME NEW radix \in Nat \ {0}, NEW a \in Int, NEW d \in Int, NEW bytes \in Seq(Nat)
  PROVE  FromBytes(radix, a + d, bytes)
            = FromBytes(radix, a, bytes) + d * Power(radix, Len(bytes))
<1> DEFINE n == Len(bytes)
<1>1. n \in Nat /\ a + d \in Int
  OBVIOUS
<1>2. PICK v : Reads(v, radix, a, bytes) /\ FromBytes(radix, a, bytes) = v[n]
  BY FromBytesFacts
<1>3. PICK w : Reads(w, radix, a + d, bytes) /\ FromBytes(radix, a + d, bytes) = w[n]
  BY <1>1, FromBytesFacts
<1>4. \A k \in 1 .. n : bytes[k] \in Nat
  OBVIOUS
<1>5. v \in [0 .. n -> Int] /\ v[0] = a /\ Shifts(v, radix, bytes, n)
  BY <1>2 DEF Reads
<1>6. w \in [0 .. n -> Int] /\ w[0] = a + d /\ Shifts(w, radix, bytes, n)
  BY <1>3 DEF Reads
<1> HIDE DEF n
<1> DEFINE P == {k \in Nat : k <= n => w[k] = v[k] + d * Power(radix, k)}
<1>7. 0 \in P
  BY <1>5, <1>6, PowerFacts
<1>8. ASSUME NEW k \in Nat, k \in P
      PROVE  k + 1 \in P
  <2> SUFFICES ASSUME k + 1 <= n PROVE w[k + 1] = v[k + 1] + d * Power(radix, k + 1)
    OBVIOUS
  <2>1. k + 1 \in 1 .. n /\ (k + 1) - 1 = k /\ k \in 0 .. n
    BY <1>1
  <2>2. w[k] = v[k] + d * Power(radix, k) /\ v[k] \in Int /\ w[k] \in Int
    BY <1>5, <1>6, <1>8, <2>1
  <2>3. v[k + 1] = v[k] * radix + bytes[k + 1] /\ w[k + 1] = w[k] * radix + bytes[k + 1]
    BY <1>5, <1>6, <2>1 DEF Shifts
  <2>4. Power(radix, k + 1) = radix * Power(radix, k) /\ Power(radix, k) \in Nat
    BY PowerFacts
  <2>5. bytes[k + 1] \in Nat
    BY <1>4, <2>1
  <2>6. (v[k] + d * Power(radix, k)) * radix = v[k] * radix + d * (radix * Power(radix, k))
    BY <2>2, <2>4
  <2>7. w[k + 1] = (v[k] * radix + d * Power(radix, k + 1)) + bytes[k + 1]
    BY <2>2, <2>3, <2>4, <2>6
  <2>8. v[k] * radix \in Int /\ d * Power(radix, k + 1) \in Int
    BY <2>2, <2>4
  <2> QED
    BY <2>3, <2>5, <2>7, <2>8
<1> HIDE DEF P
<1>9. \A k \in Nat : k \in P
  BY <1>7, <1>8, SetInduction
<1>10. w[n] = v[n] + d * Power(radix, n)
  BY <1>1, <1>9 DEF P
<1> QED
  BY <1>2, <1>3, <1>10 DEF n

\* The first byte is the highest.
LEMMA FromBytesTail ==
  ASSUME NEW radix \in Nat \ {0}, NEW start \in Int, NEW bytes \in Seq(Nat), bytes # <<>>
  PROVE  FromBytes(radix, start, bytes) = FromBytes(radix, start * radix + bytes[1], Tail(bytes))
<1> DEFINE n == Len(bytes)
           t == Tail(bytes)
           begin == start * radix + bytes[1]
<1>1. n \in Nat \ {0} /\ bytes[1] \in Nat /\ begin \in Int
  OBVIOUS
<1>2. t \in Seq(Nat) /\ Len(t) = n - 1 /\ \A k \in 1 .. n - 1 : t[k] = bytes[k + 1]
  BY HeadTailProperties
<1> HIDE DEF n, t, begin
<1>3. PICK v : Reads(v, radix, start, bytes) /\ FromBytes(radix, start, bytes) = v[n]
  BY FromBytesFacts DEF n
<1>4. PICK w : Reads(w, radix, begin, t) /\ FromBytes(radix, begin, t) = w[Len(t)]
  BY <1>1, <1>2, FromBytesFacts
<1>5. v[0] = start /\ Shifts(v, radix, bytes, n)
  BY <1>3 DEF Reads, n
<1>6. w[0] = begin /\ Shifts(w, radix, t, n - 1)
  BY <1>2, <1>4 DEF Reads
<1> DEFINE P == {k \in Nat : k <= n - 1 => w[k] = v[k + 1]}
<1>7. 0 \in P
  <2>1. 1 \in 1 .. n /\ 1 - 1 = 0
    BY <1>1
  <2>2. v[1] = v[0] * radix + bytes[1]
    BY <1>5, <2>1 DEF Shifts
  <2> QED
    BY <1>5, <1>6, <2>2 DEF begin
<1>8. ASSUME NEW k \in Nat, k \in P
      PROVE  k + 1 \in P
  <2> SUFFICES ASSUME k + 1 <= n - 1 PROVE w[k + 1] = v[(k + 1) + 1]
    OBVIOUS
  <2>1. /\ k + 1 \in 1 .. n - 1 /\ (k + 1) - 1 = k
        /\ (k + 1) + 1 \in 1 .. n /\ ((k + 1) + 1) - 1 = k + 1
    BY <1>1
  <2>2. w[k] = v[k + 1]
    BY <1>1, <1>8
  <2>3. w[k + 1] = w[k] * radix + t[k + 1]
    BY <1>6, <2>1 DEF Shifts
  <2>4. v[(k + 1) + 1] = v[k + 1] * radix + bytes[(k + 1) + 1]
    BY <1>5, <2>1 DEF Shifts
  <2>5. t[k + 1] = bytes[(k + 1) + 1]
    BY <1>2, <2>1
  <2> QED
    BY <2>2, <2>3, <2>4, <2>5
<1> HIDE DEF P
<1>9. \A k \in Nat : k \in P
  BY <1>7, <1>8, SetInduction
<1>10. n - 1 \in Nat /\ (n - 1) + 1 = n
  BY <1>1
<1>11. w[n - 1] = v[n]
  <2>1. n - 1 \in P
    BY <1>9, <1>10
  <2> QED
    BY <1>10, <2>1 DEF P
<1> QED
  BY <1>2, <1>3, <1>4, <1>11 DEF begin, t

\* n bytes hold less than Power(radix, n).
LEMMA FromBytesBound ==
  ASSUME NEW radix \in Nat \ {0}, NEW bytes \in Seq(Nat),
         \A k \in 1 .. Len(bytes) : bytes[k] < radix
  PROVE  FromBytes(radix, 0, bytes) \in 0 .. Power(radix, Len(bytes)) - 1
<1> DEFINE n == Len(bytes)
<1>1. n \in Nat /\ \A k \in 1 .. n : bytes[k] \in 0 .. radix - 1
  OBVIOUS
<1>2. PICK v : Reads(v, radix, 0, bytes) /\ FromBytes(radix, 0, bytes) = v[n]
  BY FromBytesFacts
<1>3. v[0] = 0 /\ Shifts(v, radix, bytes, n)
  BY <1>2 DEF Reads
<1> HIDE DEF n
<1> DEFINE P == {k \in Nat : k <= n => v[k] \in 0 .. Power(radix, k) - 1}
<1>4. 0 \in P
  <2>1. Power(radix, 0) = 1
    BY PowerFacts
  <2> QED
    BY <1>3, <2>1
<1>5. ASSUME NEW k \in Nat, k \in P
      PROVE  k + 1 \in P
  <2> SUFFICES ASSUME k + 1 <= n PROVE v[k + 1] \in 0 .. Power(radix, k + 1) - 1
    OBVIOUS
  <2> DEFINE m == Power(radix, k)
             x == v[k]
             b == bytes[k + 1]
  <2>1. k + 1 \in 1 .. n /\ (k + 1) - 1 = k
    BY <1>1
  <2>2. m \in Nat \ {0} /\ Power(radix, k + 1) = radix * m
    BY PowerFacts
  <2>3. x \in 0 .. m - 1
    BY <1>1, <1>5
  <2>4. b \in 0 .. radix - 1
    BY <1>1, <2>1
  <2>5. v[k + 1] = x * radix + b
    BY <1>3, <2>1 DEF Shifts
  <2> HIDE DEF m, x, b
  <2>6. x * radix + b \in 0 .. radix * m - 1
    <3>1. x * radix \in 0 .. (m - 1) * radix
      BY <2>2, <2>3
    <3>2. (m - 1) * radix = radix * m - radix /\ radix * m \in Nat
      BY <2>2
    <3> QED
      BY <2>4, <3>1, <3>2
  <2> QED
    BY <2>2, <2>5, <2>6
<1> HIDE DEF P
<1>6. \A k \in Nat : k \in P
  BY <1>4, <1>5, SetInduction
<1>7. v[n] \in 0 .. Power(radix, n) - 1
  BY <1>1, <1>6 DEF P
<1> QED
  BY <1>2, <1>7 DEF n

\* m + n bytes hold what m bytes and n bytes hold.
LEMMA PowerSum ==
  ASSUME NEW radix \in Nat \ {0}, NEW n \in Nat
  PROVE  \A m \in Nat : Power(radix, m + n) = Power(radix, m) * Power(radix, n)
<1> DEFINE P == {m \in Nat : Power(radix, m + n) = Power(radix, m) * Power(radix, n)}
<1>1. 0 \in P
  BY PowerFacts
<1>2. ASSUME NEW m \in Nat, m \in P
      PROVE  m + 1 \in P
  <2>1. (m + 1) + n = (m + n) + 1 /\ m + n \in Nat
    OBVIOUS
  <2>2. Power(radix, (m + n) + 1) = radix * Power(radix, m + n)
    BY <2>1, PowerFacts
  <2>3. Power(radix, m + 1) = radix * Power(radix, m)
    BY PowerFacts
  <2>4. Power(radix, m) \in Nat /\ Power(radix, n) \in Nat
    BY PowerFacts
  <2>5. Power(radix, m + n) = Power(radix, m) * Power(radix, n)
    BY <1>2
  <2>6. radix * (Power(radix, m) * Power(radix, n)) = (radix * Power(radix, m)) * Power(radix, n)
    BY <2>4
  <2> QED
    BY <2>1, <2>2, <2>3, <2>5, <2>6
<1> HIDE DEF P
<1>3. \A m \in Nat : m \in P
  BY <1>1, <1>2, SetInduction
<1> QED
  BY <1>3 DEF P

\* A remainder survives a coarser one.
LEMMA ModMod ==
  ASSUME NEW x \in Int, NEW a \in Nat \ {0}, NEW b \in Nat \ {0}
  PROVE  (x % (a * b)) \in Nat /\ (x % (a * b)) % a = x % a
<1> DEFINE c == a * b
           u == x % c
           q == x \div c
           r == u % a
           p == u \div a
<1>1. c \in Nat \ {0}
  OBVIOUS
<1>2. u \in Nat /\ q \in Int /\ x = q * c + u
  <2> HIDE DEF c
  <2> QED
    BY <1>1
<1>3. r \in 0 .. a - 1 /\ p \in Int /\ u = p * a + r
  <2>1. u \in Nat
    BY <1>2
  <2> HIDE DEF u
  <2> QED
    BY <2>1
<1> HIDE DEF u, q, r, p
<1>4. x = (q * b + p) * a + r
  BY <1>2, <1>3
<1>5. q * b + p \in Int
  BY <1>2, <1>3
<1>6. x % a = r
  <2> DEFINE k == q * b + p
  <2>1. k \in Int /\ x = k * a + r
    BY <1>4, <1>5
  <2> HIDE DEF k
  <2> QED
    BY <1>3, <2>1
<1> QED
  BY <1>2, <1>6 DEF u, r

\* Products keep an order.
LEMMA MulMonotonic ==
  ASSUME NEW x \in Int, NEW y \in Int, NEW a \in Nat, x <= y
  PROVE  x * a <= y * a
  OBVIOUS

\* The remainder of a number of either sign, within one divisor of zero.
LEMMA ModNear ==
  ASSUME NEW x \in Int, NEW a \in Nat \ {0}, -a <= x, x < a
  PROVE  x % a = IF x < 0 THEN x + a ELSE x
<1>1. CASE x >= 0
  BY <1>1
<1>2. CASE x < 0
  <2>1. x = (-1) * a + (x + a) /\ x + a \in 0 .. a - 1
    BY <1>2
  <2> QED
    BY <1>2, <2>1
<1> QED
  BY <1>1, <1>2

-----------------------------------------------------------------------------
(* Integers *)

\* The widths of the code are parts of eight bytes.
LEMMA WidthPower ==
  ASSUME NEW n \in Widths
  PROVE  /\ n \in Nat \ {0} /\ n - 1 \in Nat /\ 8 - n \in Nat
         /\ Power(Digit, n) \in Nat \ {0}
         /\ Power(Digit, n - 1) \in Nat \ {0}
         /\ Power(Digit, n) = Digit * Power(Digit, n - 1)
         /\ Power(Digit, 8 - n) \in Nat \ {0}
         /\ Power(Digit, 8) = Power(Digit, n) * Power(Digit, 8 - n)
<1>1. n \in Nat \ {0} /\ n - 1 \in Nat /\ 8 - n \in Nat /\ (n - 1) + 1 = n
  BY DEF Widths
<1>2. Digit \in Nat \ {0}
  BY DigitAssumption
<1>3. Power(Digit, (n - 1) + 1) = Digit * Power(Digit, n - 1)
  BY <1>1, <1>2, PowerFacts
<1>4. Power(Digit, n + (8 - n)) = Power(Digit, n) * Power(Digit, 8 - n)
  BY <1>1, <1>2, PowerSum
<1>5. n + (8 - n) = 8
  BY <1>1
<1> QED
  BY <1>1, <1>2, <1>3, <1>4, <1>5, PowerFacts

\* write_uint_be and read_uint_be.
LEMMA UnsignedRoundTrip ==
  ASSUME NEW n \in Widths, NEW x \in Nat, FitsUnsigned(x, n)
  PROVE  ReadUintBe(WriteBe(x, n)) = x
<1> DEFINE a == Power(Digit, n)
           b == Power(Digit, 8 - n)
<1>1. /\ n \in Nat /\ Digit \in Nat \ {0}
      /\ a \in Nat \ {0} /\ b \in Nat \ {0} /\ Power(Digit, 8) = a * b
  BY DigitAssumption, WidthPower
<1>2. x % Power(Digit, 8) \in Nat /\ (x % Power(Digit, 8)) % a = x % a
  <2> HIDE DEF a, b
  <2>1. x \in Int
    OBVIOUS
  <2>2. x % (a * b) \in Nat /\ (x % (a * b)) % a = x % a
    BY <1>1, <2>1, ModMod
  <2> QED
    BY <1>1, <2>2
<1>3. x % a = x
  BY <1>1 DEF FitsUnsigned
<1>4. FromBytes(Digit, 0, ToBytes(Digit, x % Power(Digit, 8), n)) = (x % Power(Digit, 8)) % a
  BY <1>1, <1>2, ReadsWhatIsWritten
<1> QED
  BY <1>2, <1>3, <1>4 DEF ReadUintBe, WriteBe

\* write_int_be and read_int_be: two's complement and sign extension.
LEMMA SignedRoundTrip ==
  ASSUME NEW n \in Widths, NEW x \in Int, FitsSigned(x, n)
  PROVE  ReadIntBe(WriteBe(x, n)) = x
<1> DEFINE a == Power(Digit, n)
           b == Power(Digit, 8 - n)
           c == Power(Digit, n - 1)
           h == Digit \div 2
           u == x % Power(Digit, 8)
           bytes == ToBytes(Digit, u, n)
           t == Tail(bytes)
           low == FromBytes(Digit, 0, t)
           first == IF bytes[1] < h THEN bytes[1] ELSE bytes[1] - Digit
<1>1. /\ n \in Nat \ {0} /\ n - 1 \in Nat /\ Digit \in Nat \ {0}
      /\ a \in Nat \ {0} /\ b \in Nat \ {0} /\ c \in Nat \ {0}
      /\ Power(Digit, 8) = a * b /\ a = Digit * c
  BY DigitAssumption, WidthPower
<1>2. h \in Nat /\ Digit = 2 * h
  BY DigitAssumption
<1>3. u \in Nat /\ u % a = x % a
  <2> HIDE DEF a, b
  <2>1. x % (a * b) \in Nat /\ (x % (a * b)) % a = x % a
    BY <1>1, ModMod
  <2> QED
    BY <1>1, <2>1
<1>4. bytes \in Seq(Nat) /\ Len(bytes) = n /\ \A k \in 1 .. n : bytes[k] \in 0 .. Digit - 1
  BY <1>1, <1>3, ToBytesFacts
<1>5. FromBytes(Digit, 0, bytes) = x % a
  BY <1>1, <1>3, ReadsWhatIsWritten
<1> HIDE DEF u, bytes
<1>6. /\ bytes # <<>> /\ bytes[1] \in 0 .. Digit - 1
      /\ t \in Seq(Nat) /\ Len(t) = n - 1
      /\ \A k \in 1 .. n - 1 : t[k] \in 0 .. Digit - 1
  <2>1. bytes # <<>> /\ 1 \in 1 .. n
    BY <1>1, <1>4
  <2>2. t \in Seq(Nat) /\ Len(t) = n - 1 /\ \A k \in 1 .. n - 1 : t[k] = bytes[k + 1]
    BY <1>4, <2>1, HeadTailProperties
  <2>3. \A k \in 1 .. n - 1 : k + 1 \in 1 .. n
    BY <1>1
  <2> HIDE DEF t
  <2> QED
    BY <1>4, <2>1, <2>2, <2>3
<1> HIDE DEF t, a, b, c, h
<1>7. low \in 0 .. c - 1
  <2>1. \A k \in 1 .. Len(t) : t[k] < Digit
    BY <1>1, <1>6
  <2>2. low \in 0 .. Power(Digit, Len(t)) - 1
    BY <1>1, <1>6, <2>1, FromBytesBound
  <2> QED
    BY <1>6, <2>2 DEF c
<1>8. x % a = low + bytes[1] * c
  <2>1. FromBytes(Digit, 0, bytes) = FromBytes(Digit, 0 * Digit + bytes[1], t)
    BY <1>1, <1>4, <1>6, FromBytesTail DEF t
  <2>2. 0 * Digit + bytes[1] = 0 + bytes[1]
    BY <1>1, <1>6
  <2>3. FromBytes(Digit, 0 + bytes[1], t) = low + bytes[1] * Power(Digit, Len(t))
    <3>1. bytes[1] \in Int /\ 0 \in Int
      BY <1>1, <1>6
    <3> QED
      BY <1>1, <1>6, <3>1, FromBytesShift
  <2> QED
    BY <1>5, <1>6, <2>1, <2>2, <2>3 DEF c
<1>9. ReadIntBe(bytes) = low + first * c
  <2>1. ReadIntBe(bytes) = FromBytes(Digit, first, t)
    BY DEF ReadIntBe, t, h
  <2>2. first \in Int /\ 0 + first = first
    BY <1>1, <1>2, <1>6
  <2> HIDE DEF first
  <2>3. FromBytes(Digit, 0 + first, t) = low + first * Power(Digit, Len(t))
    <3>1. 0 \in Int
      OBVIOUS
    <3> QED
      BY <1>1, <1>6, <2>2, <3>1, FromBytesShift
  <2> QED
    BY <1>6, <2>1, <2>2, <2>3 DEF c
<1>10. a \div 2 = h * c /\ a = h * c + h * c
  <2>1. a = 2 * (h * c) /\ h * c \in Nat
    BY <1>1, <1>2
  <2> QED
    BY <2>1
<1>11. -(h * c) <= x /\ x < h * c
  BY <1>10 DEF FitsSigned, a
<1> HIDE DEF low
<1>12. x % a = IF x < 0 THEN x + a ELSE x
  <2>1. h * c \in Nat
    BY <1>1, <1>2
  <2>2. -a <= x /\ x < a
    BY <1>1, <1>10, <1>11, <2>1
  <2> QED
    BY <1>1, <2>2, ModNear
<1>13. CASE bytes[1] < h
  <2>1. bytes[1] * c <= (h - 1) * c /\ (h - 1) * c = h * c - c
    <3>1. bytes[1] \in Int /\ h - 1 \in Int /\ bytes[1] <= h - 1 /\ c \in Nat
      BY <1>1, <1>2, <1>6, <1>13
    <3>2. bytes[1] * c <= (h - 1) * c
      BY <3>1, MulMonotonic
    <3>3. (h - 1) * c = h * c - c
      BY <1>1, <1>2
    <3> QED
      BY <3>2, <3>3
  <2>2. x % a < h * c
    BY <1>1, <1>2, <1>6, <1>7, <1>8, <2>1
  <2>3. x >= 0
    BY <1>1, <1>2, <1>10, <1>11, <1>12, <2>2
  <2> QED
    BY <1>8, <1>9, <1>12, <1>13, <2>3 DEF bytes, WriteBe, u
<1>14. CASE ~(bytes[1] < h)
  <2>1. bytes[1] * c >= h * c
    <3>1. bytes[1] \in Int /\ h \in Int /\ h <= bytes[1] /\ c \in Nat
      BY <1>1, <1>2, <1>6, <1>14
    <3>2. h * c <= bytes[1] * c /\ h * c \in Int /\ bytes[1] * c \in Int
      BY <3>1, MulMonotonic
    <3> QED
      BY <3>2
  <2>2. x % a >= h * c
    BY <1>1, <1>2, <1>6, <1>7, <1>8, <2>1
  <2>3. x < 0
    BY <1>1, <1>2, <1>11, <1>12, <2>2
  <2>4. (bytes[1] - Digit) * c = bytes[1] * c - a
    BY <1>1, <1>6
  <2>5. bytes[1] * c \in Int /\ a \in Int /\ low \in Int
    BY <1>1, <1>6, <1>7
  <2>6. low + (bytes[1] - Digit) * c = x
    BY <1>8, <1>12, <2>3, <2>4, <2>5
  <2> QED
    BY <1>9, <1>14, <2>6 DEF bytes, WriteBe, u
<1> QED
  BY <1>13, <1>14

-----------------------------------------------------------------------------
(* The record header *)

\* A stretch of a sequence, by its elements.
LEMMA SubSeqIs ==
  ASSUME NEW s \in Seq(Nat), NEW t \in Seq(Nat), NEW m \in Nat \ {0},
         m + Len(t) - 1 <= Len(s),
         \A k \in 1 .. Len(t) : s[m + k - 1] = t[k]
  PROVE  SubSeq(s, m, m + Len(t) - 1) = t
<1> DEFINE n == m + Len(t) - 1
           u == SubSeq(s, m, n)
<1>1. m \in Int /\ n \in Int /\ n - m + 1 = Len(t) /\ Len(t) \in Nat
  OBVIOUS
<1>2. \A i \in m .. n : s[i] \in Nat
  OBVIOUS
<1> HIDE DEF n
<1>3. /\ u \in Seq(Nat)
      /\ Len(u) = IF m <= n THEN n - m + 1 ELSE 0
      /\ \A i \in 1 .. n - m + 1 : u[i] = s[m + i - 1]
  BY <1>1, <1>2, SubSeqProperties
<1>4. Len(u) = Len(t) /\ \A i \in 1 .. Len(t) : u[i] = t[i]
  BY <1>1, <1>3
<1> HIDE DEF u
<1> QED
  BY <1>3, <1>4, SeqEqual DEF n, u

\* A number that fits its field is read back.
LEMMA FieldRoundTrip ==
  ASSUME NEW n \in Nat, NEW x \in Nat, x < Power(Field, n)
  PROVE  FromBytes(Field, 0, FieldBytes(x, n)) = x
<1>1. Field \in Nat \ {0}
  BY FieldAssumption
<1>2. Power(Field, n) \in Nat \ {0}
  BY <1>1, PowerFacts
<1>3. x % Power(Field, n) = x
  BY <1>2
<1> QED
  BY <1>1, <1>3, ReadsWhatIsWritten DEF FieldBytes

\* The powers of the header fields.
LEMMA FieldPowers ==
  /\ Field \in Nat \ {0}
  /\ Power(Field, 1) = Field
  /\ Power(Field, 2) = Field * Field
  /\ Power(Field, 3) = Field * Field * Field
<1>1. Field \in Nat \ {0}
  BY FieldAssumption
<1>2. /\ Power(Field, 0 + 1) = Field * Power(Field, 0)
      /\ Power(Field, 1 + 1) = Field * Power(Field, 1)
      /\ Power(Field, 2 + 1) = Field * Power(Field, 2)
      /\ Power(Field, 0) = 1
  BY <1>1, PowerFacts
<1>3. 0 + 1 = 1 /\ 1 + 1 = 2 /\ 2 + 1 = 3 /\ Field * 1 = Field
  BY <1>1
<1>4. Field * (Field * Field) = Field * Field * Field
  BY <1>1
<1> QED
  BY <1>1, <1>2, <1>3, <1>4

\* The forms chosen for an ID and a length hold them.
LEMMA FormsFit ==
  ASSUME NEW id \in Identifiers, NEW n \in Nat
  PROVE  /\ IdForm(id) \in 1 .. 2
         /\ id \in Nat /\ id < Power(Field, IdForm(id))
         /\ LengthForm(n) \in 0 .. 4
         /\ LengthForm(n) = 0 <=> n <= 7
         /\ LengthForm(n) \in 1 .. 3 => n < Power(Field, LengthForm(n))
<1>1. Field \in Nat /\ id \in Nat /\ id < Field * Field
  BY FieldPowers DEF Identifiers
<1>2. /\ IdForm(id) \in 1 .. 2
      /\ IdForm(id) = 1 => id < Field
  BY DEF IdForm
<1>3. id < Power(Field, IdForm(id))
  BY <1>1, <1>2, FieldPowers
<1>4. /\ LengthForm(n) \in 0 .. 4
      /\ LengthForm(n) = 0 <=> n <= 7
      /\ LengthForm(n) = 1 => n < Field
      /\ LengthForm(n) = 2 => n < Power(Field, 2)
      /\ LengthForm(n) = 3 => n < Power(Field, 3)
  BY DEF LengthForm
<1>5. LengthForm(n) \in 1 .. 3 => n < Power(Field, LengthForm(n))
  BY <1>4, FieldPowers
<1> QED
  BY <1>1, <1>2, <1>3, <1>4, <1>5

\* The header without the buffer it goes to.
Fields(id, n) ==
    <<TypeByte(id, n)>> \o FieldBytes(id, IdForm(id)) \o FieldBytes(n, LengthForm(n))

\* Its parts, in the place where the reader looks for them.
LEMMA FieldsFacts ==
  ASSUME NEW id \in Identifiers, NEW n \in Nat, LengthForm(n) # 4
  PROVE  LET i == IdForm(id)
             l == LengthForm(n)
         IN  /\ Fields(id, n) \in Seq(Nat)
             /\ Len(Fields(id, n)) = 1 + i + l
             /\ Fields(id, n)[1] = TypeByte(id, n)
             /\ FieldBytes(id, i) \in Seq(Nat) /\ Len(FieldBytes(id, i)) = i
             /\ FieldBytes(n, l) \in Seq(Nat) /\ Len(FieldBytes(n, l)) = l
             /\ \A k \in 1 .. i : Fields(id, n)[1 + k] = FieldBytes(id, i)[k]
             /\ \A k \in 1 .. l : Fields(id, n)[1 + i + k] = FieldBytes(n, l)[k]
<1> DEFINE i == IdForm(id)
           l == LengthForm(n)
           a == <<TypeByte(id, n)>>
           b == FieldBytes(id, i)
           c == FieldBytes(n, l)
<1>1. i \in 1 .. 2 /\ l \in 0 .. 3 /\ id \in Nat /\ (l = 0 <=> n <= 7)
  BY FormsFit
<1>2. /\ b \in Seq(Nat) /\ Len(b) = i
      /\ c \in Seq(Nat) /\ Len(c) = l
  <2>1. Field \in Nat \ {0}
    BY FieldPowers
  <2>2. i \in Nat /\ l \in Nat
    BY <1>1
  <2> HIDE DEF i, l
  <2>3. b \in Seq(Nat) /\ Len(b) = i
    BY <1>1, <2>1, <2>2, ToBytesFacts DEF FieldBytes
  <2>4. c \in Seq(Nat) /\ Len(c) = l
    BY <2>1, <2>2, ToBytesFacts DEF FieldBytes
  <2> QED
    BY <2>3, <2>4
<1>3. TypeByte(id, n) \in Nat
  <2>1. TypeByte(id, n) = 192 + 32 * (i - 1) + 8 * l + (IF n <= 7 THEN n ELSE 0)
    BY DEF TypeByte
  <2> HIDE DEF i, l
  <2> QED
    BY <1>1, <2>1
<1>4. a \in Seq(Nat) /\ Len(a) = 1 /\ a[1] = TypeByte(id, n)
  BY <1>3
<1> HIDE DEF i, l, a, b, c
<1> DEFINE ab == a \o b
           abc == ab \o c
<1>5. /\ ab \in Seq(Nat) /\ Len(ab) = 1 + i
      /\ ab[1] = TypeByte(id, n)
      /\ \A k \in 1 .. i : ab[1 + k] = b[k]
  <2>1. /\ ab \in Seq(Nat) /\ Len(ab) = Len(a) + Len(b)
        /\ \A k \in 1 .. Len(a) + Len(b) : ab[k] = IF k <= Len(a) THEN a[k] ELSE b[k - Len(a)]
    BY <1>2, <1>4, ConcatProperties
  <2> HIDE DEF ab
  <2> QED
    BY <1>1, <1>2, <1>4, <2>1
<1> HIDE DEF ab
<1>6. /\ abc \in Seq(Nat) /\ Len(abc) = 1 + i + l
      /\ \A k \in 1 .. 1 + i : abc[k] = ab[k]
      /\ \A k \in 1 .. l : abc[1 + i + k] = c[k]
  <2>1. /\ abc \in Seq(Nat) /\ Len(abc) = Len(ab) + Len(c)
        /\ \A k \in 1 .. Len(ab) + Len(c) : abc[k] = IF k <= Len(ab) THEN ab[k] ELSE c[k - Len(ab)]
    <3>1. ab \in Seq(Nat) /\ c \in Seq(Nat)
      BY <1>2, <1>5
    <3> QED
      BY <3>1, ConcatProperties
  <2> HIDE DEF abc
  <2> QED
    BY <1>1, <1>2, <1>5, <2>1
<1> HIDE DEF abc
<1>7. abc[1] = TypeByte(id, n) /\ \A k \in 1 .. i : abc[1 + k] = b[k]
  <2>1. 1 \in 1 .. 1 + i /\ \A k \in 1 .. i : 1 + k \in 1 .. 1 + i
    BY <1>1
  <2>2. ab[1] = TypeByte(id, n) /\ \A k \in 1 .. i : ab[1 + k] = b[k]
    BY <1>5
  <2>3. \A k \in 1 .. 1 + i : abc[k] = ab[k]
    BY <1>6
  <2> QED
    BY ONLY <2>1, <2>2, <2>3
<1>8. Fields(id, n) = abc
  BY DEF Fields, a, b, c, i, l, ab, abc
<1> QED
  BY <1>2, <1>6, <1>7, <1>8 DEF i, l, b, c

\* Bytes never make a negative number.
LEMMA FromBytesNatural ==
  ASSUME NEW radix \in Nat, NEW bytes \in Seq(Nat)
  PROVE  FromBytes(radix, 0, bytes) \in Nat
<1> DEFINE n == Len(bytes)
<1>1. n \in Nat /\ \A k \in 1 .. n : bytes[k] \in Nat
  OBVIOUS
<1>2. PICK v : Reads(v, radix, 0, bytes) /\ FromBytes(radix, 0, bytes) = v[n]
  BY FromBytesFacts
<1>3. v[0] = 0 /\ Shifts(v, radix, bytes, n)
  BY <1>2 DEF Reads
<1> HIDE DEF n
<1> DEFINE P == {k \in Nat : k <= n => v[k] \in Nat}
<1>4. 0 \in P
  BY <1>3
<1>5. ASSUME NEW k \in Nat, k \in P
      PROVE  k + 1 \in P
  <2> SUFFICES ASSUME k + 1 <= n PROVE v[k + 1] \in Nat
    OBVIOUS
  <2>1. k + 1 \in 1 .. n /\ (k + 1) - 1 = k
    BY <1>1
  <2>2. v[k] \in Nat /\ bytes[k + 1] \in Nat
    BY <1>1, <1>5, <2>1
  <2>3. v[k + 1] = v[k] * radix + bytes[k + 1]
    BY <1>3, <2>1 DEF Shifts
  <2>4. v[k] * radix \in Nat
    BY <2>2
  <2> QED
    BY <2>2, <2>3, <2>4
<1> HIDE DEF P
<1>6. \A k \in Nat : k \in P
  BY <1>4, <1>5, SetInduction
<1> QED
  BY <1>1, <1>2, <1>6 DEF P, n

\* write_tlv_header and wb_lwm2m_tlv_decode_header: type, ID, place and length of the
\* value come back, whatever follows the header.
LEMMA HeaderRoundTrip ==
  ASSUME NEW id \in Identifiers, NEW n \in Nat, LengthForm(n) # 4,
         NEW rest \in Seq(Nat), n <= Len(rest)
  PROVE  DecodeHeader(Fields(id, n) \o rest)
            = [ok |-> TRUE, type |-> 3, id |-> id, offset |-> Len(Fields(id, n)), len |-> n]
<1> DEFINE i == IdForm(id)
           l == LengthForm(n)
           f == Fields(id, n)
           b == FieldBytes(id, i)
           c == FieldBytes(n, l)
           short == IF n <= 7 THEN n ELSE 0
           buf == f \o rest
<1>1. /\ i \in 1 .. 2 /\ l \in 0 .. 3 /\ (l = 0 <=> n <= 7)
      /\ id \in Nat /\ id < Power(Field, i)
      /\ l \in 1 .. 3 => n < Power(Field, l)
  BY FormsFit
<1>2. /\ f \in Seq(Nat) /\ Len(f) = 1 + i + l /\ f[1] = TypeByte(id, n)
      /\ b \in Seq(Nat) /\ Len(b) = i
      /\ c \in Seq(Nat) /\ Len(c) = l
      /\ \A k \in 1 .. i : f[1 + k] = b[k]
      /\ \A k \in 1 .. l : f[1 + i + k] = c[k]
  BY FieldsFacts
<1>3. TypeByte(id, n) = 192 + 32 * (i - 1) + 8 * l + short
  BY DEF TypeByte
<1>4. FromBytes(Field, 0, b) = id
  BY <1>1, FieldRoundTrip
<1>5. l # 0 => FromBytes(Field, 0, c) = n
  BY <1>1, FieldRoundTrip
<1> HIDE DEF i, l, f, b, c
<1>6. short \in 0 .. 7 /\ (l = 0 => short = n)
  BY <1>1
<1> HIDE DEF short
<1>7. /\ buf \in Seq(Nat) /\ Len(buf) = 1 + i + l + Len(rest) /\ Len(rest) \in Nat
      /\ \A k \in 1 .. 1 + i + l : buf[k] = f[k]
  <2>1. f \in Seq(Nat) /\ rest \in Seq(Nat)
    BY <1>2
  <2>2. /\ buf \in Seq(Nat) /\ Len(buf) = Len(f) + Len(rest)
        /\ \A k \in 1 .. Len(f) + Len(rest) : buf[k] = IF k <= Len(f) THEN f[k] ELSE rest[k - Len(f)]
    BY <2>1, ConcatProperties
  <2> HIDE DEF buf
  <2>3. Len(rest) \in Nat /\ Len(f) = 1 + i + l
    BY <1>2
  <2>4. Len(buf) = 1 + i + l + Len(rest)
    BY <2>2, <2>3
  <2>5. ASSUME NEW k \in 1 .. 1 + i + l
        PROVE  buf[k] = f[k]
    <3>1. k <= Len(f) /\ k \in 1 .. Len(f) + Len(rest)
      BY <1>1, <2>3
    <3> QED
      BY <2>2, <3>1
  <2> QED
    BY <2>2, <2>3, <2>4, <2>5
<1> HIDE DEF buf
<1>8. buf[1] = 192 + 32 * (i - 1) + 8 * l + short
  BY <1>1, <1>2, <1>3, <1>7
<1>9. /\ buf[1] \div 64 = 3 /\ 1 + ((buf[1] \div 32) % 2) = i
      /\ (buf[1] \div 8) % 4 = l /\ buf[1] % 8 = short
  <2> DEFINE x == buf[1]
  <2>1. x = 192 + 32 * (i - 1) + 8 * l + short
    BY <1>8
  <2> HIDE DEF x
  <2>2. x \div 64 = 3 /\ 1 + ((x \div 32) % 2) = i /\ (x \div 8) % 4 = l /\ x % 8 = short
    <3>1. i \in 1 .. 2
      BY <1>1
    <3>2. l \in 0 .. 3
      BY <1>1
    <3>3. short \in 0 .. 7
      BY <1>6
    <3>4. x = 192 + 32 * (i - 1) + 8 * l + short
      BY <2>1
    <3> HIDE DEF x
    <3>5. x \in Nat
      BY <3>1, <3>2, <3>3, <3>4
    <3>6. x \div 64 = 3
      BY ONLY <3>1, <3>2, <3>3, <3>4, <3>5
    <3>7. x \div 32 = 6 + (i - 1)
      BY ONLY <3>1, <3>2, <3>3, <3>4, <3>5
    <3>8. x \div 8 = 24 + 4 * (i - 1) + l
      BY ONLY <3>1, <3>2, <3>3, <3>4, <3>5
    <3>9. x % 8 = short
      BY ONLY <3>1, <3>2, <3>3, <3>4, <3>5
    <3>10. (6 + (i - 1)) % 2 = i - 1
      BY ONLY <3>1
    <3>11. (24 + 4 * (i - 1) + l) % 4 = l
      BY ONLY <3>1, <3>2
    <3> QED
      BY <3>1, <3>6, <3>7, <3>8, <3>9, <3>10, <3>11
  <2> QED
    BY <2>2 DEF x
<1>10. SubSeq(buf, 2, 2 + i - 1) = b
  <2>1. 2 + Len(b) - 1 <= Len(buf) /\ 2 \in Nat \ {0}
    BY <1>1, <1>2, <1>7
  <2>2. \A k \in 1 .. Len(b) : buf[2 + k - 1] = b[k]
    <3>1. \A k \in 1 .. i : 2 + k - 1 = 1 + k /\ 1 + k \in 1 .. 1 + i + l
      BY <1>1
    <3>2. \A k \in 1 .. 1 + i + l : buf[k] = f[k]
      BY <1>7
    <3>3. Len(b) = i /\ \A k \in 1 .. i : f[1 + k] = b[k]
      BY <1>2
    <3> QED
      BY <3>1, <3>2, <3>3
  <2>3. b \in Seq(Nat) /\ buf \in Seq(Nat)
    BY <1>2, <1>7
  <2>4. SubSeq(buf, 2, 2 + Len(b) - 1) = b
    BY <2>1, <2>2, <2>3, SubSeqIs
  <2> QED
    BY <1>2, <2>4
<1>11. SubSeq(buf, 2 + i, 2 + i + l - 1) = c
  <2> DEFINE m == 2 + i
  <2>1. m + Len(c) - 1 <= Len(buf) /\ m \in Nat \ {0}
    <3>1. Len(c) = l /\ Len(buf) = 1 + i + l + Len(rest) /\ Len(rest) \in Nat
      BY <1>2, <1>7
    <3> QED
      BY <1>1, <3>1
  <2>2. \A k \in 1 .. Len(c) : buf[m + k - 1] = c[k]
    <3>1. \A k \in 1 .. l : m + k - 1 = 1 + i + k /\ 1 + i + k \in 1 .. 1 + i + l
      BY <1>1
    <3>2. \A k \in 1 .. 1 + i + l : buf[k] = f[k]
      BY <1>7
    <3>3. Len(c) = l /\ \A k \in 1 .. l : f[1 + i + k] = c[k]
      BY <1>2
    <3> HIDE DEF m
    <3> QED
      BY <3>1, <3>2, <3>3
  <2>3. c \in Seq(Nat) /\ buf \in Seq(Nat)
    BY <1>2, <1>7
  <2> HIDE DEF m
  <2>4. SubSeq(buf, m, m + Len(c) - 1) = c
    BY <2>1, <2>2, <2>3, SubSeqIs
  <2> QED
    BY <1>2, <2>4 DEF m
<1> DEFINE len == IF l = 0 THEN buf[1] % 8
                  ELSE FromBytes(Field, 0, SubSeq(buf, 2 + i, 2 + i + l - 1))
<1>12. len = n
  BY <1>5, <1>6, <1>9, <1>11
<1> HIDE DEF len
<1>13. ~CutShort(Len(buf), 1 + i + l, len)
  BY <1>1, <1>7, <1>12 DEF CutShort
<1>14. DecodeHeader(buf)
         = [ok |-> TRUE, type |-> 3, id |-> id, offset |-> 1 + i + l, len |-> n]
  BY <1>4, <1>9, <1>10, <1>12, <1>13 DEF DecodeHeader, len
<1> QED
  BY <1>2, <1>14 DEF buf, f

\* A prefix shorter than its record is refused.
LEMMA PrefixRefused ==
  ASSUME NEW rest \in Seq(Nat), rest # <<>>,
         NEW n \in 1 .. DecodeHeader(rest).offset + DecodeHeader(rest).len - 1
  PROVE  ~DecodeHeader(SubSeq(rest, 1, n)).ok
<1> DEFINE i == 1 + ((rest[1] \div 32) % 2)
           l == (rest[1] \div 8) % 4
           offset == 1 + i + l
           Length(s) == IF l = 0 THEN s[1] % 8
                        ELSE FromBytes(Field, 0, SubSeq(s, 2 + i, 2 + i + l - 1))
           p == SubSeq(rest, 1, n)
<1>1. rest[1] \in Nat /\ Len(rest) \in Nat \ {0}
  OBVIOUS
<1>2. i \in 1 .. 2 /\ l \in 0 .. 3
  <2>1. (rest[1] \div 32) \in Nat /\ (rest[1] \div 8) \in Nat
    BY <1>1
  <2>2. \A x \in Nat : 1 + (x % 2) \in 1 .. 2 /\ x % 4 \in 0 .. 3
    OBVIOUS
  <2> QED
    BY <2>1, <2>2, Zenon
<1>3. ~CutShort(Len(rest), offset, Length(rest))
  <2>1. SUFFICES ASSUME CutShort(Len(rest), offset, Length(rest))
                 PROVE  FALSE
    OBVIOUS
  <2>2. DecodeHeader(rest) = Undecoded
    BY <2>1 DEF DecodeHeader
  <2> QED
    BY <2>2 DEF Undecoded
<1>4. DecodeHeader(rest).offset = offset /\ DecodeHeader(rest).len = Length(rest)
  BY <1>3 DEF DecodeHeader
<1> HIDE DEF i, l
<1>5. offset \in Nat /\ offset >= 2
  BY <1>2
<1>6. Length(rest) \in Nat /\ offset + Length(rest) <= Len(rest)
  <2>1. SubSeq(rest, 2 + i, 2 + i + l - 1) \in Seq(Nat)
    <3>1. offset <= Len(rest)
      BY <1>1, <1>3, <1>5 DEF CutShort
    <3>2. 2 + i \in Int /\ 2 + i + l - 1 \in Int
          /\ \A k \in 2 + i .. 2 + i + l - 1 : k \in 1 .. Len(rest)
      BY <1>1, <1>2, <3>1
    <3>3. \A k \in 2 + i .. 2 + i + l - 1 : rest[k] \in Nat
      BY <3>2
    <3> QED
      BY <3>2, <3>3, SubSeqProperties
  <2>2. Field \in Nat
    BY FieldAssumption
  <2>3. Length(rest) \in Nat
    <3>1. rest[1] % 8 \in Nat
      BY <1>1
    <3>2. FromBytes(Field, 0, SubSeq(rest, 2 + i, 2 + i + l - 1)) \in Nat
      BY <2>1, <2>2, FromBytesNatural
    <3> QED
      BY <3>1, <3>2
  <2> HIDE DEF Length
  <2> QED
    BY <1>1, <1>3, <1>5, <2>3 DEF CutShort
<1>7. n \in 1 .. Len(rest) - 1 /\ n < offset + Length(rest)
  <2> HIDE DEF Length, offset
  <2> QED
    BY <1>1, <1>4, <1>5, <1>6
<1>8. p \in Seq(Nat) /\ Len(p) = n /\ p[1] = rest[1]
  <2>1. 1 \in Int /\ n \in Int /\ \A k \in 1 .. n : rest[k] \in Nat
    BY <1>1, <1>7
  <2>2. /\ p \in Seq(Nat) /\ Len(p) = IF 1 <= n THEN n - 1 + 1 ELSE 0
        /\ \A k \in 1 .. n - 1 + 1 : p[k] = rest[1 + k - 1]
    BY <2>1, SubSeqProperties
  <2> HIDE DEF p
  <2> QED
    BY <1>7, <2>2
<1>9. offset <= n => Length(p) = Length(rest)
  <2> SUFFICES ASSUME offset <= n, l # 0
               PROVE  SubSeq(p, 2 + i, 2 + i + l - 1) = SubSeq(rest, 2 + i, 2 + i + l - 1)
    BY <1>8
  <2> DEFINE a == 2 + i
             b == 2 + i + l - 1
  <2>1. /\ 1 \in 1 .. Len(rest) /\ n \in 1 .. Len(rest)
        /\ a \in 1 .. n - 1 + 1 /\ b \in 1 .. n - 1 + 1
    BY <1>1, <1>2, <1>7
  <2>2. 1 + a - 1 = a /\ 1 + b - 1 = b
    BY <1>2
  <2> HIDE DEF a, b
  <2>3. SubSeq(p, a, b) = SubSeq(rest, 1 + a - 1, 1 + b - 1)
    BY <2>1, SubSeqOfSubSeq
  <2> QED
    BY <2>2, <2>3 DEF a, b
<1>10. CutShort(n, offset, Length(p))
  <2> HIDE DEF Length, offset
  <2> QED
    BY <1>5, <1>7, <1>9 DEF CutShort
<1>11. DecodeHeader(p) = Undecoded
  BY <1>8, <1>10 DEF DecodeHeader, i, l
<1> QED
  BY <1>11 DEF Undecoded

-----------------------------------------------------------------------------
(* Values *)

\* The width of an integer is the least that holds it.
LEMMA IntByteCountLeast ==
  ASSUME NEW x \in Signed
  PROVE  /\ IntByteCount(x) \in Widths
         /\ FitsSigned(x, IntByteCount(x))
         /\ \A n \in Widths : FitsSigned(x, n) => IntByteCount(x) <= n
<1>1. Power(Digit, 8) \in Nat
  BY WidthPower DEF Widths
<1>2. FitsSigned(x, 8)
  <2> DEFINE h == Power(Digit, 8) \div 2
  <2>1. h \in Nat
    BY <1>1
  <2>2. x \in -h .. h - 1
    BY DEF Signed
  <2> HIDE DEF h
  <2>3. -h <= x /\ x < h
    BY <2>1, <2>2
  <2> QED
    BY <2>3 DEF FitsSigned, h
<1> QED
  BY <1>2 DEF IntByteCount, Widths

\* The same for an unsigned integer.
LEMMA UintByteCountLeast ==
  ASSUME NEW x \in Unsigned(8)
  PROVE  /\ UintByteCount(x) \in Widths
         /\ FitsUnsigned(x, UintByteCount(x))
         /\ \A n \in Widths : FitsUnsigned(x, n) => UintByteCount(x) <= n
<1>1. Power(Digit, 8) \in Nat
  BY WidthPower DEF Widths
<1>2. FitsUnsigned(x, 8)
  BY <1>1 DEF Unsigned, FitsUnsigned
<1> QED
  BY <1>2 DEF UintByteCount, Widths

\* An integer is written in as many bytes as asked for.
LEMMA WriteBeFacts ==
  ASSUME NEW n \in Widths, NEW x \in Int
  PROVE  WriteBe(x, n) \in Seq(Nat) /\ Len(WriteBe(x, n)) = n
<1>1. Power(Digit, 8) \in Nat \ {0} /\ n \in Nat /\ Digit \in Nat \ {0}
  BY WidthPower, DigitAssumption DEF Widths
<1>2. x % Power(Digit, 8) \in Nat
  BY <1>1
<1> QED
  BY <1>1, <1>2, ToBytesFacts DEF WriteBe

\* The shapes a value has.
LEMMA ValueShapes ==
  ASSUME NEW value \in Value
  PROVE  /\ value = [type |-> value.type, v |-> value.v]
         /\ \/ value.type \in ByteTypes /\ value.v \in Seq(Nat)
            \/ value.type \in SignedTypes /\ value.v \in Signed
            \/ value.type = "UINTEGER" /\ value.v \in Unsigned(8)
            \/ /\ value.type = "FLOAT"
               /\ value.v = [width |-> value.v.width, bits |-> value.v.bits]
               /\ value.v.width \in {4, 8} /\ value.v.bits \in Unsigned(value.v.width)
            \/ value.type = "BOOLEAN" /\ value.v \in BOOLEAN
            \/ value.type = "OBJLINK" /\ value.v \in Identifiers \X Identifiers
            \/ value.type = "NONE" /\ value.v = 0
<1>1. CASE value \in [type : ByteTypes, v : Seq(Nat)]
  BY <1>1
<1>2. CASE value \in [type : SignedTypes, v : Signed]
  BY <1>2
<1>3. CASE value \in [type : {"UINTEGER"}, v : Unsigned(8)]
  BY <1>3
<1>4. CASE value \in [type : {"FLOAT"},
             v : [width : {4}, bits : Unsigned(4)] \cup [width : {8}, bits : Unsigned(8)]]
  BY <1>4
<1>5. CASE value \in [type : {"BOOLEAN"}, v : BOOLEAN]
  BY <1>5
<1>6. CASE value \in [type : {"OBJLINK"}, v : Identifiers \X Identifiers]
  BY <1>6
<1>7. CASE value \in [type : {"NONE"}, v : {0}]
  BY <1>7
<1> QED
  BY <1>1, <1>2, <1>3, <1>4, <1>5, <1>6, <1>7 DEF Value

\* What the encoder yields for each type of value.
LEMMA ValueBytesCases ==
  ASSUME NEW value
  PROVE  /\ value.type \in ByteTypes
               => ValueBytes(value) = IF Len(value.v) > ValueMax THEN NoBytes ELSE value.v
         /\ value.type \in SignedTypes => ValueBytes(value) = WriteBe(value.v, IntByteCount(value.v))
         /\ value.type = "UINTEGER" => ValueBytes(value) = WriteBe(value.v, UintByteCount(value.v))
         /\ value.type = "FLOAT" => ValueBytes(value) = WriteBe(value.v.bits, value.v.width)
         /\ value.type = "BOOLEAN" => ValueBytes(value) = <<IF value.v THEN 1 ELSE 0>>
         /\ value.type = "OBJLINK"
               => ValueBytes(value) = FieldBytes(value.v[1], 2) \o FieldBytes(value.v[2], 2)
         /\ value.type = "NONE" => ValueBytes(value) = NoBytes
<1>1. value.type \in ByteTypes
         => ValueBytes(value) = IF Len(value.v) > ValueMax THEN NoBytes ELSE value.v
  BY Zenon DEF ValueBytes, ByteTypes, SignedTypes
<1>2. value.type \in SignedTypes => ValueBytes(value) = WriteBe(value.v, IntByteCount(value.v))
  BY Zenon DEF ValueBytes, ByteTypes, SignedTypes
<1>3. value.type = "UINTEGER" => ValueBytes(value) = WriteBe(value.v, UintByteCount(value.v))
  BY Zenon DEF ValueBytes, ByteTypes, SignedTypes
<1>4. value.type = "FLOAT" => ValueBytes(value) = WriteBe(value.v.bits, value.v.width)
  BY Zenon DEF ValueBytes, ByteTypes, SignedTypes
<1>5. value.type = "BOOLEAN" => ValueBytes(value) = <<IF value.v THEN 1 ELSE 0>>
  BY Zenon DEF ValueBytes, ByteTypes, SignedTypes
<1>6. value.type = "OBJLINK"
         => ValueBytes(value) = FieldBytes(value.v[1], 2) \o FieldBytes(value.v[2], 2)
  BY Zenon DEF ValueBytes, ByteTypes, SignedTypes
<1>7. value.type = "NONE" => ValueBytes(value) = NoBytes
  BY Zenon DEF ValueBytes, ByteTypes, SignedTypes
<1> QED
  BY <1>1, <1>2, <1>3, <1>4, <1>5, <1>6, <1>7

\* What the reader takes for a value of each type.
LEMMA DecodeValueCases ==
  ASSUME NEW type, NEW data
  PROVE  /\ type \in ByteTypes => DecodeValue(type, data) = [type |-> type, v |-> data]
         /\ type \in SignedTypes /\ Len(data) \in Widths
               => DecodeValue(type, data) = [type |-> type, v |-> ReadIntBe(data)]
         /\ type = "UINTEGER" /\ Len(data) \in Widths
               => DecodeValue(type, data) = [type |-> type, v |-> ReadUintBe(data)]
         /\ type = "FLOAT" /\ Len(data) \in {4, 8}
               => DecodeValue(type, data)
                     = [type |-> type, v |-> [width |-> Len(data), bits |-> ReadUintBe(data)]]
         /\ type = "BOOLEAN" /\ Len(data) = 1
               => DecodeValue(type, data) = [type |-> type, v |-> data[1] # 0]
         /\ type = "OBJLINK" /\ Len(data) = 4
               => DecodeValue(type, data)
                     = [type |-> type,
                        v |-> <<data[1] * Field + data[2], data[3] * Field + data[4]>>]
<1>1. type \in ByteTypes => DecodeValue(type, data) = [type |-> type, v |-> data]
  BY Zenon DEF DecodeValue, ByteTypes, SignedTypes
<1>2. type \in SignedTypes /\ Len(data) \in Widths
         => DecodeValue(type, data) = [type |-> type, v |-> ReadIntBe(data)]
  BY Zenon DEF DecodeValue, ByteTypes, SignedTypes
<1>3. type = "UINTEGER" /\ Len(data) \in Widths
         => DecodeValue(type, data) = [type |-> type, v |-> ReadUintBe(data)]
  BY Zenon DEF DecodeValue, ByteTypes, SignedTypes
<1>4. type = "FLOAT" /\ Len(data) \in {4, 8}
         => DecodeValue(type, data)
               = [type |-> type, v |-> [width |-> Len(data), bits |-> ReadUintBe(data)]]
  BY Zenon DEF DecodeValue, ByteTypes, SignedTypes
<1>5. type = "BOOLEAN" /\ Len(data) = 1
         => DecodeValue(type, data) = [type |-> type, v |-> data[1] # 0]
  BY Zenon DEF DecodeValue, ByteTypes, SignedTypes
<1>6. type = "OBJLINK" /\ Len(data) = 4
         => DecodeValue(type, data)
               = [type |-> type, v |-> <<data[1] * Field + data[2], data[3] * Field + data[4]>>]
  BY Zenon DEF DecodeValue, ByteTypes, SignedTypes
<1> QED
  BY <1>1, <1>2, <1>3, <1>4, <1>5, <1>6

\* The bytes of an integer or a FLOAT's bits, of any width that holds it.
LEMMA NumberBytes ==
  ASSUME NEW n \in Widths, NEW x \in Nat, FitsUnsigned(x, n)
  PROVE  /\ WriteBe(x, n) \in Seq(Nat) /\ Len(WriteBe(x, n)) = n
         /\ ReadUintBe(WriteBe(x, n)) = x
  BY WriteBeFacts, UnsignedRoundTrip

\* A pair of identifiers takes four bytes and is read back.
LEMMA PairBytes ==
  ASSUME NEW a \in Identifiers, NEW b \in Identifiers
  PROVE  LET data == FieldBytes(a, 2) \o FieldBytes(b, 2)
         IN  /\ data \in Seq(Nat) /\ Len(data) = 4
             /\ data[1] * Field + data[2] = a
             /\ data[3] * Field + data[4] = b
<1> DEFINE s == FieldBytes(a, 2)
           t == FieldBytes(b, 2)
           data == s \o t
<1>1. Field \in Nat \ {0} /\ a \in 0 .. Field * Field - 1 /\ b \in 0 .. Field * Field - 1
  BY FieldPowers DEF Identifiers
<1>2. Power(Field, 0) = 1 /\ Power(Field, 1) = Field
  BY <1>1, PowerFacts, FieldPowers
<1>3. ASSUME NEW x \in 0 .. Field * Field - 1
      PROVE  /\ FieldBytes(x, 2) \in Seq(Nat) /\ Len(FieldBytes(x, 2)) = 2
             /\ FieldBytes(x, 2)[1] * Field + FieldBytes(x, 2)[2] = x
  <2>1. x \in Nat /\ 2 - 1 = 1 /\ 2 - 2 = 0 /\ 1 \in 1 .. 2 /\ 2 \in 1 .. 2
    BY <1>1
  <2>2. /\ FieldBytes(x, 2) \in Seq(Nat) /\ Len(FieldBytes(x, 2)) = 2
        /\ FieldBytes(x, 2)[1] = (x \div Power(Field, 1)) % Field
        /\ FieldBytes(x, 2)[2] = (x \div Power(Field, 0)) % Field
    <3> DEFINE u == ToBytes(Field, x, 2)
    <3>1. /\ u \in Seq(Nat) /\ Len(u) = 2
          /\ \A k \in 1 .. 2 : u[k] = (x \div Power(Field, 2 - k)) % Field
      <4>1. Field \in Nat \ {0} /\ x \in Nat /\ 2 \in Nat
        BY <1>1, <2>1
      <4> QED
        BY ONLY <4>1, ToBytesFacts
    <3> HIDE DEF u
    <3>2. u[1] = (x \div Power(Field, 2 - 1)) % Field /\ u[2] = (x \div Power(Field, 2 - 2)) % Field
      BY <2>1, <3>1
    <3> QED
      BY <2>1, <3>1, <3>2 DEF u, FieldBytes
  <2>3. (x \div Power(Field, 0)) % Field = x % Field
    BY <1>2, <2>1
  <2>4. (x \div Field) % Field = x \div Field
    <3> DEFINE q == x \div Field
               r == x % Field
    <3>1. q \in Nat /\ r \in 0 .. Field - 1 /\ x = q * Field + r
      BY <1>1, <2>1
    <3> HIDE DEF q, r
    <3>2. q < Field
      <4>1. SUFFICES ASSUME q >= Field PROVE FALSE
        BY <1>1, <3>1
      <4>2. q * Field >= Field * Field
        BY <1>1, <3>1, <4>1, MulMonotonic
      <4> QED
        BY <1>1, <3>1, <4>2
    <3>3. q % Field = q
      BY <1>1, <3>1, <3>2
    <3> QED
      BY <3>3 DEF q
  <2>5. (x \div Field) * Field + (x % Field) = x
    BY <1>1, <2>1
  <2> QED
    BY <1>2, <2>2, <2>3, <2>4, <2>5
<1>4. /\ s \in Seq(Nat) /\ Len(s) = 2 /\ s[1] * Field + s[2] = a
      /\ t \in Seq(Nat) /\ Len(t) = 2 /\ t[1] * Field + t[2] = b
  BY <1>1, <1>3
<1> HIDE DEF s, t
<1>5. /\ data \in Seq(Nat) /\ Len(data) = 4
      /\ \A k \in 1 .. 4 : data[k] = IF k <= 2 THEN s[k] ELSE t[k - 2]
  <2>1. /\ data \in Seq(Nat) /\ Len(data) = Len(s) + Len(t)
        /\ \A k \in 1 .. Len(s) + Len(t) : data[k] = IF k <= Len(s) THEN s[k] ELSE t[k - Len(s)]
    <3>1. s \in Seq(Nat) /\ t \in Seq(Nat)
      BY <1>4
    <3> QED
      BY <3>1, ConcatProperties
  <2>2. Len(s) = 2 /\ Len(t) = 2
    BY <1>4
  <2> HIDE DEF data
  <2> QED
    BY <2>1, <2>2
<1> HIDE DEF data
<1>6. data[1] = s[1] /\ data[2] = s[2] /\ data[3] = t[1] /\ data[4] = t[2]
  BY <1>5
<1> QED
  BY <1>4, <1>5, <1>6 DEF data, s, t

\* A value that has a type and is not too long: its bytes, their number, and what the
\* reader makes of them.
LEMMA ValueEncoded ==
  ASSUME NEW value \in Value, value.type # "NONE",
         value.type \in ByteTypes => Len(value.v) <= ValueMax
  PROVE  LET bytes == ValueBytes(value)
         IN  /\ bytes \in Seq(Nat)
             /\ DecodeValue(value.type, bytes) = value
             /\ value.type \in ByteTypes => Len(bytes) = Len(value.v)
             /\ value.type \in SignedTypes => Len(bytes) = IntByteCount(value.v)
             /\ value.type = "UINTEGER" => Len(bytes) = UintByteCount(value.v)
             /\ value.type = "FLOAT" => Len(bytes) = value.v.width
             /\ value.type = "BOOLEAN" => Len(bytes) = 1
             /\ value.type = "OBJLINK" => Len(bytes) = 4
<1> DEFINE bytes == ValueBytes(value)
           type == value.type
           v == value.v
<1>1. value = [type |-> type, v |-> v]
  BY ValueShapes
<1>2. ValueMax \in Nat /\ Digit \in Nat \ {0} /\ Field \in Nat \ {0}
  BY ValueAssumption, DigitAssumption, FieldAssumption
<1>3. CASE type \in ByteTypes
  <2>1. v \in Seq(Nat)
    BY <1>3, ValueShapes DEF ByteTypes, SignedTypes
  <2>2. bytes = v
    <3>1. ~(Len(v) > ValueMax)
      BY <1>2, <1>3, <2>1
    <3> QED
      BY <1>3, <3>1, ValueBytesCases
  <2>3. DecodeValue(type, bytes) = [type |-> type, v |-> bytes]
    BY <1>3, DecodeValueCases
  <2>4. DecodeValue(type, bytes) = value
    BY <1>1, <2>2, <2>3
  <2> HIDE DEF bytes
  <2> QED
    BY <1>3, <2>1, <2>2, <2>4 DEF ByteTypes, SignedTypes, bytes
<1>4. CASE type \in SignedTypes
  <2> DEFINE n == IntByteCount(v)
  <2>1. v \in Signed
    BY <1>4, ValueShapes DEF ByteTypes, SignedTypes
  <2>2. n \in Widths /\ FitsSigned(v, n) /\ v \in Int
    BY <2>1, IntByteCountLeast DEF Signed
  <2>3. bytes = WriteBe(v, n)
    BY <1>4, ValueBytesCases
  <2> HIDE DEF n
  <2>4. bytes \in Seq(Nat) /\ Len(bytes) = n
    BY <2>2, <2>3, WriteBeFacts
  <2>5. ReadIntBe(bytes) = v
    BY <2>2, <2>3, SignedRoundTrip
  <2> HIDE DEF bytes
  <2>6. DecodeValue(type, bytes) = [type |-> type, v |-> ReadIntBe(bytes)]
    BY <1>4, <2>2, <2>4, DecodeValueCases
  <2>7. DecodeValue(type, bytes) = value
    BY <1>1, <2>5, <2>6
  <2> QED
    BY <1>4, <2>4, <2>7 DEF ByteTypes, SignedTypes, bytes, n
<1>5. CASE type = "UINTEGER"
  <2> DEFINE n == UintByteCount(v)
  <2>1. v \in Unsigned(8)
    BY <1>5, ValueShapes DEF ByteTypes, SignedTypes
  <2>2. n \in Widths /\ FitsUnsigned(v, n) /\ v \in Nat
    BY <2>1, UintByteCountLeast DEF Unsigned
  <2>3. bytes = WriteBe(v, n)
    BY <1>5, ValueBytesCases
  <2> HIDE DEF n
  <2>4. bytes \in Seq(Nat) /\ Len(bytes) = n /\ ReadUintBe(bytes) = v
    BY <2>2, <2>3, NumberBytes
  <2> HIDE DEF bytes
  <2>5. DecodeValue(type, bytes) = [type |-> type, v |-> ReadUintBe(bytes)]
    BY <1>5, <2>2, <2>4, DecodeValueCases
  <2>6. DecodeValue(type, bytes) = value
    BY <1>1, <2>4, <2>5
  <2> QED
    BY <1>5, <2>4, <2>6 DEF ByteTypes, SignedTypes, bytes, n
<1>6. CASE type = "FLOAT"
  <2> DEFINE n == v.width
             x == v.bits
  <2>1. v = [width |-> n, bits |-> x] /\ n \in {4, 8} /\ x \in Unsigned(n)
    BY <1>6, ValueShapes DEF ByteTypes, SignedTypes
  <2>2. bytes = WriteBe(x, n)
    BY <1>6, ValueBytesCases
  <2> HIDE DEF n, x
  <2>3. n \in Widths /\ Power(Digit, n) \in Nat
    BY <2>1, WidthPower DEF Widths
  <2>4. x \in Nat /\ FitsUnsigned(x, n)
    BY <2>1, <2>3 DEF Unsigned, FitsUnsigned
  <2>5. bytes \in Seq(Nat) /\ Len(bytes) = n /\ ReadUintBe(bytes) = x
    BY <2>2, <2>3, <2>4, NumberBytes
  <2> HIDE DEF bytes
  <2>6. DecodeValue(type, bytes)
           = [type |-> type, v |-> [width |-> Len(bytes), bits |-> ReadUintBe(bytes)]]
    <3>1. Len(bytes) \in {4, 8}
      BY <2>1, <2>5, Zenon
    <3> QED
      BY <1>6, <3>1, DecodeValueCases, Zenon
  <2>7. DecodeValue(type, bytes) = value
    BY <1>1, <2>1, <2>5, <2>6
  <2> QED
    BY <1>6, <2>5, <2>7 DEF ByteTypes, SignedTypes, bytes, n
<1>7. CASE type = "BOOLEAN"
  <2>1. v \in BOOLEAN
    BY <1>7, ValueShapes DEF ByteTypes, SignedTypes
  <2>2. bytes = <<IF v THEN 1 ELSE 0>>
    BY <1>7, ValueBytesCases
  <2>3. CASE v = TRUE
    <3>1. bytes = <<1>>
      BY <2>2, <2>3, Zenon
    <3>2. bytes \in Seq(Nat) /\ Len(bytes) = 1
      BY <3>1
    <3>3. bytes[1] # 0
      BY <3>1
    <3>4. (bytes[1] # 0) = v
      BY <2>3, <3>3, Zenon
    <3>5. DecodeValue(type, bytes) = [type |-> type, v |-> bytes[1] # 0]
      BY <1>7, <3>2, DecodeValueCases
    <3>6. DecodeValue(type, bytes) = value
      BY <1>1, <3>4, <3>5, Zenon
    <3> QED
      BY <1>7, <3>2, <3>6 DEF ByteTypes, SignedTypes
  <2>4. CASE v = FALSE
    <3>1. bytes = <<0>>
      BY <2>2, <2>4, Zenon
    <3>2. bytes \in Seq(Nat) /\ Len(bytes) = 1
      BY <3>1
    <3>3. ~(bytes[1] # 0)
      BY <3>1
    <3>4. (bytes[1] # 0) = v
      BY <2>4, <3>3, Zenon
    <3>5. DecodeValue(type, bytes) = [type |-> type, v |-> bytes[1] # 0]
      BY <1>7, <3>2, DecodeValueCases
    <3>6. DecodeValue(type, bytes) = value
      BY <1>1, <3>4, <3>5, Zenon
    <3> QED
      BY <1>7, <3>2, <3>6 DEF ByteTypes, SignedTypes
  <2> QED
    BY <2>1, <2>3, <2>4
<1>8. CASE type = "OBJLINK"
  <2> DEFINE a == v[1]
             b == v[2]
  <2>1. v = <<a, b>> /\ a \in Identifiers /\ b \in Identifiers
    <3>1. v \in Identifiers \X Identifiers
      BY <1>8, ValueShapes DEF ByteTypes, SignedTypes
    <3> QED
      BY <3>1
  <2>2. bytes = FieldBytes(a, 2) \o FieldBytes(b, 2)
    BY <1>8, ValueBytesCases
  <2> HIDE DEF a, b
  <2>3. /\ bytes \in Seq(Nat) /\ Len(bytes) = 4
        /\ bytes[1] * Field + bytes[2] = a /\ bytes[3] * Field + bytes[4] = b
    BY <2>1, <2>2, PairBytes
  <2> HIDE DEF bytes
  <2>4. DecodeValue(type, bytes)
           = [type |-> type,
              v |-> <<bytes[1] * Field + bytes[2], bytes[3] * Field + bytes[4]>>]
    BY <1>8, <2>3, DecodeValueCases
  <2>5. DecodeValue(type, bytes) = value
    BY <1>1, <2>1, <2>3, <2>4
  <2> QED
    BY <1>8, <2>3, <2>5 DEF ByteTypes, SignedTypes, bytes
<1> QED
  BY <1>3, <1>4, <1>5, <1>6, <1>7, <1>8, ValueShapes

\* A value has no bytes when it has no type or is too long, and only then.
LEMMA NoBytesWhen ==
  ASSUME NEW value \in Value
  PROVE  ValueBytes(value) = NoBytes
            <=> value.type = "NONE" \/ (value.type \in ByteTypes /\ Len(value.v) > ValueMax)
<1>1. NoBytes \notin Seq(Nat)
  BY DEF NoBytes
<1>2. CASE value.type = "NONE"
  BY <1>2, ValueBytesCases
<1>3. CASE value.type \in ByteTypes /\ Len(value.v) > ValueMax
  BY <1>3, ValueBytesCases
<1>4. CASE value.type # "NONE" /\ ~(value.type \in ByteTypes /\ Len(value.v) > ValueMax)
  <2>1. value.type \in ByteTypes => value.v \in Seq(Nat)
    BY ValueShapes DEF ByteTypes, SignedTypes
  <2>2. value.type \in ByteTypes => Len(value.v) <= ValueMax
    BY <1>4, <2>1, ValueAssumption
  <2> QED
    BY <1>1, <1>4, <2>2, ValueEncoded
<1> QED
  BY <1>2, <1>3, <1>4
=============================================================================
