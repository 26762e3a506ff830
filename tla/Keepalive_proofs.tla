--------------------------- MODULE Keepalive_proofs ---------------------------
(* What holds of Keepalive for every lifetime, tick rate, word and delay. *)
EXTENDS Keepalive, TLAPS

\* A product that wraps only gets smaller (interval_ms, pdMS_TO_TICKS).
LEMMA WrapShrinks ==
    ASSUME NEW n \in Nat, NEW w \in Nat \ {0}
    PROVE  n % w \in Nat /\ n % w <= n
BY Z3

\* What a division loses.
LEMMA DivShrinks ==
    ASSUME NEW n \in Nat, NEW d \in Nat \ {0}
    PROVE  n \div d \in Nat /\ (n \div d) * d <= n
BY Z3

\* Products keep the order of natural numbers.
LEMMA ProductGrows ==
    ASSUME NEW a \in Nat, NEW b \in Nat, NEW c \in Nat, a <= b
    PROVE  a * c \in Nat /\ b * c \in Nat /\ a * c <= b * c
BY Z3

\* A positive factor can be taken from both sides.
LEMMA ProductCancels ==
    ASSUME NEW a \in Nat, NEW b \in Nat, NEW c \in Nat \ {0}, a * c <= b * c
    PROVE  a <= b
BY Z3

\* One more factor.
LEMMA OneMore ==
    ASSUME NEW n \in Nat, NEW c \in Nat
    PROVE  n * c \in Nat /\ (n + 1) * c = n * c + c
BY Z3

\* A sum of natural numbers is not negative.
LEMMA SumIsNat ==
    ASSUME NEW a \in Nat, NEW b \in Nat
    PROVE  0 <= a + b
OBVIOUS

\* A bound holds on as time goes by.
LEMMA LaterStill ==
    ASSUME NEW a \in Nat, NEW b \in Nat, NEW c \in Nat, NEW d \in Nat, a <= b, b <= c
    PROVE  a <= c + d
OBVIOUS

\* The interval of start_update_timer is at most the larger of 80 % of the lifetime
\* and the minimum.
LEMMA IntervalBound ==
    ASSUME NEW l \in Nat
    PROVE  /\ Interval(l) \in Nat
           /\ Interval(l) <= Minimum \/ Interval(l) <= l * Share
<1> DEFINE product == l * Share
           ms == product % Word
<1>1. product \in Nat
  BY TimeAssumption, Z3
<1>2. ms \in Nat /\ ms <= product
  <2> HIDE DEF product
  <2>1. QED BY <1>1, TimeAssumption, WrapShrinks
<1>3. Interval(l) = IF ms < Minimum THEN Minimum ELSE ms
  BY DEF Interval
<1> HIDE DEF ms
<1>4. Interval(l) \in Nat /\ (Interval(l) <= Minimum \/ Interval(l) <= product)
  <2> HIDE DEF product
  <2>1. QED BY <1>1, <1>2, <1>3, TimeAssumption
<1>5. QED
  BY <1>4

\* pdMS_TO_TICKS never gives more ticks than the time asked for.
LEMMA TicksBound ==
    ASSUME NEW ms \in Nat
    PROVE  Ticks(ms) \in Nat /\ Ticks(ms) * PerSecond <= ms * TickRate
<1> DEFINE product == ms * TickRate
           wrapped == product % TickWord
<1>1. product \in Nat
  BY TimeAssumption, Z3
<1>2. wrapped \in Nat /\ wrapped <= product
  <2> HIDE DEF product
  <2>1. QED BY <1>1, TimeAssumption, WrapShrinks
<1>3. Ticks(ms) = wrapped \div PerSecond
  BY DEF Ticks
<1> HIDE DEF wrapped, product
<1>4. wrapped \div PerSecond \in Nat /\ (wrapped \div PerSecond) * PerSecond <= wrapped
  BY <1>2, TimeAssumption, DivShrinks
<1>5. (wrapped \div PerSecond) * PerSecond \in Nat
  BY <1>4, TimeAssumption, Z3
<1>6. Ticks(ms) \in Nat /\ Ticks(ms) * PerSecond <= product
  <2> DEFINE whole == (wrapped \div PerSecond) * PerSecond
  <2>1. whole <= product
    <3> HIDE DEF whole
    <3>1. whole \in Nat /\ whole <= wrapped
      BY <1>4, <1>5 DEF whole
    <3>2. QED BY <3>1, <1>1, <1>2
  <2>2. QED
    BY <1>3, <1>4, <2>1
<1>7. QED
  BY <1>6 DEF product

-----------------------------------------------------------------------------
\* The period that follows from any lifetime the client may hold.
LEMMA PeriodType ==
    ASSUME lifetime \in Nat
    PROVE  Period \in Nat
BY IntervalBound, TicksBound DEF Period

\* The period in seconds: the minimum, or 80 % of the lifetime, at most.
LEMMA PeriodBound ==
    ASSUME lifetime \in Nat
    PROVE  \/ Period * PerSecond <= Minimum * TickRate
           \/ Period * PerSecond <= (lifetime * Share) * TickRate
<1> DEFINE ms == Interval(lifetime)
           share == lifetime * Share
<1>1. ms \in Nat /\ (ms <= Minimum \/ ms <= share)
  BY IntervalBound
<1>2. share \in Nat
  BY TimeAssumption, Z3
<1>3. Period = Ticks(ms)
  BY DEF Period
<1> HIDE DEF ms, share
<1>4. Period \in Nat /\ Period * PerSecond <= ms * TickRate
  BY <1>1, <1>3, TicksBound
<1> DEFINE spent == Period * PerSecond
           given == ms * TickRate
<1>5. spent \in Nat /\ given \in Nat
  BY <1>1, <1>4, TimeAssumption, Z3
<1>6. CASE ms <= Minimum
  <2> DEFINE limit == Minimum * TickRate
  <2>1. limit \in Nat /\ given <= limit
    BY <1>1, <1>6, ProductGrows, TimeAssumption
  <2>2. spent <= limit
    <3>1. spent <= given
      BY <1>4
    <3> HIDE DEF spent, given, limit
    <3>2. QED BY <1>5, <2>1, <3>1
  <2>3. QED
    BY <2>2
<1>7. CASE ms <= share
  <2> DEFINE limit == share * TickRate
  <2>1. limit \in Nat /\ given <= limit
    BY <1>1, <1>2, <1>7, ProductGrows, TimeAssumption
  <2>2. spent <= limit
    <3>1. spent <= given
      BY <1>4
    <3> HIDE DEF spent, given, limit
    <3>2. QED BY <1>5, <2>1, <3>1
  <2>3. QED
    BY <2>2 DEF share
<1>8. QED
  BY <1>1, <1>6, <1>7

-----------------------------------------------------------------------------
\* A refusal missed makes the next update late by a period and an exchange.
LEMMA LateType ==
    ASSUME TypeOK
    PROVE  Late \in Nat /\ Delay <= Late
<1>1. missed \in Nat /\ Period + Delay \in Nat /\ Delay \in Nat
  BY PeriodType, TimeAssumption DEF TypeOK
<1> DEFINE extra == missed * (Period + Delay)
<1>2. extra \in Nat
  BY <1>1, Z3
<1>3. Late = Delay + extra
  BY DEF Late
<1> HIDE DEF extra
<1>4. QED
  BY <1>1, <1>2, <1>3

\* How that bound moves with the count of missed refusals.
LEMMA LateSteps ==
    ASSUME TypeOK, lifetime' = lifetime, missed' \in Nat
    PROVE  /\ Late' \in Nat /\ Delay <= Late'
           /\ missed' = missed => Late' = Late
           /\ missed' = missed + 1 => Late' = Late + Period + Delay
<1>1. Period' = Period
  BY DEF Period
<1> DEFINE cycle == Period + Delay
<1>2. missed \in Nat /\ missed' \in Nat /\ cycle \in Nat /\ Delay \in Nat /\ Period \in Nat
  BY PeriodType, TimeAssumption DEF TypeOK
<1>3. Late = Delay + missed * cycle /\ Late' = Delay + missed' * cycle
  BY <1>1 DEF Late
<1> HIDE DEF cycle
<1>4. /\ missed * cycle \in Nat /\ missed' * cycle \in Nat
      /\ (missed + 1) * cycle = missed * cycle + cycle
  BY <1>2, OneMore
<1>5. Late' \in Nat /\ Delay <= Late'
  <2> DEFINE extra == missed' * cycle
  <2>1. extra \in Nat /\ Late' = Delay + extra
    BY <1>3, <1>4
  <2> HIDE DEF extra
  <2>2. QED BY <1>2, <2>1
<1>6. missed' = missed => Late' = Late
  BY <1>3
<1>7. ASSUME missed' = missed + 1
      PROVE  Late' = Late + Period + Delay
  <2> DEFINE extra == missed * cycle
  <2>1. Late = Delay + extra /\ Late' = Delay + (extra + cycle) /\ extra \in Nat
    BY <1>3, <1>4, <1>7
  <2> HIDE DEF extra
  <2>2. Late' = Late + cycle
    BY <1>2, <2>1
  <2>3. QED
    BY <1>2, <2>1, <2>2 DEF cycle
<1>8. QED
  BY <1>5, <1>6, <1>7

\* What posting a request does: one place more is taken, by a young request.
LEMMA PostedSlot ==
    ASSUME NEW q \in [Slots -> Exchanges], NEW kind \in {"update", "registration"},
           NEW r \in Posted(q, kind)
    PROVE  /\ r \in [Slots -> Exchanges]
           /\ \E t \in Slots :
                 /\ q[t].kind = "none"
                 /\ r[t] = Request(kind)
                 /\ \A s \in Slots \ {t} : r[s] = q[s]
<1>1. PICK t \in Slots : q[t].kind = "none" /\ r = [q EXCEPT ![t] = Request(kind)]
  BY DEF Posted
<1>2. Request(kind) \in Exchanges
  BY TimeAssumption DEF Request, Exchanges
<1>3. QED
  BY <1>1, <1>2

\* What the end of a request leaves.
LEMMA WithoutSlot ==
    ASSUME TypeOK, NEW s \in Slots
    PROVE  /\ Without(s) \in [Slots -> Exchanges]
           /\ Without(s)[s].kind = "none"
           /\ \A t \in Slots \ {s} : Without(s)[t] = exch[t]
BY TimeAssumption DEF TypeOK, Without, Request, Exchanges

\* The first registration sent, for every configured lifetime.
LEMMA InitInv == Init => KeepaliveInv
<1> SUFFICES ASSUME Init PROVE KeepaliveInv
  OBVIOUS
<1>1. lifetime \in Nat \ {0}
  BY TimeAssumption DEF Init, StoredLifetime
<1>2. Period \in Nat
  BY <1>1, PeriodType
<1> DEFINE free == [s \in Slots |-> Request("none")]
<1>3. free \in [Slots -> Exchanges]
  BY TimeAssumption DEF Request, Exchanges
<1>4. exch \in Posted(free, "registration")
  BY DEF Init
<1>5. PICK t \in Slots : /\ exch[t] = Request("registration")
                         /\ \A s \in Slots \ {t} : exch[s] = free[s]
  <2> HIDE DEF free
  <2>1. QED BY <1>3, <1>4, PostedSlot
<1>6. exch \in [Slots -> Exchanges]
  <2> HIDE DEF free
  <2>1. QED BY <1>3, <1>4, PostedSlot
<1>7. \A s \in Slots \ {t} : exch[s].kind = "none"
  BY <1>5 DEF Request
<1>8. exch[t].kind = "registration" /\ exch[t].stage = "sent" /\ exch[t].age = 0
  BY <1>5 DEF Request
<1>9. TypeOK
  <2>1. 0 \in Nat /\ 0 \in 0 .. Period
    BY <1>2
  <2>2. QED
    BY <1>1, <1>6, <2>1 DEF Init, TypeOK
<1>10. Awaited
  BY <1>7, <1>8 DEF Init, Awaited, Updates, Registrations
<1>11. Late \in Nat
  BY <1>9, LateType
<1>12. ClocksAgree
  BY <1>2, <1>7, <1>8, <1>11, TimeAssumption DEF Init, ClocksAgree, Registrations
<1>13. QED
  BY <1>9, <1>10, <1>12 DEF KeepaliveInv

-----------------------------------------------------------------------------
(* The steps that only touch the client's own requests *)

\* The timer or the application: the update posted is the one that is due.
LEMMA SendUpdateKeeps ==
    ASSUME KeepaliveInv, SendUpdate, elapsed' \in 0 .. Period,
           UNCHANGED <<lifetime, armed, others, known, since, missed>>
    PROVE  KeepaliveInv'
<1>1. TypeOK /\ Awaited /\ ClocksAgree
  BY DEF KeepaliveInv
<1>2. Period' = Period /\ Late' = Late /\ Late \in Nat /\ Period \in Nat
  BY <1>1, LateType, PeriodType DEF TypeOK, Period, Late
<1>3. exch \in [Slots -> Exchanges]
  BY <1>1 DEF TypeOK
<1>4. CASE exch' \in Posted(exch, "update") /\ state' = "UPDATING" /\ lost' = lost
  <2>1. exch' \in [Slots -> Exchanges]
    BY <1>3, <1>4, PostedSlot
  <2>2. PICK t \in Slots : /\ exch[t].kind = "none"
                           /\ exch'[t] = Request("update")
                           /\ \A s \in Slots \ {t} : exch'[s] = exch[s]
    BY <1>3, <1>4, PostedSlot
  <2>3. exch'[t].kind = "update" /\ exch'[t].stage = "sent" /\ exch'[t].age = 0
    BY <2>2 DEF Request
  <2>4. TypeOK'
    BY <1>1, <1>2, <1>4, <2>1 DEF TypeOK
  <2>5. Awaited'
    BY <1>1, <1>4, <2>2, <2>3 DEF Awaited, Updates, Registrations, SendUpdate
  <2>6. ASSUME ~lost
        PROVE  \E u \in Updates' : since <= Late + Period + exch'[u].age
    <3>1. CASE since <= Late + elapsed
      <4>1. t \in Updates'
        BY <2>3 DEF Updates
      <4>2. since <= Late + Period + exch'[t].age
        BY <1>1, <1>2, <2>3, <3>1 DEF TypeOK
      <4>3. QED BY <4>1, <4>2
    <3>2. CASE \E u \in Updates : since <= Late + Period + exch[u].age
      <4>1. PICK u \in Updates : since <= Late + Period + exch[u].age
        BY <3>2
      <4>2. u # t /\ exch'[u] = exch[u]
        BY <2>2, <4>1 DEF Updates
      <4>3. QED BY <4>1, <4>2 DEF Updates
    <3>3. QED
      BY <1>1, <2>6, <3>1, <3>2 DEF ClocksAgree, SendUpdate
  <2>7. ClocksAgree'
    BY <1>1, <1>2, <1>4, <2>2, <2>3, <2>6 DEF ClocksAgree
  <2>8. QED
    BY <2>4, <2>5, <2>7 DEF KeepaliveInv
<1>5. CASE lost' = TRUE /\ UNCHANGED <<state, exch>>
  BY <1>1, <1>2, <1>5 DEF KeepaliveInv, TypeOK, Awaited, ClocksAgree
<1>6. QED
  BY <1>4, <1>5 DEF SendUpdate

\* A refusal taken in UPDATING, whoever's it is: the registration that follows is the
\* only one, and as young as the refusal.
LEMMA ReregisterKeeps ==
    ASSUME KeepaliveInv, state = "UPDATING",
           NEW q \in [Slots -> Exchanges],
           \A s \in Slots : q[s].kind = "none" \/ q[s] = exch[s],
           exch' \in Posted(q, "registration"),
           state' = "REGISTERING", others' \in Nat,
           UNCHANGED <<lifetime, armed, elapsed, known, since, missed, lost>>
    PROVE  KeepaliveInv'
<1>1. TypeOK /\ Awaited /\ ClocksAgree
  BY DEF KeepaliveInv
<1>2. /\ Period' = Period /\ Late' = Late /\ Late \in Nat /\ Period \in Nat
      /\ Delay \in Nat /\ since \in Nat
  BY <1>1, LateType, PeriodType, TimeAssumption DEF TypeOK, Period, Late
<1>3. exch' \in [Slots -> Exchanges]
  BY PostedSlot
<1>4. PICK t \in Slots : /\ q[t].kind = "none"
                         /\ exch'[t] = Request("registration")
                         /\ \A s \in Slots \ {t} : exch'[s] = q[s]
  BY PostedSlot
<1>5. exch'[t].kind = "registration" /\ exch'[t].stage = "sent" /\ exch'[t].age = 0
  BY <1>4 DEF Request
<1>6. TypeOK'
  BY <1>1, <1>2, <1>3 DEF TypeOK
<1>7. ASSUME ~lost
      PROVE  /\ \A s \in Slots \ {t} : exch'[s].kind # "registration"
             /\ since <= Late + Period + Delay
  <2>1. Registrations = {}
    BY <1>1, <1>7 DEF Awaited
  <2>2. \A s \in Slots \ {t} : exch'[s].kind # "registration"
    BY <1>4, <2>1 DEF Registrations
  <2>3. PICK u \in Updates : since <= Late + Period + exch[u].age
    BY <1>1, <1>7 DEF ClocksAgree
  <2>4. exch[u].age \in 0 .. Delay
    BY <1>1 DEF TypeOK, Exchanges, Updates
  <2>5. QED
    BY <1>2, <2>2, <2>3, <2>4
<1>8. Awaited'
  <2> SUFFICES ASSUME ~lost PROVE Awaited'
    BY DEF Awaited
  <2>1. Registrations' = {t}
    BY <1>5, <1>7 DEF Registrations
  <2>2. QED
    BY <2>1 DEF Awaited
<1>9. ClocksAgree'
  <2> SUFFICES ASSUME ~lost PROVE ClocksAgree'
    BY DEF ClocksAgree
  <2>1. \A s \in Slots : (exch'[s].kind # "none" /\ exch'[s].stage = "served")
                             => since <= exch'[s].age
    BY <1>1, <1>4, <1>5 DEF ClocksAgree
  <2>2. \A r \in Registrations' : since <= Late + Delay + Period + exch'[r].age
    BY <1>2, <1>5, <1>7 DEF Registrations
  <2>3. QED
    BY <1>2, <2>1, <2>2 DEF ClocksAgree
<1>10. QED
  BY <1>6, <1>8, <1>9 DEF KeepaliveInv

\* Once a request is lost only the types matter.
LEMMA LostKeeps ==
    ASSUME TypeOK', lost'
    PROVE  KeepaliveInv'
BY DEF KeepaliveInv, Awaited, ClocksAgree

\* The answer to an update.
LEMMA UpdateAnswerKeeps ==
    ASSUME KeepaliveInv, NEW s \in Slots, UpdateAnswer(s)
    PROVE  KeepaliveInv'
<1> DEFINE q == Without(s)
<1>1. TypeOK /\ Awaited /\ ClocksAgree
  BY DEF KeepaliveInv
<1>2. /\ exch[s].kind = "update" /\ exch[s].stage \in {"served", "refused"}
      /\ Taken(exch[s].stage = "served", q)
      /\ UNCHANGED <<lifetime, armed, elapsed, others, known, since>>
      /\ missed' \in {missed, missed + 1}
  BY DEF UpdateAnswer
<1>3. /\ Period' = Period /\ Period \in Nat /\ Delay \in Nat /\ since \in Nat
      /\ elapsed \in 0 .. Period /\ missed' \in Nat /\ elapsed \in Nat
  BY <1>1, <1>2, PeriodType, TimeAssumption DEF TypeOK, Period
<1>4. /\ Late \in Nat /\ Delay <= Late /\ Late' \in Nat /\ Delay <= Late'
      /\ missed' = missed => Late' = Late
      /\ missed' = missed + 1 => Late' = Late + Period + Delay
  BY <1>1, <1>2, <1>3, LateType, LateSteps
<1>5. /\ q \in [Slots -> Exchanges]
      /\ q[s].kind = "none"
      /\ \A t \in Slots \ {s} : q[t] = exch[t]
  BY <1>1, WithoutSlot
<1>6. exch[s].age \in 0 .. Delay
  BY <1>1 DEF TypeOK, Exchanges
<1>12. (~lost /\ exch[s].stage = "served") => since <= Late' + elapsed
  <2> SUFFICES ASSUME ~lost, exch[s].stage = "served"
               PROVE  since <= Late' + elapsed
    OBVIOUS
  <2>1. since <= exch[s].age
    BY <1>1, <1>2 DEF ClocksAgree
  <2>2. Late' \in Nat /\ Delay <= Late'
    BY <1>4
  <2>3. since \in Nat /\ Delay \in Nat /\ elapsed \in Nat
    BY <1>3
  <2>4. since <= Delay
    BY <1>6, <2>1, <2>3
  <2>5. QED
    BY ONLY <2>2, <2>3, <2>4, LaterStill
<1> HIDE DEF q
<1>7. CASE /\ state = "UPDATING" /\ exch[s].stage = "served"
           /\ state' = "REGISTERED" /\ exch' = q /\ lost' = lost
  <2>1. TypeOK'
    BY <1>1, <1>2, <1>3, <1>5, <1>7 DEF TypeOK
  <2>2. Awaited'
    BY <1>1, <1>2, <1>5, <1>7 DEF Awaited, Updates, Registrations
  <2>3. ~lost => since <= Late' + elapsed
    BY <1>7, <1>12
  <2>4. ClocksAgree'
    BY <1>1, <1>2, <1>5, <1>7, <2>3 DEF ClocksAgree
  <2>5. QED
    BY <2>1, <2>2, <2>4 DEF KeepaliveInv
<1>8. CASE /\ state = "UPDATING" /\ ~(exch[s].stage = "served")
           /\ state' = "REGISTERING" /\ exch' \in Posted(q, "registration")
           /\ lost' = lost
  <2>1. missed' = missed
    BY <1>8 DEF UpdateAnswer
  <2>2. \A t \in Slots : q[t].kind = "none" \/ q[t] = exch[t]
    BY <1>5
  <2>3. others' \in Nat
    BY <1>1, <1>2 DEF TypeOK
  <2>4. QED
    BY <1>2, <1>5, <1>8, <2>1, <2>2, <2>3, ReregisterKeeps
<1>9. CASE /\ state = "UPDATING" /\ state' = "ERROR" /\ exch' = q /\ lost' = TRUE
  <2>1. TypeOK'
    BY <1>1, <1>2, <1>3, <1>5, <1>9 DEF TypeOK
  <2>2. QED
    BY <1>9, <2>1, LostKeeps
<1>10. CASE state # "UPDATING" /\ exch' = q /\ UNCHANGED <<state, lost>>
  <2>1. TypeOK'
    BY <1>1, <1>2, <1>3, <1>5, <1>10 DEF TypeOK
  <2>2. Registrations' = Registrations
    BY <1>2, <1>5, <1>10 DEF Registrations
  <2>3. Awaited'
    BY <1>1, <1>2, <1>10, <2>2 DEF Awaited
  <2>4. ClocksAgree'
    <3> SUFFICES ASSUME ~lost PROVE ClocksAgree'
      BY <1>10 DEF ClocksAgree
    <3>1. \A t \in Slots : (exch'[t].kind # "none" /\ exch'[t].stage = "served")
                               => since <= exch'[t].age
      BY <1>1, <1>5, <1>10 DEF ClocksAgree
    <3>2. CASE state = "REGISTERED" /\ exch[s].stage = "served"
      <4>1. since <= Late' + elapsed
        BY <1>12, <3>2
      <4>2. QED
        BY <1>2, <1>10, <3>1, <3>2, <4>1 DEF ClocksAgree
    <3>3. CASE state = "REGISTERED" /\ exch[s].stage = "refused"
      <4>1. missed' = missed + 1
        BY <3>3 DEF UpdateAnswer
      <4>2. CASE since <= Late + elapsed
        <5>1. since <= Late' + elapsed
          BY <1>3, <1>4, <4>1, <4>2
        <5>2. QED
          BY <1>2, <1>10, <3>1, <3>3, <5>1 DEF ClocksAgree
      <4>3. CASE \E u \in Updates : since <= Late + Period + exch[u].age
        <5>1. PICK u \in Updates : since <= Late + Period + exch[u].age
          BY <4>3
        <5>2. exch[u].age \in 0 .. Delay
          BY <1>1 DEF TypeOK, Exchanges, Updates
        <5>3. since <= Late' + elapsed
          BY <1>3, <1>4, <4>1, <5>1, <5>2
        <5>4. QED
          BY <1>2, <1>10, <3>1, <3>3, <5>3 DEF ClocksAgree
      <4>4. QED
        BY <1>1, <3>3, <4>2, <4>3 DEF ClocksAgree
    <3>4. CASE state = "REGISTERING"
      <4>1. missed' = missed
        BY <3>4 DEF UpdateAnswer
      <4>2. \A r \in Registrations : exch'[r] = exch[r]
        BY <1>2, <1>5, <1>10 DEF Registrations
      <4>3. \A r \in Registrations' : since <= Late' + Delay + Period + exch'[r].age
        BY <1>1, <1>4, <2>2, <3>4, <4>1, <4>2 DEF ClocksAgree
      <4>4. QED
        BY <1>2, <1>3, <1>10, <3>1, <3>4, <4>3 DEF ClocksAgree
    <3>5. QED
      BY <1>1, <1>2, <1>10, <3>2, <3>3, <3>4 DEF Awaited, TypeOK
  <2>5. QED
    BY <2>1, <2>3, <2>4 DEF KeepaliveInv
<1>11. QED
  BY <1>2, <1>7, <1>8, <1>9, <1>10 DEF Taken

\* The answer to a notification: taken for the update's, the update stays under way.
LEMMA NotificationAnswerKeeps ==
    ASSUME KeepaliveInv, NotificationAnswer
    PROVE  KeepaliveInv'
<1>1. TypeOK /\ Awaited /\ ClocksAgree
  BY DEF KeepaliveInv
<1>2. PICK changed \in BOOLEAN : Taken(changed, exch)
  BY DEF NotificationAnswer
<1>3. UNCHANGED <<lifetime, armed, elapsed, known, since, missed>>
  BY DEF NotificationAnswer
<1>4. others' \in Nat
  BY <1>1 DEF TypeOK, NotificationAnswer
<1>5. Period' = Period /\ Late' = Late /\ exch \in [Slots -> Exchanges]
  BY <1>1, <1>3 DEF Period, Late, TypeOK
<1>6. CASE /\ state = "UPDATING" /\ changed
           /\ state' = "REGISTERED" /\ exch' = exch /\ lost' = lost
  <2>1. TypeOK'
    BY <1>1, <1>3, <1>4, <1>5, <1>6 DEF TypeOK
  <2>2. Awaited'
    BY <1>1, <1>3, <1>6 DEF Awaited, Updates, Registrations
  <2>3. ClocksAgree'
    BY <1>1, <1>3, <1>5, <1>6 DEF ClocksAgree, Updates, Registrations
  <2>4. QED
    BY <2>1, <2>2, <2>3 DEF KeepaliveInv
<1>7. CASE /\ state = "UPDATING" /\ ~changed
           /\ state' = "REGISTERING" /\ exch' \in Posted(exch, "registration")
           /\ lost' = lost
  BY <1>3, <1>4, <1>5, <1>7, ReregisterKeeps
<1>8. CASE state = "UPDATING" /\ state' = "ERROR" /\ exch' = exch /\ lost' = TRUE
  <2>1. TypeOK'
    BY <1>1, <1>3, <1>4, <1>5, <1>8 DEF TypeOK
  <2>2. QED
    BY <1>8, <2>1, LostKeeps
<1>9. CASE state # "UPDATING" /\ exch' = exch /\ UNCHANGED <<state, lost>>
  <2>1. TypeOK'
    BY <1>1, <1>3, <1>4, <1>5, <1>9 DEF TypeOK
  <2>2. Awaited'
    BY <1>1, <1>3, <1>9 DEF Awaited, Updates, Registrations
  <2>3. ClocksAgree'
    BY <1>1, <1>3, <1>5, <1>9 DEF ClocksAgree, Updates, Registrations
  <2>4. QED
    BY <2>1, <2>2, <2>3 DEF KeepaliveInv
<1>10. QED
  BY <1>2, <1>6, <1>7, <1>8, <1>9 DEF Taken

\* A 2.01 that counts: the server registered the client within this exchange.
LEMMA RegistrationAnswerKeeps ==
    ASSUME KeepaliveInv, NEW s \in Slots, RegistrationAnswer(s)
    PROVE  KeepaliveInv'
<1> DEFINE q == Without(s)
<1>1. TypeOK /\ Awaited /\ ClocksAgree
  BY DEF KeepaliveInv
<1>2. /\ state = "REGISTERING" /\ exch[s].kind = "registration" /\ exch' = q
      /\ UNCHANGED <<lifetime, others, known, since, missed>>
  BY DEF RegistrationAnswer
<1>3. Period' = Period /\ Late' = Late /\ Period \in Nat /\ since \in Nat /\ Delay \in Nat
  BY <1>1, <1>2, PeriodType, TimeAssumption DEF TypeOK, Period, Late
<1>4. /\ q \in [Slots -> Exchanges]
      /\ q[s].kind = "none"
      /\ \A t \in Slots \ {s} : q[t] = exch[t]
  BY <1>1, WithoutSlot
<1> HIDE DEF q
<1>5. TypeOK'
  <2>1. 0 \in 0 .. Period
    BY <1>3
  <2>2. /\ state' \in {"REGISTERED", "ERROR", "ABORTED"} /\ armed' \in BOOLEAN
        /\ lost' \in BOOLEAN /\ elapsed' \in {0, elapsed}
    BY <1>1 DEF TypeOK, RegistrationAnswer, StartUpdateTimer
  <2>3. QED
    BY <1>1, <1>2, <1>3, <1>4, <2>1, <2>2 DEF TypeOK
<1>6. CASE lost'
  BY <1>5, <1>6, LostKeeps
<1>7. CASE ~lost'
  <2>1. /\ exch[s].stage = "served" /\ elapsed' = 0
        /\ state' = "REGISTERED" /\ armed' /\ ~lost
    BY <1>7 DEF RegistrationAnswer, StartUpdateTimer
  <2>2. Registrations' = {}
    BY <1>1, <1>2, <1>4, <2>1 DEF Awaited, Registrations
  <2>3. Awaited'
    BY <2>1, <2>2 DEF Awaited
  <2>4. since <= exch[s].age /\ exch[s].age \in 0 .. Delay
    BY <1>1, <1>2, <2>1 DEF ClocksAgree, TypeOK, Exchanges
  <2>5. since <= Late' + elapsed'
    <3>1. Late' \in Nat /\ Delay <= Late'
      BY <1>1, <1>3, LateType
    <3>2. since <= Delay
      BY <1>3, <2>4
    <3>3. 0 \in Nat
      OBVIOUS
    <3>4. since <= Late' + 0
      BY ONLY <1>3, <3>1, <3>2, <3>3, LaterStill
    <3>5. QED
      BY <2>1, <3>4
  <2>6. ClocksAgree'
    BY <1>1, <1>2, <1>4, <2>1, <2>5 DEF ClocksAgree
  <2>7. QED
    BY <1>5, <2>3, <2>6 DEF KeepaliveInv
<1>8. QED
  BY <1>5, <1>6, <1>7 DEF TypeOK

\* A lost request, or a lost notification, which in REGISTERING costs the registration.
LEMMA LossesKeep ==
    ASSUME KeepaliveInv, LoseNotification \/ \E s \in Slots : Lose(s)
    PROVE  KeepaliveInv'
<1>1. TypeOK /\ Awaited /\ ClocksAgree
  BY DEF KeepaliveInv
<1>2. ASSUME NEW s \in Slots, Lose(s)
      PROVE  KeepaliveInv'
  <2>1. Without(s) \in [Slots -> Exchanges]
    BY <1>1, WithoutSlot
  <2>2. Period' = Period
    BY <1>2 DEF Lose, Period
  <2>3. TypeOK'
    BY <1>1, <1>2, <2>1, <2>2 DEF TypeOK, Lose, ErrorEvent
  <2>4. lost'
    BY <1>2 DEF Lose
  <2>5. QED
    BY <2>3, <2>4, LostKeeps
<1>3. ASSUME LoseNotification
      PROVE  KeepaliveInv'
  <2>1. Period' = Period /\ Late' = Late
    BY <1>3 DEF LoseNotification, Period, Late
  <2>2. state' \in {state, "ERROR"} /\ lost' \in BOOLEAN /\ others' \in Nat
    BY <1>1, <1>3 DEF TypeOK, LoseNotification, ErrorEvent
  <2>3. TypeOK'
    BY <1>1, <1>3, <2>1, <2>2 DEF TypeOK, LoseNotification
  <2>4. CASE lost'
    BY <2>3, <2>4, LostKeeps
  <2>5. CASE ~lost'
    <3>1. ~lost /\ state' = state /\ UNCHANGED <<armed, elapsed, exch, since>>
      BY <1>1, <1>3, <2>5 DEF LoseNotification, ErrorEvent, TypeOK
    <3>2. Awaited'
      BY <1>1, <3>1 DEF Awaited, Updates, Registrations
    <3>3. ClocksAgree'
      BY <1>1, <2>1, <3>1 DEF ClocksAgree, Updates, Registrations
    <3>4. QED
      BY <2>3, <3>2, <3>3 DEF KeepaliveInv
  <2>6. QED
    BY <2>2, <2>4, <2>5
<1>4. QED
  BY <1>2, <1>3

-----------------------------------------------------------------------------
(* The server and the clock *)

\* The server answers: the kinds and ages of the requests stay.
LEMMA ServerKeeps ==
    ASSUME KeepaliveInv, NEW s \in Slots, Serve(s) \/ Refuse(s)
    PROVE  KeepaliveInv'
<1>1. TypeOK /\ Awaited /\ ClocksAgree
  BY DEF KeepaliveInv
<1>2. UNCHANGED <<lifetime, state, armed, elapsed, others, lost>>
  BY DEF Serve, Refuse
<1>3. /\ exch' \in [Slots -> Exchanges]
      /\ \A t \in Slots : exch'[t].kind = exch[t].kind /\ exch'[t].age = exch[t].age
      /\ \A t \in Slots \ {s} : exch'[t] = exch[t]
  BY <1>1 DEF TypeOK, Exchanges, Serve, Refuse
<1>4. Updates' = Updates /\ Registrations' = Registrations
  BY <1>3 DEF Updates, Registrations
<1>5. Awaited'
  BY <1>1, <1>2, <1>4 DEF Awaited
<1>6. /\ Period' = Period /\ Period \in Nat
      /\ \A t \in Slots : exch[t].age \in 0 .. Delay
  BY <1>1, <1>2, PeriodType DEF Period, TypeOK, Exchanges
<1>7. TypeOK'
  <2>1. known' \in BOOLEAN /\ since' \in Nat /\ missed' \in Nat
    <3>1. CASE Serve(s)
      BY <3>1 DEF Serve
    <3>2. CASE Refuse(s)
      BY <1>1, <3>2 DEF TypeOK, Refuse
    <3>3. QED
      BY <3>1, <3>2
  <2>2. QED
    BY <1>1, <1>2, <1>3, <1>6, <2>1 DEF TypeOK
<1>8. Late' \in Nat
  BY <1>7, LateType, <1>2, LateSteps, <1>1 DEF TypeOK
<1>9. CASE Serve(s)
  <2>1. since' = 0
    BY <1>9 DEF Serve
  <2> SUFFICES ASSUME ~lost PROVE ClocksAgree'
    BY <1>2, <1>5, <1>7 DEF ClocksAgree, KeepaliveInv
  <2>2. Updates # {} \/ state # "UPDATING"
    BY <1>1 DEF Awaited
  <2>3. \A t \in Slots : /\ 0 <= exch'[t].age
                         /\ 0 <= Late' + Period + exch'[t].age
                         /\ 0 <= Late' + Delay + Period + exch'[t].age
    BY <1>3, <1>6, <1>8, TimeAssumption
  <2>4. state = "REGISTERED" => 0 <= Late' + elapsed
    <3>1. elapsed \in Nat
      BY <1>1, <1>6 DEF TypeOK
    <3>2. QED
      BY ONLY <1>8, <3>1, SumIsNat
  <2>5. state = "UPDATING" => \E u \in Updates' : 0 <= Late' + Period + exch'[u].age
    BY <1>4, <2>2, <2>3 DEF Updates
  <2>6. QED
    BY <1>2, <1>4, <1>6, <2>1, <2>3, <2>4, <2>5 DEF ClocksAgree, Registrations
<1>10. CASE Refuse(s)
  <2>1. /\ UNCHANGED <<since, missed>> /\ exch'[s].stage = "refused"
    BY <1>1, <1>10 DEF Refuse, TypeOK, Exchanges
  <2>2. Late' = Late
    BY <1>6, <2>1 DEF Late
  <2>3. ClocksAgree'
    BY <1>1, <1>2, <1>3, <1>4, <1>6, <2>1, <2>2 DEF ClocksAgree, Updates, Registrations
  <2>4. QED
    BY <1>5, <1>7, <2>3 DEF KeepaliveInv
<1>11. QED
  BY <1>9, <1>10

\* The server forgets: its clock starts anew.
LEMMA ForgetKeeps ==
    ASSUME KeepaliveInv, Forget
    PROVE  KeepaliveInv'
<1>1. TypeOK /\ Awaited /\ ClocksAgree
  BY DEF KeepaliveInv
<1>2. /\ UNCHANGED <<lifetime, state, armed, elapsed, exch, others, lost>>
      /\ since' = 0
  BY DEF Forget
<1>3. Updates' = Updates /\ Registrations' = Registrations
  BY <1>2 DEF Updates, Registrations
<1>4. Awaited'
  BY <1>1, <1>2, <1>3 DEF Awaited
<1>5. /\ Period' = Period /\ Period \in Nat
      /\ \A t \in Slots : exch[t].age \in 0 .. Delay
  BY <1>1, <1>2, PeriodType DEF Period, TypeOK, Exchanges
<1>6. TypeOK'
  <2>1. known' \in BOOLEAN /\ since' \in Nat /\ missed' \in Nat
    BY <1>1 DEF TypeOK, Forget
  <2>2. QED
    BY <1>1, <1>2, <1>5, <2>1 DEF TypeOK
<1>7. Late' \in Nat
  BY <1>1, <1>2, <1>6, LateSteps DEF TypeOK
<1>8. SUFFICES ASSUME ~lost PROVE ClocksAgree'
  BY <1>2, <1>4, <1>6 DEF ClocksAgree, KeepaliveInv
<1>9. Updates # {} \/ state # "UPDATING"
  BY <1>1, <1>8 DEF Awaited
<1>10. \A t \in Slots : /\ 0 <= exch[t].age
                        /\ 0 <= Late' + Period + exch[t].age
                        /\ 0 <= Late' + Delay + Period + exch[t].age
  BY <1>5, <1>7, TimeAssumption
<1>11. state = "REGISTERED" => 0 <= Late' + elapsed
  <2>1. elapsed \in Nat
    BY <1>1, <1>5 DEF TypeOK
  <2>2. QED
    BY ONLY <1>7, <2>1, SumIsNat
<1>12. state = "UPDATING" => \E u \in Updates : 0 <= Late' + Period + exch[u].age
  BY <1>9, <1>10 DEF Updates
<1>13. QED
  BY <1>2, <1>3, <1>5, <1>10, <1>11, <1>12 DEF ClocksAgree, Registrations

\* Time passes for the server, the timer and every request alike.
LEMMA TickKeeps ==
    ASSUME KeepaliveInv, Tick
    PROVE  KeepaliveInv'
<1>1. TypeOK /\ Awaited /\ ClocksAgree
  BY DEF KeepaliveInv
<1>2. /\ UNCHANGED <<lifetime, state, armed, others, known, missed, lost>>
      /\ ~lost /\ since' = since + 1
      /\ elapsed' = IF armed THEN elapsed + 1 ELSE elapsed
      /\ armed => elapsed < Period
  BY DEF Tick
<1>3. Period' = Period /\ Period \in Nat /\ Delay \in Nat
  BY <1>1, <1>2, PeriodType, TimeAssumption DEF Period, TypeOK
<1>4. Late' = Late /\ Late \in Nat
  BY <1>1, <1>2, <1>3, LateType DEF Late
<1>5. \A t \in Slots :
         exch'[t] = IF exch[t].kind = "none" THEN exch[t]
                    ELSE [exch[t] EXCEPT !.age = exch[t].age + 1]
  BY DEF Tick
<1>6. \A t \in Slots : exch[t].kind # "none" => exch[t].age < Delay
  BY DEF Tick
<1>7. \A t \in Slots : exch[t] \in Exchanges /\ exch[t].age \in 0 .. Delay
  BY <1>1 DEF TypeOK, Exchanges
<1>8. \A t \in Slots : /\ exch'[t] \in Exchanges
                       /\ exch'[t].kind = exch[t].kind
                       /\ exch'[t].stage = exch[t].stage
                       /\ exch[t].kind # "none" => exch'[t].age = exch[t].age + 1
  <2> TAKE t \in Slots
  <2>1. CASE exch[t].kind = "none"
    BY <1>5, <1>7, <2>1
  <2>2. CASE exch[t].kind # "none"
    <3>1. exch[t].age + 1 \in 0 .. Delay
      BY <1>3, <1>6, <1>7, <2>2
    <3>2. QED
      BY <1>5, <1>7, <2>2, <3>1 DEF Exchanges
  <2>3. QED
    BY <2>1, <2>2
<1>9. exch' \in [Slots -> Exchanges]
  BY <1>8 DEF Tick
<1>10. Updates' = Updates /\ Registrations' = Registrations
  BY <1>8 DEF Updates, Registrations
<1>11. since \in Nat /\ elapsed \in Nat
  BY <1>1, <1>3 DEF TypeOK
<1>12. TypeOK'
  <2>1. elapsed' \in 0 .. Period
    BY <1>1, <1>2, <1>3 DEF TypeOK
  <2>2. since' \in Nat
    BY <1>2, <1>11
  <2>3. QED
    BY <1>1, <1>2, <1>3, <1>9, <2>1, <2>2 DEF TypeOK
<1>13. Awaited'
  BY <1>1, <1>2, <1>10 DEF Awaited
<1>14. ClocksAgree'
  <2>1. \A t \in Slots : (exch'[t].kind # "none" /\ exch'[t].stage = "served")
                             => since' <= exch'[t].age
    BY <1>1, <1>2, <1>7, <1>8, <1>11 DEF ClocksAgree
  <2>2. ASSUME NEW u \in Updates, since <= Late + Period + exch[u].age
        PROVE  since' <= Late + Period + exch'[u].age
    BY <1>2, <1>3, <1>4, <1>7, <1>8, <1>11, <2>2 DEF Updates
  <2>3. state = "UPDATING" => \E u \in Updates' : since' <= Late + Period + exch'[u].age
    BY <1>1, <1>2, <1>10, <2>2 DEF ClocksAgree
  <2>4. ASSUME state = "REGISTERED"
        PROVE  \/ since' <= Late + elapsed'
               \/ \E u \in Updates' : since' <= Late + Period + exch'[u].age
    <3>1. armed
      BY <1>1, <1>2, <2>4 DEF Awaited
    <3>2. CASE since <= Late + elapsed
      <4>1. elapsed' = elapsed + 1
        BY <1>2, <3>1
      <4>2. since + 1 <= Late + (elapsed + 1)
        BY <1>4, <1>11, <3>2
      <4>3. QED
        BY <1>2, <4>1, <4>2
    <3>3. CASE \E u \in Updates : since <= Late + Period + exch[u].age
      BY <1>10, <2>2, <3>3
    <3>4. QED
      BY <1>1, <1>2, <2>4, <3>2, <3>3 DEF ClocksAgree
  <2>5. ASSUME state = "REGISTERING", NEW r \in Registrations'
        PROVE  since' <= Late + Delay + Period + exch'[r].age
    <3>1. r \in Registrations /\ r \in Slots /\ exch[r].kind # "none"
      BY <1>10 DEF Registrations
    <3>2. since <= Late + Delay + Period + exch[r].age
      BY <1>1, <1>2, <2>5, <3>1 DEF ClocksAgree
    <3>3. QED
      BY <1>2, <1>3, <1>4, <1>7, <1>8, <1>11, <3>1, <3>2
  <2>6. QED
    BY <1>2, <1>3, <1>4, <2>1, <2>3, <2>4, <2>5 DEF ClocksAgree
<1>15. QED
  BY <1>12, <1>13, <1>14 DEF KeepaliveInv

\* Every step keeps the clock of the server behind those of the client.
LEMMA StepInv == KeepaliveInv /\ [Next]_vars => KeepaliveInv'
<1> SUFFICES ASSUME KeepaliveInv, [Next]_vars
             PROVE  KeepaliveInv'
  OBVIOUS
<1>1. TypeOK /\ Awaited /\ ClocksAgree /\ Period \in Nat
  BY PeriodType DEF KeepaliveInv, TypeOK
<1>2. CASE TimerFires
  <2>1. elapsed' \in 0 .. Period
    BY <1>1, <1>2 DEF TimerFires
  <2>2. CASE SendUpdate
    BY <1>2, <2>1, <2>2, SendUpdateKeeps DEF TimerFires
  <2>3. CASE state # "REGISTERED" /\ UNCHANGED <<state, exch, lost>>
    <3>1. Period' = Period /\ Late' = Late
      BY <1>2 DEF TimerFires, Period, Late
    <3>2. UNCHANGED <<lifetime, armed, others, known, since, missed>>
      BY <1>2 DEF TimerFires
    <3>3. TypeOK'
      BY <1>1, <2>1, <2>3, <3>1, <3>2 DEF TypeOK
    <3>4. Awaited' /\ ClocksAgree'
      BY <1>1, <2>3, <3>1, <3>2 DEF Awaited, ClocksAgree, Updates, Registrations
    <3>5. QED
      BY <3>3, <3>4 DEF KeepaliveInv
  <2>4. QED
    BY <1>2, <2>2, <2>3 DEF TimerFires
<1>3. CASE AppUpdates
  <2>1. elapsed' \in 0 .. Period
    BY <1>1, <1>3 DEF AppUpdates, TypeOK
  <2>2. QED
    BY <1>3, <2>1, SendUpdateKeeps DEF AppUpdates
<1>4. CASE Notify
  <2>1. /\ UNCHANGED <<lifetime, state, armed, elapsed, exch, known, since, missed, lost>>
        /\ others' \in Nat
    BY <1>1, <1>4 DEF Notify, TypeOK
  <2>2. Period' = Period /\ Late' = Late
    BY <2>1 DEF Period, Late
  <2>3. TypeOK'
    BY <1>1, <2>1, <2>2 DEF TypeOK
  <2>4. Awaited' /\ ClocksAgree'
    BY <1>1, <2>1, <2>2 DEF Awaited, ClocksAgree, Updates, Registrations
  <2>5. QED
    BY <2>3, <2>4 DEF KeepaliveInv
<1>5. CASE NotificationAnswer
  BY <1>5, NotificationAnswerKeeps
<1>6. CASE LoseNotification
  BY <1>6, LossesKeep
<1>7. ASSUME NEW s \in Slots, \/ UpdateAnswer(s) \/ RegistrationAnswer(s) \/ Lose(s)
                              \/ Serve(s) \/ Refuse(s)
      PROVE  KeepaliveInv'
  BY <1>7, UpdateAnswerKeeps, RegistrationAnswerKeeps, LossesKeep, ServerKeeps
<1>8. CASE Forget
  BY <1>8, ForgetKeeps
<1>9. CASE Tick
  BY <1>9, TickKeeps
<1>10. CASE UNCHANGED vars
  <2>1. Period' = Period /\ Late' = Late
    BY <1>10 DEF vars, Period, Late
  <2>2. TypeOK'
    BY <1>1, <1>10, <2>1 DEF vars, TypeOK
  <2>3. Awaited' /\ ClocksAgree'
    BY <1>1, <1>10, <2>1 DEF vars, Awaited, ClocksAgree, Updates, Registrations
  <2>4. QED
    BY <2>2, <2>3 DEF KeepaliveInv
<1>11. QED
  BY <1>2, <1>3, <1>4, <1>5, <1>6, <1>7, <1>8, <1>9, <1>10 DEF Next

-----------------------------------------------------------------------------
\* The client's and the server's clocks stay together in every behaviour.
THEOREM Invariant == Spec => []KeepaliveInv
<1>1. QED
  BY InitInv, StepInv, PTL DEF Spec

\* With no request lost the server refreshed or forgot the registration at most a
\* period and three exchanges ago, and one period and one exchange more for every
\* refusal missed.
LEMMA SinceBound ==
    ASSUME KeepaliveInv, ~lost
    PROVE  since <= Late + Period + 2 * Delay
<1>1. TypeOK /\ Awaited /\ ClocksAgree
  BY DEF KeepaliveInv
<1>2. /\ Late \in Nat /\ Period \in Nat /\ Delay \in Nat
      /\ since \in Nat /\ elapsed \in 0 .. Period
      /\ \A t \in Slots : exch[t].age \in 0 .. Delay
  BY <1>1, LateType, PeriodType, TimeAssumption DEF TypeOK, Exchanges
<1>3. state \in {"REGISTERED", "UPDATING", "REGISTERING"}
  BY <1>1 DEF TypeOK, Awaited
<1>4. CASE since <= Late + elapsed
  BY <1>2, <1>4
<1>5. CASE \E u \in Updates : since <= Late + Period + exch[u].age
  <2>1. PICK u \in Updates : since <= Late + Period + exch[u].age
    BY <1>5
  <2>2. exch[u].age \in 0 .. Delay
    BY <1>2 DEF Updates
  <2>3. QED
    BY <1>2, <2>1, <2>2
<1>6. CASE state = "REGISTERING"
  <2>1. PICK r \in Registrations : since <= Late + Delay + Period + exch[r].age
    BY <1>1, <1>6 DEF Awaited, ClocksAgree
  <2>2. exch[r].age \in 0 .. Delay
    BY <1>2 DEF Registrations
  <2>3. QED
    BY <1>2, <2>1, <2>2
<1>7. QED
  BY <1>1, <1>3, <1>4, <1>5, <1>6 DEF ClocksAgree

\* A registration with an ample lifetime is always refreshed in time, unless a request
\* is lost or a refusal missed: the period is the minimum or at most 80 % of the
\* lifetime, however the products wrap, and the rest of the lifetime holds the three
\* exchanges that an update can be late by.
THEOREM Refreshed == Spec => []RefreshedInTime
<1>1. KeepaliveInv => RefreshedInTime
  <2> SUFFICES ASSUME KeepaliveInv, Ample, known, ~lost, missed = 0
               PROVE  since <= lifetime * TickRate
    BY DEF RefreshedInTime
  <2>1. TypeOK
    BY DEF KeepaliveInv
  <2>2. /\ lifetime \in Nat /\ since \in Nat /\ Period \in Nat
        /\ Delay \in Nat /\ Minimum \in Nat /\ TickRate \in Nat
        /\ PerSecond \in Nat \ {0} /\ Share \in Nat
    BY <2>1, PeriodType, TimeAssumption DEF TypeOK
  <2>3. Late = Delay
    <3>1. 0 * (Period + Delay) = 0
      BY <2>2, Z3
    <3>2. QED
      BY <2>2, <3>1 DEF Late
  <2> DEFINE bound == Period + 3 * Delay
             spent == Period * PerSecond
             exchanges == 3 * Delay * PerSecond
             whole == (lifetime * TickRate) * PerSecond
             least == Minimum * TickRate
             share == (lifetime * Share) * TickRate
             end == lifetime * TickRate
  <2>4. since <= bound
    BY <2>2, <2>3, SinceBound
  <2>5. /\ bound \in Nat /\ spent \in Nat /\ exchanges \in Nat /\ whole \in Nat
        /\ least \in Nat /\ share \in Nat /\ end \in Nat
        /\ bound * PerSecond = spent + exchanges
        /\ lifetime * PerSecond * TickRate = whole
    BY <2>2, Z3
  <2>6. lifetime * (PerSecond - Share) * TickRate = whole - share
    BY <2>2, Z3
  <2>7. whole >= least + exchanges /\ whole - share >= exchanges
    BY <2>5, <2>6 DEF Ample
  <2>8. spent <= least \/ spent <= share
    BY <2>2, PeriodBound
  <2>9. spent + exchanges <= whole
    <3> HIDE DEF bound, spent, exchanges, whole, least, share, end
    <3>1. QED BY <2>5, <2>7, <2>8
  <2>10. bound * PerSecond <= end * PerSecond
    BY <2>5, <2>9
  <2>11. bound <= end
    <3> HIDE DEF bound, spent, exchanges, whole, least, share, end
    <3>1. QED BY <2>2, <2>5, <2>10, ProductCancels
  <2>12. QED
    <3>1. since <= end
      <4> HIDE DEF bound, end
      <4>1. QED BY <2>2, <2>4, <2>5, <2>11
    <3>2. QED BY <3>1
<1>2. QED
  BY <1>1, Invariant, PTL

\* A server that forgot the registration is told within a period and three exchanges,
\* and one more of each for every refusal missed, unless a request is lost.
THEOREM Found == Spec => []FoundOut
<1>1. KeepaliveInv => FoundOut
  <2> SUFFICES ASSUME KeepaliveInv, ~known, ~lost
               PROVE  since <= Period + 3 * Delay + missed * (Period + Delay)
    BY DEF FoundOut
  <2> DEFINE extra == missed * (Period + Delay)
  <2>1. Period \in Nat /\ Delay \in Nat /\ missed \in Nat /\ since \in Nat
    BY PeriodType, TimeAssumption DEF KeepaliveInv, TypeOK
  <2>2. extra \in Nat
    BY <2>1, OneMore
  <2>3. Late = Delay + extra
    BY DEF Late
  <2>4. since <= Late + Period + 2 * Delay
    BY SinceBound
  <2> HIDE DEF extra
  <2>5. since <= Period + 3 * Delay + extra
    BY <2>1, <2>2, <2>3, <2>4
  <2>6. QED
    BY <2>5 DEF extra
<1>2. QED
  BY <1>1, Invariant, PTL
=============================================================================
