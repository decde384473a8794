-------------------------- MODULE AgentSendProofs ---------------------------
(***************************************************************************)
(* Proofs about AgentSend and Replay, for every payload size, window, rate *)
(* limit, set of message lengths and bound.                                *)
(***************************************************************************)
EXTENDS Replay, Lemmas

USE SendAssumption

-----------------------------------------------------------------------------
(* Type correctness.                                                       *)

Datagrams(N) == [bulked : BOOLEAN, mesgs : Seq(N), len : Nat]

(* A sequence over a set is one over any larger set.                       *)
LEMMA Widen ==
  ASSUME NEW S, NEW T, S \subseteq T, NEW s \in Seq(S)
  PROVE  s \in Seq(T)
BY SeqMonotonic

LEMMA WidenDatagrams ==
  ASSUME NEW S, NEW T, S \subseteq T, NEW ds \in Seq(Datagrams(S))
  PROVE  ds \in Seq(Datagrams(T))
<1>1. Datagrams(S) \subseteq Datagrams(T)
  <2>1. Seq(S) \subseteq Seq(T)
    BY Widen
  <2>. QED BY <2>1 DEF Datagrams
<1>. QED BY <1>1, Widen

(* What a flush sends is a datagram of messages that have passed.          *)
LEMMA FlushType ==
  ASSUME NEW N, bulk \in Seq(N), bulkLen \in Nat
  PROVE  Flush \in Seq(Datagrams(N))
<1>1. Bulked(bulk, bulkLen) \in Datagrams(N)
  BY DEF Bulked, Datagrams
<1>. HIDE DEF Bulked
<1>2. <<>> \in Seq(Datagrams(N)) /\ <<Bulked(bulk, bulkLen)>> \in Seq(Datagrams(N))
  BY <1>1
<1>. QED BY <1>2 DEF Flush

(***************************************************************************)
(* The types of a call that passes the rate limit, whatever it then does   *)
(* with the message: the numbers now go one further.                       *)
(***************************************************************************)
LEMMA PassType ==
  ASSUME TypeOK, NEW m \in Mesgs, Pass(m)
  PROVE  /\ now' \in Nat /\ setBacks' \in Nat /\ running' \in BOOLEAN
         /\ rate' \in 1..RATE_LIMIT /\ skipped' \in Nat
         /\ passed' \in Seq(Mesgs) /\ Len(passed') = Len(passed) + 1
         /\ came' \in Seq(Nat) /\ Len(came') = Len(passed')
         /\ Number \in Numbers' /\ Numbers \subseteq Numbers'
         /\ wire \in Seq(Numbers') /\ bulk \in Seq(Numbers')
         /\ sent \in Seq(Datagrams(Numbers'))
         /\ Flush \in Seq(Datagrams(Numbers'))
<1>1. /\ passed' \in Seq(Mesgs) /\ Len(passed') = Len(passed) + 1
      /\ Len(passed) \in Nat
  BY AppendProperties DEF TypeOK, Pass
<1>2. Numbers \subseteq Numbers' /\ Number \in Numbers'
  BY <1>1 DEF Numbers, Number
<1>3. wire \in Seq(Numbers') /\ bulk \in Seq(Numbers')
  BY <1>2, Widen DEF TypeOK
<1>4. sent \in Seq(Datagrams(Numbers'))
  <2>1. sent \in Seq(Datagrams(Numbers))
    BY DEF TypeOK, Datagrams
  <2>. QED BY <2>1, <1>2, WidenDatagrams
<1>5. Flush \in Seq(Datagrams(Numbers'))
  BY <1>3, FlushType DEF TypeOK
<1>6. /\ now' \in Nat /\ setBacks' \in Nat /\ running' \in BOOLEAN
      /\ rate' \in 1..RATE_LIMIT /\ skipped' \in Nat
  BY DEF TypeOK, Pass, Draw
<1>7. came' \in Seq(Nat) /\ Len(came') = Len(passed')
  <2>1. came' = Append(came, now) /\ came \in Seq(Nat) /\ now \in Nat
        /\ Len(came) = Len(passed)
    BY DEF TypeOK, Pass
  <2>. QED BY <1>1, <2>1, AppendProperties
<1>. QED BY <1>1, <1>2, <1>3, <1>4, <1>5, <1>6, <1>7

LEMMA TypeAlone ==
  ASSUME TypeOK, NEW m \in Mesgs, SendAlone(m)
  PROVE  TypeOK'
<1>1. Pass(m)
  BY DEF SendAlone
<1>2. <<Single(m)>> \in Seq(Datagrams(Numbers'))
  <2>0. m.len \in Nat
    BY DEF Mesgs
  <2>1. <<Number>> \in Seq(Numbers')
    BY <1>1, PassType
  <2>2. Single(m) \in Datagrams(Numbers')
    BY <2>0, <2>1 DEF Single, Datagrams
  <2>. QED BY <2>2
<1>3. sent' \in Seq(Datagrams(Numbers'))
  BY <1>1, <1>2, PassType, ConcatProperties DEF SendAlone
<1>4. wire' \in Seq(Numbers')
  <2>1. <<Number>> \in Seq(Numbers')
    BY <1>1, PassType
  <2>. QED BY <1>1, <2>1, PassType, ConcatProperties DEF SendAlone
<1>5. bulk' \in Seq(Numbers') /\ bulkLen' \in Nat /\ bulkFirst' \in Nat
  BY DEF SendAlone, EmptyBuffer, TypeOK
<1>. QED BY <1>1, <1>3, <1>4, <1>5, PassType DEF TypeOK, Datagrams

LEMMA TypeBulk ==
  ASSUME TypeOK, NEW m \in Mesgs, SendBulk(m)
  PROVE  TypeOK'
<1>. DEFINE fits   == bulkLen + m.len <= BULK_PAYLOAD
            kept   == IF fits THEN bulk ELSE <<>>
            filled == Append(kept, Number)
            length == m.len + IF fits THEN bulkLen ELSE 0
            before == IF fits THEN <<>> ELSE Flush
            last   == <<Bulked(filled, length)>>
<1>1. Pass(m)
  BY DEF SendBulk
<1>2. filled \in Seq(Numbers') /\ length \in Nat
  <2>1. m.len \in Nat /\ bulkLen \in Nat
    BY DEF Mesgs, TypeOK
  <2>2. kept \in Seq(Numbers') /\ Number \in Numbers'
    BY <1>1, PassType
  <2>. HIDE DEF kept
  <2>. QED BY <2>1, <2>2, AppendProperties
<1>3. last \in Seq(Datagrams(Numbers')) /\ before \in Seq(Datagrams(Numbers'))
  <2>1. Bulked(filled, length) \in Datagrams(Numbers')
    BY <1>2 DEF Bulked, Datagrams
  <2>. QED BY <1>1, <2>1, PassType
<1>4. bulkFirst' \in Nat
  BY DEF SendBulk, TypeOK
<1>5. sent' \in Seq(Datagrams(Numbers'))
  <2>1. sent' = sent \o before \o last \/ sent' = sent \o before
    BY DEF SendBulk
  <2>2. sent \in Seq(Datagrams(Numbers'))
    BY <1>1, PassType
  <2>. HIDE DEF before, last
  <2>3. sent \o before \in Seq(Datagrams(Numbers'))
    BY <1>3, <2>2, ConcatProperties
  <2>. QED BY <1>3, <2>1, <2>3, ConcatProperties
<1>6. wire' \in Seq(Numbers')
  <2>1. \/ wire' = wire \o bulk \o <<Number>>
        \/ wire' = wire
        \/ wire' = wire \o bulk
    BY DEF SendBulk
  <2>2. /\ wire \in Seq(Numbers') /\ bulk \in Seq(Numbers')
        /\ <<Number>> \in Seq(Numbers')
    BY <1>1, PassType
  <2>3. wire \o bulk \in Seq(Numbers')
    BY <2>2, ConcatProperties
  <2>. QED BY <2>1, <2>2, <2>3, ConcatProperties
<1>7. bulk' \in Seq(Numbers') /\ bulkLen' \in Nat
  <2>1. \/ bulk' = <<>> /\ bulkLen' = 0
        \/ bulk' = filled /\ bulkLen' = length
    BY DEF SendBulk, EmptyBuffer
  <2>2. <<>> \in Seq(Numbers') /\ 0 \in Nat
    OBVIOUS
  <2>. HIDE DEF filled, length
  <2>. QED BY <1>2, <2>1, <2>2
<1>. HIDE DEF filled, length, before, last
<1>. QED BY <1>1, <1>4, <1>5, <1>6, <1>7, PassType DEF TypeOK, Datagrams

LEMMA TypeFinish == ASSUME TypeOK, Finish PROVE TypeOK'
<1>1. Numbers' = Numbers
  BY DEF Finish, Numbers
<1>2. sent' \in Seq(Datagrams(Numbers'))
  <2>1. sent \in Seq(Datagrams(Numbers)) /\ Flush \in Seq(Datagrams(Numbers))
    BY FlushType DEF TypeOK, Datagrams
  <2>. QED BY <1>1, <2>1, ConcatProperties DEF Finish
<1>3. wire' \in Seq(Numbers')
  BY <1>1, ConcatProperties DEF TypeOK, Finish
<1>4. bulk' = <<>> /\ bulkLen' = 0 /\ <<>> \in Seq(Numbers')
  BY DEF Finish, EmptyBuffer
<1>5. /\ now' \in Nat /\ setBacks' \in Nat /\ running' \in BOOLEAN
      /\ rate' \in 1..RATE_LIMIT /\ skipped' \in Nat
      /\ passed' \in Seq(Mesgs) /\ bulkFirst' \in Nat
      /\ came' \in Seq(Nat) /\ Len(came') = Len(passed')
  BY DEF TypeOK, Finish
<1>. QED BY <1>2, <1>3, <1>4, <1>5 DEF TypeOK, Datagrams

LEMMA TypeInit == Init => TypeOK
BY DEF Init, TypeOK, Draw

LEMMA TypeNext == TypeOK /\ [Next]_vars => TypeOK'
<1>. SUFFICES ASSUME TypeOK, [Next]_vars PROVE TypeOK'
  OBVIOUS
<1>1. CASE Tick
  BY <1>1 DEF TypeOK, Tick, Numbers
<1>2. CASE SetBack
  BY <1>2 DEF TypeOK, SetBack, Numbers
<1>3. CASE Skip
  BY <1>3 DEF TypeOK, Skip, Numbers
<1>4. CASE \E m \in Mesgs : SendAlone(m) \/ SendBulk(m)
  BY <1>4, TypeAlone, TypeBulk
<1>5. CASE Finish
  BY <1>5, TypeFinish
<1>6. CASE Kill
  BY <1>6 DEF TypeOK, Kill, Numbers
<1>7. CASE UNCHANGED vars
  BY <1>7 DEF TypeOK, vars, Numbers
<1>. QED BY <1>1, <1>2, <1>3, <1>4, <1>5, <1>6, <1>7 DEF Next

(* Every behaviour of the send path keeps every variable in its type.      *)
THEOREM TypeCorrect == Spec => []TypeOK
<1>. QED BY TypeInit, TypeNext, PTL DEF Spec

-----------------------------------------------------------------------------
(* Order.                                                                  *)

Held == wire \o bulk

(* A call that passes adds its number behind everything; any other step    *)
(* only moves messages from the buffer to the wire.                        *)
LEMMA HeldGrows ==
  ASSUME TypeOK, NEW m \in Mesgs, SendAlone(m) \/ SendBulk(m)
  PROVE  Held' = Append(Held, Number)
<1>. DEFINE N == Numbers'
<1>1. Pass(m)
  BY DEF SendAlone, SendBulk
<1>2. wire \in Seq(N) /\ bulk \in Seq(N) /\ Number \in N
  BY <1>1, PassType
<1>. HIDE DEF N
<1>3. CASE wire' = wire \o bulk \o <<Number>> /\ bulk' = <<>>
  <2>1. wire \o bulk \in Seq(N)
    BY <1>2, ConcatProperties
  <2>2. (wire \o bulk) \o <<Number>> = Append(wire \o bulk, Number)
    BY <1>2, <2>1, AppendIsConcat
  <2>3. Append(wire \o bulk, Number) \o <<>> = Append(wire \o bulk, Number)
    BY <1>2, <2>1, AppendProperties, ConcatEmptySeq
  <2>. QED BY <1>3, <2>2, <2>3 DEF Held
<1>4. CASE wire' = wire /\ bulk' = Append(bulk, Number)
  <2>1. bulk' = bulk \o <<Number>>
    BY <1>2, <1>4, AppendIsConcat
  <2>2. wire \o (bulk \o <<Number>>) = (wire \o bulk) \o <<Number>>
    BY <1>2, <<Number>> \in Seq(N), ConcatAssociative
  <2>3. (wire \o bulk) \o <<Number>> = Append(wire \o bulk, Number)
    BY <1>2, ConcatProperties, AppendIsConcat
  <2>. QED BY <1>4, <2>1, <2>2, <2>3 DEF Held
<1>5. CASE wire' = wire \o bulk /\ bulk' = Append(<<>>, Number)
  <2>1. bulk' = <<Number>>
    BY <1>5
  <2>2. (wire \o bulk) \o <<Number>> = Append(wire \o bulk, Number)
    BY <1>2, ConcatProperties, AppendIsConcat
  <2>. QED BY <1>5, <2>1, <2>2 DEF Held
<1>. QED BY <1>3, <1>4, <1>5 DEF SendAlone, SendBulk, EmptyBuffer

LEMMA HeldStays ==
  ASSUME TypeOK, Tick \/ SetBack \/ Skip \/ Finish \/ Kill \/ UNCHANGED vars
  PROVE  Held' = Held /\ passed' = passed
<1>1. CASE Finish
  <2>1. wire \o bulk \in Seq(Numbers)
    BY ConcatProperties DEF TypeOK
  <2>2. (wire \o bulk) \o <<>> = wire \o bulk
    BY <2>1, ConcatEmptySeq
  <2>. QED BY <1>1, <2>2 DEF Finish, EmptyBuffer, Held
<1>2. CASE ~Finish
  BY <1>2 DEF Tick, SetBack, Skip, Kill, vars, Held
<1>. QED BY <1>1, <1>2

LEMMA OrderNext == TypeOK /\ InOrder /\ [Next]_vars => InOrder'
<1>. SUFFICES ASSUME TypeOK, InOrder, [Next]_vars PROVE InOrder'
  OBVIOUS
<1>0. Held \in Seq(Numbers) /\ Len(passed) \in Nat
  BY ConcatProperties DEF TypeOK, Held
<1>1. CASE \E m \in Mesgs : SendAlone(m) \/ SendBulk(m)
  <2>1. PICK m \in Mesgs : SendAlone(m) \/ SendBulk(m)
    BY <1>1
  <2>2. Pass(m) /\ Held' = Append(Held, Number)
    BY <2>1, HeldGrows DEF SendAlone, SendBulk
  <2>3. Len(passed') = Len(passed) + 1
    BY <2>2, PassType
  <2>4. Held \in Seq(Nat) /\ Number \in Nat
    BY <1>0, Widen, Numbers \subseteq Nat DEF Numbers, Number
  <2>5. /\ Len(Held') = Len(Held) + 1
        /\ \A i \in 1..Len(Held) : Held'[i] = Held[i]
        /\ Held'[Len(Held) + 1] = Number
    BY <2>2, <2>4, AppendProperties
  <2>6. Len(Held) = Len(passed) /\ \A i \in 1..Len(Held) : Held[i] = i
    BY DEF InOrder, Held
  <2>7. \A i \in 1..Len(Held') : Held'[i] = i
    BY <1>0, <2>5, <2>6 DEF Number
  <2>. QED BY <2>3, <2>5, <2>6, <2>7 DEF InOrder, Held
<1>2. CASE Tick \/ SetBack \/ Skip \/ Finish \/ Kill \/ UNCHANGED vars
  BY <1>2, HeldStays DEF InOrder, Held
<1>. QED BY <1>1, <1>2 DEF Next

LEMMA OrderInit == Init => InOrder
BY DEF Init, InOrder

(***************************************************************************)
(* Whatever makes the buffer flush, and with whatever sizes, messages keep *)
(* their order and none is lost or sent twice.                             *)
(***************************************************************************)
THEOREM Ordered == Spec => []InOrder
<1>. QED BY OrderInit, OrderNext, TypeCorrect, PTL DEF Spec
-----------------------------------------------------------------------------
(* The abstract send path.                                                 *)

LEMMA RelayInit == Init => Link!Init
BY DEF Init, Link!Init

(* In order means that what went out is a prefix of what was accepted.     *)
Prefixed == /\ Len(wire) \in 0..Len(passed)
            /\ \A i \in 1..Len(wire) : wire[i] = i

LEMMA WirePrefix == TypeOK /\ InOrder => Prefixed
<1>. SUFFICES ASSUME TypeOK, InOrder PROVE Prefixed
  OBVIOUS
<1>1. /\ wire \in Seq(Numbers) /\ bulk \in Seq(Numbers)
      /\ Len(passed) \in Nat
  BY DEF TypeOK
<1>2. /\ Len(wire \o bulk) = Len(wire) + Len(bulk)
      /\ \A i \in 1..Len(wire) : (wire \o bulk)[i] = wire[i]
  BY <1>1, ConcatProperties
<1>. QED BY <1>1, <1>2 DEF InOrder, Prefixed

(* Nothing that went out is taken back.                                    *)
LEMMA WireGrows ==
  ASSUME TypeOK, TypeOK', [Next]_vars
  PROVE  Len(wire) <= Len(wire')
<1>1. wire \in Seq(Numbers) /\ bulk \in Seq(Numbers)
  BY DEF TypeOK
<1>2. CASE wire' = wire
  BY <1>1, <1>2
<1>3. CASE wire' = wire \o bulk
  BY <1>1, <1>3, ConcatProperties
<1>4. CASE wire' = wire \o bulk \o <<Number>>
  <2>1. wire \in Seq(Nat) /\ bulk \in Seq(Nat) /\ <<Number>> \in Seq(Nat)
    <3>1. Numbers \subseteq Nat
      BY DEF Numbers
    <3>2. Number \in Nat
      BY DEF TypeOK, Number
    <3>3. wire \in Seq(Nat) /\ bulk \in Seq(Nat)
      BY <1>1, <3>1, Widen
    <3>. QED BY <3>2, <3>3
  <2>2. wire \o bulk \in Seq(Nat) /\ Len(wire) <= Len(wire \o bulk)
    BY <2>1, ConcatProperties
  <2>3. Len((wire \o bulk) \o <<Number>>) = Len(wire \o bulk) + 1
    BY <2>1, <2>2, ConcatProperties
  <2>. QED BY <1>1, <1>4, <2>2, <2>3
<1>. QED
  BY <1>2, <1>3, <1>4
     DEF Next, Tick, SetBack, Skip, SendAlone, SendBulk, Finish, Kill, vars

LEMMA RelayNext ==
  ASSUME TypeOK, TypeOK', Prefixed, Prefixed', [Next]_vars
  PROVE  [Link!Next]_(Link!vars)
<1>. DEFINE out == [i \in 1..Len(wire) |-> passed[wire[i]]]
            k   == Len(wire')
<1>0. passed \in Seq(Mesgs) /\ passed' \in Seq(Mesgs)
  BY DEF TypeOK
<1>1. out = [i \in 1..Len(wire) |-> passed[i]] /\ Len(wire) \in 0..Len(passed)
  BY DEF Prefixed
<1>2. out' = [i \in 1..k |-> passed'[i]] /\ k \in 0..Len(passed')
  BY DEF Prefixed
<1>3. Len(out) = Len(wire)
  OBVIOUS
<1>4. k \in Len(out)..Len(passed')
  BY <1>0, <1>1, <1>2, <1>3, WireGrows
<1>5. out' = SubSeq(passed', 1, k)
  BY <1>0, <1>2, SubSeqProperties
<1>6. passed' = passed \/ \E m \in Mesgs : passed' = Append(passed, m)
  BY DEF Next, Tick, SetBack, Skip, SendAlone, SendBulk, Pass, Finish, Kill, vars
<1>7. \E j \in Len(out)..Len(passed') : out' = SubSeq(passed', 1, j)
  BY <1>4, <1>5
<1>. QED
  BY <1>6, <1>7 DEF Link!Next, Link!Accept, Link!Forward, Link!vars

(***************************************************************************)
(* The send path implements the relay: to whoever receives the datagrams,  *)
(* rate limit, bulk buffer and window only decide when messages come.      *)
(***************************************************************************)
THEOREM Implements == Spec => ImplementsRelay
<1>1. Init => Link!Init
  BY RelayInit
<1>2. TypeOK /\ TypeOK' /\ Prefixed /\ Prefixed' /\ [Next]_vars
        => [Link!Next]_(Link!vars)
  BY RelayNext
<1>. QED
  BY <1>1, <1>2, WirePrefix, TypeCorrect, Ordered, PTL
     DEF Spec, ImplementsRelay, Link!Spec

-----------------------------------------------------------------------------
(* The rate limit and the window.                                          *)

LEMMA RateNext == TypeOK /\ RateBound /\ [Next]_vars => RateBound'
<1>. SUFFICES ASSUME TypeOK, RateBound, [Next]_vars PROVE RateBound'
  OBVIOUS
<1>0. rate \in 1..RATE_LIMIT /\ skipped \in Nat /\ RATE_LIMIT \in Nat
  BY DEF TypeOK
<1>1. CASE Skip
  BY <1>0, <1>1 DEF Skip, RateBound
<1>2. CASE \E m \in Mesgs : SendAlone(m) \/ SendBulk(m)
  <2>1. rate' \in 1..RATE_LIMIT /\ skipped' = 0
    BY <1>2 DEF SendAlone, SendBulk, Pass, Draw
  <2>2. \A r \in 1..RATE_LIMIT : 0 + r <= RATE_LIMIT
    BY <1>0
  <2>. QED BY <2>1, <2>2, Zenon DEF RateBound
<1>3. CASE Tick \/ SetBack \/ Finish \/ Kill \/ UNCHANGED vars
  BY <1>3 DEF Tick, SetBack, Finish, Kill, vars, RateBound
<1>. QED BY <1>1, <1>2, <1>3 DEF Next

(* -R n never drops n messages in a row.                                   *)
THEOREM RateLimited == Spec => []RateBound
<1>1. Init => RateBound
  BY DEF Init, RateBound, Draw
<1>. QED BY <1>1, RateNext, TypeCorrect, PTL DEF Spec

(***************************************************************************)
(* The window runs from when the oldest record in the buffer came.         *)
(***************************************************************************)
FirstInv == bulk # <<>> => bulkFirst = came[bulk[1]]

LEMMA FirstIs ==
  ASSUME TypeOK, FirstInv, NEW m \in Mesgs, SendBulk(m)
  PROVE  LET kept == IF bulkLen + m.len <= BULK_PAYLOAD THEN bulk ELSE <<>>
         IN  bulkFirst' = came'[Append(kept, Number)[1]]
<1>. DEFINE kept == IF bulkLen + m.len <= BULK_PAYLOAD THEN bulk ELSE <<>>
<1>1. /\ bulkFirst' = IF kept = <<>> THEN now ELSE bulkFirst
      /\ came' = Append(came, now)
  BY DEF SendBulk, Pass
<1>2. /\ came \in Seq(Nat) /\ now \in Nat /\ Len(came) \in Nat
      /\ Number = Len(came) + 1 /\ Numbers = 1..Len(came)
      /\ bulk \in Seq(Numbers)
  BY DEF TypeOK, Number, Numbers
<1>3. /\ came'[Number] = now /\ \A n \in Numbers : came'[n] = came[n]
  BY <1>1, <1>2, AppendProperties
<1>4. CASE kept = <<>>
  <2>1. Append(<<>>, Number)[1] = Number
    OBVIOUS
  <2>. QED BY <1>1, <1>3, <1>4, <2>1
<1>5. CASE kept # <<>>
  <2>1. kept = bulk /\ bulk # <<>>
    BY <1>5
  <2>2. bulk[1] \in Numbers /\ Append(bulk, Number)[1] = bulk[1]
    <3>1. bulk \in Seq(Nat) /\ Number \in Nat
      BY <1>2, Widen, Numbers \subseteq Nat DEF Numbers
    <3>2. 1 \in 1..Len(bulk)
      BY <1>2, <2>1, EmptySeq, LenProperties
    <3>. QED BY <1>2, <3>1, <3>2, ElementOfSeq, AppendProperties
  <2>. QED BY <1>1, <1>3, <1>5, <2>1, <2>2 DEF FirstInv
<1>. QED BY <1>4, <1>5

LEMMA FirstNext == TypeOK /\ FirstInv /\ [Next]_vars => FirstInv'
<1>. SUFFICES ASSUME TypeOK, FirstInv, [Next]_vars PROVE FirstInv'
  OBVIOUS
<1>1. CASE bulk' = <<>>
  BY <1>1 DEF FirstInv
<1>2. CASE UNCHANGED <<bulk, bulkFirst, came>>
  BY <1>2 DEF FirstInv
<1>3. ASSUME NEW m \in Mesgs, SendBulk(m) PROVE FirstInv'
  <2>. DEFINE kept == IF bulkLen + m.len <= BULK_PAYLOAD THEN bulk ELSE <<>>
  <2>1. bulkFirst' = came'[Append(kept, Number)[1]]
    BY <1>3, FirstIs
  <2>2. bulk' = <<>> \/ bulk' = Append(kept, Number)
    BY <1>3 DEF SendBulk, EmptyBuffer
  <2>. HIDE DEF kept
  <2>. QED BY <2>1, <2>2 DEF FirstInv
<1>. QED BY <1>1, <1>2, <1>3
         DEF Next, Tick, SetBack, Skip, SendAlone, Finish, Kill, EmptyBuffer, vars

LEMMA ElapsedNat == \A a, b \in Nat : Elapsed(a, b) \in Nat
BY DEF Elapsed

LEMMA ElapsedIs ==
  \A a, b \in Nat : BULK_MS > 0 => (Elapsed(a, b) >= BULK_MS <=> a >= b + BULK_MS)
BY DEF Elapsed

(***************************************************************************)
(* What a call that passes the rate limit leaves in the buffer is within   *)
(* the window by the clock, and what it sends of records that fit is not,  *)
(* even if the clock was set back.                                         *)
(***************************************************************************)
THEOREM Fresh == Spec => FreshAfterSend
<1>. DEFINE Step ==
              LET m    == Last(passed')
                  held == Append(bulk, Number)
              IN  /\ bulk' # <<>> => ~WindowOver(bulk'[1])
                  /\ (IsBulk(m) /\ bulkLen + m.len <= BULK_PAYLOAD /\ sent' # sent)
                       => WindowOver(held[1])
<1>1. ASSUME TypeOK, FirstInv, [Next]_vars, passed' # passed PROVE Step
  <2>1. PICK m \in Mesgs : SendAlone(m) \/ SendBulk(m)
    BY <1>1, HeldStays DEF Next
  <2>2. /\ now' = now /\ Last(passed') = m
    <3>1. Pass(m) /\ passed \in Seq(Mesgs)
      BY <1>1, <2>1 DEF SendAlone, SendBulk, TypeOK
    <3>2. passed' = Append(passed, m) /\ now' = now
      BY <3>1 DEF Pass
    <3>3. Last(Append(passed, m)) = m
      BY <3>1, AppendProperties DEF Last
    <3>. QED BY <3>2, <3>3
  <2>3. bulkLen \in Nat /\ m.len \in Nat /\ sent \o <<>> = sent
    <3>1. sent \in Seq([bulked : BOOLEAN, mesgs : Seq(Numbers), len : Nat])
      BY <1>1 DEF TypeOK
    <3>. QED BY <1>1, <3>1, ConcatEmptySeq DEF TypeOK, Mesgs
  <2>4. CASE SendAlone(m)
    <3>1. bulk' = <<>>
      BY <2>4 DEF SendAlone, EmptyBuffer
    <3>2. ~(IsBulk(m) /\ bulkLen + m.len <= BULK_PAYLOAD)
      BY <2>3, <2>4 DEF SendAlone
    <3>. QED BY <2>2, <3>1, <3>2
  <2>5. CASE SendBulk(m)
    <3>. DEFINE fits   == bulkLen + m.len <= BULK_PAYLOAD
                filled == Append(IF fits THEN bulk ELSE <<>>, Number)
    <3>1. bulkFirst' = came'[filled[1]]
      BY <1>1, <2>5, FirstIs
    <3>2. (now >= bulkFirst' + BULK_MS) <=> Expired(bulkFirst')
      <4>1. BULK_MS > 0
        BY <2>5 DEF SendBulk, IsBulk
      <4>2. now \in Nat /\ bulkFirst' \in Nat
        BY <1>1, <2>2, TypeNext DEF TypeOK
      <4>. QED BY <4>1, <4>2, ElapsedIs DEF Expired
    <3>3. \/ Expired(bulkFirst') /\ bulk' = <<>>
          \/ /\ ~Expired(bulkFirst') /\ bulk' = filled
             /\ fits => sent' = sent \o <<>>
      BY <2>5 DEF SendBulk, EmptyBuffer
    <3>4. bulk' # <<>> => ~WindowOver(bulk'[1])
      <4>. HIDE DEF filled
      <4>. QED BY <2>2, <3>1, <3>2, <3>3 DEF WindowOver
    <3>5. ASSUME fits, sent' # sent PROVE WindowOver(Append(bulk, Number)[1])
      <4>1. filled = Append(bulk, Number)
        BY <3>5
      <4>2. Expired(bulkFirst')
        BY <2>3, <3>3, <3>5
      <4>. HIDE DEF filled, fits
      <4>. QED BY <2>2, <3>1, <3>2, <4>1, <4>2 DEF WindowOver
    <3>. QED BY <2>2, <3>4, <3>5
  <2>. QED BY <2>1, <2>4, <2>5
<1>2. TypeOK /\ FirstInv /\ [Next]_vars => [passed' # passed => Step]_vars
  BY <1>1
<1>3. Init => FirstInv
  BY DEF Init, FirstInv
<1>. QED BY <1>2, <1>3, FirstNext, TypeCorrect, PTL DEF Spec, FreshAfterSend
-----------------------------------------------------------------------------
(* The buffer's size.                                                      *)

(* LenOf, with the messages that have passed as a parameter. *)
Lengths(p, mesgs) == [j \in DOMAIN mesgs |-> p[mesgs[j]].len]

LEMMA LengthsType ==
  ASSUME NEW p \in Seq(Mesgs), NEW s \in Seq(1..Len(p))
  PROVE  /\ Lengths(p, s) \in Seq(Nat) /\ Len(Lengths(p, s)) = Len(s)
         /\ \A j \in 1..Len(s) : Lengths(p, s)[j] = p[s[j]].len
<1>1. Len(s) \in Nat /\ DOMAIN s = 1..Len(s)
  BY LenProperties
<1>2. \A j \in 1..Len(s) : p[s[j]].len \in Nat
  <2>1. \A j \in 1..Len(s) : s[j] \in 1..Len(p)
    BY ElementOfSeq
  <2>2. \A i \in 1..Len(p) : p[i] \in Mesgs
    BY ElementOfSeq
  <2>. QED BY <2>1, <2>2 DEF Mesgs
<1>3. Lengths(p, s) \in [1..Len(s) -> Nat]
  BY <1>1, <1>2 DEF Lengths
<1>. QED BY <1>1, <1>3, FunctionIsSeq DEF Lengths

(* A record more in the buffer is its length more. *)
LEMMA LengthsAppend ==
  ASSUME NEW p \in Seq(Mesgs), NEW s \in Seq(1..Len(p)), NEW n \in 1..Len(p)
  PROVE  Lengths(p, Append(s, n)) = Append(Lengths(p, s), p[n].len)
<1>. DEFINE a == Lengths(p, Append(s, n))
            b == Append(Lengths(p, s), p[n].len)
<1>1. Append(s, n) \in Seq(1..Len(p)) /\ Len(Append(s, n)) = Len(s) + 1
      /\ Append(s, n)[Len(s) + 1] = n /\ \A j \in 1..Len(s) : Append(s, n)[j] = s[j]
  BY AppendProperties
<1>2. /\ a \in Seq(Nat) /\ Len(a) = Len(s) + 1
      /\ \A j \in 1..Len(s) + 1 : a[j] = p[Append(s, n)[j]].len
  <2>. DEFINE t == Append(s, n)
  <2>. HIDE DEF t
  <2>1. t \in Seq(1..Len(p)) /\ Len(t) = Len(s) + 1
    BY <1>1 DEF t
  <2>2. /\ Lengths(p, t) \in Seq(Nat) /\ Len(Lengths(p, t)) = Len(t)
        /\ \A j \in 1..Len(t) : Lengths(p, t)[j] = p[t[j]].len
    BY <2>1, LengthsType
  <2>. QED BY <2>1, <2>2 DEF t
<1>3. /\ Lengths(p, s) \in Seq(Nat) /\ Len(Lengths(p, s)) = Len(s)
      /\ \A j \in 1..Len(s) : Lengths(p, s)[j] = p[s[j]].len
  BY LengthsType
<1>4. p[n].len \in Nat
  <2>1. p[n] \in Mesgs
    BY ElementOfSeq
  <2>. QED BY <2>1 DEF Mesgs
<1>5. b \in Seq(Nat) /\ Len(b) = Len(s) + 1 /\ b[Len(s) + 1] = p[n].len
      /\ \A j \in 1..Len(s) : b[j] = p[s[j]].len
  <2>. DEFINE l == Lengths(p, s)
              x == p[n].len
  <2>. HIDE DEF l, x
  <2>1. l \in Seq(Nat) /\ Len(l) = Len(s) /\ x \in Nat
    BY <1>3, <1>4 DEF l, x
  <2>2. /\ Append(l, x) \in Seq(Nat) /\ Len(Append(l, x)) = Len(s) + 1
        /\ Append(l, x)[Len(s) + 1] = x
        /\ \A j \in 1..Len(s) : Append(l, x)[j] = l[j]
    BY <2>1, AppendProperties
  <2>. QED BY <1>3, <2>2 DEF l, x
<1>6. Len(s) \in Nat /\ \A j \in 1..Len(s) + 1 : j = Len(s) + 1 \/ j \in 1..Len(s)
  BY LenProperties
<1>. HIDE DEF a, b
<1>7. \A j \in 1..Len(s) + 1 : a[j] = b[j]
  <2>1. Len(s) + 1 \in 1..Len(s) + 1
    BY <1>6
  <2>2. a[Len(s) + 1] = b[Len(s) + 1]
    BY <1>1, <1>2, <1>5, <2>1
  <2>3. ASSUME NEW j \in 1..Len(s) PROVE a[j] = b[j]
    <3>1. j \in 1..Len(s) + 1
      BY <1>6
    <3>. QED BY <1>1, <1>2, <1>5, <3>1
  <2>. QED BY <1>6, <2>2, <2>3
<1>8. a = b
  BY <1>2, <1>5, <1>7, SeqEqual
<1>. QED BY <1>8 DEF a, b

(* A message more that passes leaves the lengths of the others.            *)
LEMMA LengthsGrown ==
  ASSUME NEW p \in Seq(Mesgs), NEW m \in Mesgs, NEW s \in Seq(1..Len(p))
  PROVE  Lengths(Append(p, m), s) = Lengths(p, s)
<1>1. DOMAIN s = 1..Len(s) /\ \A j \in 1..Len(s) : s[j] \in 1..Len(p)
  BY LenProperties, ElementOfSeq
<1>2. \A i \in 1..Len(p) : Append(p, m)[i] = p[i]
  BY AppendProperties
<1>. QED BY <1>1, <1>2 DEF Lengths

(* What a sequence of messages has to be to be a bulk datagram.            *)
Fly(p, mesgs) == \A n \in ToSet(mesgs) : p[n].kind = "fly"

BulkOf(p, mesgs, len) ==
  Fly(p, mesgs) /\ len = Total(Lengths(p, mesgs)) /\ len <= BULK_PAYLOAD

GoodBulk(p, d) ==
  d.bulked => /\ d.mesgs # <<>> /\ Fly(p, d.mesgs)
              /\ d.len = AGENT_LINE + HEADER_LEN + Total(Lengths(p, d.mesgs))
              /\ Total(Lengths(p, d.mesgs)) <= BULK_PAYLOAD

GoodSent(p, ds) == \A i \in 1..Len(ds) : GoodBulk(p, ds[i])

BufferInv == BulkOf(passed, bulk, bulkLen) /\ GoodSent(passed, sent)

LEMMA BufferInvImplies == BufferInv => BufferFits
BY DEF BufferInv, BulkOf, GoodSent, GoodBulk, Fly, BufferFits, LenOf, Lengths

LEMMA BulkOfGrown ==
  ASSUME NEW p \in Seq(Mesgs), NEW m \in Mesgs, NEW s \in Seq(1..Len(p)), NEW len,
         BulkOf(p, s, len)
  PROVE  BulkOf(Append(p, m), s, len)
<1>1. \A n \in ToSet(s) : n \in 1..Len(p)
  BY ElementOfSeq DEF ToSet
<1>2. \A i \in 1..Len(p) : Append(p, m)[i] = p[i]
  BY AppendProperties
<1>3. Lengths(Append(p, m), s) = Lengths(p, s)
  BY LengthsGrown
<1>. QED BY <1>1, <1>2, <1>3 DEF BulkOf, Fly

LEMMA GoodSentGrown ==
  ASSUME NEW p \in Seq(Mesgs), NEW m \in Mesgs,
         NEW ds \in Seq(Datagrams(1..Len(p))), GoodSent(p, ds)
  PROVE  GoodSent(Append(p, m), ds)
<1>. SUFFICES ASSUME NEW i \in 1..Len(ds), ds[i].bulked
              PROVE  GoodBulk(Append(p, m), ds[i])
  BY DEF GoodSent, GoodBulk
<1>1. ds[i].mesgs \in Seq(1..Len(p))
  <2>1. ds[i] \in Datagrams(1..Len(p))
    BY ElementOfSeq
  <2>. QED BY <2>1 DEF Datagrams
<1>. DEFINE s == ds[i].mesgs
<1>2. s # <<>> /\ BulkOf(p, s, Total(Lengths(p, s)))
      /\ ds[i].len = AGENT_LINE + HEADER_LEN + Total(Lengths(p, s))
  BY DEF GoodSent, GoodBulk, BulkOf
<1>3. BulkOf(Append(p, m), s, Total(Lengths(p, s)))
  <2>. HIDE DEF s
  <2>. QED BY <1>1, <1>2, BulkOfGrown DEF s
<1>. QED BY <1>2, <1>3 DEF BulkOf, GoodBulk

(* One more record in the buffer. *)
LEMMA BulkOfAppend ==
  ASSUME NEW p \in Seq(Mesgs), NEW s \in Seq(1..Len(p)), NEW n \in 1..Len(p), NEW len,
         BulkOf(p, s, len), p[n].kind = "fly", len + p[n].len <= BULK_PAYLOAD
  PROVE  BulkOf(p, Append(s, n), len + p[n].len)
<1>1. p[n].len \in Nat
  <2>1. p[n] \in Mesgs
    BY ElementOfSeq
  <2>. QED BY <2>1 DEF Mesgs
<1>2. Total(Lengths(p, Append(s, n))) = Total(Lengths(p, s)) + p[n].len
  BY <1>1, LengthsAppend, LengthsType, TotalAppend, ZenonT(30)
<1>3. ToSet(Append(s, n)) = ToSet(s) \cup {n}
  BY ToSetAppend
<1>. QED BY <1>2, <1>3 DEF BulkOf, Fly

LEMMA BulkOfNone == \A p : BulkOf(p, <<>>, 0)
<1>1. \A p : Lengths(p, <<>>) = <<>>
  BY DEF Lengths
<1>2. ToSet(<<>>) = {}
  BY DEF ToSet
<1>. QED BY <1>1, <1>2, TotalNone DEF BulkOf, Fly

LEMMA GoodSentConcat ==
  ASSUME NEW S, NEW a \in Seq(S), NEW b \in Seq(S), NEW p, GoodSent(p, a), GoodSent(p, b)
  PROVE  GoodSent(p, a \o b)
<1>. SUFFICES ASSUME NEW i \in 1..Len(a \o b) PROVE GoodBulk(p, (a \o b)[i])
  BY DEF GoodSent
<1>1. Len(a \o b) = Len(a) + Len(b) /\ Len(a) \in Nat /\ Len(b) \in Nat
  BY LenProperties, ConcatProperties
<1>2. (a \o b)[i] = IF i <= Len(a) THEN a[i] ELSE b[i - Len(a)]
  BY ConcatProperties
<1>3. CASE i <= Len(a)
  <2>1. i \in 1..Len(a)
    BY <1>1, <1>3
  <2>. QED BY <1>2, <1>3, <2>1 DEF GoodSent
<1>4. CASE i > Len(a)
  <2>1. i - Len(a) \in 1..Len(b) /\ ~(i <= Len(a))
    BY <1>1, <1>4
  <2>. QED BY <1>2, <2>1 DEF GoodSent
<1>. QED BY <1>1, <1>3, <1>4

(* What waits makes a good datagram. *)
LEMMA BulkedIsGood ==
  ASSUME NEW p, NEW s, NEW len, s # <<>>, BulkOf(p, s, len)
  PROVE  GoodSent(p, <<Bulked(s, len)>>)
<1>1. GoodBulk(p, Bulked(s, len))
  BY DEF BulkOf, GoodBulk, Bulked
<1>. HIDE DEF Bulked
<1>2. Len(<<Bulked(s, len)>>) = 1 /\ <<Bulked(s, len)>>[1] = Bulked(s, len)
  OBVIOUS
<1>. QED BY <1>1, <1>2 DEF GoodSent

LEMMA FlushIsGood ==
  ASSUME NEW p, BulkOf(p, bulk, bulkLen) PROVE GoodSent(p, Flush)
<1>1. CASE bulk = <<>>
  BY <1>1 DEF Flush, GoodSent
<1>2. CASE bulk # <<>>
  BY <1>2, BulkedIsGood DEF Flush
<1>. QED BY <1>1, <1>2

LEMMA BufferInit == Init => BufferInv
<1>. SUFFICES ASSUME Init PROVE BufferInv
  OBVIOUS
<1>1. GoodSent(passed, <<>>)
  BY DEF GoodSent
<1>. QED BY <1>1, BulkOfNone DEF Init, BufferInv

(* What a call that passes finds still holds of what has passed by then.   *)
LEMMA BufferPass ==
  ASSUME TypeOK, BufferInv, NEW m \in Mesgs, Pass(m)
  PROVE  /\ BulkOf(passed', bulk, bulkLen) /\ GoodSent(passed', sent)
         /\ GoodSent(passed', Flush)
         /\ Number \in 1..Len(passed') /\ passed'[Number] = m
<1>1. /\ passed \in Seq(Mesgs) /\ bulk \in Seq(1..Len(passed))
      /\ sent \in Seq(Datagrams(1..Len(passed)))
      /\ passed' = Append(passed, m)
  BY DEF TypeOK, Datagrams, Numbers, Pass
<1>2. BulkOf(passed', bulk, bulkLen) /\ GoodSent(passed', sent)
  BY <1>1, BulkOfGrown, GoodSentGrown DEF BufferInv
<1>3. Number \in 1..Len(passed') /\ passed'[Number] = m
  BY <1>1, AppendProperties, LenProperties DEF Number
<1>. QED BY <1>2, <1>3, FlushIsGood

LEMMA BufferAlone ==
  ASSUME TypeOK, BufferInv, NEW m \in Mesgs, SendAlone(m)
  PROVE  BufferInv'
<1>1. Pass(m) /\ sent' = sent \o Flush \o <<Single(m)>> /\ bulk' = <<>> /\ bulkLen' = 0
  BY DEF SendAlone, EmptyBuffer
<1>. DEFINE S == Datagrams(Numbers') \cup {Single(m)}
            last == <<Single(m)>>
<1>2. sent \in Seq(S) /\ Flush \in Seq(S) /\ last \in Seq(S)
  <2>1. sent \in Seq(Datagrams(Numbers')) /\ Flush \in Seq(Datagrams(Numbers'))
    BY <1>1, PassType
  <2>2. Datagrams(Numbers') \subseteq S /\ Single(m) \in S
    OBVIOUS
  <2>. HIDE DEF S
  <2>. QED BY <2>1, <2>2, Widen
<1>3. GoodSent(passed', last)
  BY DEF GoodSent, GoodBulk, Single
<1>4. GoodSent(passed', sent) /\ GoodSent(passed', Flush)
  BY <1>1, BufferPass
<1>. HIDE DEF S, last
<1>5. sent \o Flush \in Seq(S) /\ GoodSent(passed', sent \o Flush)
  BY <1>2, <1>4, GoodSentConcat, ConcatProperties
<1>6. GoodSent(passed', (sent \o Flush) \o last)
  BY <1>2, <1>3, <1>5, GoodSentConcat
<1>7. BulkOf(passed', <<>>, 0)
  BY BulkOfNone
<1>. QED BY <1>1, <1>6, <1>7 DEF BufferInv, last

LEMMA BufferBulk ==
  ASSUME TypeOK, BufferInv, NEW m \in Mesgs, SendBulk(m)
  PROVE  BufferInv'
<1>. DEFINE fits   == bulkLen + m.len <= BULK_PAYLOAD
            kept   == IF fits THEN bulk ELSE <<>>
            keptLen == IF fits THEN bulkLen ELSE 0
            filled == Append(kept, Number)
            length == m.len + IF fits THEN bulkLen ELSE 0
            before == IF fits THEN <<>> ELSE Flush
            last   == <<Bulked(filled, length)>>
            p      == passed'
<1>1. /\ Pass(m) /\ m.kind = "fly" /\ m.len \in Nat /\ m.len <= BULK_PAYLOAD
      /\ bulkLen \in Nat
      /\ \/ sent' = sent \o before \o last /\ bulk' = <<>> /\ bulkLen' = 0
         \/ sent' = sent \o before /\ bulk' = filled /\ bulkLen' = length
  BY DEF SendBulk, EmptyBuffer, IsBulk, Mesgs, TypeOK
<1>2. /\ BulkOf(p, bulk, bulkLen) /\ GoodSent(p, sent) /\ GoodSent(p, Flush)
      /\ Number \in 1..Len(p) /\ p[Number] = m
  BY <1>1, BufferPass
<1>3. /\ p \in Seq(Mesgs) /\ bulk \in Seq(1..Len(p))
      /\ sent \in Seq(Datagrams(1..Len(p))) /\ Flush \in Seq(Datagrams(1..Len(p)))
  BY <1>1, PassType DEF Numbers
<1>4. BulkOf(p, filled, length) /\ filled \in Seq(1..Len(p)) /\ filled # <<>>
      /\ length \in Nat
  <2>. HIDE DEF p
  <2>1. /\ BulkOf(p, kept, keptLen) /\ kept \in Seq(1..Len(p))
        /\ keptLen + m.len <= BULK_PAYLOAD /\ length = keptLen + m.len /\ keptLen \in Nat
    <3>1. CASE fits
      BY <1>1, <1>2, <1>3, <3>1
    <3>2. CASE ~fits
      <4>1. kept = <<>> /\ keptLen = 0 /\ length = m.len + 0
        BY <3>2
      <4>. HIDE DEF kept, keptLen, length
      <4>. QED BY <1>1, <4>1, BulkOfNone
    <3>. HIDE DEF kept, keptLen, length, fits
    <3>. QED BY <3>1, <3>2
  <2>. HIDE DEF kept, keptLen, length
  <2>2. p[Number].kind = "fly" /\ keptLen + p[Number].len <= BULK_PAYLOAD
    BY <1>1, <1>2, <2>1
  <2>3. BulkOf(p, Append(kept, Number), keptLen + p[Number].len)
    BY <1>2, <1>3, <2>1, <2>2, BulkOfAppend
  <2>4. Append(kept, Number) \in Seq(1..Len(p)) /\ Append(kept, Number) # <<>>
    <3>1. Len(Append(kept, Number)) = Len(kept) + 1 /\ Len(kept) \in Nat
      BY <1>2, <2>1, AppendProperties, LenProperties
    <3>. QED BY <1>2, <2>1, <3>1, AppendProperties
  <2>5. length \in Nat
    BY <1>1, <2>1
  <2>. QED BY <1>2, <2>1, <2>3, <2>4, <2>5
<1>5. before \in Seq(Datagrams(1..Len(p))) /\ GoodSent(p, before)
  <2>. HIDE DEF p
  <2>1. <<>> \in Seq(Datagrams(1..Len(p))) /\ GoodSent(p, <<>>)
    BY DEF GoodSent
  <2>. QED BY <1>2, <1>3, <2>1
<1>6. last \in Seq(Datagrams(1..Len(p))) /\ GoodSent(p, last)
  <2>. HIDE DEF filled, length, p
  <2>1. Bulked(filled, length) \in Datagrams(1..Len(p))
    BY <1>4 DEF Bulked, Datagrams
  <2>2. last \in Seq(Datagrams(1..Len(p)))
    <3>. HIDE DEF Bulked
    <3>. QED BY <2>1
  <2>. QED BY <1>4, <2>2, BulkedIsGood
<1>. HIDE DEF before, last, filled, length, p
<1>7. sent \o before \in Seq(Datagrams(1..Len(p))) /\ GoodSent(p, sent \o before)
  BY <1>2, <1>3, <1>5, GoodSentConcat, ConcatProperties
<1>8. GoodSent(p, (sent \o before) \o last)
  BY <1>6, <1>7, GoodSentConcat
<1>9. BulkOf(p, <<>>, 0)
  BY BulkOfNone
<1>. QED BY <1>1, <1>4, <1>7, <1>8, <1>9 DEF BufferInv, p

LEMMA BufferFinish == ASSUME TypeOK, BufferInv, Finish PROVE BufferInv'
<1>1. /\ passed' = passed /\ sent' = sent \o Flush /\ bulk' = <<>> /\ bulkLen' = 0
  BY DEF Finish, EmptyBuffer
<1>2. sent \in Seq(Datagrams(Numbers)) /\ Flush \in Seq(Datagrams(Numbers))
  BY FlushType DEF TypeOK, Datagrams
<1>3. GoodSent(passed, sent) /\ GoodSent(passed, Flush)
  BY FlushIsGood DEF BufferInv
<1>4. GoodSent(passed, sent \o Flush)
  BY <1>2, <1>3, GoodSentConcat
<1>5. BulkOf(passed, <<>>, 0)
  BY BulkOfNone
<1>. QED BY <1>1, <1>4, <1>5 DEF BufferInv

LEMMA BufferNext == TypeOK /\ BufferInv /\ [Next]_vars => BufferInv'
<1>. SUFFICES ASSUME TypeOK, BufferInv, [Next]_vars PROVE BufferInv'
  OBVIOUS
<1>1. CASE UNCHANGED <<passed, bulk, bulkLen, sent>>
  BY <1>1 DEF BufferInv
<1>2. CASE \E m \in Mesgs : SendAlone(m) \/ SendBulk(m)
  BY <1>2, BufferAlone, BufferBulk
<1>3. CASE Finish
  BY <1>3, BufferFinish
<1>4. CASE Tick \/ SetBack \/ Skip \/ Kill \/ UNCHANGED vars
  BY <1>1, <1>4 DEF Tick, SetBack, Skip, Kill, vars
<1>. QED BY <1>2, <1>3, <1>4 DEF Next

(* The buffer's length is that of its records and never more than it       *)
(* holds, for every payload size and any records: what the memcpy into it  *)
(* relies on.  Every bulk datagram holds records, and only those.          *)
THEOREM Fits == Spec => []BufferFits
<1>1. Spec => []BufferInv
  BY BufferInit, BufferNext, TypeCorrect, PTL DEF Spec
<1>. QED BY <1>1, BufferInvImplies, PTL
-----------------------------------------------------------------------------
(* Replay.                                                                 *)

USE ReplayAssumption

(* An agent that is recorded, and then no more, is an agent.               *)
LEMMA RecordedNext == [ReplayNext]_<<vars, stamps, replaying>> => [Next]_vars
BY DEF ReplayNext, Record, FirstTime, NextTime, Collect, EndOfFile, Reads

LEMMA RecordedInit == ReplayInit => Init
BY DEF ReplayInit

THEOREM Recorded == ReplaySpec => Spec
BY RecordedInit, RecordedNext, PTL DEF ReplaySpec, Spec

(* What was sent carries messages: one, or those of a bulk datagram.       *)
Carriers == {d \in Datagrams(Nat) : d.mesgs # <<>> /\ (d.bulked \/ Len(d.mesgs) = 1)}

Carrying == sent \in Seq(Carriers)

LEMMA CarriersAre ==
  ASSUME TypeOK
  PROVE  /\ Flush \in Seq(Carriers)
         /\ \A m \in Mesgs : <<Single(m)>> \in Seq(Carriers)
         /\ \A b \in Seq(Numbers), len \in Nat :
              <<Bulked(Append(b, Number), len)>> \in Seq(Carriers)
<1>1. Number \in Nat /\ Numbers \subseteq Nat
  BY LenProperties DEF TypeOK, Number, Numbers
<1>2. ASSUME NEW b \in Seq(Nat), b # <<>>, NEW len \in Nat
      PROVE  <<Bulked(b, len)>> \in Seq(Carriers)
  <2>1. Bulked(b, len) \in Carriers
    BY <1>2 DEF Bulked, Carriers, Datagrams
  <2>. HIDE DEF Bulked
  <2>. QED BY <2>1
<1>3. bulk \in Seq(Nat) /\ bulkLen \in Nat
  BY <1>1, Widen DEF TypeOK
<1>4. Flush \in Seq(Carriers)
  <2>1. <<>> \in Seq(Carriers)
    OBVIOUS
  <2>. QED BY <1>2, <1>3, <2>1 DEF Flush
<1>5. ASSUME NEW m \in Mesgs PROVE <<Single(m)>> \in Seq(Carriers)
  <2>1. <<Number>> \in Seq(Nat) /\ Len(<<Number>>) = 1 /\ <<Number>> # <<>>
    BY <1>1
  <2>2. m.len \in Nat
    BY DEF Mesgs
  <2>3. Single(m) \in Carriers
    BY <2>1, <2>2 DEF Single, Carriers, Datagrams
  <2>. HIDE DEF Single
  <2>. QED BY <2>3
<1>6. ASSUME NEW b \in Seq(Numbers), NEW len \in Nat
      PROVE  <<Bulked(Append(b, Number), len)>> \in Seq(Carriers)
  <2>1. b \in Seq(Nat)
    BY <1>1, Widen
  <2>2. Append(b, Number) \in Seq(Nat) /\ Append(b, Number) # <<>>
    BY <1>1, <2>1, AppendProperties
  <2>. QED BY <1>2, <2>2
<1>. QED BY <1>4, <1>5, <1>6

LEMMA Grows ==
  ASSUME NEW S, NEW a \in Seq(S), NEW b \in Seq(S), NEW c \in Seq(S)
  PROVE  /\ a \o b \in Seq(S) /\ Len(a \o b) >= Len(a)
         /\ a \o b \o c \in Seq(S) /\ Len(a \o b \o c) >= Len(a)
BY ConcatProperties, LenProperties

LEMMA SentGrows ==
  ASSUME TypeOK, Carrying, [Next]_vars
  PROVE  Carrying' /\ Len(sent') >= Len(sent)
<1>0. /\ sent \in Seq(Carriers) /\ Len(sent) \in Nat /\ Flush \in Seq(Carriers)
      /\ <<>> \in Seq(Carriers)
  BY LenProperties, CarriersAre DEF Carrying
<1>1. CASE sent' = sent
  BY <1>0, <1>1 DEF Carrying
<1>2. ASSUME NEW m \in Mesgs, SendAlone(m)
      PROVE  Carrying' /\ Len(sent') >= Len(sent)
  BY <1>0, <1>2, CarriersAre, Grows DEF SendAlone, Carrying
<1>3. ASSUME NEW m \in Mesgs, SendBulk(m)
      PROVE  Carrying' /\ Len(sent') >= Len(sent)
  <2>. DEFINE fits   == bulkLen + m.len <= BULK_PAYLOAD
              kept   == IF fits THEN bulk ELSE <<>>
              length == m.len + IF fits THEN bulkLen ELSE 0
              before == IF fits THEN <<>> ELSE Flush
              last   == <<Bulked(Append(kept, Number), length)>>
  <2>1. sent' = sent \o before \o last \/ sent' = sent \o before
    BY <1>3 DEF SendBulk
  <2>2. before \in Seq(Carriers)
    BY <1>0
  <2>3. last \in Seq(Carriers)
    <3>1. kept \in Seq(Numbers)
      BY DEF TypeOK
    <3>2. length \in Nat
      <4>1. m.len \in Nat /\ bulkLen \in Nat
        BY DEF TypeOK, Mesgs
      <4>. QED BY <4>1
    <3>. HIDE DEF kept, length
    <3>. QED BY <3>1, <3>2, CarriersAre
  <2>. HIDE DEF before, last
  <2>. DEFINE S == Carriers
  <2>4. sent \in Seq(S) /\ before \in Seq(S) /\ last \in Seq(S)
    BY <1>0, <2>2, <2>3
  <2>. HIDE DEF S
  <2>5. sent \o before \in Seq(S) /\ Len(sent \o before) >= Len(sent)
    BY <2>4, Grows
  <2>6. sent \o before \o last \in Seq(S) /\ Len(sent \o before \o last) >= Len(sent)
    BY ONLY <2>4, Grows
  <2>. QED BY <2>1, <2>5, <2>6 DEF Carrying, S
<1>4. CASE Finish
  BY <1>0, <1>4, Grows DEF Finish, Carrying
<1>. QED BY <1>1, <1>2, <1>3, <1>4 DEF Next, Tick, SetBack, Skip, Kill, vars

AgentInv == TypeOK /\ BufferInv /\ Carrying

LEMMA AgentInit == Init => AgentInv
<1>1. Init => Carrying
  BY DEF Init, Carrying
<1>. QED BY <1>1, TypeInit, BufferInit DEF AgentInv

LEMMA AgentNext == AgentInv /\ [Next]_vars => AgentInv'
BY TypeNext, BufferNext, SentGrows DEF AgentInv

-----------------------------------------------------------------------------
(* Lines and their sizes.                                                  *)

AllLines == [kind : {"text", "time"}, of : Nat, len : Nat]

Measures(lines) == [j \in DOMAIN lines |-> lines[j].len]

LEMMA MeasuresAre ==
  ASSUME NEW s \in Seq(AllLines)
  PROVE  /\ Measures(s) \in Seq(Nat) /\ Len(Measures(s)) = Len(s)
         /\ \A j \in 1..Len(s) : Measures(s)[j] = s[j].len
<1>1. DOMAIN s = 1..Len(s) /\ Len(s) \in Nat
  BY LenProperties
<1>2. \A j \in 1..Len(s) : s[j].len \in Nat
  <2>1. \A j \in 1..Len(s) : s[j] \in AllLines
    BY ElementOfSeq
  <2>. QED BY <2>1 DEF AllLines
<1>3. Measures(s) \in [1..Len(s) -> Nat]
  BY <1>1, <1>2 DEF Measures
<1>. QED BY <1>1, <1>3, FunctionIsSeq DEF Measures

LEMMA SizeConcat ==
  ASSUME NEW s \in Seq(AllLines), NEW t \in Seq(AllLines)
  PROVE  /\ Size(s) \in Nat /\ Size(t) \in Nat
         /\ Size(s \o t) = Size(s) + Size(t)
<1>. DEFINE S == AllLines
            u == s \o t
            a == Measures(s)
            b == Measures(t)
            c == Measures(u)
<1>1. /\ s \in Seq(S) /\ t \in Seq(S) /\ u \in Seq(S)
      /\ Len(u) = Len(s) + Len(t) /\ Len(s) \in Nat /\ Len(t) \in Nat
      /\ \A i \in 1..Len(s) + Len(t) :
           u[i] = IF i <= Len(s) THEN s[i] ELSE t[i - Len(s)]
  <2>1. s \in Seq(S) /\ t \in Seq(S)
    OBVIOUS
  <2>. HIDE DEF S
  <2>. QED BY <2>1, ConcatProperties, LenProperties
<1>2. /\ a \in Seq(Nat) /\ Len(a) = Len(s) /\ \A j \in 1..Len(s) : a[j] = s[j].len
      /\ b \in Seq(Nat) /\ Len(b) = Len(t) /\ \A j \in 1..Len(t) : b[j] = t[j].len
      /\ c \in Seq(Nat) /\ Len(c) = Len(u) /\ \A j \in 1..Len(u) : c[j] = u[j].len
  <2>. HIDE DEF u
  <2>. QED BY <1>1, MeasuresAre
<1>. HIDE DEF a, b, c, u, S
<1>3. /\ a \o b \in Seq(Nat) /\ Len(a \o b) = Len(s) + Len(t)
      /\ \A i \in 1..Len(s) + Len(t) :
           (a \o b)[i] = IF i <= Len(s) THEN a[i] ELSE b[i - Len(s)]
  <2>1. /\ a \o b \in Seq(Nat) /\ Len(a \o b) = Len(a) + Len(b)
        /\ \A i \in 1..Len(a) + Len(b) :
             (a \o b)[i] = IF i <= Len(a) THEN a[i] ELSE b[i - Len(a)]
    <3>1. a \in Seq(Nat) /\ b \in Seq(Nat)
      BY <1>2
    <3>. QED BY ONLY <3>1, ConcatProperties
  <2>. QED BY <1>2, <2>1
<1>4. ASSUME NEW i \in 1..Len(s) + Len(t) PROVE c[i] = (a \o b)[i]
  <2>1. CASE i <= Len(s)
    <3>1. i \in 1..Len(s) /\ i \in 1..Len(u)
      BY <1>1, <2>1
    <3>. QED BY <1>1, <1>2, <1>3, <2>1, <3>1
  <2>2. CASE ~(i <= Len(s))
    <3>1. i - Len(s) \in 1..Len(t) /\ i \in 1..Len(u)
      BY <1>1, <2>2
    <3>. QED BY <1>1, <1>2, <1>3, <2>2, <3>1
  <2>. QED BY <2>1, <2>2
<1>5. c = a \o b
  <2>. DEFINE d == a \o b
  <2>1. d \in Seq(Nat) /\ Len(c) = Len(d) /\ \A i \in 1..Len(c) : c[i] = d[i]
    BY <1>1, <1>2, <1>3, <1>4
  <2>. HIDE DEF d
  <2>2. c = d
    BY <1>2, <2>1, SeqEqual
  <2>. QED BY <2>2 DEF d
<1>6. Total(a) \in Nat /\ Total(b) \in Nat /\ Total(a \o b) = Total(a) + Total(b)
  BY <1>2, TotalConcat
<1>. QED BY <1>5, <1>6 DEF Size, Measures, a, b, c, u

LEMMA SizeOne == ASSUME NEW x \in AllLines PROVE Size(<<x>>) = x.len
<1>. DEFINE s == <<x>>
            m == Measures(s)
            n == x.len
<1>1. s \in Seq(AllLines) /\ Len(s) = 1 /\ s[1] = x /\ n \in Nat
  BY DEF AllLines
<1>. HIDE DEF s
<1>2. m \in Seq(Nat) /\ Len(m) = 1 /\ m[1] = n
  <2>1. 1 \in 1..Len(s)
    BY <1>1
  <2>. QED BY <1>1, <2>1, MeasuresAre
<1>. HIDE DEF m, n
<1>3. Append(<<>>, n) \in Seq(Nat) /\ Len(Append(<<>>, n)) = 1 /\ Append(<<>>, n)[1] = n
  BY <1>1
<1>4. m = Append(<<>>, n)
  BY <1>2, <1>3, SeqEqual
<1>5. <<>> \in Seq(Nat)
  OBVIOUS
<1>6. Total(Append(<<>>, n)) = Total(<<>>) + n
  BY <1>1, <1>5, TotalAppend
<1>7. Total(m) = n
  BY <1>1, <1>4, <1>6, TotalNone
<1>. QED BY <1>7 DEF Size, Measures, m, n, s

(* A line and those before it are no longer than all.                      *)
LEMMA SizeUpTo ==
  ASSUME NEW s \in Seq(AllLines), NEW k \in 1..Len(s)
  PROVE  Size(SubSeq(s, 1, k - 1)) + s[k].len <= Size(s)
<1>. DEFINE S == AllLines
            a == SubSeq(s, 1, k - 1)
            b == SubSeq(s, 1, k)
            c == SubSeq(s, k + 1, Len(s))
            x == s[k]
<1>1. /\ a \in Seq(S) /\ b \in Seq(S) /\ c \in Seq(S) /\ x \in S
      /\ b = a \o <<x>> /\ s = b \o c
  <2>0. s \in Seq(S)
    OBVIOUS
  <2>. HIDE DEF S
  <2>1. /\ k \in 0..Len(s) /\ 1 \in 1..Len(s) + 1 /\ k \in 1 - 1..Len(s)
        /\ Len(s) \in k..Len(s)
    BY LenProperties
  <2>2. a \in Seq(S) /\ b \in Seq(S) /\ x \in S /\ b = Append(a, x)
    BY <2>0, UpToNext
  <2>3. c \in Seq(S)
    BY <2>0, <2>1, CutType
  <2>4. SubSeq(s, 1, k) \o SubSeq(s, k + 1, Len(s)) = SubSeq(s, 1, Len(s))
    BY <2>0, <2>1, ConcatAdjacentSubSeq
  <2>5. SubSeq(s, 1, Len(s)) = s
    BY <2>0, SubSeqFull
  <2>. HIDE DEF a, x
  <2>6. Append(a, x) = a \o <<x>>
    BY <2>2, AppendIsConcat
  <2>. QED BY <2>2, <2>3, <2>4, <2>5, <2>6
<1>. HIDE DEF a, b, c, x
<1>2. <<x>> \in Seq(S) /\ Size(<<x>>) = x.len
  BY <1>1, SizeOne
<1>3. Size(a) \in Nat /\ Size(<<x>>) \in Nat /\ Size(a \o <<x>>) = Size(a) + Size(<<x>>)
  <2>. DEFINE o == <<x>>
  <2>1. o \in Seq(S)
    BY <1>2
  <2>. HIDE DEF o
  <2>2. Size(a) \in Nat /\ Size(o) \in Nat /\ Size(a \o o) = Size(a) + Size(o)
    BY <1>1, <2>1, SizeConcat
  <2>. QED BY <2>2 DEF o
<1>4. Size(b) \in Nat /\ Size(c) \in Nat /\ Size(b \o c) = Size(b) + Size(c)
  BY <1>1, SizeConcat
<1>5. Size(a) + x.len <= Size(s)
  BY <1>1, <1>2, <1>3, <1>4
<1>. QED BY <1>5 DEF a, x

-----------------------------------------------------------------------------
(* What the agent prints.                                                  *)

(* The lines of a dump of n datagrams. *)
LinesTo(n) == [kind : {"text", "time"}, of : 1..n, len : Nat]

LinesOfOne(i) == [kind : {"text"}, of : {i}, len : Nat]

LEMMA LineSets ==
  ASSUME NEW n \in Nat, NEW i \in 1..n
  PROVE  LinesOfOne(i) \subseteq LinesTo(n) /\ LinesTo(n) \subseteq AllLines
BY DEF LinesOfOne, LinesTo, AllLines

(* A datagram's lines, and that they fit pt_replay's buffer.               *)
LEMMA LinesOfFit ==
  ASSUME AgentInv, NEW i \in 1..Len(sent)
  PROVE  /\ LinesOf(i) \in Seq(LinesOfOne(i)) /\ LinesOf(i) # <<>>
         /\ Size(LinesOf(i)) < BUFSIZ_LONG
<1>. DEFINE d      == sent[i]
            fly    == passed[d.mesgs[1]].kind = "fly"
            first  == IF AGENT_LINE > 0 THEN <<Text(i, AGENT_LINE)>> ELSE <<>>
            second == IF fly THEN <<Text(i, HEADER_LEN)>> ELSE <<>>
            rest   == [j \in DOMAIN d.mesgs |-> Text(i, passed[d.mesgs[j]].len)]
            lens   == Lengths(passed, d.mesgs)
            S      == LinesOfOne(i)
<1>0. LinesOf(i) = (first \o second) \o rest
  BY DEF LinesOf
<1>1. /\ i \in Nat /\ passed \in Seq(Mesgs) /\ Len(sent) \in Nat
      /\ \A len \in Nat : Text(i, len) \in S /\ Text(i, len).len = len
      /\ S \subseteq AllLines
  <2>1. \A len \in Nat : Text(i, len) \in S /\ Text(i, len).len = len
    BY DEF Text, LinesOfOne
  <2>2. passed \in Seq(Mesgs) /\ Len(sent) \in Nat
    BY LenProperties DEF AgentInv, TypeOK
  <2>. QED BY <2>1, <2>2, LineSets
<1>2. /\ d \in Carriers /\ d.mesgs \in Seq(1..Len(passed)) /\ d.mesgs # <<>>
      /\ d.bulked \in BOOLEAN /\ (d.bulked \/ Len(d.mesgs) = 1)
      /\ Len(d.mesgs) \in Nat \ {0}
  <2>1. d \in Carriers
    BY ElementOfSeq DEF AgentInv, Carrying
  <2>2. d \in Datagrams(1..Len(passed))
    <3>1. sent \in Seq(Datagrams(1..Len(passed)))
      BY DEF AgentInv, TypeOK, Datagrams, Numbers
    <3>. QED BY <3>1, ElementOfSeq
  <2>. HIDE DEF d
  <2>3. d.mesgs \in Seq(1..Len(passed)) /\ d.bulked \in BOOLEAN /\ d.mesgs # <<>>
        /\ (d.bulked \/ Len(d.mesgs) = 1)
    BY <2>1, <2>2 DEF Datagrams, Carriers
  <2>. QED BY <2>1, <2>3, EmptySeq, LenProperties
<1>3. /\ lens \in Seq(Nat) /\ Len(lens) = Len(d.mesgs)
      /\ \A j \in 1..Len(d.mesgs) : lens[j] = passed[d.mesgs[j]].len
  BY <1>1, <1>2, LengthsType
<1>4. Total(lens) \in Nat /\ AGENT_LINE + HEADER_LEN + Total(lens) < BUFSIZ_LONG
  <2>0. Total(lens) \in Nat
    BY <1>3, TotalAppend
  <2>1. CASE d.bulked
    <3>1. Total(lens) <= BULK_PAYLOAD
      BY <2>1 DEF AgentInv, BufferInv, GoodSent, GoodBulk
    <3>. QED BY <2>0, <3>1
  <2>2. CASE ~d.bulked
    <3>1. Len(lens) = 1 /\ 1 \in 1..Len(d.mesgs) /\ lens[1] = passed[d.mesgs[1]].len
      BY <1>2, <1>3, <2>2
    <3>2. lens[1] \in Lens
      <4>1. d.mesgs[1] \in 1..Len(passed)
        BY <1>2, <3>1, ElementOfSeq
      <4>2. passed[d.mesgs[1]] \in Mesgs
        BY <1>1, <4>1, ElementOfSeq
      <4>. QED BY <3>1, <4>2 DEF Mesgs
    <3>3. Total(lens) = lens[1]
      <4>. DEFINE x == lens[1]
      <4>. HIDE DEF lens, x
      <4>1. x \in Nat
        BY <3>2 DEF x
      <4>2. Append(<<>>, x) \in Seq(Nat) /\ Len(Append(<<>>, x)) = 1 /\ Append(<<>>, x)[1] = x
        BY <4>1
      <4>3. lens = Append(<<>>, x)
        BY <1>3, <3>1, <4>2, SeqEqual DEF x
      <4>4. <<>> \in Seq(Nat)
        OBVIOUS
      <4>5. Total(Append(<<>>, x)) = Total(<<>>) + x
        BY <4>1, <4>4, TotalAppend
      <4>. QED BY <4>1, <4>3, <4>5, TotalNone DEF x
    <3>. QED BY <3>2, <3>3
  <2>. QED BY <1>2, <2>1, <2>2
<1>5. /\ rest \in Seq(S) /\ Len(rest) = Len(d.mesgs)
      /\ \A j \in 1..Len(d.mesgs) : rest[j].len = lens[j]
  <2>1. DOMAIN d.mesgs = 1..Len(d.mesgs)
    BY <1>2, LenProperties
  <2>2. \A j \in 1..Len(d.mesgs) : lens[j] \in Nat
    BY <1>3, ElementOfSeq
  <2>3. \A j \in 1..Len(d.mesgs) :
          Text(i, passed[d.mesgs[j]].len) \in S /\ Text(i, passed[d.mesgs[j]].len).len = lens[j]
    BY <1>1, <1>3, <2>2
  <2>. DEFINE n == Len(d.mesgs)
  <2>4. rest \in [1..n -> S] /\ \A j \in 1..n : rest[j].len = lens[j]
    <3>. HIDE DEF lens, S
    <3>. QED BY <2>1, <2>3
  <2>5. n \in Nat
    BY <1>2
  <2>. HIDE DEF rest, n, S
  <2>6. rest \in Seq(S) /\ Len(rest) = n
    BY <2>4, <2>5, FunctionIsSeq
  <2>. QED BY <2>4, <2>6 DEF n
<1>6. /\ first \in Seq(S) /\ Size(first) <= AGENT_LINE
      /\ second \in Seq(S) /\ Size(second) <= HEADER_LEN
  <2>1. ASSUME NEW len \in Nat
        PROVE  <<Text(i, len)>> \in Seq(S) /\ Size(<<Text(i, len)>>) = len
    <3>. DEFINE t == Text(i, len)
    <3>1. t \in S /\ t.len = len /\ t \in AllLines
      BY <1>1
    <3>. HIDE DEF t, S
    <3>. QED BY <3>1, SizeOne DEF t
  <2>2. <<>> \in Seq(S) /\ Size(<<>>) = 0
    <3>1. [j \in DOMAIN <<>> |-> <<>>[j].len] = <<>>
      OBVIOUS
    <3>2. Size(<<>>) = Total(<<>>)
      BY <3>1 DEF Size
    <3>. QED BY <3>2, TotalNone
  <2>. QED BY <2>1, <2>2
<1>7. Size(rest) = Total(lens)
  <2>. DEFINE m == Measures(rest)
              n == Len(d.mesgs)
  <2>1. m \in Seq(Nat) /\ Len(m) = n /\ \A j \in 1..n : m[j] = rest[j].len
    <3>. HIDE DEF rest
    <3>1. rest \in Seq(AllLines)
      BY <1>1, <1>5, Widen
    <3>. QED BY <1>5, <3>1, MeasuresAre
  <2>2. lens \in Seq(Nat) /\ Len(lens) = n /\ \A j \in 1..n : rest[j].len = lens[j]
    BY <1>3, <1>5
  <2>. HIDE DEF m, rest, lens, n
  <2>3. m = lens
    BY <2>1, <2>2, SeqEqual
  <2>4. Size(rest) = Total(m)
    BY DEF Size, Measures, m
  <2>. QED BY <2>3, <2>4
<1>. HIDE DEF first, second, rest, lens, S, d
<1>8. /\ first \in Seq(AllLines) /\ second \in Seq(AllLines) /\ rest \in Seq(AllLines)
  BY <1>1, <1>5, <1>6, Widen
<1>9. /\ first \o second \in Seq(S) /\ Size(first \o second) = Size(first) + Size(second)
      /\ Size(first) \in Nat /\ Size(second) \in Nat
  BY <1>6, <1>8, ConcatProperties, SizeConcat
<1>. DEFINE header == first \o second
<1>10. header \in Seq(S) /\ header \in Seq(AllLines) /\ Size(header) <= AGENT_LINE + HEADER_LEN
  <2>1. header \in Seq(S)
    BY <1>9
  <2>2. header \in Seq(AllLines)
    <3>. HIDE DEF header
    <3>. QED BY <1>1, <2>1, Widen
  <2>3. Size(header) <= AGENT_LINE + HEADER_LEN
    BY <1>6, <1>9
  <2>. QED BY <2>1, <2>2, <2>3
<1>. HIDE DEF header
<1>11. /\ header \o rest \in Seq(S) /\ Len(header \o rest) = Len(header) + Len(rest)
       /\ Len(header) \in Nat
  BY <1>5, <1>10, ConcatProperties, LenProperties, ZenonT(30)
<1>12. /\ Size(header \o rest) = Size(header) + Size(rest)
       /\ Size(header) \in Nat /\ Size(rest) \in Nat
  BY <1>8, <1>10, SizeConcat
<1>13. Size(header \o rest) < BUFSIZ_LONG
  BY <1>4, <1>7, <1>10, <1>12
<1>14. header \o rest # <<>>
  <2>. DEFINE t == header \o rest
  <2>1. t \in Seq(S) /\ Len(t) # 0
    BY <1>2, <1>5, <1>11
  <2>. HIDE DEF t
  <2>2. t # <<>>
    BY <2>1, EmptySeq
  <2>. QED BY <2>2 DEF t
<1>. QED BY <1>0, <1>11, <1>13, <1>14 DEF header, S

(* The dump, and where the lines of a datagram begin in it.                *)
Prints == [i \in DOMAIN sent |-> Printed(i)]

Start(n) == Len(Upto(Prints, n - 1))

AllClosed == \A i \in DOMAIN sent : IsOpen(i) => i = Len(sent)

LEMMA PrintsAre ==
  ASSUME AgentInv
  PROVE  /\ Prints \in Seq(Seq(LinesTo(Len(sent)))) /\ Len(Prints) = Len(sent)
         /\ Len(sent) \in Nat /\ DOMAIN sent = 1..Len(sent)
         /\ \A i \in 1..Len(sent) : Prints[i] = Printed(i)
<1>. DEFINE N == Len(sent)
            S == LinesTo(N)
            Q == Seq(S)
<1>1. N \in Nat /\ DOMAIN sent = 1..N
  BY LenProperties DEF AgentInv, TypeOK
<1>2. ASSUME NEW i \in 1..N PROVE Printed(i) \in Q
  <2>. DEFINE l == LinesOf(i)
              t == IF i > 1 /\ IsOpen(i - 1) THEN Text(i, TIME_LEN) ELSE TimeLine(i)
  <2>1. l \in Seq(S)
    <3>1. l \in Seq(LinesOfOne(i))
      BY LinesOfFit
    <3>2. LinesOfOne(i) \subseteq S
      BY <1>1, LineSets
    <3>. HIDE DEF l, S
    <3>. QED BY <3>1, <3>2, Widen
  <2>2. t \in S
    BY DEF Text, TimeLine, LinesTo
  <2>3. Printed(i) = <<t>> \o l
    BY DEF Printed
  <2>. HIDE DEF t, l, S
  <2>4. <<t>> \o l \in Seq(S)
    BY <2>1, <2>2, ConsSeq
  <2>. QED BY <2>3, <2>4
<1>3. Prints \in [1..N -> Q] /\ \A i \in 1..N : Prints[i] = Printed(i)
  <2>. HIDE DEF Q, N
  <2>. QED BY <1>1, <1>2 DEF Prints
<1>4. Prints \in Seq(Q) /\ Len(Prints) = N
  <2>. HIDE DEF Q, N
  <2>. QED BY <1>1, <1>3, FunctionIsSeq
<1>. QED BY <1>1, <1>3, <1>4

LEMMA DumpType ==
  ASSUME AgentInv
  PROVE  /\ Dump \in Seq(AllLines) /\ Len(Dump) \in Nat
         /\ \A j \in 1..Len(Dump) : Dump[j] \in LinesTo(Len(sent))
<1>. DEFINE S == LinesTo(Len(sent))
<1>1. Prints \in Seq(Seq(S)) /\ Len(sent) \in Nat
  BY PrintsAre
<1>2. Dump = FlattenSeq(Prints)
  BY DEF Dump, Prints
<1>3. S \subseteq AllLines
  BY <1>1 DEF LinesTo, AllLines
<1>. HIDE DEF S
<1>4. FlattenSeq(Prints) \in Seq(S)
  BY <1>1, FlattenType
<1>5. Dump \in Seq(S)
  BY <1>2, <1>4
<1>6. Dump \in Seq(AllLines)
  BY <1>3, <1>5, Widen
<1>7. \A j \in 1..Len(Dump) : Dump[j] \in S
  BY <1>5, ElementOfSeq
<1>. QED BY <1>5, <1>6, <1>7, LenProperties DEF S

LEMMA Starts ==
  ASSUME AgentInv, AllClosed
  PROVE  /\ Start(1) = 0 /\ Start(Len(sent) + 1) = Len(Dump)
         /\ \A n \in 1..Len(sent) :
              /\ Start(n) \in Nat /\ Start(n) < Len(Dump)
              /\ Start(n + 1) = Start(n) + 1 + Len(LinesOf(n))
              /\ Dump[Start(n) + 1] = TimeLine(n)
              /\ \A k \in 1..Len(LinesOf(n)) :
                   /\ Start(n) + k < Len(Dump)
                   /\ Dump[Start(n) + 1 + k] = LinesOf(n)[k]
<1>. DEFINE N == Len(sent)
            S == LinesTo(N)
<1>1. /\ Prints \in Seq(Seq(S)) /\ Len(Prints) = N /\ N \in Nat
      /\ DOMAIN sent = 1..N /\ \A i \in 1..N : Prints[i] = Printed(i)
  BY PrintsAre
<1>2. Dump = FlattenSeq(Prints)
  BY DEF Dump, Prints
<1>3. Start(1) = 0 /\ Start(N + 1) = Len(Dump)
  <2>. HIDE DEF S, N
  <2>1. Upto(Prints, 0) = <<>> /\ Upto(Prints, N) = Dump
    BY <1>1, <1>2, UptoIs
  <2>2. 1 - 1 = 0 /\ (N + 1) - 1 = N
    BY <1>1
  <2>3. Start(1) = Len(Upto(Prints, 0)) /\ Start(N + 1) = Len(Upto(Prints, N))
    <3>. DEFINE a == 1 - 1
                b == (N + 1) - 1
    <3>1. Start(1) = Len(Upto(Prints, a)) /\ Start(N + 1) = Len(Upto(Prints, b))
      BY DEF Start
    <3>2. a = 0 /\ b = N
      BY <2>2
    <3>. HIDE DEF a, b
    <3>. QED BY <3>1, <3>2
  <2>. QED BY <2>1, <2>3
<1>4. ASSUME NEW n \in 1..N
      PROVE  /\ Start(n) \in Nat /\ Start(n) < Len(Dump)
             /\ Start(n + 1) = Start(n) + 1 + Len(LinesOf(n))
             /\ Dump[Start(n) + 1] = TimeLine(n)
             /\ \A k \in 1..Len(LinesOf(n)) :
                  /\ Start(n) + k < Len(Dump)
                  /\ Dump[Start(n) + 1 + k] = LinesOf(n)[k]
  <2>. DEFINE l == LinesOf(n)
              t == TimeLine(n)
              p == Prints[n]
  <2>1. l \in Seq(AllLines) /\ t \in AllLines
    <3>1. l \in Seq(LinesOfOne(n))
      BY LinesOfFit
    <3>2. LinesOfOne(n) \subseteq AllLines
      BY <1>1 DEF LinesOfOne, AllLines
    <3>3. t \in AllLines
      BY <1>1 DEF TimeLine, AllLines
    <3>. HIDE DEF l, t
    <3>. QED BY <3>1, <3>2, <3>3, Widen
  <2>2. p = <<t>> \o l
    <3>1. ASSUME n > 1 PROVE ~IsOpen(n - 1)
      <4>1. n - 1 \in DOMAIN sent /\ n - 1 # N
        BY <1>1, <3>1
      <4>. QED BY <4>1 DEF AllClosed
    <3>. QED BY <1>1, <3>1 DEF Printed
  <2>. HIDE DEF l, t
  <2>3. Len(p) = 1 + Len(l) /\ p[1] = t /\ \A k \in 1..Len(l) : p[1 + k] = l[k]
    BY <2>1, <2>2
  <2>4. Len(l) \in Nat
    BY <2>1, LenProperties
  <2>5. /\ Upto(Prints, n - 1) \in Seq(S)
        /\ Len(Upto(Prints, n)) = Len(Upto(Prints, n - 1)) + Len(p)
    <3>. HIDE DEF S, N
    <3>. QED BY <1>1, UptoNext
  <2>6. /\ Start(n) \in Nat /\ Start(n + 1) = Start(n) + 1 + Len(l)
        /\ Start(n) = Len(Upto(Prints, n - 1))
    <3>. DEFINE u == Upto(Prints, n - 1)
    <3>. HIDE DEF u, S
    <3>1. Len(u) \in Nat
      BY <2>5, LenProperties DEF u
    <3>2. (n + 1) - 1 = n
      BY <1>1
    <3>. QED BY <2>3, <2>4, <2>5, <3>1, <3>2 DEF Start, u
  <2>7. \A j \in 1..Len(p) :
          Dump[Start(n) + j] = p[j] /\ Start(n) + j \in 1..Len(Dump)
    <3>. TAKE j \in 1..Len(p)
    <3>. HIDE DEF S, N
    <3>0. n \in 1..Len(Prints) /\ j \in 1..Len(Prints[n]) /\ Prints \in Seq(Seq(S))
      BY <1>1
    <3>1. /\ FlattenSeq(Prints)[Len(Upto(Prints, n - 1)) + j] = Prints[n][j]
          /\ Len(Upto(Prints, n - 1)) + j \in 1..Len(FlattenSeq(Prints))
      BY ONLY <3>0, UptoAt
    <3>. QED BY <1>2, <2>6, <3>1
  <2>0. Len(Dump) \in Nat
    BY DumpType
  <2>8. Dump[Start(n) + 1] = t /\ Start(n) < Len(Dump)
    <3>1. 1 \in 1..Len(p)
      BY <2>3, <2>4
    <3>2. Dump[Start(n) + 1] = p[1] /\ Start(n) + 1 \in 1..Len(Dump)
      BY <2>7, <3>1
    <3>. QED BY <2>0, <2>3, <2>6, <3>2
  <2>9. ASSUME NEW k \in 1..Len(l)
        PROVE  Start(n) + k < Len(Dump) /\ Dump[Start(n) + 1 + k] = l[k]
    <3>1. 1 + k \in 1..Len(p) /\ Start(n) + 1 + k = Start(n) + (1 + k)
      BY <2>3, <2>4, <2>6
    <3>2. Dump[Start(n) + (1 + k)] = p[1 + k] /\ Start(n) + (1 + k) \in 1..Len(Dump)
      BY <2>7, <3>1
    <3>. QED BY <2>0, <2>3, <2>6, <3>1, <3>2
  <2>. QED BY <2>6, <2>8, <2>9 DEF l, t
<1>. QED BY <1>3, <1>4

(* In a replay none of these changes.                                      *)
LEMMA Recordings ==
  ASSUME UNCHANGED <<vars, stamps>>
  PROVE  /\ Dump' = Dump /\ AllClosed' = AllClosed
         /\ \A n : Start(n)' = Start(n) /\ LinesOf(n)' = LinesOf(n)
<1>1. sent' = sent /\ passed' = passed
  BY DEF vars
<1>2. \A n : LinesOf(n)' = LinesOf(n) /\ IsOpen(n)' = IsOpen(n) /\ Printed(n)' = Printed(n)
  BY <1>1 DEF LinesOf, IsOpen, Text, Printed, TimeLine
<1>3. Prints' = Prints
  BY <1>1, <1>2 DEF Prints
<1>4. Dump = FlattenSeq(Prints) /\ Dump' = FlattenSeq(Prints')
  BY DEF Dump, Prints
<1>5. \A n : Start(n)' = Start(n)
  BY <1>3 DEF Start, Upto
<1>6. AllClosed' = AllClosed
  BY <1>1, <1>2 DEF AllClosed
<1>. QED BY <1>2, <1>3, <1>4, <1>5, <1>6

-----------------------------------------------------------------------------
(* No line is lost, repeated or moved.                                     *)

Blocks == [at : Nat, lines : Seq(AllLines)]

ReplayType ==
  /\ stamps \in Seq(Nat) /\ Len(stamps) = Len(sent)
  /\ line \in Nat /\ base \in Nat \cup {Unset}
  /\ block \in Seq(AllLines) /\ clock \in Nat /\ replayed \in Seq(Blocks)

(* What has been sent again, line by line. *)
FlowOf(r) == FlattenSeq([i \in DOMAIN r |-> r[i].lines])

NoLineLost == FlowOf(replayed) \o block = Texts(SubSeq(Dump, 1, line))

LEMMA FlowAppend ==
  ASSUME NEW r \in Seq(Blocks), NEW b \in Blocks
  PROVE  /\ FlowOf(r) \in Seq(AllLines) /\ FlowOf(<<>>) = <<>>
         /\ FlowOf(Append(r, b)) = FlowOf(r) \o b.lines
<1>. DEFINE h == [x \in Blocks |-> x.lines]
            S == AllLines
<1>1. h \in [Blocks -> Seq(S)] /\ h[b] = b.lines
  BY DEF Blocks
<1>2. ASSUME NEW q \in Seq(Blocks) PROVE FlowOf(q) = FlatMap(q, h)
  <2>1. \A i \in DOMAIN q : q[i] \in Blocks
    BY LenProperties, ElementOfSeq
  <2>2. [i \in DOMAIN q |-> q[i].lines] = [i \in DOMAIN q |-> h[q[i]]]
    BY <2>1
  <2>. HIDE DEF h
  <2>. QED BY <2>2 DEF FlowOf, FlatMap, Each
<1>. HIDE DEF h, S
<1>3. FlatMap(Append(r, b), h) = FlatMap(r, h) \o h[b] /\ FlatMap(r, h) \in Seq(S)
  <2>1. h \in [Blocks -> Seq(S)] /\ r \in Seq(Blocks) /\ b \in Blocks
    BY <1>1
  <2>2. FlatMap(Append(r, b), h) = FlatMap(r, h) \o h[b]
    BY ONLY <2>1, FlatMapAppend
  <2>3. FlatMap(r, h) \in Seq(S)
    BY ONLY <2>1, FlatMapType
  <2>. QED BY <2>2, <2>3
<1>4. Append(r, b) \in Seq(Blocks) /\ <<>> \in Seq(Blocks)
  BY AppendProperties
<1>5. FlatMap(<<>>, h) = <<>>
  BY <1>1, FlatMapOne
<1>. QED BY <1>1, <1>2, <1>3, <1>4, <1>5 DEF S

LEMMA TextsAppend ==
  ASSUME NEW s \in Seq(AllLines), NEW x \in AllLines
  PROVE  /\ Texts(<<>>) = <<>>
         /\ x.kind = "text" => Texts(Append(s, x)) = Texts(s) \o <<x>>
         /\ x.kind = "time" => Texts(Append(s, x)) = Texts(s)
<1>. DEFINE S == AllLines
            h == [y \in S |-> IF y.kind = "text" THEN <<y>> ELSE <<>>]
<1>1. h \in [S -> Seq(S)]
  OBVIOUS
<1>2. ASSUME NEW q \in Seq(S) PROVE Texts(q) = FlatMap(q, h)
  <2>1. \A i \in DOMAIN q : q[i] \in S
    BY LenProperties, ElementOfSeq
  <2>2. [i \in DOMAIN q |-> IF q[i].kind = "text" THEN <<q[i]>> ELSE <<>>] =
          [i \in DOMAIN q |-> h[q[i]]]
    <3>. HIDE DEF S
    <3>. QED BY <2>1
  <2>. HIDE DEF h
  <2>. QED BY <2>2 DEF Texts, FlatMap, Each
<1>3. /\ x.kind = "text" => h[x] = <<x>>
      /\ x.kind = "time" => h[x] = <<>>
  OBVIOUS
<1>4. s \in Seq(S) /\ x \in S
  OBVIOUS
<1>. HIDE DEF h, S
<1>5. Append(s, x) \in Seq(S) /\ <<>> \in Seq(S)
  BY <1>4, AppendProperties
<1>6. FlatMap(Append(s, x), h) = FlatMap(s, h) \o h[x] /\ FlatMap(s, h) \in Seq(S)
  <2>1. FlatMap(Append(s, x), h) = FlatMap(s, h) \o h[x]
    BY ONLY <1>1, <1>4, FlatMapAppend
  <2>2. FlatMap(s, h) \in Seq(S)
    BY ONLY <1>1, <1>4, FlatMapType
  <2>. QED BY <2>1, <2>2
<1>7. FlatMap(<<>>, h) = <<>>
  BY <1>1, <1>4, FlatMapOne
<1>8. FlatMap(s, h) \o <<>> = FlatMap(s, h)
  <2>. DEFINE f == FlatMap(s, h)
  <2>1. f \in Seq(S)
    BY <1>6
  <2>. HIDE DEF f
  <2>2. f \o <<>> = f
    BY <2>1, ConcatEmptySeq
  <2>. QED BY <2>2 DEF f
<1>. QED BY <1>2, <1>3, <1>4, <1>5, <1>6, <1>7, <1>8

(* One line more is read. *)
LEMMA ReadsOn ==
  ASSUME AgentInv, ReplayType, NEW kind, Reads(kind)
  PROVE  /\ line + 1 \in 1..Len(Dump) /\ Dump[line + 1] \in AllLines
         /\ stamps[Dump[line + 1].of] \in Nat
         /\ kind = "text" =>
              Texts(SubSeq(Dump, 1, line')) = Texts(SubSeq(Dump, 1, line)) \o <<Dump[line + 1]>>
         /\ kind = "time" =>
              Texts(SubSeq(Dump, 1, line')) = Texts(SubSeq(Dump, 1, line))
<1>. DEFINE s == SubSeq(Dump, 1, line)
            n == line + 1
            x == Dump[n]
            D == Dump
<1>1. D \in Seq(AllLines) /\ Len(D) \in Nat /\ n \in 1..Len(D) /\ n - 1 = line
      /\ line' = n /\ x.kind = kind
  BY DumpType DEF ReplayType, Reads
<1>2. x \in LinesTo(Len(sent))
  BY <1>1, DumpType
<1>3. stamps[x.of] \in Nat
  <2>1. x.of \in 1..Len(stamps) /\ stamps \in Seq(Nat)
    BY <1>2 DEF LinesTo, ReplayType
  <2>. QED BY <2>1, ElementOfSeq
<1>. HIDE DEF D, n
<1>4. /\ SubSeq(D, 1, n - 1) \in Seq(AllLines) /\ D[n] \in AllLines
      /\ SubSeq(D, 1, n) = Append(SubSeq(D, 1, n - 1), D[n])
  BY <1>1, UpToNext
<1>5. s \in Seq(AllLines) /\ x \in AllLines /\ SubSeq(D, 1, n) = Append(s, x)
  BY <1>1, <1>4 DEF D
<1>6. SubSeq(Dump, 1, line') = SubSeq(D, 1, n)
  BY <1>1 DEF D
<1>. HIDE DEF s, x
<1>7. /\ x.kind = "text" => Texts(Append(s, x)) = Texts(s) \o <<x>>
      /\ x.kind = "time" => Texts(Append(s, x)) = Texts(s)
  BY <1>5, TextsAppend
<1>8. x.kind = kind
  BY <1>1
<1>9. /\ n \in 1..Len(Dump) /\ x \in AllLines /\ stamps[x.of] \in Nat
      /\ kind = "text" => Texts(SubSeq(Dump, 1, line')) = Texts(s) \o <<x>>
      /\ kind = "time" => Texts(SubSeq(Dump, 1, line')) = Texts(s)
  BY <1>1, <1>3, <1>5, <1>6, <1>7, <1>8 DEF D
<1>. QED BY <1>9 DEF n, x, s

(* The datagram that waits is sent again. *)
LEMMA SendsBlock ==
  ASSUME ReplayType, SendBlock
  PROVE  /\ replayed' \in Seq(Blocks)
         /\ FlowOf(replayed') = FlowOf(replayed) \o block
         /\ FlowOf(replayed) \in Seq(AllLines)
<1>. DEFINE b == [at |-> clock, lines |-> block]
<1>1. /\ replayed \in Seq(Blocks) /\ block \in Seq(AllLines)
      /\ b \in Blocks /\ b.lines = block
  BY DEF ReplayType, Blocks
<1>2. replayed' = IF block = <<>> THEN replayed ELSE Append(replayed, b)
  BY DEF SendBlock
<1>. HIDE DEF b
<1>3. /\ Append(replayed, b) \in Seq(Blocks) /\ FlowOf(replayed) \in Seq(AllLines)
      /\ FlowOf(Append(replayed, b)) = FlowOf(replayed) \o block
  BY <1>1, AppendProperties, FlowAppend
<1>4. FlowOf(replayed) \o <<>> = FlowOf(replayed)
  <2>. DEFINE f == FlowOf(replayed)
              S == AllLines
  <2>1. f \in Seq(S)
    BY <1>3
  <2>. HIDE DEF f, S
  <2>2. f \o <<>> = f
    BY <2>1, ConcatEmptySeq
  <2>. QED BY <2>2 DEF f
<1>. QED BY <1>1, <1>2, <1>3, <1>4

LEMMA Modulo ==
  ASSUME NEW a \in Nat
  PROVE  a % USLEEP \in Nat /\ (a < USLEEP => a % USLEEP = a)
BY Z3

LEMMA SleptType ==
  ASSUME ReplayType, NEW to \in Nat, base # Unset
  PROVE  /\ Slept(to) \in Nat
         /\ Elapsed(to, base) < USLEEP => Slept(to) - clock = Elapsed(to, base)
<1>1. base \in Nat /\ clock \in Nat
  BY DEF ReplayType
<1>. DEFINE e == Elapsed(to, base)
<1>2. e \in Nat
  BY <1>1, ElapsedNat
<1>. HIDE DEF e
<1>3. e % USLEEP \in Nat /\ (e < USLEEP => e % USLEEP = e)
  BY <1>2, Modulo
<1>4. Slept(to) = clock + (e % USLEEP)
  BY DEF Slept, e
<1>. QED BY <1>1, <1>2, <1>3, <1>4 DEF e

LEMMA LinesFirstTime ==
  ASSUME AgentInv, ReplayType, NoLineLost, FirstTime
  PROVE  ReplayType' /\ NoLineLost'
<1>1. UNCHANGED <<vars, stamps>> /\ Reads("time") /\ line' = line + 1
  BY DEF FirstTime, Reads
<1>2. Dump' = Dump /\ sent' = sent
  BY <1>1, Recordings DEF vars
<1>3. /\ stamps[Dump[line + 1].of] \in Nat
      /\ Texts(SubSeq(Dump, 1, line')) = Texts(SubSeq(Dump, 1, line))
  BY <1>1, ReadsOn
<1>4. ReplayType'
  BY <1>1, <1>2, <1>3 DEF ReplayType, FirstTime
<1>5. NoLineLost'
  <2>1. block' = block /\ replayed' = replayed
    BY DEF FirstTime
  <2>. QED BY <1>2, <1>3, <2>1 DEF NoLineLost
<1>. QED BY <1>4, <1>5

LEMMA LinesNextTime ==
  ASSUME AgentInv, ReplayType, NoLineLost, NextTime
  PROVE  ReplayType' /\ NoLineLost'
<1>. DEFINE to == stamps[Dump[line + 1].of]
            f  == FlowOf(replayed)
<1>1. /\ UNCHANGED <<vars, stamps>> /\ Reads("time") /\ line' = line + 1
      /\ SendBlock /\ clock' = Slept(to) /\ base' = to /\ block' = <<>> /\ base # Unset
  BY DEF NextTime, Reads, SendThenSleep
<1>2. Dump' = Dump /\ sent' = sent
  BY <1>1, Recordings DEF vars
<1>3. to \in Nat /\ Texts(SubSeq(Dump, 1, line')) = Texts(SubSeq(Dump, 1, line))
  BY <1>1, ReadsOn
<1>. HIDE DEF to
<1>4. Slept(to) \in Nat
  BY <1>1, <1>3, SleptType
<1>5. replayed' \in Seq(Blocks) /\ FlowOf(replayed') = f \o block /\ f \in Seq(AllLines)
  BY <1>1, SendsBlock
<1>6. ReplayType'
  BY <1>1, <1>2, <1>3, <1>4, <1>5 DEF ReplayType
<1>7. NoLineLost'
  <2>. HIDE DEF f
  <2>. DEFINE t == f \o block
              S == AllLines
  <2>1. t \in Seq(S)
    BY <1>5, ConcatProperties DEF ReplayType
  <2>. HIDE DEF t, S
  <2>2. t \o <<>> = t
    BY <2>1, ConcatEmptySeq
  <2>3. t = Texts(SubSeq(Dump, 1, line))
    BY DEF NoLineLost, t, f
  <2>4. FlowOf(replayed') \o block' = t \o <<>>
    BY <1>1, <1>5 DEF t
  <2>. QED BY <1>2, <1>3, <2>2, <2>3, <2>4 DEF NoLineLost
<1>. QED BY <1>6, <1>7

LEMMA LinesCollect ==
  ASSUME AgentInv, ReplayType, NoLineLost, Collect
  PROVE  ReplayType' /\ NoLineLost'
<1>. DEFINE x == Dump[line + 1]
            f == FlowOf(replayed)
            S == AllLines
<1>1. /\ UNCHANGED <<vars, stamps>> /\ Reads("text") /\ line' = line + 1
      /\ base' = base /\ clock' = clock
      /\ \/ SendBlock /\ block' = <<x>>
         \/ block' = Append(block, x) /\ replayed' = replayed
  BY DEF Collect, Reads
<1>2. Dump' = Dump /\ sent' = sent
  BY <1>1, Recordings DEF vars
<1>3. x \in S /\ Texts(SubSeq(Dump, 1, line')) = Texts(SubSeq(Dump, 1, line)) \o <<x>>
  BY <1>1, ReadsOn
<1>4. Texts(SubSeq(Dump, 1, line)) = f \o block
  BY DEF NoLineLost
<1>5. block \in Seq(S) /\ replayed \in Seq(Blocks)
  BY DEF ReplayType
<1>. HIDE DEF x, S
<1>6. f \in Seq(S)
  <2>. DEFINE b == [at |-> 0, lines |-> block]
  <2>1. b \in Blocks
    BY <1>5 DEF Blocks, S
  <2>. HIDE DEF b
  <2>. QED BY <1>5, <2>1, FlowAppend DEF S
<1>7. <<x>> \in Seq(S) /\ Append(block, x) \in Seq(S) /\ Append(block, x) = block \o <<x>>
  BY <1>3, <1>5, AppendProperties, AppendIsConcat
<1>8. CASE SendBlock /\ block' = <<x>>
  <2>1. replayed' \in Seq(Blocks) /\ FlowOf(replayed') = f \o block
    BY <1>8, SendsBlock
  <2>2. ReplayType'
    BY <1>1, <1>2, <1>7, <1>8, <2>1 DEF ReplayType, S
  <2>3. NoLineLost'
    <3>. HIDE DEF f
    <3>. QED BY <1>2, <1>3, <1>4, <1>8, <2>1 DEF NoLineLost
  <2>. QED BY <2>2, <2>3
<1>9. CASE block' = Append(block, x) /\ replayed' = replayed
  <2>1. ReplayType'
    BY <1>1, <1>2, <1>7, <1>9 DEF ReplayType, S
  <2>2. FlowOf(replayed') \o block' = f \o (block \o <<x>>)
    BY <1>7, <1>9
  <2>. HIDE DEF f
  <2>3. f \o (block \o <<x>>) = (f \o block) \o <<x>>
    BY <1>5, <1>6, <1>7, ConcatAssociative
  <2>4. NoLineLost'
    BY <1>2, <1>3, <1>4, <2>2, <2>3 DEF NoLineLost
  <2>. QED BY <2>1, <2>4
<1>. QED BY <1>1, <1>8, <1>9

LEMMA LinesEndOfFile ==
  ASSUME AgentInv, ReplayType, NoLineLost, EndOfFile
  PROVE  ReplayType' /\ NoLineLost'
<1>. DEFINE f == FlowOf(replayed)
            t == f \o block
            S == AllLines
<1>1. /\ UNCHANGED <<vars, stamps>> /\ line' = line /\ base' = base /\ clock' = clock
      /\ SendBlock /\ block' = <<>>
  BY DEF EndOfFile
<1>2. Dump' = Dump /\ sent' = sent
  BY <1>1, Recordings DEF vars
<1>3. replayed' \in Seq(Blocks) /\ FlowOf(replayed') = t /\ f \in Seq(S)
  BY <1>1, SendsBlock
<1>4. ReplayType'
  BY <1>1, <1>2, <1>3 DEF ReplayType
<1>5. t = Texts(SubSeq(Dump, 1, line))
  BY DEF NoLineLost
<1>. HIDE DEF f
<1>6. t \in Seq(S)
  BY <1>3, ConcatProperties DEF ReplayType
<1>. HIDE DEF t, S
<1>7. t \o <<>> = t
  BY <1>6, ConcatEmptySeq
<1>8. NoLineLost'
  BY <1>1, <1>2, <1>3, <1>5, <1>7 DEF NoLineLost
<1>. QED BY <1>4, <1>8

-----------------------------------------------------------------------------
(***************************************************************************)
(* Each datagram is sent again as it was and when it was.  pt_replay has   *)
(* not begun, or is within datagram n with its first k lines in block, or  *)
(* is through; what it has sent again are the datagrams before.            *)
(***************************************************************************)
Timed(r, n, at) ==
  n > 1 => LET gap == Elapsed(stamps[n], stamps[n - 1])
           IN  gap < USLEEP => at - r[n - 1].at = gap

Repeated(r, n) ==
  /\ Len(r) = n
  /\ \A i \in 1..n : r[i].lines = LinesOf(i) /\ Timed(r, i, r[i].at)

Untouched ==
  line = 0 /\ base = Unset /\ block = <<>> /\ clock = 0 /\ replayed = <<>>

Within(n, k) ==
  /\ line = Start(n) + 1 + k
  /\ base = stamps[n] /\ block = SubSeq(LinesOf(n), 1, k)
  /\ Repeated(replayed, n - 1) /\ Timed(replayed, n, clock)

Over == line = Len(Dump) /\ block = <<>> /\ Repeated(replayed, Len(sent))

Playing ==
  \/ Untouched
  \/ \E n \in 1..Len(sent) : \E k \in 0..Len(LinesOf(n)) : Within(n, k)
  \/ Over

(* The lines of a datagram, as pt_replay collects them.                    *)
LEMMA Collected ==
  ASSUME AgentInv, NEW n \in 1..Len(sent)
  PROVE  /\ LinesOf(n) \in Seq(AllLines) /\ LinesOf(n) # <<>>
         /\ Len(LinesOf(n)) \in Nat \ {0} /\ Size(LinesOf(n)) < BUFSIZ_LONG
         /\ \A k \in 1..Len(LinesOf(n)) : LinesOf(n)[k].kind = "text"
<1>. DEFINE l == LinesOf(n)
            S == LinesOfOne(n)
<1>1. l \in Seq(S) /\ l # <<>> /\ Size(l) < BUFSIZ_LONG
  BY LinesOfFit
<1>2. S \subseteq AllLines /\ \A x \in S : x.kind = "text"
  <2>1. Len(sent) \in Nat
    BY PrintsAre
  <2>. QED BY <2>1 DEF LinesOfOne, AllLines
<1>. HIDE DEF l, S
<1>3. l \in Seq(AllLines)
  BY <1>1, <1>2, Widen
<1>4. \A k \in 1..Len(l) : l[k].kind = "text"
  BY <1>1, <1>2, ElementOfSeq
<1>5. Len(l) \in Nat \ {0}
  BY <1>1, EmptySeq, LenProperties
<1>. QED BY <1>1, <1>3, <1>4, <1>5 DEF l

(* What comes next within a datagram.                                      *)
LEMMA NextWithin ==
  ASSUME AgentInv, AllClosed, NEW n \in 1..Len(sent),
         NEW k \in 0..Len(LinesOf(n)), Within(n, k)
  PROVE  /\ k < Len(LinesOf(n)) =>
              line < Len(Dump) /\ Dump[line + 1] = LinesOf(n)[k + 1]
         /\ k = Len(LinesOf(n)) /\ n < Len(sent) =>
              /\ line = Start(n + 1) /\ line < Len(Dump)
              /\ Dump[line + 1] = TimeLine(n + 1)
         /\ k = Len(LinesOf(n)) /\ n = Len(sent) => line = Len(Dump)
<1>. DEFINE l == LinesOf(n)
            N == Len(sent)
<1>1. N \in Nat /\ n \in Nat /\ Len(l) \in Nat /\ Len(Dump) \in Nat
  BY PrintsAre, Collected, DumpType
<1>2. /\ Start(n) \in Nat /\ Start(n + 1) = Start(n) + 1 + Len(l)
      /\ Start(N + 1) = Len(Dump)
      /\ \A j \in 1..Len(l) : Start(n) + j < Len(Dump) /\ Dump[Start(n) + 1 + j] = l[j]
      /\ \A m \in 1..N : Start(m) < Len(Dump) /\ Dump[Start(m) + 1] = TimeLine(m)
  BY Starts
<1>3. line = Start(n) + 1 + k /\ k \in Nat
  BY <1>1 DEF Within
<1>. HIDE DEF l, N
<1>4. CASE k < Len(l)
  <2>. DEFINE j == k + 1
  <2>1. j \in 1..Len(l) /\ line + 1 = Start(n) + 1 + j /\ line = Start(n) + j
    BY <1>1, <1>2, <1>3, <1>4, SMTT(30)
  <2>. HIDE DEF j
  <2>2. Start(n) + j < Len(Dump) /\ Dump[Start(n) + 1 + j] = l[j]
    BY <1>2, <2>1
  <2>3. line < Len(Dump) /\ Dump[line + 1] = l[j]
    BY <2>1, <2>2
  <2>. QED BY <1>1, <1>4, <2>3 DEF j, l
<1>5. CASE k = Len(l) /\ n < N
  <2>. DEFINE m == n + 1
  <2>1. m \in 1..N /\ Start(m) = Start(n) + 1 + Len(l)
    BY <1>1, <1>2, <1>5 DEF N
  <2>. HIDE DEF m
  <2>2. line = Start(m)
    BY <1>3, <1>5, <2>1
  <2>3. Start(m) < Len(Dump) /\ Dump[Start(m) + 1] = TimeLine(m)
    BY <1>2, <2>1
  <2>4. ~(k < Len(l)) /\ n # N
    BY <1>1, <1>5
  <2>. QED BY <2>2, <2>3, <2>4 DEF m, l, N
<1>6. CASE k = Len(l) /\ n = N
  <2>1. Start(N + 1) = Start(n) + 1 + Len(l)
    BY <1>2, <1>6
  <2>2. line = Len(Dump) /\ ~(k < Len(l)) /\ ~(n < N)
    BY <1>1, <1>2, <1>3, <1>6, <2>1
  <2>. QED BY <2>2 DEF l, N
<1>7. k < Len(l) \/ k = Len(l)
  BY <1>1, <1>3 DEF l
<1>8. n < N \/ n = N
  BY <1>1 DEF N
<1>. QED BY <1>4, <1>5, <1>6, <1>7, <1>8

(* A datagram more is sent again.                                          *)
LEMMA RepeatedAppend ==
  ASSUME NEW r \in Seq(Blocks), NEW n \in Nat \ {0}, NEW at \in Nat,
         NEW lines \in Seq(AllLines), lines = LinesOf(n),
         Repeated(r, n - 1), Timed(r, n, at)
  PROVE  Repeated(Append(r, [at |-> at, lines |-> lines]), n)
<1>. DEFINE b == [at |-> at, lines |-> lines]
            q == Append(r, b)
<1>1. b \in Blocks /\ b.at = at /\ b.lines = lines
  BY DEF Blocks
<1>. HIDE DEF b
<1>2. /\ q \in Seq(Blocks) /\ Len(q) = n /\ q[n] = b
      /\ \A i \in 1..n - 1 : q[i] = r[i]
  <2>1. Len(r) = n - 1
    BY DEF Repeated
  <2>2. /\ q \in Seq(Blocks) /\ Len(q) = Len(r) + 1 /\ q[Len(r) + 1] = b
        /\ \A i \in 1..Len(r) : q[i] = r[i]
    BY <1>1, AppendProperties
  <2>. QED BY <2>1, <2>2
<1>. HIDE DEF q
<1>3. \A i \in 1..n : \A x : Timed(r, i, x) => Timed(q, i, x)
  <2>. SUFFICES ASSUME NEW i \in 1..n, NEW x, Timed(r, i, x), i > 1
                PROVE  LET gap == Elapsed(stamps[i], stamps[i - 1])
                       IN  gap < USLEEP => x - q[i - 1].at = gap
    BY DEF Timed
  <2>1. q[i - 1] = r[i - 1]
    <3>1. i - 1 \in 1..n - 1
      OBVIOUS
    <3>. QED BY <1>2, <3>1
  <2>. QED BY <2>1 DEF Timed
<1>4. ASSUME NEW i \in 1..n PROVE q[i].lines = LinesOf(i) /\ Timed(q, i, q[i].at)
  <2>1. CASE i = n
    BY <1>1, <1>2, <1>3, <2>1
  <2>2. CASE i # n
    <3>1. i \in 1..n - 1
      BY <2>2
    <3>2. r[i].lines = LinesOf(i) /\ Timed(r, i, r[i].at) /\ q[i] = r[i]
      BY <1>2, <3>1 DEF Repeated
    <3>. QED BY <1>3, <3>2
  <2>. QED BY <2>1, <2>2
<1>5. Repeated(q, n)
  BY <1>2, <1>4 DEF Repeated
<1>. QED BY <1>5 DEF q, b

(* A replay changes nothing of what it compares with.                      *)
LEMMA WithinNow ==
  ASSUME UNCHANGED <<vars, stamps>>, NEW n, NEW k,
         line' = Start(n) + 1 + k, base' = stamps[n], block' = SubSeq(LinesOf(n), 1, k),
         Repeated(replayed', n - 1), Timed(replayed', n, clock')
  PROVE  Within(n, k)'
<1>1. \A i : LinesOf(i)' = LinesOf(i) /\ Start(i)' = Start(i)
  BY Recordings
<1>2. stamps' = stamps
  OBVIOUS
<1>. QED BY <1>1, <1>2 DEF Within, Repeated, Timed

LEMMA OverNow ==
  ASSUME UNCHANGED <<vars, stamps>>, line' = Len(Dump), block' = <<>>,
         Repeated(replayed', Len(sent))
  PROVE  Over'
<1>1. \A i : LinesOf(i)' = LinesOf(i)
  BY Recordings
<1>2. stamps' = stamps /\ sent' = sent /\ Dump' = Dump
  BY Recordings DEF vars
<1>. QED BY <1>1, <1>2 DEF Over, Repeated, Timed

LEMMA PlayingNow ==
  ASSUME UNCHANGED <<vars, stamps>>, NEW n \in 1..Len(sent),
         NEW k \in 0..Len(LinesOf(n)), Within(n, k)'
  PROVE  Playing'
<1>1. sent' = sent /\ LinesOf(n)' = LinesOf(n)
  BY Recordings DEF vars
<1>2. n \in 1..Len(sent') /\ k \in 0..Len(LinesOf(n)')
  BY <1>1
<1>. QED BY <1>2 DEF Playing

LEMMA SendsWithin ==
  ASSUME AgentInv, ReplayType, NEW n \in 1..Len(sent),
         Within(n, Len(LinesOf(n))), SendBlock
  PROVE  Repeated(replayed', n)
<1>. DEFINE l == LinesOf(n)
            r == replayed
<1>1. l \in Seq(AllLines) /\ l # <<>>
  BY Collected
<1>2. block = l
  <2>. HIDE DEF l
  <2>1. SubSeq(l, 1, Len(l)) = l
    BY <1>1, SubSeqFull
  <2>. QED BY <2>1 DEF Within, l
<1>3. r' = Append(r, [at |-> clock, lines |-> l])
  <2>. HIDE DEF l
  <2>. QED BY <1>1, <1>2 DEF SendBlock
<1>4. /\ r \in Seq(Blocks) /\ clock \in Nat /\ n \in Nat \ {0}
      /\ Repeated(r, n - 1) /\ Timed(r, n, clock)
  BY PrintsAre DEF ReplayType, Within
<1>5. l = LinesOf(n)
  OBVIOUS
<1>. HIDE DEF l, r
<1>6. Repeated(Append(r, [at |-> clock, lines |-> l]), n)
  BY <1>1, <1>4, <1>5, RepeatedAppend
<1>. QED BY <1>3, <1>6 DEF r

LEMMA PlayFirstTime ==
  ASSUME AgentInv, ReplayType, AllClosed, Playing, FirstTime
  PROVE  Playing'
<1>1. /\ UNCHANGED <<vars, stamps>> /\ line' = line + 1 /\ line < Len(Dump)
      /\ base = Unset /\ base' = stamps[Dump[line + 1].of]
      /\ block' = block /\ clock' = clock /\ replayed' = replayed
  BY DEF FirstTime, Reads
<1>2. /\ Len(sent) \in Nat /\ Len(Dump) \in Nat /\ Len(stamps) = Len(sent)
      /\ stamps \in Seq(Nat)
  BY PrintsAre, DumpType DEF ReplayType
<1>3. ASSUME NEW n \in 1..Len(sent), NEW k, Within(n, k) PROVE FALSE
  <2>1. stamps[n] \in Nat
    BY <1>2, ElementOfSeq
  <2>. QED BY <1>1, <1>3, <2>1 DEF Within, Unset
<1>4. Untouched
  BY <1>1, <1>2, <1>3 DEF Playing, Over
<1>5. 1 \in 1..Len(sent)
  <2>1. Len(sent) = 0 => Start(1) = 0 /\ Start(Len(sent) + 1) = Len(Dump) /\ Len(sent) + 1 = 1
    BY Starts
  <2>2. Len(sent) # 0
    BY <1>1, <1>2, <1>4, <2>1 DEF Untouched
  <2>. QED BY <1>2, <2>2
<1>6. Start(1) = 0 /\ Dump[Start(1) + 1] = TimeLine(1)
  BY <1>5, Starts
<1>7. Dump[line + 1].of = 1
  BY <1>4, <1>6 DEF Untouched, TimeLine
<1>8. /\ line' = Start(1) + 1 + 0 /\ base' = stamps[1] /\ block' = <<>> /\ replayed' = <<>>
  BY <1>1, <1>4, <1>6, <1>7 DEF Untouched
<1>9. SubSeq(LinesOf(1), 1, 0) = <<>>
  BY SubSeqEmpty
<1>10. Repeated(replayed', 1 - 1) /\ Timed(replayed', 1, clock')
  BY <1>8 DEF Repeated, Timed
<1>11. Within(1, 0)'
  BY <1>1, <1>8, <1>9, <1>10, WithinNow
<1>12. 0 \in 0..Len(LinesOf(1))
  BY <1>5, Collected
<1>. QED BY <1>1, <1>5, <1>11, <1>12, PlayingNow

LEMMA PlayNextTime ==
  ASSUME AgentInv, ReplayType, AllClosed, Playing, NextTime
  PROVE  Playing'
<1>1. /\ UNCHANGED <<vars, stamps>> /\ line' = line + 1 /\ line < Len(Dump)
      /\ base # Unset /\ Dump[line + 1].kind = "time" /\ SendBlock /\ block' = <<>>
      /\ clock' = Slept(stamps[Dump[line + 1].of]) /\ base' = stamps[Dump[line + 1].of]
  BY DEF NextTime, Reads, SendThenSleep
<1>2. /\ Len(sent) \in Nat /\ Len(Dump) \in Nat /\ Len(stamps) = Len(sent)
      /\ stamps \in Seq(Nat) /\ clock \in Nat /\ line \in Nat
  BY PrintsAre, DumpType DEF ReplayType
<1>3. PICK n \in 1..Len(sent) : \E k \in 0..Len(LinesOf(n)) : Within(n, k)
  BY <1>1, <1>2 DEF Playing, Untouched, Over
<1>4. PICK k \in 0..Len(LinesOf(n)) : Within(n, k)
  BY <1>3
<1>5. /\ Len(LinesOf(n)) \in Nat
      /\ \A j \in 1..Len(LinesOf(n)) : LinesOf(n)[j].kind = "text"
  BY Collected
<1>6. k = Len(LinesOf(n))
  <2>1. ASSUME k < Len(LinesOf(n)) PROVE FALSE
    <3>1. Dump[line + 1] = LinesOf(n)[k + 1]
      BY <1>4, <2>1, NextWithin
    <3>2. k + 1 \in 1..Len(LinesOf(n))
      BY <1>5, <2>1
    <3>3. Dump[line + 1].kind = "text"
      BY <1>5, <3>1, <3>2
    <3>. QED BY <1>1, <3>3
  <2>. QED BY <1>5, <2>1
<1>7. n < Len(sent)
  <2>1. n = Len(sent) => line = Len(Dump)
    BY <1>4, <1>6, NextWithin
  <2>. QED BY <1>1, <1>2, <2>1
<1>. DEFINE m == n + 1
<1>8. m \in 1..Len(sent) /\ m - 1 = n /\ m > 1 /\ m \in Nat
  BY <1>2, <1>7
<1>9. line = Start(m) /\ Dump[line + 1] = TimeLine(m)
  BY <1>4, <1>6, <1>7, NextWithin
<1>10. Dump[line + 1].of = m
  BY <1>9 DEF TimeLine
<1>11. Repeated(replayed', n)
  BY <1>1, <1>4, <1>6, SendsWithin
<1>. DEFINE to == stamps[m]
<1>12. to \in Nat /\ base = stamps[n] /\ base' = to /\ clock' = Slept(to)
  <2>1. to \in Nat
    BY <1>2, <1>8, ElementOfSeq
  <2>. QED BY <1>1, <1>4, <1>10, <2>1 DEF Within
<1>. HIDE DEF m, to
<1>13. Elapsed(to, base) < USLEEP => Slept(to) - clock = Elapsed(to, base)
  BY <1>1, <1>12, SleptType
<1>14. replayed'[n].at = clock
  <2>1. block # <<>>
    <3>. DEFINE l == LinesOf(n)
    <3>1. l \in Seq(AllLines) /\ l # <<>>
      BY Collected
    <3>2. block = SubSeq(l, 1, Len(l))
      BY <1>4, <1>6 DEF Within
    <3>. HIDE DEF l
    <3>3. SubSeq(l, 1, Len(l)) = l
      BY <3>1, SubSeqFull
    <3>. QED BY <3>1, <3>2, <3>3
  <2>. DEFINE b == [at |-> clock, lines |-> block]
  <2>2. replayed' = Append(replayed, b)
    BY <1>1, <2>1 DEF SendBlock
  <2>3. b \in Blocks /\ b.at = clock /\ replayed \in Seq(Blocks)
    BY DEF ReplayType, Blocks
  <2>. HIDE DEF b
  <2>4. Len(replayed) = n - 1
    BY <1>4 DEF Within, Repeated
  <2>5. Append(replayed, b)[Len(replayed) + 1] = b
    BY <2>3, AppendProperties
  <2>6. Len(replayed) + 1 = n
    BY <1>2, <2>4
  <2>. QED BY <2>2, <2>3, <2>5, <2>6
<1>15. Timed(replayed', m, clock')
  BY <1>8, <1>12, <1>13, <1>14 DEF Timed, to
<1>16. line' = Start(m) + 1 + 0
  BY <1>1, <1>2, <1>9
<1>17. block' = SubSeq(LinesOf(m), 1, 0)
  <2>1. SubSeq(LinesOf(m), 1, 0) = <<>>
    BY SubSeqEmpty
  <2>. QED BY <1>1, <2>1
<1>18. Repeated(replayed', m - 1) /\ base' = stamps[m]
  BY <1>8, <1>11, <1>12 DEF to
<1>19. Within(m, 0)'
  BY <1>1, <1>15, <1>16, <1>17, <1>18, WithinNow
<1>20. 0 \in 0..Len(LinesOf(m))
  BY <1>8, Collected
<1>. QED BY <1>1, <1>8, <1>19, <1>20, PlayingNow

LEMMA PlayCollect ==
  ASSUME AgentInv, ReplayType, AllClosed, Playing, Collect
  PROVE  Playing'
<1>. DEFINE x == Dump[line + 1]
<1>1. /\ UNCHANGED <<vars, stamps>> /\ line' = line + 1 /\ line < Len(Dump)
      /\ x.kind = "text" /\ base' = base /\ clock' = clock
      /\ Size(block) + x.len < BUFSIZ_LONG =>
           block' = Append(block, x) /\ replayed' = replayed
  <2>1. Size(block) + x.len < BUFSIZ_LONG => ~(Size(block) + x.len >= BUFSIZ_LONG)
    <3>1. block \in Seq(AllLines) /\ Size(block) \in Nat
      BY SizeConcat DEF ReplayType
    <3>2. x.len \in Nat
      BY ReadsOn DEF Collect, AllLines
    <3>. QED BY <3>1, <3>2
  <2>. QED BY <2>1 DEF Collect, Reads
<1>2. Len(sent) \in Nat /\ Len(Dump) \in Nat /\ line \in Nat
  BY PrintsAre, DumpType DEF ReplayType
<1>3. ~Untouched
  <2>1. ASSUME Untouched PROVE FALSE
    <3>0. Start(1) = 0 /\ Start(Len(sent) + 1) = Len(Dump)
      BY Starts
    <3>1. 1 \in 1..Len(sent)
      <4>1. Len(sent) = 0 => Len(sent) + 1 = 1
        OBVIOUS
      <4>2. Len(sent) # 0
        BY <1>1, <2>1, <3>0, <4>1 DEF Untouched
      <4>. QED BY <1>2, <4>2
    <3>2. Dump[Start(1) + 1] = TimeLine(1)
      BY <3>1, Starts
    <3>3. x.kind = "time"
      BY <2>1, <3>0, <3>2 DEF Untouched, TimeLine
    <3>. QED BY <1>1, <3>3
  <2>. QED BY <2>1
<1>4. PICK n \in 1..Len(sent) : \E k \in 0..Len(LinesOf(n)) : Within(n, k)
  BY <1>1, <1>2, <1>3 DEF Playing, Over
<1>5. PICK k \in 0..Len(LinesOf(n)) : Within(n, k)
  BY <1>4
<1>. DEFINE l == LinesOf(n)
            j == k + 1
<1>6. l \in Seq(AllLines) /\ Len(l) \in Nat /\ Size(l) < BUFSIZ_LONG
  BY Collected
<1>7. k < Len(l)
  <2>1. CASE k = Len(l) /\ n < Len(sent)
    <3>1. x = TimeLine(n + 1)
      BY <1>5, <2>1, NextWithin
    <3>. QED BY <1>1, <3>1 DEF TimeLine
  <2>2. CASE k = Len(l) /\ n = Len(sent)
    <3>1. line = Len(Dump)
      BY <1>5, <2>2, NextWithin
    <3>. QED BY <1>1, <1>2, <3>1
  <2>3. k \in 0..Len(l) /\ n \in 1..Len(sent)
    OBVIOUS
  <2>. HIDE DEF l, x
  <2>. QED BY <1>2, <1>6, <2>1, <2>2, <2>3
<1>8. x = l[j]
  BY <1>5, <1>7, NextWithin
<1>9. j \in 1..Len(l) /\ j - 1 = k /\ j \in 0..Len(l)
  BY <1>6, <1>7
<1>10. block = SubSeq(l, 1, j - 1)
  BY <1>5, <1>9 DEF Within
<1>11. line = Start(n) + 1 + k /\ base = stamps[n] /\ Start(n) \in Nat
       /\ Repeated(replayed, n - 1) /\ Timed(replayed, n, clock)
  BY <1>5, Starts DEF Within
<1>12. line' = Start(n) + 1 + j
  BY <1>1, <1>11
<1>. HIDE DEF l, j, x
<1>13. /\ Size(SubSeq(l, 1, j - 1)) + l[j].len <= Size(l) /\ Size(l) \in Nat
       /\ SubSeq(l, 1, j) = Append(SubSeq(l, 1, j - 1), l[j])
  BY <1>6, <1>9, SizeUpTo, SizeConcat, UpToNext
<1>14. Size(block) + x.len < BUFSIZ_LONG
  <2>1. x.len \in Nat /\ Size(block) \in Nat
    <3>1. block \in Seq(AllLines) /\ Size(block) \in Nat
      BY SizeConcat DEF ReplayType
    <3>2. l[j] \in AllLines
      BY <1>6, <1>9, ElementOfSeq
    <3>. QED BY <1>8, <3>1, <3>2 DEF AllLines
  <2>2. Size(block) + x.len <= Size(l)
    BY <1>8, <1>10, <1>13
  <2>. QED BY <1>6, <1>13, <2>1, <2>2
<1>15. block' = SubSeq(l, 1, j) /\ replayed' = replayed
  BY <1>1, <1>8, <1>10, <1>13, <1>14
<1>16. Within(n, j)'
  BY <1>1, <1>11, <1>12, <1>15, WithinNow DEF l
<1>. QED BY <1>1, <1>9, <1>16, PlayingNow DEF l

LEMMA PlayEndOfFile ==
  ASSUME AgentInv, ReplayType, AllClosed, Playing, EndOfFile
  PROVE  Playing'
<1>1. /\ UNCHANGED <<vars, stamps>> /\ line' = line /\ line = Len(Dump)
      /\ block # <<>> /\ block' = <<>> /\ SendBlock
  BY DEF EndOfFile
<1>2. Len(sent) \in Nat /\ Len(Dump) \in Nat /\ line \in Nat
  BY PrintsAre, DumpType DEF ReplayType
<1>3. PICK n \in 1..Len(sent) : \E k \in 0..Len(LinesOf(n)) : Within(n, k)
  BY <1>1 DEF Playing, Untouched, Over
<1>4. PICK k \in 0..Len(LinesOf(n)) : Within(n, k)
  BY <1>3
<1>5. Len(LinesOf(n)) \in Nat
  BY Collected
<1>6. ~(k < Len(LinesOf(n))) /\ ~(k = Len(LinesOf(n)) /\ n < Len(sent))
  <2>1. /\ k < Len(LinesOf(n)) => line < Len(Dump)
        /\ k = Len(LinesOf(n)) /\ n < Len(sent) => line < Len(Dump)
    BY <1>4, NextWithin
  <2>. QED BY <1>1, <1>2, <2>1
<1>7. k = Len(LinesOf(n)) /\ n = Len(sent)
  BY <1>2, <1>5, <1>6
<1>8. Repeated(replayed', Len(sent))
  BY <1>1, <1>4, <1>7, SendsWithin
<1>9. Over'
  BY <1>1, <1>8, OverNow
<1>. QED BY <1>9 DEF Playing

ReplayInv ==
  /\ AgentInv /\ ReplayType /\ NoLineLost
  /\ running => Untouched
  /\ AllClosed => Playing

LEMMA NoneOf == Texts(<<>>) = <<>> /\ FlowOf(<<>>) = <<>>
<1>. DEFINE x == [kind |-> "text", of |-> 0, len |-> 0]
            s == <<>>
<1>1. x \in AllLines /\ s \in Seq(AllLines)
  BY DEF AllLines
<1>. HIDE DEF x, s
<1>2. Texts(<<>>) = <<>>
  BY <1>1, TextsAppend
<1>. QED BY <1>2 DEF FlowOf, FlattenSeq

LEMMA NothingLost == Untouched => NoLineLost
<1>1. SubSeq(Dump, 1, 0) = <<>> /\ <<>> \o <<>> = <<>>
  BY SubSeqEmpty
<1>. QED BY <1>1, NoneOf DEF Untouched, NoLineLost

LEMMA ReplayInvInit == ReplayInit => ReplayInv
<1>. SUFFICES ASSUME ReplayInit PROVE ReplayInv
  OBVIOUS
<1>1. AgentInv
  BY AgentInit DEF ReplayInit
<1>2. Untouched
  BY DEF ReplayInit, Untouched
<1>3. ReplayType
  BY DEF ReplayInit, Init, ReplayType
<1>. QED BY <1>1, <1>2, <1>3, NothingLost DEF ReplayInv, Playing

(* While the agent is recorded, pt_replay has not begun.                   *)
LEMMA RecordInv == ASSUME ReplayInv, Record PROVE ReplayInv'
<1>1. /\ Untouched /\ ReplayType /\ AgentInv
      /\ line' = line /\ base' = base /\ block' = block /\ clock' = clock
      /\ replayed' = replayed
  BY DEF ReplayInv, Record, replaying
<1>2. AgentInv'
  BY <1>1, AgentNext DEF Record
<1>3. Untouched'
  BY <1>1 DEF Untouched
<1>4. Len(stamps') = Len(sent') /\ stamps' \in Seq(Nat)
  <2>. DEFINE t == [i \in DOMAIN sent' |-> IF i \in DOMAIN stamps THEN stamps[i] ELSE now]
              n == Len(sent')
  <2>1. n \in Nat /\ DOMAIN sent' = 1..n
    BY <1>2, LenProperties DEF AgentInv, Carrying
  <2>2. now \in Nat /\ \A i \in DOMAIN stamps : stamps[i] \in Nat
    <3>1. stamps \in Seq(Nat)
      BY <1>1 DEF ReplayType
    <3>2. \A i \in DOMAIN stamps : stamps[i] \in Nat
      BY <3>1, LenProperties, ElementOfSeq
    <3>. QED BY <1>1, <3>2 DEF AgentInv, TypeOK
  <2>3. t \in [1..n -> Nat]
    <3>. HIDE DEF n
    <3>. QED BY <2>1, <2>2
  <2>4. stamps' = t
    BY DEF Record
  <2>. HIDE DEF t, n
  <2>5. t \in Seq(Nat) /\ Len(t) = n
    BY <2>1, <2>3, FunctionIsSeq
  <2>. QED BY <2>4, <2>5 DEF n
<1>5. ReplayType'
  BY <1>1, <1>4 DEF ReplayType
<1>6. NoLineLost'
  <2>1. SubSeq(Dump', 1, 0) = <<>> /\ <<>> \o <<>> = <<>>
    BY SubSeqEmpty
  <2>. QED BY <1>3, <2>1, NoneOf DEF Untouched, NoLineLost
<1>. QED BY <1>2, <1>3, <1>5, <1>6 DEF ReplayInv, Playing

LEMMA ReplayInvNext ==
  ReplayInv /\ [ReplayNext]_<<vars, stamps, replaying>> => ReplayInv'
<1>. SUFFICES ASSUME ReplayInv, [ReplayNext]_<<vars, stamps, replaying>>
              PROVE  ReplayInv'
  OBVIOUS
<1>. USE DEF ReplayInv
<1>1. CASE Record
  BY <1>1, RecordInv
<1>2. AgentInv'
  BY AgentNext, RecordedNext
<1>3. ASSUME UNCHANGED <<vars, stamps>>, ~running
      PROVE  running' = running /\ AllClosed' = AllClosed
  BY <1>3, Recordings DEF vars
<1>4. CASE FirstTime
  <2>1. UNCHANGED <<vars, stamps>> /\ ~running
    BY <1>4 DEF FirstTime, Reads
  <2>2. ReplayType' /\ NoLineLost'
    BY <1>4, LinesFirstTime
  <2>3. AllClosed' => Playing'
    BY <1>3, <1>4, <2>1, PlayFirstTime
  <2>. QED BY <1>2, <1>3, <2>1, <2>2, <2>3
<1>5. CASE NextTime
  <2>1. UNCHANGED <<vars, stamps>> /\ ~running
    BY <1>5 DEF NextTime, Reads
  <2>2. ReplayType' /\ NoLineLost'
    BY <1>5, LinesNextTime
  <2>3. AllClosed' => Playing'
    BY <1>3, <1>5, <2>1, PlayNextTime
  <2>. QED BY <1>2, <1>3, <2>1, <2>2, <2>3
<1>6. CASE Collect
  <2>1. UNCHANGED <<vars, stamps>> /\ ~running
    BY <1>6 DEF Collect, Reads
  <2>2. ReplayType' /\ NoLineLost'
    BY <1>6, LinesCollect
  <2>3. AllClosed' => Playing'
    BY <1>3, <1>6, <2>1, PlayCollect
  <2>. QED BY <1>2, <1>3, <2>1, <2>2, <2>3
<1>7. CASE EndOfFile
  <2>1. UNCHANGED <<vars, stamps>> /\ ~running
    BY <1>7 DEF EndOfFile
  <2>2. ReplayType' /\ NoLineLost'
    BY <1>7, LinesEndOfFile
  <2>3. AllClosed' => Playing'
    BY <1>3, <1>7, <2>1, PlayEndOfFile
  <2>. QED BY <1>2, <1>3, <2>1, <2>2, <2>3
<1>8. CASE UNCHANGED <<vars, stamps, replaying>>
  <2>1. /\ UNCHANGED <<vars, stamps>> /\ line' = line /\ base' = base
        /\ block' = block /\ clock' = clock /\ replayed' = replayed
        /\ sent' = sent /\ running' = running
    BY <1>8 DEF replaying, vars
  <2>2. Dump' = Dump /\ AllClosed' = AllClosed
    BY <2>1, Recordings
  <2>3. ReplayType' /\ NoLineLost' /\ Untouched' = Untouched
    BY <2>1, <2>2 DEF ReplayType, NoLineLost, Untouched
  <2>4. AllClosed => Playing'
    <3>1. ASSUME NEW n \in 1..Len(sent), NEW k \in 0..Len(LinesOf(n)), Within(n, k)
          PROVE  Playing'
      <4>1. Within(n, k)'
        <5>1. /\ line' = Start(n) + 1 + k /\ base' = stamps[n]
              /\ block' = SubSeq(LinesOf(n), 1, k)
              /\ Repeated(replayed', n - 1) /\ Timed(replayed', n, clock')
          BY <2>1, <3>1 DEF Within
        <5>. QED BY <2>1, <5>1, WithinNow
      <4>. QED BY <2>1, <4>1, PlayingNow
    <3>2. ASSUME Over PROVE Playing'
      <4>1. line' = Len(Dump) /\ block' = <<>> /\ Repeated(replayed', Len(sent))
        BY <2>1, <3>2 DEF Over
      <4>2. Over'
        BY <2>1, <4>1, OverNow
      <4>. QED BY <4>2 DEF Playing
    <3>3. Untouched => Playing'
      BY <2>3 DEF Playing
    <3>. QED BY <3>1, <3>2, <3>3 DEF Playing
  <2>. QED BY <1>2, <2>1, <2>2, <2>3, <2>4
<1>. QED BY <1>1, <1>4, <1>5, <1>6, <1>7, <1>8 DEF ReplayNext

LEMMA ReplayInvImplies == ReplayInv => ReplayedAsSent
<1>. SUFFICES ASSUME ReplayInv PROVE ReplayedAsSent
  OBVIOUS
<1>1. FlowOf(replayed) \o block = Texts(SubSeq(Dump, 1, line))
  BY DEF ReplayInv, NoLineLost
<1>2. ASSUME AllClosed
      PROVE  \A i \in DOMAIN replayed :
               replayed[i].lines = LinesOf(i) /\ Timed(replayed, i, replayed[i].at)
  <2>1. Playing /\ DOMAIN replayed = 1..Len(replayed)
    BY <1>2, LenProperties DEF ReplayInv, ReplayType
  <2>2. CASE Untouched
    BY <2>2 DEF Untouched
  <2>3. ASSUME NEW n, Repeated(replayed, n)
        PROVE  \A i \in DOMAIN replayed :
                 replayed[i].lines = LinesOf(i) /\ Timed(replayed, i, replayed[i].at)
    BY <2>1, <2>3 DEF Repeated
  <2>. QED BY <2>1, <2>2, <2>3 DEF Playing, Within, Over
<1>. QED BY <1>1, <1>2 DEF ReplayedAsSent, FlowOf, AllClosed, Timed

(***************************************************************************)
(* Whatever was recorded, pt_replay loses, repeats and moves no line; and  *)
(* if no sound command has another datagram behind it, each datagram is    *)
(* sent again as it was and, but for long gaps, when it was.               *)
(***************************************************************************)
THEOREM Replays == ReplaySpec => []ReplayedAsSent
<1>1. ReplaySpec => []ReplayInv
  BY ReplayInvInit, ReplayInvNext, PTL DEF ReplaySpec
<1>. QED BY <1>1, ReplayInvImplies, PTL
=============================================================================
