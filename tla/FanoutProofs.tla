---------------------------- MODULE FanoutProofs ----------------------------
(***************************************************************************)
(* Proofs about Fanout, for every set of connections, boards and captions, *)
(* and every window, capacity and bound.                                   *)
(***************************************************************************)
EXTENDS Fanout, Lemmas

-----------------------------------------------------------------------------
(* Type correctness.                                                       *)

Line == [ts : Nat, event : Nat]

(* The frames and record lines the batcher writes have their type.         *)
LEMMA PublishType ==
  ASSUME sent \in Seq(Frames), NEW fs \in Seq(Frames), Publish(fs)
  PROVE  sent' \in Seq(Frames)
BY DEF Publish

LEMMA WriteLinesType ==
  ASSUME record \in Seq(Line), NEW lines \in Seq(Line), WriteLines(lines)
  PROVE  record' \in Seq(Line)
BY DEF WriteLines

(***************************************************************************)
(* The eviction stops at the first position that may stay: there is one,   *)
(* the end of the ring if no other.                                        *)
(***************************************************************************)
LEMMA EvictStops ==
  ASSUME NEW S, NEW r \in Seq(S)
  PROVE  \E k \in 1..Len(r) + 1 :
            /\ Evict(r) = SubSeq(r, k, Len(r))
            /\ MayStayInFront(r, k)
            /\ \A j \in 1..k-1 : ~MayStayInFront(r, j)
<1>. DEFINE T == {i \in 1..Len(r) + 1 : MayStayInFront(r, i)}
<1>1. T \in SUBSET Nat
  OBVIOUS
<1>2. Len(r) + 1 \in T
  BY FanoutAssumption DEF MayStayInFront
<1>3. PICK k \in T : \A j \in T : k <= j
  <2>. HIDE DEF T
  <2>. QED BY <1>1, <1>2, SmallestExists
<1>4. \A j \in 1..k-1 : ~MayStayInFront(r, j)
  BY <1>3
<1>. DEFINE P(i) == /\ MayStayInFront(r, i)
                    /\ \A j \in 1..i-1 : ~MayStayInFront(r, j)
<1>5. \E i \in 1..Len(r) + 1 : P(i)
  BY <1>3, <1>4
<1>6. P(CHOOSE i \in 1..Len(r) + 1 : P(i)) 
      /\ (CHOOSE i \in 1..Len(r) + 1 : P(i)) \in 1..Len(r) + 1
  <2>. HIDE DEF P
  <2>. QED BY <1>5
<1>. QED BY <1>6 DEF Evict

LEMMA EvictType ==
  ASSUME NEW S, NEW r \in Seq(S)
  PROVE  /\ Evict(r) \in Seq(S)
         /\ ToSet(Evict(r)) \subseteq ToSet(r)
<1>1. PICK k \in 1..Len(r) + 1 : Evict(r) = SubSeq(r, k, Len(r))
  BY EvictStops
<1>. QED BY <1>1, ToSetSubSeq

LEMMA TypeInit == Init => TypeOK
BY FanoutAssumption
   DEF Init, TypeOK, BatcherTypeOK, ClientTypeOK, Phases, Stages

(***************************************************************************)
(* The batcher's steps leave the clients' variables alone.                 *)
(***************************************************************************)
LEMMA TypeBatcher ==
  ASSUME BatcherTypeOK, Advance \/ Batcher
  PROVE  BatcherTypeOK'
<1>. USE FanoutAssumption
<1>0. /\ arrived \in Seq(Nat) /\ now \in Nat
      /\ sent \in Seq(Frames) /\ record \in Seq(Line)
      /\ ring \in Seq(1..Accepted) /\ pending \in Seq(1..Accepted)
  BY DEF BatcherTypeOK, Line
<1>1. CASE Advance
  BY <1>1 DEF BatcherTypeOK, Advance, Accepted
<1>2. ASSUME NEW alarms \in 0..MaxControls, AcceptFly(alarms)
      PROVE  BatcherTypeOK'
  <2>1. [i \in 1..alarms |-> CtrlFrame] \in Seq(Frames)
    BY FunctionIsSeq DEF CtrlFrame, Frames, CtrlFrames
  <2>2. [i \in 1..alarms |-> [ts |-> now, event |-> 0]] \in Seq(Line)
    BY <1>0, FunctionIsSeq DEF Line
  <2>3. sent' \in Seq(Frames) /\ record' \in Seq(Line)
    BY <1>0, <1>2, <2>1, <2>2, PublishType, WriteLinesType DEF AcceptFly
  <2>4. arrived' \in Seq(Nat) /\ Accepted' = Accepted + 1
    BY <1>0, <1>2, AppendProperties DEF AcceptFly, Accepted
  <2>5. Seq(1..Accepted) \subseteq Seq(1..Accepted')
    <3>1. (1..Accepted) \subseteq (1..Accepted')
      BY <1>0, <2>4 DEF Accepted
    <3>. QED BY <3>1, SeqMonotonic
  <2>6. Accepted + 1 \in 1..Accepted'
    BY <1>0, <2>4 DEF Accepted
  <2>7. pending' \in Seq(1..Accepted') /\ ring' \in Seq(1..Accepted')
    BY <1>0, <1>2, <2>5, <2>6, AppendProperties DEF AcceptFly
  <2>. QED BY <1>2, <2>3, <2>4, <2>7 DEF BatcherTypeOK, AcceptFly, Line
<1>3. CASE AcceptControl
  <2>1. <<CtrlFrame>> \in Seq(Frames)
    BY DEF CtrlFrame, Frames, CtrlFrames
  <2>2. <<[ts |-> now, event |-> 0]>> \in Seq(Line)
    BY <1>0 DEF Line
  <2>3. sent' \in Seq(Frames) /\ record' \in Seq(Line)
    BY <1>0, <1>3, <2>1, <2>2, PublishType, WriteLinesType DEF AcceptControl
  <2>. QED BY <1>3, <2>3 DEF BatcherTypeOK, AcceptControl, Line, Accepted
<1>4. ASSUME NEW b \in Boards, NEW l \in Captions, InsertLabel(b, l)
      PROVE  BatcherTypeOK'
  BY <1>4 DEF BatcherTypeOK, InsertLabel, Stages, Accepted
<1>5. CASE BroadcastLabel
  <2>1. announcing \in Boards \X Captions
    BY <1>5 DEF BroadcastLabel, BatcherTypeOK
  <2>2. <<[kind |-> "board", board |-> announcing[1],
           caption |-> announcing[2]]>> \in Seq(Frames)
    BY <2>1 DEF Frames, LabelFrames
  <2>3. sent' \in Seq(Frames)
    BY <1>0, <1>5, <2>2, PublishType DEF BroadcastLabel
  <2>. QED BY <1>5, <2>3 DEF BatcherTypeOK, BroadcastLabel, Stages, Accepted
<1>6. CASE BroadcastBatch
  <2>1. pending \in Seq(Nat)
    <3>1. (1..Accepted) \subseteq Nat
      OBVIOUS
    <3>. QED BY <1>0, <3>1, SeqMonotonic
  <2>2. <<[kind |-> "fly", events |-> pending]>> \in Seq(Frames)
    BY <2>1 DEF Frames, FlyFrames
  <2>3. sent' \in Seq(Frames)
    BY <1>0, <1>6, <2>2, PublishType DEF BroadcastBatch
  <2>. QED BY <1>6, <2>3 DEF BatcherTypeOK, BroadcastBatch, Stages, Accepted
<1>7. CASE CommitBatch
  <2>1. ring \o pending \in Seq(1..Accepted)
    BY <1>0, ConcatProperties
  <2>2. ring' \in Seq(1..Accepted)
    BY <1>7, <2>1, EvictType DEF CommitBatch
  <2>3. record' \in Seq(Line)
    <3>. DEFINE lines == [i \in 1..Len(pending) |->
                            [ts |-> arrived[pending[i]], event |-> pending[i]]]
    <3>1. \A i \in 1..Len(pending) :
            pending[i] \in Nat /\ arrived[pending[i]] \in Nat
      <4>1. \A i \in 1..Len(pending) : pending[i] \in 1..Accepted
        BY <1>0, ElementOfSeq
      <4>2. \A e \in 1..Accepted : arrived[e] \in Nat
        BY <1>0, ElementOfSeq DEF Accepted
      <4>. QED BY <4>1, <4>2
    <3>2. lines \in [1..Len(pending) -> Line]
      BY <3>1 DEF Line
    <3>3. lines \in Seq(Line)
      <4>. DEFINE n == Len(pending)
      <4>1. n \in Nat
        BY <1>0, LenProperties
      <4>. HIDE DEF n, lines, Line
      <4>2. lines \in [1..n -> Line]
        BY <3>2 DEF n
      <4>. QED BY <4>1, <4>2, FunctionIsSeq
    <3>. QED BY <1>0, <1>7, <3>3, WriteLinesType DEF CommitBatch
  <2>. QED BY <1>7, <2>2, <2>3
       DEF BatcherTypeOK, CommitBatch, Stages, Line, Accepted
<1>. QED BY <1>1, <1>2, <1>3, <1>4, <1>5, <1>6, <1>7 DEF Batcher

(***************************************************************************)
(* The steps of a connection leave the batcher's variables alone.          *)
(***************************************************************************)
LEMMA TypeClient ==
  ASSUME TypeOK, NEW c \in Clients,
         Subscribe(c) \/ Follow(c) \/ Disconnect(c)
  PROVE  ClientTypeOK'
<1>. USE FanoutAssumption
<1>0. /\ arrived \in Seq(Nat) /\ sent \in Seq(Frames)
      /\ ring \in Seq(1..Accepted) /\ pending \in Seq(1..Accepted)
      /\ backlog[c] \in Seq(Nat) /\ cursor[c] \in Nat \ {0}
  BY DEF TypeOK, BatcherTypeOK, ClientTypeOK
<1>1. CASE Subscribe(c)
  <2>1. ToSet(pending) \in SUBSET Nat
    <3>1. pending \in Seq(Nat)
      BY <1>0, SeqMonotonic, (1..Accepted) \subseteq Nat
    <3>. QED BY <3>1 DEF ToSet
  <2>2. Len(sent) + 1 \in Nat \ {0} /\ Accepted \in Nat
    BY <1>0 DEF Accepted
  <2>. QED BY <1>1, <2>1, <2>2 DEF TypeOK, ClientTypeOK, Subscribe, Phases
<1>2. CASE ReplayLabels(c)
  BY <1>2 DEF TypeOK, BatcherTypeOK, ClientTypeOK, ReplayLabels, Phases
<1>3. CASE SnapshotRing(c)
  <2>1. ring \in Seq(Nat)
    <3>1. (1..Accepted) \subseteq Nat
      OBVIOUS
    <3>. QED BY <1>0, <3>1, SeqMonotonic
  <2>. QED BY <1>3, <2>1 DEF TypeOK, ClientTypeOK, SnapshotRing, Phases
<1>4. CASE SendChunk(c)
  <2>. DEFINE n == IF Len(backlog[c]) > CHUNK THEN CHUNK ELSE Len(backlog[c])
  <2>1. n \in 0..Len(backlog[c])
    BY <1>0
  <2>2. /\ SubSeq(backlog[c], 1, n) \in Seq(Nat)
        /\ SubSeq(backlog[c], n + 1, Len(backlog[c])) \in Seq(Nat)
    <3>. HIDE DEF n
    <3>. QED BY <1>0, <2>1, CutType
  <2>3. ToSet(SubSeq(backlog[c], 1, n)) \in SUBSET Nat
    <3>. HIDE DEF n
    <3>. QED BY <2>2 DEF ToSet
  <2>. QED BY <1>4, <2>2, <2>3 DEF TypeOK, ClientTypeOK, SendChunk, Phases
<1>5. CASE Recv(c)
  <2>. DEFINE f == sent[cursor[c]]
  <2>1. cursor[c] \in 1..Len(sent) /\ f \in Frames
    <3>1. Len(sent) - cursor[c] + 1 \in 1..CHAN_CAP
      BY <1>5 DEF Recv, Unread
    <3>2. cursor[c] \in 1..Len(sent)
      BY <1>0, <3>1
    <3>. QED BY <1>0, <3>2
  <2>2. /\ f.kind = "fly" => f.events \in Seq(Nat)
        /\ f.kind = "board" => f.board \in Boards /\ f.caption \in Captions
    BY <2>1 DEF Frames, FlyFrames, CtrlFrames, LabelFrames
  <2>3. feed' \in [Clients -> Seq(Nat)]
    BY <1>5, <2>2, ConcatProperties DEF Recv, TypeOK, ClientTypeOK
  <2>4. screen' \in [Clients -> [Boards -> Captions \cup {NoCaption}]]
    BY <1>5, <2>2 DEF Recv, TypeOK, ClientTypeOK
  <2>. QED BY <1>5, <2>3, <2>4 DEF TypeOK, ClientTypeOK, Recv
<1>6. CASE SkipLagged(c)
  <2>1. Len(sent) - CHAN_CAP + 1 \in Nat \ {0}
    BY <1>0, <1>6 DEF SkipLagged, Unread
  <2>. QED BY <1>6, <2>1 DEF TypeOK, ClientTypeOK, SkipLagged
<1>7. CASE Disconnect(c)
  BY <1>7 DEF TypeOK, ClientTypeOK, Disconnect, Phases
<1>. QED BY <1>1, <1>2, <1>3, <1>4, <1>5, <1>6, <1>7 DEF Follow

(* What each kind of step leaves unchanged. *)
LEMMA BatcherFrame == Advance \/ Batcher => UNCHANGED clientVars
BY DEF Advance, Batcher, AcceptFly, AcceptControl, InsertLabel,
       BroadcastLabel, BroadcastBatch, CommitBatch

LEMMA ClientFrame ==
  ASSUME NEW c \in Clients, Subscribe(c) \/ Follow(c) \/ Disconnect(c)
  PROVE  UNCHANGED <<batcherVars, sent>>
BY DEF Subscribe, Follow, ReplayLabels, SnapshotRing, SendChunk, Recv,
       SkipLagged, Disconnect

LEMMA TypeNext == TypeOK /\ [Next]_vars => TypeOK'
<1>. SUFFICES ASSUME TypeOK, [Next]_vars PROVE TypeOK'
  OBVIOUS
<1>1. CASE Advance \/ Batcher
  <2>1. BatcherTypeOK'
    BY <1>1, TypeBatcher DEF TypeOK
  <2>2. ClientTypeOK'
    BY <1>1, BatcherFrame DEF TypeOK, ClientTypeOK, clientVars
  <2>. QED BY <2>1, <2>2 DEF TypeOK
<1>2. ASSUME NEW c \in Clients, Subscribe(c) \/ Follow(c) \/ Disconnect(c)
      PROVE  TypeOK'
  <2>1. ClientTypeOK'
    BY <1>2, TypeClient
  <2>2. BatcherTypeOK'
    BY <1>2, ClientFrame DEF TypeOK, BatcherTypeOK, batcherVars, Accepted
  <2>. QED BY <2>1, <2>2 DEF TypeOK
<1>3. CASE UNCHANGED vars
  BY <1>3 DEF TypeOK, BatcherTypeOK, ClientTypeOK, vars, batcherVars,
              clientVars, Accepted
<1>. QED BY <1>1, <1>2, <1>3 DEF Next

(* Fanout is type correct. *)
THEOREM TypeCorrect == Spec => []TypeOK
BY TypeInit, TypeNext, PTL DEF Spec

-----------------------------------------------------------------------------
(* The hand-over.                                                          *)

(***************************************************************************)
(* A published frame is in the channel of every connection, behind what    *)
(* was there.                                                              *)
(***************************************************************************)
LEMMA PublishReaches ==
  ASSUME sent \in Seq(Frames), NEW fs \in Seq(Frames), Publish(fs),
         NEW c \in Connected, cursor[c] \in Nat \ {0},
         cursor[c] <= Len(sent) + 1, UNCHANGED clientVars
  PROVE  /\ cursor'[c] <= Len(sent') + 1
         /\ Coming(c) \subseteq Coming(c)'
         /\ \A i \in 1..Len(fs) : EventsOf(fs[i]) \subseteq Coming(c)'
<1>1. sent' = sent \o fs /\ cursor' = cursor
  BY DEF Publish, clientVars
<1>2. /\ Len(sent') = Len(sent) + Len(fs)
      /\ \A i \in 1..Len(sent) : sent'[i] = sent[i]
      /\ \A i \in 1..Len(fs) : sent'[Len(sent) + i] = fs[i]
      /\ Len(sent) \in Nat /\ Len(fs) \in Nat
  BY <1>1
<1>3. \A i \in cursor[c]..Len(sent) :
        i \in cursor[c]..Len(sent') /\ sent'[i] = sent[i]
  BY <1>2
<1>4. Coming(c) \subseteq Coming(c)'
  BY <1>1, <1>3 DEF Coming, EventsOf
<1>5. ASSUME NEW i \in 1..Len(fs)
      PROVE  EventsOf(fs[i]) \subseteq Coming(c)'
  <2>1. /\ Len(sent) + i \in cursor[c]..Len(sent')
        /\ sent'[Len(sent) + i] = fs[i]
    <3>1. Len(sent) \in Nat /\ Len(fs) \in Nat /\ cursor[c] \in Nat
      BY <1>2
    <3>2. Len(sent') = Len(sent) + Len(fs) /\ sent'[Len(sent) + i] = fs[i]
      BY <1>2
    <3>. QED BY <3>1, <3>2
  <2>. QED BY <1>1, <2>1 DEF Coming, EventsOf
<1>. QED BY <1>1, <1>2, <1>4, <1>5

(* The same for what a connection knows. *)
LEMMA NothingForgotten ==
  ASSUME NEW c \in Connected, UNCHANGED clientVars,
         Coming(c) \subseteq Coming(c)'
  PROVE  Known(c) \subseteq Known(c)'
BY DEF Known, clientVars

LEMMA HandoverInit == Init => HandoverInv
BY DEF Init, HandoverInv, Connected

LEMMA HandoverBatcher ==
  ASSUME TypeOK, HandoverInv, Advance \/ Batcher
  PROVE  HandoverInv'
<1>. USE FanoutAssumption
<1>0. SUFFICES ASSUME NEW c \in Connected PROVE SessionInv(c)'
  BY BatcherFrame DEF HandoverInv, Connected, clientVars
<1>1. /\ sent \in Seq(Frames) /\ cursor[c] \in Nat \ {0}
      /\ arrived \in Seq(Nat)
      /\ ring \in Seq(1..Accepted) /\ pending \in Seq(1..Accepted)
      /\ joinedAt[c] \in Nat
  BY DEF TypeOK, BatcherTypeOK, ClientTypeOK, Connected
<1>2. SessionInv(c) /\ cursor[c] <= Len(sent) + 1
  BY DEF HandoverInv, SessionInv
<1>3. UNCHANGED clientVars
  BY BatcherFrame
<1>4. CASE /\ Coming(c) \subseteq Coming(c)' /\ cursor'[c] <= Len(sent') + 1
           /\ UNCHANGED <<arrived, pending, ring>>
           /\ stage # "commit" /\ stage' # "commit"
  <2>1. Known(c) \subseteq Known(c)'
    BY <1>3, <1>4, NothingForgotten
  <2>. QED BY <1>2, <1>3, <1>4, <2>1 DEF SessionInv, Accepted, clientVars
<1>5. CASE Advance
  BY <1>2, <1>5 DEF SessionInv, Advance, Coming, Known, Accepted, EventsOf,
                    clientVars
<1>6. ASSUME NEW alarms \in 0..MaxControls, AcceptFly(alarms)
      PROVE  SessionInv(c)'
  <2>1. [i \in 1..alarms |-> CtrlFrame] \in Seq(Frames)
    BY FunctionIsSeq DEF CtrlFrame, Frames, CtrlFrames
  <2>2. Coming(c) \subseteq Coming(c)' /\ cursor'[c] <= Len(sent') + 1
    BY <1>1, <1>2, <1>3, <1>6, <2>1, PublishReaches DEF AcceptFly
  <2>3. Known(c) \subseteq Known(c)'
    BY <1>3, <2>2, NothingForgotten
  <2>4. Accepted' = Accepted + 1 /\ Accepted \in Nat
    BY <1>1, <1>6, AppendProperties DEF AcceptFly, Accepted
  <2>5. ToSet(pending') = ToSet(pending) \cup {Accepted + 1}
    <3>1. pending \in Seq(Nat) /\ Accepted + 1 \in Nat
      BY <1>1, <2>4, SeqMonotonic, (1..Accepted) \subseteq Nat
    <3>. QED BY <1>6, <3>1, ToSetAppend DEF AcceptFly
  <2>6. /\ stage' = stage /\ stage # "commit" /\ ring' = ring
        /\ lagged' = lagged /\ joinedAt' = joinedAt /\ feed' = feed
        /\ phase' = phase /\ straddle' = straddle
    BY <1>3, <1>6 DEF AcceptFly, clientVars
  <2>7. ASSUME ~lagged[c], NEW e \in joinedAt[c] + 1..Accepted + 1
        PROVE  e \in ToSet(feed[c]) \cup Coming(c)' \/ e \in ToSet(pending')
    <3>1. e = Accepted + 1 \/ e \in joinedAt[c] + 1..Accepted
      BY <1>1, <2>4
    <3>. QED BY <1>2, <2>2, <2>5, <2>7, <3>1 DEF SessionInv
  <2>8. ~lagged[c] /\ phase[c] \in {"backfill", "live"} =>
          ToSet(ring) \subseteq Known(c)' \cup straddle[c]
    BY <1>2, <2>3 DEF SessionInv
  <2>. QED BY <2>2, <2>4, <2>6, <2>7, <2>8 DEF SessionInv
<1>7. CASE AcceptControl
  <2>1. <<CtrlFrame>> \in Seq(Frames)
    BY DEF CtrlFrame, Frames, CtrlFrames
  <2>2. Coming(c) \subseteq Coming(c)' /\ cursor'[c] <= Len(sent') + 1
    BY <1>1, <1>2, <1>3, <1>7, <2>1, PublishReaches DEF AcceptControl
  <2>. QED BY <1>4, <1>7, <2>2 DEF AcceptControl
<1>8. ASSUME NEW b \in Boards, NEW l \in Captions, InsertLabel(b, l)
      PROVE  SessionInv(c)'
  BY <1>2, <1>8 DEF SessionInv, InsertLabel, Coming, Known, Accepted, EventsOf,
                    clientVars
<1>9. CASE BroadcastLabel
  <2>. DEFINE f == [kind |-> "board", board |-> announcing[1],
                    caption |-> announcing[2]]
  <2>1. <<f>> \in Seq(Frames)
    <3>1. announcing \in Boards \X Captions
      BY <1>9 DEF BroadcastLabel, TypeOK, BatcherTypeOK
    <3>. QED BY <3>1 DEF Frames, LabelFrames
  <2>2. Coming(c) \subseteq Coming(c)' /\ cursor'[c] <= Len(sent') + 1
    BY <1>1, <1>2, <1>3, <1>9, <2>1, PublishReaches DEF BroadcastLabel
  <2>. QED BY <1>4, <1>9, <2>2 DEF BroadcastLabel
<1>10. CASE BroadcastBatch
  <2>. DEFINE f == [kind |-> "fly", events |-> pending]
  <2>1. <<f>> \in Seq(Frames) /\ Len(<<f>>) = 1 /\ <<f>>[1] = f
    <3>1. pending \in Seq(Nat)
      BY <1>1, SeqMonotonic, (1..Accepted) \subseteq Nat
    <3>. QED BY <3>1 DEF Frames, FlyFrames
  <2>2. /\ Coming(c) \subseteq Coming(c)' /\ cursor'[c] <= Len(sent') + 1
        /\ EventsOf(f) \subseteq Coming(c)'
    <3>1. Publish(<<f>>)
      BY <1>10 DEF BroadcastBatch
    <3>. HIDE DEF f
    <3>2. /\ Coming(c) \subseteq Coming(c)' /\ cursor'[c] <= Len(sent') + 1
          /\ \A i \in 1..Len(<<f>>) : EventsOf(<<f>>[i]) \subseteq Coming(c)'
      BY <1>1, <1>2, <1>3, <2>1, <3>1, PublishReaches
    <3>. QED BY <2>1, <3>2
  <2>3. ToSet(pending) \subseteq Coming(c)'
    BY <2>2 DEF EventsOf
  <2>4. Known(c) \subseteq Known(c)' /\ Coming(c)' \subseteq Known(c)'
    BY <1>3, <2>2, NothingForgotten DEF Known
  <2>. QED BY <1>2, <1>3, <1>10, <2>2, <2>3, <2>4
           DEF SessionInv, BroadcastBatch, Accepted, clientVars
<1>11. CASE CommitBatch
  <2>1. ToSet(ring') \subseteq ToSet(ring) \cup ToSet(pending)
    <3>1. ring \o pending \in Seq(1..Accepted)
      BY <1>1, ConcatProperties
    <3>2. ToSet(ring') \subseteq ToSet(ring \o pending)
      BY <1>11, <3>1, EvictType DEF CommitBatch
    <3>. QED BY <1>1, <3>2, ToSetConcat
  <2>2. Coming(c)' = Coming(c) /\ Known(c)' = Known(c)
    BY <1>11 DEF CommitBatch, Coming, Known, EventsOf, clientVars
  <2>3. /\ stage = "commit" /\ stage' = "select" /\ Accepted' = Accepted
        /\ UNCHANGED <<cursor, lagged, joinedAt, feed, phase, straddle, sent>>
    BY <1>11 DEF CommitBatch, Accepted, clientVars
  <2>4. ToSet(feed[c]) \cup Coming(c) \subseteq Known(c)
    BY DEF Known
  <2>. QED BY <1>2, <2>1, <2>2, <2>3, <2>4 DEF SessionInv
<1>. QED BY <1>5, <1>6, <1>7, <1>8, <1>9, <1>10, <1>11 DEF Batcher

(***************************************************************************)
(* A step of one connection: those of the others see nothing of it, and    *)
(* its own moves what it knows from one place to another.                  *)
(***************************************************************************)
LEMMA OthersUndisturbed ==
  ASSUME TypeOK, NEW c \in Clients,
         Subscribe(c) \/ Follow(c) \/ Disconnect(c),
         NEW d \in Clients, d # c, SessionInv(d)
  PROVE  SessionInv(d)' /\ (d \in Connected' <=> d \in Connected)
<1>1. UNCHANGED <<arrived, pending, ring, stage, sent>>
  BY ClientFrame DEF batcherVars
<1>2. /\ phase'[d] = phase[d] /\ cursor'[d] = cursor[d]
      /\ lagged'[d] = lagged[d] /\ backlog'[d] = backlog[d]
      /\ refilled'[d] = refilled[d] /\ feed'[d] = feed[d]
      /\ joinedAt'[d] = joinedAt[d] /\ straddle'[d] = straddle[d]
  BY DEF TypeOK, ClientTypeOK, Subscribe, Follow, ReplayLabels, SnapshotRing,
         SendChunk, Recv, SkipLagged, Disconnect
<1>3. Coming(d)' = Coming(d) /\ Known(d)' = Known(d)
  BY <1>1, <1>2 DEF Coming, Known, EventsOf
<1>. QED BY <1>1, <1>2, <1>3 DEF SessionInv, Accepted, Connected

LEMMA HandoverClient ==
  ASSUME TypeOK, HandoverInv, NEW c \in Clients,
         Subscribe(c) \/ Follow(c) \/ Disconnect(c)
  PROVE  HandoverInv'
<1>. USE FanoutAssumption
<1>1. ASSUME NEW d \in Connected', d # c PROVE SessionInv(d)'
  <2>1. d \in Clients /\ phase'[d] = phase[d]
    BY <1>1 DEF Connected, TypeOK, ClientTypeOK, Subscribe, Follow,
         ReplayLabels, SnapshotRing, SendChunk, Recv, SkipLagged, Disconnect
  <2>2. SessionInv(d)
    BY <1>1, <2>1 DEF HandoverInv, Connected
  <2>. QED BY <1>1, <2>1, <2>2, OthersUndisturbed
<1>2. /\ UNCHANGED <<arrived, pending, ring, stage, sent>>
      /\ Accepted' = Accepted
  BY ClientFrame DEF batcherVars, Accepted
<1>3. /\ sent \in Seq(Frames) /\ cursor[c] \in Nat \ {0}
      /\ arrived \in Seq(Nat) /\ ring \in Seq(Nat) /\ pending \in Seq(Nat)
      /\ backlog[c] \in Seq(Nat) /\ feed[c] \in Seq(Nat)
      /\ cursor \in [Clients -> Nat \ {0}] /\ joinedAt \in [Clients -> Nat]
      /\ straddle \in [Clients -> SUBSET Nat]
      /\ phase \in [Clients -> Phases] /\ lagged \in [Clients -> BOOLEAN]
      /\ backlog \in [Clients -> Seq(Nat)] /\ feed \in [Clients -> Seq(Nat)]
      /\ refilled \in [Clients -> SUBSET Nat]
  <2>1. (1..Accepted) \subseteq Nat
    OBVIOUS
  <2>. QED BY <2>1, SeqMonotonic DEF TypeOK, BatcherTypeOK, ClientTypeOK
<1>4. CASE Subscribe(c)
  <2>1. /\ cursor'[c] = Len(sent) + 1 /\ joinedAt'[c] = Accepted
        /\ phase'[c] = "subscribed"
        /\ stage = "commit" => straddle'[c] = ToSet(pending)
    BY <1>3, <1>4 DEF Subscribe
  <2>2. Accepted \in Nat
    BY <1>3 DEF Accepted
  <2>. QED BY <1>2, <2>1, <2>2, <1>1 DEF SessionInv, HandoverInv
<1>5. CASE Disconnect(c)
  <2>1. phase'[c] = "off"
    BY <1>3, <1>5 DEF Disconnect
  <2>. QED BY <1>1, <2>1 DEF HandoverInv, Connected
<1>6. CASE Follow(c)
  <2>1. phase[c] # "off" /\ c \in Connected
    BY <1>6 DEF Follow, ReplayLabels, SnapshotRing, SendChunk, Recv,
                SkipLagged, Connected
  <2>2. SessionInv(c)
    BY <2>1 DEF HandoverInv
  <2>3. CASE ReplayLabels(c)
    <3>1. /\ UNCHANGED <<cursor, lagged, backlog, refilled, feed, joinedAt, straddle>>
          /\ phase'[c] = "labelled"
      BY <1>3, <2>3 DEF ReplayLabels
    <3>2. Coming(c)' = Coming(c) /\ Known(c)' = Known(c)
      BY <1>2, <3>1 DEF Coming, Known, EventsOf
    <3>. QED BY <1>1, <1>2, <2>2, <3>1, <3>2 DEF SessionInv, HandoverInv
  <2>4. CASE SnapshotRing(c)
    <3>1. /\ UNCHANGED <<cursor, lagged, refilled, feed, joinedAt, straddle>>
          /\ backlog'[c] = ring
      BY <1>3, <2>4 DEF SnapshotRing
    <3>2. Coming(c)' = Coming(c)
      BY <1>2, <3>1 DEF Coming, EventsOf
    <3>. QED BY <1>1, <1>2, <2>2, <3>1, <3>2 DEF SessionInv, HandoverInv, Known
  <2>5. CASE SendChunk(c)
    <3>. DEFINE n == IF Len(backlog[c]) > CHUNK THEN CHUNK
                                               ELSE Len(backlog[c])
    <3>1. /\ UNCHANGED <<cursor, lagged, feed, joinedAt, straddle>>
          /\ refilled'[c] = refilled[c] \cup ToSet(SubSeq(backlog[c], 1, n))
          /\ backlog'[c] = SubSeq(backlog[c], n + 1, Len(backlog[c]))
          /\ phase[c] \in {"backfill", "live"}
      BY <1>3, <2>5 DEF SendChunk
    <3>2. ToSet(backlog[c]) = ToSet(SubSeq(backlog[c], 1, n)) \cup
                               ToSet(backlog'[c])
      BY <1>3, <3>1, ToSetSplit, n \in 0..Len(backlog[c])
    <3>3. Coming(c)' = Coming(c) /\ Known(c)' = Known(c)
      BY <1>2, <3>1, <3>2 DEF Coming, Known, EventsOf
    <3>. QED BY <1>1, <1>2, <2>2, <3>1, <3>3 DEF SessionInv, HandoverInv
  <2>6. CASE Recv(c)
    <3>. DEFINE f == sent[cursor[c]]
    <3>1. /\ UNCHANGED <<phase, lagged, backlog, refilled, joinedAt, straddle>>
          /\ cursor'[c] = cursor[c] + 1
          /\ feed'[c] = IF f.kind = "fly" THEN feed[c] \o f.events ELSE feed[c]
      BY <1>3, <2>6 DEF Recv
    <3>2. cursor[c] \in 1..Len(sent) /\ f \in Frames
      <4>1. Len(sent) - cursor[c] + 1 \in 1..CHAN_CAP
        BY <2>6 DEF Recv, Unread
      <4>2. cursor[c] \in 1..Len(sent)
        BY <1>3, <4>1
      <4>. QED BY <1>3, <4>2
    <3>3. ToSet(feed'[c]) = ToSet(feed[c]) \cup EventsOf(f)
      <4>1. f.kind = "fly" => f.events \in Seq(Nat)
        BY <3>2 DEF Frames, FlyFrames, CtrlFrames, LabelFrames
      <4>. QED BY <1>3, <3>1, <4>1, ToSetConcat DEF EventsOf
    <3>4. Coming(c) = EventsOf(f) \cup Coming(c)'
      <4>1. cursor[c]..Len(sent) = {cursor[c]} \cup cursor[c] + 1..Len(sent)
        BY <1>3, <3>2
      <4>. QED BY <1>2, <3>1, <4>1 DEF Coming, EventsOf
    <3>5. Known(c)' = Known(c)
      BY <3>1, <3>3, <3>4 DEF Known
    <3>6. cursor'[c] <= Len(sent') + 1
      BY <1>2, <1>3, <3>1, <3>2
    <3>. QED BY <1>1, <1>2, <2>2, <3>1, <3>3, <3>4, <3>5, <3>6
             DEF SessionInv, HandoverInv
  <2>7. CASE SkipLagged(c)
    <3>1. lagged'[c] /\ cursor'[c] = Len(sent) - CHAN_CAP + 1
      BY <1>3, <2>7 DEF SkipLagged
    <3>2. cursor'[c] <= Len(sent') + 1
      BY <1>2, <1>3, <3>1
    <3>. QED BY <1>1, <3>1, <3>2 DEF SessionInv, HandoverInv
  <2>. QED BY <1>6, <2>3, <2>4, <2>5, <2>6, <2>7 DEF Follow
<1>. QED BY <1>4, <1>5, <1>6

LEMMA HandoverNext == TypeOK /\ HandoverInv /\ [Next]_vars => HandoverInv'
<1>. SUFFICES ASSUME TypeOK, HandoverInv, [Next]_vars PROVE HandoverInv'
  OBVIOUS
<1>1. CASE UNCHANGED vars
  BY <1>1 DEF HandoverInv, SessionInv, Connected, Known, Coming, EventsOf,
              Accepted, vars, batcherVars, clientVars
<1>. QED BY <1>1, HandoverBatcher, HandoverClient DEF Next

(* The inductive form of the hand-over holds. *)
THEOREM Handover == Spec => []HandoverInv
<1>1. Init => HandoverInv
  BY HandoverInit
<1>. QED BY <1>1, HandoverNext, TypeCorrect, PTL DEF Spec

(***************************************************************************)
(* A connection that has not lagged misses nothing accepted after it       *)
(* subscribed.                                                             *)
(***************************************************************************)
THEOREM NothingMissed == Spec => []NothingMissedSinceJoin
<1>1. HandoverInv => NothingMissedSinceJoin
  BY DEF HandoverInv, SessionInv, NothingMissedSinceJoin
<1>. QED BY <1>1, Handover, PTL

(***************************************************************************)
(* Of what the ring holds, a connection that has not lagged misses at most *)
(* the one batch whose flush its subscription fell into.                   *)
(***************************************************************************)
THEOREM AtMostOneBatchMissed == Spec => []OnlyStraddledBatchMissed
<1>1. HandoverInv => OnlyStraddledBatchMissed
  BY DEF HandoverInv, SessionInv, OnlyStraddledBatchMissed
<1>. QED BY <1>1, Handover, PTL

-----------------------------------------------------------------------------
(* The rewind window.                                                      *)

LEMMA WindowInit == Init => WindowInv
<1>. SUFFICES ASSUME Init PROVE WindowInv
  OBVIOUS
<1>1. arrived = <<>> /\ ring = <<>> /\ pending = <<>> /\ Accepted = 0
  BY DEF Init, Accepted
<1>. QED BY <1>1 DEF WindowInv, TailOfAccepted, ArrivalOrder, EvictedRightly

(***************************************************************************)
(* The events held are the numbers above some bound, in order.             *)
(***************************************************************************)
LEMMA HeldNumbers ==
  ASSUME BatcherTypeOK, TailOfAccepted
  PROVE  LET held == ring \o pending
         IN  /\ held \in Seq(1..Accepted)
             /\ Len(held) = Len(ring) + Len(pending)
             /\ Len(held) \in 0..Accepted
             /\ \A i \in 1..Len(held) :
                  held[i] = Accepted - Len(held) + i /\ held[i] \in 1..Accepted
<1>. DEFINE held == ring \o pending
<1>1. ring \in Seq(1..Accepted) /\ pending \in Seq(1..Accepted)
      /\ Accepted \in Nat
  BY DEF BatcherTypeOK, Accepted
<1>2. held \in Seq(1..Accepted) /\ Len(held) = Len(ring) + Len(pending)
  BY <1>1, ConcatProperties
<1>3. \A i \in 1..Len(held) : held[i] = Accepted - Len(held) + i
  BY DEF TailOfAccepted
<1>4. Len(held) \in Nat /\ \A i \in 1..Len(held) : held[i] \in 1..Accepted
  <2>1. Len(ring) \in Nat /\ Len(pending) \in Nat
    BY <1>1
  <2>2. ASSUME NEW i \in 1..Len(held) PROVE held[i] \in 1..Accepted
    BY <1>2, ElementOfSeq
  <2>. QED BY <1>2, <2>1, <2>2
<1>5. Len(held) <= Accepted
  <2>1. CASE Len(held) = 0
    BY <1>1, <2>1
  <2>2. CASE Len(held) # 0
    <3>1. 1 \in 1..Len(held)
      BY <1>4, <2>2
    <3>2. held[1] \in 1..Accepted /\ held[1] = Accepted - Len(held) + 1
      BY <1>3, <1>4, <3>1
    <3>. QED BY <1>1, <1>4, <3>2
  <2>. QED BY <2>1, <2>2
<1>. QED BY <1>1, <1>2, <1>3, <1>4, <1>5

(***************************************************************************)
(* A commit keeps exactly the window, and what it drops it may drop.       *)
(***************************************************************************)
LEMMA CommitKeepsWindow ==
  ASSUME BatcherTypeOK, WindowInv, CommitBatch
  PROVE  /\ TailOfAccepted'
         /\ EvictedRightly'
         /\ ToSet(ring') = {e \in 1..Accepted : /\ arrived[e] >= Cutoff
                                               /\ e > Accepted - RING_CAP}
<1>. USE FanoutAssumption
<1>. DEFINE held == ring \o pending
<1>1. /\ held \in Seq(1..Accepted) /\ Len(held) \in 0..Accepted
      /\ Len(held) = Len(ring) + Len(pending)
      /\ \A i \in 1..Len(held) :
           held[i] = Accepted - Len(held) + i /\ held[i] \in 1..Accepted
  BY HeldNumbers DEF WindowInv
<1>2. /\ ring' = Evict(held) /\ pending' = <<>> /\ arrived' = arrived
      /\ now' = now
  BY DEF CommitBatch
<1>3. /\ arrived \in Seq(Nat) /\ Accepted = Len(arrived) /\ now \in Nat
      /\ Accepted \in Nat /\ Cutoff \in Nat /\ Cutoff' = Cutoff
      /\ Accepted' = Accepted
  BY <1>2 DEF BatcherTypeOK, Accepted, Cutoff
<1>. HIDE DEF held
<1>4. PICK k \in 1..Len(held) + 1 :
        /\ Evict(held) = SubSeq(held, k, Len(held))
        /\ MayStayInFront(held, k)
        /\ \A j \in 1..k-1 : ~MayStayInFront(held, j)
  BY <1>1, EvictStops
<1>5. /\ Len(ring') = Len(held) - k + 1
      /\ \A i \in 1..Len(ring') : ring'[i] = Accepted - Len(held) + k + i - 1
      /\ ring' \in Seq(1..Accepted)
  <2>1. \A i \in k..Len(held) : held[i] \in 1..Accepted
    BY <1>1
  <2>2. /\ ring' \in Seq(1..Accepted)
        /\ Len(ring') = IF k <= Len(held) THEN Len(held) - k + 1 ELSE 0
        /\ \A i \in 1..Len(held) - k + 1 : ring'[i] = held[k + i - 1]
    BY <1>1, <1>2, <1>4, <2>1, SubSeqProperties
  <2>3. Len(ring') = Len(held) - k + 1
    BY <1>1, <2>2
  <2>4. ASSUME NEW i \in 1..Len(ring')
        PROVE  ring'[i] = Accepted - Len(held) + k + i - 1
    <3>1. k + i - 1 \in 1..Len(held)
      BY <1>1, <2>3
    <3>2. held[k + i - 1] = Accepted - Len(held) + (k + i - 1)
      BY <1>1, <3>1
    <3>. QED BY <1>1, <1>3, <2>2, <2>3, <3>2
  <2>. QED BY <2>2, <2>3, <2>4
<1>6. TailOfAccepted'
  <2>1. ring' \o pending' = ring'
    BY <1>2, <1>5
  <2>2. \A i \in 1..Len(ring') :
          ring'[i] = Accepted - Len(ring') + i
    <3>1. Len(held) \in Nat /\ Accepted \in Nat
      BY <1>1, <1>3
    <3>. QED BY <1>5, <3>1
  <2>. QED BY <1>3, <2>1, <2>2 DEF TailOfAccepted
<1>7. ASSUME NEW e \in 1..Accepted - Len(held) + k - 1
      PROVE  arrived[e] < Cutoff \/ e <= Accepted - RING_CAP
  <2>1. CASE e <= Accepted - Len(held)
    <3>1. \/ arrived[e] < Cutoff
          \/ e <= Accepted - Len(pending) - RING_CAP
      <4>1. e \in 1..Accepted - Len(ring) - Len(pending)
        <5>1. Len(ring) \in Nat /\ Len(pending) \in Nat
          BY DEF BatcherTypeOK
        <5>. QED BY <1>1, <1>3, <2>1, <5>1
      <4>. QED BY <4>1 DEF WindowInv, EvictedRightly
    <3>2. Len(pending) \in Nat
      BY DEF BatcherTypeOK
    <3>. QED BY <1>3, <3>1, <3>2
  <2>2. CASE e > Accepted - Len(held)
    <3>. DEFINE j == e - (Accepted - Len(held))
    <3>0. Len(held) \in Nat /\ Accepted \in Nat /\ k \in 1..Len(held) + 1
      BY <1>1, <1>3
    <3>1. j \in 1..k-1 /\ j \in 1..Len(held)
      <4>. HIDE DEF held
      <4>. QED BY <2>2, <3>0
    <3>2. held[j] = e
      BY <1>1, <1>3, <3>1
    <3>3. Len(held) - j + 1 > RING_CAP \/ ~(arrived[e] >= Cutoff)
      <4>1. ~MayStayInFront(held, j) /\ j <= Len(held)
        BY <1>4, <3>0, <3>1
      <4>. HIDE DEF held, j
      <4>2. j \in Nat /\ RING_CAP \in Nat
        BY <3>1
      <4>3. Len(held) - j + 1 > RING_CAP \/ ~(arrived[held[j]] >= Cutoff)
        BY <3>0, <4>1, <4>2 DEF MayStayInFront
      <4>. QED BY <3>2, <4>3
    <3>4. arrived[e] \in Nat
      BY <1>1, <1>3
    <3>5. Len(held) - j + 1 = Accepted - e + 1
      <4>. HIDE DEF held
      <4>. QED BY <3>0
    <3>6. CASE ~(arrived[e] >= Cutoff)
      BY <1>3, <3>4, <3>6
    <3>7. CASE Len(held) - j + 1 > RING_CAP
      <4>1. RING_CAP \in Nat
        OBVIOUS
      <4>. HIDE DEF held, j
      <4>. QED BY <3>0, <3>5, <3>7, <4>1
    <3>. QED BY <3>3, <3>6, <3>7
  <2>. QED BY <1>1, <1>3, <2>1, <2>2
<1>8. ASSUME NEW e \in Accepted - Len(held) + k..Accepted
      PROVE  arrived[e] >= Cutoff /\ e > Accepted - RING_CAP /\ e \in 1..Accepted
  <2>1. k \in 1..Len(held) /\ e \in 1..Accepted
    BY <1>1, <1>3
  <2>2. /\ held[k] = Accepted - Len(held) + k /\ held[k] \in 1..Accepted
        /\ Len(held) - k + 1 <= RING_CAP
        /\ arrived[held[k]] >= Cutoff
    BY <1>1, <1>4, <2>1 DEF MayStayInFront
  <2>3. arrived[held[k]] <= arrived[e]
    BY <1>1, <1>3, <2>1, <2>2 DEF WindowInv, ArrivalOrder
  <2>4. arrived[held[k]] \in Nat /\ arrived[e] \in Nat
    <3>1. \A d \in 1..Accepted : arrived[d] \in Nat
      BY <1>3, ElementOfSeq
    <3>. QED BY <2>1, <2>2, <3>1
  <2>5. arrived[e] >= Cutoff
    <3>1. Cutoff \in Nat
      BY <1>3
    <3>. DEFINE front == arrived[held[k]]
    <3>2. front >= Cutoff /\ front <= arrived[e] /\ front \in Nat
      BY <2>2, <2>3, <2>4
    <3>. HIDE DEF front
    <3>. QED BY <2>4, <3>1, <3>2
  <2>6. e > Accepted - RING_CAP
    <3>1. Len(held) \in Nat /\ Accepted \in Nat /\ RING_CAP \in Nat
      BY <1>1, <1>3
    <3>. QED BY <2>1, <2>2, <3>1
  <2>. QED BY <2>1, <2>5, <2>6
<1>9. EvictedRightly'
  <2>1. Accepted' - Len(ring') - Len(pending') = Accepted - Len(held) + k - 1
    BY <1>1, <1>2, <1>3, <1>5
  <2>2. Accepted' - Len(pending') - RING_CAP = Accepted - RING_CAP
    BY <1>2, <1>3
  <2>. QED BY <1>2, <1>3, <1>7, <2>1, <2>2 DEF EvictedRightly
<1>10. ToSet(ring') = Accepted - Len(held) + k..Accepted
  <2>. DEFINE first == Accepted - Len(held) + k
              n == Len(ring')
  <2>1. /\ first \in Nat /\ n \in Nat /\ Accepted = first + n - 1
        /\ \A i \in 1..n : ring'[i] = first + i - 1
        /\ DOMAIN ring' = 1..n
    <3>1. Len(held) \in Nat /\ Accepted \in Nat /\ k \in Nat
      BY <1>1, <1>3
    <3>. QED BY <1>1, <1>5, <3>1
  <2>2. ToSet(ring') = {ring'[i] : i \in 1..n}
    BY <2>1 DEF ToSet
  <2>. HIDE DEF first, n
  <2>3. ASSUME NEW x \in first..Accepted PROVE x \in ToSet(ring')
    <3>1. x - first + 1 \in 1..n /\ ring'[x - first + 1] = x
      BY <2>1
    <3>. QED BY <2>2, <3>1
  <2>4. ASSUME NEW i \in 1..n PROVE ring'[i] \in first..Accepted
    BY <2>1
  <2>5. ToSet(ring') = first..Accepted
    BY <2>2, <2>3, <2>4
  <2>. QED BY <2>5 DEF first
<1>11. ToSet(ring') = {e \in 1..Accepted : /\ arrived[e] >= Cutoff
                                          /\ e > Accepted - RING_CAP}
  <2>1. ASSUME NEW e \in 1..Accepted, arrived[e] >= Cutoff,
               e > Accepted - RING_CAP
        PROVE  e \in Accepted - Len(held) + k..Accepted
    <3>1. arrived[e] \in Nat
      BY <1>3
    <3>2. ~(e \in 1..Accepted - Len(held) + k - 1)
      BY <1>3, <1>7, <2>1, <3>1, SMTT(30)
    <3>. QED BY <1>1, <1>3, <3>2
  <2>. QED BY <1>8, <1>10, <2>1
<1>. QED BY <1>6, <1>9, <1>11

LEMMA WindowNext ==
  BatcherTypeOK /\ WindowInv /\ [Next]_vars => WindowInv'
<1>. SUFFICES ASSUME BatcherTypeOK, WindowInv, [Next]_vars PROVE WindowInv'
  OBVIOUS
<1>. USE FanoutAssumption
<1>0. /\ arrived \in Seq(Nat) /\ now \in Nat /\ Accepted = Len(arrived)
      /\ ring \in Seq(1..Accepted) /\ pending \in Seq(1..Accepted)
  BY DEF BatcherTypeOK, Accepted
<1>1. CASE UNCHANGED <<now, arrived, ring, pending>>
  BY <1>1 DEF WindowInv, TailOfAccepted, ArrivalOrder, EvictedRightly,
              Accepted, Cutoff
<1>2. CASE Advance
  <2>1. UNCHANGED <<arrived, ring, pending>> /\ now' = now + 1
        /\ Accepted' = Accepted
    BY <1>2 DEF Advance, Accepted
  <2>2. Cutoff <= Cutoff' /\ Cutoff \in Nat /\ Cutoff' \in Nat
    BY <1>0, <2>1 DEF Cutoff
  <2>3. ArrivalOrder'
    BY <1>0, <2>1 DEF WindowInv, ArrivalOrder
  <2>4. EvictedRightly'
    <3>1. ASSUME NEW e \in 1..Accepted - Len(ring) - Len(pending)
          PROVE  arrived[e] \in Nat
      <4>1. e \in 1..Len(arrived)
        <5>1. Len(ring) \in Nat /\ Len(pending) \in Nat
          BY <1>0
        <5>. QED BY <1>0, <5>1
      <4>. QED BY <1>0, <4>1
    <3>. QED BY <2>1, <2>2, <3>1 DEF WindowInv, EvictedRightly
  <2>. QED BY <2>1, <2>3, <2>4 DEF WindowInv, TailOfAccepted
<1>3. ASSUME NEW alarms \in 0..MaxControls, AcceptFly(alarms)
      PROVE  WindowInv'
  <2>1. /\ UNCHANGED <<now, ring>> /\ Cutoff' = Cutoff
        /\ arrived' = Append(arrived, now)
        /\ pending' = Append(pending, Accepted + 1)
    BY <1>3 DEF AcceptFly, Cutoff
  <2>2. /\ Accepted' = Accepted + 1 /\ Accepted \in Nat
        /\ \A e \in 1..Accepted : arrived'[e] = arrived[e]
        /\ arrived'[Accepted + 1] = now
    BY <1>0, <2>1, AppendProperties DEF Accepted
  <2>3. /\ pending \in Seq(Nat) /\ ring \in Seq(Nat)
        /\ Accepted + 1 \in Nat
    BY <1>0, <2>2, SeqMonotonic, (1..Accepted) \subseteq Nat
  <2>4. /\ Len(pending') = Len(pending) + 1 /\ Len(pending) \in Nat
        /\ Len(ring) \in Nat
    BY <2>1, <2>3, AppendProperties
  <2>5. ArrivalOrder'
    <3>1. ASSUME NEW d \in 1..Accepted', NEW e \in 1..Accepted', d <= e
          PROVE  arrived'[d] <= arrived'[e] /\ arrived'[e] <= now'
      <4>1. CASE e = Accepted + 1
        <5>1. arrived'[d] <= now
          <6>1. CASE d = Accepted + 1
            BY <1>0, <2>2, <6>1
          <6>2. CASE d \in 1..Accepted
            BY <2>2, <6>2 DEF WindowInv, ArrivalOrder
          <6>. QED BY <2>2, <6>1, <6>2
        <5>. QED BY <1>0, <2>1, <2>2, <4>1, <5>1
      <4>2. CASE e \in 1..Accepted
        <5>1. d \in 1..Accepted
          BY <2>2, <3>1, <4>2
        <5>. QED BY <2>1, <2>2, <3>1, <4>2, <5>1 DEF WindowInv, ArrivalOrder
      <4>. QED BY <2>2, <4>1, <4>2
    <3>. QED BY <2>2, <3>1 DEF ArrivalOrder
  <2>6. TailOfAccepted'
    <3>. DEFINE held == ring \o pending
    <3>1. /\ held \in Seq(Nat) /\ Len(held) \in Nat
          /\ \A i \in 1..Len(held) : held[i] = Accepted - Len(held) + i
      <4>1. held \in Seq(Nat)
        BY <2>3, ConcatProperties
      <4>. QED BY <4>1 DEF WindowInv, TailOfAccepted
    <3>2. ring' \o pending' = Append(held, Accepted + 1)
      <4>1. ring' \o pending' = ring \o Append(pending, Accepted + 1)
        BY <2>1
      <4>2. ring \o Append(pending, Accepted + 1)
              = Append(ring \o pending, Accepted + 1)
        BY <2>3, SMTT(30)
      <4>. QED BY <4>1, <4>2
    <3>. HIDE DEF held
    <3>3. /\ Len(Append(held, Accepted + 1)) = Len(held) + 1
          /\ \A i \in 1..Len(held) : Append(held, Accepted + 1)[i] = held[i]
          /\ Append(held, Accepted + 1)[Len(held) + 1] = Accepted + 1
      BY <2>3, <3>1, AppendProperties
    <3>4. ASSUME NEW i \in 1..Len(held) + 1
          PROVE  Append(held, Accepted + 1)[i] =
                   Accepted + 1 - (Len(held) + 1) + i
      <4>1. i = Len(held) + 1 \/ i \in 1..Len(held)
        BY <3>1
      <4>. QED BY <2>2, <3>1, <3>3, <4>1
    <3>. QED BY <2>2, <3>2, <3>3, <3>4 DEF TailOfAccepted
  <2>7. EvictedRightly'
    <3>1. /\ Accepted' - Len(ring') - Len(pending') =
               Accepted - Len(ring) - Len(pending)
          /\ Accepted' - Len(pending') - RING_CAP =
               Accepted - Len(pending) - RING_CAP
      BY <2>1, <2>2, <2>4
    <3>2. \A e \in 1..Accepted - Len(ring) - Len(pending) : e \in 1..Accepted
      BY <2>2, <2>4
    <3>. QED BY <2>1, <2>2, <3>1, <3>2 DEF WindowInv, EvictedRightly
  <2>. QED BY <2>5, <2>6, <2>7 DEF WindowInv
<1>4. CASE CommitBatch
  <2>1. TailOfAccepted' /\ EvictedRightly'
    BY <1>4, CommitKeepsWindow
  <2>2. ArrivalOrder'
    BY <1>4 DEF CommitBatch, WindowInv, ArrivalOrder, Accepted
  <2>. QED BY <2>1, <2>2 DEF WindowInv
<1>. QED BY <1>1, <1>2, <1>3, <1>4
         DEF Next, Batcher, Follow, AcceptControl, InsertLabel, BroadcastLabel,
             BroadcastBatch, Subscribe, ReplayLabels, SnapshotRing, SendChunk,
             Recv, SkipLagged, Disconnect, vars, batcherVars

(* The inductive form of the window holds. *)
THEOREM Window == Spec => []WindowInv
<1>1. Init => WindowInv
  BY WindowInit
<1>2. TypeOK => BatcherTypeOK
  BY DEF TypeOK
<1>. QED BY <1>1, <1>2, WindowNext, TypeCorrect, PTL DEF Spec

(***************************************************************************)
(* The ring and the pending batch are together the tail of what was        *)
(* accepted.                                                               *)
(***************************************************************************)
THEOREM HeldIsTail == Spec => []TailOfAccepted
<1>1. WindowInv => TailOfAccepted
  BY DEF WindowInv
<1>. QED BY <1>1, Window, PTL

(***************************************************************************)
(* After every flush the ring is exactly the rewind window.                *)
(***************************************************************************)
THEOREM RingWindow == Spec => RingIsTheWindow
<1>1. BatcherTypeOK /\ WindowInv /\ [Next]_vars =>
        [CommitBatch =>
           /\ ToSet(ring') = {e \in 1..Accepted : /\ arrived[e] >= Cutoff
                                                  /\ e > Accepted - RING_CAP}
           /\ TailOfAccepted']_vars
  BY CommitKeepsWindow
<1>2. TypeOK => BatcherTypeOK
  BY DEF TypeOK
<1>. QED BY <1>1, <1>2, Window, TypeCorrect, PTL DEF Spec, RingIsTheWindow

-----------------------------------------------------------------------------
(* The back-fill.                                                          *)

(* Nothing is filled before the snapshot.                                  *)
NotYetFilled ==
  \A c \in Clients : phase[c] \in {"off", "subscribed", "labelled"} =>
    refilled[c] = {} /\ backlog[c] = <<>>

BackfillInv == BackfillIsOneWindow /\ NotYetFilled

LEMMA BackfillInit == Init => BackfillInv
<1>. SUFFICES ASSUME Init PROVE BackfillInv
  OBVIOUS
<1>1. /\ ring = <<>> /\ refilled = [c \in Clients |-> {}]
      /\ backlog = [c \in Clients |-> <<>>]
  BY DEF Init
<1>2. ToSet(<<>>) = {}
  BY DEF ToSet
<1>. QED BY <1>1, <1>2 DEF BackfillInv, BackfillIsOneWindow, NotYetFilled,
                          OneWindow

LEMMA PartOfWindow ==
  ASSUME NEW S, OneWindow(S), NEW T, T \subseteq S
  PROVE  OneWindow(T)
BY DEF OneWindow

(* What arrives later does not change the times of what is there.          *)
LEMMA WindowStays ==
  ASSUME BatcherTypeOK, NEW S, OneWindow(S),
         arrived' = arrived \/ arrived' = Append(arrived, now)
  PROVE  OneWindow(S)'
<1>1. arrived \in Seq(Nat) /\ now \in Nat /\ Len(arrived) \in Nat
  BY DEF BatcherTypeOK
<1>2. /\ 1..Accepted \subseteq (1..Accepted)'
      /\ \A e \in 1..Accepted : arrived'[e] = arrived[e]
  <2>1. CASE arrived' = arrived
    BY <2>1 DEF Accepted
  <2>2. CASE arrived' = Append(arrived, now)
    <3>1. /\ Len(arrived') = Len(arrived) + 1
          /\ \A e \in 1..Len(arrived) : arrived'[e] = arrived[e]
      BY <1>1, <2>2, AppendProperties
    <3>. QED BY <1>1, <3>1 DEF Accepted
  <2>. QED BY <2>1, <2>2
<1>3. \A d \in S : d \in 1..Accepted
  BY DEF OneWindow
<1>. QED BY <1>2, <1>3 DEF OneWindow

LEMMA FlushedWindow ==
  ASSUME BatcherTypeOK, WindowInv, CommitBatch
  PROVE  OneWindow(ToSet(ring))'
<1>. USE FanoutAssumption
<1>1. /\ UNCHANGED <<now, arrived>> /\ UNCHANGED Accepted
      /\ ToSet(ring') = {e \in 1..Accepted : /\ arrived[e] >= Cutoff
                                             /\ e > Accepted - RING_CAP}
  BY CommitKeepsWindow DEF CommitBatch, Accepted
<1>2. /\ arrived \in Seq(Nat) /\ now \in Nat /\ Accepted \in Nat
      /\ \A e \in 1..Accepted : arrived[e] \in Nat /\ arrived[e] <= now
  BY ElementOfSeq DEF BatcherTypeOK, Accepted, WindowInv, ArrivalOrder
<1>3. ASSUME NEW d \in ToSet(ring'), NEW e \in ToSet(ring')
      PROVE  arrived[e] <= arrived[d] + REWIND /\ e < d + RING_CAP
  <2>1. /\ d \in 1..Accepted /\ e \in 1..Accepted
        /\ arrived[d] >= Cutoff /\ d > Accepted - RING_CAP
    BY <1>1, <1>3
  <2>2. now <= Cutoff + REWIND /\ Cutoff \in Nat
    BY <1>2 DEF Cutoff
  <2>. QED BY <1>2, <2>1, <2>2
<1>4. ToSet(ring') \subseteq 1..Accepted
  BY <1>1
<1>. QED BY <1>1, <1>3, <1>4 DEF OneWindow

(***************************************************************************)
(* The snapshot is a copy of the ring, and a chunk only moves from what is *)
(* to be sent to what was.                                                 *)
(***************************************************************************)
LEMMA BackfillClient ==
  ASSUME TypeOK, BackfillInv, NEW c \in Clients,
         Subscribe(c) \/ Follow(c) \/ Disconnect(c)
  PROVE  BackfillInv'
<1>. DEFINE Fill(d) == refilled[d] \cup ToSet(backlog[d])
<1>1. /\ UNCHANGED <<ring, arrived>>
      /\ backlog \in [Clients -> Seq(Nat)] /\ refilled \in [Clients -> SUBSET Nat]
      /\ phase \in [Clients -> Phases]
  BY ClientFrame DEF batcherVars, TypeOK, ClientTypeOK
<1>2. \A S : OneWindow(S) => OneWindow(S)'
  BY <1>1 DEF OneWindow, Accepted
<1>3. OneWindow(ToSet(ring)) /\ \A d \in Clients : OneWindow(Fill(d))
  BY DEF BackfillInv, BackfillIsOneWindow
<1>4. \A d \in Clients \ {c} : /\ backlog'[d] = backlog[d]
                               /\ refilled'[d] = refilled[d]
                               /\ phase'[d] = phase[d]
  BY <1>1 DEF Subscribe, Follow, ReplayLabels, SnapshotRing, SendChunk, Recv,
              SkipLagged, Disconnect
<1>5. /\ Fill(c)' \subseteq Fill(c) \/ Fill(c)' = ToSet(ring)
      /\ phase'[c] \in {"off", "subscribed", "labelled"} =>
           refilled'[c] = {} /\ backlog'[c] = <<>>
  <2>0. ToSet(<<>>) = {}
    BY DEF ToSet
  <2>1. phase[c] \in {"off", "subscribed", "labelled"} =>
          refilled[c] = {} /\ backlog[c] = <<>>
    BY DEF BackfillInv, NotYetFilled
  <2>2. CASE Subscribe(c) \/ ReplayLabels(c)
    BY <1>1, <2>1, <2>2 DEF Subscribe, ReplayLabels
  <2>3. CASE SnapshotRing(c)
    BY <1>1, <2>1, <2>3 DEF SnapshotRing
  <2>4. CASE SendChunk(c)
    <3>. DEFINE b == backlog[c]
                n == IF Len(b) > CHUNK THEN CHUNK ELSE Len(b)
    <3>1. /\ refilled'[c] = refilled[c] \cup ToSet(SubSeq(b, 1, n))
          /\ backlog'[c] = SubSeq(b, n + 1, Len(b))
          /\ phase'[c] \in {"live", "backfill"}
      BY <1>1, <2>4 DEF SendChunk
    <3>2. b \in Seq(Nat) /\ n \in 0..Len(b)
      BY <1>1, FanoutAssumption
    <3>. HIDE DEF n, b
    <3>3. /\ ToSet(SubSeq(b, 1, n)) \subseteq ToSet(b)
          /\ ToSet(SubSeq(b, n + 1, Len(b))) \subseteq ToSet(b)
      BY <3>2, ToSetSplit
    <3>. QED BY <3>1, <3>3 DEF b
  <2>5. CASE Recv(c) \/ SkipLagged(c)
    BY <1>1, <2>5 DEF Recv, SkipLagged
  <2>6. CASE Disconnect(c)
    BY <1>1, <2>0, <2>6 DEF Disconnect
  <2>. QED BY <2>2, <2>3, <2>4, <2>5, <2>6 DEF Follow
<1>6. OneWindow(ToSet(ring))'
  BY <1>1, <1>2, <1>3
<1>7. ASSUME NEW d \in Clients PROVE OneWindow(Fill(d))'
  <2>1. OneWindow(Fill(d)')
    BY <1>3, <1>4, <1>5, PartOfWindow
  <2>. QED BY <1>2, <2>1
<1>8. NotYetFilled'
  BY <1>1, <1>4, <1>5 DEF BackfillInv, NotYetFilled
<1>. QED BY <1>6, <1>7, <1>8 DEF BackfillInv, BackfillIsOneWindow

LEMMA BackfillNext ==
  TypeOK /\ WindowInv /\ BackfillInv /\ [Next]_vars => BackfillInv'
<1>. SUFFICES ASSUME TypeOK, WindowInv, BackfillInv, [Next]_vars
              PROVE  BackfillInv'
  OBVIOUS
<1>1. ASSUME UNCHANGED clientVars, OneWindow(ToSet(ring))',
             arrived' = arrived \/ arrived' = Append(arrived, now)
      PROVE  BackfillInv'
  <2>1. UNCHANGED <<phase, refilled, backlog>>
    BY <1>1 DEF clientVars
  <2>2. \A c \in Clients : OneWindow(refilled[c] \cup ToSet(backlog[c]))'
    <3>. SUFFICES ASSUME NEW c \in Clients
                  PROVE  OneWindow(refilled[c] \cup ToSet(backlog[c]))'
      OBVIOUS
    <3>. DEFINE S == refilled[c] \cup ToSet(backlog[c])
    <3>1. OneWindow(S) /\ S' = S
      BY <2>1 DEF BackfillInv, BackfillIsOneWindow
    <3>. QED BY <1>1, <3>1, WindowStays DEF TypeOK, OneWindow
  <2>3. NotYetFilled'
    BY <2>1 DEF BackfillInv, NotYetFilled
  <2>. QED BY <1>1, <2>2, <2>3 DEF BackfillInv, BackfillIsOneWindow
<1>2. ASSUME UNCHANGED <<ring, clientVars>>,
             arrived' = arrived \/ arrived' = Append(arrived, now)
      PROVE  BackfillInv'
  <2>1. OneWindow(ToSet(ring))'
    BY <1>2, WindowStays DEF TypeOK, BackfillInv, BackfillIsOneWindow, OneWindow
  <2>. QED BY <1>1, <1>2, <2>1
<1>3. CASE CommitBatch
  BY <1>1, <1>3, FlushedWindow, BatcherFrame DEF TypeOK, Batcher, CommitBatch
<1>4. CASE (Advance \/ Batcher) /\ ~CommitBatch
  <2>1. UNCHANGED ring /\ (arrived' = arrived \/ arrived' = Append(arrived, now))
    BY <1>4 DEF Advance, Batcher, AcceptFly, AcceptControl, InsertLabel,
                BroadcastLabel, BroadcastBatch
  <2>. QED BY <1>2, <1>4, <2>1, BatcherFrame
<1>5. CASE UNCHANGED vars
  BY <1>2, <1>5 DEF vars, batcherVars
<1>. QED BY <1>3, <1>4, <1>5, BackfillClient DEF Next

(***************************************************************************)
(* What a late viewer is given is the rewind window of some moment, however*)
(* long ago that was, for every window and capacity.                       *)
(***************************************************************************)
THEOREM Backfilled == Spec => []BackfillIsOneWindow
<1>1. Init => BackfillInv
  BY BackfillInit
<1>2. BackfillInv => BackfillIsOneWindow
  BY DEF BackfillInv
<1>. QED BY <1>1, <1>2, BackfillNext, TypeCorrect, Window, PTL DEF Spec

-----------------------------------------------------------------------------
(* The order of live events.                                               *)

(* The last event that was broadcast, if anyone was connected.             *)
Broadcast == IF stage = "commit" THEN Accepted ELSE Accepted - Len(pending)

Rising(s) == \A i, j \in DOMAIN s : i < j => s[i] < s[j]

(* Within a frame and from frame to frame the events rise ...              *)
ChannelRises ==
  /\ \A i \in 1..Len(sent) : sent[i].kind = "fly" => Rising(sent[i].events)
  /\ \A i, j \in 1..Len(sent) : i < j =>
       \A d \in EventsOf(sent[i]), e \in EventsOf(sent[j]) : d < e
  /\ \A i \in 1..Len(sent) : \A e \in EventsOf(sent[i]) : e <= Broadcast

(* ... and so do those a viewer has got, before those it has to come.      *)
FeedRises(c) ==
  /\ Rising(feed[c])
  /\ \A d \in ToSet(feed[c]), e \in Coming(c) : d < e
  /\ \A d \in ToSet(feed[c]) : d <= Broadcast
  /\ phase[c] = "off" => feed[c] = <<>>

OrderInv == ChannelRises /\ \A c \in Clients : FeedRises(c)

LEMMA OrderInit == Init => OrderInv
BY DEF Init, OrderInv, ChannelRises, FeedRises, Rising, ToSet

LEMMA RisingConcat ==
  ASSUME NEW s \in Seq(Nat), NEW t \in Seq(Nat), Rising(s), Rising(t),
         \A d \in ToSet(s), e \in ToSet(t) : d < e
  PROVE  Rising(s \o t)
<1>1. /\ s \o t \in Seq(Nat) /\ Len(s \o t) = Len(s) + Len(t)
      /\ \A i \in 1..Len(s) + Len(t) :
           (s \o t)[i] = IF i <= Len(s) THEN s[i] ELSE t[i - Len(s)]
      /\ Len(s) \in Nat /\ Len(t) \in Nat
      /\ DOMAIN (s \o t) = 1..Len(s) + Len(t)
  BY ConcatProperties
<1>2. /\ \A i \in 1..Len(s) : s[i] \in ToSet(s)
      /\ \A i \in 1..Len(t) : t[i] \in ToSet(t)
  BY DEF ToSet
<1>3. ASSUME NEW i \in 1..Len(s) + Len(t), NEW j \in 1..Len(s) + Len(t), i < j
      PROVE  (s \o t)[i] < (s \o t)[j]
  <2>0. /\ i \in Nat /\ j \in Nat /\ Len(s) \in Nat
    BY <1>1
  <2>1. CASE j <= Len(s)
    <3>1. i \in 1..Len(s) /\ j \in 1..Len(s)
      BY <1>1, <1>3, <2>1
    <3>. QED BY <1>1, <1>3, <2>1, <3>1 DEF Rising
  <2>2. CASE i > Len(s)
    <3>1. /\ i - Len(s) \in 1..Len(t) /\ j - Len(s) \in 1..Len(t)
          /\ i - Len(s) < j - Len(s) /\ ~(i <= Len(s)) /\ ~(j <= Len(s))
      BY <1>1, <1>3, <2>2, SMTT(30)
    <3>. QED BY <1>1, <3>1 DEF Rising
  <2>3. CASE i <= Len(s) /\ j > Len(s)
    <3>1. i \in 1..Len(s) /\ j - Len(s) \in 1..Len(t) /\ ~(j <= Len(s))
      BY <1>1, <2>3
    <3>. QED BY <1>1, <1>2, <2>3, <3>1
  <2>4. j <= Len(s) \/ i > Len(s) \/ (i <= Len(s) /\ j > Len(s))
    BY <2>0
  <2>. QED BY <2>1, <2>2, <2>3, <2>4
<1>. QED BY <1>1, <1>3 DEF Rising

(***************************************************************************)
(* A frame is published: its events are later than those broadcast so far. *)
(***************************************************************************)
LEMMA OrderPublish ==
  ASSUME TypeOK, OrderInv, UNCHANGED clientVars,
         NEW fs \in Seq(Frames), Publish(fs),
         Broadcast \in Nat, Broadcast' \in Nat, Broadcast <= Broadcast',
         \A i \in 1..Len(fs) :
           /\ fs[i].kind = "fly" => Rising(fs[i].events)
           /\ \A e \in EventsOf(fs[i]) : Broadcast < e /\ e <= Broadcast',
         \A i, j \in 1..Len(fs) : i < j => EventsOf(fs[i]) = {}
  PROVE  OrderInv'
<1>. DEFINE n == Len(sent)
<1>1. /\ sent \in Seq(Frames) /\ n \in Nat /\ Len(fs) \in Nat
      /\ \A i \in 1..n : sent[i] \in Frames
      /\ \A i \in 1..Len(fs) : fs[i] \in Frames
  BY DEF TypeOK, BatcherTypeOK
<1>2. \A f \in Frames : EventsOf(f) \in SUBSET Nat
  BY DEF Frames, FlyFrames, CtrlFrames, LabelFrames, EventsOf, ToSet
<1>3. ASSUME NEW k \in 1..Len(sent')
      PROVE  \/ k \in 1..n /\ sent'[k] = sent[k]
             \/ \E i \in 1..Len(fs) : k = n + i /\ sent'[k] = fs[i]
  <2>1. CASE sent' = sent
    BY <2>1
  <2>2. CASE sent' = sent \o fs
    <3>1. /\ Len(sent') = n + Len(fs)
          /\ \A i \in 1..n : sent'[i] = sent[i]
          /\ \A i \in 1..Len(fs) : sent'[n + i] = fs[i]
      BY <1>1, <2>2
    <3>. HIDE DEF n
    <3>2. k \in 1..n \/ (k - n \in 1..Len(fs) /\ k = n + (k - n))
      BY <1>1, <3>1
    <3>. QED BY <3>1, <3>2
  <2>. QED BY <2>1, <2>2 DEF Publish
<1>. HIDE DEF n
<1>4. /\ \A i \in 1..n : sent[i].kind = "fly" => Rising(sent[i].events)
      /\ \A i, j \in 1..n : i < j =>
           \A d \in EventsOf(sent[i]), e \in EventsOf(sent[j]) : d < e
      /\ \A i \in 1..n : \A e \in EventsOf(sent[i]) : e <= Broadcast
  BY DEF OrderInv, ChannelRises, n
<1>5. \A k \in 1..Len(sent') :
        /\ sent'[k].kind = "fly" => Rising(sent'[k].events)
        /\ \A e \in EventsOf(sent'[k]) : e <= Broadcast'
  <2>1. ASSUME NEW k \in 1..Len(sent'), NEW e \in EventsOf(sent'[k])
        PROVE  e <= Broadcast'
    <3>1. CASE k \in 1..n /\ sent'[k] = sent[k]
      <4>1. e \in Nat /\ e <= Broadcast
        BY <1>1, <1>2, <1>4, <2>1, <3>1
      <4>. QED BY <4>1
    <3>2. CASE \E i \in 1..Len(fs) : k = n + i /\ sent'[k] = fs[i]
      BY <2>1, <3>2
    <3>. QED BY <1>3, <3>1, <3>2
  <2>. QED BY <1>3, <1>4, <2>1
<1>6. ASSUME NEW k \in 1..Len(sent'), NEW l \in 1..Len(sent'), k < l,
             NEW d \in EventsOf(sent'[k]), NEW e \in EventsOf(sent'[l])
      PROVE  d < e
  <2>1. CASE l \in 1..n /\ sent'[l] = sent[l]
    <3>1. k \in 1..n /\ sent'[k] = sent[k]
      BY <1>1, <1>3, <1>6, <2>1
    <3>. QED BY <1>4, <1>6, <2>1, <3>1
  <2>2. ASSUME NEW j \in 1..Len(fs), l = n + j, sent'[l] = fs[j]
        PROVE  d < e
    <3>1. Broadcast < e /\ e \in Nat
      BY <1>1, <1>2, <1>6, <2>2
    <3>2. CASE k \in 1..n /\ sent'[k] = sent[k]
      <4>1. d <= Broadcast /\ d \in Nat
        BY <1>1, <1>2, <1>4, <1>6, <3>2
      <4>. QED BY <3>1, <4>1
    <3>3. ASSUME NEW i \in 1..Len(fs), k = n + i, sent'[k] = fs[i]
          PROVE  FALSE
      <4>1. i < j
        BY <1>1, <1>6, <2>2, <3>3
      <4>. QED BY <1>6, <3>3, <4>1
    <3>. QED BY <1>3, <3>2, <3>3
  <2>. QED BY <1>3, <2>1, <2>2
<1>7. ChannelRises'
  BY <1>5, <1>6 DEF ChannelRises, EventsOf
<1>8. ASSUME NEW c \in Clients PROVE FeedRises(c)'
  <2>1. /\ feed' = feed /\ cursor' = cursor /\ phase' = phase
        /\ cursor[c] \in Nat \ {0} /\ feed[c] \in Seq(Nat)
    BY DEF clientVars, TypeOK, ClientTypeOK
  <2>2. FeedRises(c) /\ \A d \in ToSet(feed[c]) : d \in Nat
    BY <2>1 DEF OrderInv, ToSet
  <2>3. \A d \in ToSet(feed[c]) : d <= Broadcast /\ d <= Broadcast'
    BY <2>2 DEF FeedRises
  <2>4. ASSUME NEW d \in ToSet(feed[c]), NEW k \in cursor[c]..Len(sent'),
               NEW e \in EventsOf(sent'[k])
        PROVE  d < e
    <3>1. k \in 1..Len(sent')
      BY <2>1
    <3>2. CASE k \in 1..n /\ sent'[k] = sent[k]
      <4>1. k \in cursor[c]..n
        BY <2>1, <3>2
      <4>2. e \in Coming(c)
        BY <2>4, <3>2, <4>1 DEF Coming, n
      <4>. QED BY <2>2, <4>2 DEF FeedRises
    <3>3. ASSUME NEW i \in 1..Len(fs), sent'[k] = fs[i] PROVE d < e
      <4>1. Broadcast < e /\ e \in Nat
        BY <1>1, <1>2, <2>4, <3>3
      <4>. QED BY <2>2, <2>3, <4>1
    <3>. QED BY <1>3, <3>1, <3>2, <3>3
  <2>5. \A d \in ToSet(feed[c]), e \in Coming(c)' : d < e
    BY <2>1, <2>4 DEF Coming, EventsOf
  <2>. QED BY <2>1, <2>2, <2>3, <2>5 DEF FeedRises
<1>. QED BY <1>7, <1>8 DEF OrderInv

(* The events that wait are the last that were accepted. *)
LEMMA PendingNumbers ==
  ASSUME BatcherTypeOK, TailOfAccepted
  PROVE  /\ pending \in Seq(Nat) /\ Len(pending) \in 0..Accepted
         /\ Accepted \in Nat
         /\ \A i \in 1..Len(pending) : pending[i] = Accepted - Len(pending) + i
<1>. DEFINE held == ring \o pending
<1>1. /\ Len(held) = Len(ring) + Len(pending) /\ Len(held) \in 0..Accepted
      /\ \A i \in 1..Len(held) : held[i] = Accepted - Len(held) + i
  BY HeldNumbers
<1>2. /\ ring \in Seq(1..Accepted) /\ pending \in Seq(1..Accepted)
      /\ Accepted \in Nat
  BY DEF BatcherTypeOK, Accepted
<1>3. pending \in Seq(Nat)
  BY <1>2, SeqMonotonic, (1..Accepted) \subseteq Nat
<1>4. Len(ring) \in Nat /\ Len(pending) \in Nat
  BY <1>2
<1>5. \A i \in 1..Len(pending) : held[Len(ring) + i] = pending[i]
  BY <1>2
<1>. HIDE DEF held
<1>6. ASSUME NEW i \in 1..Len(pending)
      PROVE  pending[i] = Accepted - Len(pending) + i
  <2>1. Len(ring) + i \in 1..Len(held)
    BY <1>1, <1>4
  <2>2. held[Len(ring) + i] = Accepted - Len(held) + (Len(ring) + i)
    BY <1>1, <2>1
  <2>. QED BY <1>1, <1>2, <1>4, <1>5, <2>2
<1>. QED BY <1>1, <1>2, <1>3, <1>4, <1>6

(* Frames without events disturb no order. *)
LEMMA OrderQuiet ==
  ASSUME TypeOK, OrderInv, UNCHANGED clientVars, NEW fs \in Seq(Frames), Publish(fs),
         Broadcast \in Nat, Broadcast' = Broadcast,
         \A i \in 1..Len(fs) : fs[i].kind # "fly" /\ EventsOf(fs[i]) = {}
  PROVE  OrderInv'
<1>1. Broadcast' \in Nat /\ Broadcast <= Broadcast'
  OBVIOUS
<1>2. \A i \in 1..Len(fs) :
        /\ fs[i].kind = "fly" => Rising(fs[i].events)
        /\ \A e \in EventsOf(fs[i]) : Broadcast < e /\ e <= Broadcast'
  OBVIOUS
<1>3. \A i, j \in 1..Len(fs) : i < j => EventsOf(fs[i]) = {}
  OBVIOUS
<1>. QED BY <1>1, <1>2, <1>3, OrderPublish

LEMMA OrderBatcher ==
  ASSUME TypeOK, TailOfAccepted, OrderInv, Advance \/ Batcher
  PROVE  OrderInv'
<1>0. /\ UNCHANGED clientVars /\ arrived \in Seq(Nat)
      /\ Len(pending) \in 0..Accepted /\ Accepted \in Nat
      /\ pending \in Seq(Nat) /\ BatcherTypeOK
  BY BatcherFrame, PendingNumbers DEF TypeOK, BatcherTypeOK
<1>1. CASE UNCHANGED <<sent, Broadcast>>
  <2>1. UNCHANGED <<feed, phase, cursor>>
    BY <1>0 DEF clientVars
  <2>2. ChannelRises'
    BY <1>1 DEF OrderInv, ChannelRises, Rising, EventsOf
  <2>3. ASSUME NEW c \in Clients PROVE FeedRises(c)'
    <3>1. Coming(c)' = Coming(c)
      BY <1>1, <2>1 DEF Coming, EventsOf
    <3>. QED BY <1>1, <2>1, <3>1 DEF OrderInv, FeedRises, Rising
  <2>. QED BY <2>2, <2>3 DEF OrderInv
<1>2. CASE Advance
  BY <1>1, <1>2 DEF Advance, Broadcast, Accepted
<1>3. ASSUME NEW alarms \in 0..MaxControls, AcceptFly(alarms)
      PROVE  OrderInv'
  <2>. DEFINE fs == [i \in 1..alarms |-> CtrlFrame]
  <2>1. fs \in Seq(Frames) /\ Len(fs) = alarms
    BY FunctionIsSeq, FanoutAssumption DEF CtrlFrame, Frames, CtrlFrames
  <2>2. Accepted' = Accepted + 1 /\ Len(pending') = Len(pending) + 1
    BY <1>0, <1>3, AppendProperties DEF AcceptFly, Accepted
  <2>3. Broadcast' = Broadcast /\ Broadcast \in Nat
    BY <1>0, <1>3, <2>2 DEF AcceptFly, Broadcast
  <2>4. \A i \in 1..Len(fs) : fs[i].kind # "fly" /\ EventsOf(fs[i]) = {}
    BY <2>1 DEF CtrlFrame, EventsOf
  <2>5. Publish(fs)
    BY <1>3 DEF AcceptFly
  <2>. HIDE DEF fs
  <2>. QED BY <1>0, <2>1, <2>3, <2>4, <2>5, OrderQuiet
<1>4. CASE AcceptControl
  <2>. DEFINE fs == <<CtrlFrame>>
  <2>1. fs \in Seq(Frames) /\ Len(fs) = 1
    BY DEF CtrlFrame, Frames, CtrlFrames
  <2>2. Broadcast' = Broadcast /\ Broadcast \in Nat
    BY <1>0, <1>4 DEF AcceptControl, Broadcast, Accepted
  <2>3. \A i \in 1..Len(fs) : fs[i].kind # "fly" /\ EventsOf(fs[i]) = {}
    BY <2>1 DEF CtrlFrame, EventsOf
  <2>4. Publish(fs)
    BY <1>4 DEF AcceptControl
  <2>. HIDE DEF fs
  <2>. QED BY <1>0, <2>1, <2>2, <2>3, <2>4, OrderQuiet
<1>5. ASSUME NEW b \in Boards, NEW l \in Captions, InsertLabel(b, l)
      PROVE  OrderInv'
  BY <1>1, <1>5 DEF InsertLabel, Broadcast, Accepted
<1>6. CASE BroadcastLabel
  <2>. DEFINE fs == <<[kind |-> "board", board |-> announcing[1],
                       caption |-> announcing[2]]>>
  <2>1. fs \in Seq(Frames) /\ Len(fs) = 1
    <3>1. announcing \in Boards \X Captions
      BY <1>6 DEF BroadcastLabel, TypeOK, BatcherTypeOK
    <3>. QED BY <3>1 DEF Frames, LabelFrames
  <2>2. Broadcast' = Broadcast /\ Broadcast \in Nat
    BY <1>0, <1>6 DEF BroadcastLabel, Broadcast, Accepted
  <2>3. \A i \in 1..Len(fs) : fs[i].kind # "fly" /\ EventsOf(fs[i]) = {}
    BY <2>1 DEF EventsOf
  <2>4. Publish(fs)
    BY <1>6 DEF BroadcastLabel
  <2>. HIDE DEF fs
  <2>. QED BY <1>0, <2>1, <2>2, <2>3, <2>4, OrderQuiet
<1>7. CASE BroadcastBatch
  <2>. DEFINE f == [kind |-> "fly", events |-> pending]
              fs == <<f>>
  <2>1. fs \in Seq(Frames) /\ Len(fs) = 1 /\ fs[1] = f
    BY <1>0 DEF Frames, FlyFrames
  <2>2. /\ stage = "select" /\ stage' = "commit"
        /\ UNCHANGED <<arrived, pending>>
    BY <1>7 DEF BroadcastBatch
  <2>3. /\ Broadcast = Accepted - Len(pending) /\ Broadcast' = Accepted
        /\ Broadcast \in Nat /\ Broadcast' \in Nat /\ Broadcast <= Broadcast'
    BY <1>0, <2>2 DEF Broadcast, Accepted
  <2>4. \A i \in 1..Len(pending) : pending[i] = Broadcast + i
    BY <1>0, <2>3, PendingNumbers
  <2>5. Rising(pending)
    <3>1. DOMAIN pending = 1..Len(pending)
      BY <1>0
    <3>2. \A i, j \in 1..Len(pending) : i < j => Broadcast + i < Broadcast + j
      BY <2>3
    <3>. QED BY <2>4, <3>1, <3>2 DEF Rising
  <2>6. \A e \in ToSet(pending) : Broadcast < e /\ e <= Broadcast'
    <3>1. ASSUME NEW i \in 1..Len(pending)
          PROVE  Broadcast < pending[i] /\ pending[i] <= Broadcast'
      BY <1>0, <2>3, <2>4
    <3>. QED BY <1>0, <3>1 DEF ToSet
  <2>7. /\ \A i \in 1..Len(fs) :
             /\ fs[i].kind = "fly" => Rising(fs[i].events)
             /\ \A e \in EventsOf(fs[i]) : Broadcast < e /\ e <= Broadcast'
        /\ \A i, j \in 1..Len(fs) : ~(i < j)
    BY <2>1, <2>5, <2>6 DEF EventsOf
  <2>8. Publish(fs)
    BY <1>7 DEF BroadcastBatch
  <2>. HIDE DEF fs
  <2>. QED BY <1>0, <2>1, <2>3, <2>7, <2>8, OrderPublish
<1>8. CASE CommitBatch
  <2>1. Len(pending') = 0 /\ Broadcast' = Broadcast
    BY <1>0, <1>8 DEF CommitBatch, Broadcast, Accepted
  <2>. QED BY <1>1, <1>8, <2>1 DEF CommitBatch
<1>. QED BY <1>2, <1>3, <1>4, <1>5, <1>6, <1>7, <1>8 DEF Batcher

LEMMA OrderClient ==
  ASSUME TypeOK, OrderInv, NEW c \in Clients,
         Subscribe(c) \/ Follow(c) \/ Disconnect(c)
  PROVE  OrderInv'
<1>. USE FanoutAssumption
<1>1. /\ UNCHANGED <<arrived, pending, stage, sent>>
      /\ Broadcast' = Broadcast
  BY ClientFrame DEF batcherVars, Broadcast, Accepted
<1>2. /\ sent \in Seq(Frames) /\ Len(sent) \in Nat
      /\ cursor \in [Clients -> Nat \ {0}] /\ feed \in [Clients -> Seq(Nat)]
      /\ phase \in [Clients -> Phases]
  BY DEF TypeOK, BatcherTypeOK, ClientTypeOK
<1>3. ChannelRises' /\ ChannelRises
  BY <1>1 DEF OrderInv, ChannelRises, EventsOf
<1>4. ASSUME NEW d \in Clients, feed'[d] = feed[d], cursor'[d] >= cursor[d],
             cursor'[d] \in Nat, phase'[d] # "off"
      PROVE  FeedRises(d)'
  <2>1. cursor'[d]..Len(sent) \subseteq cursor[d]..Len(sent)
    BY <1>2, <1>4
  <2>2. Coming(d)' \subseteq Coming(d)
    BY <1>1, <2>1 DEF Coming, EventsOf
  <2>. QED BY <1>1, <1>4, <2>2 DEF OrderInv, FeedRises
<1>5. ASSUME NEW d \in Clients, feed'[d] = <<>> PROVE FeedRises(d)'
  BY <1>5 DEF FeedRises, Rising, ToSet
<1>6. ASSUME NEW d \in Clients, d # c PROVE FeedRises(d)'
  <2>1. /\ phase'[d] = phase[d] /\ cursor'[d] = cursor[d]
        /\ feed'[d] = feed[d]
    BY <1>2, <1>6 DEF Subscribe, Follow, ReplayLabels, SnapshotRing, SendChunk,
                Recv, SkipLagged, Disconnect
  <2>. QED BY <1>1, <2>1, ZenonT(30) DEF OrderInv, FeedRises, Coming, EventsOf
<1>7. FeedRises(c)'
  <2>1. CASE Subscribe(c)
    BY <2>1, <1>5 DEF Subscribe, OrderInv, FeedRises
  <2>2. CASE ReplayLabels(c) \/ SnapshotRing(c) \/ SendChunk(c)
    <3>1. /\ cursor'[c] = cursor[c] /\ feed'[c] = feed[c]
          /\ phase'[c] \in {"labelled", "backfill", "live"}
      BY <1>2, <2>2 DEF ReplayLabels, SnapshotRing, SendChunk
    <3>2. cursor'[c] >= cursor[c] /\ cursor'[c] \in Nat
      BY <1>2, <3>1
    <3>. QED BY <1>4, <3>1, <3>2
  <2>3. CASE SkipLagged(c)
    <3>1. cursor'[c] = Len(sent) - CHAN_CAP + 1 /\ phase'[c] = "live"
          /\ feed'[c] = feed[c] /\ Len(sent) - cursor[c] + 1 > CHAN_CAP
      BY <1>2, <2>3 DEF SkipLagged, Unread
    <3>2. cursor'[c] \in Nat /\ cursor'[c] >= cursor[c]
      BY <1>2, <3>1
    <3>. QED BY <1>4, <3>1, <3>2
  <2>4. CASE Disconnect(c)
    BY <2>4, <1>2, <1>5 DEF Disconnect
  <2>5. CASE Recv(c)
    <3>. DEFINE f == sent[cursor[c]]
    <3>1. /\ phase' = phase /\ phase[c] # "off"
          /\ cursor'[c] = cursor[c] + 1
          /\ feed'[c] = IF f.kind = "fly" THEN feed[c] \o f.events ELSE feed[c]
      BY <1>2, <2>5 DEF Recv
    <3>2. cursor[c] \in 1..Len(sent) /\ f \in Frames
      <4>1. Len(sent) - cursor[c] + 1 \in 1..CHAN_CAP
        BY <2>5 DEF Recv, Unread
      <4>2. cursor[c] \in 1..Len(sent)
        BY <1>2, <4>1
      <4>. QED BY <1>2, <4>2
    <3>3. CASE f.kind # "fly"
      <4>1. cursor'[c] >= cursor[c] /\ cursor'[c] \in Nat
        BY <1>2, <3>1
      <4>2. feed'[c] = feed[c] /\ phase'[c] # "off"
        BY <3>1, <3>3
      <4>. QED BY <1>4, <4>1, <4>2
    <3>4. CASE f.kind = "fly"
      <4>1. f.events \in Seq(Nat) /\ EventsOf(f) = ToSet(f.events)
        BY <3>2, <3>4 DEF Frames, FlyFrames, CtrlFrames, LabelFrames, EventsOf
      <4>2. EventsOf(f) \subseteq Coming(c)
        BY <1>2, <3>2 DEF Coming
      <4>3. Rising(f.events) /\ \A e \in EventsOf(f) : e <= Broadcast
        BY <1>3, <3>2, <3>4 DEF ChannelRises
      <4>4. FeedRises(c) /\ feed[c] \in Seq(Nat)
        BY <1>2 DEF OrderInv
      <4>5. ToSet(feed'[c]) = ToSet(feed[c]) \cup EventsOf(f)
        BY <3>1, <3>4, <4>1, <4>4, ToSetConcat
      <4>6. Rising(feed'[c])
        BY <3>1, <3>4, <4>1, <4>2, <4>3, <4>4, RisingConcat DEF FeedRises
      <4>7. ASSUME NEW i \in cursor[c] + 1..Len(sent)
            PROVE  /\ EventsOf(sent[i]) \subseteq Coming(c)
                   /\ \A d \in EventsOf(f), e \in EventsOf(sent[i]) : d < e
        <5>1. i \in cursor[c]..Len(sent) /\ i \in 1..Len(sent) /\ cursor[c] < i
          BY <1>2, <3>2
        <5>. QED BY <1>3, <3>2, <5>1 DEF Coming, ChannelRises
      <4>8. Coming(c)' = UNION {EventsOf(sent[i]) : i \in cursor[c] + 1..Len(sent)}
        BY <1>1, <3>1 DEF Coming, EventsOf
      <4>9. \A d \in ToSet(feed'[c]), e \in Coming(c)' : d < e
        BY <4>4, <4>5, <4>7, <4>8 DEF FeedRises
      <4>10. \A d \in ToSet(feed'[c]) : d <= Broadcast
        BY <4>3, <4>4, <4>5 DEF FeedRises
      <4>. QED BY <1>1, <3>1, <4>6, <4>9, <4>10 DEF FeedRises
    <3>. QED BY <3>3, <3>4
  <2>. QED BY <2>1, <2>2, <2>3, <2>4, <2>5 DEF Follow
<1>. QED BY <1>3, <1>6, <1>7 DEF OrderInv

LEMMA OrderNext ==
  TypeOK /\ WindowInv /\ OrderInv /\ [Next]_vars => OrderInv'
<1>. SUFFICES ASSUME TypeOK, WindowInv, OrderInv, [Next]_vars PROVE OrderInv'
  OBVIOUS
<1>1. CASE UNCHANGED vars
  BY <1>1 DEF OrderInv, ChannelRises, FeedRises, Rising, Coming, EventsOf,
              Broadcast, Accepted, vars, batcherVars, clientVars
<1>. QED BY <1>1, OrderBatcher, OrderClient DEF Next, WindowInv

(***************************************************************************)
(* Live events come in arrival order and none comes twice live.            *)
(***************************************************************************)
THEOREM InOrder == Spec => []LiveInOrder
<1>1. Init => OrderInv
  BY OrderInit
<1>2. TypeOK /\ OrderInv => LiveInOrder
  <2>. SUFFICES ASSUME TypeOK, OrderInv, NEW c \in Clients,
                       NEW i \in 1..Len(feed[c]) - 1
                PROVE  feed[c][i] < feed[c][i + 1]
    BY DEF LiveInOrder
  <2>1. feed[c] \in Seq(Nat) /\ Rising(feed[c])
    BY DEF TypeOK, ClientTypeOK, OrderInv, FeedRises
  <2>2. i \in DOMAIN feed[c] /\ i + 1 \in DOMAIN feed[c] /\ i < i + 1
    BY <2>1
  <2>. QED BY <2>1, <2>2 DEF Rising
<1>. QED BY <1>1, <1>2, OrderNext, TypeCorrect, Window, PTL DEF Spec

-----------------------------------------------------------------------------
(* The record file.                                                        *)

(* The events of RecordIsComplete, line by line. *)
RecordInv ==
  Recording =>
    /\ \A i \in EventLines : /\ record[i].event \in 1..Accepted - Len(pending)
                             /\ record[i] = LineOf(record[i].event)
    /\ \A e \in 1..Accepted - Len(pending) :
         \E i \in EventLines : record[i] = LineOf(e)
    /\ \A i, j \in EventLines : i < j => record[i].event < record[j].event

LEMMA RecordInit == Init => RecordInv
<1>. SUFFICES ASSUME Init PROVE RecordInv
  OBVIOUS
<1>1. EventLines = {} /\ 1..Accepted - Len(pending) = {}
  BY DEF Init, EventLines, Accepted
<1>. QED BY <1>1 DEF RecordInv

(* The lines of an extended record file are the old ones and the new ones. *)
LEMMA LinesOfConcat ==
  ASSUME NEW r \in Seq(Line), NEW t \in Seq(Line)
  PROVE  /\ Len(r) \in Nat /\ Len(t) \in Nat
         /\ DOMAIN (r \o t) = 1..Len(r) + Len(t)
         /\ \A i \in DOMAIN r : i \in 1..Len(r) /\ (r \o t)[i] = r[i]
         /\ \A i \in 1..Len(t) : (r \o t)[Len(r) + i] = t[i]
         /\ \A i \in DOMAIN (r \o t) : i \in DOMAIN r \/ i - Len(r) \in 1..Len(t)
<1>1. /\ r \o t \in Seq(Line) /\ Len(r \o t) = Len(r) + Len(t)
      /\ \A i \in 1..Len(r) + Len(t) :
           (r \o t)[i] = IF i <= Len(r) THEN r[i] ELSE t[i - Len(r)]
      /\ Len(r) \in Nat /\ Len(t) \in Nat
      /\ DOMAIN r = 1..Len(r) /\ DOMAIN (r \o t) = 1..Len(r) + Len(t)
  BY ConcatProperties
<1>2. \A i \in 1..Len(r) : i \in 1..Len(r) + Len(t) /\ i <= Len(r)
  BY <1>1
<1>3. \A i \in 1..Len(t) :
        /\ Len(r) + i \in 1..Len(r) + Len(t) /\ ~(Len(r) + i <= Len(r))
        /\ Len(r) + i - Len(r) = i
  BY <1>1
<1>4. \A i \in 1..Len(r) + Len(t) : i \in 1..Len(r) \/ i - Len(r) \in 1..Len(t)
  BY <1>1
<1>. QED BY <1>1, <1>2, <1>3, <1>4

(* A control line changes nothing for the events. *)
LEMMA ControlLines ==
  ASSUME record \in Seq(Line), NEW t \in Seq(Line), WriteLines(t),
         \A i \in 1..Len(t) : t[i].event = 0, Recording
  PROVE  /\ EventLines' = EventLines
         /\ \A i \in EventLines : record'[i] = record[i]
<1>1. record' = record \o t
  BY DEF WriteLines
<1>2. \A i \in DOMAIN record : i \in 1..Len(record) /\ record'[i] = record[i]
  BY <1>1, LinesOfConcat
<1>3. \A i \in DOMAIN record : i \in DOMAIN record'
  BY <1>1, LinesOfConcat
<1>4. ASSUME NEW i \in DOMAIN record', record'[i].event # 0
      PROVE  i \in DOMAIN record
  <2>1. i \in DOMAIN record \/ i - Len(record) \in 1..Len(t)
    BY <1>1, LinesOfConcat
  <2>2. ASSUME i - Len(record) \in 1..Len(t) PROVE FALSE
    <3>1. record'[Len(record) + (i - Len(record))].event = 0
      BY <1>1, <2>2, LinesOfConcat
    <3>2. Len(record) + (i - Len(record)) = i
      <4>1. Len(record) \in Nat /\ i \in Int
        BY <1>1, LinesOfConcat
      <4>. QED BY <4>1
    <3>. QED BY <1>4, <3>1, <3>2
  <2>. QED BY <2>1, <2>2
<1>. QED BY <1>2, <1>3, <1>4 DEF EventLines

LEMMA RecordCommit ==
  ASSUME BatcherTypeOK, TailOfAccepted, RecordInv, CommitBatch, Recording
  PROVE  RecordInv'
<1>. DEFINE n == Len(record)
            k == Len(pending)
            first == Accepted - k
            t == [i \in 1..k |-> [ts |-> arrived[pending[i]], event |-> pending[i]]]
<1>1. /\ record \in Seq(Line) /\ n \in Nat /\ k \in 0..Accepted
      /\ Accepted \in Nat /\ first \in Nat /\ Accepted = Len(arrived)
      /\ arrived \in Seq(Nat) /\ pending \in Seq(Nat)
      /\ \A i \in 1..k : pending[i] = first + i
  BY PendingNumbers DEF BatcherTypeOK, Line, Accepted
<1>2. /\ record' = record \o t /\ arrived' = arrived /\ pending' = <<>>
      /\ Accepted' = Accepted /\ Accepted' - Len(pending') = Accepted
  BY <1>1 DEF CommitBatch, WriteLines, Accepted
<1>3. \A i \in 1..k : first + i \in 1..Accepted /\ t[i] = LineOf(first + i)
  BY <1>1, SMTT(30) DEF LineOf
<1>4. t \in Seq(Line) /\ Len(t) = k
  <2>1. \A e \in 1..Accepted : LineOf(e) \in Line
    <3>1. \A e \in 1..Accepted : arrived[e] \in Nat
      BY <1>1, ElementOfSeq
    <3>. QED BY <3>1 DEF LineOf, Line
  <2>2. t \in [1..k -> Line]
    BY <1>3, <2>1
  <2>3. k \in Nat
    BY <1>1
  <2>. HIDE DEF t, k
  <2>. QED BY <2>2, <2>3, FunctionIsSeq
<1>. HIDE DEF t, n, k, first
<1>5. /\ DOMAIN record' = 1..n + k
      /\ \A i \in DOMAIN record : i \in 1..n /\ record'[i] = record[i]
      /\ \A i \in 1..k : record'[n + i] = LineOf(first + i)
      /\ \A i \in DOMAIN record' : i \in DOMAIN record \/ i - n \in 1..k
  <2>1. /\ DOMAIN record' = 1..n + k
        /\ \A i \in DOMAIN record : i \in 1..n /\ record'[i] = record[i]
        /\ \A i \in 1..k : record'[n + i] = t[i]
        /\ \A i \in DOMAIN record' : i \in DOMAIN record \/ i - n \in 1..k
    BY <1>1, <1>2, <1>4, LinesOfConcat DEF n
  <2>. QED BY <1>3, <2>1
<1>6. \A e : LineOf(e)' = LineOf(e)
  BY <1>2 DEF LineOf
<1>7. ASSUME NEW i \in EventLines'
      PROVE  \/ i \in EventLines /\ record'[i] = record[i]
             \/ \E j \in 1..k : i = n + j /\ record'[i] = LineOf(first + j)
  <2>1. i \in DOMAIN record' /\ record'[i].event # 0 /\ i \in Int
    BY <1>5 DEF EventLines
  <2>2. CASE i \in DOMAIN record
    BY <1>5, <2>1, <2>2 DEF EventLines
  <2>3. CASE i - n \in 1..k
    <3>1. i = n + (i - n)
      BY <1>1, <2>1
    <3>. QED BY <1>5, <2>3, <3>1
  <2>. QED BY <1>5, <2>1, <2>2, <2>3
<1>8. /\ \A i \in EventLines : /\ record[i].event \in 1..first
                              /\ record[i] = LineOf(record[i].event)
      /\ \A e \in 1..first : \E i \in EventLines : record[i] = LineOf(e)
      /\ \A i, j \in EventLines : i < j => record[i].event < record[j].event
  BY DEF RecordInv, first, k
<1>9. \A e : LineOf(e).event = e
  BY DEF LineOf
<1>10. ASSUME NEW i \in EventLines'
       PROVE  /\ record'[i].event \in 1..Accepted
              /\ record'[i] = LineOf(record'[i].event)
  <2>1. CASE i \in EventLines /\ record'[i] = record[i]
    <3>1. 1..first \subseteq 1..Accepted
      BY <1>1 DEF first
    <3>. QED BY <1>8, <2>1, <3>1
  <2>2. CASE \E j \in 1..k : i = n + j /\ record'[i] = LineOf(first + j)
    BY <1>3, <1>9, <2>2
  <2>. QED BY <1>7, <2>1, <2>2
<1>11. ASSUME NEW e \in 1..Accepted
       PROVE  \E i \in EventLines' : record'[i] = LineOf(e)
  <2>1. CASE e \in 1..first
    <3>1. PICK i \in EventLines : record[i] = LineOf(e)
      BY <1>8, <2>1
    <3>2. i \in DOMAIN record /\ i \in 1..n + k /\ record'[i] = record[i]
      BY <1>1, <1>5 DEF EventLines
    <3>. QED BY <1>5, <3>1, <3>2 DEF EventLines
  <2>2. CASE e \notin 1..first
    <3>1. e - first \in 1..k /\ first + (e - first) = e
      BY <1>1, <2>2 DEF first
    <3>2. n + (e - first) \in 1..n + k
      BY <1>1, <3>1
    <3>3. record'[n + (e - first)] = LineOf(e)
      BY <1>5, <3>1
    <3>4. n + (e - first) \in EventLines'
      BY <1>5, <1>9, <3>2, <3>3 DEF EventLines
    <3>. QED BY <3>3, <3>4
  <2>. QED BY <2>1, <2>2
<1>12. ASSUME NEW i \in EventLines', NEW j \in EventLines', i < j
       PROVE  record'[i].event < record'[j].event
  <2>1. CASE j \in EventLines /\ record'[j] = record[j]
    <3>1. i \in EventLines /\ record'[i] = record[i]
      <4>1. j \in 1..n
        BY <1>5, <2>1 DEF EventLines
      <4>2. \A l \in 1..k : i # n + l
        BY <1>1, <1>12, <4>1
      <4>. QED BY <1>7, <4>2
    <3>. QED BY <1>8, <1>12, <2>1, <3>1
  <2>2. ASSUME NEW l \in 1..k, j = n + l, record'[j] = LineOf(first + l)
        PROVE  record'[i].event < record'[j].event
    <3>1. record'[j].event = first + l
      BY <1>9, <2>2
    <3>2. CASE i \in EventLines /\ record'[i] = record[i]
      <4>1. record'[i].event \in 1..first
        BY <1>8, <3>2
      <4>. QED BY <1>1, <3>1, <4>1, SMTT(30)
    <3>3. ASSUME NEW m \in 1..k, i = n + m, record'[i] = LineOf(first + m)
          PROVE  record'[i].event < record'[j].event
      <4>1. record'[i].event = first + m /\ m < l
        BY <1>1, <1>9, <1>12, <2>2, <3>3
      <4>. QED BY <1>1, <3>1, <4>1
    <3>. QED BY <1>7, <3>2, <3>3
  <2>. QED BY <1>7, <2>1, <2>2
<1>. QED BY <1>2, <1>6, <1>10, <1>11, <1>12 DEF RecordInv

LEMMA RecordNext ==
  BatcherTypeOK /\ TailOfAccepted /\ RecordInv /\ [Next]_vars => RecordInv'
<1>. SUFFICES ASSUME BatcherTypeOK, TailOfAccepted, RecordInv, [Next]_vars,
                     Recording
              PROVE  RecordInv'
  BY DEF RecordInv
<1>. USE FanoutAssumption
<1>0. /\ record \in Seq(Line) /\ arrived \in Seq(Nat) /\ now \in Nat
      /\ Accepted = Len(arrived) /\ Accepted \in Nat
      /\ pending \in Seq(Nat) /\ Len(pending) \in 0..Accepted
  BY PendingNumbers DEF BatcherTypeOK, Line, Accepted
<1>1. ASSUME EventLines' = EventLines,
             \A i \in EventLines : record'[i] = record[i],
             Accepted' - Len(pending') = Accepted - Len(pending),
             \A e \in 1..Accepted - Len(pending) : arrived'[e] = arrived[e]
      PROVE  RecordInv'
  <2>2. ASSUME NEW i \in EventLines
        PROVE  /\ record'[i].event \in 1..Accepted - Len(pending)
               /\ record'[i] = [ts |-> arrived'[record'[i].event],
                                event |-> record'[i].event]
    <3>1. /\ record[i].event \in 1..Accepted - Len(pending)
          /\ record[i] = [ts |-> arrived[record[i].event],
                          event |-> record[i].event]
      BY DEF RecordInv, LineOf
    <3>2. arrived'[record[i].event] = arrived[record[i].event]
      BY <1>1, <3>1
    <3>. QED BY <1>1, <3>1, <3>2
  <2>3. \A e \in 1..Accepted - Len(pending) :
          \E i \in EventLines : record'[i] = [ts |-> arrived'[e], event |-> e]
    BY <1>1 DEF RecordInv, LineOf
  <2>4. \A i, j \in EventLines : i < j => record'[i].event < record'[j].event
    BY <1>1 DEF RecordInv
  <2>. QED BY <1>1, <2>2, <2>3, <2>4 DEF RecordInv, LineOf
<1>2. CASE UNCHANGED <<record, arrived, pending>>
  BY <1>1, <1>2 DEF EventLines, Accepted
<1>3. ASSUME NEW alarms \in 0..MaxControls, AcceptFly(alarms)
      PROVE  RecordInv'
  <2>. DEFINE t == [i \in 1..alarms |-> [ts |-> now, event |-> 0]]
  <2>1. t \in Seq(Line) /\ Len(t) = alarms /\ \A i \in 1..alarms : t[i].event = 0
    BY <1>0, FunctionIsSeq DEF Line
  <2>2. WriteLines(t)
    BY <1>3 DEF AcceptFly
  <2>3. Accepted' = Accepted + 1 /\ Len(pending') = Len(pending) + 1
    BY <1>0, <1>3, AppendProperties DEF AcceptFly, Accepted
  <2>4. \A e \in 1..Accepted : arrived'[e] = arrived[e]
    BY <1>0, <1>3, AppendProperties DEF AcceptFly
  <2>5. /\ Accepted' - Len(pending') = Accepted - Len(pending)
        /\ \A e \in 1..Accepted - Len(pending) : e \in 1..Accepted
    BY <1>0, <2>3
  <2>. HIDE DEF t
  <2>6. /\ EventLines' = EventLines
        /\ \A i \in EventLines : record'[i] = record[i]
    BY <1>0, <2>1, <2>2, ControlLines
  <2>. QED BY <1>1, <2>4, <2>5, <2>6
<1>4. CASE AcceptControl
  <2>. DEFINE t == <<[ts |-> now, event |-> 0]>>
  <2>1. t \in Seq(Line) /\ Len(t) = 1 /\ \A i \in 1..1 : t[i].event = 0
    BY <1>0 DEF Line
  <2>2. WriteLines(t) /\ UNCHANGED <<arrived, pending>>
    BY <1>4 DEF AcceptControl
  <2>. HIDE DEF t
  <2>3. /\ EventLines' = EventLines
        /\ \A i \in EventLines : record'[i] = record[i]
    BY <1>0, <2>1, <2>2, ControlLines
  <2>. QED BY <1>1, <2>2, <2>3 DEF Accepted
<1>5. CASE CommitBatch
  BY <1>5, RecordCommit
<1>. QED BY <1>2, <1>3, <1>4, <1>5, ClientFrame
         DEF Next, Batcher, Advance, InsertLabel, BroadcastLabel,
             BroadcastBatch, vars, batcherVars

(***************************************************************************)
(* Its times: no line is of the future, and only a control stands before a *)
(* line of an earlier time, which is an event's.                           *)
(***************************************************************************)
Overtakes(i, j) == record[i].event = 0 /\ record[j].event # 0

TimesInv ==
  Recording =>
    /\ \A i \in DOMAIN record : record[i].ts <= now
    /\ \A i, j \in DOMAIN record :
         i < j /\ record[i].ts > record[j].ts => Overtakes(i, j)

LEMMA TimesOfLines ==
  ASSUME NEW t \in Seq(Line)
  PROVE  /\ DOMAIN t = 1..Len(t)
         /\ \A i \in 1..Len(t) : t[i].ts \in Nat
<1>1. DOMAIN t = 1..Len(t) /\ \A i \in 1..Len(t) : t[i] \in Line
  BY LenProperties, ElementOfSeq
<1>. QED BY <1>1 DEF Line

LEMMA TimesAppended ==
  ASSUME BatcherTypeOK, TimesInv, Recording, now' = now,
         NEW t \in Seq(Line), WriteLines(t),
         \A j \in 1..Len(t) : t[j].ts <= now,
         \A i, j \in 1..Len(t) : i < j => t[i].ts <= t[j].ts,
         \A i \in DOMAIN record, j \in 1..Len(t) :
           record[i].ts > t[j].ts => record[i].event = 0 /\ t[j].event # 0
  PROVE  TimesInv'
<1>. DEFINE n == Len(record)
<1>1. record \in Seq(Line) /\ record' = record \o t /\ now \in Nat
  BY DEF BatcherTypeOK, Line, WriteLines
<1>2. /\ n \in Nat /\ Len(t) \in Nat /\ DOMAIN record' = 1..n + Len(t)
      /\ \A i \in DOMAIN record : i \in 1..n /\ record'[i] = record[i]
      /\ \A j \in 1..Len(t) : record'[n + j] = t[j]
      /\ \A i \in DOMAIN record' : i \in DOMAIN record \/ i - n \in 1..Len(t)
  BY <1>1, LinesOfConcat
<1>3. /\ \A i \in DOMAIN record : record[i].ts \in Nat
      /\ \A j \in 1..Len(t) : t[j].ts \in Nat
  BY <1>1, TimesOfLines
<1>. HIDE DEF n
<1>4. ASSUME NEW i \in DOMAIN record'
      PROVE  \/ i \in DOMAIN record /\ i \in 1..n /\ record'[i] = record[i]
             \/ i - n \in 1..Len(t) /\ i > n /\ record'[i] = t[i - n]
  <2>1. CASE i \in DOMAIN record
    BY <1>2, <2>1
  <2>2. CASE i - n \in 1..Len(t)
    <3>1. i \in Int /\ i > n /\ n + (i - n) = i
      BY <1>2, <2>2
    <3>. QED BY <1>2, <2>2, <3>1
  <2>. QED BY <1>2, <2>1, <2>2
<1>5. ASSUME NEW i \in DOMAIN record' PROVE record'[i].ts <= now
  BY <1>4, <1>5 DEF TimesInv
<1>6. ASSUME NEW i \in DOMAIN record', NEW j \in DOMAIN record', i < j,
             record'[i].ts > record'[j].ts
      PROVE  Overtakes(i, j)'
  <2>0. i \in Int /\ j \in Int
    BY <1>2
  <2>1. CASE j \in DOMAIN record
    <3>1. i \in DOMAIN record /\ record'[i] = record[i] /\ record'[j] = record[j]
      BY <1>2, <1>4, <1>6, <2>0, <2>1
    <3>2. Overtakes(i, j)
      BY <1>6, <2>1, <3>1 DEF TimesInv
    <3>. QED BY <3>1, <3>2 DEF Overtakes
  <2>2. CASE i \in DOMAIN record /\ j \notin DOMAIN record
    <3>1. /\ record'[i] = record[i] /\ record'[j] = t[j - n]
          /\ j - n \in 1..Len(t)
      BY <1>2, <1>4, <2>2
    <3>. QED BY <1>6, <2>2, <3>1 DEF Overtakes
  <2>3. CASE i \notin DOMAIN record /\ j \notin DOMAIN record
    <3>1. /\ record'[i] = t[i - n] /\ i - n \in 1..Len(t)
          /\ record'[j] = t[j - n] /\ j - n \in 1..Len(t)
      BY <1>4, <2>3
    <3>2. i - n < j - n
      BY <1>2, <1>6, <2>0
    <3>3. t[i - n].ts <= t[j - n].ts
      BY <3>1, <3>2
    <3>. QED BY <1>3, <1>6, <3>1, <3>3
  <2>. QED BY <2>1, <2>2, <2>3
<1>. QED BY <1>5, <1>6 DEF TimesInv

LEMMA TimesCommit ==
  ASSUME BatcherTypeOK, WindowInv, RecordInv, TimesInv, CommitBatch, Recording
  PROVE  TimesInv'
<1>. DEFINE k == Len(pending)
            first == Accepted - k
            t == [i \in 1..k |-> [ts |-> arrived[pending[i]], event |-> pending[i]]]
<1>1. /\ k \in 0..Accepted /\ Accepted \in Nat /\ first \in Nat
      /\ \A i \in 1..k : pending[i] = first + i
      /\ \A e \in 1..Accepted : arrived[e] \in Nat /\ arrived[e] <= now
      /\ \A d, e \in 1..Accepted : d <= e => arrived[d] <= arrived[e]
  <2>1. arrived \in Seq(Nat) /\ Accepted = Len(arrived)
    BY DEF BatcherTypeOK, Accepted
  <2>. QED BY <2>1, PendingNumbers, ElementOfSeq DEF WindowInv, ArrivalOrder
<1>. HIDE DEF first
<1>2. ASSUME NEW i \in 1..k
      PROVE  /\ first + i \in 1..Accepted
             /\ t[i].ts = arrived[first + i] /\ t[i].event = first + i
             /\ t[i] \in Line
  <2>1. first + i \in 1..Accepted
    BY <1>1, SMTT(30) DEF first
  <2>2. t[i] = [ts |-> arrived[first + i], event |-> first + i]
    BY <1>1
  <2>. QED BY <1>1, <2>1, <2>2 DEF Line
<1>3. t \in Seq(Line) /\ Len(t) = k
  <2>1. t \in [1..k -> Line] /\ k \in Nat
    BY <1>1, <1>2
  <2>. HIDE DEF t, k
  <2>. QED BY <2>1, FunctionIsSeq
<1>4. WriteLines(t) /\ now' = now
  BY DEF CommitBatch
<1>. HIDE DEF t, k
<1>5. \A j \in 1..k : t[j].ts <= now
  BY <1>1, <1>2
<1>6. ASSUME NEW i \in 1..k, NEW j \in 1..k, i < j PROVE t[i].ts <= t[j].ts
  <2>1. first + i <= first + j
    BY <1>1, <1>6
  <2>. QED BY <1>1, <1>2, <2>1
<1>7. ASSUME NEW i \in DOMAIN record, NEW j \in 1..k, record[i].ts > t[j].ts
      PROVE  record[i].event = 0 /\ t[j].event # 0
  <2>1. t[j].event # 0 /\ t[j].ts = arrived[first + j]
        /\ first + j \in 1..Accepted
    BY <1>2
  <2>2. CASE record[i].event # 0
    <3>1. /\ record[i].event \in 1..first
          /\ record[i].ts = arrived[record[i].event]
      BY <2>2 DEF RecordInv, EventLines, LineOf, first, k
    <3>2. record[i].event \in 1..Accepted /\ record[i].event <= first + j
      BY <1>1, <2>1, <3>1
    <3>3. arrived[record[i].event] <= arrived[first + j]
      BY <1>1, <2>1, <3>2
    <3>. QED BY <1>1, <1>7, <2>1, <3>1, <3>2, <3>3
  <2>. QED BY <2>1, <2>2
<1>. QED BY <1>3, <1>4, <1>5, <1>6, <1>7, TimesAppended

LEMMA TimesNext ==
  BatcherTypeOK /\ WindowInv /\ RecordInv /\ TimesInv /\ [Next]_vars => TimesInv'
<1>. SUFFICES ASSUME BatcherTypeOK, WindowInv, RecordInv, TimesInv,
                     [Next]_vars, Recording
              PROVE  TimesInv'
  BY DEF TimesInv
<1>0. /\ now \in Nat
      /\ \A i \in DOMAIN record : record[i].ts \in Nat /\ record[i].ts <= now
  <2>1. now \in Nat /\ record \in Seq(Line)
    BY DEF BatcherTypeOK, Line
  <2>2. \A i \in DOMAIN record : record[i].ts <= now
    BY DEF TimesInv
  <2>. QED BY <2>1, <2>2, TimesOfLines
<1>1. ASSUME NEW t \in Seq(Line), WriteLines(t), now' = now,
             \A i \in 1..Len(t) : t[i].ts = now
      PROVE  TimesInv'
  BY <1>0, <1>1, TimesAppended
<1>2. CASE UNCHANGED <<now, record>>
  BY <1>2 DEF TimesInv, Overtakes
<1>3. CASE Advance
  BY <1>0, <1>3 DEF Advance, TimesInv, Overtakes
<1>4. ASSUME NEW alarms \in 0..MaxControls, AcceptFly(alarms)
      PROVE  TimesInv'
  <2>. DEFINE t == [i \in 1..alarms |-> [ts |-> now, event |-> 0]]
  <2>1. t \in Seq(Line) /\ Len(t) = alarms /\ \A i \in 1..alarms : t[i].ts = now
    <3>1. alarms \in Nat
      BY FanoutAssumption
    <3>2. t \in [1..alarms -> Line] /\ \A i \in 1..alarms : t[i].ts = now
      BY <1>0 DEF Line
    <3>. HIDE DEF t
    <3>. QED BY <3>1, <3>2, FunctionIsSeq
  <2>2. WriteLines(t) /\ now' = now
    BY <1>4 DEF AcceptFly
  <2>. HIDE DEF t
  <2>. QED BY <1>1, <2>1, <2>2
<1>5. CASE AcceptControl
  <2>. DEFINE t == <<[ts |-> now, event |-> 0]>>
  <2>1. t \in Seq(Line) /\ \A i \in 1..Len(t) : t[i].ts = now
    BY <1>0 DEF Line
  <2>2. WriteLines(t) /\ now' = now
    BY <1>5 DEF AcceptControl
  <2>. HIDE DEF t
  <2>. QED BY <1>1, <2>1, <2>2
<1>6. CASE CommitBatch
  BY <1>6, TimesCommit
<1>. QED BY <1>2, <1>3, <1>4, <1>5, <1>6, ClientFrame
         DEF Next, Batcher, InsertLabel, BroadcastLabel, BroadcastBatch, vars,
             batcherVars

(***************************************************************************)
(* The record file holds every flushed event once and in arrival order,    *)
(* and nothing but a control ever overtakes an event.                      *)
(***************************************************************************)
THEOREM Recorded == Spec => []RecordIsComplete
<1>1. Init => RecordInv /\ TimesInv
  BY RecordInit DEF Init, TimesInv
<1>2. RecordInv /\ TimesInv => RecordIsComplete
  <2>. SUFFICES ASSUME RecordInv, TimesInv, Recording PROVE RecordIsComplete
    BY DEF RecordIsComplete
  <2>1. \A i, j \in DOMAIN record :
          i < j /\ record[i].ts > record[j].ts => i \notin EventLines
                                                /\ j \in EventLines
    BY DEF TimesInv, Overtakes, EventLines
  <2>. QED BY <2>1 DEF RecordInv, RecordIsComplete
<1>3. TypeOK /\ WindowInv => BatcherTypeOK /\ TailOfAccepted
  BY DEF TypeOK, WindowInv
<1>. QED BY <1>1, <1>2, <1>3, RecordNext, TimesNext, TypeCorrect, Window, PTL
         DEF Spec

-----------------------------------------------------------------------------
(* Captions.                                                               *)

(* The caption of board b may be l: it is that of the table, or the table  *)
(* has just been written.                                                  *)
Settled(b, l) == l = labels[b] \/ (stage = "announce" /\ announcing[1] = b)

(* No caption that was sent or shown is missing in the table.              *)
TableInv ==
  /\ stage = "announce" => labels[announcing[1]] = announcing[2]
  /\ \A i \in 1..Len(sent) :
       sent[i].kind = "board" => labels[sent[i].board] # NoCaption
  /\ \A c \in Clients, b \in Boards :
       screen[c][b] # NoCaption => labels[b] # NoCaption

(* The last caption that is coming, or else the one on the screen, has     *)
(* settled.                                                                *)
CaptionInv(c) ==
  ~lagged[c] => \A b \in Boards :
    /\ \A i \in LabelsComing(c, b) :
         (\A j \in LabelsComing(c, b) : j <= i) => Settled(b, sent[i].caption)
    /\ phase[c] # "subscribed" /\ LabelsComing(c, b) = {} =>
         Settled(b, screen[c][b])

ConvergeInv == TableInv /\ \A c \in Connected : CaptionInv(c)

LEMMA ConvergeInit == Init => ConvergeInv
BY DEF Init, ConvergeInv, TableInv, Connected

(***************************************************************************)
(* Publishing frames that are not captions, with the table left alone.     *)
(***************************************************************************)
LEMMA ConvergePublish ==
  ASSUME TypeOK, ConvergeInv, UNCHANGED <<clientVars, labels, announcing>>,
         stage' = "announce" <=> stage = "announce",
         NEW fs \in Seq(Frames), Publish(fs),
         \A i \in 1..Len(fs) : fs[i].kind # "board"
  PROVE  ConvergeInv'
<1>1. CASE sent' = sent
  BY <1>1 DEF ConvergeInv, TableInv, CaptionInv, Settled, LabelsComing,
              Connected, clientVars
<1>2. CASE sent' = sent \o fs
  <2>. DEFINE n == Len(sent)
  <2>1. /\ n \in Nat /\ Len(fs) \in Nat /\ Len(sent') = n + Len(fs)
        /\ \A i \in 1..n : sent'[i] = sent[i]
        /\ \A i \in 1..Len(fs) : sent'[n + i] = fs[i]
        /\ cursor \in [Clients -> Nat \ {0}]
    <3>1. sent \in Seq(Frames) /\ cursor \in [Clients -> Nat \ {0}]
      BY DEF TypeOK, BatcherTypeOK, ClientTypeOK
    <3>. QED BY <1>2, <3>1
  <2>. HIDE DEF n
  <2>2. \A i \in 1..Len(sent') :
          sent'[i].kind = "board" => i \in 1..n /\ sent'[i] = sent[i]
    <3>1. ASSUME NEW i \in 1..Len(sent')
          PROVE  i \in 1..n \/ (i - n \in 1..Len(fs) /\ n + (i - n) = i)
      BY <2>1
    <3>. QED BY <2>1, <3>1
  <2>3. TableInv'
    <3>1. UNCHANGED <<labels, announcing, screen>>
      BY DEF clientVars
    <3>. QED BY <2>2, <3>1 DEF ConvergeInv, TableInv, n
  <2>4. ASSUME NEW c \in Connected, NEW b \in Boards
        PROVE  LabelsComing(c, b)' = LabelsComing(c, b)
    <3>1. cursor' = cursor /\ cursor[c] \in Nat \ {0}
      BY <2>1 DEF clientVars, Connected
    <3>2. /\ \A i \in cursor[c]..Len(sent') : i \in 1..Len(sent')
          /\ \A i \in cursor[c]..n : i \in cursor[c]..Len(sent') /\ i \in 1..n
          /\ \A i \in cursor[c]..Len(sent') : i \in 1..n => i \in cursor[c]..n
      BY <2>1, <3>1
    <3>. QED BY <2>1, <2>2, <3>1, <3>2 DEF LabelsComing, n
  <2>5. ASSUME NEW c \in Connected' PROVE CaptionInv(c)'
    <3>1. /\ UNCHANGED <<lagged, phase, screen, labels, announcing>>
          /\ c \in Connected /\ cursor[c] \in Nat \ {0}
      BY <2>1 DEF clientVars, Connected
    <3>2. \A b \in Boards : \A i \in LabelsComing(c, b) : sent'[i] = sent[i]
      <4>1. \A i \in cursor[c]..n : i \in 1..n
        BY <2>1, <3>1
      <4>. QED BY <2>1, <4>1 DEF LabelsComing, n
    <3>. QED BY <2>4, <3>1, <3>2 DEF ConvergeInv, CaptionInv, Settled
  <2>. QED BY <2>3, <2>5 DEF ConvergeInv
<1>. QED BY <1>1, <1>2 DEF Publish

(* The table is written: only its own board is unsettled. *)
LEMMA ConvergeInsert ==
  ASSUME TypeOK, ConvergeInv, NEW b \in Boards, NEW l \in Captions,
         InsertLabel(b, l)
  PROVE  ConvergeInv'
<1>1. /\ UNCHANGED <<sent, clientVars>> /\ labels' = [labels EXCEPT ![b] = l]
      /\ announcing' = <<b, l>> /\ announcing'[1] = b /\ announcing'[2] = l
      /\ stage = "select" /\ stage' = "announce" /\ l # NoCaption
      /\ sent \in Seq(Frames)
      /\ labels \in [Boards -> Captions \cup {NoCaption}]
  BY FanoutAssumption DEF InsertLabel, TypeOK, BatcherTypeOK
<1>2. /\ labels'[b] = l
      /\ \A a \in Boards : labels[a] # NoCaption => labels'[a] # NoCaption
      /\ \A a \in Boards : a # b => labels'[a] = labels[a]
  BY <1>1
<1>3. \A i \in 1..Len(sent) : sent[i].kind = "board" => sent[i].board \in Boards
  <2>1. \A i \in 1..Len(sent) : sent[i] \in Frames
    BY <1>1
  <2>. QED BY <2>1 DEF Frames, FlyFrames, CtrlFrames, LabelFrames
<1>4. TableInv'
  BY <1>1, <1>2, <1>3 DEF ConvergeInv, TableInv, clientVars
<1>5. ASSUME NEW c \in Connected' PROVE CaptionInv(c)'
  <2>1. /\ UNCHANGED <<lagged, phase, screen, cursor>> /\ c \in Connected
        /\ CaptionInv(c)
    BY <1>1 DEF clientVars, Connected, ConvergeInv
  <2>2. \A a \in Boards : LabelsComing(c, a)' = LabelsComing(c, a)
    BY <1>1, <2>1 DEF LabelsComing
  <2>3. \A a \in Boards : \A x : Settled(a, x) => Settled(a, x)'
    BY <1>1, <1>2 DEF Settled
  <2>. QED BY <1>1, <2>1, <2>2, <2>3 DEF CaptionInv
<1>. QED BY <1>4, <1>5 DEF ConvergeInv

(* The caption is sent: it is the last one coming, and that of the table.  *)
LEMMA ConvergeBroadcast ==
  ASSUME TypeOK, ConvergeInv, HandoverInv, BroadcastLabel
  PROVE  ConvergeInv'
<1>0. PICK b \in Boards : announcing[1] = b
  BY DEF BroadcastLabel, TypeOK, BatcherTypeOK
<1>. DEFINE f == [kind |-> "board", board |-> announcing[1],
                  caption |-> announcing[2]]
            n == Len(sent)
<1>1. /\ UNCHANGED <<clientVars, labels>> /\ Publish(<<f>>)
      /\ stage = "announce" /\ stage' = "select"
      /\ announcing \in Boards \X Captions /\ labels[b] = announcing[2]
      /\ sent \in Seq(Frames) /\ n \in Nat
      /\ cursor \in [Clients -> Nat \ {0}]
  <2>1. announcing \in Boards \X Captions
    BY DEF BroadcastLabel, TypeOK, BatcherTypeOK
  <2>. QED BY <1>0, <2>1 DEF BroadcastLabel, TypeOK, BatcherTypeOK,
                ClientTypeOK, ConvergeInv, TableInv
<1>2. f.kind = "board" /\ f.board = b /\ f.caption = labels[b]
      /\ labels[b] # NoCaption
  BY <1>0, <1>1, FanoutAssumption
<1>. HIDE DEF f, n
<1>3. sent' # sent =>
        /\ Len(sent') = n + 1 /\ sent'[n + 1] = f
        /\ \A i \in 1..n : sent'[i] = sent[i]
  <2>1. sent' # sent => sent' = Append(sent, f)
    BY <1>1 DEF Publish
  <2>. QED BY <1>1, <2>1, AppendProperties DEF n
<1>4. TableInv'
  <2>1. UNCHANGED <<labels, screen>> /\ stage' = "select"
    BY <1>1 DEF clientVars
  <2>2. ASSUME NEW i \in 1..Len(sent'), sent'[i].kind = "board"
        PROVE  labels[sent'[i].board] # NoCaption
    <3>1. CASE sent' = sent
      BY <2>2, <3>1 DEF ConvergeInv, TableInv
    <3>2. CASE sent' # sent
      <4>1. i = n + 1 \/ i \in 1..n
        BY <1>1, <1>3, <3>2
      <4>. QED BY <1>2, <1>3, <2>2, <3>2, <4>1 DEF ConvergeInv, TableInv, n
    <3>. QED BY <3>1, <3>2
  <2>. QED BY <2>1, <2>2 DEF ConvergeInv, TableInv
<1>5. ASSUME NEW c \in Connected' PROVE CaptionInv(c)'
  <2>1. /\ UNCHANGED <<lagged, phase, screen, cursor, labels>>
        /\ c \in Connected /\ CaptionInv(c) /\ cursor[c] \in Nat \ {0}
        /\ cursor[c] <= n + 1
    BY <1>1 DEF clientVars, Connected, ConvergeInv, HandoverInv, SessionInv, n
  <2>2. /\ Len(sent') = n + 1 /\ sent'[n + 1] = f
        /\ \A i \in 1..n : sent'[i] = sent[i]
    <3>1. sent' = Append(sent, f)
      BY <1>1, <2>1 DEF Publish
    <3>. QED BY <1>1, <3>1, AppendProperties DEF n
  <2>3. /\ n + 1 \in cursor[c]..n + 1
        /\ \A i \in cursor[c]..n + 1 : i <= n + 1
        /\ \A i \in cursor[c]..n + 1 : i = n + 1 \/ i \in cursor[c]..n
        /\ \A i \in cursor[c]..n : i \in cursor[c]..n + 1 /\ i \in 1..n
    BY <1>1, <2>1
  <2>4. \A i \in LabelsComing(c, b)' :
          (\A j \in LabelsComing(c, b)' : j <= i) => i = n + 1
    <3>1. /\ n + 1 \in LabelsComing(c, b)'
          /\ LabelsComing(c, b)' \subseteq cursor[c]..n + 1
      BY <1>2, <2>1, <2>2, <2>3 DEF LabelsComing
    <3>2. \A i \in cursor[c]..n + 1 : n + 1 <= i => i = n + 1
      BY <1>1, <2>1
    <3>. QED BY <3>1, <3>2
  <2>5. LabelsComing(c, b)' # {}
    BY <1>2, <2>1, <2>2, <2>3 DEF LabelsComing
  <2>6. ASSUME NEW a \in Boards, a # b
        PROVE  /\ LabelsComing(c, a)' = LabelsComing(c, a)
               /\ \A i \in LabelsComing(c, a) : sent'[i] = sent[i]
    BY <1>2, <2>1, <2>2, <2>3, <2>6 DEF LabelsComing, n
  <2>7. \A a \in Boards : \A x : a # b => (Settled(a, x) => Settled(a, x)')
    BY <1>0, <1>1 DEF Settled
  <2>8. f.caption = labels'[b]
    BY <1>1, <1>2
  <2>9. ASSUME NEW a \in Boards, ~lagged[c]
        PROVE  /\ \A i \in LabelsComing(c, a)' :
                    (\A j \in LabelsComing(c, a)' : j <= i) =>
                      Settled(a, sent[i].caption)'
               /\ phase[c] # "subscribed" /\ LabelsComing(c, a)' = {} =>
                    Settled(a, screen[c][a])'
    <3>1. CASE a = b
      BY <2>2, <2>4, <2>5, <2>8, <3>1 DEF Settled
    <3>2. CASE a # b
      BY <2>1, <2>6, <2>7, <2>9, <3>2, ZenonT(30) DEF CaptionInv, Settled
    <3>. QED BY <3>1, <3>2
  <2>. QED BY <2>1, <2>9 DEF CaptionInv
<1>. QED BY <1>4, <1>5 DEF ConvergeInv

LEMMA ConvergeBatcher ==
  ASSUME TypeOK, HandoverInv, ConvergeInv, Advance \/ Batcher
  PROVE  ConvergeInv'
<1>0. UNCHANGED clientVars /\ pending \in Seq(Nat)
  <2>1. pending \in Seq(1..Accepted) /\ (1..Accepted) \subseteq Nat
    BY DEF TypeOK, BatcherTypeOK
  <2>. QED BY <2>1, BatcherFrame, SeqMonotonic
<1>1. CASE UNCHANGED <<labels, announcing, sent>> /\ stage # "announce"
             /\ stage' # "announce"
  BY <1>0, <1>1 DEF ConvergeInv, TableInv, CaptionInv, Settled, LabelsComing,
                    Connected, clientVars
<1>2. CASE UNCHANGED <<labels, announcing, sent, stage>>
  BY <1>0, <1>2 DEF ConvergeInv, TableInv, CaptionInv, Settled, LabelsComing,
                    Connected, clientVars
<1>3. CASE Advance
  BY <1>2, <1>3 DEF Advance
<1>4. ASSUME NEW alarms \in 0..MaxControls, AcceptFly(alarms)
      PROVE  ConvergeInv'
  <2>. DEFINE fs == [i \in 1..alarms |-> CtrlFrame]
  <2>1. /\ fs \in Seq(Frames) /\ Len(fs) = alarms
        /\ \A i \in 1..alarms : fs[i].kind # "board"
    BY FunctionIsSeq, FanoutAssumption DEF CtrlFrame, Frames, CtrlFrames
  <2>2. Publish(fs) /\ UNCHANGED <<labels, stage, announcing>>
    BY <1>4 DEF AcceptFly
  <2>. HIDE DEF fs
  <2>. QED BY <1>0, <2>1, <2>2, ConvergePublish
<1>5. CASE AcceptControl
  <2>. DEFINE fs == <<CtrlFrame>>
  <2>1. /\ fs \in Seq(Frames) /\ Len(fs) = 1
        /\ \A i \in 1..1 : fs[i].kind # "board"
    BY DEF CtrlFrame, Frames, CtrlFrames
  <2>2. Publish(fs) /\ UNCHANGED <<labels, stage, announcing>>
    BY <1>5 DEF AcceptControl
  <2>. HIDE DEF fs
  <2>. QED BY <1>0, <2>1, <2>2, ConvergePublish
<1>6. ASSUME NEW b \in Boards, NEW l \in Captions, InsertLabel(b, l)
      PROVE  ConvergeInv'
  BY <1>6, ConvergeInsert
<1>7. CASE BroadcastLabel
  BY <1>7, ConvergeBroadcast
<1>8. CASE BroadcastBatch
  <2>. DEFINE fs == <<[kind |-> "fly", events |-> pending]>>
  <2>1. /\ fs \in Seq(Frames) /\ Len(fs) = 1
        /\ \A i \in 1..1 : fs[i].kind # "board"
    BY <1>0 DEF Frames, FlyFrames
  <2>2. /\ Publish(fs) /\ UNCHANGED <<labels, announcing>>
        /\ stage = "select" /\ stage' = "commit"
    BY <1>8 DEF BroadcastBatch
  <2>. HIDE DEF fs
  <2>. QED BY <1>0, <2>1, <2>2, ConvergePublish
<1>9. CASE CommitBatch
  BY <1>1, <1>9 DEF CommitBatch
<1>. QED BY <1>3, <1>4, <1>5, <1>6, <1>7, <1>8, <1>9 DEF Batcher

(***************************************************************************)
(* A step of a connection.  The table's snapshot is taken after the        *)
(* subscription; a caption that is read was the first to come.             *)
(***************************************************************************)
LEMMA ConvergeClient ==
  ASSUME TypeOK, ConvergeInv, NEW c \in Clients,
         Subscribe(c) \/ Follow(c) \/ Disconnect(c)
  PROVE  ConvergeInv'
<1>. USE FanoutAssumption
<1>1. /\ UNCHANGED <<labels, stage, announcing, sent>>
      /\ \A b \in Boards : \A x : Settled(b, x)' = Settled(b, x)
  BY ClientFrame DEF batcherVars, Settled
<1>2. /\ sent \in Seq(Frames) /\ Len(sent) \in Nat
      /\ cursor \in [Clients -> Nat \ {0}] /\ phase \in [Clients -> Phases]
      /\ lagged \in [Clients -> BOOLEAN]
      /\ screen \in [Clients -> [Boards -> Captions \cup {NoCaption}]]
  BY DEF TypeOK, BatcherTypeOK, ClientTypeOK
<1>3. \A d \in Clients : d # c =>
        /\ phase'[d] = phase[d] /\ cursor'[d] = cursor[d]
        /\ lagged'[d] = lagged[d] /\ screen'[d] = screen[d]
  BY <1>2 DEF Subscribe, Follow, ReplayLabels, SnapshotRing, SendChunk, Recv,
              SkipLagged, Disconnect
<1>4. ASSUME NEW d \in Connected', d # c PROVE CaptionInv(d)'
  <2>1. d \in Connected /\ CaptionInv(d)
    BY <1>3, <1>4 DEF Connected, ConvergeInv
  <2>2. \A b \in Boards : LabelsComing(d, b)' = LabelsComing(d, b)
    BY <1>1, <1>3, <1>4, <2>1 DEF LabelsComing, Connected
  <2>. QED BY <1>1, <1>3, <1>4, <2>1, <2>2
           DEF CaptionInv, Connected, Settled
<1>5. ASSUME \A b \in Boards : screen'[c][b] # NoCaption => labels[b] # NoCaption,
             c \in Connected' => CaptionInv(c)'
      PROVE  ConvergeInv'
  <2>1. TableInv'
    BY <1>1, <1>3, <1>5 DEF ConvergeInv, TableInv
  <2>. QED BY <1>4, <1>5, <2>1 DEF ConvergeInv
<1>6. \A b \in Boards : screen[c][b] # NoCaption => labels[b] # NoCaption
  BY DEF ConvergeInv, TableInv
<1>7. CASE Subscribe(c)
  <2>1. /\ screen' = screen /\ cursor'[c] = Len(sent) + 1
        /\ phase'[c] = "subscribed"
    BY <1>2, <1>7 DEF Subscribe
  <2>2. \A b \in Boards : LabelsComing(c, b)' = {}
    <3>1. Len(sent) + 1..Len(sent) = {}
      BY <1>2
    <3>. QED BY <1>1, <2>1, <3>1 DEF LabelsComing
  <2>. QED BY <1>5, <1>6, <2>1, <2>2 DEF CaptionInv
<1>8. CASE ReplayLabels(c)
  <2>1. /\ UNCHANGED <<cursor, lagged>> /\ phase[c] = "subscribed"
        /\ \A b \in Boards : screen'[c][b] = IF labels[b] = NoCaption
                                            THEN screen[c][b] ELSE labels[b]
    BY <1>2, <1>8 DEF ReplayLabels
  <2>2. \A b \in Boards : screen'[c][b] = labels[b]
    BY <1>6, <2>1
  <2>3. CaptionInv(c) /\ \A b \in Boards : LabelsComing(c, b)' = LabelsComing(c, b)
    BY <1>1, <2>1 DEF ConvergeInv, Connected, LabelsComing
  <2>4. \A b \in Boards : Settled(b, screen'[c][b])
    BY <2>2 DEF Settled
  <2>5. CaptionInv(c)'
    BY <1>1, <2>1, <2>3, <2>4 DEF CaptionInv, Settled
  <2>. QED BY <1>5, <2>2, <2>5
<1>9. CASE SnapshotRing(c) \/ SendChunk(c)
  <2>1. /\ UNCHANGED <<cursor, lagged, screen>>
        /\ phase[c] \in {"labelled", "backfill"}
    BY <1>2, <1>9 DEF SnapshotRing, SendChunk
  <2>2. CaptionInv(c) /\ \A b \in Boards : LabelsComing(c, b)' = LabelsComing(c, b)
    BY <1>1, <2>1 DEF ConvergeInv, Connected, LabelsComing
  <2>3. CaptionInv(c)'
    BY <1>1, <2>1, <2>2 DEF CaptionInv, Settled
  <2>. QED BY <1>5, <1>6, <2>1, <2>3
<1>10. CASE SkipLagged(c)
  <2>1. screen' = screen /\ lagged'[c]
    BY <1>2, <1>10 DEF SkipLagged
  <2>. QED BY <1>5, <1>6, <2>1 DEF CaptionInv
<1>11. CASE Disconnect(c)
  <2>1. screen' = screen /\ phase'[c] = "off"
    BY <1>2, <1>11 DEF Disconnect
  <2>. QED BY <1>5, <1>6, <2>1 DEF Connected
<1>12. CASE Recv(c)
  <2>. DEFINE f == sent[cursor[c]]
  <2>1. /\ UNCHANGED <<phase, lagged>> /\ phase[c] = "live"
        /\ cursor'[c] = cursor[c] + 1
        /\ screen'[c] = IF f.kind = "board"
                        THEN [screen[c] EXCEPT ![f.board] = f.caption]
                        ELSE screen[c]
        /\ c \in Connected /\ CaptionInv(c)
    BY <1>2, <1>12 DEF Recv, ConvergeInv, Connected
  <2>2. cursor[c] \in 1..Len(sent) /\ f \in Frames
    <3>1. Len(sent) - cursor[c] + 1 \in 1..CHAN_CAP
      BY <1>12 DEF Recv, Unread
    <3>2. cursor[c] \in 1..Len(sent)
      BY <1>2, <3>1
    <3>. QED BY <1>2, <3>2
  <2>3. f.kind = "board" => /\ f.board \in Boards /\ f.caption \in Captions
                            /\ labels[f.board] # NoCaption
    BY <2>2 DEF Frames, FlyFrames, CtrlFrames, LabelFrames, ConvergeInv,
                TableInv
  <2>4. /\ cursor[c]..Len(sent) = {cursor[c]} \cup cursor[c] + 1..Len(sent)
        /\ cursor[c] \notin cursor[c] + 1..Len(sent)
    BY <1>2, <2>2
  <2>5. \A b \in Boards :
          LabelsComing(c, b)' = LabelsComing(c, b) \ {cursor[c]}
    BY <1>1, <2>1, <2>4 DEF LabelsComing
  <2>6. \A b \in Boards :
          cursor[c] \in LabelsComing(c, b) <=> f.kind = "board" /\ f.board = b
    BY <2>4 DEF LabelsComing
  <2>7. \A b \in Boards : \A i \in LabelsComing(c, b) : cursor[c] <= i
    <3>1. \A i \in cursor[c]..Len(sent) : cursor[c] <= i
      BY <1>2
    <3>. QED BY <3>1 DEF LabelsComing
  <2>. HIDE DEF f
  <2>8. ASSUME NEW b \in Boards, ~lagged[c],
               NEW i \in LabelsComing(c, b)',
               \A j \in LabelsComing(c, b)' : j <= i
        PROVE  Settled(b, sent[i].caption)
    <3>1. i \in LabelsComing(c, b) /\ \A j \in LabelsComing(c, b) : j <= i
      BY <2>5, <2>7, <2>8
    <3>. QED BY <2>1, <2>8, <3>1 DEF CaptionInv
  <2>9. ASSUME NEW b \in Boards, ~lagged[c], LabelsComing(c, b)' = {}
        PROVE  Settled(b, screen'[c][b])
    <3>1. CASE f.kind = "board" /\ f.board = b
      <4>1. LabelsComing(c, b) = {cursor[c]} /\ cursor[c] <= cursor[c]
        BY <1>2, <2>5, <2>6, <2>9, <3>1
      <4>2. Settled(b, f.caption)
        BY <2>1, <2>9, <4>1 DEF CaptionInv, f
      <4>3. screen'[c][b] = f.caption
        BY <1>2, <2>1, <3>1
      <4>. QED BY <4>2, <4>3
    <3>2. CASE ~(f.kind = "board" /\ f.board = b)
      <4>1. LabelsComing(c, b) = {}
        BY <2>5, <2>6, <2>9, <3>2
      <4>2. Settled(b, screen[c][b])
        BY <2>1, <2>9, <4>1 DEF CaptionInv
      <4>3. screen'[c][b] = screen[c][b]
        BY <1>2, <2>1, <3>2
      <4>. QED BY <4>2, <4>3
    <3>. QED BY <3>1, <3>2
  <2>10. CaptionInv(c)'
    BY <1>1, <2>1, <2>8, <2>9 DEF CaptionInv, Settled
  <2>11. \A b \in Boards : screen'[c][b] # NoCaption => labels[b] # NoCaption
    BY <1>2, <1>6, <2>1, <2>3
  <2>. QED BY <1>5, <2>10, <2>11
<1>. QED BY <1>7, <1>8, <1>9, <1>10, <1>11, <1>12 DEF Follow

LEMMA ConvergeNext ==
  TypeOK /\ HandoverInv /\ ConvergeInv /\ [Next]_vars => ConvergeInv'
<1>. SUFFICES ASSUME TypeOK, HandoverInv, ConvergeInv, [Next]_vars
              PROVE  ConvergeInv'
  OBVIOUS
<1>1. CASE UNCHANGED vars
  BY <1>1 DEF ConvergeInv, TableInv, CaptionInv, Settled, LabelsComing,
              Connected, vars, batcherVars, clientVars
<1>. QED BY <1>1, ConvergeBatcher, ConvergeClient DEF Next

(***************************************************************************)
(* Once it has read what its channel holds, a connection that has not      *)
(* lagged shows the caption table.                                         *)
(***************************************************************************)
THEOREM Converge == Spec => []CaptionsConverge
<1>1. Init => ConvergeInv
  BY ConvergeInit
<1>2. TypeOK /\ ConvergeInv => CaptionsConverge
  <2>. SUFFICES ASSUME TypeOK, ConvergeInv, NEW c \in Connected, ~lagged[c],
                       phase[c] # "subscribed", NEW b \in Boards
                PROVE  Settled(b, FinalCaption(c, b))
    BY DEF CaptionsConverge, Settled
  <2>1. CaptionInv(c) /\ cursor[c] \in Nat \ {0} /\ Len(sent) \in Nat
    BY DEF ConvergeInv, TypeOK, BatcherTypeOK, ClientTypeOK, Connected
  <2>2. CASE LabelsComing(c, b) = {}
    BY <2>1, <2>2 DEF CaptionInv, FinalCaption
  <2>3. CASE LabelsComing(c, b) # {}
    <3>1. LabelsComing(c, b) \in SUBSET (1..Len(sent))
      <4>1. \A i \in cursor[c]..Len(sent) : i \in 1..Len(sent)
        BY <2>1
      <4>. QED BY <4>1 DEF LabelsComing
    <3>2. /\ Max(LabelsComing(c, b)) \in LabelsComing(c, b)
          /\ \A j \in LabelsComing(c, b) : j <= Max(LabelsComing(c, b))
      BY <2>1, <2>3, <3>1, FromOne, MaxProperties
    <3>. QED BY <2>1, <2>3, <3>2 DEF CaptionInv, FinalCaption
  <2>. QED BY <2>2, <2>3
<1>. QED BY <1>1, <1>2, ConvergeNext, TypeCorrect, Handover, PTL DEF Spec
=============================================================================
