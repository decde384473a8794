------------------------------- MODULE Fanout -------------------------------
(***************************************************************************)
(* The broker's fan-out: one batcher task turns accepted items into frames *)
(* on a broadcast channel, into lines of the record file and into entries  *)
(* of the rewind ring; any number of viewer connections subscribe to the   *)
(* channel, are brought up to date from the caption table and the ring,    *)
(* and then follow the channel (broker/src/main.rs, Shared, batcher and    *)
(* ws_client).                                                             *)
(*                                                                         *)
(* The batcher and the connections are tasks of a multi-threaded runtime:  *)
(* the only atomic pieces are one channel operation and one critical       *)
(* section of a mutex, and each of those is one action here.               *)
(*                                                                         *)
(* An event is the number of its arrival at the batcher.  Coordinates,     *)
(* flags and descriptions travel with it and are not looked at by any of   *)
(* this code.  A control command carries no payload.                       *)
(***************************************************************************)
EXTENDS Integers, Sequences, FiniteSets, SequencesExt

CONSTANTS
  Clients,      \* viewer connections
  Boards,       \* board indexes that have a caption
  Captions,     \* agent ids used as captions
  NoCaption,    \* a board without an entry in board_labels
  Recording,    \* whether --record was given
  REWIND,       \* REWIND_MS, in ticks of the model's clock
  RING_CAP,     \* capacity of the rewind ring
  CHAN_CAP,     \* capacity of the broadcast channel (512 in the code)
  CHUNK,        \* BACKFILL_CHUNK
  MaxEvents,    \* bound: events accepted
  MaxControls,  \* bound: control commands emitted
  MaxLabels,    \* bound: captions announced
  MaxTime       \* bound: clock

ASSUME FanoutAssumption ==
  /\ NoCaption \notin Captions
  /\ Recording \in BOOLEAN
  /\ REWIND \in Nat
  /\ RING_CAP \in Nat
  /\ CHAN_CAP \in Nat \ {0}
  /\ CHUNK \in Nat \ {0}
  /\ MaxEvents \in Nat /\ MaxControls \in Nat
  /\ MaxLabels \in Nat /\ MaxTime \in Nat

VARIABLES
  now,        \* Shared::now_ms
  arrived,    \* history: arrived[e] is the ts_ms stamped on event e
  controls,   \* history: control commands emitted so far
  announced,  \* history: captions announced so far
  pending,    \* batcher's vector of events not yet in the ring
  stage,      \* where the batcher is: "select", "commit" or "announce"
  announcing, \* the caption between its insert and its broadcast
  ring,       \* Shared::ring
  record,     \* the record file, one [ts, event] per line, event 0 a control
  labels,     \* Shared::board_labels
  sent,       \* every frame the broadcast channel has taken
  phase,      \* where the connection of a client is
  cursor,     \* index in sent of the next frame of a client's receiver
  lagged,     \* history: a receiver has lost frames in this session
  backlog,    \* back-fill encoded for a client and not sent yet
  refilled,   \* events a client's viewer got as back-fill in this session
  feed,       \* events a client's viewer got live in this session, in order
  screen,     \* captions on a client's walls
  joinedAt,   \* history: how many events had arrived at the subscription
  straddle    \* history: the batch being flushed at the subscription

batcherVars == <<now, arrived, controls, announced, pending, stage, announcing,
                 ring, record, labels>>
clientVars == <<phase, cursor, lagged, backlog, refilled, feed, screen,
                joinedAt, straddle>>
vars == <<batcherVars, sent, clientVars>>

Phases == {"off", "subscribed", "labelled", "backfill", "live"}
Stages == {"select", "commit", "announce"}

FlyFrames   == [kind : {"fly"}, events : Seq(Nat)]
CtrlFrames  == [kind : {"ctrl"}]
LabelFrames == [kind : {"board"}, board : Boards, caption : Captions]
Frames      == FlyFrames \cup CtrlFrames \cup LabelFrames
CtrlFrame   == [kind |-> "ctrl"]

EventsOf(f) == IF f.kind = "fly" THEN ToSet(f.events) ELSE {}
Accepted    == Len(arrived)
Connected   == {c \in Clients : phase[c] # "off"}

(***************************************************************************)
(* frames.send: with no receiver the frame is dropped, otherwise every     *)
(* receiver will find it at the end of the channel.                        *)
(***************************************************************************)
Publish(fs) == sent' = IF Connected = {} THEN sent ELSE sent \o fs

WriteLines(lines) == record' = IF Recording THEN record \o lines ELSE record

Init ==
  /\ now = 0
  /\ arrived = <<>> /\ controls = 0 /\ announced = 0
  /\ pending = <<>> /\ stage = "select" /\ announcing = <<>>
  /\ ring = <<>> /\ record = <<>>
  /\ labels = [b \in Boards |-> NoCaption]
  /\ sent = <<>>
  /\ phase = [c \in Clients |-> "off"]
  /\ cursor = [c \in Clients |-> 1]
  /\ lagged = [c \in Clients |-> FALSE]
  /\ backlog = [c \in Clients |-> <<>>]
  /\ refilled = [c \in Clients |-> {}]
  /\ feed = [c \in Clients |-> <<>>]
  /\ screen = [c \in Clients |-> [b \in Boards |-> NoCaption]]
  /\ joinedAt = [c \in Clients |-> 0]
  /\ straddle = [c \in Clients |-> {}]

-----------------------------------------------------------------------------
(* The clock.                                                              *)

Advance ==
  /\ now < MaxTime
  /\ now' = now + 1
  /\ UNCHANGED <<arrived, controls, announced, pending, stage, announcing,
                 ring, record, labels, sent, clientVars>>

(* The batcher.  Its select arms run only when it is back at the select.   *)

(***************************************************************************)
(* A flying object is taken from the queue: the threshold monitor may emit *)
(* alarms controls at once, the event itself waits in pending.             *)
(***************************************************************************)
AcceptFly(alarms) ==
  /\ stage = "select"
  /\ Accepted < MaxEvents
  /\ controls + alarms <= MaxControls
  /\ controls' = controls + alarms
  /\ WriteLines([i \in 1..alarms |-> [ts |-> now, event |-> 0]])
  /\ Publish([i \in 1..alarms |-> CtrlFrame])
  /\ arrived' = Append(arrived, now)
  /\ pending' = Append(pending, Accepted + 1)
  /\ UNCHANGED <<now, announced, stage, announcing, ring, labels, clientVars>>

AcceptControl ==
  /\ stage = "select"
  /\ controls < MaxControls
  /\ controls' = controls + 1
  /\ WriteLines(<<[ts |-> now, event |-> 0]>>)
  /\ Publish(<<CtrlFrame>>)
  /\ UNCHANGED <<now, arrived, announced, pending, stage, announcing, ring,
                 labels, clientVars>>

(* emit_board_label: the insert under the lock ... *)
InsertLabel(b, l) ==
  /\ stage = "select"
  /\ announced < MaxLabels
  /\ announced' = announced + 1
  /\ labels' = [labels EXCEPT ![b] = l]
  /\ announcing' = <<b, l>>
  /\ stage' = "announce"
  /\ UNCHANGED <<now, arrived, controls, pending, ring, record, sent,
                 clientVars>>

(* ... and the broadcast after it. *)
BroadcastLabel ==
  /\ stage = "announce"
  /\ Publish(<<[kind |-> "board", board |-> announcing[1],
                caption |-> announcing[2]]>>)
  /\ announcing' = <<>>
  /\ stage' = "select"
  /\ UNCHANGED <<now, arrived, controls, announced, pending, ring, record,
                 labels, clientVars>>

(* Faulty: a batch waits until it has two events, not for the tick. *)
BroadcastFullBatch ==
  /\ stage = "select"
  /\ Len(pending) >= 2
  /\ Publish(<<[kind |-> "fly", events |-> pending]>>)
  /\ stage' = "commit"
  /\ UNCHANGED <<now, arrived, controls, announced, pending, announcing, ring,
                 record, labels, clientVars>>

(***************************************************************************)
(* The tick with something pending: first the frame for whoever is         *)
(* subscribed at this moment ...                                           *)
(***************************************************************************)
BroadcastBatch ==
  /\ stage = "select"
  /\ pending # <<>>
  /\ Publish(<<[kind |-> "fly", events |-> pending]>>)
  /\ stage' = "commit"
  /\ UNCHANGED <<now, arrived, controls, announced, pending, announcing, ring,
                 record, labels, clientVars>>

(***************************************************************************)
(* ... then the record lines, then, under the ring's lock, the push of the *)
(* batch and the eviction from the front: the front goes while the ring is *)
(* over its capacity or the front is older than the cutoff.                *)
(***************************************************************************)
Cutoff == IF now > REWIND THEN now - REWIND ELSE 0

(* Faulty: an event as old as the cutoff goes. *)
MayStayIfNewer(r, i) ==
  /\ Len(r) - i + 1 <= RING_CAP
  /\ i <= Len(r) => arrived[r[i]] > Cutoff

(* Faulty: only the capacity is looked at. *)
MayStayIfFits(r, i) == Len(r) - i + 1 <= RING_CAP

MayStayInFront(r, i) ==
  /\ Len(r) - i + 1 <= RING_CAP
  /\ i <= Len(r) => arrived[r[i]] >= Cutoff

Evict(r) ==
  LET front == CHOOSE i \in 1..Len(r)+1 :
                 /\ MayStayInFront(r, i)
                 /\ \A j \in 1..i-1 : ~MayStayInFront(r, j)
  IN  SubSeq(r, front, Len(r))

(* Faulty: the batch is copied and not drained. *)
CommitCopy ==
  /\ stage = "commit"
  /\ WriteLines([i \in 1..Len(pending) |->
                   [ts |-> arrived[pending[i]], event |-> pending[i]]])
  /\ ring' = Evict(ring \o pending)
  /\ stage' = "select"
  /\ UNCHANGED <<now, arrived, controls, announced, pending, announcing, labels,
                 sent, clientVars>>

CommitBatch ==
  /\ stage = "commit"
  /\ WriteLines([i \in 1..Len(pending) |->
                   [ts |-> arrived[pending[i]], event |-> pending[i]]])
  /\ ring' = Evict(ring \o pending)
  /\ pending' = <<>>
  /\ stage' = "select"
  /\ UNCHANGED <<now, arrived, controls, announced, announcing, labels, sent,
                 clientVars>>

Batcher ==
  \/ \E alarms \in 0..MaxControls : AcceptFly(alarms)
  \/ AcceptControl
  \/ \E b \in Boards, l \in Captions : InsertLabel(b, l)
  \/ BroadcastLabel
  \/ BroadcastBatch
  \/ CommitBatch

-----------------------------------------------------------------------------
(* A viewer connection, ws_client.                                         *)

(* Faulty: the receiver starts at the frame before. *)
SubscribeEarly(c) ==
  /\ phase[c] = "off"
  /\ phase' = [phase EXCEPT ![c] = "subscribed"]
  /\ cursor' = [cursor EXCEPT ![c] = Len(sent)]
  /\ joinedAt' = [joinedAt EXCEPT ![c] = Accepted]
  /\ straddle' = [straddle EXCEPT ![c] = {}]
  /\ UNCHANGED <<batcherVars, sent, lagged, backlog, refilled, feed, screen>>

Subscribe(c) ==
  /\ phase[c] = "off"
  /\ phase' = [phase EXCEPT ![c] = "subscribed"]
  /\ cursor' = [cursor EXCEPT ![c] = Len(sent) + 1]
  /\ joinedAt' = [joinedAt EXCEPT ![c] = Accepted]
  /\ straddle' = [straddle EXCEPT ![c] =
                    IF stage = "commit" THEN ToSet(pending) ELSE {}]
  /\ UNCHANGED <<batcherVars, sent, lagged, backlog, refilled, feed, screen>>

(* The layout message, then one caption message per entry of the table.    *)
ReplayLabels(c) ==
  /\ phase[c] = "subscribed"
  /\ phase' = [phase EXCEPT ![c] = "labelled"]
  /\ screen' = [screen EXCEPT ![c] =
                  [b \in Boards |-> IF labels[b] = NoCaption
                                    THEN screen[c][b] ELSE labels[b]]]
  /\ UNCHANGED <<batcherVars, sent, cursor, lagged, backlog, refilled, feed,
                 joinedAt, straddle>>

(* Faulty: the receiver is made after the snapshot. *)
SnapshotThenSubscribe(c) ==
  /\ phase[c] = "labelled"
  /\ phase' = [phase EXCEPT ![c] = IF ring = <<>> THEN "live" ELSE "backfill"]
  /\ backlog' = [backlog EXCEPT ![c] = ring]
  /\ cursor' = [cursor EXCEPT ![c] = Len(sent) + 1]
  /\ UNCHANGED <<batcherVars, sent, lagged, refilled, feed, screen, joinedAt,
                 straddle>>

(* The whole ring is encoded under its lock; nothing is sent under it.     *)
SnapshotRing(c) ==
  /\ phase[c] = "labelled"
  /\ phase' = [phase EXCEPT ![c] = IF ring = <<>> THEN "live" ELSE "backfill"]
  /\ backlog' = [backlog EXCEPT ![c] = ring]
  /\ UNCHANGED <<batcherVars, sent, cursor, lagged, refilled, feed, screen,
                 joinedAt, straddle>>

SendChunk(c) ==
  /\ phase[c] = "backfill"
  /\ LET n == IF Len(backlog[c]) > CHUNK THEN CHUNK ELSE Len(backlog[c])
     IN  /\ refilled' = [refilled EXCEPT ![c] =
                           @ \cup ToSet(SubSeq(backlog[c], 1, n))]
         /\ backlog' = [backlog EXCEPT ![c] = SubSeq(@, n + 1, Len(@))]
         /\ phase' = [phase EXCEPT ![c] =
                        IF n = Len(backlog[c]) THEN "live" ELSE "backfill"]
  /\ UNCHANGED <<batcherVars, sent, cursor, lagged, feed, screen, joinedAt,
                 straddle>>

(* rx.recv when the next frame is still in the channel's buffer.           *)
Unread(c) == Len(sent) - cursor[c] + 1

Recv(c) ==
  /\ phase[c] = "live"
  /\ Unread(c) \in 1..CHAN_CAP
  /\ cursor' = [cursor EXCEPT ![c] = @ + 1]
  /\ LET f == sent[cursor[c]]
     IN  /\ feed' = [feed EXCEPT ![c] =
                       IF f.kind = "fly" THEN @ \o f.events ELSE @]
         /\ screen' = [screen EXCEPT ![c] =
                         IF f.kind = "board"
                         THEN [@ EXCEPT ![f.board] = f.caption] ELSE @]
  /\ UNCHANGED <<batcherVars, sent, phase, lagged, backlog, refilled, joinedAt,
                 straddle>>

(* rx.recv when it is not: Lagged, and the receiver resumes at the oldest  *)
(* frame the buffer still has.                                             *)
SkipLagged(c) ==
  /\ phase[c] = "live"
  /\ Unread(c) > CHAN_CAP
  /\ cursor' = [cursor EXCEPT ![c] = Len(sent) - CHAN_CAP + 1]
  /\ lagged' = [lagged EXCEPT ![c] = TRUE]
  /\ UNCHANGED <<batcherVars, sent, phase, backlog, refilled, feed, screen,
                 joinedAt, straddle>>

(***************************************************************************)
(* A failed send or a closed socket ends the session at any point of it.   *)
(* The viewer clears its events when the next session opens and keeps its  *)
(* captions.                                                               *)
(***************************************************************************)
Disconnect(c) ==
  /\ phase[c] # "off"
  /\ phase' = [phase EXCEPT ![c] = "off"]
  /\ cursor' = [cursor EXCEPT ![c] = 1]
  /\ lagged' = [lagged EXCEPT ![c] = FALSE]
  /\ backlog' = [backlog EXCEPT ![c] = <<>>]
  /\ refilled' = [refilled EXCEPT ![c] = {}]
  /\ feed' = [feed EXCEPT ![c] = <<>>]
  /\ joinedAt' = [joinedAt EXCEPT ![c] = 0]
  /\ straddle' = [straddle EXCEPT ![c] = {}]
  /\ UNCHANGED <<batcherVars, sent, screen>>

Follow(c) == ReplayLabels(c) \/ SnapshotRing(c) \/ SendChunk(c)
               \/ Recv(c) \/ SkipLagged(c)

Next ==
  \/ Advance
  \/ Batcher
  \/ \E c \in Clients : Subscribe(c) \/ Follow(c) \/ Disconnect(c)

Spec == Init /\ [][Next]_vars

(***************************************************************************)
(* The interval timer keeps ticking, the batcher finishes what it started, *)
(* and a connection whose socket accepts data is polled again.  Nothing    *)
(* forces an item to arrive, a client to come or the clock to reach any    *)
(* value.                                                                  *)
(***************************************************************************)
Fairness ==
  /\ WF_vars(BroadcastBatch) /\ WF_vars(CommitBatch) /\ WF_vars(BroadcastLabel)
  /\ \A c \in Clients : WF_vars(Follow(c))

FairSpec == Spec /\ Fairness

-----------------------------------------------------------------------------
(* What the fan-out promises.                                              *)

BatcherTypeOK ==
  /\ now \in Nat /\ controls \in Nat /\ announced \in Nat
  /\ arrived \in Seq(Nat)
  /\ pending \in Seq(1..Accepted)
  /\ ring \in Seq(1..Accepted)
  /\ stage \in Stages
  /\ announcing \in {<<>>} \cup (Boards \X Captions)
  /\ stage = "announce" <=> announcing # <<>>
  /\ record \in Seq([ts : Nat, event : Nat])
  /\ labels \in [Boards -> Captions \cup {NoCaption}]
  /\ sent \in Seq(Frames)

ClientTypeOK ==
  /\ phase \in [Clients -> Phases]
  /\ cursor \in [Clients -> Nat \ {0}]
  /\ lagged \in [Clients -> BOOLEAN]
  /\ backlog \in [Clients -> Seq(Nat)]
  /\ refilled \in [Clients -> SUBSET Nat]
  /\ feed \in [Clients -> Seq(Nat)]
  /\ screen \in [Clients -> [Boards -> Captions \cup {NoCaption}]]
  /\ joinedAt \in [Clients -> Nat]
  /\ straddle \in [Clients -> SUBSET Nat]

(* Every variable has its type; what waits or is kept has arrived. *)
TypeOK == BatcherTypeOK /\ ClientTypeOK

(***************************************************************************)
(* The ring followed by the pending batch is always the tail of what was   *)
(* accepted: nothing is lost, repeated or reordered between the queue, the *)
(* batch and the ring, whatever the eviction took from the front.          *)
(***************************************************************************)
TailOfAccepted ==
  LET held == ring \o pending
  IN  \A i \in 1..Len(held) : held[i] = Accepted - Len(held) + i

(***************************************************************************)
(* After every flush the ring is exactly the rewind window: every event    *)
(* accepted within REWIND of now, but for those beyond the newest RING_CAP,*)
(* one after the other as they were accepted.  The code only ever looks at *)
(* the front, so this needs arrival times that never decrease along it.    *)
(***************************************************************************)
RingIsTheWindow ==
  [][CommitBatch =>
       /\ ToSet(ring') = {e \in 1..Accepted : /\ arrived[e] >= Cutoff
                                              /\ e > Accepted - RING_CAP}
       /\ TailOfAccepted']_vars

(***************************************************************************)
(* Why it does: arrival times never decrease, and what is neither in the   *)
(* ring nor pending went because of its age or of the capacity.            *)
(***************************************************************************)
ArrivalOrder ==
  /\ \A d, e \in 1..Accepted : d <= e => arrived[d] <= arrived[e]
  /\ \A e \in 1..Accepted : arrived[e] <= now

EvictedRightly ==
  \A e \in 1..Accepted - Len(ring) - Len(pending) :
    \/ arrived[e] < Cutoff
    \/ e <= Accepted - Len(pending) - RING_CAP

WindowInv == TailOfAccepted /\ ArrivalOrder /\ EvictedRightly

(***************************************************************************)
(* Between flushes nothing prunes the ring, however long the pause, so a   *)
(* late viewer may be given events of any age.  What it is given is the    *)
(* rewind window of an earlier moment all the same, as is the ring it is   *)
(* copied from: no two of its events are further apart than REWIND, or by  *)
(* RING_CAP or more in number.                                             *)
(***************************************************************************)
OneWindow(events) ==
  /\ events \subseteq 1..Accepted
  /\ \A d, e \in events : /\ arrived[e] <= arrived[d] + REWIND
                          /\ e < d + RING_CAP

BackfillIsOneWindow ==
  /\ OneWindow(ToSet(ring))
  /\ \A c \in Clients : OneWindow(refilled[c] \cup ToSet(backlog[c]))

(* What the channel still holds for the receiver of a client. *)
Coming(c) == UNION {EventsOf(sent[i]) : i \in cursor[c]..Len(sent)}

(***************************************************************************)
(* A connection that has not been told it lagged misses nothing accepted   *)
(* after it subscribed: the event is on its screen, in its channel, or     *)
(* still to be broadcast.                                                  *)
(***************************************************************************)
NothingMissedSinceJoin ==
  \A c \in Connected : ~lagged[c] =>
    \A e \in joinedAt[c] + 1..Accepted :
      \/ e \in ToSet(feed[c]) \cup Coming(c)
      \/ stage # "commit" /\ e \in ToSet(pending)

(***************************************************************************)
(* The hand-over from back-fill to live frames may lose events, but only   *)
(* those of the one batch whose flush the subscription fell into: all else *)
(* that the ring holds has come, or is coming, one way or the other.       *)
(***************************************************************************)
Known(c) == refilled[c] \cup ToSet(backlog[c]) \cup ToSet(feed[c]) \cup Coming(c)

OnlyStraddledBatchMissed ==
  \A c \in Connected :
    ~lagged[c] /\ phase[c] \in {"backfill", "live"} =>
      ToSet(ring) \subseteq Known(c) \cup straddle[c]

(***************************************************************************)
(* Why the two hold: the inductive form, one connection at a time.  Between*)
(* the broadcast of a batch and its commit the batch is already known to   *)
(* every connection but those that subscribed since.                       *)
(***************************************************************************)
SessionInv(c) ==
  /\ cursor[c] <= Len(sent) + 1
  /\ ~lagged[c] =>
       /\ \A e \in joinedAt[c] + 1..Accepted :
            \/ e \in ToSet(feed[c]) \cup Coming(c)
            \/ stage # "commit" /\ e \in ToSet(pending)
       /\ phase[c] \in {"backfill", "live"} =>
            ToSet(ring) \subseteq Known(c) \cup straddle[c]
       /\ stage = "commit" =>
            ToSet(pending) \subseteq
              ToSet(feed[c]) \cup Coming(c) \cup straddle[c]

HandoverInv == \A c \in Connected : SessionInv(c)

(***************************************************************************)
(* Live events come in arrival order and none comes twice live, for        *)
(* lagging connections as well: an event reaches a viewer at most twice in *)
(* a session, once in the back-fill and once live.                         *)
(***************************************************************************)
LiveInOrder ==
  \A c \in Clients : \A i \in 1..Len(feed[c]) - 1 : feed[c][i] < feed[c][i+1]

(***************************************************************************)
(* Captions converge: a connection that has not lagged shows, once it has  *)
(* read what its channel holds, the caption table of the broker, except    *)
(* for a caption inserted and not broadcast yet.  The insert coming before *)
(* the broadcast and the subscription before the table's snapshot are both *)
(* needed.                                                                 *)
(***************************************************************************)
LabelsComing(c, b) ==
  {i \in cursor[c]..Len(sent) : sent[i].kind = "board" /\ sent[i].board = b}

FinalCaption(c, b) ==
  IF LabelsComing(c, b) = {} THEN screen[c][b]
                             ELSE sent[Max(LabelsComing(c, b))].caption

CaptionsConverge ==
  \A c \in Connected : ~lagged[c] /\ phase[c] # "subscribed" =>
    \A b \in Boards :
      \/ FinalCaption(c, b) = labels[b]
      \/ stage = "announce" /\ announcing[1] = b

(***************************************************************************)
(* The record file holds every flushed event once and in arrival order,    *)
(* whoever was connected.  Control lines are written at once and overtake  *)
(* the events pending before them, so times do not rise along the file;    *)
(* but no event overtakes another or a control, and no control another.    *)
(***************************************************************************)
LineOf(e)  == [ts |-> arrived[e], event |-> e]
EventLines == {i \in DOMAIN record : record[i].event # 0}

RecordIsComplete ==
  Recording =>
    /\ {record[i] : i \in EventLines} =
         {LineOf(e) : e \in 1..Accepted - Len(pending)}
    /\ \A i, j \in EventLines : i < j => record[i].event < record[j].event
    /\ \A i, j \in DOMAIN record :
         i < j /\ record[i].ts > record[j].ts => i \notin EventLines
                                               /\ j \in EventLines

(***************************************************************************)
(* Every event accepted while a connection is up is eventually on its      *)
(* screen, unless the connection ends or lags.                             *)
(***************************************************************************)
EventuallyShown ==
  \A c \in Clients, e \in 1..MaxEvents :
    (phase[c] # "off" /\ joinedAt[c] < e /\ e <= Accepted)
      ~> (e \in ToSet(feed[c]) \/ lagged[c] \/ phase[c] = "off")

-----------------------------------------------------------------------------
(* What comments and documentation say and the code does not do.           *)

(***************************************************************************)
(* main.rs:298 "subscribe before snapshotting so no live frame is missed": *)
(* every event of the ring is known to a connection that has taken its     *)
(* snapshot and has not lagged.                                            *)
(***************************************************************************)
NoLiveFrameMissed ==
  \A c \in Connected :
    ~lagged[c] /\ phase[c] \in {"backfill", "live"} =>
      ToSet(ring) \subseteq Known(c)
=============================================================================
