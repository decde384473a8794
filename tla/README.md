# packter in TLA+

packter shows network traffic as objects that fly between walls.  Agents watch
traffic (a capture, NetFlow, IPFIX, sFlow or Snort) and send text datagrams
over UDP; a broker turns them into frames for any number of browser viewers,
keeps the last minutes for rewinding, records, and watches for anomalies.  This
directory holds TLA+ models of the program, the TLC configurations that check
them and TLAPS proofs about them.

## 1. The system

    capture/collectors -> packter_send -> UDP -> udp_ingest -> queue -> batcher -> channel -> ws_client -> viewer
                                                  (auth.rs)   tail_eve ->|   |-> ring, record file, thmon

| part | state | operations | what is hard, and what makes it correct |
|---|---|---|---|
| batcher, ring, record (`broker/src/main.rs`) | pending batch, rewind ring, caption table, broadcast channel, record file | accept an event or a control, announce a caption, tick: broadcast, record, push and evict | two locks and a channel that are never held together; nothing lost, repeated or reordered; the ring is exactly the rewind window |
| viewer connection (`ws_client`) | receiver, back-fill | subscribe, captions, snapshot, chunks, live frames, lag, end | subscription against batches in flight; slow receivers; a late viewer sees everything once joined |
| UDP ingest (`udp_ingest`) | last caption per board | receive, peel, pass through, choose a board, queue | a bounded queue whose refusals are ignored; which board, whether shown |
| authentication (`auth.rs`) | rules, keys | `peel` | unsigned, wrongly signed, delayed and repeated datagrams, skewed clocks |
| threshold monitor (`thmon.rs`) | window counts, baselines, CUSUM, cooldown | `on_flag`, `analyze` | warm-up, freezing, quiet time over many windows |
| EVE tail (`eve.rs`) | handle, pos, carry | one pass per 300 ms | growth, truncation and rotation between `metadata` and `read`; partial lines |
| datagram parser (`parse.rs`) | none | `parse_datagram` | header modes, controls that consume the rest |
| frame encoding (`wire.rs`) | none | encode fly frames | widths of age, flag and lengths |
| command line (`main.rs`) | configuration | `parse_args`, board count | an 8-bit sum |
| agent send path (`agent/lib/send.c`, `util.c`) | rate countdown, bulk buffer | `packter_send`, `packter_flush` | ordering across the buffer, its limits, a clock set back |
| agent monitor (`agent/src/pt_thmon.c`) | counts, baselines, CUSUM, cooldown, configuration | frame, window, SIGHUP reload | a signal handler that frees what a window is reading; warm-up, freezing, quiet time |
| flow collectors (`nf_common.c`, `netflow.c`, `ipfix.c`, `collector.c`) | template cache | template set, data set | order of templates and data, two exporters with one id, several templates in a set, offsets into records |
| capture, Snort bridge, sFlow (`capture.c`, `snort.c`, `proto.c`, `sflow.c`) | re-entrancy guard, calls in progress | frame dispatch, sample | a sampled frame re-enters the chain that decodes its datagram; length checks of six layers |
| configuration, map (`config.c`, `map.c`) | key/value list | load, `put_once`, clear | first value wins, reload |
| replay (`pt_replay.c`) | line buffer, last TIME | blocks between TIME lines | what `-n` prints need not be what replay splits |
| viewer (`web/main.js`) | event buffer, time control, audio | receive, prune, rewind, draw | unordered times after a reconnect, two loads in flight |
| formatting, hashes, GeoIP, tools, assets | none | - | - |

`PROJECT.json` lists every part with its sources and its status, and under
`hazards` each place of the code that is hard to test with the properties that
cover it.

## 2. Modules

**`Fanout`** is the batcher, the ring, the record file, the caption table, the
broadcast channel and the viewer connections.  The batcher is one task and the
connections are others; the pieces that are atomic are one channel operation
and one critical section of a mutex, and each is one action.  A tick with
something pending is therefore two actions, `BroadcastBatch` and `CommitBatch`,
with every action of a connection possible in between, and a caption is two,
`InsertLabel` and `BroadcastLabel`.  A connection runs through `Subscribe`,
`ReplayLabels`, `SnapshotRing`, `SendChunk` and then `Recv` or `SkipLagged`
until `Disconnect`, which may happen anywhere.  An event is the number of its
arrival: nothing in this code looks at coordinates, flags or descriptions.  The
alarms the threshold monitor raises for an event are any number of controls.
`sent` is every frame the channel has taken; what a receiver can still read is
the last `CHAN_CAP` of it.

**`Ingest`** is `udp_ingest` with `auth.rs`, the agents that send to it and the
batcher that takes from the queue.  A datagram is what its agent put in it, a
MAC the tuple of key and covered data, and a body what it parses to.  The
network keeps every datagram and may deliver it any number of times or never.
Items are put on the queue one by one (`TrySend`), or left out if they are
commands that the datagram may not give (`DropControl`), so that a queue that
fills up in the middle of a datagram is covered.

**`AgentSend`** is `packter_send`: rate limit, bulk buffer, window, flush and
the tool's end.  Messages are a kind and a length.  The clock moves either way.
**`Relay`** is what it promises: messages accepted go out in order, none twice
and none left out.  `AgentSend` implements it (`ImplementsRelay`).  `came` is the history of what
the clock said when each message passed; nothing in the code reads it.

**`Thmon`** is the broker's threshold monitor.  A baseline is the set of
windows it has taken in, since what matters is when it learns and when it is
consulted; whether a value exceeds its band, and how large the standardised
imbalance is, may come out either way, while hard caps are computed from the
counts.

**`EveTail`** is `tail_eve`, with a Suricata that writes half lines and a
logrotate that truncates or renames.  `metadata` and the read are two actions
with both of them possible in between.  The handle stays on the file opened at
the start while `metadata` asks the path, as in the code.  Two histories say
what text a pass has got: `left`, the carry that was not cleared when it began,
and `skipped`, what failed reads went over.

**`FlowExport`** has the pure part of the collectors: how a template becomes
offsets (`Offsets`, the loop of `nf_template_set`), and which record is read at
those offsets from which bytes of a data set (`Records`, the loop of
`nf_flow_set`).  Bytes are kept by the field they belong to, so that "the field
read is the field meant" is a matter of offsets and lengths, as in the code.
`Truth` says what a flow's record has to be without any offset.

**`FlyAgent`** is every tool that turns traffic into records: `pt_agent` on an
ethernet or loopback capture or behind Snort, with or without `-t`, and
`pt_sflow`, `pt_netflow`, `pt_ipfix`.  They share `proto.c` and the readers and
differ in the command line, which is the variable `setup`.  All of them are one
thread; what makes them interesting is that the chain calls a reader (`-t`) and
the sFlow reader calls the chain.  `stack` is the calls in progress and a step
is one frame, one sample or one set.  `Chain` computes what each layer leaves
of a frame, with the code's comparisons.  The template cache survives from
datagram to datagram; `sent` is the history of what each exporter announced.

**`ThmonAgent`** is `pt_thmon`.  Counting and judging a window are steps; the
alert is made text by text (`work` is the list of `packter_addstring` calls,
tests and sends still to do), since SIGHUP may come between any two of them
(`Reload`) or while one is reading the map (`ReloadInside`), whose entries the
handler frees: what is read then is the old value, nothing, garbage or a crash.
Baselines are sets of windows as in `Thmon`.

**`Replay`** extends `AgentSend`: when the agent has ended, the datagrams it
sent are the dump that `-n` would have printed, with its TIME lines, and
`pt_replay` reads it line by line.

**`Sums`** is the one function the models add lengths with.  `FanoutProofs`,
`IngestProofs`, `AgentSendProofs`, `ThmonProofs`, `EveTailProofs`,
`FlyAgentProofs` and `ThmonAgentProofs` hold the theorems, each about the
module it extends, and **`Lemmas`** the facts about numbers and sequences that
more than one of them needs.  `MCIngest`, `MCThmon`, `MCFlyAgent` and `MCThmonAgent` give
the constants of a run that a `.cfg` cannot write (functions, records).
Several command lines of one program are one run: the model starts in any of
its `Setups`.

Definitions that begin with "Faulty:" in their comment are variants of the code
with a plausible mistake.  They are not used by any specification; each is the
mutant listed in `PROJECT.json` that shows a property would notice the mistake.

## 3. Runs

| run | configuration | what it checks |
|---|---|---|
| `fanout_events` | `Fanout_events` | The ring after a flush is the rewind window, in order, and what a viewer is back-filled with after a pause is one such window, if an old one; the record file is complete, and only a control stands before an event that arrived earlier; a connection misses nothing since it joined, at most the batch its subscription fell into of what was before, and gets live events in order, once. |
| `fanout_live` | `Fanout_live` | Two connections: an event is eventually shown; captions converge. |
| `fanout_gap` | `Fanout_gap` | Violated: `NoLiveFrameMissed` (finding 1). |
| `ingest_all` | `Ingest_all` | With a key and `--strict`, with `--require-auth`, and without keys: who may give commands, which board; captions follow the last accepted id unless the queue refused one. |
| `ingest_lost` | `Ingest_lost` | Violated: `IdBecomesCaption` (finding 2). |
| `replay_dump` | `Replay_dump` | The send path: order, buffer limits, rate, freshness, refinement of `Relay`; the dump replayed: no line lost or moved, datagrams and pauses as they were. |
| `thmon_caps` | `Thmon_caps` | The broker's monitor: alarms and the quiet time, freezing, also where RST fires and FIN does not, warm-up. |
| `thmon_agent` | `ThmonAgent_alert` | The agent's monitor: the same across reloads, and that an alert tells every metric that fired, in texts that are whole if no SIGHUP came. |
| `fly_all` | `FlyAgent_all` | Twelve command lines: one record for a frame exactly if its headers are there; a datagram decoded once, its samples shown; flows shown as measured; a wrong record only from a shared key or an odd layout; a crash only behind Snort. |
| `fly_second` | `FlyAgent_second` | Violated: `ResendAlwaysRecovers` (finding 3). |
| `eve_tail` | `EveTail_tail` | Lines once and in order per pass; what was forwarded and is carried is exactly the text that was got, through failed reads, glued carries and renames, until a truncation goes unnoticed; lines not failed over are eventually taken. |
| `eve_renamed` | `EveTail_renamed` | Violated: `RotatedLinesTaken` (finding 4). |

### Bounds

- `Fanout_events`: three events, one control, clock up to 2, `REWIND` 1,
  `RING_CAP` 2, `CHAN_CAP` 2, one connection.  Three events overflow the ring,
  may be one batch larger than it or three, and leave by age or by capacity; a
  control and three batches overflow the channel; chunks of one make the
  back-fill several steps.
- `Fanout_live`: two connections, one event, two captions, a channel of one
  frame: each connection can lag on the frames the other reads, and each of the
  two orders of insert, broadcast and snapshot occurs.
- `Ingest`: two datagrams sent and received in any order and number under keys
  with a replay window of one tick and a clock of two, so a stamp may be
  accepted, too old, or in the future; three sent and four received without,
  with a queue of two that a datagram with a caption and two items overflows.
- `AgentSend` and `Replay`: lengths 2, 3 and 5 against a buffer of 4: two
  records fill it exactly, 2+3 exceed it by one, 5 is longer than it; a window
  of one tick, a clock of two that is set back once; three messages.  A TIME
  line of 6 against a replay buffer of 24 makes a block that must be cut
  possible; pauses wrap at 2.
- `Thmon`: windows of two events, a warm-up of two windows and four windows in
  all, quiet time of two ticks: windows before, at and after the end of the
  warm-up, and alarms withheld and sent again.  Caps are of one event, on ICMP,
  PPS and RST but not FIN.
- `FlyAgent`: frames of every shape (ports, ICMP, VLAN, IPv4 options and a
  header length too small, no, one and two extension headers) cut at every
  length from 0 to 110, more than all headers together, and at the border of
  the hash buffer; four exporters: one with two templates in a set, two that
  share an id, one with IPv6, one with an enterprise field, both address
  families, a flag field too wide and a field of variable length; two flows a
  set.  Datagrams come in any order and any number of times: the state is
  finite without a bound.
- `ThmonAgent`: windows of two frames, three of them, a clock of two, a quiet
  time of two, a warm-up of one window and one of -1, caps on UDP and PPS, RST
  over its band or not, the imbalance shifted or not, one SIGHUP with a file of
  other keys or none.  Three windows are one before the warm-up's end, one that
  may alert and one that may be withheld or alert again.
- `EveTail`: three lines in six halves, one of which is cut in a character, two
  truncations and a rename.

`MaxEvents`, `MaxControls`, `MaxLabels`, `MaxTime`, `MaxSent`, `MaxReceived`,
`MaxMesgs`, `MaxSetBacks`, `MaxWritten`, `MaxTruncated`, `MaxRenamed`,
`MaxWindows`, `MaxReloads`, `Overs` and `Shifts` are bounds of the models and
not of the program.  `RING_CAP`, `CHAN_CAP`, `CHUNK`,
`QUEUE_CAP`, `BULK_PAYLOAD` and the times are the program's, made small.

Deadlock is not checked where it would only say that the bounds are used up or
the tool has exited or crashed: `Ingest`, `Replay`, `Thmon`, `ThmonAgent`,
`FlyAgent`, `EveTail`.  In `Fanout` a
connection can always subscribe or end, so deadlock is checked and says that
the batcher and the connections never wait for each other for good.

### Fairness

- `Fanout`: weak fairness of `BroadcastBatch`, `CommitBatch` and
  `BroadcastLabel` (the interval timer keeps ticking, and the batcher awaits
  nothing between its `select` and the end of an arm) and of `Follow(c)` for
  each connection (its task is polled when its channel or its socket is ready;
  a socket that never accepts data ends in `Disconnect`).  Nothing forces an
  item to arrive, a client to come, or the clock to move.
- `EveTail`: weak fairness of the tail's own steps: the interval ticks and a
  read of a file returns.  Nothing forces a line to be written.

## 4. Findings

1. `fanout_gap`: the tick broadcasts the pending batch, then pushes it to the
   ring.  A connection that subscribes and takes its snapshot in between gets
   the batch neither live nor in its back-fill, although `main.rs:298` says
   "subscribe before snapshotting so no live frame is missed".
   `OnlyStraddledBatchMissed`, which is checked and proved, says that this one
   batch is all that can be missed.
2. `ingest_lost`: `last_labels` takes a new id before a `try_send` whose
   failure is ignored; a caption refused by a full queue is never announced
   again (`main.rs:466`).
3. `fly_second`: `nf_template_set` learns the first template of a set and
   ignores the others, so the data of those is dropped for good, although
   `docs/INSTALL.en.md:148` says the exporter's periodic resend recovers it.
   `FlowsAsMeasured`, which holds, says that the first one is learnt and used
   rightly.
4. `eve_renamed`: after a rotation by rename the length is the new file's and
   the handle the old one's: the old alerts come again, or nothing does, and
   the new file is never read (`eve.rs:65` "rotated/truncated: start over").

Other disagreements, seen while modelling, have no run:

- Eviction of the ring runs only in a tick with something pending, so after a
  pause the back-fill holds events older than the five minutes of
  `README.md:17`.  `BackfillIsOneWindow` says that they are one window of that
  length all the same, and not a mixture of several.
- In the broker's monitor the caps named FIN and RST look at one value, but
  only FIN freezes its baseline: a window in which RST fired and FIN did not is
  learnt, although `thmon.rs:299` says "freezing any metric that fired this
  window".  `thmon_caps` has a cap on RST and none on FIN, and `LearntOrFired`
  says that such a window is learnt.  The agent's monitor has a baseline for
  each, and there `LearntUnlessFired` holds for all.
- `send.c:7-9` says a bulk buffer is flushed "when the window expires", but the
  window is looked at only when a further record comes: until then, or until
  the tool ends, records wait.  `FreshAfterSend` says what a call does.
- `packter.h:62-63` means a datagram to fit 1500 bytes of ethernet payload with
  about 100 bytes for the PACKTERAGENT line: the longest line has 153, and 153
  + 8 + 1320 exceeds the 1472 that fit.
- `pt_agent -U -t netflow` (or `ipfix`) dies at the first set: only
  `packter_pcap` makes the cache.  `DiesOnlyBehindSnort` says that nothing else
  reaches a missing cache.
- A sound command is printed without a newline (`send.c:198`): in a dump the
  TIME line behind it is not one, and `pt_replay` sends two datagrams as one
  without the pause.  `ReplayedAsSent` says that all else is replayed as it was.
- `pt_thmon` counts IPv6 frames in the number of frames of a window
  (`pt_thmon.c:401` "counted in PPS only"), which every share is divided by.
- `pt_thmon` does not look whether a tagged frame has its four bytes more
  (`pt_thmon.c:385`, unlike `proto.c:269`): one of 14 to 17 bytes is counted by
  what lies behind it.  `ThmonAgent` lets it count as anything.
- `TH_WARMUP` below zero is a warm-up that never ends (`pt_thmon.c:215`).
- A data template with both address families, or with a field of another width
  than the decoder reads, gives records that are of no flow
  (`MisreadOnlyIfShared` names these layouts).
- With `-G` a record of unknown place is left out and its sound sent all the
  same (`proto.c:53-58`).

## 5. Proofs

Everything below is proved for every value of the constants under the
assumptions the modules name, which TLC evaluates in the runs: the bounds and
capacities are positive or natural numbers (`FanoutAssumption`,
`IngestAssumption`, `SendAssumption`, `ReplayAssumption`, `ThmonAssumption`,
`ThmonAgentAssumption`, `EveAssumption`); a command line of a collector names a protocol
(`FlyAssumption`); an IPv6 extension header has eight bytes or more
(`FrameAssumption`); an exporter pads to four bytes, uses no enterprise fields
in NetFlow v9, describes flows of one family by a layout of that family, and
flows of one name are between the same two hosts (`FeedAssumption`); bytes that are no field are no protocol number and no flags
(`GarbageAssumption`); what a configuration file or freed memory holds is not
one of the monitor's own numbers (`FilesAssumption`: a text is known by where
it comes from, and a file's "Observed: 7" is the file's); and `pt_replay`'s
buffer of `PACKTER_BUFSIZ_LONG` takes any one datagram (`ReplayAssumption`:
messages are put together in `PACKTER_BUFSIZ`, a sixteenth of it, or in a
payload of 1320).

Each proof has the same outline: an inductive invariant `...Inv`, a lemma
`...Init`, a lemma per group of actions, `...Next`, and the theorem by temporal
logic.  What a recursive function computes is proved where it is needed, for
that recursion (`SumsAre`, `FlattenIs`, `OffsetsAre`), by looking at the
smallest number for which it fails (`SmallestExists`, `InductiveSet`), since
the library's induction rules cannot be used.

**`FanoutProofs`**
- `TypeCorrect`: `Spec => []TypeOK`.
- `Handover`: `Spec => []HandoverInv`.  What the two properties of a reader's
  interest say, `NothingMissed` and `AtMostOneBatchMissed`, is not inductive:
  between broadcast and commit a batch is on the channel and still in
  `pending`.  `SessionInv(c)` adds that such a batch is known to every
  connection but those that subscribed since (`straddle`), and that a cursor
  never runs past the channel.  The steps that need it are `BroadcastBatch`
  (the batch becomes `Coming`), `CommitBatch` (it enters the ring) and `Recv`
  (a frame moves from `Coming` to `feed`).
- `HeldIsTail`, `Window`, `RingWindow`: `WindowInv` is inductive: arrival times
  never decrease, ring and batch are a tail, and what is in neither went by age
  or capacity.  From it the ring after a commit is the rewind window, although
  eviction stops at the first entry that may stay.
- `Backfilled`: `BackfillInv`: a window stays one when later events arrive
  (`WindowStays`), the ring after a flush is one (`FlushedWindow`), and a
  back-fill is a copy of the ring, shown or still to be sent.
- `InOrder`: what a connection has been shown live and what its receiver can
  still give it, one after the other, rise (`OrderInv`: `FeedRises`), and so do
  the frames on the channel (`ChannelRises`).  A connection that lags only
  loses some of the second part.
- `Recorded`: the lines of the record file are the events that left the batch,
  in order (`RecordInv`).  That only a control stands before an event that
  arrived earlier needs the times of controls too (`TimesInv`): no line of the
  file is of the future, so one appended now, or a batch of events appended in
  the order of their times, puts nothing but controls before earlier times.
- `Converge`: the caption on a screen is that of the table unless a newer one
  is still coming (`ConvergeInv`).  The hard steps are the pair `InsertLabel`
  and `BroadcastLabel`, with `ReplayLabels` in between, and a batch of frames
  that are no captions (`Settled`, `LabelsComing`).

**`IngestProofs`**
- `TypeCorrect`.
- `Sources`: `SourceInv`: every item in work, on the queue or shown comes from
  a datagram that an agent made and the rules of this broker let in.
- `Authentic`, `BoardRules`: who gave a command, and which board an item is
  for, by `SourceInv`.
- `Captioned`: the caption of a board follows the last id that was accepted for
  it unless the queue refused something.  `CaptionsFollow` looks at the last
  caption on its way (`work`, then the queue, then the table) and becomes
  inductive with `lastLabels` being the ids accepted last.

**`AgentSendProofs`**, about `AgentSend` and `Replay`
- `TypeCorrect`, `Ordered` (what went out followed by what waits is 1..n),
  `RateLimited`.
- `Fresh`: `bulk_first` is what the clock said when the oldest record in the
  buffer passed (`FirstInv`), and `Elapsed` reaches the window exactly if the
  clock does (`ElapsedIs`), set back or not.
- `Fits`: the buffer's length is that of the records in it and never more than
  its size, and a bulk datagram holds what the buffer held (`BufferInv`, which
  ties every list of records to the messages passed so far).
- `Implements`: initial states map to initial states, and every step to a step
  of `Relay` or a stutter; the witness of `Forward` is the length of what has
  been handed to the network.
- `Recorded`: an agent that is recorded and then replayed is an agent, so all of
  the above holds in `Replay` too.
- `Replays`: neither half of `ReplayedAsSent` is inductive.  That no line is
  lost is, with what is in `block` (`NoLineLost`), and holds whatever is cut or
  joined.  That datagrams come back as they were, and when they were, needs to
  know where in the dump `pt_replay` is: not begun, within datagram n with its
  first k lines collected, or through (`Playing`).  `Starts` says where the
  lines of a datagram lie in the dump, `LinesOfFit` that a datagram of messages
  that passed is not cut by the buffer, and `RepeatedAppend` that one more is
  repeated at its time.

**`ThmonProofs`**
- `TypeCorrect`.
- `Quiet` and `Withheld` from the inductive `AlarmInv`: the quiet time is that
  of the last alarm sent (`QuietOfLastAlarm`).
- `Freezing`, `Cusum` (with "zero while warming up", since no baseline is
  consulted before).
- `Adaptive`: an alarm that no cap explains has a baseline behind it
  (`CappedOnly`).

**`ThmonAgentProofs`**
- `TypeCorrect`.
- `Freezing`, `Adaptive`: a baseline never takes in a window it fired in, and
  none is consulted before the warm-up is over (`LearntInv`), whatever a SIGHUP
  changes in between.
- `Quiet`: alarms keep the quiet time they were sent under (`AlarmInv`).  While
  an alert is being made the last alarm is the one still to be sent, so the
  invariant goes over the list of what is left to do (`LastCovered`, `Due`).
- `Tells`: an alert has the measured value and the threshold of every metric
  that fired, in order, wherever a SIGHUP came, and if none came while it was
  being made all its texts are whole.  While they are made they are neither, so
  `TellInv` follows them through the work: what a text is now, and what the
  operations left still add to it, is the whole of it (`ComposeInv`, `SendInv`,
  with the operations as a flat map over the metrics), and what they still add
  of numbers are those of the metrics left (`MeasuredInv`).  The latter holds
  after a reload too: what is then quoted may be another file's or freed, but
  is no number.

**`EveTailProofs`**
- `TypeCorrect`.
- `InOrder`: lines of one pass are taken once and in order (`OrderInv`): the
  files rise, and nothing taken lies behind what has been read.
- `Exactly`: what was taken and what is carried is exactly the text that was
  got (`CleanInv`), wherever lines were cut, whatever failed reads went over
  and whatever carry was glued to it, as long as no truncation went unnoticed.
  `GotIs` says what a read adds to that text, `NewAlerts` which lines that
  completes, and `PastInv` that what failed reads went over, and what the
  queue refused in this pass, is behind the handle.

**`FlyAgentProofs`**
- `TypeCorrect`, `Once`, `Dies`: `CallsInv` gives the three shapes the stack
  can have (nothing, a captured frame, a datagram with or without one of its
  samples) and when the guard is up in each.  That a sampled frame is never
  decoded again is this invariant.
- `Misread`: a record that no flow of its set was has a shared key or an odd
  layout.  `CacheInv` says that an entry of the cache is the offsets of a
  layout sent under its key, `OutInv` that all that was shown is honest.  In
  between is `RecordsAreTruths`: decoding a data set with the offsets of its
  own layout gives the flows' own values, for every plain layout, number of
  flows and padding.  It rests on where a field begins (`OffsetsAre`), what is
  read there (`ReadIs`) and that padding holds no further record (`CountIs`).
- `Measured`: the other half, that no flow is left out, doubled or moved.
  `FrontInv` ties the cache to the last template an exporter sent as the first
  of its set; `ReadableIfTold` says which flows can be read, `RecordsAre` that
  the records are those, one after the other, and `ShownAre` that what is sent
  for them is these records with their sounds in between (`FlatMapTwice`).
- `FramesShown`: one record for a frame exactly if all its headers were
  captured, for every captured length and any number of extension headers
  (`HandledIfComplete`).

**Model-checked only.**  Liveness (`EventuallyShown`, `EventuallyTaken`) is out
of the prover's reach, and so is what the four runs that expect a violation
show.  Every other property of the runs has a theorem.

## 6. Not modelled, and why

- Text: payloads of controls, descriptions, the wording of alarms, JSON.  No
  property is about them.  A text of `pt_thmon` is cut at 1023 characters, a
  line of a dump or of a configuration at as many: with texts as sequences of
  parts there is no such limit in the models.
- Floating point: EWMA and CUSUM values.  `Thmon` and `ThmonAgent` let a band
  be exceeded or not and take the standardised imbalance from a set.
- Cryptography (`sha256.c`, `md5.c`): a MAC is equal only for equal key and
  data; the code's constant-time comparison and hex decoding are a rejection
  like any other.
- A failed `sendto`, a failed `write` of the record file: the code ignores
  both; the first is a loss of the network.
- Datagrams whose headers lie about their lengths.  A datagram may be cut
  anywhere; one that is wrong is dropped by the same checks.
- In `EveTail` a read is atomic; it may be several system calls, which makes a
  difference only if the file is truncated between two of them.
- `parse.rs`, `wire.rs` and the broker's command line: pure functions of one
  input, in reach of a unit test; `Ingest` starts from what a body parses to.
- The viewer but for its sessions: drawing, sound and pop-ups; its buffer is
  pruned and searched by times that `Fanout` shows need not be in order.

## 7. Plan

Done: `Fanout`, `Ingest`, `Relay` and `AgentSend`, `Thmon`, `EveTail`,
`FlowExport` and `FlyAgent`, `ThmonAgent`, `Replay`, and the proofs of every
safety property their runs check.

Modules left: the viewer's buffer (`main.js`), the frame's widths (`wire.rs`).
