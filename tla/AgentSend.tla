------------------------------ MODULE AgentSend -----------------------------
(***************************************************************************)
(* The send path every agent tool shares (agent/lib/send.c): the random    *)
(* rate limit of -R, the bulk buffer of -B and the datagrams handed to     *)
(* sendto, or printed under -n.                                            *)
(*                                                                         *)
(* A message is its kind and its length: "fly" is one that starts with     *)
(* PACKTER\n, "other" is any other.  Messages that pass the rate limit are *)
(* numbered in that order.  The clock is gettimeofday, read once per call. *)
(***************************************************************************)
EXTENDS Integers, Sequences, SequencesExt, Sums

CONSTANTS
  HEADER_LEN,    \* length of PACKTER_HEADER
  AGENT_LINE,    \* length of the PACKTERAGENT line, 0 without -A
  BULK_PAYLOAD,  \* PACKTER_BULK_PAYLOAD
  BULK_MS,       \* -B in ticks of the clock; 0 switches bulk mode off
  RATE_LIMIT,    \* -R
  Lens,          \* lengths of messages, without PACKTER\n for a fly message
  MaxMesgs,      \* bound: messages that pass the rate limit
  MaxTime,       \* bound: clock
  MaxSetBacks    \* bound: times the clock is set back

ASSUME SendAssumption ==
  /\ HEADER_LEN \in Nat /\ AGENT_LINE \in Nat /\ BULK_PAYLOAD \in Nat
  /\ BULK_MS \in Nat /\ RATE_LIMIT \in Nat \ {0}
  /\ Lens \subseteq Nat \ {0}
  /\ MaxMesgs \in Nat /\ MaxTime \in Nat /\ MaxSetBacks \in Nat

Mesgs == [kind : {"fly", "other"}, len : Lens]

VARIABLES
  now,       \* gettimeofday
  setBacks,  \* history: times the clock was set back
  running,   \* the tool has not ended
  rate,      \* ctx->rate: this many calls until one passes
  skipped,   \* history: calls dropped since the last that passed
  passed,    \* history: messages that passed the rate limit
  came,      \* history: what the clock said when they did
  bulk,      \* ctx->bulk_buf, as numbers of messages
  bulkLen,   \* ctx->bulk_len
  bulkFirst, \* ctx->bulk_first
  sent,      \* datagrams handed to the network
  wire       \* history: the messages in them, in order

vars == <<now, setBacks, running, rate, skipped, passed, came, bulk, bulkLen,
          bulkFirst, sent, wire>>

(* Faulty: rand() % rate_limit alone. *)
DrawFromZero == 0..RATE_LIMIT - 1

(* Faulty: one call too many may be skipped. *)
DrawTooFar == 1..RATE_LIMIT + 1

(* packter_rate: rand() % rate_limit + 1. *)
Draw == 1..RATE_LIMIT

Init ==
  /\ now = 0 /\ setBacks = 0 /\ running = TRUE
  /\ rate \in Draw
  /\ skipped = 0
  /\ passed = <<>> /\ came = <<>> /\ bulk = <<>> /\ bulkLen = 0 /\ bulkFirst = 0
  /\ sent = <<>> /\ wire = <<>>

Tick ==
  /\ now < MaxTime
  /\ now' = now + 1
  /\ UNCHANGED <<setBacks, running, rate, skipped, passed, came, bulk, bulkLen,
                 bulkFirst, sent, wire>>

SetBack ==
  /\ setBacks < MaxSetBacks
  /\ setBacks' = setBacks + 1
  /\ now' \in 0..now - 1
  /\ UNCHANGED <<running, rate, skipped, passed, came, bulk, bulkLen, bulkFirst,
                 sent, wire>>

(***************************************************************************)
(* packter_send.  The rate limit comes first and looks at nothing else.    *)
(***************************************************************************)
Skip ==
  /\ running
  /\ rate # 1
  /\ rate' = rate - 1
  /\ skipped' = skipped + 1
  /\ UNCHANGED <<now, setBacks, running, passed, came, bulk, bulkLen, bulkFirst,
                 sent, wire>>

Pass(m) ==
  /\ running
  /\ rate = 1
  /\ Len(passed) < MaxMesgs
  /\ rate' \in Draw
  /\ skipped' = 0
  /\ passed' = Append(passed, m) /\ came' = Append(came, now)
  /\ UNCHANGED <<now, setBacks, running>>

Number == Len(passed) + 1

(* emit: one datagram, behind the PACKTERAGENT line. *)
Bulked(mesgs, len) ==
  [bulked |-> TRUE, mesgs |-> mesgs, len |-> AGENT_LINE + HEADER_LEN + len]
Single(m) ==
  [bulked |-> FALSE, mesgs |-> <<Number>>,
   len |-> AGENT_LINE + (IF m.kind = "fly" THEN HEADER_LEN ELSE 0) + m.len]

(* packter_flush: the datagrams it sends. *)
Flush == IF bulk = <<>> THEN <<>> ELSE <<Bulked(bulk, bulkLen)>>

(* Faulty: the length stays. *)
EmptyRecords == bulk' = <<>> /\ UNCHANGED bulkLen

EmptyBuffer == bulk' = <<>> /\ bulkLen' = 0

(* Faulty: an unsigned difference, without a look at which is later.       *)
ElapsedWraps(a, b) == (a - b) % 2^20

(* packter_diff_sec and packter_diff_usec: 0 when the clock was set back.  *)
Elapsed(a, b) == IF a > b THEN a - b ELSE 0

Expired(first) == Elapsed(now, first) >= BULK_MS

IsBulk(m) == BULK_MS > 0 /\ m.kind = "fly"

(* Faulty: what waits stays behind. *)
SendAhead(m) ==
  /\ IsBulk(m) => m.len > BULK_PAYLOAD
  /\ Pass(m)
  /\ sent' = sent \o <<Single(m)>>
  /\ wire' = wire \o <<Number>>
  /\ UNCHANGED <<bulk, bulkLen, bulkFirst>>

(* Not for the buffer, or too long for it: what waits goes first. *)
SendAlone(m) ==
  /\ IsBulk(m) => m.len > BULK_PAYLOAD
  /\ Pass(m)
  /\ sent' = sent \o Flush \o <<Single(m)>>
  /\ wire' = wire \o bulk \o <<Number>>
  /\ EmptyBuffer
  /\ UNCHANGED bulkFirst

(* Into the buffer, which is flushed before if the record does not fit and *)
(* after if the window has expired.                                        *)
SendBulk(m) ==
  LET fits   == bulkLen + m.len <= BULK_PAYLOAD
      kept   == IF fits THEN bulk ELSE <<>>
      filled == Append(kept, Number)
      length == m.len + IF fits THEN bulkLen ELSE 0
      first  == IF kept = <<>> THEN now ELSE bulkFirst
      before == IF fits THEN <<>> ELSE Flush
  IN  /\ IsBulk(m) /\ m.len <= BULK_PAYLOAD
      /\ Pass(m)
      /\ bulkFirst' = first
      /\ \/ /\ Expired(first)
            /\ sent' = sent \o before \o <<Bulked(filled, length)>>
            /\ wire' = wire \o bulk \o <<Number>>
            /\ EmptyBuffer
         \/ /\ ~Expired(first)
            /\ sent' = sent \o before
            /\ wire' = IF fits THEN wire ELSE wire \o bulk
            /\ bulk' = filled
            /\ bulkLen' = length

(* The capture file is at its end: packter_pcap flushes, main returns. *)
Finish ==
  /\ running
  /\ running' = FALSE
  /\ sent' = sent \o Flush
  /\ wire' = wire \o bulk
  /\ EmptyBuffer
  /\ UNCHANGED <<now, setBacks, rate, skipped, passed, came, bulkFirst>>

(* A signal, or an exit after an error: the buffer is lost. *)
Kill ==
  /\ running
  /\ running' = FALSE
  /\ UNCHANGED <<now, setBacks, rate, skipped, passed, came, bulk, bulkLen,
                 bulkFirst, sent, wire>>

Next ==
  \/ Tick \/ SetBack
  \/ Skip
  \/ \E m \in Mesgs : SendAlone(m) \/ SendBulk(m)
  \/ Finish \/ Kill

Spec == Init /\ [][Next]_vars

-----------------------------------------------------------------------------
(* What the send path promises.                                            *)

Numbers == 1..Len(passed)

(* Every variable has its type; what waits or went out has passed. *)
TypeOK ==
  /\ now \in Nat /\ setBacks \in Nat /\ running \in BOOLEAN
  /\ rate \in 1..RATE_LIMIT /\ skipped \in Nat
  /\ passed \in Seq(Mesgs) /\ came \in Seq(Nat) /\ Len(came) = Len(passed)
  /\ bulk \in Seq(Numbers) /\ bulkLen \in Nat /\ bulkFirst \in Nat
  /\ sent \in Seq([bulked : BOOLEAN, mesgs : Seq(Numbers), len : Nat])
  /\ wire \in Seq(Numbers)

(***************************************************************************)
(* send.c:10 "Non-fly messages (PACKTERSE etc.) flush the buffer first so  *)
(* ordering is preserved": what went out followed by what waits is every   *)
(* message that passed the rate limit, in order, once, whatever made the   *)
(* buffer flush.                                                           *)
(***************************************************************************)
InOrder ==
  LET all == wire \o bulk
  IN  /\ Len(all) = Len(passed)
      /\ \A i \in 1..Len(all) : all[i] = i

(* The same as the promise of Relay, step by step. *)
Link == INSTANCE Relay WITH in <- passed,
                            out <- [i \in 1..Len(wire) |-> passed[wire[i]]]
ImplementsRelay == Link!Spec

(***************************************************************************)
(* The buffer's length is that of the records in it and never more than    *)
(* its size, which the memcpy relies on; a bulk datagram holds at least    *)
(* one record, only fly records, and no more than the buffer does.         *)
(***************************************************************************)
LenOf(mesgs) == Total([j \in DOMAIN mesgs |-> passed[mesgs[j]].len])

BufferFits ==
  /\ bulkLen = LenOf(bulk) /\ bulkLen <= BULK_PAYLOAD
  /\ \A i \in 1..Len(sent) : sent[i].bulked =>
       /\ sent[i].mesgs # <<>>
       /\ \A n \in ToSet(sent[i].mesgs) : passed[n].kind = "fly"
       /\ sent[i].len = AGENT_LINE + HEADER_LEN + LenOf(sent[i].mesgs)
       /\ LenOf(sent[i].mesgs) <= BULK_PAYLOAD

(***************************************************************************)
(* -R n drops fewer than n messages between two that pass, and the draw    *)
(* never leaves the countdown where no message passes again.               *)
(***************************************************************************)
RateBound == skipped + rate <= RATE_LIMIT

(***************************************************************************)
(* send.c:7-9 "flush ... when the window expires or the next record would  *)
(* exceed an MTU-safe payload", as far as a call that passes the rate      *)
(* limit goes: it leaves records in the buffer only while the clock is     *)
(* short of the window after what it said when the oldest of them came,    *)
(* and a record that fits sends them only once it is not.  A clock that    *)
(* was set back in between makes them wait until it has caught up.         *)
(***************************************************************************)
WindowOver(n) == now' >= came'[n] + BULK_MS

FreshAfterSend ==
  [][passed' # passed =>
       LET m    == Last(passed')
           held == Append(bulk, Number)
       IN  /\ bulk' # <<>> => ~WindowOver(bulk'[1])
           /\ (IsBulk(m) /\ bulkLen + m.len <= BULK_PAYLOAD /\ sent' # sent)
                => WindowOver(held[1])]_vars

=============================================================================
