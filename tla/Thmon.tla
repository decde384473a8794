-------------------------------- MODULE Thmon -------------------------------
(***************************************************************************)
(* The broker's threshold monitor (broker/src/thmon.rs): the classes of    *)
(* COUNT events make a window, a window is compared with what the monitor  *)
(* has learnt from earlier ones and with the hard caps, and an alarm goes  *)
(* out unless one did less than INTERVAL ago.                              *)
(*                                                                         *)
(* A baseline (mean and variance of the windows it took in) is the set of  *)
(* those windows; whether a value is over the band around the mean, and    *)
(* how far the handshake imbalance is off, may come out either way.  Caps  *)
(* are exact: a class's share of a window is its count in COUNT events.    *)
(***************************************************************************)
EXTENDS Integers, Sequences, FiniteSets

CONSTANTS
  COUNT,      \* cfg.count_max
  WARMUP,     \* cfg.warmup
  INTERVAL,   \* cfg.interval_ms
  CUSUM_K, CUSUM_H,  \* slack and decision interval
  Shifts,     \* standardised imbalances a window may have
  Cap,        \* hard caps in events per window (PPS: per tick), 0 if unset
  MaxEvents,  \* bound: events
  MaxTime     \* bound: clock

(* What on_flag tells apart; "OTHER" is any other flag. *)
Classes == {"SYN", "FINRST", "ICMP", "UDP", "OTHER"}

(* What may fire; RST has a cap only, and all but SYN a band. *)
Names     == {"SYN", "FIN", "RST", "ICMP", "UDP", "PPS"}
Baselines == Names \ {"RST"}
Banded    == Baselines \ {"SYN"}

ASSUME ThmonAssumption ==
  /\ COUNT \in Nat \ {0} /\ WARMUP \in Nat /\ INTERVAL \in Nat
  /\ CUSUM_K \in Nat /\ CUSUM_H \in Nat /\ Shifts \subseteq Int
  /\ Cap \in [Names -> Nat]
  /\ MaxEvents \in Nat /\ MaxTime \in Nat

VARIABLES
  now,       \* the broker's clock
  events,    \* history: events fed so far
  all,       \* counts.all
  counts,    \* the other counts of the window
  start,     \* window_start_ms
  windows,   \* windows closed
  cooldown,  \* cooldown_until
  learnt,    \* history: per baseline, the windows it was updated with
  cusum,     \* cusum_g
  fired,     \* history: per name, the windows in which it fired
  alarms,    \* history: alarms sent, [at, window]
  withheld   \* history: alarms not sent, [at, window]

vars == <<now, events, all, counts, start, windows, cooldown, learnt, cusum,
          fired, alarms, withheld>>

Init ==
  /\ now = 0 /\ events = 0
  /\ all = 0 /\ counts = [c \in Classes |-> 0] /\ start = 0
  /\ windows = 0 /\ cooldown = 0 /\ cusum = 0
  /\ learnt = [b \in Baselines |-> {}]
  /\ fired = [n \in Names |-> {}]
  /\ alarms = <<>> /\ withheld = <<>>

Advance ==
  /\ now < MaxTime
  /\ now' = now + 1
  /\ UNCHANGED <<events, all, counts, start, windows, cooldown, learnt, cusum,
                 fired, alarms, withheld>>

(* on_flag: the event is counted ... *)
Feed(c) ==
  /\ events < MaxEvents
  /\ events' = events + 1
  /\ start' = IF all = 0 THEN now ELSE start
  /\ UNCHANGED now

Tallied(c) == [counts EXCEPT ![c] = @ + 1]

Count(c) ==
  /\ Feed(c)
  /\ all + 1 < COUNT
  /\ all' = all + 1
  /\ counts' = Tallied(c)
  /\ UNCHANGED <<windows, cooldown, learnt, cusum, fired, alarms, withheld>>

-----------------------------------------------------------------------------
(* ... and the one that fills the window has it analysed.                  *)

Window  == windows + 1

(* Faulty: the last window of the warm-up is judged. *)
WarmingLess == Window < WARMUP

Warming == Window <= WARMUP

(* A baseline is consulted once it is ready and the warm-up is over. *)
Consulted(b) == learnt[b] # {} /\ ~Warming

(* CUSUM of the imbalance, never below zero. *)
Accumulated(shift) ==
  LET g == cusum + shift - CUSUM_K
  IN  IF ~Consulted("SYN") THEN cusum ELSE IF g > 0 THEN g ELSE 0

CusumFires(shift) == Consulted("SYN") /\ Accumulated(shift) > CUSUM_H

CusumAfter(shift) == IF CusumFires(shift) THEN 0 ELSE Accumulated(shift)

ClassOf(n) == CASE n \in {"FIN", "RST"} -> "FINRST"
                [] n \in {"SYN", "ICMP", "UDP"} -> n

(* A window no longer than a tick counts as one tick long. *)
Lasted == IF all = 0 \/ now - start < 1 THEN 1 ELSE now - start

OverCap(n, tally) ==
  /\ Cap[n] > 0
  /\ IF n = "PPS" THEN COUNT > Cap[n] * Lasted ELSE tally[ClassOf(n)] > Cap[n]

Firing(tally, over, shift) ==
  over \cup {n \in Names : OverCap(n, tally)}
       \cup (IF CusumFires(shift) THEN {"SYN"} ELSE {})

(* Faulty: every baseline learns every window. *)
AdaptAll(firing) == learnt' = [b \in Baselines |-> learnt[b] \cup {Window}]

(* A baseline whose own name fired is frozen, the others learn. *)
Adapt(firing) ==
  learnt' = [b \in Baselines |-> IF b \in firing THEN learnt[b]
                                 ELSE learnt[b] \cup {Window}]

(* Faulty: an alarm withheld starts the quiet time anew. *)
AnnounceAndExtend(firing) ==
  LET alarm == [at |-> now, window |-> Window]
  IN  \/ /\ firing = {}
         /\ UNCHANGED <<cooldown, alarms, withheld>>
      \/ /\ firing # {} /\ now < cooldown
         /\ withheld' = Append(withheld, alarm)
         /\ cooldown' = now + INTERVAL
         /\ UNCHANGED alarms
      \/ /\ firing # {} /\ now >= cooldown
         /\ alarms' = Append(alarms, alarm)
         /\ cooldown' = now + INTERVAL
         /\ UNCHANGED withheld

(* Faulty: the quiet time never starts. *)
AnnounceAlways(firing) ==
  /\ alarms' = IF firing = {} THEN alarms
               ELSE Append(alarms, [at |-> now, window |-> Window])
  /\ UNCHANGED <<cooldown, withheld>>

Announce(firing) ==
  LET alarm == [at |-> now, window |-> Window]
  IN  \/ /\ firing = {}
         /\ UNCHANGED <<cooldown, alarms, withheld>>
      \/ /\ firing # {} /\ now < cooldown
         /\ withheld' = Append(withheld, alarm)
         /\ UNCHANGED <<cooldown, alarms>>
      \/ /\ firing # {} /\ now >= cooldown
         /\ alarms' = Append(alarms, alarm)
         /\ cooldown' = now + INTERVAL
         /\ UNCHANGED withheld

(* Faulty: the counts go on into the next window. *)
ResetAll == all' = 0 /\ UNCHANGED counts

ResetCounts == all' = 0 /\ counts' = [k \in Classes |-> 0]

Close(c, over, shift) ==
  LET firing == Firing(Tallied(c), over, shift)
  IN  /\ Feed(c)
      /\ all + 1 >= COUNT
      /\ over \subseteq {b \in Banded : Consulted(b)}
      /\ windows' = Window
      /\ cusum' = CusumAfter(shift)
      /\ fired' = [n \in Names |-> IF n \in firing THEN fired[n] \cup {Window}
                                   ELSE fired[n]]
      /\ Adapt(firing)
      /\ Announce(firing)
      /\ ResetCounts

Next ==
  \/ Advance
  \/ \E c \in Classes : Count(c)
  \/ \E c \in Classes, over \in SUBSET Banded, shift \in Shifts :
       Close(c, over, shift)

Spec == Init /\ [][Next]_vars

-----------------------------------------------------------------------------
(* What the monitor promises.                                              *)

Alarms == [at : Nat, window : Nat]

(* Every variable has its type; the counts belong to the open window. *)
TypeOK ==
  /\ now \in Nat /\ events \in Nat /\ start \in Nat /\ windows \in Nat
  /\ all \in 0..COUNT - 1 /\ counts \in [Classes -> 0..COUNT - 1]
  /\ cooldown \in Nat /\ cusum \in Nat
  /\ learnt \in [Baselines -> SUBSET (1..windows)]
  /\ fired \in [Names -> SUBSET (1..windows)]
  /\ alarms \in Seq(Alarms) /\ withheld \in Seq(Alarms)

(***************************************************************************)
(* Alarms are at least the interval apart, whatever fires in between and   *)
(* whichever metric it is.                                                 *)
(***************************************************************************)
QuietAfterAlarm ==
  \A i, j \in 1..Len(alarms) :
    i < j => alarms[j].at >= alarms[i].at + INTERVAL

(***************************************************************************)
(* And no alarm is withheld but within the interval of one that was sent:  *)
(* an attack that goes on longer than that is announced again.             *)
(***************************************************************************)
WithheldOnlyAfterAlarm ==
  \A i \in 1..Len(withheld) : \E j \in 1..Len(alarms) :
    /\ alarms[j].window < withheld[i].window
    /\ withheld[i].at < alarms[j].at + INTERVAL

(***************************************************************************)
(* Why the two hold: the quiet time is that of the last alarm sent, and    *)
(* alarms were sent in windows already closed.                             *)
(***************************************************************************)
QuietOfLastAlarm ==
  /\ cooldown = IF alarms = <<>> THEN 0
                ELSE alarms[Len(alarms)].at + INTERVAL
  /\ \A i \in 1..Len(alarms) : /\ alarms[i].at + INTERVAL <= cooldown
                               /\ alarms[i].window <= windows

AlarmInv == QuietAfterAlarm /\ WithheldOnlyAfterAlarm /\ QuietOfLastAlarm

(***************************************************************************)
(* A window either fires the metric a baseline is named for or is learnt   *)
(* by that baseline, never both: what fired is not learnt as normal and no *)
(* normal window is lost, whether or not the alarm was withheld.  RST is   *)
(* the exception: it looks at the value of FIN and freezes nothing, so a   *)
(* window in which it fired and FIN did not is learnt, although            *)
(* thmon.rs:299 has every metric that fired frozen.                        *)
(***************************************************************************)
LearntOrFired ==
  \A b \in Baselines : /\ learnt[b] \cup fired[b] = 1..windows
                       /\ learnt[b] \cap fired[b] = {}

(***************************************************************************)
(* The accumulator stays between zero and the decision interval across     *)
(* windows, and is zero as long as the monitor warms up.                   *)
(***************************************************************************)
CusumInRange == /\ cusum \in 0..CUSUM_H
                /\ windows <= WARMUP => cusum = 0

(***************************************************************************)
(* A metric without a cap does not fire before the warm-up is over and its *)
(* baseline has learnt an earlier window.                                  *)
(***************************************************************************)
AdaptiveNeedsBaseline ==
  \A n \in Names : Cap[n] = 0 =>
    \A w \in fired[n] : w > WARMUP /\ \E v \in learnt[n] : v < w

=============================================================================
