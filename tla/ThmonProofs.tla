---------------------------- MODULE ThmonProofs -----------------------------
(***************************************************************************)
(* Proofs about Thmon, for every window size, warm-up, interval, set of    *)
(* caps and CUSUM parameters.                                              *)
(***************************************************************************)
EXTENDS Thmon, Lemmas

USE ThmonAssumption

-----------------------------------------------------------------------------
(* Type correctness.                                                       *)

LEMMA TypeInit == Init => TypeOK
BY DEF Init, TypeOK

(* The accumulator is a natural number, and after the reset in range.      *)
LEMMA CusumRange ==
  ASSUME cusum \in Nat, NEW shift \in Shifts
  PROVE  /\ CusumAfter(shift) \in Nat
         /\ Consulted("SYN") => CusumAfter(shift) \in 0..CUSUM_H
         /\ ~Consulted("SYN") => CusumAfter(shift) = cusum
<1>1. cusum + shift - CUSUM_K \in Int
  OBVIOUS
<1>2. Accumulated(shift) \in Nat
  BY <1>1 DEF Accumulated
<1>3. ~Consulted("SYN") => Accumulated(shift) = cusum
  BY DEF Accumulated
<1>. QED BY <1>2, <1>3 DEF CusumAfter, CusumFires

(* Closing a window leaves what was learnt and fired with closed windows.  *)
LEMMA HistoryType ==
  ASSUME TypeOK, NEW firing, Adapt(firing), windows' = Window,
         fired' = [n \in Names |-> IF n \in firing THEN fired[n] \cup {Window}
                                   ELSE fired[n]]
  PROVE  /\ learnt' \in [Baselines -> SUBSET (1..windows')]
         /\ fired' \in [Names -> SUBSET (1..windows')]
<1>1. /\ windows \in Nat
      /\ learnt \in [Baselines -> SUBSET (1..windows)]
      /\ fired \in [Names -> SUBSET (1..windows)]
  BY DEF TypeOK
<1>2. 1..windows' = (1..windows) \cup {Window}
  BY <1>1 DEF Window
<1>3. \A b \in Baselines :
        learnt[b] \cup {Window} \subseteq 1..windows'
        /\ learnt[b] \subseteq 1..windows'
  BY <1>1, <1>2
<1>4. \A n \in Names :
        fired[n] \cup {Window} \subseteq 1..windows'
        /\ fired[n] \subseteq 1..windows'
  BY <1>1, <1>2
<1>. QED BY <1>3, <1>4 DEF Adapt

LEMMA TypeClose ==
  ASSUME TypeOK, NEW c \in Classes, NEW over \in SUBSET Banded,
         NEW shift \in Shifts, Close(c, over, shift)
  PROVE  TypeOK'
<1>. DEFINE firing == Firing(Tallied(c), over, shift)
            alarm  == [at |-> now, window |-> Window]
<1>1. Adapt(firing) /\ Announce(firing) /\ windows' = Window
  BY DEF Close
<1>. HIDE DEF firing
<1>2. /\ learnt' \in [Baselines -> SUBSET (1..windows')]
      /\ fired' \in [Names -> SUBSET (1..windows')]
  BY <1>1, HistoryType DEF Close, firing
<1>3. cusum' \in Nat
  BY CusumRange DEF TypeOK, Close
<1>4. windows' \in Nat /\ Window \in Nat
  BY <1>1 DEF TypeOK, Window
<1>5. alarms' \in Seq(Alarms) /\ withheld' \in Seq(Alarms)
  <2>1. alarm \in Alarms
    BY <1>4 DEF TypeOK, Alarms
  <2>2. alarms \in Seq(Alarms) /\ withheld \in Seq(Alarms)
    BY DEF TypeOK
  <2>3. /\ alarms' \in {alarms, Append(alarms, alarm)}
        /\ withheld' \in {withheld, Append(withheld, alarm)}
    BY <1>1 DEF Announce
  <2>. HIDE DEF alarm
  <2>4. Append(alarms, alarm) \in Seq(Alarms)
    BY <2>1, <2>2, AppendProperties
  <2>5. Append(withheld, alarm) \in Seq(Alarms)
    BY <2>1, <2>2, AppendProperties
  <2>. QED BY <2>2, <2>3, <2>4, <2>5
<1>6. cooldown' \in Nat
  BY <1>1 DEF TypeOK, Announce
<1>7. now' \in Nat /\ events' \in Nat /\ start' \in Nat
  BY DEF TypeOK, Close, Feed
<1>8. all' \in 0..COUNT - 1 /\ counts' \in [Classes -> 0..COUNT - 1]
  BY DEF Close, ResetCounts
<1>. QED BY <1>2, <1>3, <1>4, <1>5, <1>6, <1>7, <1>8 DEF TypeOK

(* No class has more events than the window. *)
Tally == \A c \in Classes : counts[c] <= all

LEMMA TallyNext ==
  ASSUME TypeOK, Tally, [Next]_vars
  PROVE  Tally'
<1>1. CASE Advance \/ UNCHANGED vars
  BY <1>1 DEF Advance, vars, Tally
<1>2. ASSUME NEW c \in Classes, Count(c) PROVE Tally'
  BY <1>2 DEF TypeOK, Count, Tallied, Tally
<1>3. ASSUME NEW c \in Classes, NEW over \in SUBSET Banded,
             NEW shift \in Shifts, Close(c, over, shift)
      PROVE  Tally'
  BY <1>3 DEF Close, ResetCounts, Tally
<1>. QED BY <1>1, <1>2, <1>3 DEF Next

LEMMA TypeNext == TypeOK /\ Tally /\ [Next]_vars => TypeOK'
<1>. SUFFICES ASSUME TypeOK, Tally, [Next]_vars PROVE TypeOK'
  OBVIOUS
<1>1. CASE Advance
  BY <1>1 DEF TypeOK, Advance
<1>2. ASSUME NEW c \in Classes, Count(c) PROVE TypeOK'
  <2>1. all' \in 0..COUNT - 1
    BY <1>2 DEF TypeOK, Count
  <2>2. counts' \in [Classes -> 0..COUNT - 1]
    BY <1>2 DEF TypeOK, Tally, Count, Tallied
  <2>3. now' \in Nat /\ events' \in Nat /\ start' \in Nat
    BY <1>2 DEF TypeOK, Count, Feed
  <2>. QED BY <1>2, <2>1, <2>2, <2>3 DEF TypeOK, Count
<1>3. ASSUME NEW c \in Classes, NEW over \in SUBSET Banded,
             NEW shift \in Shifts, Close(c, over, shift)
      PROVE  TypeOK'
  BY <1>3, TypeClose
<1>4. CASE UNCHANGED vars
  BY <1>4 DEF TypeOK, vars
<1>. QED BY <1>1, <1>2, <1>3, <1>4 DEF Next

(* Every behaviour of the monitor keeps every variable in its type.        *)
THEOREM TypeCorrect == Spec => []TypeOK
<1>1. Init => TypeOK /\ Tally
  BY TypeInit DEF Init, Tally
<1>2. TypeOK /\ Tally /\ [Next]_vars => TypeOK' /\ Tally'
  BY TypeNext, TallyNext
<1>. QED BY <1>1, <1>2, PTL DEF Spec

-----------------------------------------------------------------------------
(* Alarms.                                                                 *)

LEMMA AlarmInit == Init => AlarmInv
BY DEF Init, AlarmInv, QuietAfterAlarm, WithheldOnlyAfterAlarm, QuietOfLastAlarm

(***************************************************************************)
(* An alarm is sent when the last one is the interval ago, so it is as far *)
(* from all earlier ones; one is withheld when the last one is not.        *)
(***************************************************************************)
LEMMA AlarmClose ==
  ASSUME TypeOK, AlarmInv, NEW firing, Announce(firing), windows' = Window
  PROVE  AlarmInv'
<1>. DEFINE alarm == [at |-> now, window |-> Window]
            n     == Len(alarms)
<1>0. /\ now \in Nat /\ windows \in Nat /\ cooldown \in Nat
      /\ alarms \in Seq(Alarms) /\ withheld \in Seq(Alarms)
      /\ n \in Nat /\ Window = windows + 1
      /\ \A i \in 1..n : alarms[i].at \in Nat /\ alarms[i].window \in Nat
  <2>1. /\ now \in Nat /\ windows \in Nat /\ cooldown \in Nat
        /\ alarms \in Seq(Alarms) /\ withheld \in Seq(Alarms)
    BY DEF TypeOK
  <2>2. \A i \in 1..n : alarms[i] \in Alarms
    BY <2>1, ElementOfSeq
  <2>3. \A i \in 1..n : alarms[i].at \in Nat /\ alarms[i].window \in Nat
    BY <2>2 DEF Alarms
  <2>4. n \in Nat
    BY <2>1, LenProperties
  <2>. QED BY <2>1, <2>3, <2>4 DEF Window
<1>1. /\ \A i \in 1..n : /\ alarms[i].at + INTERVAL <= cooldown
                         /\ alarms[i].window <= windows
      /\ \A i, j \in 1..n : i < j => alarms[j].at >= alarms[i].at + INTERVAL
      /\ n = 0 => cooldown = 0
      /\ n # 0 => cooldown = alarms[n].at + INTERVAL
  <2>1. n = 0 <=> alarms = <<>>
    BY <1>0, EmptySeq
  <2>. QED BY <2>1 DEF AlarmInv, QuietAfterAlarm, QuietOfLastAlarm
<1>2. CASE alarms' = alarms /\ cooldown' = cooldown /\ withheld' = withheld
  BY <1>0, <1>1, <1>2 DEF AlarmInv, QuietAfterAlarm, WithheldOnlyAfterAlarm,
                          QuietOfLastAlarm
<1>3. CASE /\ now < cooldown
           /\ withheld' = Append(withheld, alarm)
           /\ alarms' = alarms /\ cooldown' = cooldown
  <2>1. n # 0 /\ now < alarms[n].at + INTERVAL /\ alarms[n].window < Window
    <3>1. n # 0
      BY <1>0, <1>1, <1>3
    <3>2. n \in 1..n /\ cooldown = alarms[n].at + INTERVAL
      BY <1>0, <1>1, <3>1
    <3>3. alarms[n].window <= windows /\ alarms[n].window \in Nat
      BY <1>0, <1>1, <3>2
    <3>. QED BY <1>0, <1>3, <3>1, <3>2, <3>3
  <2>2. /\ Len(withheld') = Len(withheld) + 1
        /\ \A i \in 1..Len(withheld) : withheld'[i] = withheld[i]
        /\ withheld'[Len(withheld) + 1] = alarm
    BY <1>0, <1>3, AppendProperties
  <2>3. ASSUME NEW i \in 1..Len(withheld')
        PROVE  \E j \in 1..n : /\ alarms[j].window < withheld'[i].window
                               /\ withheld'[i].at < alarms[j].at + INTERVAL
    <3>1. CASE i \in 1..Len(withheld)
      BY <2>2, <3>1 DEF AlarmInv, WithheldOnlyAfterAlarm
    <3>2. CASE i = Len(withheld) + 1
      <4>1. withheld'[i].at = now /\ withheld'[i].window = Window
        BY <2>2, <3>2
      <4>2. n \in 1..n
        BY <1>0, <2>1
      <4>. QED BY <2>1, <4>1, <4>2
    <3>3. i \in 1..Len(withheld) \/ i = Len(withheld) + 1
      <4>. DEFINE m == Len(withheld)
      <4>1. m \in Nat /\ i \in 1..m + 1
        BY <1>0, <2>2, LenProperties
      <4>. HIDE DEF m
      <4>2. i \in 1..m \/ i = m + 1
        BY <4>1
      <4>. QED BY <4>2 DEF m
    <3>. QED BY <3>1, <3>2, <3>3
  <2>4. WithheldOnlyAfterAlarm'
    BY <1>3, <2>3 DEF WithheldOnlyAfterAlarm
  <2>5. QuietAfterAlarm'
    BY <1>3 DEF AlarmInv, QuietAfterAlarm
  <2>6. QuietOfLastAlarm'
    <3>1. \A i \in 1..n : alarms[i].window <= windows'
      BY <1>0, <1>1
    <3>. QED BY <1>3, <3>1 DEF AlarmInv, QuietOfLastAlarm
  <2>. QED BY <2>4, <2>5, <2>6 DEF AlarmInv
<1>4. CASE /\ now >= cooldown
           /\ alarms' = Append(alarms, alarm)
           /\ cooldown' = now + INTERVAL
           /\ withheld' = withheld
  <2>1. /\ Len(alarms') = n + 1 /\ alarms' # <<>>
        /\ \A i \in 1..n : alarms'[i] = alarms[i]
        /\ alarms'[n + 1] = alarm
    BY <1>0, <1>4, AppendProperties
  <2>2. \A i \in 1..n : alarms[i].at + INTERVAL <= now
    BY <1>0, <1>1, <1>4
  <2>3. ASSUME NEW i \in 1..n + 1, NEW j \in 1..n + 1, i < j
        PROVE  alarms'[j].at >= alarms'[i].at + INTERVAL
    <3>1. i \in 1..n /\ alarms'[i] = alarms[i]
      <4>1. n \in Nat
        BY <1>0
      <4>2. i \in 1..n
        <5>. HIDE DEF n
        <5>. QED BY <2>3, <4>1
      <4>. QED BY <2>1, <4>2
    <3>2. CASE j \in 1..n
      BY <1>1, <2>1, <2>3, <3>1, <3>2
    <3>3. CASE j = n + 1
      <4>1. alarms'[j].at = now
        BY <2>1, <3>3
      <4>2. alarms[i].at + INTERVAL <= now /\ alarms[i].at \in Nat
        BY <1>0, <2>2, <3>1
      <4>. QED BY <1>0, <3>1, <4>1, <4>2
    <3>. QED BY <1>0, <3>2, <3>3
  <2>4. QuietOfLastAlarm'
    <3>1. \A i \in 1..n + 1 : /\ alarms'[i].at + INTERVAL <= cooldown'
                              /\ alarms'[i].window <= windows'
      <4>1. ASSUME NEW i \in 1..n
            PROVE  /\ alarms'[i].at + INTERVAL <= now + INTERVAL
                   /\ alarms'[i].window <= windows + 1
        <5>1. /\ alarms[i].at \in Nat /\ alarms[i].window \in Nat
              /\ alarms[i].at + INTERVAL <= now
              /\ alarms[i].window <= windows /\ alarms'[i] = alarms[i]
          BY <1>0, <1>1, <2>1, <2>2
        <5>2. now \in Nat /\ windows \in Nat /\ INTERVAL \in Nat
          BY <1>0
        <5>. HIDE DEF n
        <5>. QED BY <5>1, <5>2
      <4>2. /\ alarms'[n + 1].at + INTERVAL <= now + INTERVAL
            /\ alarms'[n + 1].window <= windows + 1
        BY <1>0, <2>1
      <4>3. \A i \in 1..n + 1 : i \in 1..n \/ i = n + 1
        <5>1. n \in Nat
          BY <1>0
        <5>. HIDE DEF n
        <5>. QED BY <5>1
      <4>. QED BY <1>0, <1>4, <4>1, <4>2, <4>3
    <3>2. cooldown' = alarms'[Len(alarms')].at + INTERVAL
      BY <1>4, <2>1
    <3>. QED BY <2>1, <3>1, <3>2 DEF QuietOfLastAlarm
  <2>5. ASSUME NEW i \in 1..Len(withheld)
        PROVE  \E j \in 1..n + 1 :
                 /\ alarms'[j].window < withheld[i].window
                 /\ withheld[i].at < alarms'[j].at + INTERVAL
    <3>1. PICK j \in 1..n : /\ alarms[j].window < withheld[i].window
                            /\ withheld[i].at < alarms[j].at + INTERVAL
      BY DEF AlarmInv, WithheldOnlyAfterAlarm
    <3>2. j \in 1..n + 1 /\ alarms'[j] = alarms[j]
      <4>1. n \in Nat
        BY <1>0
      <4>2. j \in 1..n + 1
        <5>. HIDE DEF n
        <5>. QED BY <4>1
      <4>. QED BY <2>1, <4>2
    <3>. QED BY <3>1, <3>2
  <2>6. QuietAfterAlarm'
    BY <2>1, <2>3 DEF QuietAfterAlarm
  <2>7. WithheldOnlyAfterAlarm'
    BY <1>4, <2>1, <2>5 DEF WithheldOnlyAfterAlarm
  <2>. QED BY <2>4, <2>6, <2>7 DEF AlarmInv
<1>. QED BY <1>2, <1>3, <1>4 DEF Announce

LEMMA AlarmNext == TypeOK /\ AlarmInv /\ [Next]_vars => AlarmInv'
<1>. SUFFICES ASSUME TypeOK, AlarmInv, [Next]_vars PROVE AlarmInv'
  OBVIOUS
<1>1. CASE Advance \/ (\E c \in Classes : Count(c)) \/ UNCHANGED vars
  BY <1>1 DEF Advance, Count, vars, AlarmInv, QuietAfterAlarm,
              WithheldOnlyAfterAlarm, QuietOfLastAlarm
<1>2. ASSUME NEW c \in Classes, NEW over \in SUBSET Banded,
             NEW shift \in Shifts, Close(c, over, shift)
      PROVE  AlarmInv'
  BY <1>2, AlarmClose DEF Close
<1>. QED BY <1>1, <1>2 DEF Next

(* Alarms are at least the interval apart.                                 *)
THEOREM Quiet == Spec => []QuietAfterAlarm
<1>1. AlarmInv => QuietAfterAlarm
  BY DEF AlarmInv
<1>. QED BY <1>1, AlarmInit, AlarmNext, TypeCorrect, PTL DEF Spec

(* An alarm is withheld only within the interval of an earlier one.        *)
THEOREM Withheld == Spec => []WithheldOnlyAfterAlarm
<1>1. AlarmInv => WithheldOnlyAfterAlarm
  BY DEF AlarmInv
<1>. QED BY <1>1, AlarmInit, AlarmNext, TypeCorrect, PTL DEF Spec

-----------------------------------------------------------------------------
(* Baselines.                                                              *)

LEMMA LearntNext == TypeOK /\ LearntOrFired /\ [Next]_vars => LearntOrFired'
<1>. SUFFICES ASSUME TypeOK, LearntOrFired, [Next]_vars PROVE LearntOrFired'
  OBVIOUS
<1>1. CASE Advance \/ (\E c \in Classes : Count(c)) \/ UNCHANGED vars
  BY <1>1 DEF Advance, Count, vars, LearntOrFired
<1>2. ASSUME NEW c \in Classes, NEW over \in SUBSET Banded,
             NEW shift \in Shifts, Close(c, over, shift)
      PROVE  LearntOrFired'
  <2>. DEFINE firing == Firing(Tallied(c), over, shift)
  <2>1. /\ learnt' = [b \in Baselines |-> IF b \in firing THEN learnt[b]
                                          ELSE learnt[b] \cup {Window}]
        /\ fired' = [n \in Names |-> IF n \in firing THEN fired[n] \cup {Window}
                                     ELSE fired[n]]
        /\ windows' = Window
    BY <1>2 DEF Close, Adapt
  <2>. HIDE DEF firing
  <2>2. /\ windows \in Nat
        /\ 1..windows' = (1..windows) \cup {Window} /\ Window \notin 1..windows
    BY <2>1 DEF TypeOK, Window
  <2>3. ASSUME NEW b \in Baselines
        PROVE  /\ learnt'[b] \cup fired'[b] = 1..windows'
               /\ learnt'[b] \cap fired'[b] = {}
    <3>1. b \in Names
      BY DEF Baselines
    <3>2. /\ learnt[b] \cup fired[b] = 1..windows
          /\ learnt[b] \cap fired[b] = {}
      BY DEF LearntOrFired
    <3>3. \/ learnt'[b] = learnt[b] /\ fired'[b] = fired[b] \cup {Window}
          \/ learnt'[b] = learnt[b] \cup {Window} /\ fired'[b] = fired[b]
      BY <2>1, <3>1
    <3>. QED BY <2>2, <3>2, <3>3
  <2>. QED BY <2>3 DEF LearntOrFired
<1>. QED BY <1>1, <1>2 DEF Next

(* Each window is learnt by a baseline or fires its metric, never both.    *)
THEOREM Freezing == Spec => []LearntOrFired
<1>1. Init => LearntOrFired
  BY DEF Init, LearntOrFired, Baselines
<1>. QED BY <1>1, LearntNext, TypeCorrect, PTL DEF Spec

(* The accumulator never leaves its range.                                 *)
THEOREM Cusum == Spec => []CusumInRange
<1>1. Init => CusumInRange
  BY DEF Init, CusumInRange
<1>2. TypeOK /\ CusumInRange /\ [Next]_vars => CusumInRange'
  <2>. SUFFICES ASSUME TypeOK, CusumInRange, [Next]_vars PROVE CusumInRange'
    OBVIOUS
  <2>1. CASE Advance \/ (\E c \in Classes : Count(c)) \/ UNCHANGED vars
    BY <2>1 DEF Advance, Count, vars, CusumInRange
  <2>2. ASSUME NEW c \in Classes, NEW over \in SUBSET Banded,
               NEW shift \in Shifts, Close(c, over, shift)
        PROVE  CusumInRange'
    <3>1. cusum' = CusumAfter(shift) /\ windows' = Window /\ windows \in Nat
          /\ cusum \in Nat
      BY <2>2 DEF Close, TypeOK
    <3>2. CASE Consulted("SYN")
      BY <3>1, <3>2, CusumRange DEF CusumInRange, Consulted, Warming
    <3>3. CASE ~Consulted("SYN")
      BY <3>1, <3>3, CusumRange DEF CusumInRange, Window
    <3>. QED BY <3>2, <3>3
  <2>. QED BY <2>1, <2>2 DEF Next
<1>. QED BY <1>1, <1>2, TypeCorrect, PTL DEF Spec

-----------------------------------------------------------------------------
(* The detectors that need a baseline.                                     *)

(* What fires without a cap is one of the bands or the accumulator, and    *)
(* those look at a baseline.                                               *)
LEMMA FiresConsulted ==
  ASSUME NEW c \in Classes, NEW over \in SUBSET Banded, NEW shift \in Shifts,
         over \subseteq {b \in Banded : Consulted(b)},
         NEW n \in Firing(Tallied(c), over, shift), Cap[n] = 0
  PROVE  n \in Baselines /\ Consulted(n)
<1>1. ~OverCap(n, Tallied(c))
  BY DEF OverCap
<1>2. n \in over \/ (n = "SYN" /\ CusumFires(shift))
  BY <1>1 DEF Firing
<1>. QED BY <1>2 DEF CusumFires, Banded, Baselines, Names

(* A metric without a baseline fires over its cap only. *)
CappedOnly == \A n \in Names \ Baselines : Cap[n] = 0 => fired[n] = {}

LEMMA AdaptiveNext ==
  ASSUME TypeOK, CappedOnly, AdaptiveNeedsBaseline, [Next]_vars
  PROVE  CappedOnly' /\ AdaptiveNeedsBaseline'
<1>1. CASE Advance \/ (\E c \in Classes : Count(c)) \/ UNCHANGED vars
  BY <1>1 DEF Advance, Count, vars, AdaptiveNeedsBaseline, CappedOnly
<1>2. ASSUME NEW c \in Classes, NEW over \in SUBSET Banded,
             NEW shift \in Shifts, Close(c, over, shift)
      PROVE  CappedOnly' /\ AdaptiveNeedsBaseline'
  <2>. DEFINE firing == Firing(Tallied(c), over, shift)
  <2>1. /\ Adapt(firing)
        /\ fired' = [n \in Names |-> IF n \in firing THEN fired[n] \cup {Window}
                                     ELSE fired[n]]
        /\ over \subseteq {b \in Banded : Consulted(b)}
    BY <1>2 DEF Close
  <2>2. \A n \in firing : Cap[n] = 0 => n \in Baselines /\ Consulted(n)
    BY <2>1, FiresConsulted
  <2>. HIDE DEF firing
  <2>3. \A b \in Baselines : learnt[b] \subseteq learnt'[b]
    BY <2>1 DEF Adapt
  <2>4. ASSUME NEW n \in Names, Cap[n] = 0, NEW w \in fired'[n]
        PROVE  w > WARMUP /\ \E v \in learnt'[n] : v < w
    <3>1. CASE w \in fired[n]
      <4>1. w > WARMUP /\ \E v \in learnt[n] : v < w
        BY <2>4, <3>1 DEF AdaptiveNeedsBaseline
      <4>2. CASE n \in Baselines
        BY <2>3, <4>1, <4>2
      <4>3. CASE n \notin Baselines
        BY <2>4, <3>1, <4>3 DEF CappedOnly
      <4>. QED BY <4>2, <4>3
    <3>2. CASE w \notin fired[n]
      <4>1. n \in firing /\ w = Window
        BY <2>1, <3>2
      <4>2. n \in Baselines /\ learnt[n] # {} /\ ~Warming
        BY <2>2, <2>4, <4>1 DEF Consulted
      <4>3. PICK v \in learnt[n] : TRUE
        BY <4>2
      <4>4. v \in 1..windows /\ windows \in Nat
        BY <4>2, <4>3 DEF TypeOK
      <4>5. v < w /\ w > WARMUP
        BY <4>1, <4>2, <4>4 DEF Window, Warming
      <4>. QED BY <2>3, <4>2, <4>3, <4>5
    <3>. QED BY <3>1, <3>2
  <2>5. CappedOnly'
    BY <2>1, <2>2 DEF CappedOnly
  <2>. QED BY <2>4, <2>5 DEF AdaptiveNeedsBaseline
<1>. QED BY <1>1, <1>2 DEF Next

(* Without a cap nothing fires before its baseline has learnt a window.    *)
THEOREM Adaptive == Spec => []AdaptiveNeedsBaseline
<1>1. Init => CappedOnly /\ AdaptiveNeedsBaseline
  BY DEF Init, AdaptiveNeedsBaseline, CappedOnly
<1>2. /\ TypeOK /\ CappedOnly /\ AdaptiveNeedsBaseline /\ [Next]_vars
      => CappedOnly' /\ AdaptiveNeedsBaseline'
  BY AdaptiveNext
<1>. QED BY <1>1, <1>2, TypeCorrect, PTL DEF Spec
=============================================================================
