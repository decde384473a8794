-------------------------- MODULE ThmonAgentProofs --------------------------
(***************************************************************************)
(* Proofs about ThmonAgent, for every window size, interval, set of caps,  *)
(* configuration file and frame, and for any number of reloads.            *)
(***************************************************************************)
EXTENDS ThmonAgent, Lemmas

USE ThmonAgentAssumption

-----------------------------------------------------------------------------
(* Type correctness.                                                       *)

LEMMA MetricsAre ==
  /\ Metrics = {"SYN", "FIN", "RST", "ICMP", "UDP", "PPS"}
  /\ Classes \subseteq Metrics /\ Banded \subseteq Metrics /\ "SYN" \in Metrics
<1>1. Metrics = {Order[i] : i \in 1..6}
  BY DEF Metrics, ToSet, Order
<1>2. /\ Order[1] = "SYN" /\ Order[2] = "FIN" /\ Order[3] = "RST"
      /\ Order[4] = "ICMP" /\ Order[5] = "UDP" /\ Order[6] = "PPS"
  BY DEF Order
<1>3. 1..6 = {1, 2, 3, 4, 5, 6}
  OBVIOUS
<1>4. Metrics = {"SYN", "FIN", "RST", "ICMP", "UDP", "PPS"}
  BY <1>1, <1>2, <1>3
<1>. QED BY <1>4 DEF Classes, Banded

(* All counts are numbers, and the texts are made of a window.             *)
TypeInv ==
  /\ TypeOK
  /\ counts \in [Classes \cup {"all"} -> Nat]
  /\ phase = "compose" => windows # 0

LEMMA TypeInit == Init => TypeInv
<1>. SUFFICES ASSUME Init PROVE TypeInv
  OBVIOUS
<1>1. DOMAIN conf = Keys
  BY DEF Init, Parsed
<1>2. alarms \in Seq(Alarms) /\ withheld \in Seq(Alarms)
  BY DEF Init
<1>3. /\ \A c \in Classes : counts[c] = 0
      /\ counts["all"] = 0 /\ counts \in [Classes \cup {"all"} -> Nat]
  BY DEF Init, Classes
<1>4. /\ learnt \in [Metrics -> SUBSET (1..windows)]
      /\ fired \in [Metrics -> SUBSET (1..windows)]
  BY DEF Init
<1>5. /\ cusum \in 0..CUSUM_H /\ counts["all"] \in 0..COUNT - 1
      /\ \A c \in Classes : counts[c] \in 0..counts["all"]
  BY <1>3 DEF Init
<1>6. DOMAIN text = Buffers
  BY DEF Init
<1>. QED BY <1>1, <1>2, <1>3, <1>4, <1>5, <1>6 DEF Init, TypeInv, TypeOK

LEMMA CountedType ==
  ASSUME TypeInv, NEW tally, "all" \in tally
  PROVE  /\ Counted(tally) \in [Classes \cup {"all"} -> Nat]
         /\ Counted(tally)["all"] = counts["all"] + 1
         /\ \A c \in Classes : Counted(tally)[c] \in 0..Counted(tally)["all"]
<1>1. /\ counts \in [Classes \cup {"all"} -> Nat]
      /\ counts["all"] \in Nat
      /\ \A c \in Classes : counts[c] \in 0..counts["all"]
  BY DEF TypeInv, TypeOK
<1>2. Counted(tally) = [c \in Classes \cup {"all"} |->
                          IF c \in tally THEN counts[c] + 1 ELSE counts[c]]
  BY <1>1 DEF Counted
<1>. QED BY <1>1, <1>2

LEMMA CusumRange ==
  ASSUME cusum \in 0..CUSUM_H, NEW shift \in Shifts
  PROVE  CusumAfter(shift) \in 0..CUSUM_H
<1>1. cusum + shift - CUSUM_K \in Int
  OBVIOUS
<1>2. Accumulated(shift) \in Nat
  BY <1>1 DEF Accumulated
<1>3. ~Consulted("SYN") => Accumulated(shift) = cusum
  BY DEF Accumulated
<1>. QED BY <1>2, <1>3 DEF CusumAfter, CusumFires

LEMMA FiresMetrics ==
  ASSUME NEW c, NEW over \in Overs, NEW shift
  PROVE  Fires(c, over, shift) \subseteq Metrics
<1>1. over \subseteq Metrics
  BY MetricsAre
<1>. QED BY <1>1, MetricsAre DEF Fires

LEMMA TypeClose ==
  ASSUME TypeInv, NEW tally, NEW over \in Overs, NEW shift \in Shifts,
         Close(tally, over, shift)
  PROVE  TypeInv'
<1>. DEFINE fires == Fires(Counted(tally), over, shift)
<1>1. /\ windows \in Nat /\ windows' = windows + 1
      /\ learnt \in [Metrics -> SUBSET (1..windows)]
      /\ fired \in [Metrics -> SUBSET (1..windows)]
      /\ learnt' = learnt
      /\ fired' = [m \in Metrics |-> IF m \in fires THEN fired[m] \cup {windows + 1}
                                     ELSE fired[m]]
      /\ firing' = fires
  BY DEF Close, TypeInv, TypeOK, Window
<1>2. fires \subseteq Metrics
  BY FiresMetrics
<1>. HIDE DEF fires
<1>3. 1..windows \subseteq 1..windows' /\ windows + 1 \in 1..windows'
  BY <1>1
<1>4. learnt' \in [Metrics -> SUBSET (1..windows')]
  BY <1>1, <1>3
<1>5. fired' \in [Metrics -> SUBSET (1..windows')]
  BY <1>1, <1>3
<1>6. cusum' \in 0..CUSUM_H
  BY CusumRange DEF Close, TypeInv, TypeOK
<1>7. /\ counts' \in [Classes \cup {"all"} -> Nat]
      /\ counts'["all"] \in 0..COUNT - 1
      /\ \A c \in Classes : counts'[c] \in 0..counts'["all"]
  <2>1. counts' = [c \in Classes \cup {"all"} |-> 0]
    BY DEF Close, TypeInv
  <2>. QED BY <2>1
<1>8. start' \in Nat /\ windows' \in Nat /\ windows' # 0
  BY <1>1 DEF Close
<1>9. /\ warmup' = warmup /\ conf' = conf /\ text' = text /\ reloads' = reloads
      /\ now' = now /\ cooldown' = cooldown /\ alive' = alive
      /\ alarms' = alarms /\ withheld' = withheld
      /\ reloaded' = FALSE /\ phase' = "compose"
  BY DEF Close, history
<1>. QED BY <1>1, <1>2, <1>4, <1>5, <1>6, <1>7, <1>8, <1>9 DEF TypeInv, TypeOK

LEMMA TypeConclude ==
  ASSUME TypeInv, Conclude
  PROVE  TypeInv'
<1>. DEFINE alert == [at |-> now, window |-> windows]
<1>1. windows \in 1..windows
  BY DEF Conclude, TypeInv, TypeOK
<1>2. learnt' \in [Metrics -> SUBSET (1..windows)]
  BY <1>1 DEF Conclude, Adapt, TypeInv, TypeOK
<1>3. withheld' \in Seq(Alarms)
  <2>1. withheld \in Seq(Alarms) /\ alert \in Alarms
    BY DEF TypeInv, TypeOK, Alarms
  <2>2. withheld' \in {withheld, Append(withheld, alert)}
    BY DEF Conclude
  <2>. HIDE DEF alert
  <2>3. Append(withheld, alert) \in Seq(Alarms)
    BY <2>1, AppendProperties
  <2>. QED BY <2>1, <2>2, <2>3
<1>4. cooldown' \in Nat
  BY DEF Conclude, QuietUntil, TypeInv, TypeOK
<1>. QED BY <1>2, <1>3, <1>4 DEF Conclude, TypeInv, TypeOK

LEMMA TypeSend ==
  ASSUME TypeInv, SendText
  PROVE  TypeInv'
<1>. DEFINE alert == [at |-> now, window |-> windows]
<1>1. alarms' \in Seq(Alarms)
  <2>1. alarms \in Seq(Alarms) /\ alert \in Alarms
    BY DEF TypeInv, TypeOK, Alarms
  <2>2. alarms' \in {alarms, Append(alarms, alert)}
    BY DEF SendText
  <2>. HIDE DEF alert
  <2>3. Append(alarms, alert) \in Seq(Alarms)
    BY <2>1, AppendProperties
  <2>. QED BY <2>1, <2>2, <2>3
<1>. QED BY <1>1 DEF SendText, Kept, detectors, TypeInv, TypeOK

LEMMA AppendedDomain ==
  ASSUME DOMAIN text = Buffers, NEW buf, NEW val
  PROVE  DOMAIN Appended(buf, val) = Buffers
BY DEF Appended

LEMMA TypeReload ==
  ASSUME TypeInv, Reload \/ ReloadInside
  PROVE  TypeInv'
<1>1. DOMAIN conf' = Keys
  BY DEF Reload, ReloadInside, LoadFile, Parsed, Empty
<1>2. DOMAIN text' = Buffers /\ alive' \in BOOLEAN
  <2>1. DOMAIN text = Buffers /\ alive \in BOOLEAN
    BY DEF TypeInv, TypeOK
  <2>. QED BY <2>1, AppendedDomain DEF Reload, ReloadInside
<1>3. LoadFile
  BY DEF Reload, ReloadInside
<1>. QED BY <1>1, <1>2, <1>3 DEF LoadFile, Kept, detectors, history, TypeInv, TypeOK

LEMMA TypeNext == TypeInv /\ [Next]_vars => TypeInv'
<1>. SUFFICES ASSUME TypeInv, [Next]_vars PROVE TypeInv'
  OBVIOUS
<1>1. CASE Advance
  BY <1>1 DEF Advance, detectors, history, TypeInv, TypeOK
<1>2. ASSUME NEW tally, Count(tally) PROVE TypeInv'
  <2>1. /\ counts' \in [Classes \cup {"all"} -> Nat]
        /\ counts'["all"] \in 0..COUNT - 1
        /\ \A c \in Classes : counts'[c] \in 0..counts'["all"]
    <3>1. counts' = Counted(tally) /\ Counted(tally)["all"] < COUNT /\ "all" \in tally
      BY <1>2 DEF Count
    <3>2. counts["all"] \in Nat
      BY DEF TypeInv, TypeOK
    <3>3. /\ Counted(tally) \in [Classes \cup {"all"} -> Nat]
          /\ Counted(tally)["all"] = counts["all"] + 1
          /\ \A c \in Classes : Counted(tally)[c] \in 0..Counted(tally)["all"]
      BY <3>1, CountedType
    <3>. QED BY <3>1, <3>2, <3>3
  <2>2. start' \in Nat
    BY <1>2 DEF Count, Started, TypeInv, TypeOK
  <2>. QED BY <1>2, <2>1, <2>2 DEF Count, detectors, history, TypeInv, TypeOK
<1>3. ASSUME NEW tally, NEW over \in Overs, NEW shift \in Shifts,
             Close(tally, over, shift)
      PROVE  TypeInv'
  BY <1>3, TypeClose
<1>4. CASE PutText \/ SayText
  <2>1. DOMAIN text' = Buffers
    BY <1>4, AppendedDomain DEF PutText, SayText, TypeInv, TypeOK
  <2>. QED BY <1>4, <2>1 DEF PutText, SayText, Kept, detectors, history, TypeInv, TypeOK
<1>5. CASE IfExists
  BY <1>5 DEF IfExists, Kept, detectors, history, TypeInv, TypeOK
<1>6. CASE SendText
  BY <1>6, TypeSend
<1>7. CASE Conclude
  BY <1>7, TypeConclude
<1>8. CASE Return
  BY <1>8 DEF Return, detectors, history, TypeInv, TypeOK
<1>9. CASE Reload \/ ReloadInside
  BY <1>9, TypeReload
<1>10. CASE UNCHANGED vars
  BY <1>10 DEF vars, detectors, history, TypeInv, TypeOK
<1>. QED BY <1>1, <1>2, <1>3, <1>4, <1>5, <1>6, <1>7, <1>8, <1>9, <1>10 DEF Next

(* Every variable stays in its type; the window never holds COUNT frames,  *)
(* nor the accumulator more than its limit.                                *)
THEOREM TypeCorrect == Spec => []TypeOK
<1>1. TypeInv => TypeOK
  BY DEF TypeInv
<1>. QED BY <1>1, TypeInit, TypeNext, PTL DEF Spec

-----------------------------------------------------------------------------
(* Baselines.                                                              *)

(* While the texts are made, the window has been judged and not yet        *)
(* learnt: what has fired is what firing says, and all before is learnt.   *)
JudgedNotLearnt ==
  phase = "compose" => \A m \in Metrics :
    /\ m \in firing <=> windows \in fired[m]
    /\ windows \notin learnt[m]
    /\ 1..windows - 1 \subseteq learnt[m] \cup fired[m]

LearntInv == LearntUnlessFired /\ JudgedNotLearnt

(* The steps that leave the windows, the baselines and what fired alone.   *)
Unjudged == UNCHANGED <<warmup, windows, learnt, fired, cooldown>>

LEMMA OtherSteps ==
  ASSUME [Next]_vars
  PROVE  \/ \E tally : \E over \in Overs, shift \in Shifts : Close(tally, over, shift)
         \/ Conclude
         \/ Unjudged /\ Return
         \/ Unjudged /\ phase' = phase /\ firing' = firing
<1>1. CASE Advance
  BY <1>1 DEF Advance, detectors, Unjudged
<1>2. ASSUME NEW tally, Count(tally)
      PROVE  Unjudged /\ phase' = phase /\ firing' = firing
  BY <1>2 DEF Count, detectors, Unjudged
<1>3. CASE PutText \/ SayText \/ IfExists \/ SendText
  BY <1>3 DEF PutText, SayText, IfExists, SendText, Kept, detectors, Unjudged
<1>4. CASE Return
  BY <1>4 DEF Return, detectors, Unjudged
<1>5. CASE Reload \/ ReloadInside
  BY <1>5 DEF Reload, ReloadInside, LoadFile, Kept, detectors, Unjudged
<1>6. CASE UNCHANGED vars
  BY <1>6 DEF vars, detectors, Unjudged
<1>. QED BY <1>1, <1>2, <1>3, <1>4, <1>5, <1>6 DEF Next

LEMMA LearntClose ==
  ASSUME TypeInv, LearntInv, NEW tally, NEW over \in Overs, NEW shift \in Shifts,
         Close(tally, over, shift)
  PROVE  LearntInv'
<1>. DEFINE fires == Fires(Counted(tally), over, shift)
<1>1. /\ windows \in Nat /\ windows' = windows + 1 /\ phase = "count"
      /\ learnt \in [Metrics -> SUBSET (1..windows)]
      /\ fired \in [Metrics -> SUBSET (1..windows)]
      /\ learnt' = learnt /\ phase' = "compose" /\ firing' = fires
      /\ fired' = [m \in Metrics |-> IF m \in fires THEN fired[m] \cup {windows + 1}
                                     ELSE fired[m]]
  BY DEF Close, TypeInv, TypeOK, Window
<1>. HIDE DEF fires
<1>2. windows + 1 \notin 1..windows /\ windows' - 1 = windows
  BY <1>1
<1>3. ASSUME NEW m \in Metrics
      PROVE  /\ learnt'[m] \cap fired'[m] = {}
             /\ m \in firing' <=> windows' \in fired'[m]
             /\ windows' \notin learnt'[m]
             /\ 1..windows' - 1 \subseteq learnt'[m] \cup fired'[m]
  <2>1. /\ learnt[m] \cap fired[m] = {} /\ learnt[m] \cup fired[m] = 1..windows
        /\ learnt[m] \subseteq 1..windows /\ fired[m] \subseteq 1..windows
    BY <1>1 DEF LearntInv, LearntUnlessFired
  <2>2. fired'[m] = IF m \in fires THEN fired[m] \cup {windows + 1} ELSE fired[m]
    BY <1>1
  <2>. QED BY <1>1, <1>2, <2>1, <2>2
<1>. QED BY <1>1, <1>3 DEF LearntInv, LearntUnlessFired, JudgedNotLearnt

LEMMA LearntConclude ==
  ASSUME TypeInv, LearntInv, Conclude
  PROVE  LearntInv'
<1>1. /\ windows \in Nat /\ windows # 0 /\ windows' = windows
      /\ phase = "compose" /\ phase' = "send" /\ fired' = fired
      /\ learnt' = [m \in Metrics |-> IF m \in firing THEN learnt[m]
                                      ELSE learnt[m] \cup {windows}]
      /\ learnt \in [Metrics -> SUBSET (1..windows)]
      /\ fired \in [Metrics -> SUBSET (1..windows)]
  BY DEF Conclude, Adapt, TypeInv, TypeOK
<1>2. 1..windows = (1..windows - 1) \cup {windows}
  BY <1>1
<1>3. ASSUME NEW m \in Metrics
      PROVE  /\ learnt'[m] \cap fired'[m] = {}
             /\ learnt'[m] \cup fired'[m] = 1..windows'
  <2>1. /\ learnt[m] \cap fired[m] = {}
        /\ m \in firing <=> windows \in fired[m]
        /\ 1..windows - 1 \subseteq learnt[m] \cup fired[m]
        /\ learnt[m] \subseteq 1..windows /\ fired[m] \subseteq 1..windows
    BY <1>1 DEF LearntInv, LearntUnlessFired, JudgedNotLearnt
  <2>2. learnt'[m] = IF m \in firing THEN learnt[m] ELSE learnt[m] \cup {windows}
    BY <1>1
  <2>. QED BY <1>1, <1>2, <2>1, <2>2
<1>. QED BY <1>1, <1>3 DEF LearntInv, LearntUnlessFired, JudgedNotLearnt

LEMMA LearntNext == TypeInv /\ LearntInv /\ [Next]_vars => LearntInv'
<1>. SUFFICES ASSUME TypeInv, LearntInv, [Next]_vars PROVE LearntInv'
  OBVIOUS
<1>1. CASE Unjudged /\ Return
  BY <1>1 DEF Unjudged, Return, LearntInv, LearntUnlessFired, JudgedNotLearnt
<1>2. CASE Unjudged /\ phase' = phase /\ firing' = firing
  BY <1>2 DEF Unjudged, LearntInv, LearntUnlessFired, JudgedNotLearnt
<1>. QED BY <1>1, <1>2, OtherSteps, LearntClose, LearntConclude

(* Every metric learns a window or has fired in it, never both, whenever   *)
(* the handler of SIGHUP runs.                                             *)
THEOREM Freezing == Spec => []LearntUnlessFired
<1>1. Init => LearntInv
  BY DEF Init, LearntInv, LearntUnlessFired, JudgedNotLearnt
<1>2. LearntInv => LearntUnlessFired
  BY DEF LearntInv
<1>. QED BY <1>1, <1>2, TypeInit, TypeNext, LearntNext, PTL DEF Spec

(* What fires without a cap looks at a baseline, after the warm-up.        *)
LEMMA FiresConsulted ==
  ASSUME NEW c, NEW over \in Overs, NEW shift,
         over \subseteq {m \in Banded : Consulted(m)},
         NEW m \in Fires(c, over, shift), Cap[m] = 0
  PROVE  Consulted(m)
<1>1. ~OverCap(m, c)
  BY DEF OverCap
<1>. QED BY <1>1 DEF Fires, CusumFires

LEMMA AdaptiveNext ==
  TypeInv /\ AdaptiveNeedsBaseline /\ [Next]_vars => AdaptiveNeedsBaseline'
<1>. SUFFICES ASSUME TypeInv, AdaptiveNeedsBaseline, [Next]_vars
              PROVE  AdaptiveNeedsBaseline'
  OBVIOUS
<1>1. ASSUME NEW tally, NEW over \in Overs, NEW shift \in Shifts,
             Close(tally, over, shift)
      PROVE  AdaptiveNeedsBaseline'
  <2>. DEFINE fires == Fires(Counted(tally), over, shift)
  <2>1. /\ windows \in Nat /\ learnt' = learnt /\ warmup' = warmup
        /\ warmup \in Int
        /\ learnt \in [Metrics -> SUBSET (1..windows)]
        /\ fired' = [m \in Metrics |-> IF m \in fires THEN fired[m] \cup {Window}
                                       ELSE fired[m]]
    BY <1>1 DEF Close, TypeInv, TypeOK
  <2>2. \A m \in fires : Cap[m] = 0 => Consulted(m)
    BY <1>1, FiresConsulted DEF Close
  <2>. HIDE DEF fires
  <2>3. ASSUME NEW m \in Metrics, Cap[m] = 0, NEW w \in fired'[m]
        PROVE  warmup >= 0 /\ w > warmup /\ \E v \in learnt[m] : v < w
    <3>1. CASE w \in fired[m]
      BY <2>3, <3>1 DEF AdaptiveNeedsBaseline
    <3>2. CASE w \notin fired[m]
      <4>1. m \in fires /\ w = windows + 1
        BY <2>1, <3>2 DEF Window
      <4>2. learnt[m] # {} /\ warmup >= 0 /\ windows + 1 > warmup
        BY <2>1, <2>2, <2>3, <4>1 DEF Consulted, Warming, Window
      <4>3. PICK v \in learnt[m] : TRUE
        BY <4>2
      <4>4. v \in 1..windows
        BY <2>1, <4>3
      <4>. QED BY <2>1, <4>1, <4>2, <4>3, <4>4
    <3>. QED BY <3>1, <3>2
  <2>. QED BY <2>1, <2>3 DEF AdaptiveNeedsBaseline
<1>2. CASE Conclude
  <2>1. \A m \in Metrics : learnt[m] \subseteq learnt'[m]
    BY <1>2 DEF Conclude, Adapt
  <2>2. fired' = fired /\ warmup' = warmup
    BY <1>2 DEF Conclude
  <2>3. ASSUME NEW m \in Metrics, Cap[m] = 0, NEW w \in fired[m]
        PROVE  warmup >= 0 /\ w > warmup /\ \E v \in learnt'[m] : v < w
    BY <2>1, <2>3 DEF AdaptiveNeedsBaseline
  <2>. QED BY <2>2, <2>3 DEF AdaptiveNeedsBaseline
<1>3. CASE Unjudged
  BY <1>3 DEF Unjudged, AdaptiveNeedsBaseline
<1>. QED BY <1>1, <1>2, <1>3, OtherSteps

(* Without a cap a metric fires only after a warm-up that can end, against *)
(* a baseline learnt from an earlier window.                               *)
THEOREM Adaptive == Spec => []AdaptiveNeedsBaseline
<1>1. Init => AdaptiveNeedsBaseline
  BY DEF Init, AdaptiveNeedsBaseline
<1>. QED BY <1>1, TypeInit, TypeNext, AdaptiveNext, PTL DEF Spec

-----------------------------------------------------------------------------
(* What analyze still has to do to its texts.                              *)

(* What is said in an alert whatever the configuration, and what was       *)
(* measured.                                                               *)
Fillers == {<<",", "">>, <<"Observed:", "">>, <<"Threshold:", "">>}
Figures == {"observed", "threshold"} \X Metrics

(* The steps that put a text together ...                                  *)
Putting ==
  [op : {"put"}, buf : Buffers, key : Keys]
  \cup [op : {"say"}, buf : Buffers, words : Fillers]

(* ... those that do not send the alert's ...                              *)
Plain == Putting \cup [op : {"send"}, buf : Buffers \ {"mesg"}]

(* ... and those that ask for a key first.                                 *)
Asking(S) == [op : {"if"}, key : Keys, then : Seq(S), other : Seq(S)]

Composing ==
  Putting \cup [op : {"say"}, buf : {"mesg"}, words : Figures] \cup Asking(Putting)

Ops == Composing \cup Plain \cup Asking(Plain)

LEMMA KeysAre ==
  /\ \A m \in Metrics : /\ <<"PIC", m>> \in Keys /\ <<"MSG", m>> \in Keys
                        /\ <<"SOUND", m>> \in Keys /\ <<"VOICE", m>> \in Keys
  /\ Shared \subseteq Keys
BY DEF Keys

LEMMA PuttingOps ==
  ASSUME NEW buf \in Buffers, NEW key \in Keys, NEW words \in Fillers
  PROVE  /\ Put(buf, key) \in Putting /\ Say(buf, words) \in Putting
         /\ PutIf(buf, key) \in Asking(Putting)
         /\ PutOr(buf, key, words) \in Asking(Putting)
<1>1. Put(buf, key) \in Putting /\ Say(buf, words) \in Putting
  BY DEF Put, Say, Putting
<1>2. ASSUME NEW then \in Seq(Putting), NEW other \in Seq(Putting)
      PROVE  If(key, then, other) \in Asking(Putting)
  BY DEF If, Asking
<1>3. <<Put(buf, key)>> \in Seq(Putting) /\ <<Say(buf, words)>> \in Seq(Putting)
      /\ <<>> \in Seq(Putting)
  BY <1>1
<1>. QED BY <1>1, <1>2, <1>3 DEF PutIf, PutOr

LEMMA OpsAre ==
  /\ Putting \subseteq Composing /\ Asking(Putting) \subseteq Composing
  /\ Putting \subseteq Plain /\ Composing \subseteq Ops /\ Plain \subseteq Ops
  /\ Asking(Plain) \subseteq Ops
  /\ Seq(Composing) \subseteq Seq(Ops) /\ Seq(Plain) \subseteq Seq(Ops)
  /\ Seq(Putting) \subseteq Seq(Composing)
<1>1. /\ Putting \subseteq Composing /\ Asking(Putting) \subseteq Composing
      /\ Putting \subseteq Plain /\ Composing \subseteq Ops /\ Plain \subseteq Ops
      /\ Asking(Plain) \subseteq Ops
  BY DEF Composing, Plain, Ops
<1>. QED BY <1>1

LEMMA InOrderType ==
  ASSUME NEW ms \in SUBSET Metrics
  PROVE  InOrder(ms) \in Seq(Metrics)
<1>. DEFINE each == [i \in DOMAIN Order |-> IF Order[i] \in ms THEN <<Order[i]>>
                                            ELSE <<>>]
<1>1. DOMAIN Order = 1..6
  BY DEF Order
<1>2. each \in [1..6 -> Seq(Metrics)]
  BY <1>1
<1>3. each \in Seq(Seq(Metrics))
  <2>. HIDE DEF each
  <2>. QED BY <1>2, FunctionIsSeq
<1>. QED BY <1>3, FlattenType DEF InOrder

LEMMA HeadingType ==
  ASSUME NEW m \in Metrics
  PROVE  Heading(m) \in Seq(Composing) /\ Telling(m) \in Seq(Composing)
<1>1. /\ "mesg" \in Buffers /\ "sound" \in Buffers /\ "voice" \in Buffers
      /\ <<",", "">> \in Fillers /\ <<"Observed:", "">> \in Fillers
      /\ <<"Threshold:", "">> \in Fillers
      /\ <<"observed", m>> \in Figures /\ <<"threshold", m>> \in Figures
  BY DEF Buffers, Fillers, Figures
<1>2. /\ <<"PIC", m>> \in Keys /\ <<"MSG", m>> \in Keys
      /\ <<"SOUND", m>> \in Keys /\ <<"VOICE", m>> \in Keys
      /\ <<"MSG", "HEAD">> \in Keys /\ <<"SOUND", "HEAD">> \in Keys
      /\ <<"VOICE", "HEAD">> \in Keys /\ <<"MONITOR", "">> \in Keys
      /\ <<"THRESHOLD", "">> \in Keys
  BY KeysAre DEF Shared
<1>3. /\ PutIf("mesg", <<"PIC", m>>) \in Composing
      /\ Say("mesg", <<",", "">>) \in Composing
      /\ Put("mesg", <<"MSG", "HEAD">>) \in Composing
      /\ Put("sound", <<"SOUND", "HEAD">>) \in Composing
      /\ PutIf("sound", <<"SOUND", m>>) \in Composing
      /\ Put("voice", <<"VOICE", "HEAD">>) \in Composing
  BY <1>1, <1>2, PuttingOps, OpsAre
<1>4. /\ Put("mesg", <<"MSG", m>>) \in Composing
      /\ PutOr("mesg", <<"MONITOR", "">>, <<"Observed:", "">>) \in Composing
      /\ Say("mesg", <<"observed", m>>) \in Composing
      /\ PutOr("mesg", <<"THRESHOLD", "">>, <<"Threshold:", "">>) \in Composing
      /\ Say("mesg", <<"threshold", m>>) \in Composing
      /\ Put("voice", <<"VOICE", m>>) \in Composing
  <2>1. ASSUME NEW words \in Figures PROVE Say("mesg", words) \in Composing
    BY DEF Say, Composing
  <2>. QED BY <1>1, <1>2, <2>1, PuttingOps, OpsAre
<1>5. ASSUME NEW a \in Composing, NEW b \in Composing, NEW c \in Composing,
             NEW d \in Composing, NEW e \in Composing, NEW f \in Composing
      PROVE  <<a, b, c, d, e, f>> \in Seq(Composing)
  OBVIOUS
<1>6. Heading(m) \in Seq(Composing)
  BY ONLY <1>3, <1>5 DEF Heading
<1>7. Telling(m) \in Seq(Composing)
  BY ONLY <1>4, <1>5 DEF Telling
<1>. QED BY <1>6, <1>7

LEMMA AlertType ==
  ASSUME NEW ms \in Seq(Metrics)
  PROVE  Alert(ms) \in Seq(Composing)
<1>1. CASE ms = <<>>
  BY <1>1 DEF Alert
<1>2. CASE ms # <<>>
  <2>. DEFINE each == [i \in DOMAIN ms |-> Telling(ms[i])]
  <2>1. /\ Len(ms) \in Nat \ {0} /\ DOMAIN ms = 1..Len(ms) /\ 1 \in 1..Len(ms)
        /\ \A i \in 1..Len(ms) : ms[i] \in Metrics
    BY <1>2
  <2>2. each \in [1..Len(ms) -> Seq(Composing)]
    BY <2>1, HeadingType
  <2>3. each \in Seq(Seq(Composing))
    <3>. HIDE DEF each
    <3>. QED BY <2>1, <2>2, FunctionIsSeq
  <2>4. FlattenSeq(each) \in Seq(Composing)
    <3>. HIDE DEF each
    <3>. QED BY <2>3, FlattenType
  <2>5. Heading(ms[1]) \in Seq(Composing)
    BY <2>1, HeadingType
  <2>6. Heading(ms[1]) \o FlattenSeq(each) \in Seq(Composing)
    <3>. HIDE DEF each
    <3>. QED BY <2>4, <2>5, ConcatProperties
  <2>. QED BY <1>2, <2>6 DEF Alert
<1>. QED BY <1>1, <1>2

(* The alert's text is the first to be sent, after its foot.               *)
LEMMA SendingIs ==
  /\ Sending # <<>> /\ Head(Sending).op = "put"
  /\ Tail(Sending) # <<>>
  /\ Head(Tail(Sending)) = Send("mesg")
  /\ Tail(Tail(Sending)) \in Seq(Ops)
<1>. DEFINE rest ==
       IF Sound
       THEN <<Put("sound", <<"SOUND", "FOOT">>), Send("sound"),
              Put("voice", <<"VOICE", "FOOT">>), Send("voice"),
              If(<<"SKYDOME", "">>,
                 <<Put("skydome", <<"SKYDOME", "">>), Send("skydome")>>, <<>>)>>
       ELSE <<>>
<1>1. rest \in Seq(Ops)
  <2>1. /\ "sound" \in Buffers /\ "voice" \in Buffers /\ "skydome" \in Buffers
        /\ <<"SOUND", "FOOT">> \in Keys /\ <<"VOICE", "FOOT">> \in Keys
        /\ <<"SKYDOME", "">> \in Keys
    BY KeysAre DEF Buffers, Shared
  <2>2. /\ Put("sound", <<"SOUND", "FOOT">>) \in Plain
        /\ Put("voice", <<"VOICE", "FOOT">>) \in Plain
        /\ Put("skydome", <<"SKYDOME", "">>) \in Plain
        /\ Send("sound") \in Plain /\ Send("voice") \in Plain
        /\ Send("skydome") \in Plain
    BY <2>1 DEF Put, Send, Plain, Putting
  <2>3. ASSUME NEW p \in Plain, NEW q \in Plain
        PROVE  If(<<"SKYDOME", "">>, <<p, q>>, <<>>) \in Ops
    <3>1. <<p, q>> \in Seq(Plain) /\ <<>> \in Seq(Plain)
      OBVIOUS
    <3>. QED BY <2>1, <3>1, OpsAre DEF If, Asking
  <2>4. ASSUME NEW p \in Ops, NEW q \in Ops, NEW v \in Ops, NEW w \in Ops, NEW d \in Ops
        PROVE  <<p, q, v, w, d>> \in Seq(Ops)
    OBVIOUS
  <2>5. Plain \subseteq Ops
    BY OpsAre
  <2>. DEFINE p == Put("sound", <<"SOUND", "FOOT">>)
              q == Send("sound")
              v == Put("voice", <<"VOICE", "FOOT">>)
              w == Send("voice")
              d == If(<<"SKYDOME", "">>,
                      <<Put("skydome", <<"SKYDOME", "">>), Send("skydome")>>, <<>>)
  <2>6. p \in Ops /\ q \in Ops /\ v \in Ops /\ w \in Ops /\ d \in Ops
    BY <2>2, <2>3, <2>5
  <2>7. <<p, q, v, w, d>> \in Seq(Ops)
    <3>. HIDE DEF p, q, v, w, d
    <3>. QED BY <2>4, <2>6
  <2>8. <<>> \in Seq(Ops)
    OBVIOUS
  <2>9. rest = IF Sound THEN <<p, q, v, w, d>> ELSE <<>>
    OBVIOUS
  <2>. HIDE DEF rest
  <2>. QED BY <2>7, <2>8, <2>9, Zenon
<1>2. Sending = <<Put("mesg", <<"MSG", "FOOT">>), Send("mesg")>> \o rest
  BY DEF Sending
<1>. HIDE DEF rest
<1>3. ASSUME NEW a, NEW b
      PROVE  /\ <<a, b>> \o rest # <<>> /\ Head(<<a, b>> \o rest) = a
             /\ Tail(<<a, b>> \o rest) # <<>>
             /\ Head(Tail(<<a, b>> \o rest)) = b
             /\ Tail(Tail(<<a, b>> \o rest)) = rest
  <2>. DEFINE S == Ops \cup {a, b}
  <2>1. a \in S /\ b \in S /\ rest \in Seq(S)
    BY <1>1
  <2>. HIDE DEF S
  <2>2. /\ <<a, b>> \o rest # <<>> /\ Head(<<a, b>> \o rest) = a
        /\ Tail(<<a, b>> \o rest) = <<b>> \o rest
    BY <2>1, ConsTwo
  <2>3. /\ <<b>> \o rest # <<>> /\ Head(<<b>> \o rest) = b
        /\ Tail(<<b>> \o rest) = rest
    BY <2>1, ConsSeq
  <2>. QED BY <2>2, <2>3
<1>4. Put("mesg", <<"MSG", "FOOT">>).op = "put"
  BY DEF Put
<1>. DEFINE foot == Put("mesg", <<"MSG", "FOOT">>)
            send == Send("mesg")
<1>5. Sending = <<foot, send>> \o rest /\ foot.op = "put"
  BY <1>2, <1>4
<1>. HIDE DEF foot, send
<1>6. /\ Sending # <<>> /\ Head(Sending).op = "put" /\ Tail(Sending) # <<>>
      /\ Head(Tail(Sending)) = send /\ Tail(Tail(Sending)) \in Seq(Ops)
  BY <1>1, <1>3, <1>5
<1>. QED BY <1>6 DEF send

-----------------------------------------------------------------------------
(* Alarms.                                                                 *)

(* The quiet time covers all alarms, which are of windows before the one   *)
(* being judged.                                                           *)
AlarmsCovered == \A i \in 1..Len(alarms) :
  /\ alarms[i].at + INTERVAL <= cooldown
  /\ alarms[i].window <= windows
  /\ phase = "compose" => alarms[i].window < windows

LastCovered ==
  IF alarms = <<>> THEN cooldown = 0
  ELSE cooldown = alarms[Len(alarms)].at + INTERVAL

(* The alert's text is about to be sent: its quiet time has begun, and     *)
(* that of all alarms before is over.                                      *)
Due ==
  /\ phase = "send" /\ work \in {Sending, Tail(Sending)}
  /\ cooldown = now + INTERVAL
  /\ \A i \in 1..Len(alarms) : alarms[i].at + INTERVAL <= now

AlarmInv ==
  /\ QuietTime /\ AlarmsCovered
  /\ (work \in Seq(Ops) /\ LastCovered) \/ Due

LEMMA AlarmInit == Init => AlarmInv
BY DEF Init, AlarmInv, QuietTime, AlarmsCovered, LastCovered

LEMMA AlarmTypes ==
  ASSUME TypeInv
  PROVE  /\ now \in Nat /\ windows \in Nat /\ cooldown \in Nat
         /\ alarms \in Seq(Alarms) /\ withheld \in Seq(Alarms)
         /\ Len(alarms) \in Nat /\ Len(withheld) \in Nat
         /\ \A i \in 1..Len(alarms) : alarms[i].at \in Nat /\ alarms[i].window \in Nat
<1>1. /\ now \in Nat /\ windows \in Nat /\ cooldown \in Nat
      /\ alarms \in Seq(Alarms) /\ withheld \in Seq(Alarms)
  BY DEF TypeInv, TypeOK
<1>2. \A i \in 1..Len(alarms) : alarms[i] \in Alarms
  BY <1>1, ElementOfSeq
<1>3. \A i \in 1..Len(alarms) : alarms[i].at \in Nat /\ alarms[i].window \in Nat
  BY <1>2 DEF Alarms
<1>. QED BY <1>1, <1>3, LenProperties

(* A step that does not send the alert's text, and its effect on work.     *)
LEMMA WorkStep ==
  ASSUME work \in Seq(Ops), work # <<>>
  PROVE  /\ Tail(work) \in Seq(Ops) /\ Head(work) # Send("mesg")
         /\ Doing("if") => \A exists \in BOOLEAN : Branch(exists) \in Seq(Ops)
<1>1. Head(work) \in Ops /\ Tail(work) \in Seq(Ops)
  BY NonEmptySeq
<1>2. Head(work) # Send("mesg")
  BY <1>1 DEF Ops, Composing, Putting, Plain, Asking, Send
<1>3. ASSUME Doing("if"), NEW exists \in BOOLEAN PROVE Branch(exists) \in Seq(Ops)
  <2>1. Head(work).then \in Seq(Plain) /\ Head(work).other \in Seq(Plain)
    <3>1. Head(work) \in Asking(Putting) \cup Asking(Plain)
      BY <1>1, <1>3 DEF Doing, Ops, Composing, Putting, Plain
    <3>2. Seq(Putting) \subseteq Seq(Plain)
      BY OpsAre
    <3>. QED BY <3>1, <3>2 DEF Asking
  <2>2. Seq(Plain) \subseteq Seq(Ops)
    BY OpsAre
  <2>3. /\ Head(work).then \o Tail(work) \in Seq(Ops)
        /\ Head(work).other \o Tail(work) \in Seq(Ops)
    BY <1>1, <2>1, <2>2, ConcatProperties
  <2>. QED BY <2>3 DEF Branch
<1>. QED BY <1>1, <1>2, <1>3

LEMMA AlarmSent ==
  ASSUME TypeInv, AlarmInv, SendText, Head(work).buf = "mesg", Due
  PROVE  AlarmInv'
<1>. DEFINE n     == Len(alarms)
            alarm == [at |-> now, window |-> windows]
<1>1. /\ now \in Nat /\ windows \in Nat /\ INTERVAL \in Nat /\ n \in Nat
      /\ alarms \in Seq(Alarms)
      /\ \A i \in 1..n : alarms[i].at \in Nat /\ alarms[i].window \in Nat
  BY AlarmTypes
<1>2. /\ alarms' = Append(alarms, alarm) /\ withheld' = withheld
      /\ cooldown' = now + INTERVAL /\ now' = now /\ windows' = windows
      /\ phase = "send" /\ phase' = "send" /\ work' = Tail(work)
  BY DEF SendText, Kept, detectors, Due
<1>3. work' \in Seq(Ops)
  <2>1. Head(work).op = "send"
    BY DEF SendText, Doing
  <2>2. work = Tail(Sending)
    BY <2>1, SendingIs DEF Due
  <2>. QED BY <1>2, <2>2, SendingIs
<1>4. /\ Len(alarms') = n + 1 /\ alarms' # <<>>
      /\ \A i \in 1..n : alarms'[i] = alarms[i]
      /\ alarms'[n + 1] = alarm
  <2>1. alarm \in Alarms
    BY <1>1 DEF Alarms
  <2>. HIDE DEF alarm
  <2>. QED BY <1>1, <1>2, <2>1, AppendProperties
<1>5. /\ \A i \in 1..n : alarms[i].at + INTERVAL <= now /\ alarms[i].window <= windows
      /\ \A i, j \in 1..n : i < j => alarms[j].at >= alarms[i].at + INTERVAL
  BY DEF AlarmInv, QuietTime, AlarmsCovered, Due
<1>6. alarms'[n + 1].at = now /\ alarms'[n + 1].window = windows
  BY <1>4
<1>7. \A i \in 1..n + 1 : i \in 1..n \/ i = n + 1
  <2>1. n \in Nat
    BY <1>1
  <2>. HIDE DEF n
  <2>. QED BY <2>1
<1>8. \A i \in 1..n : i \in 1..n + 1 /\ n + 1 \in 1..n + 1
  <2>1. n \in Nat
    BY <1>1
  <2>. HIDE DEF n
  <2>. QED BY <2>1
<1>. HIDE DEF n, alarm
<1>9. AlarmsCovered'
  <2>1. ASSUME NEW i \in 1..n + 1
        PROVE  alarms'[i].at + INTERVAL <= now + INTERVAL /\ alarms'[i].window <= windows
    <3>1. CASE i \in 1..n
      <4>1. /\ alarms'[i] = alarms[i] /\ alarms[i].at + INTERVAL <= now
            /\ alarms[i].at \in Nat /\ alarms[i].window <= windows
        BY <1>1, <1>4, <1>5, <3>1
      <4>. QED BY <1>1, <4>1
    <3>2. CASE i = n + 1
      BY <1>1, <1>6, <3>2
    <3>. QED BY <1>7, <3>1, <3>2
  <2>. QED BY <1>2, <1>4, <2>1 DEF AlarmsCovered
<1>10. LastCovered'
  BY <1>2, <1>4, <1>6 DEF LastCovered
<1>11. ASSUME NEW i \in 1..n + 1, NEW j \in 1..n + 1, i < j
       PROVE  alarms'[j].at >= alarms'[i].at + INTERVAL
  <2>1. i \in 1..n /\ alarms'[i] = alarms[i]
    <3>1. i \in 1..n
      BY <1>1, <1>11
    <3>. QED BY <1>4, <3>1
  <2>2. CASE j \in 1..n
    BY <1>4, <1>5, <1>11, <2>1, <2>2
  <2>3. CASE j = n + 1
    BY <1>1, <1>5, <1>6, <2>1, <2>3
  <2>. QED BY <1>7, <2>2, <2>3
<1>12. ASSUME NEW i \in 1..Len(withheld)
       PROVE  \E j \in 1..n + 1 : /\ alarms'[j].window < withheld[i].window
                                  /\ withheld[i].at < alarms'[j].at + INTERVAL
  <2>1. PICK j \in 1..n : /\ alarms[j].window < withheld[i].window
                          /\ withheld[i].at < alarms[j].at + INTERVAL
    BY DEF AlarmInv, QuietTime, n
  <2>2. j \in 1..n + 1 /\ alarms'[j] = alarms[j]
    BY <1>4, <1>8
  <2>. QED BY <2>1, <2>2
<1>13. QuietTime'
  BY <1>2, <1>4, <1>11, <1>12 DEF QuietTime
<1>. QED BY <1>3, <1>9, <1>10, <1>13 DEF AlarmInv

LEMMA AlarmConclude ==
  ASSUME TypeInv, AlarmInv, Conclude
  PROVE  AlarmInv'
<1>. DEFINE n     == Len(alarms)
            m     == Len(withheld)
            alarm == [at |-> now, window |-> windows]
<1>1. /\ now \in Nat /\ windows \in Nat /\ cooldown \in Nat /\ INTERVAL \in Nat
      /\ n \in Nat /\ m \in Nat /\ alarms \in Seq(Alarms) /\ withheld \in Seq(Alarms)
      /\ \A i \in 1..n : alarms[i].at \in Nat /\ alarms[i].window \in Nat
  BY AlarmTypes
<1>2. /\ phase = "compose" /\ phase' = "send" /\ now' = now /\ windows' = windows
      /\ alarms' = alarms
  BY DEF Conclude
<1>3. LastCovered
  BY <1>2 DEF AlarmInv, Due
<1>4. /\ n = 0 => cooldown = 0
      /\ n # 0 => n \in 1..n /\ cooldown = alarms[n].at + INTERVAL
  <2>1. n = 0 <=> alarms = <<>>
    BY <1>1, EmptySeq
  <2>2. n # 0 => n \in 1..n
    <3>1. n \in Nat
      BY <1>1
    <3>. HIDE DEF n
    <3>. QED BY <3>1
  <2>. QED BY <1>3, <2>1, <2>2 DEF LastCovered
<1>5. CASE firing # {} /\ now >= cooldown
  <2>1. cooldown' = now + INTERVAL /\ work' = Sending /\ withheld' = withheld
    BY <1>1, <1>5 DEF Conclude, QuietUntil
  <2>2. \A i \in 1..n : alarms[i].at + INTERVAL <= now /\ alarms[i].window <= windows
    <3>1. \A i \in 1..n : alarms[i].at + INTERVAL <= cooldown
                          /\ alarms[i].window <= windows
      BY DEF AlarmInv, AlarmsCovered
    <3>2. ASSUME NEW i \in 1..n PROVE alarms[i].at + INTERVAL <= now
      <4>1. /\ alarms[i].at \in Nat /\ alarms[i].at + INTERVAL <= cooldown
            /\ cooldown <= now
        BY <1>1, <1>5, <3>1
      <4>. QED BY <1>1, <4>1
    <3>. QED BY <3>1, <3>2
  <2>3. \A i \in 1..n : alarms[i].at + INTERVAL <= now + INTERVAL
    <3>1. \A i \in 1..n : alarms[i].at + INTERVAL \in Nat
      BY <1>1
    <3>. HIDE DEF n
    <3>. QED BY <1>1, <2>2, <3>1
  <2>4. AlarmsCovered'
    BY <1>2, <2>1, <2>2, <2>3 DEF AlarmsCovered
  <2>5. Due'
    BY <1>2, <2>1, <2>2 DEF Due
  <2>6. QuietTime'
    BY <1>2, <2>1 DEF AlarmInv, QuietTime
  <2>. QED BY <2>4, <2>5, <2>6 DEF AlarmInv
<1>6. CASE ~(firing # {} /\ now >= cooldown)
  <2>1. cooldown' = cooldown /\ work' = <<>>
    BY <1>6 DEF Conclude, QuietUntil
  <2>2. AlarmsCovered' /\ LastCovered' /\ work' \in Seq(Ops)
    BY <1>2, <1>3, <2>1 DEF AlarmInv, AlarmsCovered, LastCovered
  <2>3. CASE withheld' = withheld
    BY <1>2, <2>2, <2>3 DEF AlarmInv, QuietTime
  <2>4. CASE now < cooldown /\ withheld' = Append(withheld, alarm)
    <3>1. n \in 1..n /\ alarms[n].window < windows /\ now < alarms[n].at + INTERVAL
      <4>1. n # 0
        BY <1>1, <1>4, <2>4
      <4>2. n \in 1..n /\ cooldown = alarms[n].at + INTERVAL
        BY <1>4, <4>1
      <4>3. alarms[n].window < windows
        BY <1>2, <4>2 DEF AlarmInv, AlarmsCovered
      <4>. QED BY <2>4, <4>2, <4>3
    <3>2. /\ Len(withheld') = m + 1
          /\ \A i \in 1..m : withheld'[i] = withheld[i]
          /\ withheld'[m + 1] = alarm
      <4>1. alarm \in Alarms
        BY <1>1 DEF Alarms
      <4>. HIDE DEF alarm
      <4>. QED BY <1>1, <2>4, <4>1, AppendProperties
    <3>3. withheld'[m + 1].at = now /\ withheld'[m + 1].window = windows
      BY <3>2
    <3>4. \A i \in 1..m + 1 : i \in 1..m \/ i = m + 1
      <4>1. m \in Nat
        BY <1>1
      <4>. HIDE DEF m
      <4>. QED BY <4>1
    <3>5. \A i \in 1..m : \E j \in 1..n :
            /\ alarms[j].window < withheld[i].window
            /\ withheld[i].at < alarms[j].at + INTERVAL
      BY DEF AlarmInv, QuietTime
    <3>. HIDE DEF n, m, alarm
    <3>6. \A i \in 1..m + 1 : \E j \in 1..n :
            /\ alarms[j].window < withheld'[i].window
            /\ withheld'[i].at < alarms[j].at + INTERVAL
      BY <3>1, <3>2, <3>3, <3>4, <3>5
    <3>7. QuietTime'
      BY <1>2, <3>2, <3>6 DEF AlarmInv, QuietTime, n, m
    <3>. QED BY <2>2, <3>7 DEF AlarmInv
  <2>. QED BY <2>3, <2>4 DEF Conclude
<1>. QED BY <1>5, <1>6

(* The steps that neither send the alert's text nor touch the alarms.      *)
AlarmsKept == UNCHANGED <<alarms, withheld, cooldown, windows>>

LEMMA AlarmKept ==
  ASSUME TypeInv, AlarmInv, AlarmsKept,
         \/ phase' = phase /\ now' = now
         \/ phase = "count" /\ phase' = "count"
         \/ phase' = "count",
         work \in Seq(Ops) => work' \in Seq(Ops),
         Due => \/ work' \in Seq(Ops) /\ LastCovered
                \/ phase' = phase /\ now' = now /\ work' \in {Sending, Tail(Sending)}
  PROVE  AlarmInv'
<1>1. QuietTime'
  BY DEF AlarmInv, QuietTime, AlarmsKept
<1>2. AlarmsCovered'
  BY DEF AlarmInv, AlarmsCovered, AlarmsKept
<1>3. CASE Due
  <2>1. CASE work' \in Seq(Ops) /\ LastCovered
    BY <1>1, <1>2, <2>1 DEF AlarmInv, LastCovered, AlarmsKept
  <2>2. CASE phase' = phase /\ now' = now /\ work' \in {Sending, Tail(Sending)}
    BY <1>1, <1>2, <1>3, <2>2 DEF AlarmInv, Due, AlarmsKept
  <2>. QED BY <1>3, <2>1, <2>2
<1>4. CASE ~Due
  BY <1>1, <1>2, <1>4 DEF AlarmInv, LastCovered, AlarmsKept
<1>. QED BY <1>3, <1>4

(* What is at the head while the alert's text is due. *)
LEMMA DueHead ==
  ASSUME Due
  PROVE  /\ work # <<>> /\ ~Doing("if") /\ ~Doing("say")
         /\ Doing("put") => Tail(work) = Tail(Sending)
         /\ Doing("send") => Head(work) = Send("mesg")
<1>1. Send("mesg").op = "send"
  BY DEF Send
<1>2. CASE work = Sending
  BY <1>2, SendingIs DEF Doing
<1>3. CASE work = Tail(Sending)
  BY <1>1, <1>3, SendingIs DEF Doing
<1>. QED BY <1>2, <1>3 DEF Due

LEMMA AlarmNext == TypeInv /\ AlarmInv /\ [Next]_vars => AlarmInv'
<1>. SUFFICES ASSUME TypeInv, AlarmInv, [Next]_vars PROVE AlarmInv'
  OBVIOUS
<1>0. work \in Seq(Ops) \/ Due
  BY DEF AlarmInv
<1>1. CASE Advance
  BY <1>1, AlarmKept DEF Advance, AlarmsKept, detectors, history, Due
<1>2. ASSUME NEW tally, Count(tally) PROVE AlarmInv'
  BY <1>2, AlarmKept DEF Count, AlarmsKept, detectors, history, Due
<1>3. ASSUME NEW tally, NEW over \in Overs, NEW shift \in Shifts,
             Close(tally, over, shift)
      PROVE  AlarmInv'
  <2>1. Fires(Counted(tally), over, shift) \in SUBSET Metrics
    BY FiresMetrics
  <2>2. work' \in Seq(Ops)
    BY <1>3, <2>1, InOrderType, AlertType, OpsAre DEF Close
  <2>3. /\ windows' = windows + 1 /\ cooldown' = cooldown /\ phase = "count"
        /\ alarms' = alarms /\ withheld' = withheld
    BY <1>3 DEF Close, Window, history
  <2>4. AlarmsCovered'
    <3>1. \A i \in 1..Len(alarms) :
            /\ alarms[i].at + INTERVAL <= cooldown /\ alarms[i].window <= windows
            /\ alarms[i].window \in Nat
      BY AlarmTypes DEF AlarmInv, AlarmsCovered
    <3>2. \A i \in 1..Len(alarms) :
            /\ alarms[i].at + INTERVAL <= cooldown
            /\ alarms[i].window <= windows + 1 /\ alarms[i].window < windows + 1
      BY <3>1, AlarmTypes
    <3>. QED BY <2>3, <3>2 DEF AlarmsCovered
  <2>5. QuietTime' /\ LastCovered'
    BY <2>3 DEF AlarmInv, QuietTime, LastCovered, Due
  <2>. QED BY <2>2, <2>4, <2>5 DEF AlarmInv
<1>4. CASE PutText \/ SayText \/ IfExists
  <2>1. /\ AlarmsKept /\ phase' = phase /\ now' = now
        /\ Doing("put") \/ Doing("say") \/ Doing("if")
        /\ \/ work' = Tail(work) /\ ~Doing("if")
           \/ Doing("if") /\ \E exists \in BOOLEAN : work' = Branch(exists)
    BY <1>4 DEF PutText, SayText, IfExists, Kept, AlarmsKept, detectors, history, Doing
  <2>2. work \in Seq(Ops) => work' \in Seq(Ops)
    BY <2>1, WorkStep DEF Doing
  <2>3. Due => work' = Tail(Sending)
    BY <2>1, DueHead
  <2>. QED BY <2>1, <2>2, <2>3, AlarmKept
<1>5. CASE SendText
  <2>1. CASE Due
    BY <1>5, <2>1, AlarmSent, DueHead DEF SendText, Send
  <2>2. CASE ~Due
    <3>1. work \in Seq(Ops) /\ work # <<>> /\ Head(work).op = "send"
      BY <1>0, <1>5, <2>2 DEF SendText, Doing
    <3>2. Head(work) \in Ops
      BY <3>1, NonEmptySeq
    <3>3. Head(work).buf # "mesg"
      BY <3>1, <3>2 DEF Ops, Composing, Putting, Plain, Asking
    <3>4. AlarmsKept /\ phase' = phase /\ now' = now /\ work' = Tail(work)
      BY <1>5, <3>3 DEF SendText, Kept, AlarmsKept, detectors
    <3>. QED BY <2>2, <3>1, <3>4, WorkStep, AlarmKept
  <2>. QED BY <2>1, <2>2
<1>6. CASE Conclude
  BY <1>6, AlarmConclude
<1>7. CASE Return
  <2>1. ~Due
    BY <1>7, DueHead DEF Return
  <2>. QED BY <1>7, <2>1, AlarmKept DEF Return, AlarmsKept, detectors, history
<1>8. CASE Reload \/ ReloadInside
  <2>1. /\ AlarmsKept /\ phase' = phase /\ now' = now
        /\ \/ work' = work
           \/ work' = Tail(work) /\ Doing("put")
           \/ Doing("if") /\ \E exists \in BOOLEAN : work' = Branch(exists)
    BY <1>8 DEF Reload, ReloadInside, LoadFile, Kept, AlarmsKept, detectors, history
  <2>2. work \in Seq(Ops) => work' \in Seq(Ops)
    BY <2>1, WorkStep DEF Doing
  <2>3. Due => work' \in {Sending, Tail(Sending)}
    BY <2>1, DueHead DEF Due
  <2>. QED BY <2>1, <2>2, <2>3, AlarmKept
<1>9. CASE UNCHANGED vars
  BY <1>9, AlarmKept DEF vars, AlarmsKept, detectors, history, Due
<1>. QED BY <1>1, <1>2, <1>3, <1>4, <1>5, <1>6, <1>7, <1>8, <1>9 DEF Next

(* Alerts are -w seconds apart, and one is withheld only in the quiet time *)
(* of one that was sent, wherever SIGHUP comes.                            *)
THEOREM Quiet == Spec => []QuietTime
<1>1. AlarmInv => QuietTime
  BY DEF AlarmInv
<1>. QED BY <1>1, AlarmInit, AlarmNext, TypeInit, TypeNext, PTL DEF Spec

-----------------------------------------------------------------------------
(* What the alert's texts will be when all is done that is still to do.    *)

AllOps == Ops \cup {Send("mesg")}

Sayings == Seq(STRING) \cup Fillers \cup Figures \cup {Garbage}

(* What a step adds to the text b with the configuration as it is, and the *)
(* measured values that it adds to the alert whatever the configuration.   *)
Added(b, x) ==
  IF x.op = "put" /\ x.buf = b THEN Quoted(x.key)
  ELSE IF x.op = "say" /\ x.buf = b THEN <<x.words>>
  ELSE <<>>

Appends(b) == [x \in Plain |-> Added(b, x)]

Chosen(x) == IF conf[x.key] # Absent THEN x.then ELSE x.other

Leaves(b) ==
  [x \in AllOps |-> IF x.op = "if" THEN FlatMap(Chosen(x), Appends(b)) ELSE Added(b, x)]

NumbersOf ==
  [x \in AllOps |-> IF x.op = "say" /\ x.buf = "mesg" /\ IsNumber(x.words)
                    THEN <<x.words>> ELSE <<>>]

(* The texts before their last words.                                      *)
Composed(ms) ==
  [mesg  |-> Quoted(<<"PIC", ms[1]>>) \o <<<<",", "">>>> \o Quoted(<<"MSG", "HEAD">>)
             \o FlattenSeq([i \in DOMAIN ms |-> Told(ms[i])]),
   sound |-> Quoted(<<"SOUND", "HEAD">>) \o Quoted(<<"SOUND", ms[1]>>),
   voice |-> Quoted(<<"VOICE", "HEAD">>)
             \o FlattenSeq([i \in DOMAIN ms |-> Quoted(<<"VOICE", ms[i]>>)]),
   skydome |-> <<>>]

(* The steps that send an alert, and the branch of the last.               *)
foot     == Put("mesg", <<"MSG", "FOOT">>)
sound    == Put("sound", <<"SOUND", "FOOT">>)
voice    == Put("voice", <<"VOICE", "FOOT">>)
skydome  == Put("skydome", <<"SKYDOME", "">>)
optional == If(<<"SKYDOME", "">>, <<skydome, Send("skydome")>>, <<>>)

(* What may be left to do once the alert goes out.                         *)
Speech == <<sound, Send("sound"), voice, Send("voice"), optional>>

Speaking ==
  {<<Send("sound"), voice, Send("voice"), optional>>,
   <<voice, Send("voice"), optional>>, <<Send("voice"), optional>>, <<optional>>,
   <<skydome, Send("skydome")>>, <<Send("skydome")>>}

Rest == IF Sound THEN Speech ELSE <<>>

Stages == {Sending, Tail(Sending), Rest, <<>>} \cup IF Sound THEN Speaking ELSE {}

Spoken == IF Sound THEN Buffers ELSE {"mesg"}

(* The configuration is of a file, and so is what was put of it.           *)
Conforming ==
  /\ conf \in [Keys -> Seq(STRING)] /\ \A k \in Keys : ~IsNumber(conf[k])
  /\ text \in [Buffers -> Seq(Sayings)]

Blank == work = <<>> /\ text = [b \in Buffers |-> <<>>]

(* What is there and what is still to come are the whole text ...          *)
ComposeInv ==
  /\ work \in Seq(Composing)
  /\ firing # {} /\ ~reloaded =>
       \A b \in Buffers :
         text[b] \o FlatMap(work, Leaves(b)) = Composed(InOrder(firing))[b]

SendInv ==
  /\ work \in Stages
  /\ work # <<>> => firing # {}
  /\ work # <<>> /\ ~reloaded =>
       \A b \in Spoken :
         text[b] \o FlatMap(work, Leaves(b)) = Whole(InOrder(firing))[b]

(* ... and its numbers are, whatever was reloaded.                         *)
MeasuredInv ==
  Numbers(text["mesg"]) \o FlatMap(work, NumbersOf) = Measured(InOrder(firing))

TellInv ==
  /\ Conforming
  /\ phase = "count" => Blank
  /\ phase = "compose" => ComposeInv /\ MeasuredInv
  /\ phase = "send" => SendInv /\ MeasuredInv

LEMMA NumbersAre == \A words : IsNumber(words) <=> words \in Figures
BY DEF IsNumber, Figures

LEMMA FillersAre == \A words \in Fillers : ~IsNumber(words)
<1>1. \A words \in Fillers : words[1] \in {",", "Observed:", "Threshold:"}
  <2>1. /\ <<",", "">>[1] = "," /\ <<"Observed:", "">>[1] = "Observed:"
        /\ <<"Threshold:", "">>[1] = "Threshold:"
    OBVIOUS
  <2>. QED BY <2>1 DEF Fillers
<1>2. \A words : IsNumber(words) => words[1] \in {"observed", "threshold"}
  BY DEF IsNumber
<1>. QED BY <1>1, <1>2

(* What the branches of a step hold, and what a step adds.                 *)
LEMMA Branches ==
  ASSUME NEW x \in AllOps, x.op = "if"
  PROVE  x \in Asking(Plain) /\ x.key \in Keys /\ x.then \in Seq(Plain) /\ x.other \in Seq(Plain)
<1>1. x \in Asking(Putting) \cup Asking(Plain)
  BY DEF AllOps, Ops, Composing, Putting, Plain, Send
<1>2. Seq(Putting) \subseteq Seq(Plain)
  BY OpsAre
<1>. QED BY <1>1, <1>2 DEF Asking

LEMMA Kinds ==
  ASSUME NEW x \in AllOps
  PROVE  /\ x.op = "put" => x.buf \in Buffers /\ x.key \in Keys
         /\ x.op = "say" => x.buf \in Buffers /\ x.words \in Fillers \cup Figures
         /\ x.op = "send" => x.buf \in Buffers /\ x = Send(x.buf)
         /\ x.op \in {"put", "say", "send", "if"}
<1>1. "mesg" \in Buffers
  BY DEF Buffers
<1>. QED BY <1>1 DEF AllOps, Ops, Composing, Putting, Plain, Asking, Send

LEMMA AddedType ==
  ASSUME Conforming, NEW b, NEW x \in AllOps, x.op # "if"
  PROVE  Added(b, x) \in Seq(Sayings)
<1>1. CASE x.op = "put"
  <2>1. conf[x.key] \in Sayings
    BY <1>1, Kinds DEF Conforming, Sayings
  <2>. QED BY <1>1, <2>1 DEF Added, Quoted
<1>2. CASE x.op = "say"
  <2>1. x.words \in Sayings
    BY <1>2, Kinds DEF Sayings
  <2>. QED BY <1>2, <2>1 DEF Added
<1>3. CASE x.op = "send"
  BY <1>3 DEF Added
<1>. QED BY <1>1, <1>2, <1>3, Kinds

LEMMA PlainIs == /\ Plain \subseteq AllOps /\ \A x \in Plain : x.op # "if"
BY DEF AllOps, Ops, Plain, Putting

LEMMA LeavesType ==
  ASSUME Conforming, NEW b
  PROVE  /\ Appends(b) \in [Plain -> Seq(Sayings)]
         /\ Leaves(b) \in [AllOps -> Seq(Sayings)]
<1>1. Appends(b) \in [Plain -> Seq(Sayings)]
  BY PlainIs, AddedType DEF Appends
<1>2. ASSUME NEW x \in AllOps, x.op = "if"
      PROVE  FlatMap(Chosen(x), Appends(b)) \in Seq(Sayings)
  <2>1. Chosen(x) \in Seq(Plain)
    BY <1>2, Branches DEF Chosen
  <2>. QED BY <1>1, <2>1, FlatMapType
<1>. DEFINE y(x) == IF x.op = "if" THEN FlatMap(Chosen(x), Appends(b)) ELSE Added(b, x)
<1>3. \A x \in AllOps : y(x) \in Seq(Sayings)
  BY <1>2, AddedType
<1>4. Leaves(b) = [x \in AllOps |-> y(x)]
  BY DEF Leaves
<1>. HIDE DEF y
<1>. QED BY <1>1, <1>3, <1>4

LEMMA NumbersOfType == NumbersOf \in [AllOps -> Seq(Figures)]
<1>. DEFINE y(x) == IF x.op = "say" /\ x.buf = "mesg" /\ IsNumber(x.words)
                    THEN <<x.words>> ELSE <<>>
<1>1. \A x \in AllOps : y(x) \in Seq(Figures)
  BY NumbersAre
<1>2. NumbersOf = [x \in AllOps |-> y(x)]
  BY DEF NumbersOf
<1>. HIDE DEF y
<1>. QED BY <1>1, <1>2

LEMMA Worded == \A words \in Fillers \cup Figures : words # Absent
<1>1. \A x, y : <<x, y>> # <<>>
  OBVIOUS
<1>2. \A words \in Figures : \E x, y : words = <<x, y>>
  BY DEF Figures
<1>. QED BY <1>1, <1>2 DEF Fillers, Absent

(* A step of the monitor moves what a step adds from what is to come to    *)
(* what is there.                                                          *)
LEMMA Moved ==
  ASSUME NEW S, NEW t \in Seq(S), NEW x \in Seq(S), NEW y \in Seq(S)
  PROVE  t \o (x \o y) = (t \o x) \o y
BY ConcatAssociative

LEMMA WorkSplit ==
  ASSUME NEW T, NEW h \in [AllOps -> Seq(T)], work \in Seq(AllOps), work # <<>>
  PROVE  /\ Head(work) \in AllOps /\ Tail(work) \in Seq(AllOps)
         /\ FlatMap(work, h) = h[Head(work)] \o FlatMap(Tail(work), h)
         /\ FlatMap(Tail(work), h) \in Seq(T) /\ h[Head(work)] \in Seq(T)
<1>1. Head(work) \in AllOps /\ Tail(work) \in Seq(AllOps)
  BY NonEmptySeq
<1>2. FlatMap(work, h) = h[Head(work)] \o FlatMap(Tail(work), h)
  BY FlatMapHead
<1>3. FlatMap(Tail(work), h) \in Seq(T)
  BY <1>1, FlatMapType
<1>. QED BY <1>1, <1>2, <1>3

LEMMA BranchLeaves ==
  ASSUME Conforming, work \in Seq(AllOps), work # <<>>, Head(work).op = "if", NEW b
  PROVE  LET br == Chosen(Head(work)) \o Tail(work)
         IN  FlatMap(br, Leaves(b)) = FlatMap(work, Leaves(b))
<1>. DEFINE c == Chosen(Head(work))
            t == Tail(work)
            h == Leaves(b)
<1>1. h \in [AllOps -> Seq(Sayings)]
  BY LeavesType
<1>2. /\ Head(work) \in AllOps /\ t \in Seq(AllOps)
      /\ FlatMap(work, h) = h[Head(work)] \o FlatMap(t, h)
  <2>. HIDE DEF h
  <2>. QED BY <1>1, WorkSplit
<1>3. c \in Seq(Plain)
  BY <1>2, Branches DEF Chosen
<1>4. h[Head(work)] = FlatMap(c, Appends(b))
  BY <1>2 DEF Leaves
<1>5. \A x \in Plain : h[x] = Appends(b)[x]
  BY PlainIs DEF Leaves, Appends
<1>6. c \in Seq(AllOps)
  BY <1>3, PlainIs
<1>. HIDE DEF c, t, h
<1>7. FlatMap(c, h) = FlatMap(c, Appends(b))
  BY <1>3, <1>5, FlatMapSame
<1>8. FlatMap(c \o t, h) = FlatMap(c, h) \o FlatMap(t, h)
  BY ONLY <1>1, <1>2, <1>6, FlatMapConcat, ZenonT(30)
<1>. QED BY <1>2, <1>4, <1>7, <1>8 DEF c, t, h

(* Putting, saying, asking and sending keep the whole text as it is.       *)
Handling == PutText \/ SayText \/ IfExists \/ SendText

LEMMA WholeKept ==
  ASSUME Conforming, work \in Seq(AllOps), Handling, NEW b \in Buffers
  PROVE  text'[b] \o FlatMap(work', Leaves(b)') = text[b] \o FlatMap(work, Leaves(b))
<1>. DEFINE h == Leaves(b)
            x == Head(work)
<1>1. h' = h
  BY DEF Handling, PutText, SayText, IfExists, SendText, Leaves, Chosen, Appends, Added,
         Quoted
<1>2. h \in [AllOps -> Seq(Sayings)] /\ work # <<>> /\ text[b] \in Seq(Sayings)
  BY LeavesType DEF Handling, PutText, SayText, IfExists, SendText, Doing, Conforming
<1>3. /\ x \in AllOps /\ Tail(work) \in Seq(AllOps)
      /\ FlatMap(work, h) = h[x] \o FlatMap(Tail(work), h)
      /\ FlatMap(Tail(work), h) \in Seq(Sayings) /\ h[x] \in Seq(Sayings)
  <2>. HIDE DEF h
  <2>. QED BY <1>2, WorkSplit
<1>4. CASE IfExists
  <2>1. text' = text /\ x.op = "if" /\ work' = Chosen(x) \o Tail(work)
    BY <1>4 DEF IfExists, Doing, Branch, Chosen
  <2>2. FlatMap(Chosen(x) \o Tail(work), h) = FlatMap(work, h)
    BY <1>2, <2>1, BranchLeaves
  <2>. HIDE DEF h, x
  <2>3. FlatMap(work', h') = FlatMap(work, h) /\ text'[b] = text[b]
    BY <1>1, <2>1, <2>2
  <2>. QED BY <2>3 DEF h
<1>5. CASE PutText \/ SayText \/ SendText
  <2>1. work' = Tail(work) /\ x.op # "if" /\ h[x] = Added(b, x)
    BY <1>3, <1>5 DEF PutText, SayText, SendText, Doing, Leaves
  <2>2. text'[b] = text[b] \o Added(b, x)
    <3>0. /\ \A w \in Sayings : text[b] \o <<w>> = Append(text[b], w)
          /\ text[b] \o <<>> = text[b]
      <4>. DEFINE t == text[b]
      <4>1. t \in Seq(Sayings)
        BY <1>2
      <4>. HIDE DEF t
      <4>2. (\A w \in Sayings : t \o <<w>> = Append(t, w)) /\ t \o <<>> = t
        BY <4>1
      <4>. QED BY <4>2 DEF t
    <3>1. /\ text \in [Buffers -> Seq(Sayings)]
          /\ x.op \in {"put", "say"} => x.buf \in Buffers
      BY <1>3, Kinds DEF Conforming
    <3>2. CASE PutText
      <4>1. x.op = "put" /\ text' = Appended(x.buf, conf[x.key])
        BY <3>2 DEF PutText, Doing
      <4>2. conf[x.key] \in Sayings
        BY <1>3, <4>1, Kinds DEF Conforming, Sayings
      <4>3. text'[b] = IF x.buf = b /\ conf[x.key] # Absent THEN Append(text[b], conf[x.key])
                       ELSE text[b]
        BY <3>1, <4>1 DEF Appended
      <4>4. Added(b, x) = IF x.buf = b /\ conf[x.key] # Absent THEN <<conf[x.key]>> ELSE <<>>
        BY <4>1 DEF Added, Quoted
      <4>. QED BY <3>0, <4>2, <4>3, <4>4
    <3>3. CASE SayText
      <4>1. x.op = "say" /\ text' = Appended(x.buf, x.words)
        BY <3>3 DEF SayText, Doing
      <4>2. x.words \in Sayings /\ x.words # Absent
        <5>1. x.words \in Fillers \cup Figures
          BY <1>3, <4>1, Kinds
        <5>. QED BY <5>1, Worded DEF Sayings
      <4>3. text'[b] = IF x.buf = b THEN Append(text[b], x.words) ELSE text[b]
        BY <3>1, <4>1, <4>2 DEF Appended
      <4>4. Added(b, x) = IF x.buf = b THEN <<x.words>> ELSE <<>>
        BY <4>1 DEF Added
      <4>. QED BY <3>0, <4>2, <4>3, <4>4
    <3>4. CASE SendText
      <4>1. text' = text /\ Added(b, x) = <<>>
        BY <3>4 DEF SendText, Doing, Added
      <4>. QED BY <3>0, <4>1
    <3>. QED BY <1>5, <3>2, <3>3, <3>4
  <2>3. text[b] \o (h[x] \o FlatMap(Tail(work), h)) = (text[b] \o h[x]) \o FlatMap(Tail(work), h)
    <3>. HIDE DEF h, x
    <3>1. text[b] \in Seq(Sayings) /\ h[x] \in Seq(Sayings) /\ FlatMap(Tail(work), h) \in Seq(Sayings)
      BY <1>2, <1>3
    <3>. DEFINE t == text[b]
                y == h[x]
                z == FlatMap(Tail(work), h)
    <3>2. t \in Seq(Sayings) /\ y \in Seq(Sayings) /\ z \in Seq(Sayings)
      BY <3>1
    <3>. HIDE DEF t, y, z
    <3>3. t \o (y \o z) = (t \o y) \o z
      BY <3>2, Moved
    <3>. QED BY <3>3 DEF t, y, z
  <2>4. FlatMap(work', h') = FlatMap(Tail(work), h) /\ text'[b] = text[b] \o h[x]
    BY <1>1, <2>1, <2>2
  <2>. HIDE DEF x
  <2>5. text'[b] \o FlatMap(work', h') = text[b] \o FlatMap(work, h)
    <3>. HIDE DEF h
    <3>. QED BY <1>3, <2>3, <2>4
  <2>. QED BY <2>5
<1>. QED BY <1>4, <1>5 DEF Handling

(* The numbers of a text that grows by a word.                             *)
LEMMA NumbersAppend ==
  ASSUME NEW t \in Seq(Sayings), NEW w \in Sayings
  PROVE  /\ Numbers(t) \in Seq(Figures) /\ Numbers(<<>>) = <<>>
         /\ Numbers(Append(t, w)) = IF IsNumber(w) THEN Append(Numbers(t), w)
                                    ELSE Numbers(t)
<1>. DEFINE pick == [v \in Sayings |-> IF IsNumber(v) THEN <<v>> ELSE <<>>]
<1>1. pick \in [Sayings -> Seq(Figures)]
  <2>1. \A v \in Sayings : (IF IsNumber(v) THEN <<v>> ELSE <<>>) \in Seq(Figures)
    BY NumbersAre
  <2>. QED BY <2>1
<1>2. ASSUME NEW u \in Seq(Sayings) PROVE Numbers(u) = FlatMap(u, pick)
  <2>1. \A i \in DOMAIN u : u[i] \in Sayings
    BY LenProperties, ElementOfSeq
  <2>2. [i \in DOMAIN u |-> IF IsNumber(u[i]) THEN <<u[i]>> ELSE <<>>] = Each(u, pick)
    BY <2>1 DEF Each
  <2>. HIDE DEF pick
  <2>. QED BY <2>2 DEF Numbers, FlatMap
<1>3. pick[w] = IF IsNumber(w) THEN <<w>> ELSE <<>>
  OBVIOUS
<1>4. /\ Append(t, w) \in Seq(Sayings) /\ <<>> \in Seq(Sayings)
      /\ t \in Seq(Sayings) /\ w \in Sayings
  BY AppendProperties
<1>. HIDE DEF pick
<1>5. FlatMap(Append(t, w), pick) = FlatMap(t, pick) \o pick[w]
  BY ONLY <1>1, <1>4, FlatMapAppend
<1>6. FlatMap(t, pick) \in Seq(Figures) /\ FlatMap(<<>>, pick) = <<>>
  BY <1>1, FlatMapType, FlatMapOne
<1>. DEFINE q == FlatMap(t, pick)
<1>7. Numbers(t) = q /\ Numbers(<<>>) = <<>> /\ Numbers(Append(t, w)) = q \o pick[w]
  BY <1>2, <1>4, <1>5, <1>6
<1>8. q \in Seq(Figures)
  BY <1>6
<1>. HIDE DEF q
<1>9. CASE IsNumber(w)
  <2>1. w \in Figures /\ pick[w] = <<w>>
    BY <1>3, <1>9, NumbersAre
  <2>2. q \o <<w>> = Append(q, w)
    BY <1>8, <2>1
  <2>. QED BY <1>7, <1>8, <1>9, <2>1, <2>2
<1>10. CASE ~IsNumber(w)
  <2>1. q \o <<>> = q /\ pick[w] = <<>>
    BY <1>3, <1>8, <1>10
  <2>. QED BY <1>7, <1>8, <1>10, <2>1
<1>. QED BY <1>9, <1>10

(* A word that is put is none of the numbers, one that is said is kept     *)
(* account of, and branches have none.                                     *)
LEMMA MeasuredWord ==
  ASSUME text \in [Buffers -> Seq(Sayings)], work \in Seq(AllOps), work # <<>>,
         Head(work).op # "if", work' = Tail(work), NEW val \in Sayings,
         \/ text' = text /\ Head(work).op # "say"
         \/ text' = Appended(Head(work).buf, val),
         IF Head(work).op = "say" THEN val = Head(work).words ELSE ~IsNumber(val)
  PROVE  Numbers(text'["mesg"]) \o FlatMap(work', NumbersOf) =
           Numbers(text["mesg"]) \o FlatMap(work, NumbersOf)
<1>. DEFINE x == Head(work)
            h == NumbersOf
            t == text["mesg"]
            r == FlatMap(Tail(work), h)
<1>1. /\ x \in AllOps /\ Tail(work) \in Seq(AllOps)
      /\ FlatMap(work, h) = h[x] \o r /\ r \in Seq(Figures)
  <2>. HIDE DEF h
  <2>. QED BY NumbersOfType, WorkSplit DEF h
<1>2. "mesg" \in Buffers
  BY DEF Buffers
<1>3. t \in Seq(Sayings)
  BY <1>2
<1>4. h[x] = IF x.op = "say" /\ x.buf = "mesg" /\ IsNumber(x.words) THEN <<x.words>> ELSE <<>>
  BY <1>1 DEF NumbersOf
<1>5. \/ text'["mesg"] = t /\ (x.op # "say" \/ x.buf # "mesg" \/ val = Absent)
      \/ text'["mesg"] = Append(t, val) /\ (x.op = "say" => x.buf = "mesg")
  BY <1>2 DEF Appended
<1>6. val = Absent => ~IsNumber(val)
  BY Worded, NumbersAre
<1>7. Numbers(t) \in Seq(Figures)
  BY <1>3, NumbersAppend
<1>8. Numbers(Append(t, val)) = IF IsNumber(val) THEN Append(Numbers(t), val) ELSE Numbers(t)
  BY <1>3, NumbersAppend
<1>. DEFINE q == Numbers(t)
<1>. HIDE DEF x, h, t, r, q
<1>9. Numbers(text'["mesg"]) = q \o h[x]
  <2>1. q \o <<>> = q
    BY <1>7 DEF q
  <2>2. CASE x.op = "say" /\ x.buf = "mesg" /\ IsNumber(x.words)
    <3>1. val = x.words /\ h[x] = <<val>> /\ val \in Figures
      BY <1>4, <2>2, NumbersAre DEF x
    <3>2. text'["mesg"] = Append(t, val)
      BY <1>5, <1>6, <2>2, <3>1
    <3>3. q \in Seq(Figures)
      BY <1>7 DEF q
    <3>4. q \o <<val>> = Append(q, val)
      BY <3>1, <3>3
    <3>. QED BY <1>8, <2>2, <3>1, <3>2, <3>4 DEF q
  <2>3. CASE ~(x.op = "say" /\ x.buf = "mesg" /\ IsNumber(x.words))
    <3>1. h[x] = <<>>
      BY <1>4, <2>3
    <3>2. text'["mesg"] = t \/ (text'["mesg"] = Append(t, val) /\ ~IsNumber(val))
      BY <1>5, <2>3 DEF x
    <3>. QED BY <1>8, <2>1, <3>1, <3>2 DEF q
  <2>. QED BY <2>2, <2>3
<1>10. q \in Seq(Figures) /\ h[x] \in Seq(Figures)
  <2>1. h[x] \in Seq(Figures)
    BY <1>1, NumbersOfType DEF h
  <2>. QED BY <1>7, <2>1 DEF q
<1>. DEFINE y == h[x]
<1>11. q \o (y \o r) = (q \o y) \o r
  <2>1. y \in Seq(Figures)
    BY <1>10
  <2>. HIDE DEF y
  <2>. QED BY <1>1, <1>10, <2>1, Moved, SMTT(30)
<1>12. Numbers(text'["mesg"]) \o r = q \o FlatMap(work, h)
  BY <1>1, <1>9, <1>11
<1>. QED BY <1>12 DEF q, r, t, h

LEMMA MeasuredBranch ==
  ASSUME work \in Seq(AllOps), work # <<>>, Head(work).op = "if", text' = text,
         NEW exists \in BOOLEAN, work' = Branch(exists)
  PROVE  Numbers(text'["mesg"]) \o FlatMap(work', NumbersOf) =
           Numbers(text["mesg"]) \o FlatMap(work, NumbersOf)
<1>. DEFINE x == Head(work)
            h == NumbersOf
            c == IF exists THEN x.then ELSE x.other
            t == Tail(work)
<1>0. h \in [AllOps -> Seq(Figures)]
  BY NumbersOfType
<1>1. /\ x \in AllOps /\ t \in Seq(AllOps)
      /\ FlatMap(work, h) = h[x] \o FlatMap(t, h) /\ FlatMap(t, h) \in Seq(Figures)
  <2>. HIDE DEF h
  <2>. QED BY <1>0, WorkSplit
<1>2. c \in Seq(Plain)
  BY <1>1, Branches
<1>3. c \in Seq(AllOps)
  BY <1>2, PlainIs
<1>4. h[x] = <<>>
  BY <1>1 DEF NumbersOf
<1>5. \A y \in Plain : h[y] = <<>>
  <2>1. \A y \in Plain : y.op = "say" => y.words \in Fillers
    BY DEF Plain, Putting
  <2>. QED BY <2>1, FillersAre, PlainIs DEF NumbersOf
<1>6. work' = c \o t
  BY DEF Branch
<1>. HIDE DEF x, h, c, t
<1>7. FlatMap(c \o t, h) = FlatMap(c, h) \o FlatMap(t, h)
  BY ONLY <1>0, <1>1, <1>3, FlatMapConcat
<1>8. FlatMap(c, h) = <<>>
  BY <1>2, <1>5, FlatMapNone
<1>9. FlatMap(work', h) = FlatMap(work, h)
  BY <1>1, <1>4, <1>6, <1>7, <1>8
<1>. QED BY <1>9 DEF h

-----------------------------------------------------------------------------
(* The whole alert is to come when it is begun.                            *)

LEMMA LeavesOf ==
  ASSUME Conforming, NEW b \in Buffers, NEW buf \in Buffers, NEW key \in Keys,
         NEW words \in Fillers
  PROVE  /\ Leaves(b)[Put(buf, key)] = IF buf = b THEN Quoted(key) ELSE <<>>
         /\ Leaves(b)[Say(buf, words)] = IF buf = b THEN <<words>> ELSE <<>>
         /\ Leaves(b)[PutIf(buf, key)] = IF buf = b THEN Quoted(key) ELSE <<>>
         /\ Leaves(b)[PutOr(buf, key, words)] =
              IF buf = b THEN QuotedOr(key, words) ELSE <<>>
<1>. DEFINE p == Put(buf, key)
            s == Say(buf, words)
            a == Appends(b)
<1>1. /\ p \in Plain /\ s \in Plain /\ p \in AllOps /\ s \in AllOps
      /\ PutIf(buf, key) \in AllOps /\ PutOr(buf, key, words) \in AllOps
  BY PuttingOps, OpsAre DEF AllOps
<1>2. /\ Added(b, p) = IF buf = b THEN Quoted(key) ELSE <<>>
      /\ Added(b, s) = IF buf = b THEN <<words>> ELSE <<>>
  BY DEF Added, Put, Say
<1>3. Leaves(b)[p] = Added(b, p) /\ Leaves(b)[s] = Added(b, s)
  <2>1. p.op # "if" /\ s.op # "if"
    BY DEF Put, Say
  <2>. QED BY <1>1, <2>1 DEF Leaves
<1>4. a[p] = Added(b, p) /\ a[s] = Added(b, s)
  BY <1>1 DEF Appends
<1>5. FlatMap(<<p>>, a) = a[p] /\ FlatMap(<<s>>, a) = a[s] /\ FlatMap(<<>>, a) = <<>>
  <2>1. a \in [Plain -> Seq(Sayings)]
    BY LeavesType
  <2>. HIDE DEF a, p, s
  <2>. QED BY <1>1, <2>1, FlatMapOne, SMTT(30)
<1>6. /\ Leaves(b)[PutIf(buf, key)] = FlatMap(Chosen(PutIf(buf, key)), a)
      /\ Leaves(b)[PutOr(buf, key, words)] = FlatMap(Chosen(PutOr(buf, key, words)), a)
  <2>1. PutIf(buf, key).op = "if" /\ PutOr(buf, key, words).op = "if"
    BY DEF PutIf, PutOr, If
  <2>. QED BY <1>1, <2>1 DEF Leaves
<1>7. /\ Chosen(PutIf(buf, key)) = IF conf[key] # Absent THEN <<p>> ELSE <<>>
      /\ Chosen(PutOr(buf, key, words)) = IF conf[key] # Absent THEN <<p>> ELSE <<s>>
  BY DEF Chosen, PutIf, PutOr, If
<1>. HIDE DEF p, s, a
<1>8. /\ Leaves(b)[p] = IF buf = b THEN Quoted(key) ELSE <<>>
      /\ Leaves(b)[s] = IF buf = b THEN <<words>> ELSE <<>>
  BY <1>2, <1>3
<1>9. Leaves(b)[PutIf(buf, key)] = IF buf = b THEN Quoted(key) ELSE <<>>
  BY <1>2, <1>4, <1>5, <1>6, <1>7 DEF Quoted
<1>10. Leaves(b)[PutOr(buf, key, words)] = IF buf = b THEN QuotedOr(key, words) ELSE <<>>
  BY <1>2, <1>4, <1>5, <1>6, <1>7 DEF Quoted, QuotedOr
<1>. QED BY <1>8, <1>9, <1>10 DEF p, s

LEMMA PutLeaves ==
  ASSUME Conforming, NEW b \in Buffers, NEW buf \in Buffers, NEW key \in Keys
  PROVE  /\ Leaves(b)[Put(buf, key)] = IF buf = b THEN Quoted(key) ELSE <<>>
         /\ Leaves(b)[PutIf(buf, key)] = IF buf = b THEN Quoted(key) ELSE <<>>
<1>1. <<",", "">> \in Fillers
  BY DEF Fillers
<1>. QED BY <1>1, LeavesOf

LEMMA SayLeaves ==
  ASSUME Conforming, NEW b \in Buffers, NEW buf \in Buffers, NEW words \in Fillers
  PROVE  Leaves(b)[Say(buf, words)] = IF buf = b THEN <<words>> ELSE <<>>
<1>1. <<"MSG", "HEAD">> \in Keys
  BY KeysAre DEF Shared
<1>. QED BY <1>1, LeavesOf

LEMMA FigureLeaves ==
  ASSUME NEW b, NEW words \in Figures
  PROVE  /\ Say("mesg", words) \in AllOps
         /\ Leaves(b)[Say("mesg", words)] = IF b = "mesg" THEN <<words>> ELSE <<>>
         /\ NumbersOf[Say("mesg", words)] = <<words>>
<1>1. Say("mesg", words) \in AllOps
  BY DEF AllOps, Ops, Composing, Say
<1>2. /\ Say("mesg", words).op = "say" /\ Say("mesg", words).buf = "mesg"
      /\ Say("mesg", words).words = words
  BY DEF Say
<1>3. IsNumber(words)
  BY NumbersAre
<1>. QED BY <1>1, <1>2, <1>3 DEF Leaves, NumbersOf, Added

LEMMA NoNumbers ==
  ASSUME NEW buf \in Buffers, NEW key \in Keys, NEW words \in Fillers
  PROVE  /\ NumbersOf[Put(buf, key)] = <<>> /\ NumbersOf[Say(buf, words)] = <<>>
         /\ NumbersOf[PutIf(buf, key)] = <<>> /\ NumbersOf[PutOr(buf, key, words)] = <<>>
<1>1. /\ Put(buf, key) \in AllOps /\ Say(buf, words) \in AllOps
      /\ PutIf(buf, key) \in AllOps /\ PutOr(buf, key, words) \in AllOps
  BY PuttingOps, OpsAre DEF AllOps
<1>2. /\ Put(buf, key).op = "put" /\ Say(buf, words).words = words
      /\ PutIf(buf, key).op = "if" /\ PutOr(buf, key, words).op = "if"
  BY DEF Put, Say, PutIf, PutOr, If
<1>. QED BY <1>1, <1>2, FillersAre DEF NumbersOf

(* The words and keys of an alert.                                         *)
LEMMA AlertWords ==
  ASSUME NEW m \in Metrics
  PROVE  /\ "mesg" \in Buffers /\ "sound" \in Buffers /\ "voice" \in Buffers
         /\ "skydome" \in Buffers
         /\ <<",", "">> \in Fillers /\ <<"Observed:", "">> \in Fillers
         /\ <<"Threshold:", "">> \in Fillers
         /\ <<"observed", m>> \in Figures /\ <<"threshold", m>> \in Figures
         /\ <<"PIC", m>> \in Keys /\ <<"MSG", m>> \in Keys
         /\ <<"SOUND", m>> \in Keys /\ <<"VOICE", m>> \in Keys
         /\ <<"MSG", "HEAD">> \in Keys /\ <<"SOUND", "HEAD">> \in Keys
         /\ <<"VOICE", "HEAD">> \in Keys /\ <<"MONITOR", "">> \in Keys
         /\ <<"THRESHOLD", "">> \in Keys
<1>1. /\ <<"MSG", "HEAD">> \in Shared /\ <<"SOUND", "HEAD">> \in Shared
      /\ <<"VOICE", "HEAD">> \in Shared /\ <<"MONITOR", "">> \in Shared
      /\ <<"THRESHOLD", "">> \in Shared
  BY DEF Shared
<1>. QED BY <1>1, KeysAre DEF Buffers, Fillers, Figures

LEMMA SayOps ==
  ASSUME NEW buf \in Buffers, NEW key \in Keys, NEW words \in Fillers
  PROVE  /\ Put(buf, key) \in AllOps /\ Say(buf, words) \in AllOps
         /\ PutIf(buf, key) \in AllOps /\ PutOr(buf, key, words) \in AllOps
BY PuttingOps, OpsAre DEF AllOps

Headed(m) ==
  [mesg |-> Quoted(<<"PIC", m>>) \o <<<<",", "">>>> \o Quoted(<<"MSG", "HEAD">>),
   sound |-> Quoted(<<"SOUND", "HEAD">>) \o Quoted(<<"SOUND", m>>),
   voice |-> Quoted(<<"VOICE", "HEAD">>), skydome |-> <<>>]

LEMMA QuotedType ==
  ASSUME Conforming, NEW key \in Keys, NEW words \in Sayings
  PROVE  Quoted(key) \in Seq(Sayings) /\ QuotedOr(key, words) \in Seq(Sayings)
<1>1. conf[key] \in Sayings
  BY DEF Conforming, Sayings
<1>. QED BY <1>1 DEF Quoted, QuotedOr

LEMMA HeadingWhole ==
  ASSUME Conforming, NEW m \in Metrics, NEW b \in Buffers
  PROVE  /\ FlatMap(Heading(m), Leaves(b)) = Headed(m)[b]
         /\ FlatMap(Heading(m), NumbersOf) = <<>>
<1>. DEFINE o1 == PutIf("mesg", <<"PIC", m>>)
            o2 == Say("mesg", <<",", "">>)
            o3 == Put("mesg", <<"MSG", "HEAD">>)
            o4 == Put("sound", <<"SOUND", "HEAD">>)
            o5 == PutIf("sound", <<"SOUND", m>>)
            o6 == Put("voice", <<"VOICE", "HEAD">>)
            h  == Leaves(b)
            n  == NumbersOf
            q1 == Quoted(<<"PIC", m>>)
            q2 == <<<<",", "">>>>
            q3 == Quoted(<<"MSG", "HEAD">>)
            q4 == Quoted(<<"SOUND", "HEAD">>)
            q5 == Quoted(<<"SOUND", m>>)
            q6 == Quoted(<<"VOICE", "HEAD">>)
<1>1. Heading(m) = <<o1, o2, o3, o4, o5, o6>>
  BY DEF Heading
<1>2. /\ o1 \in AllOps /\ o2 \in AllOps /\ o3 \in AllOps /\ o4 \in AllOps
      /\ o5 \in AllOps /\ o6 \in AllOps
  BY AlertWords, SayOps
<1>3. /\ h[o1] = IF b = "mesg" THEN q1 ELSE <<>>
      /\ h[o2] = IF b = "mesg" THEN q2 ELSE <<>>
      /\ h[o3] = IF b = "mesg" THEN q3 ELSE <<>>
      /\ h[o4] = IF b = "sound" THEN q4 ELSE <<>>
      /\ h[o5] = IF b = "sound" THEN q5 ELSE <<>>
      /\ h[o6] = IF b = "voice" THEN q6 ELSE <<>>
  <2>1. h[o2] = IF b = "mesg" THEN q2 ELSE <<>>
    BY AlertWords, SayLeaves
  <2>2. h[o1] = (IF b = "mesg" THEN q1 ELSE <<>>) /\ h[o3] = IF b = "mesg" THEN q3 ELSE <<>>
    BY AlertWords, PutLeaves, ZenonT(30)
  <2>3. h[o4] = (IF b = "sound" THEN q4 ELSE <<>>) /\ h[o5] = IF b = "sound" THEN q5 ELSE <<>>
    BY AlertWords, PutLeaves, ZenonT(30)
  <2>4. h[o6] = IF b = "voice" THEN q6 ELSE <<>>
    BY AlertWords, PutLeaves, ZenonT(30)
  <2>. QED BY <2>1, <2>2, <2>3, <2>4
<1>4. /\ n[o1] = <<>> /\ n[o2] = <<>> /\ n[o3] = <<>> /\ n[o4] = <<>>
      /\ n[o5] = <<>> /\ n[o6] = <<>>
  BY AlertWords, NoNumbers
<1>5. h \in [AllOps -> Seq(Sayings)] /\ n \in [AllOps -> Seq(Figures)]
  BY LeavesType, NumbersOfType
<1>6. /\ q1 \in Seq(Sayings) /\ q2 \in Seq(Sayings) /\ q3 \in Seq(Sayings)
      /\ q4 \in Seq(Sayings) /\ q5 \in Seq(Sayings) /\ q6 \in Seq(Sayings)
  <2>. DEFINE w2 == <<",", "">>
  <2>1. w2 \in Sayings
    BY AlertWords DEF Sayings
  <2>2. <<w2>> \in Seq(Sayings)
    <3>. HIDE DEF w2
    <3>. QED BY ONLY <2>1
  <2>3. q2 \in Seq(Sayings)
    BY <2>2
  <2>. HIDE DEF q2
  <2>. QED BY <2>1, <2>3, AlertWords, QuotedType
<1>7. Headed(m)[b] = IF b = "mesg" THEN q1 \o q2 \o q3
                     ELSE IF b = "sound" THEN q4 \o q5
                     ELSE IF b = "voice" THEN q6 ELSE <<>>
  <2>1. DOMAIN Headed(m) = Buffers
    BY DEF Headed, Buffers
  <2>2. /\ Headed(m)["mesg"] = q1 \o q2 \o q3 /\ Headed(m)["sound"] = q4 \o q5
        /\ Headed(m)["voice"] = q6 /\ Headed(m)["skydome"] = <<>>
    BY DEF Headed
  <2>. HIDE DEF q1, q2, q3, q4, q5, q6
  <2>. QED BY <2>2 DEF Buffers
<1>. DEFINE s == Heading(m)
<1>. HIDE DEF o1, o2, o3, o4, o5, o6, h, n, q1, q2, q3, q4, q5, q6, s
<1>8. s = <<o1, o2, o3, o4, o5, o6>>
  BY <1>1 DEF s
<1>15. s \in Seq(AllOps) /\ Len(s) = 6
  BY <1>2, <1>8
<1>9. FlatMap(s, h) = h[o1] \o h[o2] \o h[o3] \o h[o4] \o h[o5] \o h[o6]
  <2>1. Maps(h, AllOps, Sayings)
    BY <1>5 DEF Maps
  <2>2. FlatMap(s, h) = SixOf(s, h)
    BY <1>15, <2>1, FlatMapSix
  <2>. QED BY <1>8, <2>2 DEF SixOf
<1>10. FlatMap(s, n) = n[o1] \o n[o2] \o n[o3] \o n[o4] \o n[o5] \o n[o6]
  <2>1. Maps(n, AllOps, Figures)
    BY <1>5 DEF Maps
  <2>2. FlatMap(s, n) = SixOf(s, n)
    BY <1>15, <2>1, FlatMapSix
  <2>. QED BY <1>8, <2>2 DEF SixOf
<1>11. FlatMap(s, n) = <<>>
  BY <1>4, <1>10
<1>12. FlatMap(s, h) = Headed(m)[b]
  <2>1. \A t \in Seq(Sayings) : t \o <<>> = t /\ <<>> \o t = t
    OBVIOUS
  <2>2. q1 \o q2 \o q3 \in Seq(Sayings) /\ q4 \o q5 \in Seq(Sayings)
    BY <1>6
  <2>3. CASE b = "mesg"
    BY <1>3, <1>7, <1>9, <2>1, <2>2, <2>3
  <2>4. CASE b = "sound"
    BY <1>3, <1>6, <1>7, <1>9, <2>1, <2>2, <2>4
  <2>5. CASE b = "voice"
    BY <1>3, <1>6, <1>7, <1>9, <2>1, <2>5
  <2>6. CASE b = "skydome"
    BY <1>3, <1>7, <1>9, <2>1, <2>6
  <2>. QED BY <2>3, <2>4, <2>5, <2>6 DEF Buffers
<1>. QED BY <1>11, <1>12 DEF s, h, n

LEMMA TellingWhole ==
  ASSUME Conforming, NEW m \in Metrics, NEW b \in Buffers
  PROVE  /\ FlatMap(Telling(m), Leaves(b)) =
              IF b = "mesg" THEN Told(m)
              ELSE IF b = "voice" THEN Quoted(<<"VOICE", m>>) ELSE <<>>
         /\ FlatMap(Telling(m), NumbersOf) = <<<<"observed", m>>, <<"threshold", m>>>>
<1>. DEFINE o1 == Put("mesg", <<"MSG", m>>)
            o2 == PutOr("mesg", <<"MONITOR", "">>, <<"Observed:", "">>)
            o3 == Say("mesg", <<"observed", m>>)
            o4 == PutOr("mesg", <<"THRESHOLD", "">>, <<"Threshold:", "">>)
            o5 == Say("mesg", <<"threshold", m>>)
            o6 == Put("voice", <<"VOICE", m>>)
            h  == Leaves(b)
            n  == NumbersOf
            w3 == <<"observed", m>>
            w5 == <<"threshold", m>>
            q1 == Quoted(<<"MSG", m>>)
            q2 == QuotedOr(<<"MONITOR", "">>, <<"Observed:", "">>)
            q3 == <<w3>>
            q4 == QuotedOr(<<"THRESHOLD", "">>, <<"Threshold:", "">>)
            q5 == <<w5>>
            q6 == Quoted(<<"VOICE", m>>)
<1>1. Telling(m) = <<o1, o2, o3, o4, o5, o6>>
  BY DEF Telling
<1>2. /\ o1 \in AllOps /\ o2 \in AllOps /\ o3 \in AllOps /\ o4 \in AllOps
      /\ o5 \in AllOps /\ o6 \in AllOps
  BY AlertWords, SayOps, FigureLeaves
<1>3. /\ h[o1] = IF b = "mesg" THEN q1 ELSE <<>>
      /\ h[o2] = IF b = "mesg" THEN q2 ELSE <<>>
      /\ h[o3] = IF b = "mesg" THEN q3 ELSE <<>>
      /\ h[o4] = IF b = "mesg" THEN q4 ELSE <<>>
      /\ h[o5] = IF b = "mesg" THEN q5 ELSE <<>>
      /\ h[o6] = IF b = "voice" THEN q6 ELSE <<>>
  <2>1. h[o1] = (IF b = "mesg" THEN q1 ELSE <<>>) /\ h[o6] = IF b = "voice" THEN q6 ELSE <<>>
    BY AlertWords, PutLeaves, ZenonT(30)
  <2>2. h[o3] = (IF b = "mesg" THEN q3 ELSE <<>>) /\ h[o5] = IF b = "mesg" THEN q5 ELSE <<>>
    BY AlertWords, FigureLeaves
  <2>3. h[o2] = (IF b = "mesg" THEN q2 ELSE <<>>) /\ h[o4] = IF b = "mesg" THEN q4 ELSE <<>>
    <3>1. ASSUME NEW key \in Keys, NEW words \in Fillers
          PROVE  h[PutOr("mesg", key, words)] = IF b = "mesg" THEN QuotedOr(key, words) ELSE <<>>
      <4>1. h[PutOr("mesg", key, words)] = IF "mesg" = b THEN QuotedOr(key, words) ELSE <<>>
        <5>1. "mesg" \in Buffers
          BY DEF Buffers
        <5>. QED BY <5>1, LeavesOf
      <4>. QED BY <4>1
    <3>2. h[o2] = IF b = "mesg" THEN q2 ELSE <<>>
      BY <3>1, AlertWords
    <3>3. h[o4] = IF b = "mesg" THEN q4 ELSE <<>>
      BY <3>1, AlertWords
    <3>. QED BY <3>2, <3>3
  <2>. QED BY <2>1, <2>2, <2>3
<1>4. /\ n[o1] = <<>> /\ n[o2] = <<>> /\ n[o3] = q3 /\ n[o4] = <<>>
      /\ n[o5] = q5 /\ n[o6] = <<>>
  BY AlertWords, NoNumbers, FigureLeaves, ZenonT(30)
<1>5. h \in [AllOps -> Seq(Sayings)] /\ n \in [AllOps -> Seq(Figures)]
  BY LeavesType, NumbersOfType
<1>6. /\ q1 \in Seq(Sayings) /\ q2 \in Seq(Sayings) /\ q3 \in Seq(Sayings)
      /\ q4 \in Seq(Sayings) /\ q5 \in Seq(Sayings) /\ q6 \in Seq(Sayings)
  <2>1. /\ <<"Observed:", "">> \in Sayings /\ <<"Threshold:", "">> \in Sayings
        /\ w3 \in Sayings /\ w5 \in Sayings
    BY AlertWords DEF Sayings
  <2>2. q3 \in Seq(Sayings) /\ q5 \in Seq(Sayings)
    <3>1. \A w \in Sayings : <<w>> \in Seq(Sayings)
      OBVIOUS
    <3>. HIDE DEF w3, w5
    <3>. QED BY <2>1, <3>1
  <2>. QED BY <2>1, <2>2, AlertWords, QuotedType
<1>7. Told(m) = q1 \o q2 \o q3 \o q4 \o q5
  BY DEF Told
<1>. DEFINE s == Telling(m)
<1>. HIDE DEF o1, o2, o3, o4, o5, o6, h, n, q1, q2, q4, q6, s, w3, w5
<1>13. q3 \o q5 = <<w3, w5>>
  <2>1. w3 \in {w3, w5} /\ w5 \in {w3, w5}
    OBVIOUS
  <2>. QED BY <2>1, Pair
<1>. HIDE DEF q3, q5
<1>8. s = <<o1, o2, o3, o4, o5, o6>>
  BY <1>1 DEF s
<1>15. s \in Seq(AllOps) /\ Len(s) = 6
  BY <1>2, <1>8
<1>9. FlatMap(s, h) = h[o1] \o h[o2] \o h[o3] \o h[o4] \o h[o5] \o h[o6]
  <2>1. Maps(h, AllOps, Sayings)
    BY <1>5 DEF Maps
  <2>2. FlatMap(s, h) = SixOf(s, h)
    BY <1>15, <2>1, FlatMapSix
  <2>. QED BY <1>8, <2>2 DEF SixOf
<1>10. FlatMap(s, n) = n[o1] \o n[o2] \o n[o3] \o n[o4] \o n[o5] \o n[o6]
  <2>1. Maps(n, AllOps, Figures)
    BY <1>5 DEF Maps
  <2>2. FlatMap(s, n) = SixOf(s, n)
    BY <1>15, <2>1, FlatMapSix
  <2>. QED BY <1>8, <2>2 DEF SixOf
<1>14. \A t \in Seq(Sayings) : t \o <<>> = t /\ <<>> \o t = t
  OBVIOUS
<1>11. FlatMap(s, n) = <<w3, w5>>
  <2>1. <<>> \o <<>> = <<>> /\ q3 \o q5 \in Seq(Sayings)
    BY <1>6
  <2>. QED BY <1>4, <1>6, <1>10, <1>13, <1>14, <2>1
<1>12. FlatMap(s, h) = IF b = "mesg" THEN Told(m) ELSE IF b = "voice" THEN q6 ELSE <<>>
  <2>1. q1 \o q2 \in Seq(Sayings)
    BY <1>6
  <2>2. q1 \o q2 \o q3 \in Seq(Sayings)
    BY <1>6, <2>1
  <2>3. q1 \o q2 \o q3 \o q4 \in Seq(Sayings)
    BY <1>6, <2>2
  <2>4. q1 \o q2 \o q3 \o q4 \o q5 \in Seq(Sayings)
    BY <1>6, <2>3
  <2>5. CASE b = "mesg"
    BY <1>3, <1>7, <1>9, <1>14, <2>4, <2>5
  <2>6. CASE b = "voice"
    BY <1>3, <1>6, <1>9, <1>14, <2>6
  <2>7. CASE b \notin {"mesg", "voice"}
    <3>1. <<>> \o <<>> = <<>>
      OBVIOUS
    <3>. QED BY <1>3, <1>9, <2>7, <3>1
  <2>. QED BY <2>5, <2>6, <2>7
<1>. QED BY <1>11, <1>12 DEF s, h, n, q6, w3, w5

LEMMA TellingMaps ==
  ASSUME NEW ms \in Seq(Metrics), NEW T, NEW p, Maps(p, AllOps, T)
  PROVE  FlatMap(FlattenSeq([i \in DOMAIN ms |-> Telling(ms[i])]), p) =
           FlatMap(ms, [m \in Metrics |-> FlatMap(Telling(m), p)])
<1>. DEFINE h == [m \in Metrics |-> Telling(m)]
            q == [m \in Metrics |-> FlatMap(Telling(m), p)]
<1>1. \A m \in Metrics : Telling(m) \in Seq(AllOps)
  <2>1. Composing \subseteq AllOps
    BY OpsAre DEF AllOps
  <2>. QED BY <2>1, HeadingType
<1>2. Maps(h, Metrics, AllOps)
  BY <1>1 DEF Maps
<1>3. Joins(q, h, p, Metrics)
  BY DEF Joins
<1>4. [i \in DOMAIN ms |-> Telling(ms[i])] = Each(ms, h)
  <2>1. \A i \in DOMAIN ms : ms[i] \in Metrics
    BY LenProperties, ElementOfSeq
  <2>. QED BY <2>1 DEF Each
<1>. HIDE DEF h, q
<1>5. FlatMap(FlatMap(ms, h), p) = FlatMap(ms, q)
  BY <1>2, <1>3, FlatMapTwice
<1>. QED BY <1>4, <1>5 DEF FlatMap, q

LEMMA AlertWhole ==
  ASSUME Conforming, NEW ms \in Seq(Metrics), ms # <<>>, NEW b \in Buffers
  PROVE  /\ FlatMap(Alert(ms), Leaves(b)) = Composed(ms)[b]
         /\ FlatMap(Alert(ms), NumbersOf) = Measured(ms)
<1>. DEFINE e == FlattenSeq([i \in DOMAIN ms |-> Telling(ms[i])])
            g == Heading(ms[1])
            h == Leaves(b)
            n == NumbersOf
            u == [m \in Metrics |-> FlatMap(Telling(m), h)]
            v == [m \in Metrics |-> FlatMap(Telling(m), n)]
<1>1. ms[1] \in Metrics
  BY LenProperties, ElementOfSeq, EmptySeq
<1>2. Alert(ms) = g \o e
  BY DEF Alert
<1>3. g \in Seq(AllOps) /\ e \in Seq(AllOps)
  <2>1. Composing \subseteq AllOps
    BY OpsAre DEF AllOps
  <2>2. \A i \in DOMAIN ms : ms[i] \in Metrics
    BY LenProperties, ElementOfSeq
  <2>3. \A m \in Metrics : Heading(m) \in Seq(AllOps) /\ Telling(m) \in Seq(AllOps)
    BY <2>1, HeadingType
  <2>. DEFINE each == [i \in DOMAIN ms |-> Telling(ms[i])]
              Q    == Seq(AllOps)
  <2>4. DOMAIN ms = 1..Len(ms) /\ Len(ms) \in Nat
    BY LenProperties
  <2>5. each \in [1..Len(ms) -> Q]
    BY <2>2, <2>3, <2>4
  <2>6. each \in Seq(Q)
    <3>. HIDE DEF each, Q
    <3>. QED BY <2>4, <2>5, FunctionIsSeq
  <2>. HIDE DEF each
  <2>7. FlattenSeq(each) \in Seq(AllOps)
    BY <2>6, FlattenType DEF Q
  <2>. QED BY <1>1, <2>3, <2>7 DEF each
<1>4. /\ h \in [AllOps -> Seq(Sayings)] /\ n \in [AllOps -> Seq(Figures)]
      /\ Maps(h, AllOps, Sayings) /\ Maps(n, AllOps, Figures)
  BY LeavesType, NumbersOfType DEF Maps
<1>5. FlatMap(g, h) = Headed(ms[1])[b] /\ FlatMap(g, n) = <<>>
  BY <1>1, HeadingWhole
<1>6. FlatMap(e, h) = FlatMap(ms, u) /\ FlatMap(e, n) = FlatMap(ms, v)
  <2>. HIDE DEF h, n
  <2>. QED BY <1>4, TellingMaps, ZenonT(30)
<1>7. /\ FlatMap(g \o e, h) = FlatMap(g, h) \o FlatMap(e, h)
      /\ FlatMap(g \o e, n) = FlatMap(g, n) \o FlatMap(e, n)
      /\ FlatMap(e, h) \in Seq(Sayings) /\ FlatMap(e, n) \in Seq(Figures)
  <2>. HIDE DEF g, e, h, n
  <2>1. FlatMap(g \o e, h) = FlatMap(g, h) \o FlatMap(e, h)
    BY ONLY <1>3, <1>4, FlatMapConcat, ZenonT(30)
  <2>2. FlatMap(g \o e, n) = FlatMap(g, n) \o FlatMap(e, n)
    BY ONLY <1>3, <1>4, FlatMapConcat, ZenonT(30)
  <2>3. FlatMap(e, h) \in Seq(Sayings) /\ FlatMap(e, n) \in Seq(Figures)
    BY ONLY <1>3, <1>4, FlatMapType
  <2>. QED BY <2>1, <2>2, <2>3
<1>8. FlatMap(ms, v) = Measured(ms)
  <2>1. \A i \in DOMAIN ms : v[ms[i]] = <<<<"observed", ms[i]>>, <<"threshold", ms[i]>>>>
    <3>1. \A i \in DOMAIN ms : ms[i] \in Metrics
      BY LenProperties, ElementOfSeq
    <3>. QED BY <3>1, TellingWhole
  <2>. HIDE DEF v
  <2>2. Each(ms, v) = [i \in DOMAIN ms |-> <<<<"observed", ms[i]>>, <<"threshold", ms[i]>>>>]
    BY <2>1 DEF Each
  <2>. QED BY <2>2 DEF FlatMap, Measured
<1>9. FlatMap(Alert(ms), n) = Measured(ms)
  <2>1. \A t \in Seq(Figures) : <<>> \o t = t
    OBVIOUS
  <2>. HIDE DEF g, e, h, n, v, u
  <2>. QED BY <1>2, <1>5, <1>6, <1>7, <1>8, <2>1
<1>10. \A i \in DOMAIN ms :
         u[ms[i]] = IF b = "mesg" THEN Told(ms[i])
                    ELSE IF b = "voice" THEN Quoted(<<"VOICE", ms[i]>>) ELSE <<>>
  <2>1. \A i \in DOMAIN ms : ms[i] \in Metrics
    BY LenProperties, ElementOfSeq
  <2>. QED BY <2>1, TellingWhole
<1>11. FlatMap(Alert(ms), h) = Headed(ms[1])[b] \o FlatMap(ms, u)
  <2>. HIDE DEF g, e, h, u
  <2>. QED BY <1>2, <1>5, <1>6, <1>7
<1>. DEFINE a == Quoted(<<"PIC", ms[1]>>) \o <<<<",", "">>>> \o Quoted(<<"MSG", "HEAD">>)
            s == Quoted(<<"SOUND", "HEAD">>) \o Quoted(<<"SOUND", ms[1]>>)
            w == Quoted(<<"VOICE", "HEAD">>)
<1>12. Headed(ms[1])["mesg"] = a /\ Headed(ms[1])["sound"] = s
       /\ Headed(ms[1])["voice"] = w /\ Headed(ms[1])["skydome"] = <<>>
  BY DEF Headed
<1>13. /\ Composed(ms)["mesg"] = a \o FlattenSeq([i \in DOMAIN ms |-> Told(ms[i])])
       /\ Composed(ms)["sound"] = s
       /\ Composed(ms)["voice"] = w \o FlattenSeq([i \in DOMAIN ms |-> Quoted(<<"VOICE", ms[i]>>)])
       /\ Composed(ms)["skydome"] = <<>>
  BY DEF Composed
<1>14. s \in Seq(Sayings)
  <2>. DEFINE x == Quoted(<<"SOUND", "HEAD">>)
              y == Quoted(<<"SOUND", ms[1]>>)
  <2>1. <<",", "">> \in Sayings
    BY <1>1, AlertWords DEF Sayings
  <2>2. x \in Seq(Sayings) /\ y \in Seq(Sayings)
    BY <1>1, <2>1, AlertWords, QuotedType
  <2>. HIDE DEF x, y
  <2>3. x \o y \in Seq(Sayings)
    BY <2>2
  <2>. QED BY <2>3 DEF x, y
<1>. HIDE DEF a, s, w, u, h, n
<1>15. FlatMap(Alert(ms), h) = Composed(ms)[b]
  <2>1. CASE b = "mesg"
    <3>1. Each(ms, u) = [i \in DOMAIN ms |-> Told(ms[i])]
      BY <1>10, <2>1 DEF Each
    <3>. QED BY <1>11, <1>12, <1>13, <2>1, <3>1 DEF FlatMap
  <2>2. CASE b = "voice"
    <3>1. Each(ms, u) = [i \in DOMAIN ms |-> Quoted(<<"VOICE", ms[i]>>)]
      BY <1>10, <2>2 DEF Each
    <3>. QED BY <1>11, <1>12, <1>13, <2>2, <3>1 DEF FlatMap
  <2>3. CASE b = "sound" \/ b = "skydome"
    <3>1. FlatMap(ms, u) = <<>>
      <4>1. \A m \in Metrics : u[m] = <<>>
        BY <2>3, TellingWhole DEF u, h
      <4>. QED BY <4>1, FlatMapNone
    <3>2. s \o <<>> = s /\ <<>> \o <<>> = <<>>
      BY <1>14
    <3>. QED BY <1>11, <1>12, <1>13, <2>3, <3>1, <3>2
  <2>. QED BY <2>1, <2>2, <2>3 DEF Buffers
<1>. QED BY <1>9, <1>15 DEF h, n

LEMMA NothingToTell == Alert(<<>>) = <<>> /\ Measured(<<>>) = <<>>
BY DEF Alert, Measured, FlattenSeq

(* What fired is told.                                                     *)
LEMMA InOrderFull ==
  ASSUME NEW ms \in SUBSET Metrics, ms # {}
  PROVE  InOrder(ms) # <<>>
<1>. DEFINE each == [i \in DOMAIN Order |-> IF Order[i] \in ms THEN <<Order[i]>>
                                            ELSE <<>>]
<1>1. DOMAIN Order = 1..6
  BY DEF Order
<1>2. each \in [1..6 -> Seq(Metrics)] /\ \A i \in 1..6 : Len(each[i]) <= 1
  BY <1>1
<1>3. each \in Seq(Seq(Metrics)) /\ Len(each) = 6
  <2>. HIDE DEF each
  <2>. QED BY <1>2, FunctionIsSeq
<1>4. PICK i \in 1..6 : Order[i] \in ms
  <2>1. Metrics = {Order[i] : i \in 1..6}
    BY <1>1 DEF Metrics, ToSet
  <2>. QED BY <2>1
<1>5. each[i] # <<>>
  BY <1>1, <1>4
<1>. DEFINE t == FlattenSeq(each)
<1>6. Picks(t, each, 6)
  <2>. HIDE DEF each
  <2>. QED BY <1>2, <1>3, FlattenPicks
<1>7. \E j \in 1..Len(t) : each[i] = <<t[j]>>
  <2>. HIDE DEF each, t
  <2>. QED BY <1>4, <1>5, <1>6 DEF Picks
<1>8. t # <<>>
  <2>. HIDE DEF t
  <2>. QED BY <1>7
<1>. QED BY <1>8 DEF InOrder

-----------------------------------------------------------------------------
(* What is left to do when the alert goes out.                             *)

Foot(b) ==
  [mesg |-> Quoted(<<"MSG", "FOOT">>), sound |-> Quoted(<<"SOUND", "FOOT">>),
   voice |-> Quoted(<<"VOICE", "FOOT">>), skydome |-> Quoted(<<"SKYDOME", "">>)][b]

LEMMA FootIs ==
  ASSUME Conforming, NEW ms, NEW b \in Buffers
  PROVE  /\ Foot(b) \in Seq(Sayings)
         /\ b # "skydome" => Whole(ms)[b] = Composed(ms)[b] \o Foot(b)
         /\ b = "skydome" => Whole(ms)[b] = Foot(b) /\ Composed(ms)[b] = <<>>
<1>1. /\ <<"MSG", "FOOT">> \in Keys /\ <<"SOUND", "FOOT">> \in Keys
      /\ <<"VOICE", "FOOT">> \in Keys /\ <<"SKYDOME", "">> \in Keys
  BY KeysAre DEF Shared
<1>2. \A key \in Keys : Quoted(key) \in Seq(Sayings)
  <2>1. <<>> \in Sayings
    BY DEF Sayings
  <2>. QED BY <2>1, QuotedType
<1>3. Foot(b) \in Seq(Sayings)
  <2>1. /\ Foot("mesg") = Quoted(<<"MSG", "FOOT">>)
        /\ Foot("sound") = Quoted(<<"SOUND", "FOOT">>)
        /\ Foot("voice") = Quoted(<<"VOICE", "FOOT">>)
        /\ Foot("skydome") = Quoted(<<"SKYDOME", "">>)
    BY DEF Foot
  <2>. QED BY <1>1, <1>2, <2>1 DEF Buffers
<1>4. /\ Whole(ms)["mesg"] = Composed(ms)["mesg"] \o Foot("mesg")
      /\ Whole(ms)["sound"] = Composed(ms)["sound"] \o Foot("sound")
      /\ Whole(ms)["voice"] = Composed(ms)["voice"] \o Foot("voice")
      /\ Whole(ms)["skydome"] = Foot("skydome") /\ Composed(ms)["skydome"] = <<>>
  BY DEF Whole, Composed, Foot
<1>. QED BY <1>3, <1>4 DEF Buffers

LEMMA LastOps ==
  /\ foot \in AllOps /\ sound \in AllOps /\ voice \in AllOps /\ skydome \in AllOps
  /\ optional \in AllOps /\ \A b \in Buffers : Send(b) \in AllOps
  /\ foot.op = "put" /\ sound.op = "put" /\ voice.op = "put" /\ skydome.op = "put"
  /\ optional.op = "if" /\ optional.then = <<skydome, Send("skydome")>>
  /\ optional.other = <<>> /\ optional.key = <<"SKYDOME", "">>
  /\ \A b : Send(b).op = "send" /\ \A c : Send(b) = Send(c) => b = c
<1>1. /\ "mesg" \in Buffers /\ "sound" \in Buffers /\ "voice" \in Buffers
      /\ "skydome" \in Buffers
  BY DEF Buffers
<1>2. /\ <<"MSG", "FOOT">> \in Keys /\ <<"SOUND", "FOOT">> \in Keys
      /\ <<"VOICE", "FOOT">> \in Keys /\ <<"SKYDOME", "">> \in Keys
  BY KeysAre DEF Shared
<1>3. \A buf \in Buffers : \A key \in Keys : Put(buf, key) \in Putting
  BY DEF Put, Putting
<1>4. /\ foot \in AllOps /\ sound \in AllOps /\ voice \in AllOps /\ skydome \in AllOps
      /\ skydome \in Plain
  BY <1>1, <1>2, <1>3, OpsAre DEF foot, sound, voice, skydome, AllOps
<1>5. \A b \in Buffers : Send(b) \in AllOps /\ (b # "mesg" => Send(b) \in Plain)
  BY OpsAre DEF Send, AllOps, Plain
<1>6. optional \in AllOps
  <2>1. ASSUME NEW p \in Plain, NEW q \in Plain
        PROVE  <<p, q>> \in Seq(Plain)
    OBVIOUS
  <2>2. <<skydome, Send("skydome")>> \in Seq(Plain) /\ <<>> \in Seq(Plain)
    BY <1>1, <1>4, <1>5, <2>1
  <2>3. optional \in Asking(Plain)
    BY <1>2, <2>2 DEF optional, If, Asking
  <2>. QED BY <2>3, OpsAre DEF AllOps
<1>7. /\ foot.op = "put" /\ sound.op = "put" /\ voice.op = "put" /\ skydome.op = "put"
      /\ optional.op = "if" /\ optional.then = <<skydome, Send("skydome")>>
      /\ optional.other = <<>> /\ optional.key = <<"SKYDOME", "">>
  BY DEF foot, sound, voice, skydome, optional, Put, If
<1>8. \A b : Send(b).op = "send" /\ Send(b).buf = b
  BY DEF Send
<1>9. \A b, c : Send(b) = Send(c) => b = c
  BY <1>8
<1>. QED BY <1>4, <1>5, <1>6, <1>7, <1>8, <1>9

LEMMA LastLeaves ==
  ASSUME Conforming, NEW b \in Buffers
  PROVE  /\ Leaves(b)[foot] = IF b = "mesg" THEN Foot(b) ELSE <<>>
         /\ Leaves(b)[sound] = IF b = "sound" THEN Foot(b) ELSE <<>>
         /\ Leaves(b)[voice] = IF b = "voice" THEN Foot(b) ELSE <<>>
         /\ Leaves(b)[skydome] = IF b = "skydome" THEN Foot(b) ELSE <<>>
         /\ Leaves(b)[optional] = IF b = "skydome" THEN Foot(b) ELSE <<>>
         /\ \A c \in Buffers : Leaves(b)[Send(c)] = <<>>
<1>1. /\ "mesg" \in Buffers /\ "sound" \in Buffers /\ "voice" \in Buffers
      /\ "skydome" \in Buffers
  BY DEF Buffers
<1>2. /\ <<"MSG", "FOOT">> \in Keys /\ <<"SOUND", "FOOT">> \in Keys
      /\ <<"VOICE", "FOOT">> \in Keys /\ <<"SKYDOME", "">> \in Keys
  BY KeysAre DEF Shared
<1>3. /\ Foot("mesg") = Quoted(<<"MSG", "FOOT">>)
      /\ Foot("sound") = Quoted(<<"SOUND", "FOOT">>)
      /\ Foot("voice") = Quoted(<<"VOICE", "FOOT">>)
      /\ Foot("skydome") = Quoted(<<"SKYDOME", "">>)
  BY DEF Foot
<1>4. \A buf \in Buffers : \A key \in Keys :
        Leaves(b)[Put(buf, key)] = IF buf = b THEN Quoted(key) ELSE <<>>
  BY PutLeaves
<1>5. /\ Leaves(b)[foot] = IF b = "mesg" THEN Foot(b) ELSE <<>>
      /\ Leaves(b)[sound] = IF b = "sound" THEN Foot(b) ELSE <<>>
      /\ Leaves(b)[voice] = IF b = "voice" THEN Foot(b) ELSE <<>>
      /\ Leaves(b)[skydome] = IF b = "skydome" THEN Foot(b) ELSE <<>>
  BY <1>1, <1>2, <1>3, <1>4 DEF foot, sound, voice, skydome
<1>6. \A c \in Buffers : Leaves(b)[Send(c)] = <<>>
  BY LastOps DEF Leaves, Added
<1>7. Leaves(b)[optional] = IF b = "skydome" THEN Foot(b) ELSE <<>>
  <2>. DEFINE a == Appends(b)
              p == skydome
              q == Send("skydome")
  <2>1. Leaves(b)[optional] = FlatMap(Chosen(optional), a)
    BY LastOps DEF Leaves
  <2>2. Chosen(optional) = IF conf[<<"SKYDOME", "">>] # Absent THEN <<p, q>> ELSE <<>>
    BY LastOps DEF Chosen
  <2>3. p \in Plain /\ q \in Plain
    BY <1>1, <1>2 DEF skydome, Put, Send, Plain, Putting
  <2>4. a[p] = (IF b = "skydome" THEN Foot(b) ELSE <<>>) /\ a[q] = <<>>
    <3>1. p \in AllOps /\ q \in AllOps /\ p.op # "if" /\ q.op # "if"
      BY <1>1, LastOps
    <3>2. a[p] = Leaves(b)[p] /\ a[q] = Leaves(b)[q]
      BY <2>3, <3>1 DEF Appends, Leaves
    <3>. QED BY <1>1, <1>5, <1>6, <3>2
  <2>5. a \in [Plain -> Seq(Sayings)]
    BY LeavesType
  <2>6. Foot(b) \in Seq(Sayings)
    BY FootIs
  <2>. HIDE DEF a, p, q
  <2>7. FlatMap(<<p, q>>, a) = a[p] \o a[q] /\ FlatMap(<<>>, a) = <<>>
    <3>1. <<p>> \in Seq(Plain) /\ <<p, q>> = Append(<<p>>, q)
      BY <2>3
    <3>2. FlatMap(Append(<<p>>, q), a) = FlatMap(<<p>>, a) \o a[q]
      BY ONLY <2>3, <2>5, <3>1, FlatMapAppend
    <3>3. FlatMap(<<p>>, a) = a[p] /\ FlatMap(<<>>, a) = <<>>
      BY <2>3, <2>5, FlatMapOne, SMTT(30)
    <3>. QED BY <3>1, <3>2, <3>3
  <2>8. a[p] \o <<>> = a[p]
    BY <2>4, <2>6
  <2>9. conf[<<"SKYDOME", "">>] = Absent => Foot("skydome") = <<>>
    BY <1>3 DEF Quoted
  <2>. QED BY <2>1, <2>2, <2>4, <2>7, <2>8, <2>9
<1>. QED BY <1>5, <1>6, <1>7

(* Any step, one at a time.                                                *)
LEMMA LeavesHead ==
  ASSUME Conforming, NEW b, NEW s \in Seq(AllOps), s # <<>>
  PROVE  FlatMap(s, Leaves(b)) = Leaves(b)[Head(s)] \o FlatMap(Tail(s), Leaves(b))
<1>. DEFINE h == Leaves(b)
<1>1. h \in [AllOps -> Seq(Sayings)]
  BY LeavesType
<1>. HIDE DEF h
<1>2. FlatMap(s, h) = h[Head(s)] \o FlatMap(Tail(s), h)
  BY ONLY <1>1, FlatMapHead, s \in Seq(AllOps), s # <<>>
<1>. QED BY <1>2 DEF h

(* The steps that send, ask or put, but say nothing.                       *)
Silent == {x \in AllOps : x.op # "say"}

LEMMA SilentOps == Seq(Silent) \subseteq Seq(AllOps)
<1>1. Silent \subseteq AllOps
  BY DEF Silent
<1>. QED BY <1>1

LEMMA RestIs ==
  /\ Rest \in Seq(Silent) /\ Sending \in Seq(Silent) /\ Tail(Sending) \in Seq(Silent)
  /\ Sending # <<>> /\ Head(Sending) = foot /\ Tail(Sending) # <<>>
  /\ Head(Tail(Sending)) = Send("mesg") /\ Tail(Tail(Sending)) = Rest
<1>. DEFINE send == Send("mesg")
            a == sound
            b == Send("sound")
            c == voice
            d == Send("voice")
            e == optional
<1>1. Sending = <<foot, send>> \o Rest
  BY DEF Sending, Rest, Speech, foot, sound, voice, optional, skydome
<1>2. Rest = IF Sound THEN <<a, b, c, d, e>> ELSE <<>>
  BY DEF Rest, Speech
<1>3. /\ foot \in Silent /\ send \in Silent /\ a \in Silent /\ b \in Silent
      /\ c \in Silent /\ d \in Silent /\ e \in Silent
  BY LastOps DEF Buffers, Silent
<1>. HIDE DEF send, a, b, c, d, e
<1>4. <<a, b, c, d, e>> \in Seq(Silent) /\ <<>> \in Seq(Silent)
  BY <1>3
<1>5. Rest \in Seq(Silent)
  BY <1>2, <1>4, Zenon
<1>6. /\ <<foot, send>> \o Rest # <<>> /\ Head(<<foot, send>> \o Rest) = foot
      /\ Tail(<<foot, send>> \o Rest) = <<send>> \o Rest
  BY <1>3, <1>5, ConsTwo
<1>7. /\ <<send>> \o Rest # <<>> /\ Head(<<send>> \o Rest) = send
      /\ Tail(<<send>> \o Rest) = Rest /\ <<send>> \o Rest \in Seq(Silent)
  BY <1>3, <1>5, ConsSeq
<1>8. <<foot, send>> \o Rest \in Seq(Silent)
  <2>1. <<foot, send>> \in Seq(Silent)
    BY <1>3
  <2>. DEFINE t == <<foot, send>>
  <2>2. t \in Seq(Silent)
    BY <2>1
  <2>. HIDE DEF t
  <2>3. t \o Rest \in Seq(Silent)
    BY <1>5, <2>2, ConcatProperties
  <2>. QED BY <2>3 DEF t
<1>. QED BY <1>1, <1>5, <1>6, <1>7, <1>8 DEF send

(* What comes after each step that sends is a stage again.                 *)
LEMMA StageStep ==
  ASSUME NEW w \in Stages
  PROVE  /\ w \in Seq(Silent) /\ w \in Seq(AllOps)
         /\ w # <<>> =>
              /\ Head(w).op \in {"put", "send", "if"}
              /\ Head(w).op # "if" => Tail(w) \in Stages
              /\ Head(w).op = "if" =>
                   Tail(w) = <<>> /\ Head(w).then \in Stages /\ Head(w).other \in Stages
<1>. DEFINE a == sound
            b == Send("sound")
            c == voice
            d == Send("voice")
            e == optional
            f == skydome
            g == Send("skydome")
            Good(v) == /\ v \in Seq(Silent)
                       /\ v # <<>> =>
                            /\ Head(v).op \in {"put", "send", "if"}
                            /\ Head(v).op # "if" => Tail(v) \in Stages
                            /\ Head(v).op = "if" => /\ Tail(v) = <<>>
                                                    /\ Head(v).then \in Stages
                                                    /\ Head(v).other \in Stages
<1>1. /\ a.op = "put" /\ b.op = "send" /\ c.op = "put" /\ d.op = "send" /\ e.op = "if"
      /\ f.op = "put" /\ g.op = "send" /\ e.then = <<f, g>> /\ e.other = <<>>
      /\ foot.op = "put" /\ Send("mesg").op = "send"
      /\ a \in Silent /\ b \in Silent /\ c \in Silent /\ d \in Silent /\ e \in Silent
      /\ f \in Silent /\ g \in Silent
  BY LastOps DEF Buffers, Silent
<1>2. Speech = <<a, b, c, d, e>>
  BY DEF Speech
<1>3. Speaking = {<<b, c, d, e>>, <<c, d, e>>, <<d, e>>, <<e>>, <<f, g>>, <<g>>}
  BY DEF Speaking
<1>4. Good(Sending) /\ Good(Tail(Sending)) /\ Good(<<>>)
  BY <1>1, RestIs DEF Stages
<1>. HIDE DEF a, b, c, d, e, f, g
<1>5. ASSUME Sound PROVE Good(Speech) /\ \A v \in Speaking : Good(v)
  <2>1. /\ <<b, c, d, e>> \in Stages /\ <<c, d, e>> \in Stages /\ <<d, e>> \in Stages
        /\ <<e>> \in Stages /\ <<f, g>> \in Stages /\ <<g>> \in Stages
        /\ <<>> \in Stages
    BY <1>3, <1>5 DEF Stages
  <2>2. /\ Head(<<a, b, c, d, e>>) = a /\ Tail(<<a, b, c, d, e>>) = <<b, c, d, e>>
        /\ Head(<<b, c, d, e>>) = b /\ Tail(<<b, c, d, e>>) = <<c, d, e>>
        /\ Head(<<c, d, e>>) = c /\ Tail(<<c, d, e>>) = <<d, e>>
        /\ Head(<<d, e>>) = d /\ Tail(<<d, e>>) = <<e>>
        /\ Head(<<e>>) = e /\ Tail(<<e>>) = <<>>
        /\ Head(<<f, g>>) = f /\ Tail(<<f, g>>) = <<g>>
        /\ Head(<<g>>) = g /\ Tail(<<g>>) = <<>>
    OBVIOUS
  <2>3. /\ <<a, b, c, d, e>> \in Seq(Silent) /\ <<b, c, d, e>> \in Seq(Silent)
        /\ <<c, d, e>> \in Seq(Silent) /\ <<d, e>> \in Seq(Silent)
        /\ <<e>> \in Seq(Silent) /\ <<f, g>> \in Seq(Silent) /\ <<g>> \in Seq(Silent)
    BY <1>1
  <2>4. Good(<<a, b, c, d, e>>)
    BY <1>1, <2>1, <2>2, <2>3
  <2>5. Good(<<b, c, d, e>>)
    BY <1>1, <2>1, <2>2, <2>3
  <2>6. Good(<<c, d, e>>)
    BY <1>1, <2>1, <2>2, <2>3
  <2>7. Good(<<d, e>>)
    BY <1>1, <2>1, <2>2, <2>3
  <2>8. Good(<<e>>)
    BY <1>1, <2>1, <2>2, <2>3
  <2>9. Good(<<f, g>>)
    BY <1>1, <2>1, <2>2, <2>3
  <2>10. Good(<<g>>)
    BY <1>1, <2>1, <2>2, <2>3
  <2>. HIDE DEF Good
  <2>. QED BY <1>2, <1>3, <2>4, <2>5, <2>6, <2>7, <2>8, <2>9, <2>10
<1>. HIDE DEF Good
<1>6. Good(w)
  <2>1. w \in {Sending, Tail(Sending), <<>>} \/ (Sound /\ (w = Speech \/ w \in Speaking))
    BY DEF Stages, Rest
  <2>. QED BY <1>4, <1>5, <2>1
<1>7. Silent \subseteq AllOps
  BY DEF Silent
<1>. QED BY <1>6, <1>7 DEF Good

(* A text is sent when no step is left that adds to it.                    *)
LEMMA StageSends ==
  ASSUME Conforming, NEW w \in Stages, w # <<>>, NEW b \in Buffers, Head(w) = Send(b)
  PROVE  b \in Spoken /\ FlatMap(w, Leaves(b)) = <<>>
<1>. DEFINE s == Send("sound")
            v == Send("voice")
            k == Send("skydome")
            m == Send("mesg")
            h == Leaves(b)
<1>1. /\ "mesg" \in Buffers /\ "sound" \in Buffers /\ "voice" \in Buffers
      /\ "skydome" \in Buffers
  BY DEF Buffers
<1>2. /\ h[sound] = IF b = "sound" THEN Foot(b) ELSE <<>>
      /\ h[voice] = IF b = "voice" THEN Foot(b) ELSE <<>>
      /\ h[skydome] = IF b = "skydome" THEN Foot(b) ELSE <<>>
      /\ h[optional] = IF b = "skydome" THEN Foot(b) ELSE <<>>
      /\ h[s] = <<>> /\ h[v] = <<>> /\ h[k] = <<>> /\ h[m] = <<>>
  BY <1>1, LastLeaves
<1>3. /\ sound # Send(b) /\ voice # Send(b) /\ optional # Send(b) /\ skydome # Send(b)
      /\ foot # Send(b)
      /\ s = Send(b) => b = "sound"
      /\ v = Send(b) => b = "voice"
      /\ k = Send(b) => b = "skydome"
      /\ m = Send(b) => b = "mesg"
  BY LastOps
<1>4. ASSUME NEW x, NEW S, x \in Seq(S), \A o \in S : h[o] = <<>>
      PROVE  FlatMap(x, h) = <<>>
  <2>. HIDE DEF h
  <2>. QED BY <1>4, FlatMapNone
<1>5. Speech = <<sound, s, voice, v, optional>>
  BY DEF Speech
<1>6. Speaking = {<<s, voice, v, optional>>, <<voice, v, optional>>, <<v, optional>>,
                  <<optional>>, <<skydome, k>>, <<k>>}
  BY DEF Speaking
<1>7. Sending # <<>> /\ Head(Sending) = foot
  BY RestIs
<1>. HIDE DEF s, v, k, h
<1>8. CASE w = Tail(Sending)
  <2>1. Head(w) = m /\ Tail(w) = Rest /\ b = "mesg"
    BY <1>3, <1>8, RestIs
  <2>2. FlatMap(w, h) = h[m] \o FlatMap(Rest, h)
    BY <1>8, <2>1, RestIs, SilentOps, LeavesHead DEF h
  <2>3. FlatMap(Rest, h) = <<>>
    <3>. DEFINE S == {sound, s, voice, v, optional}
    <3>1. Rest \in Seq(S)
      <4>1. sound \in S /\ s \in S /\ voice \in S /\ v \in S /\ optional \in S
        OBVIOUS
      <4>. HIDE DEF S
      <4>2. <<sound, s, voice, v, optional>> \in Seq(S) /\ <<>> \in Seq(S)
        BY <4>1
      <4>3. Rest = IF Sound THEN <<sound, s, voice, v, optional>> ELSE <<>>
        BY <1>5 DEF Rest
      <4>. QED BY <4>2, <4>3, Zenon
    <3>2. \A o \in S : h[o] = <<>>
      BY <1>2, <2>1
    <3>. HIDE DEF S
    <3>. QED BY <1>4, <3>1, <3>2
  <2>4. b \in Spoken
    BY <1>1, <2>1 DEF Spoken
  <2>. QED BY <1>2, <2>2, <2>3, <2>4 DEF h
<1>9. ASSUME Sound, w \in {Speech} \cup Speaking
      PROVE  b \in Spoken /\ FlatMap(w, Leaves(b)) = <<>>
  <2>1. b \in Spoken
    BY <1>9 DEF Spoken
  <2>2. /\ Head(<<sound, s, voice, v, optional>>) = sound
        /\ Head(<<s, voice, v, optional>>) = s /\ Head(<<voice, v, optional>>) = voice
        /\ Head(<<v, optional>>) = v /\ Head(<<optional>>) = optional
        /\ Head(<<skydome, k>>) = skydome /\ Head(<<k>>) = k
    OBVIOUS
  <2>3. \/ w = <<s, voice, v, optional>> /\ b = "sound"
        \/ w = <<v, optional>> /\ b = "voice"
        \/ w = <<k>> /\ b = "skydome"
    BY <1>3, <1>5, <1>6, <1>9, <2>2
  <2>4. CASE w = <<s, voice, v, optional>> /\ b = "sound"
    <3>. DEFINE S == {s, voice, v, optional}
    <3>1. s \in S /\ voice \in S /\ v \in S /\ optional \in S
      OBVIOUS
    <3>2. \A o \in S : h[o] = <<>>
      BY <1>2, <2>4
    <3>. HIDE DEF S
    <3>3. w \in Seq(S)
      BY <2>4, <3>1
    <3>. QED BY <1>4, <2>1, <3>2, <3>3 DEF h
  <2>5. CASE w = <<v, optional>> /\ b = "voice"
    <3>. DEFINE S == {v, optional}
    <3>1. v \in S /\ optional \in S
      OBVIOUS
    <3>2. \A o \in S : h[o] = <<>>
      BY <1>2, <2>5
    <3>. HIDE DEF S
    <3>3. w \in Seq(S)
      BY <2>5, <3>1
    <3>. QED BY <1>4, <2>1, <3>2, <3>3 DEF h
  <2>6. CASE w = <<k>> /\ b = "skydome"
    <3>. DEFINE S == {k}
    <3>1. k \in S
      OBVIOUS
    <3>2. \A o \in S : h[o] = <<>>
      BY <1>2
    <3>. HIDE DEF S
    <3>3. w \in Seq(S)
      BY <2>6, <3>1
    <3>. QED BY <1>4, <2>1, <3>2, <3>3 DEF h
  <2>. QED BY <2>3, <2>4, <2>5, <2>6
<1>10. CASE w = Sending
  BY <1>3, <1>7, <1>10
<1>11. \/ w = Sending \/ w = Tail(Sending) \/ (Sound /\ w \in {Speech} \cup Speaking)
  BY DEF Stages, Rest
<1>. QED BY <1>8, <1>9, <1>10, <1>11 DEF h

(* All the last words are to come when the alert starts to go out.         *)
LEMMA SendingLeaves ==
  ASSUME Conforming, NEW b \in Spoken
  PROVE  FlatMap(Sending, Leaves(b)) = Foot(b)
<1>. DEFINE h == Leaves(b)
            s == Send("sound")
            v == Send("voice")
            m == Send("mesg")
            f == Foot(b)
<1>1. /\ b \in Buffers /\ "mesg" \in Buffers /\ "sound" \in Buffers /\ "voice" \in Buffers
      /\ ~Sound => b = "mesg"
  BY DEF Spoken, Buffers
<1>2. /\ h[foot] = IF b = "mesg" THEN f ELSE <<>>
      /\ h[sound] = IF b = "sound" THEN f ELSE <<>>
      /\ h[voice] = IF b = "voice" THEN f ELSE <<>>
      /\ h[optional] = IF b = "skydome" THEN f ELSE <<>>
      /\ h[s] = <<>> /\ h[v] = <<>> /\ h[m] = <<>>
  BY <1>1, LastLeaves
<1>3. f \in Seq(Sayings)
  BY <1>1, FootIs
<1>4. FlatMap(Sending, h) = h[foot] \o (h[m] \o FlatMap(Rest, h))
  BY RestIs, SilentOps, LeavesHead
<1>5. h \in [AllOps -> Seq(Sayings)]
  BY LeavesType
<1>6. FlatMap(<<>>, h) = <<>>
  <2>1. foot \in AllOps
    BY LastOps
  <2>. HIDE DEF h
  <2>. QED BY <1>5, <2>1, FlatMapOne
<1>7. FlatMap(Speech, h) =
        h[sound] \o (h[s] \o (h[voice] \o (h[v] \o (h[optional] \o FlatMap(<<>>, h)))))
  <2>1. /\ sound \in AllOps /\ s \in AllOps /\ voice \in AllOps /\ v \in AllOps
        /\ optional \in AllOps
    BY <1>1, LastOps
  <2>2. Speech = <<sound, s, voice, v, optional>>
    BY DEF Speech
  <2>3. \A t \in Seq(AllOps) : t # <<>> => FlatMap(t, h) = h[Head(t)] \o FlatMap(Tail(t), h)
    BY LeavesHead
  <2>. DEFINE d == sound
              e == voice
              g == optional
  <2>. HIDE DEF s, v, d, e, g, h
  <2>4. /\ <<d, s, e, v, g>> \in Seq(AllOps) /\ <<s, e, v, g>> \in Seq(AllOps)
        /\ <<e, v, g>> \in Seq(AllOps) /\ <<v, g>> \in Seq(AllOps) /\ <<g>> \in Seq(AllOps)
    BY <2>1 DEF d, e, g
  <2>5. /\ Head(<<d, s, e, v, g>>) = d /\ Tail(<<d, s, e, v, g>>) = <<s, e, v, g>>
        /\ Head(<<s, e, v, g>>) = s /\ Tail(<<s, e, v, g>>) = <<e, v, g>>
        /\ Head(<<e, v, g>>) = e /\ Tail(<<e, v, g>>) = <<v, g>>
        /\ Head(<<v, g>>) = v /\ Tail(<<v, g>>) = <<g>>
        /\ Head(<<g>>) = g /\ Tail(<<g>>) = <<>>
    OBVIOUS
  <2>6. FlatMap(<<d, s, e, v, g>>, h) = h[d] \o FlatMap(<<s, e, v, g>>, h)
    BY <2>3, <2>4, <2>5
  <2>7. FlatMap(<<s, e, v, g>>, h) = h[s] \o FlatMap(<<e, v, g>>, h)
    BY <2>3, <2>4, <2>5
  <2>8. FlatMap(<<e, v, g>>, h) = h[e] \o FlatMap(<<v, g>>, h)
    BY <2>3, <2>4, <2>5
  <2>9. FlatMap(<<v, g>>, h) = h[v] \o FlatMap(<<g>>, h)
    BY <2>3, <2>4, <2>5
  <2>10. FlatMap(<<g>>, h) = h[g] \o FlatMap(<<>>, h)
    BY <2>3, <2>4, <2>5
  <2>. QED BY <2>2, <2>6, <2>7, <2>8, <2>9, <2>10 DEF d, e, g
<1>. HIDE DEF h, s, v, m, f
<1>8. f \o <<>> = f /\ <<>> \o f = f /\ <<>> \o <<>> = <<>>
  BY <1>3
<1>9. FlatMap(Sending, h) = f
  <2>1. CASE ~Sound
    <3>1. Rest = <<>>
      BY <2>1 DEF Rest
    <3>. QED BY <1>1, <1>2, <1>4, <1>6, <1>8, <2>1, <3>1
  <2>2. CASE Sound
    <3>1. Rest = Speech
      BY <2>2 DEF Rest
    <3>2. b \in {"mesg", "sound", "voice", "skydome"}
      BY <1>1 DEF Buffers
    <3>. QED BY <1>2, <1>4, <1>6, <1>7, <1>8, <3>1, <3>2
  <2>. QED BY <2>1, <2>2
<1>. QED BY <1>9 DEF h, f

(* No number is measured after the alert is composed.                      *)
LEMMA StageNumbers ==
  ASSUME NEW w \in Stages
  PROVE  FlatMap(w, NumbersOf) = <<>>
<1>1. w \in Seq(Silent)
  BY StageStep
<1>2. \A x \in Silent : NumbersOf[x] = <<>>
  BY DEF Silent, NumbersOf
<1>. QED BY <1>1, <1>2, FlatMapNone


-----------------------------------------------------------------------------
(* The configuration is of a file, and so is what was put of it.           *)

LEMMA NothingLeft == ASSUME NEW h PROVE FlatMap(<<>>, h) = <<>>
<1>. DEFINE S == {}
            t == <<>>
<1>1. t \in Seq(S) /\ \A x \in S : h[x] = <<>>
  OBVIOUS
<1>. HIDE DEF S, t
<1>2. FlatMap(t, h) = <<>>
  BY ONLY <1>1, FlatMapNone
<1>. QED BY <1>2 DEF t

LEMMA AbsentIs == Absent \in Seq(STRING) /\ Absent \in Sayings /\ ~IsNumber(Absent)
<1>1. Absent \in Seq(STRING)
  BY DEF Absent
<1>. QED BY <1>1, Worded, NumbersAre DEF Sayings

LEMMA ParsedConforms ==
  ASSUME NEW f \in AtStart \cup Files
  PROVE  /\ Parsed(f) \in [Keys -> Seq(STRING)]
         /\ \A k \in Keys : ~IsNumber(Parsed(f)[k])
<1>1. f \in Seq(Lines) /\ \A j \in DOMAIN f : ~IsNumber(f[j].val)
  BY FilesAssumption
<1>2. \A j \in DOMAIN f : f[j].val \in Seq(STRING)
  <2>1. \A j \in DOMAIN f : f[j] \in Lines
    BY <1>1, LenProperties, ElementOfSeq
  <2>. QED BY <2>1 DEF Lines
<1>. DEFINE hits(k) == {j \in DOMAIN f : f[j].kind = "entry" /\ f[j].key = k
                                        /\ f[j].val # Absent}
            first(k) == CHOOSE j \in hits(k) : \A i \in hits(k) : j <= i
            val(k) == IF hits(k) = {} THEN Absent ELSE f[first(k)].val
<1>3. ASSUME NEW k, hits(k) # {} PROVE first(k) \in DOMAIN f
  <2>1. hits(k) \in SUBSET Nat
    BY <1>1, LenProperties
  <2>2. \E j \in hits(k) : \A i \in hits(k) : j <= i
    <3>. HIDE DEF hits
    <3>. QED BY <1>3, <2>1, SmallestExists
  <2>3. first(k) \in hits(k)
    <3>. HIDE DEF hits
    <3>. QED BY <2>2
  <2>. QED BY <2>3
<1>4. Parsed(f) = [k \in Keys |-> val(k)]
  BY DEF Parsed
<1>. HIDE DEF first, hits
<1>5. \A k : val(k) \in Seq(STRING) /\ ~IsNumber(val(k))
  BY <1>1, <1>2, <1>3, AbsentIs
<1>. HIDE DEF val
<1>. QED BY <1>4, <1>5

LEMMA EmptyConforms ==
  Empty \in [Keys -> Seq(STRING)] /\ \A k \in Keys : ~IsNumber(Empty[k])
BY AbsentIs DEF Empty

LEMMA TextConforms ==
  ASSUME Conforming, NEW buf, NEW val \in Sayings
  PROVE  Appended(buf, val) \in [Buffers -> Seq(Sayings)]
<1>1. text \in [Buffers -> Seq(Sayings)]
  BY DEF Conforming
<1>2. \A t \in Seq(Sayings) : Append(t, val) \in Seq(Sayings)
  BY AppendProperties
<1>. QED BY <1>1, <1>2 DEF Appended

LEMMA BlankConforms == [b \in Buffers |-> <<>>] \in [Buffers -> Seq(Sayings)]
<1>1. <<>> \in Seq(Sayings)
  OBVIOUS
<1>. QED BY <1>1

(* What a put adds is a value of the file's, or of freed memory.           *)
LEMMA PutWords ==
  ASSUME Conforming, work \in Seq(AllOps), Doing("put"),
         NEW val \in {Garbage, Absent, conf[Head(work).key]}
  PROVE  val \in Sayings /\ ~IsNumber(val)
<1>1. Head(work) \in AllOps /\ Head(work).op = "put"
  BY NonEmptySeq DEF Doing
<1>2. Head(work).key \in Keys
  BY <1>1, Kinds
<1>3. conf[Head(work).key] \in Sayings /\ ~IsNumber(conf[Head(work).key])
  BY <1>2 DEF Conforming, Sayings
<1>4. Garbage \in Sayings /\ ~IsNumber(Garbage)
  BY FilesAssumption DEF Sayings
<1>. QED BY <1>3, <1>4, AbsentIs

LEMMA SayWords ==
  ASSUME work \in Seq(AllOps), Doing("say")
  PROVE  Head(work).words \in Sayings
<1>1. Head(work) \in AllOps /\ Head(work).op = "say"
  BY NonEmptySeq DEF Doing
<1>. QED BY <1>1, Kinds DEF Sayings

LEMMA ConformingInit == Init => Conforming
<1>. SUFFICES ASSUME Init PROVE Conforming
  OBVIOUS
<1>1. conf \in [Keys -> Seq(STRING)] /\ \A k \in Keys : ~IsNumber(conf[k])
  BY ParsedConforms DEF Init
<1>. QED BY <1>1, BlankConforms DEF Init, Conforming

LEMMA ConformingNext ==
  ASSUME Conforming, work \in Seq(AllOps), [Next]_vars
  PROVE  Conforming'
<1>1. CASE UNCHANGED <<conf, text>>
  BY <1>1 DEF Conforming
<1>2. CASE PutText
  BY <1>2, PutWords, TextConforms DEF PutText, Conforming
<1>3. CASE SayText
  BY <1>3, SayWords, TextConforms DEF SayText, Conforming
<1>4. CASE Return
  BY <1>4, BlankConforms DEF Return, Conforming
<1>5. CASE Reload \/ ReloadInside
  <2>1. conf' \in [Keys -> Seq(STRING)] /\ \A k \in Keys : ~IsNumber(conf'[k])
    <3>1. conf' \in {Parsed(f) : f \in Files} \cup {Empty}
      BY <1>5 DEF Reload, ReloadInside, LoadFile
    <3>. QED BY <3>1, ParsedConforms, EmptyConforms
  <2>2. text' \in [Buffers -> Seq(Sayings)]
    <3>1. CASE text' = text
      BY <3>1 DEF Conforming
    <3>2. ASSUME NEW val \in {Garbage, Absent, conf[Head(work).key]}, Doing("put"),
                 text' = Appended(Head(work).buf, val)
          PROVE  text' \in [Buffers -> Seq(Sayings)]
      BY <3>2, PutWords, TextConforms
    <3>. QED BY <1>5, <3>1, <3>2 DEF Reload, ReloadInside
  <2>. QED BY <2>1, <2>2 DEF Conforming
<1>. QED BY <1>1, <1>2, <1>3, <1>4, <1>5
     DEF Next, vars, Advance, Count, Close, IfExists, SendText, Conclude

-----------------------------------------------------------------------------
(* The texts are told, step by step.                                       *)

LEMMA WorkOps ==
  ASSUME TypeInv, TellInv
  PROVE  work \in Seq(AllOps)
<1>1. CASE phase = "count"
  BY <1>1 DEF TellInv, Blank
<1>2. CASE phase = "compose"
  <2>1. Seq(Composing) \subseteq Seq(AllOps)
    BY OpsAre DEF AllOps
  <2>. QED BY <1>2, <2>1 DEF TellInv, ComposeInv
<1>3. CASE phase = "send"
  BY <1>3, StageStep DEF TellInv, SendInv
<1>. QED BY <1>1, <1>2, <1>3 DEF TypeInv, TypeOK

(* What the texts will be is a matter of the configuration and of what     *)
(* fired.                                                                  *)
LEMMA Settled ==
  ASSUME conf' = conf
  PROVE  /\ \A b : Leaves(b)' = Leaves(b)
         /\ \A ms : Composed(ms)' = Composed(ms) /\ Whole(ms)' = Whole(ms)
<1>1. \A k, w : Quoted(k)' = Quoted(k) /\ QuotedOr(k, w)' = QuotedOr(k, w)
  BY DEF Quoted, QuotedOr
<1>2. \A b : Leaves(b)' = Leaves(b)
  BY <1>1 DEF Leaves, Chosen, Appends, Added
<1>3. \A m : Told(m)' = Told(m)
  BY <1>1 DEF Told
<1>4. ASSUME NEW ms PROVE Composed(ms)' = Composed(ms) /\ Whole(ms)' = Whole(ms)
  <2>. DEFINE told  == [i \in DOMAIN ms |-> Told(ms[i])]
              cried == [i \in DOMAIN ms |-> Quoted(<<"VOICE", ms[i]>>)]
              a == Quoted(<<"PIC", ms[1]>>)
              b == Quoted(<<"MSG", "HEAD">>)
              c == Quoted(<<"MSG", "FOOT">>)
              d == Quoted(<<"SOUND", "HEAD">>)
              e == Quoted(<<"SOUND", ms[1]>>)
              f == Quoted(<<"SOUND", "FOOT">>)
              g == Quoted(<<"VOICE", "HEAD">>)
              h == Quoted(<<"VOICE", "FOOT">>)
              k == Quoted(<<"SKYDOME", "">>)
              t == FlattenSeq(told)
              v == FlattenSeq(cried)
  <2>1. told' = told /\ cried' = cried
    BY <1>1, <1>3
  <2>2. /\ a' = a /\ b' = b /\ c' = c /\ d' = d /\ e' = e /\ f' = f /\ g' = g
         /\ h' = h /\ k' = k
    BY <1>1
  <2>3. t' = t /\ v' = v
    <3>. HIDE DEF told, cried
    <3>. QED BY <2>1
  <2>. DEFINE composed == [mesg  |-> a \o <<<<",", "">>>> \o b \o t, sound |-> d \o e,
                           voice |-> g \o v, skydome |-> <<>>]
              whole == [mesg  |-> a \o <<<<",", "">>>> \o b \o t \o c, sound |-> d \o e \o f,
                        voice |-> g \o v \o h, skydome |-> k]
  <2>4. Composed(ms) = composed /\ Whole(ms) = whole
    BY DEF Composed, Whole
  <2>5. Composed(ms)' = composed' /\ Whole(ms)' = whole'
    BY DEF Composed, Whole
  <2>. HIDE DEF a, b, c, d, e, f, g, h, k, t, v
  <2>6. composed' = composed /\ whole' = whole
    BY <2>2, <2>3
  <2>. HIDE DEF composed, whole
  <2>7. Composed(ms)' = Composed(ms) /\ Whole(ms)' = Whole(ms)
    BY <2>6, <2>4, <2>5
  <2>. QED BY <2>7
<1>. QED BY <1>2, <1>4

LEMMA TellKept ==
  ASSUME TellInv, UNCHANGED <<conf, text, work, phase, firing, reloaded>>
  PROVE  TellInv'
<1>1. Conforming' /\ (phase = "count" => Blank')
  BY DEF TellInv, Conforming, Blank
<1>2. phase = "compose" => ComposeInv'
  BY Settled DEF TellInv, ComposeInv
<1>3. phase = "send" => SendInv'
  BY Settled DEF TellInv, SendInv
<1>4. phase # "count" /\ phase \in {"compose", "send"} => MeasuredInv'
  BY Settled DEF TellInv, MeasuredInv
<1>. QED BY <1>1, <1>2, <1>3, <1>4 DEF TellInv

LEMMA TellInit == Init => TellInv
<1>1. Init => phase = "count" /\ Blank
  BY DEF Init, Blank
<1>. QED BY <1>1, ConformingInit DEF TellInv

(* Putting, saying, asking and sending, measured.                          *)
LEMMA MeasuredKept ==
  ASSUME Conforming, work \in Seq(AllOps), Handling
  PROVE  Numbers(text'["mesg"]) \o FlatMap(work', NumbersOf) =
           Numbers(text["mesg"]) \o FlatMap(work, NumbersOf)
<1>0. text \in [Buffers -> Seq(Sayings)]
  BY DEF Conforming
<1>1. CASE PutText
  <2>. DEFINE val == conf[Head(work).key]
  <2>1. val \in Sayings /\ ~IsNumber(val)
    BY <1>1, PutWords DEF PutText
  <2>2. /\ text' = Appended(Head(work).buf, val) /\ work # <<>> /\ work' = Tail(work)
        /\ Head(work).op = "put"
    BY <1>1 DEF PutText, Doing
  <2>. HIDE DEF val
  <2>. QED BY <1>0, <2>1, <2>2, MeasuredWord
<1>2. CASE SayText
  <2>. DEFINE val == Head(work).words
  <2>1. val \in Sayings
    BY <1>2, SayWords DEF SayText
  <2>2. /\ text' = Appended(Head(work).buf, val) /\ work # <<>> /\ work' = Tail(work)
        /\ Head(work).op = "say" /\ val = Head(work).words
    BY <1>2 DEF SayText, Doing
  <2>. HIDE DEF val
  <2>. QED BY <1>0, <2>1, <2>2, MeasuredWord
<1>3. CASE IfExists
  BY <1>3, MeasuredBranch DEF IfExists, Doing
<1>4. CASE SendText
  <2>1. /\ text' = text /\ work # <<>> /\ work' = Tail(work) /\ Head(work).op = "send"
    BY <1>4 DEF SendText, Doing
  <2>. QED BY <1>0, <2>1, AbsentIs, MeasuredWord
<1>. QED BY <1>1, <1>2, <1>3, <1>4 DEF Handling

LEMMA MeasuredReload ==
  ASSUME Conforming, work \in Seq(AllOps), ReloadInside
  PROVE  Numbers(text'["mesg"]) \o FlatMap(work', NumbersOf) =
           Numbers(text["mesg"]) \o FlatMap(work, NumbersOf)
<1>0. text \in [Buffers -> Seq(Sayings)]
  BY DEF Conforming
<1>1. ASSUME NEW val \in {Garbage, Absent, conf[Head(work).key]}, Doing("put"),
             text' = Appended(Head(work).buf, val), work' = Tail(work)
      PROVE  Numbers(text'["mesg"]) \o FlatMap(work', NumbersOf) =
               Numbers(text["mesg"]) \o FlatMap(work, NumbersOf)
  <2>1. val \in Sayings /\ ~IsNumber(val)
    BY <1>1, PutWords
  <2>2. work # <<>> /\ Head(work).op = "put"
    BY <1>1 DEF Doing
  <2>. QED BY <1>0, <1>1, <2>1, <2>2, MeasuredWord
<1>2. ASSUME NEW exists \in BOOLEAN, Doing("if"), work' = Branch(exists), text' = text
      PROVE  Numbers(text'["mesg"]) \o FlatMap(work', NumbersOf) =
               Numbers(text["mesg"]) \o FlatMap(work, NumbersOf)
  BY <1>2, MeasuredBranch DEF Doing
<1>. QED BY <1>1, <1>2 DEF ReloadInside

(* Where the work goes.                                                    *)
WorkMoves ==
  /\ work # <<>>
  /\ \/ work' = Tail(work) /\ Head(work).op # "if"
     \/ /\ Head(work).op = "if"
        /\ \E exists \in BOOLEAN : work' = Branch(exists)

LEMMA HandlingMoves ==
  ASSUME Handling PROVE WorkMoves
BY DEF Handling, PutText, SayText, IfExists, SendText, Doing, WorkMoves

LEMMA ReloadMoves ==
  ASSUME ReloadInside PROVE WorkMoves \/ work' = work
BY DEF ReloadInside, Doing, WorkMoves

LEMMA ComposeMoves ==
  ASSUME work \in Seq(Composing), WorkMoves
  PROVE  work' \in Seq(Composing)
<1>1. Head(work) \in Composing /\ Tail(work) \in Seq(Composing)
  BY NonEmptySeq DEF WorkMoves
<1>2. ASSUME NEW exists \in BOOLEAN, Head(work).op = "if"
      PROVE  Branch(exists) \in Seq(Composing)
  <2>1. Head(work) \in Asking(Putting)
    BY <1>1, <1>2 DEF Composing, Putting
  <2>2. Head(work).then \in Seq(Composing) /\ Head(work).other \in Seq(Composing)
    BY <2>1, OpsAre DEF Asking
  <2>3. /\ Head(work).then \o Tail(work) \in Seq(Composing)
        /\ Head(work).other \o Tail(work) \in Seq(Composing)
    BY <1>1, <2>2, ConcatProperties
  <2>. QED BY <2>3 DEF Branch
<1>. QED BY <1>1, <1>2 DEF WorkMoves

LEMMA StageMoves ==
  ASSUME work \in Stages, WorkMoves
  PROVE  work' \in Stages
<1>1. ASSUME NEW exists \in BOOLEAN, Head(work).op = "if"
      PROVE  Branch(exists) \in Stages
  <2>1. Tail(work) = <<>> /\ Head(work).then \in Stages /\ Head(work).other \in Stages
    BY <1>1, StageStep DEF WorkMoves
  <2>2. \A t \in Seq(AllOps) : t \o <<>> = t
    OBVIOUS
  <2>3. Head(work).then \in Seq(AllOps) /\ Head(work).other \in Seq(AllOps)
    BY <2>1, StageStep
  <2>. QED BY <2>1, <2>2, <2>3 DEF Branch
<1>. QED BY <1>1, StageStep DEF WorkMoves

LEMMA TellHandling ==
  ASSUME TypeInv, TellInv, Handling, Conforming'
  PROVE  TellInv'
<1>1. work \in Seq(AllOps) /\ Conforming
  BY WorkOps DEF TellInv
<1>2. /\ conf' = conf /\ firing' = firing /\ phase' = phase /\ reloaded' = reloaded
      /\ work # <<>>
  BY DEF Handling, PutText, SayText, IfExists, SendText, Kept, Doing
<1>3. phase # "count"
  BY <1>2 DEF TellInv, Blank
<1>4. MeasuredInv => MeasuredInv'
  BY <1>1, <1>2, MeasuredKept, Settled DEF MeasuredInv
<1>5. \A b \in Buffers :
        text'[b] \o FlatMap(work', Leaves(b)') = text[b] \o FlatMap(work, Leaves(b))
  BY <1>1, WholeKept
<1>6. phase = "compose" => ComposeInv'
  <2>. SUFFICES ASSUME phase = "compose" PROVE ComposeInv'
    OBVIOUS
  <2>1. ComposeInv
    BY DEF TellInv
  <2>2. work' \in Seq(Composing)
    BY <2>1, ComposeMoves, HandlingMoves DEF ComposeInv
  <2>. QED BY <1>2, <1>5, <2>1, <2>2, Settled DEF ComposeInv
<1>7. phase = "send" => SendInv'
  <2>. SUFFICES ASSUME phase = "send" PROVE SendInv'
    OBVIOUS
  <2>1. SendInv
    BY DEF TellInv
  <2>2. work' \in Stages
    BY <2>1, StageMoves, HandlingMoves DEF SendInv
  <2>3. Spoken \subseteq Buffers
    BY DEF Spoken, Buffers
  <2>. QED BY <1>2, <1>5, <2>1, <2>2, <2>3, Settled DEF SendInv
<1>. QED BY <1>2, <1>3, <1>4, <1>6, <1>7 DEF TellInv

LEMMA TellReload ==
  ASSUME TypeInv, TellInv, Reload \/ ReloadInside, Conforming'
  PROVE  TellInv'
<1>1. work \in Seq(AllOps) /\ Conforming
  BY WorkOps DEF TellInv
<1>2. /\ firing' = firing /\ phase' = phase /\ reloaded' = (phase # "count")
      /\ (work' = work /\ text' = text) \/ ReloadInside
  BY DEF Reload, ReloadInside, LoadFile, Kept
<1>3. phase = "count" => Blank'
  <2>. SUFFICES ASSUME phase = "count" PROVE Blank'
    OBVIOUS
  <2>1. Blank
    BY DEF TellInv
  <2>2. work' = work /\ text' = text
    BY <1>2, <2>1 DEF ReloadInside, Doing, Blank
  <2>. QED BY <2>1, <2>2 DEF Blank
<1>4. MeasuredInv => MeasuredInv'
  <2>1. Numbers(text'["mesg"]) \o FlatMap(work', NumbersOf) =
          Numbers(text["mesg"]) \o FlatMap(work, NumbersOf)
    BY <1>1, <1>2, MeasuredReload
  <2>. QED BY <1>2, <2>1 DEF MeasuredInv
<1>5. WorkMoves \/ work' = work
  BY <1>2, ReloadMoves
<1>6. phase = "compose" => ComposeInv'
  BY <1>2, <1>5, ComposeMoves DEF TellInv, ComposeInv
<1>7. phase = "send" => SendInv'
  BY <1>2, <1>5, StageMoves DEF TellInv, SendInv, WorkMoves
<1>. QED BY <1>2, <1>3, <1>4, <1>6, <1>7 DEF TellInv

LEMMA TellClose ==
  ASSUME TellInv, NEW tally, NEW over \in Overs, NEW shift \in Shifts,
         Close(tally, over, shift), Conforming'
  PROVE  TellInv'
<1>. DEFINE fires == Fires(Counted(tally), over, shift)
            ms == InOrder(fires)
<1>1. /\ phase = "count" /\ phase' = "compose" /\ conf' = conf /\ text' = text
      /\ firing' = fires /\ work' = Alert(ms)
  BY DEF Close
<1>2. Blank /\ Conforming
  BY <1>1 DEF TellInv
<1>3. fires \in SUBSET Metrics
  BY FiresMetrics
<1>4. ms \in Seq(Metrics) /\ (fires # {} => ms # <<>>)
  BY <1>3, InOrderType, InOrderFull
<1>5. work' \in Seq(Composing)
  BY <1>1, <1>4, AlertType
<1>6. text'["mesg"] = <<>> /\ \A b \in Buffers : text'[b] = <<>>
  BY <1>1, <1>2 DEF Blank, Buffers
<1>7. InOrder(firing') = ms
  BY <1>1
<1>. HIDE DEF fires, ms
<1>8. MeasuredInv'
  <2>1. Numbers(<<>>) = <<>>
    <3>1. <<>> \in Seq(Sayings)
      OBVIOUS
    <3>2. Numbers(<<>>) = <<>>
      BY <3>1, AbsentIs, NumbersAppend
    <3>. QED BY <3>2
  <2>2. FlatMap(work', NumbersOf) = Measured(ms)
    <3>1. CASE ms = <<>>
      <4>1. FlatMap(<<>>, NumbersOf) = <<>>
        BY NothingLeft
      <4>. QED BY <1>1, <3>1, <4>1, NothingToTell
    <3>2. CASE ms # <<>>
      <4>1. "mesg" \in Buffers
        BY DEF Buffers
      <4>. QED BY <1>1, <1>2, <1>4, <3>2, <4>1, AlertWhole
    <3>. QED BY <3>1, <3>2
  <2>3. FlatMap(work', NumbersOf) \in Seq(Figures)
    <3>1. Seq(Composing) \subseteq Seq(AllOps)
      BY OpsAre DEF AllOps
    <3>. QED BY <1>5, <3>1, NumbersOfType, FlatMapType
  <2>4. \A t \in Seq(Figures) : <<>> \o t = t
    OBVIOUS
  <2>. QED BY <1>6, <1>7, <2>1, <2>2, <2>3, <2>4 DEF MeasuredInv
<1>9. ComposeInv'
  <2>1. ASSUME firing' # {}, NEW b \in Buffers
        PROVE  text'[b] \o FlatMap(work', Leaves(b)') = Composed(InOrder(firing))'[b]
    <3>1. ms # <<>>
      BY <1>1, <1>4, <2>1
    <3>2. FlatMap(Alert(ms), Leaves(b)) = Composed(ms)[b]
      BY <1>2, <1>4, <3>1, AlertWhole
    <3>3. Leaves(b)' = Leaves(b) /\ Composed(InOrder(firing))' = Composed(ms)
      BY <1>1, <1>7, Settled
    <3>4. FlatMap(work', Leaves(b)) \in Seq(Sayings)
      <4>1. Seq(Composing) \subseteq Seq(AllOps)
        BY OpsAre DEF AllOps
      <4>2. Leaves(b) \in [AllOps -> Seq(Sayings)]
        BY <1>2, LeavesType
      <4>. QED BY <1>5, <4>1, <4>2, FlatMapType
    <3>5. \A t \in Seq(Sayings) : <<>> \o t = t
      OBVIOUS
    <3>. QED BY <1>1, <1>6, <3>2, <3>3, <3>4, <3>5
  <2>. QED BY <1>5, <2>1 DEF ComposeInv
<1>. QED BY <1>1, <1>8, <1>9 DEF TellInv

LEMMA TellConclude ==
  ASSUME TypeInv, TellInv, Conclude, Conforming'
  PROVE  TellInv'
<1>. DEFINE ms == InOrder(firing)
<1>1. /\ phase = "compose" /\ phase' = "send" /\ conf' = conf /\ text' = text
      /\ firing' = firing /\ reloaded' = reloaded /\ work = <<>>
      /\ work' = <<>> \/ (work' = Sending /\ firing # {})
  BY DEF Conclude
<1>2. ComposeInv /\ MeasuredInv /\ Conforming
  BY <1>1 DEF TellInv
<1>3. \A h : FlatMap(<<>>, h) = <<>>
  BY NothingLeft
<1>4. work' \in Stages
  BY <1>1 DEF Stages
<1>5. MeasuredInv'
  <2>1. FlatMap(work', NumbersOf) = <<>> /\ FlatMap(work, NumbersOf) = <<>>
    BY <1>1, <1>3, <1>4, StageNumbers
  <2>. QED BY <1>1, <1>2, <2>1 DEF MeasuredInv
<1>6. ASSUME work' # <<>>, ~reloaded, NEW b \in Spoken
      PROVE  text'[b] \o FlatMap(work', Leaves(b)') = Whole(InOrder(firing))'[b]
  <2>1. b \in Buffers /\ work' = Sending /\ firing # {}
    BY <1>1, <1>6 DEF Spoken, Buffers
  <2>2. text[b] \in Seq(Sayings)
    BY <1>2, <2>1 DEF Conforming
  <2>3. text[b] \o <<>> = text[b]
    <3>. DEFINE t == text[b]
    <3>1. t \in Seq(Sayings)
      BY <2>2
    <3>. HIDE DEF t
    <3>2. t \o <<>> = t
      BY <3>1
    <3>. QED BY <3>2 DEF t
  <2>4. text[b] = Composed(ms)[b]
    <3>1. text[b] \o FlatMap(work, Leaves(b)) = Composed(ms)[b]
      BY <1>2, <1>6, <2>1 DEF ComposeInv
    <3>. QED BY <1>1, <1>3, <2>3, <3>1
  <2>5. FlatMap(work', Leaves(b)') = Foot(b)
    BY <1>1, <1>2, <2>1, Settled, SendingLeaves
  <2>6. Whole(ms)[b] = Composed(ms)[b] \o Foot(b)
    <3>. HIDE DEF ms
    <3>1. CASE b # "skydome"
      BY <1>2, <2>1, <3>1, FootIs
    <3>2. CASE b = "skydome"
      <4>1. /\ Whole(ms)[b] = Foot(b) /\ Composed(ms)[b] = <<>>
            /\ Foot(b) \in Seq(Sayings)
        BY <1>2, <2>1, <3>2, FootIs
      <4>2. \A t \in Seq(Sayings) : <<>> \o t = t
        OBVIOUS
      <4>. QED BY <4>1, <4>2
    <3>. QED BY <3>1, <3>2
  <2>7. Whole(InOrder(firing))' = Whole(ms)
    BY <1>1, Settled
  <2>. QED BY <1>1, <2>4, <2>5, <2>6, <2>7
<1>7. SendInv'
  BY <1>1, <1>4, <1>6 DEF SendInv
<1>. QED BY <1>1, <1>5, <1>7 DEF TellInv

LEMMA TellNext == TypeInv /\ TellInv /\ [Next]_vars => TellInv'
<1>. SUFFICES ASSUME TypeInv, TellInv, [Next]_vars PROVE TellInv'
  OBVIOUS
<1>0. Conforming'
  BY WorkOps, ConformingNext DEF TellInv
<1>1. CASE Advance \/ UNCHANGED vars
  BY <1>1, TellKept DEF Advance, vars
<1>2. ASSUME NEW tally, Count(tally) PROVE TellInv'
  BY <1>2, TellKept DEF Count
<1>3. ASSUME NEW tally, NEW over \in Overs, NEW shift \in Shifts,
             Close(tally, over, shift)
      PROVE  TellInv'
  BY <1>0, <1>3, TellClose
<1>4. CASE PutText \/ SayText \/ IfExists \/ SendText
  BY <1>0, <1>4, TellHandling DEF Handling
<1>5. CASE Conclude
  BY <1>0, <1>5, TellConclude
<1>6. CASE Return
  BY <1>0, <1>6 DEF Return, TellInv, Blank
<1>7. CASE Reload \/ ReloadInside
  BY <1>0, <1>7, TellReload
<1>. QED BY <1>1, <1>2, <1>3, <1>4, <1>5, <1>6, <1>7 DEF Next

LEMMA TellInvTells == TypeInv /\ TellInv => AlertTellsWhatFired
<1>. SUFFICES ASSUME TypeInv, TellInv, NEW b \in Buffers, work # <<>>, Head(work) = Send(b)
              PROVE  LET ms == InOrder(firing)
                     IN  /\ ms # <<>>
                         /\ ~reloaded => text[b] = Whole(ms)[b]
                         /\ b = "mesg" => Numbers(text[b]) = Measured(ms)
  BY DEF AlertTellsWhatFired
<1>. DEFINE ms == InOrder(firing)
<1>1. phase = "send"
  <2>1. phase # "count"
    BY DEF TellInv, Blank
  <2>2. phase # "compose"
    <3>1. work \in Seq(Composing) => Head(work) \in Composing
      BY NonEmptySeq
    <3>2. \A x \in Composing : x # Send(b)
      BY DEF Composing, Putting, Asking, Send
    <3>. QED BY <3>1, <3>2 DEF TellInv, ComposeInv
  <2>. QED BY <2>1, <2>2 DEF TypeInv, TypeOK
<1>2. SendInv /\ MeasuredInv /\ Conforming
  BY <1>1 DEF TellInv
<1>3. firing \in SUBSET Metrics /\ firing # {}
  BY <1>2 DEF SendInv, TypeInv, TypeOK
<1>4. ms # <<>>
  BY <1>3, InOrderFull
<1>5. b \in Spoken /\ FlatMap(work, Leaves(b)) = <<>> /\ FlatMap(work, NumbersOf) = <<>>
  BY <1>2, StageSends, StageNumbers DEF SendInv
<1>. HIDE DEF ms
<1>6. ASSUME ~reloaded PROVE text[b] = Whole(ms)[b]
  <2>1. text[b] \o FlatMap(work, Leaves(b)) = Whole(ms)[b]
    BY <1>2, <1>5, <1>6 DEF SendInv, ms
  <2>. DEFINE t == text[b]
  <2>2. t \in Seq(Sayings)
    BY <1>2 DEF Conforming
  <2>. HIDE DEF t
  <2>3. t \o <<>> = t
    BY <2>2
  <2>. QED BY <1>5, <2>1, <2>3 DEF t
<1>7. ASSUME b = "mesg" PROVE Numbers(text[b]) = Measured(ms)
  <2>. DEFINE t == text["mesg"]
              q == Numbers(t)
  <2>1. q \o FlatMap(work, NumbersOf) = Measured(ms)
    BY <1>2 DEF MeasuredInv, ms
  <2>2. t \in Seq(Sayings)
    BY <1>2, <1>7 DEF Conforming
  <2>3. q \in Seq(Figures)
    <3>. HIDE DEF t
    <3>. QED BY <2>2, AbsentIs, NumbersAppend
  <2>. HIDE DEF q
  <2>4. q \o <<>> = q
    BY <2>3
  <2>. QED BY <1>5, <1>7, <2>1, <2>4 DEF q
<1>. QED BY <1>4, <1>6, <1>7 DEF ms

(* Whatever the configuration and wherever SIGHUP comes, an alert that     *)
(* goes out has what was measured of every metric that fired, in order,    *)
(* and no other number; and if SIGHUP did not come meanwhile, its texts    *)
(* are whole and of one file.                                              *)
THEOREM Tells == Spec => []AlertTellsWhatFired
BY TellInit, TellNext, TellInvTells, TypeInit, TypeNext, PTL DEF Spec
=============================================================================
