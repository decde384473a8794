----------------------------- MODULE ThmonAgent -----------------------------
(***************************************************************************)
(* The agent's threshold monitor (agent/src/pt_thmon.c): captured frames   *)
(* are counted by class, a window of COUNT frames is judged by the         *)
(* detectors and the hard caps, and the alert is put together text by text *)
(* from the configuration (agent/lib/config.c, map.c), which the handler   *)
(* of SIGHUP empties and reads again wherever the monitor happens to be.   *)
(*                                                                         *)
(* A baseline is the set of windows it has learnt; whether a value is over *)
(* its band, and how far the imbalance is off, may come out either way.    *)
(* Caps are exact: the share of a class is its count in COUNT frames.      *)
(***************************************************************************)
EXTENDS Integers, Sequences, SequencesExt

CONSTANTS
  COUNT,      \* -C
  INTERVAL,   \* -w
  Warmups,    \* what TH_WARMUP may be
  CUSUM_K, CUSUM_H,  \* TH_CUSUM_K, TH_CUSUM_H
  Cap,        \* -S ... -P in frames per window (PPS: per second), 0 if unset
  Sound,      \* -s
  Frames,     \* frames that may be captured
  AtStart,    \* what the configuration file may hold at the start, and
  Files,      \* at a reload: sequences of lines
  Garbage,    \* what freed memory holds
  Overs,      \* bound: metrics that may be over their bands in one window
  Shifts,     \* bound: standardised imbalances of a window
  MaxWindows, MaxTime, MaxReloads  \* bounds

(* In the order in which they are told in an alert. *)
Order   == <<"SYN", "FIN", "RST", "ICMP", "UDP", "PPS">>
Metrics == ToSet(Order)
Banded  == Metrics \ {"SYN"}
Classes == {"SYN", "FIN", "RST", "ICMP", "UDP"}

ASSUME ThmonAgentAssumption ==
  /\ COUNT \in Nat \ {0} /\ INTERVAL \in Nat /\ Warmups \subseteq Int
  /\ CUSUM_K \in Nat /\ CUSUM_H \in Nat /\ Shifts \subseteq Int
  /\ Cap \in [Metrics -> Nat] /\ Sound \in BOOLEAN
  /\ Overs \subseteq SUBSET Banded
  /\ MaxWindows \in Nat /\ MaxTime \in Nat /\ MaxReloads \in Nat

(* What is measured is told in words of the monitor's own: what a file or  *)
(* freed memory holds is something else, whatever it looks like.           *)
Lines == [kind : STRING, key : Seq(STRING), val : Seq(STRING)]

IsNumber(words) == \E m \in Metrics : words \in {<<"observed", m>>, <<"threshold", m>>}

ASSUME FilesAssumption ==
  /\ AtStart \cup Files \subseteq Seq(Lines)
  /\ \A f \in AtStart \cup Files : \A j \in DOMAIN f : ~IsNumber(f[j].val)
  /\ ~IsNumber(Garbage)

Absent == <<>>

(* Keys that are the same for all metrics, and those each metric has.      *)
Shared == {<<"MSG", "HEAD">>, <<"MSG", "FOOT">>, <<"SOUND", "HEAD">>,
           <<"SOUND", "FOOT">>, <<"VOICE", "HEAD">>, <<"VOICE", "FOOT">>,
           <<"MONITOR", "">>, <<"THRESHOLD", "">>, <<"SKYDOME", "">>}
Keys   == Shared \cup ({"PIC", "MSG", "SOUND", "VOICE"} \X Metrics)

Buffers == {"mesg", "sound", "voice", "skydome"}

VARIABLES
  warmup,    \* th.warmup, read at the start only
  conf,      \* g_config
  reloads,   \* history: times SIGHUP came
  now,       \* gettimeofday, in seconds
  counts,    \* count_all as "all", and the count of each class
  start,     \* th.start
  windows,   \* th.windows
  cusum,     \* th.cusum_g
  learnt,    \* history: per metric, the windows its baselines learnt
  fired,     \* history: per metric, the windows in which it fired
  cooldown,  \* th.cooldown_until_sec
  firing,    \* the fire_ flags of the window being judged
  phase,     \* "count", "compose" or "send"
  work,      \* what analyze still has to do to its texts
  text,      \* mesg, sound, voice and skydome
  reloaded,  \* history: SIGHUP came since the window was closed
  alarms, withheld,  \* history: alerts sent and not sent, [at, window]
  alive

detectors == <<windows, cusum, learnt, fired, cooldown>>
history   == <<alarms, withheld>>
vars == <<warmup, conf, reloads, now, counts, start, detectors, firing, phase,
          work, text, reloaded, history, alive>>

-----------------------------------------------------------------------------
(* config.c and map.c                                                      *)

Empty == [k \in Keys |-> Absent]

(* The first line that gives a key a value is the one that counts. *)
Parsed(file) ==
  [k \in Keys |->
    LET hits == {j \in DOMAIN file : file[j].kind = "entry" /\ file[j].key = k
                                     /\ file[j].val # Absent}
    IN  IF hits = {} THEN Absent
        ELSE file[CHOOSE j \in hits : \A i \in hits : j <= i].val]

Init ==
  /\ warmup \in Warmups
  /\ conf \in {Parsed(f) : f \in AtStart}
  /\ reloads = 0 /\ now = 0
  /\ counts = [c \in Classes \cup {"all"} |-> 0] /\ start = 0
  /\ windows = 0 /\ cusum = 0 /\ cooldown = 0
  /\ learnt = [m \in Metrics |-> {}] /\ fired = [m \in Metrics |-> {}]
  /\ firing = {} /\ phase = "count" /\ work = <<>>
  /\ text = [b \in Buffers |-> <<>>] /\ reloaded = FALSE
  /\ alarms = <<>> /\ withheld = <<>> /\ alive = TRUE

Advance ==
  /\ phase = "count" /\ alive
  /\ now < MaxTime
  /\ now' = now + 1
  /\ UNCHANGED <<warmup, conf, reloads, counts, start, detectors, firing, phase,
                 work, text, reloaded, history, alive>>

-----------------------------------------------------------------------------
(* thmon_cb and count_ip4: what a frame is counted as.                     *)

ClassOf == [tcp |-> {}, udp |-> {"UDP"}, icmp |-> {"ICMP"}, other |-> {}]

Ip4Classes(f, len) ==
  CASE len < 20 -> {}
    [] len >= 20 /\ (f.ihl < 20 \/ f.ihl + 20 > len) -> ClassOf[f.proto]
    [] OTHER -> IF f.proto = "tcp" THEN f.flags ELSE ClassOf[f.proto]

(* A tag whose frame was cut before its type: what is behind the captured  *)
(* bytes is read as the type, and the length left wraps round.             *)
Overrun(f) == f.vlan /\ f.caplen \in 14..17

TalliesOf(f) ==
  LET skip == IF f.vlan THEN 18 ELSE 14
  IN  CASE f.caplen < 14 -> {{}}
        [] Overrun(f) -> {{}} \cup {{"all"} \cup c : c \in
                           {{}, {"UDP"}, {"ICMP"}} \cup SUBSET {"SYN", "FIN", "RST"}}
        [] f.caplen >= skip /\ f.ether = "other" -> {{}}
        [] f.caplen >= skip /\ f.ether = "ip6"   -> {{"all"}}
        [] f.caplen >= skip /\ f.ether = "ip4"   ->
             {{"all"} \cup Ip4Classes(f, f.caplen - skip)}

Started == IF counts["all"] = 0 THEN now ELSE start

Counted(tally) ==
  [c \in DOMAIN counts |-> IF c \in tally THEN counts[c] + 1 ELSE counts[c]]

Count(tally) ==
  /\ phase = "count" /\ alive
  /\ windows < MaxWindows
  /\ "all" \in tally
  /\ Counted(tally)["all"] < COUNT
  /\ counts' = Counted(tally)
  /\ start' = Started
  /\ UNCHANGED <<warmup, conf, reloads, now, detectors, firing, phase, work, text,
                 reloaded, history, alive>>

-----------------------------------------------------------------------------
(* analyze, up to the texts.  count_init comes when analyze has returned;  *)
(* nothing looks at the counts or the start in between: both are reset     *)
(* here.                                                                   *)

Window == windows + 1

(* Faulty: the comparison is one of signed numbers. *)
WarmingSigned == Window <= warmup

(* windows <= (unsigned long)warmup *)
Warming == warmup < 0 \/ Window <= warmup

Consulted(m) == learnt[m] # {} /\ ~Warming

Accumulated(shift) ==
  LET g == cusum + shift - CUSUM_K
  IN  IF ~Consulted("SYN") THEN cusum ELSE IF g > 0 THEN g ELSE 0

CusumFires(shift) == Consulted("SYN") /\ Accumulated(shift) > CUSUM_H

(* Faulty: the accumulator goes on after the alert. *)
CusumKept(shift) == Accumulated(shift)

CusumAfter(shift) == IF CusumFires(shift) THEN 0 ELSE Accumulated(shift)

Lasted == IF now - Started < 1 THEN 1 ELSE now - Started

OverCap(m, c) ==
  /\ Cap[m] > 0
  /\ IF m = "PPS" THEN c["all"] > Cap[m] * Lasted ELSE c[m] > Cap[m]

Fires(c, over, shift) ==
  over \cup {m \in Metrics : OverCap(m, c)}
       \cup (IF CusumFires(shift) THEN {"SYN"} ELSE {})

(* Things to do to the texts.                                              *)
Put(buf, key)        == [op |-> "put", buf |-> buf, key |-> key]
Say(buf, words)      == [op |-> "say", buf |-> buf, words |-> words]
If(key, then, other) == [op |-> "if", key |-> key, then |-> then, other |-> other]
Send(buf)            == [op |-> "send", buf |-> buf]

PutIf(buf, key)         == If(key, <<Put(buf, key)>>, <<>>)
PutOr(buf, key, words)  == If(key, <<Put(buf, key)>>, <<Say(buf, words)>>)

(* generate_alert: a head for the first metric, then the metric's own.     *)
Heading(m) ==
  <<PutIf("mesg", <<"PIC", m>>), Say("mesg", <<",", "">>),
    Put("mesg", <<"MSG", "HEAD">>), Put("sound", <<"SOUND", "HEAD">>),
    PutIf("sound", <<"SOUND", m>>), Put("voice", <<"VOICE", "HEAD">>)>>

Telling(m) ==
  <<Put("mesg", <<"MSG", m>>),
    PutOr("mesg", <<"MONITOR", "">>, <<"Observed:", "">>),
    Say("mesg", <<"observed", m>>),
    PutOr("mesg", <<"THRESHOLD", "">>, <<"Threshold:", "">>),
    Say("mesg", <<"threshold", m>>),
    Put("voice", <<"VOICE", m>>)>>

(* Faulty: only the first metric that fired is told. *)
AlertOfFirst(ms) == IF ms = <<>> THEN <<>> ELSE Heading(ms[1]) \o Telling(ms[1])

Alert(ms) ==
  IF ms = <<>> THEN <<>>
  ELSE Heading(ms[1]) \o FlattenSeq([i \in DOMAIN ms |-> Telling(ms[i])])

InOrder(ms) ==
  FlattenSeq([i \in DOMAIN Order |-> IF Order[i] \in ms THEN <<Order[i]>> ELSE <<>>])

Close(tally, over, shift) ==
  LET fires == Fires(Counted(tally), over, shift)
  IN  /\ phase = "count" /\ alive
      /\ windows < MaxWindows
      /\ "all" \in tally
      /\ Counted(tally)["all"] >= COUNT
      /\ over \subseteq {m \in Banded : Consulted(m)}
      /\ counts' = [c \in DOMAIN counts |-> 0] /\ start' = 0
      /\ windows' = Window
      /\ cusum' = CusumAfter(shift)
      /\ fired' = [m \in Metrics |-> IF m \in fires THEN fired[m] \cup {Window}
                                     ELSE fired[m]]
      /\ firing' = fires
      /\ phase' = "compose"
      /\ work' = Alert(InOrder(fires))
      /\ reloaded' = FALSE
      /\ UNCHANGED <<warmup, conf, reloads, now, learnt, cooldown, text, history,
                     alive>>

-----------------------------------------------------------------------------
(* The texts, one call of config.c at a time.                              *)

Doing(op) == alive /\ work # <<>> /\ Head(work).op = op

Appended(buf, val) ==
  IF val = Absent THEN text ELSE [text EXCEPT ![buf] = Append(@, val)]

Kept == UNCHANGED <<warmup, now, counts, start, detectors, firing, phase>>

PutText ==
  /\ Doing("put")
  /\ text' = Appended(Head(work).buf, conf[Head(work).key])
  /\ work' = Tail(work)
  /\ Kept /\ UNCHANGED <<conf, reloads, reloaded, history, alive>>

SayText ==
  /\ Doing("say")
  /\ text' = Appended(Head(work).buf, Head(work).words)
  /\ work' = Tail(work)
  /\ Kept /\ UNCHANGED <<conf, reloads, reloaded, history, alive>>

Branch(exists) == (IF exists THEN Head(work).then ELSE Head(work).other) \o Tail(work)

IfExists ==
  /\ Doing("if")
  /\ work' = Branch(conf[Head(work).key] # Absent)
  /\ Kept /\ UNCHANGED <<conf, reloads, text, reloaded, history, alive>>

(* packter_send: what follows the alert is sent with it.                   *)
SendText ==
  /\ Doing("send")
  /\ alarms' = IF Head(work).buf = "mesg"
               THEN Append(alarms, [at |-> now, window |-> windows]) ELSE alarms
  /\ work' = Tail(work)
  /\ Kept /\ UNCHANGED <<conf, reloads, text, reloaded, withheld, alive>>

(* Faulty: a metric that fired is learnt all the same. *)
AdaptAll == learnt' = [m \in Metrics |-> learnt[m] \cup {windows}]

Adapt == learnt' = [m \in Metrics |-> IF m \in firing THEN learnt[m]
                                      ELSE learnt[m] \cup {windows}]

Sending ==
  <<Put("mesg", <<"MSG", "FOOT">>), Send("mesg")>> \o
  IF Sound
  THEN <<Put("sound", <<"SOUND", "FOOT">>), Send("sound"),
         Put("voice", <<"VOICE", "FOOT">>), Send("voice"),
         If(<<"SKYDOME", "">>, <<Put("skydome", <<"SKYDOME", "">>), Send("skydome")>>,
            <<>>)>>
  ELSE <<>>

(* Faulty: an alert withheld starts the quiet time anew. *)
QuietExtended(alert) == IF alert THEN now + INTERVAL ELSE cooldown

QuietUntil(alert) ==
  IF alert /\ now >= cooldown THEN now + INTERVAL ELSE cooldown

(* The baselines adapt, and the alert goes out unless one did lately.      *)
Conclude ==
  /\ alive /\ phase = "compose" /\ work = <<>>
  /\ Adapt
  /\ LET alert == firing # {}
     IN  /\ cooldown' = QuietUntil(alert)
         /\ work' = IF alert /\ now >= cooldown THEN Sending ELSE <<>>
         /\ withheld' = IF alert /\ now < cooldown
                        THEN Append(withheld, [at |-> now, window |-> windows])
                        ELSE withheld
  /\ phase' = "send"
  /\ UNCHANGED <<warmup, conf, reloads, now, counts, start, windows, cusum, fired,
                 firing, text, reloaded, alarms, alive>>

(* analyze returns to thmon_cb. *)
Return ==
  /\ alive /\ phase = "send" /\ work = <<>>
  /\ phase' = "count" /\ firing' = {}
  /\ text' = [b \in Buffers |-> <<>>] /\ reloaded' = FALSE
  /\ UNCHANGED <<warmup, conf, reloads, now, counts, start, detectors, work, history,
                 alive>>

-----------------------------------------------------------------------------
(* SIGHUP.  A file that cannot be read leaves the map empty.               *)

LoadFile ==
  /\ alive
  /\ reloads < MaxReloads
  /\ reloads' = reloads + 1
  /\ conf' \in {Parsed(f) : f \in Files} \cup {Empty}
  /\ reloaded' = (phase # "count")
  /\ Kept /\ UNCHANGED history

Reload == LoadFile /\ UNCHANGED <<work, text, alive>>

(* The handler runs while the map is being read: the entry read, or its    *)
(* value, is free memory, which may still do.                              *)
ReloadInside ==
  /\ conf # Empty
  /\ \/ /\ Doing("put")
        /\ \E val \in {Garbage, Absent, conf[Head(work).key]} :
             text' = Appended(Head(work).buf, val)
        /\ work' = Tail(work) /\ UNCHANGED alive
     \/ /\ Doing("if")
        /\ \E exists \in BOOLEAN : work' = Branch(exists)
        /\ UNCHANGED <<text, alive>>
     \/ /\ Doing("put") \/ Doing("if")
        /\ alive' = FALSE
        /\ UNCHANGED <<work, text>>
  /\ LoadFile

Next ==
  \/ Advance
  \/ \E f \in Frames : \E tally \in TalliesOf(f) :
       \/ Count(tally)
       \/ \E over \in Overs, shift \in Shifts : Close(tally, over, shift)
  \/ PutText \/ SayText \/ IfExists \/ SendText
  \/ Conclude \/ Return
  \/ Reload \/ ReloadInside

Spec == Init /\ [][Next]_vars

-----------------------------------------------------------------------------
(* What the monitor promises.                                              *)

Alarms == [at : Nat, window : Nat]

(* Every variable has its type; no class is counted more often than frames *)
(* are, and a window is as long as it has to be.                           *)
TypeOK ==
  /\ warmup \in Warmups /\ DOMAIN conf = Keys /\ DOMAIN text = Buffers
  /\ reloads \in Nat /\ now \in Nat /\ start \in Nat /\ windows \in Nat
  /\ counts["all"] \in 0..COUNT - 1
  /\ \A c \in Classes : counts[c] \in 0..counts["all"]
  /\ cusum \in 0..CUSUM_H /\ cooldown \in Nat
  /\ learnt \in [Metrics -> SUBSET (1..windows)]
  /\ fired \in [Metrics -> SUBSET (1..windows)]
  /\ firing \subseteq Metrics /\ phase \in {"count", "compose", "send"}
  /\ reloaded \in BOOLEAN /\ alive \in BOOLEAN
  /\ alarms \in Seq(Alarms) /\ withheld \in Seq(Alarms)

(***************************************************************************)
(* Alerts are at least -w seconds apart, and none is withheld but within   *)
(* -w seconds of one that was sent, whatever reloads come in between.      *)
(***************************************************************************)
QuietTime ==
  /\ \A i, j \in 1..Len(alarms) :
       i < j => alarms[j].at >= alarms[i].at + INTERVAL
  /\ \A i \in 1..Len(withheld) :
       \E j \in 1..Len(alarms) : /\ alarms[j].window < withheld[i].window
                                 /\ withheld[i].at < alarms[j].at + INTERVAL

(***************************************************************************)
(* pt_thmon.c:307 "freezing any metric that fired so an ongoing attack is  *)
(* not learned as normal": by the time a window is over, each metric has   *)
(* either fired in it or learnt it, FIN and RST each on their own, and     *)
(* whether or not the alert was withheld.                                  *)
(***************************************************************************)
LearntUnlessFired ==
  \A m \in Metrics :
    /\ learnt[m] \cap fired[m] = {}
    /\ learnt[m] \cup fired[m] = 1..windows \/ phase = "compose"

(***************************************************************************)
(* A metric without a cap fires only after a warm-up that can end, and     *)
(* against a baseline that has learnt an earlier window.                   *)
(***************************************************************************)
AdaptiveNeedsBaseline ==
  \A m \in Metrics : Cap[m] = 0 => \A w \in fired[m] :
    warmup >= 0 /\ w > warmup /\ \E v \in learnt[m] : v < w

(***************************************************************************)
(* An alert has the measured value and the threshold of every metric that  *)
(* fired, in order, wherever SIGHUP came; and if it did not come while the *)
(* alert was being made, all its texts are whole and of one file.          *)
(***************************************************************************)
Quoted(key)          == IF conf[key] = Absent THEN <<>> ELSE <<conf[key]>>
QuotedOr(key, words) == IF conf[key] = Absent THEN <<words>> ELSE <<conf[key]>>

Told(m) ==
  Quoted(<<"MSG", m>>)
  \o QuotedOr(<<"MONITOR", "">>, <<"Observed:", "">>) \o <<<<"observed", m>>>>
  \o QuotedOr(<<"THRESHOLD", "">>, <<"Threshold:", "">>) \o <<<<"threshold", m>>>>

Whole(ms) ==
  [mesg  |-> Quoted(<<"PIC", ms[1]>>) \o <<<<",", "">>>> \o Quoted(<<"MSG", "HEAD">>)
             \o FlattenSeq([i \in DOMAIN ms |-> Told(ms[i])])
             \o Quoted(<<"MSG", "FOOT">>),
   sound |-> Quoted(<<"SOUND", "HEAD">>) \o Quoted(<<"SOUND", ms[1]>>)
             \o Quoted(<<"SOUND", "FOOT">>),
   voice |-> Quoted(<<"VOICE", "HEAD">>)
             \o FlattenSeq([i \in DOMAIN ms |-> Quoted(<<"VOICE", ms[i]>>)])
             \o Quoted(<<"VOICE", "FOOT">>),
   skydome |-> Quoted(<<"SKYDOME", "">>)]

Measured(ms) ==
  FlattenSeq([i \in DOMAIN ms |-> <<<<"observed", ms[i]>>, <<"threshold", ms[i]>>>>])

Numbers(texts) ==
  FlattenSeq([i \in DOMAIN texts |-> IF IsNumber(texts[i]) THEN <<texts[i]>> ELSE <<>>])

AlertTellsWhatFired ==
  \A b \in Buffers : work # <<>> /\ Head(work) = Send(b) =>
    LET ms == InOrder(firing)
    IN  /\ ms # <<>>
        /\ ~reloaded => text[b] = Whole(ms)[b]
        /\ b = "mesg" => Numbers(text[b]) = Measured(ms)
=============================================================================
