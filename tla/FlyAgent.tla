------------------------------ MODULE FlyAgent ------------------------------
(***************************************************************************)
(* The tools that turn traffic into records: pt_agent on a capture, on a   *)
(* loopback capture or behind Snort, with or without -t, and the           *)
(* collectors pt_sflow, pt_netflow and pt_ipfix.  All of them are one      *)
(* thread that hands a frame to the packet chain (agent/lib/proto.c) or a  *)
(* datagram to a reader (sflow.c, netflow.c, ipfix.c), and the two call    *)
(* each other: -t gives the payload of a captured frame to a reader, and   *)
(* the sFlow reader gives each sampled frame to the chain.  The calls in   *)
(* progress are a stack; one step is one frame, one sample or one set.     *)
(*                                                                         *)
(* A frame is its headers, how many of its bytes there are, and what a UDP *)
(* payload holds.  Addresses, ports and descriptions are the frame's or    *)
(* flow's name.                                                            *)
(***************************************************************************)
EXTENDS FlowExport

CONSTANTS
  Setups,    \* command lines: source, reads, trace, report, geoip, sound
  Feed,      \* per command line, the frames or datagrams that may come in
  Keys,      \* pairs of source id (or domain) and template id
  Missing,   \* no template under a key
  NoExport   \* a payload that is no flow export

\* reads is the protocol of the collector, or -t: "none" without.
Protocols == {"none", "sflow", "netflow", "ipfix"}
Sources   == {"ether", "loopback", "snort", "socket"}

(* struct nf_template, and what is kept of a template an exporter sent. *)
Offset    == [at : [Slots -> Int], isv6 : BOOLEAN, len : Nat]
Announced == [layout : Seq(Fields(TRUE)), front : BOOLEAN]

ASSUME FlyAssumption ==
  /\ Missing \notin Offset \cup Announced
  /\ Setups \subseteq [source : Sources, reads : Protocols, trace : BOOLEAN,
                       report : BOOLEAN, geoip : BOOLEAN, sound : BOOLEAN]
  /\ \A s \in Setups : s.source = "socket" => s.reads # "none"
  /\ DOMAIN Feed = Setups

(* What a frame carries or a datagram is. *)
Carried(s, x) == IF s.source = "socket" THEN x ELSE x.payload
Exports(s) == {m \in {Carried(s, x) : x \in Feed[s]} :
                 m # NoExport /\ m.kind = s.reads}

(* A frame as captured; an IPv6 extension header has eight bytes or more. *)
IsCaptured(f) ==
  /\ f.caplen \in Nat /\ f.ihl \in Nat /\ f.vlan \in BOOLEAN
  /\ f.exts \in Seq(Nat) /\ \A j \in DOMAIN f.exts : f.exts[j] >= 8

ASSUME FrameAssumption ==
  \A s \in Setups : s.source # "socket" => \A x \in Feed[s] : IsCaptured(x)

ASSUME FeedAssumption ==
  \A s \in Setups : \A m \in Exports(s) :
    IF m.kind = "sflow"
    THEN IsSeq(m.samples) /\ \A x \in ToSet(m.samples) : IsCaptured(x.frame)
    ELSE /\ IsSeq(m.sets)
         /\ \A set \in ToSet(m.sets) :
              \/ IsTemplateSet(set, m.kind = "ipfix")
              \/ set.kind = "options"
              \/ IsDataSet(set, m.kind = "ipfix") /\ <<m.id, set.tid>> \in Keys

VARIABLES
  setup,    \* packter_ctx as the command line leaves it
  hasCache, \* translate_templates points to a cache
  cache,    \* the templates, by key
  sent,     \* history: the last template read under each key of an exporter
  suspend,  \* translate_suspend
  stack,    \* the frames and datagrams being worked on, innermost first
  out,      \* history: what the last input has been turned into so far
  alive     \* the tool runs

vars == <<setup, hasCache, cache, sent, suspend, stack, out, alive>>

Translates == setup.reads # "none" /\ setup.source # "socket"

(* Faulty: only the collectors have a cache. *)
CacheInCollector(s) == s.source = "socket"

(* Collectors have a cache of their own, packter_pcap makes one for -t,    *)
(* packter_snort does not.                                                 *)
MakesCache(s) == s.reads # "none" /\ s.source # "snort"

Init ==
  /\ setup \in Setups
  /\ hasCache = MakesCache(setup)
  /\ cache = [k \in Keys |-> Missing] /\ sent = [k \in Keys |-> Missing]
  /\ suspend = 0
  /\ stack = <<>> /\ out = <<>> /\ alive = TRUE

-----------------------------------------------------------------------------
(* proto.c: how long the parts of a frame are that its headers announce.   *)
(* Each of these gives the bytes behind a header, or -1.                   *)

CUT == -1

(* Faulty: the tag of a VLAN is taken for the start of the packet. *)
BehindEtherUntagged(f) ==
  LET len == f.caplen - 14 IN IF len < 0 THEN CUT ELSE len

(* packter_ether_frame, one 802.1Q tag *)
BehindEther(f) ==
  LET len == f.caplen - 14 - (IF f.vlan THEN 4 ELSE 0)
  IN  IF len < 0 THEN CUT ELSE len

(* packter_lback_frame *)
BehindNull(f) == IF f.caplen < 4 THEN CUT ELSE f.caplen - 4

(* packter_ip4, for what a header says that is not of version 4 also *)
BehindIp4(f, len) ==
  IF len < 20 \/ f.type # "ip4" \/ f.ihl < 20 \/ f.ihl > len THEN CUT
  ELSE len - f.ihl

(* Faulty: extension headers are not walked. *)
BehindIp6Flat(f, len) == IF len < 40 THEN CUT ELSE len - 40

(* packter_ip6, ip6_upper_layer: f.exts are the extension headers' lengths *)
BehindIp6(f, len) ==
  LET off(j) == 40 + Sums(f.exts)[j]
      short(j) == off(j - 1) + 8 > len \/ off(j) >= len
  IN  IF len < 40 \/ \E j \in DOMAIN f.exts : short(j) THEN CUT
      ELSE len - off(Len(f.exts))

(* The chain down to the transport header: the length of the IP packet and *)
(* of what is behind its headers.  A loopback frame is never IPv6.         *)
Chain(f, link) ==
  LET ip == IF link = "loopback" THEN BehindNull(f) ELSE BehindEther(f)
  IN  [ip |-> ip,
       l4 |-> IF link = "loopback" \/ f.type = "ip4" THEN BehindIp4(f, ip)
              ELSE IF f.type = "ip6" THEN BehindIp6(f, ip) ELSE CUT]

HeaderLen == [tcp |-> 20, udp |-> 8, icmp |-> 2, icmp6 |-> 2]

Handled(f, l4) ==
  /\ f.proto \in DOMAIN HeaderLen
  /\ f.proto = "icmp" => f.type = "ip4"
  /\ f.proto = "icmp6" => f.type = "ip6"
  /\ l4 >= HeaderLen[f.proto]

(* hash.c: the header and eight bytes, of a packet the work buffer holds.  *)
WORK == 1024
Hashed(f, ip) ==
  /\ ip <= WORK
  /\ ip >= 8 + IF f.type = "ip4" THEN f.ihl ELSE 40

-----------------------------------------------------------------------------
(* mesg.c and emit_record                                                  *)

Text(f, mesgbuf, ip) ==
  IF setup.trace THEN IF Hashed(f, ip) THEN "hash" ELSE ""
  ELSE IF setup.report THEN mesgbuf ELSE "packet"

FrameFlag(f) ==
  CASE f.proto = "tcp" -> TcpFlag(f.flags)
    [] f.proto = "udp" -> "UDP"
    [] OTHER           -> "ICMP"

(* packter_mesg gives no record with -G when an address has no location;   *)
(* the sound is sent all the same.                                         *)
Emit(record, flag, located) ==
  (IF setup.geoip /\ ~located THEN <<>> ELSE <<record>>) \o
  (IF setup.sound THEN <<[via |-> "sound", flag |-> flag]>> ELSE <<>>)

FrameRecord(task, ip) ==
  [via |-> task.via, name |-> task.frame.name, v6 |-> task.frame.type = "ip6",
   flag |-> FrameFlag(task.frame), text |-> Text(task.frame, task.text, ip)]

-----------------------------------------------------------------------------
Top == stack[1]
Pop == Tail(stack)
InFrame  == alive /\ stack # <<>> /\ Top.task = "frame"
InReader == alive /\ stack # <<>> /\ Top.task = "reader"

FrameTask(f, text, via) ==
  [task |-> "frame", frame |-> f, text |-> text, via |-> via]
Reader(msg, len) ==
  [task |-> "reader", msg |-> msg, len |-> len, next |-> 1, off |-> 0]

HEADER == [sflow |-> 24, netflow |-> 20, ipfix |-> 16]
SampleLen(s) ==
  48 + s.frame.caplen + ((4 - (s.frame.caplen % 4)) % 4) + 4 + 20 * Len(s.exts)
MsgLen(msg) ==
  HEADER[msg.kind] +
    IF msg.kind = "sflow"
    THEN Total([j \in DOMAIN msg.samples |-> SampleLen(msg.samples[j])])
    ELSE Total([j \in DOMAIN msg.sets |-> SetLen(msg.sets[j])])

(* The next frame of the capture, alert or datagram on the socket. *)
Arrive(x) ==
  /\ alive /\ stack = <<>>
  /\ out' = <<>>
  /\ stack' = IF setup.source = "socket" THEN <<Reader(x, MsgLen(x))>>
              ELSE <<FrameTask(x, IF setup.source = "snort" /\ setup.report
                                  THEN "incident" ELSE "", "captured")>>
  /\ UNCHANGED <<setup, hasCache, cache, sent, suspend, alive>>

(* Faulty: every UDP payload is decoded, wherever the frame came from. *)
DecodesAll(f) == Translates /\ f.proto = "udp"

Decodes(f) == Translates /\ f.proto = "udp" /\ suspend = 0

Link(task) == IF task.via = "captured" THEN setup.source ELSE "ether"

IgnoreFrame ==
  /\ InFrame
  /\ LET c == Chain(Top.frame, Link(Top))
     IN  \/ ~Handled(Top.frame, c.l4)
         \/ Decodes(Top.frame) /\ c.l4 = HeaderLen["udp"]
  /\ stack' = Pop
  /\ UNCHANGED <<setup, hasCache, cache, sent, suspend, out, alive>>

ShowFrame ==
  /\ InFrame
  /\ LET c == Chain(Top.frame, Link(Top))
     IN  /\ Handled(Top.frame, c.l4)
         /\ ~Decodes(Top.frame)
         /\ out' = out \o Emit(FrameRecord(Top, c.ip), FrameFlag(Top.frame),
                               Top.frame.located)
  /\ stack' = Pop
  /\ UNCHANGED <<setup, hasCache, cache, sent, suspend, alive>>

(* packter_flow_decode under the guard. *)
TranslateFrame ==
  /\ InFrame
  /\ Decodes(Top.frame)
  /\ LET c == Chain(Top.frame, Link(Top))
     IN  /\ c.l4 > HeaderLen["udp"]
         /\ stack' = <<Reader(Top.frame.payload, c.l4 - HeaderLen["udp"])>> \o Pop
  /\ suspend' = 1
  /\ UNCHANGED <<setup, hasCache, cache, sent, out, alive>>

-----------------------------------------------------------------------------
(* The readers.  len is what was received, or captured, of the datagram.   *)

(* Long enough and of the version the reader is for. *)
Understood(t) ==
  /\ t.msg # NoExport
  /\ t.msg.kind = setup.reads
  /\ t.len >= HEADER[t.msg.kind]

(* IPFIX takes no more than the message says it is long. *)
Available(t) ==
  IF t.msg.kind = "ipfix" /\ MsgLen(t.msg) < t.len THEN MsgLen(t.msg) ELSE t.len

At(t) == HEADER[t.msg.kind] + t.off
Advanced(t, by) == [t EXCEPT !.next = @ + 1, !.off = @ + by]

(* sflow.c: the frame is there, whatever becomes of what follows it. *)
HasSample(t) ==
  /\ Understood(t) /\ t.msg.kind = "sflow"
  /\ t.next <= Len(t.msg.samples)
  /\ At(t) + 48 + t.msg.samples[t.next].frame.caplen <= t.len

(* Extension headers are skipped up to one that is not known; a sample     *)
(* without its number of extensions is the last.                           *)
GoesOn(t) ==
  LET s == t.msg.samples[t.next]
  IN  /\ At(t) + SampleLen(s) - 20 * Len(s.exts) <= t.len
      /\ \A j \in DOMAIN s.exts :
           At(t) + SampleLen(s) - 20 * (Len(s.exts) - j + 1) + 4 <= t.len
             => s.exts[j] # "unknown"

ReadSample ==
  /\ InReader
  /\ HasSample(Top)
  /\ LET s == Top.msg.samples[Top.next]
         t == IF GoesOn(Top) THEN Advanced(Top, SampleLen(s))
              ELSE [Top EXCEPT !.next = Len(Top.msg.samples) + 1]
     IN  stack' = <<FrameTask(s.frame, "", "sampled"), t>> \o Pop
  /\ UNCHANGED <<setup, hasCache, cache, sent, suspend, out, alive>>

(* netflow.c, ipfix.c: the next set, if all of it is there. *)
HasSet(t) ==
  /\ Understood(t) /\ t.msg.kind # "sflow"
  /\ t.next <= Len(t.msg.sets)
  /\ At(t) + SetLen(t.msg.sets[t.next]) <= Available(t)

InSet(kind) == InReader /\ HasSet(Top) /\ Top.msg.sets[Top.next].kind = kind
ThisSet     == Top.msg.sets[Top.next]
NextSet     == <<Advanced(Top, SetLen(ThisSet))>> \o Pop

(* Faulty: the exporter is not part of the key. *)
KeyOfTemplate(id, tid) == CHOOSE k \in Keys : k[2] = tid

Key(id, tid) == <<id, tid>>

(* The first template of the set, whatever it holds besides. *)
ReadTemplate ==
  /\ InSet("template") /\ hasCache
  /\ LET t == ThisSet.templates[1]
     IN  cache' = [cache EXCEPT ![Key(Top.msg.id, t.tid)] =
                     Offsets(t.layout, Top.msg.kind = "ipfix")]
  /\ sent' = [k \in Keys |->
                IF \E t \in ToSet(ThisSet.templates) : k = <<Top.msg.id, t.tid>>
                THEN LET j == CHOOSE j \in DOMAIN ThisSet.templates :
                                ThisSet.templates[j].tid = k[2]
                     IN  [layout |-> ThisSet.templates[j].layout, front |-> j = 1]
                ELSE sent[k]]
  /\ stack' = NextSet
  /\ UNCHANGED <<setup, hasCache, suspend, out, alive>>

SkipOptions ==
  /\ InSet("options")
  /\ stack' = NextSet
  /\ UNCHANGED <<setup, hasCache, cache, sent, suspend, out, alive>>

(* guess and found: the protocol and the location of what is Garbage. *)
Placed(addr, set, found) ==
  IF addr = Garbage THEN found
  ELSE \E f \in ToSet(set.flows) : f.name = addr[1] /\ f.located

Shown(np, id, set, guess, found) ==
  LET recs == Records(np, set, guess)
      emit(r) == Emit([via |-> "flow", id |-> id, set |-> set, rec |-> r], r.flag,
                      Placed(r.src, set, found) /\ Placed(r.dst, set, found))
  IN  FlattenSeq([i \in DOMAIN recs |-> emit(recs[i])])

ReadData ==
  /\ InSet("data") /\ hasCache
  /\ LET np == cache[Key(Top.msg.id, ThisSet.tid)]
     IN  \/ /\ np = Missing
            /\ UNCHANGED out
         \/ /\ np # Missing
            /\ \E guess \in DOMAIN HeaderLen \cup {"other"}, found \in BOOLEAN :
                 out' = out \o Shown(np, Top.msg.id, ThisSet, guess, found)
  /\ stack' = NextSet
  /\ UNCHANGED <<setup, hasCache, cache, sent, suspend, alive>>

(* A set that needs the cache when there is none: pt_map_get follows a     *)
(* null pointer.                                                           *)
NoCache ==
  /\ InSet("template") \/ InSet("data")
  /\ ~hasCache
  /\ alive' = FALSE
  /\ UNCHANGED <<setup, hasCache, cache, sent, suspend, stack, out>>

(* Faulty: the guard stays up when the reader returns. *)
LowerNever == UNCHANGED suspend

Lower == suspend' = IF Translates THEN 0 ELSE suspend

ReaderReturns ==
  /\ InReader
  /\ ~HasSample(Top) /\ ~HasSet(Top)
  /\ Lower
  /\ stack' = Pop
  /\ UNCHANGED <<setup, hasCache, cache, sent, out, alive>>

Step ==
  \/ IgnoreFrame \/ ShowFrame \/ TranslateFrame
  \/ ReadSample \/ ReadTemplate \/ SkipOptions \/ ReadData \/ NoCache
  \/ ReaderReturns

Next == Step \/ \E x \in Feed[setup] : Arrive(x)

Spec == Init /\ [][Next]_vars

-----------------------------------------------------------------------------
(* What the tools promise.                                                 *)

IsReader(t) == t.task = "reader"

(* Every variable has its type, and calls nest at most two deep. *)
TypeOK ==
  /\ setup \in Setups
  /\ hasCache \in BOOLEAN /\ alive \in BOOLEAN
  /\ cache \in [Keys -> Offset \cup {Missing}] /\ DOMAIN sent = Keys
  /\ suspend \in {0, 1}
  /\ Len(stack) <= 2
  /\ \A i \in DOMAIN stack : stack[i].task \in {"frame", "reader"}

(***************************************************************************)
(* proto.c:95 "A sampled UDP frame must become a normal UDP ball, NOT be   *)
(* re-interpreted as yet another flow datagram": at most one datagram is   *)
(* being read, the guard is up exactly while one from a capture is, and so *)
(* a captured UDP datagram never becomes a ball under -t.                  *)
(***************************************************************************)
TranslatedOnce ==
  /\ \A i, j \in DOMAIN stack : IsReader(stack[i]) /\ IsReader(stack[j]) => i = j
  /\ (suspend = 1) <=> Translates /\ \E i \in DOMAIN stack : IsReader(stack[i])
  /\ Translates => \A i \in DOMAIN out :
       out[i].via = "captured" => out[i].flag # "UDP"

(***************************************************************************)
(* The length checks along the chain let a frame through exactly if all    *)
(* its headers, down to that of the transport, are there: one record for   *)
(* it, or none.                                                            *)
(***************************************************************************)
HeadersLen(f, link) ==
  (IF link = "loopback" THEN 4 ELSE IF f.vlan THEN 18 ELSE 14) +
  (IF f.type = "ip4" THEN f.ihl ELSE 40 + Total(f.exts))

Complete(f, link) ==
  /\ f.type \in (IF link = "loopback" THEN {"ip4"} ELSE {"ip4", "ip6"})
  /\ f.type = "ip4" => f.ihl >= 20
  /\ f.proto \in {"tcp", "udp", IF f.type = "ip4" THEN "icmp" ELSE "icmp6"}
  /\ f.caplen >= HeadersLen(f, link) + HeaderLen[f.proto]

ShownIffComplete ==
  [][InFrame /\ stack' # stack =>
       LET new == {i \in Len(out) + 1..Len(out') : out'[i].via = Top.via}
           due == /\ Complete(Top.frame, Link(Top))
                  /\ Top.frame.proto = "udp" /\ Translates => Top.via = "sampled"
                  /\ setup.geoip => Top.frame.located
       IN  Cardinality(new) = IF due THEN 1 ELSE 0]_vars

(***************************************************************************)
(* Once an exporter's template has been read as the first of its set, and  *)
(* until it sends another under that id, whatever other exporters send in  *)
(* between: a data set gives one record for each flow that the template    *)
(* tells enough about, in order, and each says what that flow was.         *)
(***************************************************************************)
OwnTemplate(fronts) ==
  /\ InSet("data") /\ Plain(ThisSet.layout)
  /\ sent[<<Top.msg.id, ThisSet.tid>>] \in
       {[layout |-> ThisSet.layout, front |-> b] : b \in fronts}

ShowsTheFlows ==
  LET told(f) == Told(f, ThisSet.layout) /\ (setup.geoip => f.located)
      new(i)  == out'[Len(out) + i]
  IN  FlattenSeq([i \in 1..Len(out') - Len(out) |->
                    IF new(i).via = "flow" THEN <<new(i).rec>> ELSE <<>>]) =
      FlattenSeq([k \in DOMAIN ThisSet.flows |->
                    IF told(ThisSet.flows[k])
                    THEN <<Truth(ThisSet.flows[k], ThisSet.layout)>> ELSE <<>>])

FlowsAsMeasured ==
  [][OwnTemplate({TRUE}) /\ stack' # stack => ShowsTheFlows]_vars

(***************************************************************************)
(* A record that is not what any flow of its data set was comes from a key *)
(* that two layouts share, because an exporter changed its template or     *)
(* another one has the same id, or from a layout with both address         *)
(* families or with lengths the decoder does not look at.  No other        *)
(* exporter, and no order of arrival, can bring it about.                  *)
(***************************************************************************)
SetLayouts(set, tid) ==
  CASE set.kind = "template" ->
         {t.layout : t \in {u \in ToSet(set.templates) : u.tid = tid}}
    [] set.kind = "data" -> IF set.tid = tid THEN {set.layout} ELSE {}
    [] OTHER -> {}

Layouts(s, id, tid) ==
  UNION {UNION {SetLayouts(set, tid) : set \in ToSet(m.sets)} :
         m \in {e \in Exports(s) : e.id = id}}

MisreadOnlyIfShared ==
  \A i \in DOMAIN out : out[i].via = "flow" =>
    LET set == out[i].set
    IN  \/ out[i].rec \in {Truth(f, set.layout) : f \in ToSet(set.flows)}
        \/ ~Plain(set.layout)
        \/ Layouts(setup, out[i].id, set.tid) # {set.layout}

(***************************************************************************)
(* A set needs the template cache and there is none: only behind Snort,    *)
(* with -t netflow or -t ipfix.                                            *)
(***************************************************************************)
DiesOnlyBehindSnort ==
  ~alive => setup.source = "snort" /\ setup.reads \in {"netflow", "ipfix"}

(***************************************************************************)
(* INSTALL.en.md:148 "if data arrives before its template, the exporter's  *)
(* periodic resend recovers it naturally", for every template that an      *)
(* exporter sends: FlowsAsMeasured without the condition that the template *)
(* was the first of its set.                                               *)
(***************************************************************************)
ResendAlwaysRecovers ==
  [][OwnTemplate({TRUE, FALSE}) /\ stack' # stack => ShowsTheFlows]_vars
=============================================================================
