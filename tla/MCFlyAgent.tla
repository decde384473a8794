----------------------------- MODULE MCFlyAgent -----------------------------
(* Command lines, frames and exporters for the model checker. *)
EXTENDS FlyAgent

Line(source, reads, opts) ==
  [source |-> source, reads |-> reads, trace |-> "T" \in opts,
   report |-> "S" \in opts, geoip |-> "G" \in opts, sound |-> "s" \in opts]

F(ie, len) == [ie |-> ie, len |-> len, ent |-> FALSE]
Flow(name, v6, proto, flags) ==
  [name |-> name, v6 |-> v6, proto |-> proto, flags |-> flags, located |-> name # "f2"]

Four  == <<F("v4src", 4), F("v4dst", 4), F("sport", 2), F("dport", 2),
           F("proto", 1), F("flags", 1), F("other", 3)>>
Swap  == <<F("other", 2), F("proto", 1), F("v4dst", 4), F("v4src", 4),
           F("dport", 2), F("sport", 2)>>
Six   == <<F("v6src", 16), F("v6dst", 16), F("proto", 1), F("icmp", 2)>>
Ent   == <<[ie |-> "v4src", len |-> 5, ent |-> TRUE]>> \o Four
Mixed == <<F("v6src", 16), F("v6dst", 16), F("v4src", 4), F("v4dst", 4),
           F("proto", 1), F("icmp", 2), F("other", 9)>>
Wide  == <<F("proto", 1), F("v4src", 4), F("v4dst", 4), F("sport", 2),
           F("dport", 2), F("flags", 2)>>
Open  == <<F("v4src", 4), F("v4dst", 4), F("proto", 1), F("other", VARLEN)>>

tcp == Flow("f1", FALSE, "tcp", "syn")
udp == Flow("f2", FALSE, "udp", "none")
six == Flow("f3", TRUE, "icmp6", "none")
png == Flow("f4", FALSE, "icmp", "none")

T(tid, layout) == [tid |-> tid, layout |-> layout]
Templates(ts)  == [kind |-> "template", templates |-> ts]
Data(tid, layout, flows) ==
  [kind |-> "data", tid |-> tid, layout |-> layout, flows |-> flows, pad |-> 2]
Opts == [kind |-> "options", len |-> 10]
Msg(kind, id, sets) == [kind |-> kind, id |-> id, sets |-> sets]

(* Exporters 1, 3 and 4 are on their own; two share id 2; 4's layouts are  *)
(* odd; 1 puts two templates in one set.                                   *)
Messages(kind) ==
  {Msg(kind, 1, <<Opts, Templates(<<T(256, Four), T(257, Swap)>>)>>),
   Msg(kind, 1, <<Data(256, Four, <<tcp, udp>>), Data(257, Swap, <<png, udp>>)>>),
   Msg(kind, 2, <<Templates(<<T(256, Four)>>), Data(256, Four, <<udp, tcp>>)>>),
   Msg(kind, 2, <<Templates(<<T(256, Swap)>>), Data(256, Swap, <<tcp>>)>>),
   Msg(kind, 3, <<Templates(<<T(256, Six)>>)>>),
   Msg(kind, 3, <<Data(256, Six, <<six, six>>)>>)}

OddMessages(kind) ==
  {Msg(kind, 4, <<Templates(<<T(256, Mixed)>>), Data(256, Mixed, <<png, six>>)>>),
   Msg(kind, 4, <<Templates(<<T(257, Wide)>>), Data(257, Wide, <<tcp, udp>>)>>),
   Msg("ipfix", 4, <<Templates(<<T(258, Ent)>>), Data(258, Ent, <<tcp, udp>>)>>),
   Msg("ipfix", 4, <<Templates(<<T(259, Open)>>)>>)}

MCKeys == {<<1, 256>>, <<1, 257>>, <<2, 256>>, <<3, 256>>,
           <<4, 256>>, <<4, 257>>, <<4, 258>>, <<4, 259>>}

Frame(name, type, proto) ==
  [name |-> name, vlan |-> FALSE, type |-> type, ihl |-> 20, exts |-> <<>>,
   proto |-> proto, flags |-> "syn", payload |-> NoExport, located |-> TRUE,
   caplen |-> 60]

(* Frames of every shape, captured to every length that may matter. *)
Shapes ==
  {[Frame("a", "ip4", p) EXCEPT !.vlan = v, !.ihl = h] :
     p \in {"tcp", "udp", "icmp", "other"}, v \in BOOLEAN, h \in {16, 20, 28}} \cup
  {[Frame("b", "ip6", p) EXCEPT !.exts = e] :
     p \in {"tcp", "udp", "icmp6", "icmp"}, e \in {<<>>, <<8>>, <<16, 8>>}} \cup
  {Frame("c", "arp", "other")}
Frames == {[s EXCEPT !.caplen = n] : s \in Shapes, n \in 0..110}
LongFrames == {[Frame("d", "ip4", "tcp") EXCEPT !.caplen = n, !.located = l] :
                 n \in {44, 54, 1038, 1039}, l \in BOOLEAN} \cup
              {[Frame("e", "ip6", p) EXCEPT !.caplen = n] :
                 p \in {"icmp6", "udp"}, n \in {56, 61, 62, 1514}}

(* A datagram in a frame of which so many bytes are missing. *)
Carrying(msg, missing) ==
  [Frame("g", "ip4", "udp") EXCEPT !.payload = msg,
     !.caplen = 14 + 20 + 8 + (IF msg = NoExport THEN 0 ELSE MsgLen(msg)) - missing]

Sample(f, exts) == [frame |-> f, exts |-> exts]
Samples(ss)     == [kind |-> "sflow", id |-> 0, samples |-> ss]
Inner  == [Carrying(Samples(<<Sample(Frame("h", "ip4", "tcp"), <<>>)>>), 0)
             EXCEPT !.name = "i"]
Sampled ==
  {Samples(<<Sample(Inner, <<"switch">>), Sample(Frame("h", "ip6", "tcp"), <<>>)>>),
   Samples(<<Sample(Frame("h", "ip4", "icmp"), <<"router", "unknown">>),
             Sample(Inner, <<>>)>>)}

Plain1(msgs) == {Carrying(m, 0) : m \in msgs}
Cut(msgs)    == {Carrying(m, n) : m \in msgs, n \in {0, 1, 40, 75}}
Others       == {Carrying(NoExport, 0), [Carrying(NoExport, 0) EXCEPT !.caplen = 60],
                 Frame("j", "ip4", "tcp")}

MCFeed ==
  [s \in {Line("ether", "none", {"s"}), Line("loopback", "none", {}),
          Line("ether", "none", {"T", "G", "s"}),
          Line("snort", "none", {"S"}), Line("snort", "sflow", {"S"}),
          Line("snort", "netflow", {}),
          Line("ether", "sflow", {"T"}), Line("socket", "sflow", {}),
          Line("socket", "netflow", {"s"}), Line("socket", "ipfix", {"G"}),
          Line("ether", "netflow", {}), Line("ether", "ipfix", {"s"})} |->
    CASE s.source = "socket" /\ s.reads = "sflow" -> Sampled
      [] s.source = "socket" /\ s.reads = "ipfix" ->
           Messages("ipfix") \cup OddMessages("ipfix")
      [] s.source = "socket" /\ s.reads = "netflow" ->
           Messages("netflow") \cup OddMessages("netflow")
      [] s.source = "snort" /\ s.reads = "none"    -> LongFrames
      [] s.source = "snort" /\ s.reads = "netflow" -> Plain1(Messages("netflow"))
      [] s.source # "socket" /\ s.reads = "sflow" -> Cut(Sampled) \cup Others
      [] s.source = "ether" /\ s.reads = "netflow" -> Cut(Messages("netflow")) \cup Others
      [] s.source # "socket" /\ s.reads = "ipfix" ->
           Plain1(Messages("ipfix") \cup Messages("netflow")) \cup Others
      [] s.source # "snort" /\ s.reads = "none" /\ s.trace -> LongFrames
      [] OTHER                 -> Frames]
MCSetups == DOMAIN MCFeed
=============================================================================
