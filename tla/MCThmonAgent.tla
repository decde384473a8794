---------------------------- MODULE MCThmonAgent ----------------------------
(* Frames and configuration files for the model checker. *)
EXTENDS ThmonAgent

Frame(ether, proto, flags) ==
  [ether |-> ether, vlan |-> FALSE, caplen |-> 60, ihl |-> 20, proto |-> proto,
   flags |-> flags]

MCFrames ==
  {Frame("ip4", "tcp", f) : f \in {{}, {"SYN"}, {"SYN", "FIN"}, {"RST"}}} \cup
  {[Frame("ip4", "icmp", {}) EXCEPT !.ihl = 28],
   [Frame("ip4", "udp", {}) EXCEPT !.vlan = TRUE],
   [Frame("ip4", "tcp", {}) EXCEPT !.vlan = TRUE, !.caplen = 16],
   [Frame("ip4", "tcp", {"SYN"}) EXCEPT !.caplen = 50],
   [Frame("ip4", "tcp", {"SYN"}) EXCEPT !.caplen = 30],
   [Frame("ip4", "tcp", {"SYN"}) EXCEPT !.caplen = 10],
   Frame("ip6", "tcp", {"SYN"}), Frame("other", "other", {})}

Entry(key, val) == [kind |-> "entry", key |-> key, val |-> val]
Other(kind)     == [kind |-> kind, key |-> <<>>, val |-> Absent]

FileA == <<Other("comment"), Entry(<<"MSG", "HEAD">>, Absent),
           Entry(<<"MSG", "HEAD">>, <<"A", "head">>),
           Entry(<<"MSG", "HEAD">>, <<"A", "again">>),
           Entry(<<"MSG", "FOOT">>, <<"A", "foot">>),
           Entry(<<"MONITOR", "">>, <<"A", "monitor">>),
           Entry(<<"PIC", "SYN">>, <<"A", "pic">>),
           Entry(<<"MSG", "UDP">>, <<"A", "udp">>),
           Entry(<<"SOUND", "UDP">>, <<"A", "udp.wav">>),
           Entry(<<"VOICE", "UDP">>, <<"A", "udp voice">>),
           Entry(<<"SKYDOME", "">>, <<"A", "sky">>)>>
FileB == <<Entry(<<"MSG", "FOOT">>, <<"B", "foot">>), Other("no separator"),
           Entry(<<"VOICE", "HEAD">>, <<"B", "voice">>),
           Entry(<<"THRESHOLD", "">>, <<"B", "threshold">>)>>
MCFiles == {FileB}
MCAtStart == {FileA}

MCCap   == [m \in Metrics |-> IF m \in {"UDP", "PPS"} THEN 1 ELSE 0]
MCOvers == {{}, {"RST"}}
MCWarmups == {-1, 1}
=============================================================================
