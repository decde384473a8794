----------------------------- MODULE FlowExport -----------------------------
(***************************************************************************)
(* Templates and data of NetFlow v9 and IPFIX (agent/lib/nf_common.c): how *)
(* a template becomes offsets into a record, and what is then read from a  *)
(* data set at those offsets.                                              *)
(*                                                                         *)
(* Bytes are kept by the position and the length of the fields they belong *)
(* to.  A field is an information element, its length and whether it is    *)
(* enterprise specific; the fields a template lists are a layout.  A data  *)
(* set is the flows an exporter measured, written one after the other in   *)
(* its layout, with padding behind.  What is read with the bounds of a     *)
(* field is that field of that flow; any other bytes are Garbage.          *)
(***************************************************************************)
EXTENDS Integers, Sequences, SequencesExt, Sums

CONSTANT Garbage  \* bytes that are no field, or not the field they are read as

IpProtocols == {"tcp", "udp", "icmp", "icmp6", "other"}
Flags       == {"SYN", "FIN", "ACK", "UDP", "ICMP"}

ASSUME GarbageAssumption == Garbage \notin IpProtocols \cup Flags

VARLEN == 65535
ABSENT == -1
SET_HDR == 4      \* sizeof(struct nf_set), as much as sizeof(struct nf_field)

(* The slot of struct nf_template an information element goes to. *)
Slot == [v4src |-> "src", v4dst |-> "dst", v6src |-> "src", v6dst |-> "dst",
         sport |-> "sport", dport |-> "dport", icmp |-> "icmp",
         proto |-> "proto", flags |-> "flags"]
Slots == {"src", "dst", "sport", "dport", "icmp", "proto", "flags"}

Fixed(len)    == IF len = VARLEN THEN 0 ELSE len

(* Where each field of a record ends; the first begins where none ends. *)
Ends(layout) == Sums([j \in DOMAIN layout |-> Fixed(layout[j].len)])

Width(layout) == Ends(layout)[Len(layout)]

-----------------------------------------------------------------------------
(* nf_template_set                                                         *)

NoOffsets == [at |-> [s \in Slots |-> ABSENT], isv6 |-> FALSE, variable |-> FALSE,
              len |-> 0]

(* Faulty: an enterprise field takes no room in the record. *)
AddFieldNarrow(t, f, ipfix) ==
  LET mapped == ~(ipfix /\ f.ent) /\ f.ie \in DOMAIN Slot
  IN  [at |-> IF mapped THEN [t.at EXCEPT ![Slot[f.ie]] = t.len] ELSE t.at,
       isv6 |-> t.isv6 \/ (mapped /\ f.ie \in {"v6src", "v6dst"}),
       variable |-> t.variable \/ f.len = VARLEN,
       len |-> IF ipfix /\ f.ent THEN t.len ELSE t.len + Fixed(f.len)]

(* One field specifier: its offset is the length of those before it. *)
AddField(t, f, ipfix) ==
  LET mapped == ~(ipfix /\ f.ent) /\ f.ie \in DOMAIN Slot
  IN  [at |-> IF mapped THEN [t.at EXCEPT ![Slot[f.ie]] = t.len] ELSE t.at,
       isv6 |-> t.isv6 \/ (mapped /\ f.ie \in {"v6src", "v6dst"}),
       variable |-> t.variable \/ f.len = VARLEN,
       len |-> t.len + Fixed(f.len)]

(* The fields are as many as the template counts and lie inside its set.   *)
(* A record of variable length has no offsets: length 0.                   *)
Offsets(layout, ipfix) ==
  LET to[j \in 0..Len(layout)] ==
        IF j = 0 THEN NoOffsets ELSE AddField(to[j - 1], layout[j], ipfix)
      t == to[Len(layout)]
  IN  [at |-> t.at, isv6 |-> t.isv6, len |-> IF t.variable THEN 0 ELSE t.len]

Usable(np) ==
  /\ np.len > 0
  /\ \A s \in {"src", "dst", "proto"} : np.at[s] # ABSENT

-----------------------------------------------------------------------------
(* What exporters write.                                                   *)

(* A flow's own value of a field; the other family's addresses are zero.   *)
Value(flow, ie) ==
  CASE ie \in {"v4src", "v4dst"} /\ flow.v6   -> Garbage
    [] ie \in {"v6src", "v6dst"} /\ ~flow.v6  -> Garbage
    [] ie \in {"proto", "flags"}              -> flow[ie]
    [] OTHER                                  -> <<flow.name, ie>>

TemplateLen(layout) ==
  SET_HDR + Total([j \in DOMAIN layout |-> SET_HDR + IF layout[j].ent THEN 4 ELSE 0])

(* A template set may hold several templates. *)
SetLen(set) ==
  CASE set.kind = "template" ->
         SET_HDR + Total([j \in DOMAIN set.templates |->
                            TemplateLen(set.templates[j].layout)])
    [] set.kind = "options"  -> set.len
    [] set.kind = "data"     ->
         SET_HDR + Len(set.flows) * Width(set.layout) + set.pad

(* The bytes pos .. pos + size - 1 behind the header of a data set. *)
Read(set, pos, size) ==
  LET width == Width(set.layout)
      nth   == pos \div width + 1
      hits == {j \in DOMAIN set.layout : /\ Ends(set.layout)[j - 1] = pos % width
                                        /\ set.layout[j].len = size}
  IN  IF nth > Len(set.flows) \/ hits = {} THEN Garbage
      ELSE LET j == CHOOSE j \in hits : TRUE
           IN  IF set.layout[j].ie = "other" \/ set.layout[j].ent THEN Garbage
               ELSE Value(set.flows[nth], set.layout[j].ie)

-----------------------------------------------------------------------------
(* nf_flow_set: the k-th record.  guess is what an IP protocol number that *)
(* is Garbage happens to be.                                               *)

FldOk(np, slot, size) == np.at[slot] # ABSENT /\ np.at[slot] + size <= np.len

Field(np, set, k, slot, size) == Read(set, (k - 1) * np.len + np.at[slot], size)

Protocol(np, set, k, guess) ==
  LET p == Field(np, set, k, "proto", 1) IN IF p = Garbage THEN guess ELSE p

NeedsPorts(p) == p \in {"tcp", "udp"}
NeedsType(p)  == p \in {"icmp", "icmp6"}

(* The fields its protocol asks for are in the record. *)
Readable(np, p) ==
  LET size == IF np.isv6 THEN 16 ELSE 4
  IN  /\ FldOk(np, "src", size) /\ FldOk(np, "dst", size) /\ FldOk(np, "proto", 1)
      /\ NeedsPorts(p) \/ NeedsType(p)
      /\ NeedsPorts(p) => FldOk(np, "sport", 2) /\ FldOk(np, "dport", 2)
      /\ NeedsType(p)  => FldOk(np, "icmp", 2)

TcpFlag(flags) ==
  CASE flags = Garbage -> Garbage
    [] flags = "syn"   -> "SYN"
    [] flags = "fin"   -> "FIN"
    [] OTHER           -> "ACK"

Record(np, set, k, guess) ==
  LET p    == Protocol(np, set, k, guess)
      size == IF np.isv6 THEN 16 ELSE 4
      get(slot, n) == Field(np, set, k, slot, n)
      flag == CASE p = "tcp" -> IF FldOk(np, "flags", 1)
                                THEN TcpFlag(get("flags", 1)) ELSE "ACK"
                [] p = "udp" -> "UDP"
                [] OTHER     -> "ICMP"
      six  == IF NeedsPorts(p) THEN np.isv6 ELSE p = "icmp6"
  IN  [src |-> get("src", size), dst |-> get("dst", size),
       data1 |-> IF NeedsPorts(p) THEN get("sport", 2) ELSE get("icmp", 2),
       data2 |-> IF NeedsPorts(p) THEN get("dport", 2) ELSE get("icmp", 2),
       flag |-> flag, v6 |-> six]

(* Faulty: only the first record of a set, as version 2.5 had it. *)
FirstOnly(np, set, guess) ==
  IF ~Usable(np) \/ ~Readable(np, Protocol(np, set, 1, guess)) THEN <<>>
  ELSE <<Record(np, set, 1, guess)>>

(* Every record that fits in the set, those left out that cannot be read.  *)
Records(np, set, guess) ==
  IF ~Usable(np) THEN <<>>
  ELSE LET count == (SetLen(set) - SET_HDR) \div np.len
           wanted(k) == Readable(np, Protocol(np, set, k, guess))
       IN  FlattenSeq([k \in 1..count |->
             IF wanted(k) THEN <<Record(np, set, k, guess)>> ELSE <<>>])

-----------------------------------------------------------------------------
(* What a flow's record has to say, whatever the template's offsets.       *)

Has(layout, ie) == \E j \in DOMAIN layout : layout[j].ie = ie /\ ~layout[j].ent

Truth(flow, layout) ==
  LET ie(four, sixteen) == <<flow.name, IF flow.v6 THEN sixteen ELSE four>>
      ports == NeedsPorts(flow.proto)
  IN  [src |-> ie("v4src", "v6src"), dst |-> ie("v4dst", "v6dst"),
       data1 |-> <<flow.name, IF ports THEN "sport" ELSE "icmp">>,
       data2 |-> <<flow.name, IF ports THEN "dport" ELSE "icmp">>,
       flag |-> CASE flow.proto = "tcp" -> IF Has(layout, "flags")
                                           THEN TcpFlag(flow.flags) ELSE "ACK"
                  [] flow.proto = "udp" -> "UDP"
                  [] OTHER              -> "ICMP",
       v6 |-> flow.v6]

(* The lengths the decoder reads its fields with. *)
ReadLen == [v4src |-> 4, v4dst |-> 4, v6src |-> 16, v6dst |-> 16, sport |-> 2,
            dport |-> 2, icmp |-> 2, proto |-> 1, flags |-> 1]

(* Fields of those lengths, one address family, nothing variable. *)
Plain(layout) ==
  /\ \A j \in DOMAIN layout :
       /\ layout[j].len # VARLEN
       /\ layout[j].ie \in DOMAIN ReadLen /\ ~layout[j].ent =>
            layout[j].len = ReadLen[layout[j].ie]
  /\ Has(layout, "v4src") # Has(layout, "v6src")
  /\ Has(layout, "v4src") = Has(layout, "v4dst")
  /\ Has(layout, "v6src") = Has(layout, "v6dst")

(* A flow whose layout says all that its record needs. *)
Told(flow, layout) ==
  /\ Plain(layout) /\ Has(layout, "proto")
  /\ Has(layout, IF flow.v6 THEN "v6src" ELSE "v4src")
  /\ IF NeedsPorts(flow.proto) THEN Has(layout, "sport") /\ Has(layout, "dport")
     ELSE NeedsType(flow.proto) /\ Has(layout, "icmp")

-----------------------------------------------------------------------------
(* What a sound exporter sends: NetFlow has no enterprise fields, padding   *)
(* is to four bytes, and a layout of one family is for flows of it, whose  *)
(* fields are not Garbage; flows of one name are between the same hosts.   *)

IsSeq(s) == s \in Seq(ToSet(s))

Fields(ipfix) == [ie : DOMAIN Slot \cup {"other"}, len : 0..VARLEN,
                  ent : IF ipfix THEN BOOLEAN ELSE {FALSE}]

IsFlow(f) ==
  /\ f.v6 \in BOOLEAN /\ f.located \in BOOLEAN /\ f.proto \in IpProtocols
  /\ \A ie \in DOMAIN Slot : <<f.name, ie>> # Garbage
  /\ f.proto = "icmp" => ~f.v6
  /\ f.proto = "icmp6" => f.v6

IsTemplateSet(set, ipfix) ==
  /\ set.kind = "template"
  /\ IsSeq(set.templates) /\ set.templates # <<>>
  /\ \A t \in ToSet(set.templates) : t.layout \in Seq(Fields(ipfix))

IsDataSet(set, ipfix) ==
  /\ set.kind = "data"
  /\ set.layout \in Seq(Fields(ipfix)) /\ IsSeq(set.flows) /\ set.pad \in 0..3
  /\ \A f \in ToSet(set.flows) :
       /\ IsFlow(f) /\ (Plain(set.layout) => f.v6 = Has(set.layout, "v6src"))
       /\ \A g \in ToSet(set.flows) : f.name = g.name => f.located = g.located
=============================================================================
