------------------------------- MODULE Replay -------------------------------
(***************************************************************************)
(* A dump and its replay: an agent under -n prints each datagram behind a  *)
(* TIME line (emit in agent/lib/send.c), and pt_replay (agent/src/         *)
(* pt_replay.c) sends what is between two TIME lines as one datagram and   *)
(* sleeps for as long as they are apart.  The agent is AgentSend.          *)
(*                                                                         *)
(* A line of the dump is the datagram it is of and its length.  All end    *)
(* with a newline but the last one of a sound command (packter_send_se),   *)
(* which the TIME line behind it joins.                                    *)
(***************************************************************************)
EXTENDS AgentSend

CONSTANTS
  OpenLens,     \* lengths of other messages without a newline at the end
  TIME_LEN,     \* length of a TIME line
  BUFSIZ_LONG,  \* PACKTER_BUFSIZ_LONG
  USLEEP        \* what useconds_t wraps at

(* Messages are put together in PACKTER_BUFSIZ: pt_replay's buffer takes    *)
(* any datagram.                                                           *)
ASSUME ReplayAssumption ==
  /\ OpenLens \subseteq Lens /\ TIME_LEN \in Nat
  /\ BUFSIZ_LONG \in Nat /\ USLEEP \in Nat \ {0}
  /\ \A len \in Lens \cup {BULK_PAYLOAD} : AGENT_LINE + HEADER_LEN + len < BUFSIZ_LONG

VARIABLES
  stamps,   \* what the TIME line of each datagram says
  line,     \* lines read
  base,     \* now in replay(): the last TIME line, Unset before the first
  block,    \* mesg: the lines since
  clock,    \* how long pt_replay has slept
  replayed  \* datagrams sent again, [at, lines]

replaying == <<line, base, block, clock, replayed>>

Unset == -1

-----------------------------------------------------------------------------
(* What the agent prints.                                                  *)

Text(i, len) == [kind |-> "text", of |-> i, len |-> len]
TimeLine(i)  == [kind |-> "time", of |-> i, len |-> TIME_LEN]

IsOpen(i) ==
  LET m == passed[sent[i].mesgs[1]]
  IN  ~sent[i].bulked /\ m.kind = "other" /\ m.len \in OpenLens

LinesOf(i) ==
  LET d      == sent[i]
      fly    == passed[d.mesgs[1]].kind = "fly"
      header == (IF AGENT_LINE > 0 THEN <<Text(i, AGENT_LINE)>> ELSE <<>>) \o
                (IF fly THEN <<Text(i, HEADER_LEN)>> ELSE <<>>)
  IN  header \o [j \in DOMAIN d.mesgs |-> Text(i, passed[d.mesgs[j]].len)]

(* A TIME line behind an open line is text, at the end of that line.       *)
Printed(i) ==
  <<IF i > 1 /\ IsOpen(i - 1) THEN Text(i, TIME_LEN) ELSE TimeLine(i)>> \o LinesOf(i)

Dump == FlattenSeq([i \in DOMAIN sent |-> Printed(i)])

(* A step of the agent; what it sends now is stamped now. *)
Record ==
  /\ running  \* bound: the clock stops with the agent
  /\ Next
  /\ stamps' = [i \in DOMAIN sent' |-> IF i \in DOMAIN stamps THEN stamps[i] ELSE now]
  /\ UNCHANGED replaying

-----------------------------------------------------------------------------
(* replay(), a line at a time.                                             *)

Reads(kind) ==
  /\ ~running
  /\ line < Len(Dump)
  /\ Dump[line + 1].kind = kind
  /\ line' = line + 1
  /\ UNCHANGED <<vars, stamps>>

SendBlock == replayed' = IF block = <<>> THEN replayed
                         ELSE Append(replayed, [at |-> clock, lines |-> block])

FirstTime ==
  /\ Reads("time")
  /\ base = Unset
  /\ base' = stamps[Dump[line + 1].of]
  /\ UNCHANGED <<block, clock, replayed>>

(* usleep takes its microseconds as an unsigned number of 32 bits. *)
Slept(to) == clock + (Elapsed(to, base) % USLEEP)

(* Faulty: first the sleep, then the datagram before it. *)
SendSlept(to) == replayed' = IF block = <<>> THEN replayed
                             ELSE Append(replayed, [at |-> Slept(to), lines |-> block])

SendThenSleep(to) == SendBlock

NextTime ==
  /\ Reads("time")
  /\ base # Unset
  /\ LET to == stamps[Dump[line + 1].of]
     IN  /\ SendThenSleep(to)
         /\ clock' = Slept(to)
         /\ base' = to
  /\ block' = <<>>

Size(lines) == Total([j \in DOMAIN lines |-> lines[j].len])

(* A line that does not fit sends what is there. *)
Collect ==
  /\ Reads("text")
  /\ LET next == Dump[line + 1]
     IN  IF Size(block) + next.len >= BUFSIZ_LONG
         THEN SendBlock /\ block' = <<next>>
         ELSE block' = Append(block, next) /\ UNCHANGED replayed
  /\ UNCHANGED <<base, clock>>

EndOfFile ==
  /\ ~running
  /\ line = Len(Dump) /\ block # <<>>
  /\ SendBlock
  /\ block' = <<>>
  /\ UNCHANGED <<vars, stamps, line, base, clock>>

ReplayInit ==
  /\ Init
  /\ stamps = <<>> /\ line = 0 /\ base = Unset /\ block = <<>>
  /\ clock = 0 /\ replayed = <<>>

ReplayNext == Record \/ FirstTime \/ NextTime \/ Collect \/ EndOfFile

ReplaySpec == ReplayInit /\ [][ReplayNext]_<<vars, stamps, replaying>>

-----------------------------------------------------------------------------
(***************************************************************************)
(* pt_replay.c:2 "replay with original timing ... everything between two   *)
(* TIME lines is sent as one datagram".  Whatever was recorded, no line is *)
(* lost, repeated or moved.  If no sound command has another datagram      *)
(* behind it, each datagram is sent again as it was, and as long after the *)
(* one before as it was, gaps of more than USLEEP left aside and those of  *)
(* a clock set back gone.                                                  *)
(***************************************************************************)
Texts(lines) ==
  FlattenSeq([j \in DOMAIN lines |-> IF lines[j].kind = "text" THEN <<lines[j]>>
                                     ELSE <<>>])

ReplayedAsSent ==
  /\ FlattenSeq([i \in DOMAIN replayed |-> replayed[i].lines]) \o block =
       Texts(SubSeq(Dump, 1, line))
  /\ (\A i \in DOMAIN sent : IsOpen(i) => i = Len(sent)) =>
       \A i \in DOMAIN replayed :
         /\ replayed[i].lines = LinesOf(i)
         /\ i > 1 => LET gap == Elapsed(stamps[i], stamps[i - 1])
                     IN  gap < USLEEP => replayed[i].at - replayed[i - 1].at = gap
=============================================================================
