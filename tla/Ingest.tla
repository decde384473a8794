------------------------------- MODULE Ingest -------------------------------
(***************************************************************************)
(* From the agents to the batcher: datagrams travel over UDP, udp_ingest   *)
(* peels the PACKTERAGENT line (broker/src/auth.rs), chooses a board,      *)
(* announces a new caption and puts the parsed items on the bounded queue  *)
(* which the batcher empties (broker/src/main.rs).                         *)
(*                                                                         *)
(* A datagram is what its agent put into it: the sender's address, the id  *)
(* and the stamp of the PACKTERAGENT line, its MAC, and the items that     *)
(* parse_datagram finds in the body.  A MAC is the tuple of the key and    *)
(* of all it covers: two MACs are equal only if those are.  The network    *)
(* may lose, delay, reorder and duplicate: what was sent stays in net and  *)
(* may be received any number of times, or never.                          *)
(***************************************************************************)
EXTENDS Integers, Sequences, FiniteSets, SequencesExt

CONSTANTS
  Peers,          \* source addresses
  Ids,            \* agent ids
  NoId,           \* a datagram without a PACKTERAGENT line
  Keys, NoKey,    \* pre-shared keys
  NoMac,          \* an unsigned PACKTERAGENT line
  NoBoard,        \* no rule gives a board
  Boards,         \* board indexes
  PeerBoard,      \* --board: the board of the first rule matching a peer
  Setups,         \* the broker's other options, and who sends what to it
  REPLAY_WINDOW,  \* REPLAY_WINDOW_SECS
  QUEUE_CAP       \* capacity of the queue to the batcher (65536 in the code)

Items == {"fly", "ctrl"}

(* A setup: --agent, the board of an id or NoBoard; --agent-key, the key   *)
(* of an id or NoKey; --require-auth; --strict; the agents, each with its  *)
(* address, id, key it signs with and clock skew; what the bodies parse    *)
(* to; and bounds on datagrams sent and received and on the clock.         *)
ASSUME IngestAssumption ==
  /\ NoId \notin Ids /\ NoKey \notin Keys /\ NoBoard \notin Boards
  /\ 1 \in Boards
  /\ PeerBoard \in [Peers -> Boards \cup {NoBoard}]
  /\ \A s \in Setups :
       /\ s.agentBoard \in [Ids -> Boards \cup {NoBoard}]
       /\ s.brokerKey \in [Ids -> Keys \cup {NoKey}]
       /\ s.requireAuth \in BOOLEAN /\ s.strict \in BOOLEAN
       /\ s.agents \subseteq [peer : Peers, id : Ids \cup {NoId},
                             key : Keys \cup {NoKey}, skew : Int]
       /\ s.bodies \subseteq Seq(Items)
       /\ {s.maxSent, s.maxReceived, s.maxTime} \subseteq Nat
  /\ REPLAY_WINDOW \in Nat
  /\ QUEUE_CAP \in Nat \ {0}

VARIABLES
  setup,      \* the setup the broker was started in
  unix,       \* the broker's clock, unix_now
  net,        \* datagrams sent
  sentCount,  \* history: how many times an agent has sent
  received,   \* history: how many datagrams udp_ingest has received
  work,       \* what the current datagram still has to put on the queue
  lastLabels, \* last_labels: the last caption announced, per board
  queue,      \* the channel to the batcher
  forwarded,  \* datagrams passed through to the legacy viewer
  shown,      \* what the batcher has taken from the queue, captions aside
  captions,   \* Shared::board_labels
  agentOf,    \* history: the id of the last datagram accepted for a board
  tight,      \* history: items of that datagram found the queue full
  labelLost   \* history: boards for which the queue refused a caption

vars == <<setup, unix, net, sentCount, received, work, lastLabels, queue, forwarded,
          shown, captions, agentOf, tight, labelLost>>

AgentBoard  == setup.agentBoard
BrokerKey   == setup.brokerKey
RequireAuth == setup.requireAuth
Strict      == setup.strict
Agents      == setup.agents

-----------------------------------------------------------------------------
(* auth.rs                                                                 *)

HasKeys == \E id \in Ids : BrokerKey[id] # NoKey
ControlsNeedAuth == HasKeys \/ RequireAuth

(* HMAC-SHA256 over "<id>,<ts>\n" and the rest of the datagram. *)
Mac(key, id, ts, body) == <<key, id, ts, body>>

Reject == [accept |-> FALSE]
Peeled(id, board, authed) ==
  [accept |-> TRUE, id |-> id, board |-> board, authed |-> authed]

AbsDiff(x, y) == IF x >= y THEN x - y ELSE y - x

(* Faulty: the age of the stamp is not looked at. *)
VerifiesForever(d, time) ==
  d.mac # NoMac /\ d.mac = Mac(BrokerKey[d.id], d.id, d.ts, d.body)

(* A signature of the id's key over this very datagram, not too old. *)
Verifies(d, time) ==
  /\ d.mac # NoMac
  /\ AbsDiff(time, d.ts) <= REPLAY_WINDOW
  /\ d.mac = Mac(BrokerKey[d.id], d.id, d.ts, d.body)

Peel(d, time) ==
  IF d.id = NoId
  THEN IF RequireAuth THEN Reject ELSE Peeled(NoId, NoBoard, FALSE)
  ELSE IF BrokerKey[d.id] # NoKey
  THEN IF Verifies(d, time) THEN Peeled(d.id, AgentBoard[d.id], TRUE)
                            ELSE Reject
  ELSE IF RequireAuth THEN Reject
  ELSE Peeled(d.id, AgentBoard[d.id], FALSE)

-----------------------------------------------------------------------------
(* main.rs                                                                 *)

(* Faulty: the address's rule goes before the id's. *)
MappedByAddress(d, peeled) ==
  IF PeerBoard[d.peer] # NoBoard THEN PeerBoard[d.peer] ELSE peeled.board

(* The board an explicit rule gives: the id's, else the address's. *)
Mapped(d, peeled) ==
  IF peeled.board # NoBoard THEN peeled.board ELSE PeerBoard[d.peer]

(* Faulty: no board for a source without a rule. *)
BoardOfMapped(d, peeled) == Mapped(d, peeled)

BoardOf(d, peeled) ==
  IF Mapped(d, peeled) # NoBoard THEN Mapped(d, peeled) ELSE 1

CtrlOk(peeled) == ~ControlsNeedAuth \/ peeled.authed

Datagram(a, ts, body) ==
  [peer |-> a.peer, id |-> a.id, ts |-> ts,
   mac |-> IF a.key = NoKey THEN NoMac ELSE Mac(a.key, a.id, ts, body),
   body |-> body]

(* An item on its way to the batcher, with its datagram and the time that  *)
(* came: peeled and ctrl_ok follow from the two.                           *)
Entry(kind, d, board) == [kind |-> kind, board |-> board, from |-> d, at |-> unix]

Init ==
  /\ setup \in Setups
  /\ unix = 0 /\ net = {} /\ sentCount = 0 /\ received = 0
  /\ work = <<>> /\ queue = <<>> /\ forwarded = {} /\ shown = {}
  /\ lastLabels = [b \in Boards |-> NoId]
  /\ captions = [b \in Boards |-> NoId]
  /\ agentOf = [b \in Boards |-> NoId]
  /\ tight = [b \in Boards |-> FALSE]
  /\ labelLost = {}

Tick ==
  /\ unix < setup.maxTime
  /\ unix' = unix + 1
  /\ UNCHANGED <<setup, net, sentCount, received, work, lastLabels, queue,
                 forwarded, shown, captions, agentOf, tight, labelLost>>

(* An agent stamps, signs if it has a key, and sends (agent/lib/send.c). *)
AgentSend(a, body) ==
  /\ sentCount < setup.maxSent
  /\ sentCount' = sentCount + 1
  /\ net' = net \cup {Datagram(a, unix + a.skew, body)}
  /\ UNCHANGED <<setup, unix, received, work, lastLabels, queue, forwarded,
                 shown, captions, agentOf, tight, labelLost>>

(***************************************************************************)
(* The head of udp_ingest's loop, reached when the datagram before is done.*)
(* A datagram is rejected, or passed through; under --strict one without a *)
(* rule goes no further; from any other the caption, if it is news, and    *)
(* the items are lined up, to be put on the queue one by one.              *)
(***************************************************************************)
Receive(d) ==
  /\ work = <<>>
  /\ received < setup.maxReceived
  /\ received' = received + 1
  /\ UNCHANGED <<setup, unix, net, sentCount, queue, shown, captions, labelLost>>

Drop(d) ==
  /\ Receive(d)
  /\ ~Peel(d, unix).accept
  /\ UNCHANGED <<work, lastLabels, forwarded, agentOf, tight>>

PassOn(d) ==
  /\ Receive(d)
  /\ Peel(d, unix).accept
  /\ Strict /\ Mapped(d, Peel(d, unix)) = NoBoard
  /\ forwarded' = forwarded \cup {d}
  /\ UNCHANGED <<work, lastLabels, agentOf, tight>>

(* Faulty: only the first id of a board is announced. *)
IsFirst(id, board) == id # NoId /\ lastLabels[board] = NoId

IsNews(id, board) == id # NoId /\ lastLabels[board] # id

Show(d) ==
  LET peeled == Peel(d, unix)
      board  == BoardOf(d, peeled)
      kinds  == (IF IsNews(d.id, board) THEN <<"board">> ELSE <<>>) \o d.body
  IN  /\ Receive(d)
      /\ peeled.accept
      /\ Strict => Mapped(d, peeled) # NoBoard
      /\ forwarded' = forwarded \cup {d}
      /\ work' = [i \in 1..Len(kinds) |-> Entry(kinds[i], d, board)]
      /\ lastLabels' = IF IsNews(d.id, board)
                       THEN [lastLabels EXCEPT ![board] = d.id] ELSE lastLabels
      /\ agentOf' = IF d.id = NoId THEN agentOf
                    ELSE [agentOf EXCEPT ![board] = d.id]
      /\ tight' = IF d.id = NoId THEN tight
                  ELSE [tight EXCEPT ![board] = FALSE]

(* A control command of a datagram that may not give one is dropped. *)
Barred(item) == item.kind = "ctrl" /\ ~CtrlOk(Peel(item.from, item.at))

DropControl ==
  /\ work # <<>> /\ Barred(Head(work))
  /\ work' = Tail(work)
  /\ UNCHANGED <<setup, unix, net, sentCount, received, lastLabels, queue,
                 forwarded, shown, captions, agentOf, tight, labelLost>>

(* try_send with its result ignored: a full queue refuses the item. *)
TrySend ==
  /\ work # <<>> /\ ~Barred(Head(work))
  /\ work' = Tail(work)
  /\ LET item == Head(work)
     IN  IF Len(queue) < QUEUE_CAP
         THEN /\ queue' = Append(queue, item)
              /\ UNCHANGED <<tight, labelLost>>
         ELSE /\ tight' = IF item.from.id = NoId THEN tight
                          ELSE [tight EXCEPT ![item.board] = TRUE]
              /\ labelLost' = IF item.kind = "board"
                              THEN labelLost \cup {item.board} ELSE labelLost
              /\ UNCHANGED queue
  /\ UNCHANGED <<setup, unix, net, sentCount, received, lastLabels, forwarded,
                 shown, captions, agentOf>>

(* The batcher takes an item: a caption goes into the table. *)
Take ==
  /\ queue # <<>>
  /\ queue' = Tail(queue)
  /\ LET item == Head(queue)
     IN  IF item.kind = "board"
         THEN /\ captions' = [captions EXCEPT ![item.board] = item.from.id]
              /\ UNCHANGED shown
         ELSE /\ shown' = shown \cup {item}
              /\ UNCHANGED captions
  /\ UNCHANGED <<setup, unix, net, sentCount, received, work, lastLabels,
                 forwarded, agentOf, tight, labelLost>>

Next ==
  \/ Tick
  \/ \E a \in Agents, body \in setup.bodies : AgentSend(a, body)
  \/ \E d \in net : Drop(d) \/ PassOn(d) \/ Show(d)
  \/ DropControl \/ TrySend
  \/ Take

Spec == Init /\ [][Next]_vars

-----------------------------------------------------------------------------
(* What the ingest promises.                                               *)

Macs      == (Keys \X (Ids \cup {NoId}) \X Int \X setup.bodies) \cup {NoMac}
Datagrams == [peer : Peers, id : Ids \cup {NoId}, ts : Int, mac : Macs,
              body : setup.bodies]
Entries   == [kind : Items \cup {"board"}, board : Boards, from : Datagrams,
              at : Nat]

TypeOK ==
  /\ setup \in Setups
  /\ unix \in Nat /\ sentCount \in Nat /\ received \in Nat
  /\ net \subseteq Datagrams /\ forwarded \subseteq net
  /\ work \in Seq(Entries) /\ queue \in Seq(Entries) /\ shown \subseteq Entries
  /\ lastLabels \in [Boards -> Ids \cup {NoId}]
  /\ captions \in [Boards -> Ids \cup {NoId}]
  /\ agentOf \in [Boards -> Ids \cup {NoId}]
  /\ tight \in [Boards -> BOOLEAN]
  /\ labelLost \subseteq Boards

Admitted == ToSet(queue) \cup shown

(***************************************************************************)
(* As soon as any key is configured, or --require-auth is given, a control *)
(* command reaches the viewers only from a datagram which the key of its   *)
(* agent signed and which came within the replay window, whatever the      *)
(* network delayed or repeated in between.                                 *)
(***************************************************************************)
ControlsAuthentic ==
  ControlsNeedAuth =>
    \A e \in Admitted : e.kind = "ctrl" =>
      /\ e.from.id \in Ids /\ BrokerKey[e.from.id] # NoKey
      /\ \E a \in Agents : /\ a.key = BrokerKey[e.from.id] /\ a.id = e.from.id
                           /\ e.from = Datagram(a, e.from.ts, e.from.body)
      /\ AbsDiff(e.at, e.from.ts) <= REPLAY_WINDOW

(***************************************************************************)
(* Every item carries the board its rules give: the one of its agent id,   *)
(* else that of its address, else board 1, and that last only without      *)
(* --strict; an id with a key speaks for its board only when its datagram  *)
(* is signed with it, an id without one also unsigned.                     *)
(***************************************************************************)
BoardsByRule ==
  \A e \in Admitted :
    LET byId == IF e.from.id = NoId THEN NoBoard ELSE AgentBoard[e.from.id]
    IN  /\ e.board = IF byId # NoBoard THEN byId
                     ELSE IF PeerBoard[e.from.peer] # NoBoard
                     THEN PeerBoard[e.from.peer] ELSE 1
        /\ Strict => byId # NoBoard \/ PeerBoard[e.from.peer] # NoBoard
        /\ e.from.id # NoId =>
             \/ BrokerKey[e.from.id] = NoKey
             \/ e.from.mac[1] = BrokerKey[e.from.id]

(***************************************************************************)
(* As long as no caption of a board was refused by a full queue, the       *)
(* captions on their way end in the one last_labels remembers, which is    *)
(* the id of the last datagram accepted for the board.                     *)
(***************************************************************************)
LabelsIn(line, b) ==
  {i \in 1..Len(line) : line[i].kind = "board" /\ line[i].board = b}

CaptionAfter(line, b, old) ==
  IF LabelsIn(line, b) = {} THEN old ELSE line[Max(LabelsIn(line, b))].from.id

FinalCaption(b) == CaptionAfter(work, b, CaptionAfter(queue, b, captions[b]))

CaptionsFollow ==
  \A b \in Boards : b \notin labelLost =>
    FinalCaption(b) = lastLabels[b] /\ lastLabels[b] = agentOf[b]

(***************************************************************************)
(* main.rs:466 "an agent's -A id becomes its board caption (deduped on     *)
(* change)": once the queue is drained, the caption of a board is the id   *)
(* of the last datagram accepted for it, at least if that datagram found   *)
(* room in the queue for everything.                                       *)
(***************************************************************************)
IdBecomesCaption ==
  \A b \in Boards :
    queue = <<>> /\ work = <<>> /\ ~tight[b] => captions[b] = agentOf[b]
=============================================================================
