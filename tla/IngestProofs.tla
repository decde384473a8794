---------------------------- MODULE IngestProofs ----------------------------
(***************************************************************************)
(* Proofs about Ingest, for every set of agents, keys, rules and options,  *)
(* every replay window and every capacity of the queue.                    *)
(***************************************************************************)
EXTENDS Ingest, Lemmas

USE IngestAssumption

-----------------------------------------------------------------------------
(* Type correctness.                                                       *)

(* What a setup consists of. *)
LEMMA SetupParts ==
  ASSUME setup \in Setups
  PROVE  /\ AgentBoard \in [Ids -> Boards \cup {NoBoard}]
         /\ BrokerKey \in [Ids -> Keys \cup {NoKey}]
         /\ RequireAuth \in BOOLEAN /\ Strict \in BOOLEAN
         /\ Agents \subseteq [peer : Peers, id : Ids \cup {NoId},
                              key : Keys \cup {NoKey}, skew : Int]
         /\ setup.bodies \subseteq Seq(Items)
BY DEF AgentBoard, BrokerKey, RequireAuth, Strict, Agents

LEMMA DatagramType ==
  ASSUME setup \in Setups, NEW a \in Agents, NEW ts \in Int, NEW body \in setup.bodies
  PROVE  Datagram(a, ts, body) \in Datagrams
<1>1. /\ a.peer \in Peers /\ a.id \in Ids \cup {NoId} /\ a.key \in Keys \cup {NoKey}
  BY SetupParts
<1>. QED BY <1>1 DEF Datagram, Datagrams, Macs, Mac

(* An accepted datagram has a board: its agent's, its address's or the     *)
(* first.                                                                  *)
LEMMA BoardType ==
  ASSUME setup \in Setups, NEW d \in Datagrams, NEW time \in Nat, Peel(d, time).accept
  PROVE  BoardOf(d, Peel(d, time)) \in Boards
<1>1. d.id \in Ids \cup {NoId} /\ d.peer \in Peers
  BY DEF Datagrams
<1>2. Peel(d, time).board \in Boards \cup {NoBoard}
  BY <1>1, SetupParts DEF Peel, Peeled, Reject
<1>. QED BY <1>1, <1>2 DEF BoardOf, Mapped

LEMMA TypeInit == Init => TypeOK
BY DEF Init, TypeOK

LEMMA TypeReceive ==
  ASSUME TypeOK, NEW d \in net, Drop(d) \/ PassOn(d) \/ Show(d)
  PROVE  TypeOK'
<1>1. /\ d \in Datagrams /\ unix \in Nat /\ setup \in Setups
  BY DEF TypeOK
<1>2. CASE Drop(d) \/ PassOn(d)
  <2>1. /\ UNCHANGED <<setup, unix, net, sentCount, queue, shown, captions, labelLost>>
        /\ UNCHANGED <<work, lastLabels, agentOf, tight>>
        /\ received' = received + 1
        /\ forwarded' \in {forwarded, forwarded \cup {d}}
    BY <1>2 DEF Drop, PassOn, Receive
  <2>2. Datagrams' = Datagrams /\ Entries' = Entries
    BY <2>1 DEF Datagrams, Macs, Entries
  <2>. QED BY <2>1, <2>2 DEF TypeOK
<1>3. CASE Show(d)
  <2>. DEFINE board == BoardOf(d, Peel(d, unix))
              kinds == (IF IsNews(d.id, board) THEN <<"board">> ELSE <<>>) \o d.body
  <2>1. board \in Boards
    BY <1>1, <1>3, BoardType DEF Show
  <2>2. d.id \in Ids \cup {NoId} /\ d.body \in Seq(Items)
    BY <1>1, SetupParts DEF Datagrams
  <2>3. kinds \in Seq(Items \cup {"board"})
    <3>1. d.body \in Seq(Items \cup {"board"})
      BY <2>2, SeqMonotonic
    <3>2. <<"board">> \in Seq(Items \cup {"board"}) /\ <<>> \in Seq(Items \cup {"board"})
      OBVIOUS
    <3>. QED BY <3>1, <3>2, ConcatProperties
  <2>4. /\ work' = [i \in 1..Len(kinds) |-> Entry(kinds[i], d, board)]
        /\ lastLabels' = IF IsNews(d.id, board)
                         THEN [lastLabels EXCEPT ![board] = d.id] ELSE lastLabels
        /\ agentOf' = IF d.id = NoId THEN agentOf ELSE [agentOf EXCEPT ![board] = d.id]
        /\ tight' = IF d.id = NoId THEN tight ELSE [tight EXCEPT ![board] = FALSE]
        /\ forwarded' = forwarded \cup {d}
    BY <1>3 DEF Show
  <2>5. Receive(d)
    BY <1>3 DEF Show
  <2>. HIDE DEF kinds, board
  <2>6. work' \in Seq(Entries)
    <3>1. \A i \in 1..Len(kinds) : Entry(kinds[i], d, board) \in Entries
      BY <1>1, <2>1, <2>3 DEF Entry, Entries
    <3>2. Len(kinds) \in Nat
      BY <2>3
    <3>. QED BY <2>4, <3>1, <3>2, FunctionIsSeq
  <2>7. /\ lastLabels' \in [Boards -> Ids \cup {NoId}]
        /\ agentOf' \in [Boards -> Ids \cup {NoId}]
        /\ tight' \in [Boards -> BOOLEAN]
        /\ forwarded' \subseteq net'
    BY <2>1, <2>2, <2>4, <2>5 DEF TypeOK, Receive
  <2>8. Datagrams' = Datagrams /\ Entries' = Entries
    BY <2>5 DEF Receive, Datagrams, Macs, Entries
  <2>. QED BY <2>5, <2>6, <2>7, <2>8 DEF TypeOK, Receive
<1>. QED BY <1>2, <1>3

(* What is taken off the list of a datagram's items. *)
LEMMA WorkTail ==
  ASSUME TypeOK, work # <<>>
  PROVE  /\ Head(work) \in Entries /\ Tail(work) \in Seq(Entries)
         /\ Head(work) \in ToSet(work) /\ ToSet(Tail(work)) \subseteq ToSet(work)
<1>1. work \in Seq(Entries)
  BY DEF TypeOK
<1>. QED BY <1>1, NonEmptySeq

LEMMA TypeNext == TypeOK /\ [Next]_vars => TypeOK'
<1>. SUFFICES ASSUME TypeOK, [Next]_vars PROVE TypeOK'
  OBVIOUS
<1>0. setup' = setup => Datagrams' = Datagrams /\ Entries' = Entries
  BY DEF Datagrams, Macs, Entries
<1>1. CASE Tick
  BY <1>0, <1>1 DEF TypeOK, Tick
<1>2. ASSUME NEW a \in Agents, NEW body \in setup.bodies, AgentSend(a, body)
      PROVE  TypeOK'
  <2>1. unix + a.skew \in Int
    BY SetupParts DEF TypeOK
  <2>2. Datagram(a, unix + a.skew, body) \in Datagrams
    BY <2>1, DatagramType DEF TypeOK
  <2>. QED BY <1>0, <1>2, <2>2 DEF TypeOK, AgentSend
<1>3. ASSUME NEW d \in net, Drop(d) \/ PassOn(d) \/ Show(d) PROVE TypeOK'
  BY <1>3, TypeReceive
<1>4. CASE DropControl
  BY <1>0, <1>4, WorkTail DEF TypeOK, DropControl
<1>5. CASE TrySend
  <2>1. Head(work) \in Entries /\ Tail(work) \in Seq(Entries)
    BY <1>5, WorkTail DEF TrySend
  <2>. DEFINE item == Head(work)
  <2>2. /\ queue' \in {queue, Append(queue, item)}
        /\ tight' \in {tight, [tight EXCEPT ![item.board] = TRUE]}
        /\ labelLost' \in {labelLost, labelLost \cup {item.board}}
    BY <1>5 DEF TrySend
  <2>. HIDE DEF item
  <2>3. item \in Entries /\ item.board \in Boards
    BY <2>1 DEF Entries, item
  <2>4. /\ queue' \in Seq(Entries) /\ labelLost' \subseteq Boards
        /\ tight' \in [Boards -> BOOLEAN]
    <3>1. Append(queue, item) \in Seq(Entries)
      BY <2>3, AppendProperties DEF TypeOK
    <3>2. [tight EXCEPT ![item.board] = TRUE] \in [Boards -> BOOLEAN]
      BY <2>3 DEF TypeOK
    <3>. QED BY <2>2, <2>3, <3>1, <3>2 DEF TypeOK
  <2>. QED BY <1>0, <1>5, <2>1, <2>4 DEF TypeOK, TrySend
<1>6. CASE Take
  <2>1. queue \in Seq(Entries) /\ queue # <<>>
    BY <1>6 DEF TypeOK, Take
  <2>2. Head(queue) \in Entries /\ Tail(queue) \in Seq(Entries)
    BY <2>1, HeadTailProperties
  <2>3. /\ Head(queue).board \in Boards
        /\ Head(queue).from.id \in Ids \cup {NoId}
    BY <2>2 DEF Entries, Datagrams
  <2>4. captions' \in [Boards -> Ids \cup {NoId}] /\ shown' \subseteq Entries
    BY <1>6, <2>2, <2>3, ZenonT(30) DEF TypeOK, Take
  <2>. QED BY <1>0, <1>6, <2>2, <2>4 DEF TypeOK, Take
<1>7. CASE UNCHANGED vars
  BY <1>0, <1>7 DEF TypeOK, vars
<1>. QED BY <1>1, <1>2, <1>3, <1>4, <1>5, <1>6, <1>7 DEF Next

(* Every behaviour of the ingest keeps every variable in its type.         *)
THEOREM TypeCorrect == Spec => []TypeOK
<1>. QED BY TypeInit, TypeNext, PTL DEF Spec

-----------------------------------------------------------------------------
(* What a datagram may bring about.                                        *)

(* Every datagram on the net is as an agent of the site made it.           *)
MadeByAgents ==
  \A d \in net : \E a \in Agents : d = Datagram(a, d.ts, d.body)

(* An item comes from a datagram that was accepted when it came, and has   *)
(* the board which that gives it.                                          *)
Sourced(e) ==
  LET peeled == Peel(e.from, e.at)
  IN  /\ e.from \in net
      /\ peeled.accept
      /\ e.board = BoardOf(e.from, peeled)
      /\ Strict => Mapped(e.from, peeled) # NoBoard

(***************************************************************************)
(* The inductive form: it needs what waits in work as well, where control  *)
(* commands are still to be looked at.                                     *)
(***************************************************************************)
SourceInv ==
  /\ MadeByAgents
  /\ \A e \in ToSet(work) : Sourced(e)
  /\ \A e \in Admitted : Sourced(e) /\ ~Barred(e)

LEMMA SourceInit == Init => SourceInv
<1>. SUFFICES ASSUME Init PROVE SourceInv
  OBVIOUS
<1>1. ToSet(work) = {} /\ Admitted = {} /\ net = {}
  BY DEF Init, Admitted, ToSet
<1>. QED BY <1>1 DEF SourceInv, MadeByAgents

(* The setup stays, and with it all that peel says of a datagram.          *)
LEMMA SourcedStays ==
  ASSUME setup' = setup, net \subseteq net', NEW e, Sourced(e)
  PROVE  Sourced(e)'
BY DEF Sourced, Peel, Peeled, Reject, Verifies, BoardOf, Mapped, Strict, RequireAuth,
       BrokerKey, AgentBoard

LEMMA BarredStays ==
  ASSUME setup' = setup, NEW e
  PROVE  Barred(e)' <=> Barred(e)
BY DEF Barred, CtrlOk, ControlsNeedAuth, HasKeys, Peel, Peeled, Reject, Verifies,
       RequireAuth, BrokerKey, AgentBoard

LEMMA SourceShow ==
  ASSUME TypeOK, SourceInv, NEW d \in net, Show(d)
  PROVE  \A e \in ToSet(work') : Sourced(e)
<1>. DEFINE board == BoardOf(d, Peel(d, unix))
            kinds == (IF IsNews(d.id, board) THEN <<"board">> ELSE <<>>) \o d.body
<1>1. /\ work' = [i \in 1..Len(kinds) |-> Entry(kinds[i], d, board)]
      /\ Peel(d, unix).accept
      /\ Strict => Mapped(d, Peel(d, unix)) # NoBoard
  BY DEF Show
<1>. HIDE DEF kinds
<1>2. \A e \in ToSet(work') : e.from = d /\ e.at = unix /\ e.board = board
  BY <1>1 DEF ToSet, Entry
<1>. QED BY <1>1, <1>2 DEF Sourced

LEMMA SourceNext == TypeOK /\ SourceInv /\ [Next]_vars => SourceInv'
<1>. SUFFICES ASSUME TypeOK, SourceInv, [Next]_vars PROVE SourceInv'
  OBVIOUS
<1>1. setup' = setup /\ net \subseteq net'
  BY DEF Next, vars, Tick, AgentSend, Drop, PassOn, Show, Receive, DropControl, TrySend,
         Take
<1>2. MadeByAgents'
  <2>1. ASSUME NEW a \in Agents, NEW body \in setup.bodies, AgentSend(a, body)
        PROVE  MadeByAgents'
    <3>. DEFINE d == Datagram(a, unix + a.skew, body)
    <3>1. d = Datagram(a, d.ts, d.body)
      BY DEF Datagram
    <3>2. net' = net \cup {d}
      BY <2>1 DEF AgentSend
    <3>3. \A x \in net : \E b \in Agents : x = Datagram(b, x.ts, x.body)
      BY DEF SourceInv, MadeByAgents
    <3>. HIDE DEF d
    <3>4. \A x \in net' : \E b \in Agents : x = Datagram(b, x.ts, x.body)
      BY <3>1, <3>2, <3>3
    <3>. QED BY <1>1, <3>4 DEF MadeByAgents, Agents, Datagram, Mac
  <2>2. CASE net' = net
    BY <1>1, <2>2 DEF SourceInv, MadeByAgents, Agents, Datagram, Mac
  <2>. QED BY <2>1, <2>2 DEF Next, vars, Tick, Drop, PassOn, Show, Receive,
                             DropControl, TrySend, Take
<1>3. /\ \A e \in ToSet(work') : Sourced(e)
      /\ \A e \in Admitted' : Sourced(e) /\ ~Barred(e)
  <2>0. /\ \A e \in ToSet(work) : Sourced(e)
        /\ \A e \in Admitted : Sourced(e) /\ ~Barred(e)
    BY DEF SourceInv
  <2>1. CASE UNCHANGED <<work, queue, shown>>
    BY <2>0, <2>1 DEF Admitted
  <2>2. ASSUME NEW d \in net, Show(d)
        PROVE  /\ \A e \in ToSet(work') : Sourced(e)
               /\ \A e \in Admitted' : Sourced(e) /\ ~Barred(e)
    BY <2>0, <2>2, SourceShow DEF Show, Receive, Admitted
  <2>3. CASE DropControl
    BY <2>0, <2>3, WorkTail DEF DropControl, Admitted
  <2>4. CASE TrySend
    <3>1. /\ ToSet(work') \subseteq ToSet(work)
          /\ Sourced(Head(work)) /\ ~Barred(Head(work))
          /\ Head(work) \in Entries
      BY <2>0, <2>4, WorkTail DEF TrySend
    <3>. DEFINE item == Head(work)
    <3>2. queue' \in {queue, Append(queue, item)} /\ shown' = shown
      BY <2>4 DEF TrySend
    <3>. HIDE DEF item
    <3>3. ToSet(queue') \subseteq ToSet(queue) \cup {item}
      <4>1. item \in Entries /\ queue \in Seq(Entries)
        BY <3>1 DEF TypeOK, item
      <4>2. ToSet(Append(queue, item)) = ToSet(queue) \cup {item}
        BY <4>1, ToSetAppend
      <4>. QED BY <3>2, <4>2
    <3>. QED BY <2>0, <3>1, <3>2, <3>3 DEF Admitted, item
  <2>5. CASE Take
    <3>1. queue \in Seq(Entries) /\ queue # <<>>
      BY <2>5 DEF TypeOK, Take
    <3>2. Head(queue) \in ToSet(queue) /\ ToSet(Tail(queue)) \subseteq ToSet(queue)
      BY <3>1, NonEmptySeq
    <3>3. /\ queue' = Tail(queue) /\ work' = work
          /\ shown' \in {shown, shown \cup {Head(queue)}}
      BY <2>5 DEF Take
    <3>4. Admitted' \subseteq Admitted
      BY <3>2, <3>3 DEF Admitted
    <3>. QED BY <2>0, <3>3, <3>4
  <2>. QED BY <2>1, <2>2, <2>3, <2>4, <2>5
           DEF Next, vars, Tick, AgentSend, Drop, PassOn, Receive
<1>. QED BY <1>1, <1>2, <1>3, SourcedStays, BarredStays DEF SourceInv

THEOREM Sources == Spec => []SourceInv
<1>. QED BY SourceInit, SourceNext, TypeCorrect, PTL DEF Spec

(* What a signature says that verifies.                                    *)
LEMMA Signed ==
  ASSUME TypeOK, NEW d \in net, NEW time \in Nat, Peel(d, time).accept
  PROVE  /\ Peel(d, time).authed =>
              d.id \in Ids /\ BrokerKey[d.id] # NoKey /\ Verifies(d, time)
         /\ d.id # NoId => \/ BrokerKey[d.id] = NoKey
                           \/ Verifies(d, time)
         /\ Peel(d, time).board = IF d.id = NoId THEN NoBoard ELSE AgentBoard[d.id]
<1>1. d.id \in Ids \cup {NoId}
  BY DEF TypeOK, Datagrams
<1>. QED BY <1>1 DEF Peel, Peeled, Reject

(***************************************************************************)
(* A control command reaches the viewers only from a datagram which the    *)
(* key of its agent signed and which came within the replay window.        *)
(***************************************************************************)
THEOREM Authentic == Spec => []ControlsAuthentic
<1>1. TypeOK /\ SourceInv => ControlsAuthentic
  <2>. SUFFICES ASSUME TypeOK, SourceInv, ControlsNeedAuth,
                       NEW e \in Admitted, e.kind = "ctrl"
                PROVE  /\ e.from.id \in Ids /\ BrokerKey[e.from.id] # NoKey
                       /\ \E a \in Agents :
                            /\ a.key = BrokerKey[e.from.id] /\ a.id = e.from.id
                            /\ e.from = Datagram(a, e.from.ts, e.from.body)
                       /\ AbsDiff(e.at, e.from.ts) <= REPLAY_WINDOW
    BY DEF ControlsAuthentic
  <2>. DEFINE d == e.from
  <2>1. /\ d \in net /\ Peel(d, e.at).accept /\ Peel(d, e.at).authed
    BY DEF SourceInv, Sourced, Barred, CtrlOk
  <2>2. e.at \in Nat
    <3>1. Admitted \subseteq Entries
      BY DEF Admitted, TypeOK, ToSet
    <3>. QED BY <3>1 DEF Entries
  <2>3. d.id \in Ids /\ BrokerKey[d.id] # NoKey /\ Verifies(d, e.at)
    BY <2>1, <2>2, Signed
  <2>4. PICK a \in Agents : d = Datagram(a, d.ts, d.body)
    BY <2>1 DEF SourceInv, MadeByAgents
  <2>5. a.id = d.id /\ a.key = BrokerKey[d.id]
    <3>1. d.id = a.id /\ d.mac = IF a.key = NoKey THEN NoMac
                                 ELSE Mac(a.key, a.id, d.ts, d.body)
      BY <2>4 DEF Datagram
    <3>2. d.mac # NoMac /\ d.mac = Mac(BrokerKey[d.id], d.id, d.ts, d.body)
      BY <2>3 DEF Verifies
    <3>3. Mac(a.key, a.id, d.ts, d.body) = Mac(BrokerKey[d.id], d.id, d.ts, d.body)
      BY <3>1, <3>2
    <3>. QED BY <3>1, <3>3 DEF Mac
  <2>. QED BY <2>3, <2>4, <2>5 DEF Verifies
<1>. QED BY <1>1, TypeCorrect, Sources, PTL

(* Every item has the board of its id's rule, else of its address's, else  *)
(* board 1, and no id that has a key speaks for a board without it.        *)
THEOREM BoardRules == Spec => []BoardsByRule
<1>1. TypeOK /\ SourceInv => BoardsByRule
  <2>. SUFFICES ASSUME TypeOK, SourceInv, NEW e \in Admitted
                PROVE  LET byId == IF e.from.id = NoId THEN NoBoard
                                   ELSE AgentBoard[e.from.id]
                       IN  /\ e.board = IF byId # NoBoard THEN byId
                                        ELSE IF PeerBoard[e.from.peer] # NoBoard
                                        THEN PeerBoard[e.from.peer] ELSE 1
                           /\ Strict => byId # NoBoard
                                        \/ PeerBoard[e.from.peer] # NoBoard
                           /\ e.from.id # NoId =>
                                \/ BrokerKey[e.from.id] = NoKey
                                \/ e.from.mac[1] = BrokerKey[e.from.id]
    BY DEF BoardsByRule
  <2>. DEFINE d == e.from
  <2>1. Sourced(e)
    BY DEF SourceInv
  <2>2. e.at \in Nat
    <3>1. Admitted \subseteq Entries
      BY DEF Admitted, TypeOK, ToSet
    <3>. QED BY <3>1 DEF Entries
  <2>3. /\ d.id # NoId => BrokerKey[d.id] = NoKey \/ Verifies(d, e.at)
        /\ Peel(d, e.at).board = IF d.id = NoId THEN NoBoard ELSE AgentBoard[d.id]
    BY <2>1, <2>2, Signed DEF Sourced
  <2>4. d.id # NoId => BrokerKey[d.id] = NoKey \/ d.mac[1] = BrokerKey[d.id]
    BY <2>3 DEF Verifies, Mac
  <2>. QED BY <2>1, <2>3, <2>4 DEF Sourced, BoardOf, Mapped
<1>. QED BY <1>1, TypeCorrect, Sources, PTL

-----------------------------------------------------------------------------
(* Captions.                                                               *)

LabelFor(e, b) == e.kind = "board" /\ e.board = b

(* A line's last caption of a board, when an item is added at its end ...  *)
LEMMA CaptionAppend ==
  ASSUME NEW line \in Seq(Entries), NEW e \in Entries, NEW b, NEW old
  PROVE  CaptionAfter(Append(line, e), b, old) =
           IF LabelFor(e, b) THEN e.from.id ELSE CaptionAfter(line, b, old)
<1>. DEFINE new == Append(line, e)
            n   == Len(line)
<1>1. /\ n \in Nat /\ n + 1 \in Nat /\ Len(new) = n + 1 /\ new[n + 1] = e
      /\ \A i \in 1..n : new[i] = line[i]
  BY AppendProperties, LenProperties
<1>. HIDE DEF new, n
<1>2. CASE LabelFor(e, b)
  <2>1. /\ n + 1 \in LabelsIn(new, b) /\ LabelsIn(new, b) \in SUBSET (1..n + 1)
        /\ \A i \in LabelsIn(new, b) : i <= n + 1
    BY <1>1, <1>2 DEF LabelsIn, LabelFor
  <2>2. Max(LabelsIn(new, b)) = n + 1
    BY <1>1, <2>1, FromOne, MaxIs
  <2>. QED BY <1>1, <1>2, <2>1, <2>2 DEF CaptionAfter, new
<1>3. CASE ~LabelFor(e, b)
  <2>1. LabelsIn(new, b) = LabelsIn(line, b)
    BY <1>1, <1>3 DEF LabelsIn, LabelFor, n
  <2>2. LabelsIn(line, b) # {} => Max(LabelsIn(line, b)) \in 1..n
    <3>. DEFINE L == LabelsIn(line, b)
    <3>1. L \in SUBSET (1..n)
      BY DEF LabelsIn, n
    <3>. HIDE DEF L
    <3>2. L # {} => Max(L) \in L
      BY <1>1, <3>1, FromOne, MaxProperties
    <3>. QED BY <3>1, <3>2 DEF L
  <2>. QED BY <1>1, <1>3, <2>1, <2>2 DEF CaptionAfter, new
<1>. QED BY <1>2, <1>3

(* ... and when one is taken from its front.                               *)
LEMMA CaptionTail ==
  ASSUME NEW line \in Seq(Entries), line # <<>>, NEW b, NEW old
  PROVE  CaptionAfter(line, b, old) =
           CaptionAfter(Tail(line), b,
                        IF LabelFor(Head(line), b) THEN Head(line).from.id ELSE old)
<1>. DEFINE rest == Tail(line)
            n    == Len(rest)
            L    == LabelsIn(line, b)
            R    == LabelsIn(rest, b)
<1>1. /\ n \in Nat /\ n + 1 \in Nat /\ Len(line) = n + 1 /\ Head(line) = line[1]
      /\ \A i \in 1..n : rest[i] = line[i + 1]
  BY HeadTailProperties, LenProperties
<1>. HIDE DEF rest, n
<1>2. /\ L \in SUBSET (1..n + 1) /\ R \in SUBSET (1..n)
      /\ 1 \in L <=> LabelFor(Head(line), b)
      /\ \A i \in 1..n : i + 1 \in L <=> i \in R
  BY <1>1 DEF LabelsIn, LabelFor, n
<1>3. \A i \in L : i = 1 \/ i - 1 \in R
  BY <1>1, <1>2
<1>4. CASE R = {}
  <2>1. L \subseteq {1}
    BY <1>3, <1>4
  <2>2. 1 \in L => Max(L) = 1
    <3>1. \A y \in L : y <= 1
      BY <2>1
    <3>. HIDE DEF L
    <3>. QED BY <1>1, <1>2, <3>1, FromOne, MaxIs
  <2>. QED BY <1>1, <1>2, <1>4, <2>1, <2>2 DEF CaptionAfter, rest
<1>5. CASE R # {}
  <2>. DEFINE m == Max(R)
  <2>1. m \in R /\ \A i \in R : i <= m
    <3>. HIDE DEF R
    <3>. QED BY <1>1, <1>2, <1>5, FromOne, MaxProperties
  <2>. HIDE DEF m
  <2>2. m \in 1..n /\ m + 1 \in L
    BY <1>2, <2>1
  <2>3. \A i \in L : i <= m + 1
    <3>. HIDE DEF L, R
    <3>. QED BY <1>1, <1>2, <1>3, <2>1, <2>2, SMTT(30)
  <2>4. Max(L) = m + 1
    <3>. DEFINE x == m + 1
    <3>1. L \in SUBSET (0..n + 1) /\ n + 1 \in Nat
      BY <1>1, <1>2, FromOne
    <3>2. x \in L /\ \A i \in L : i <= x
      BY <2>2, <2>3
    <3>. HIDE DEF L, x
    <3>3. Max(L) = x
      BY <3>1, <3>2, MaxIs
    <3>. QED BY <3>3 DEF x
  <2>5. rest[m] = line[m + 1]
    BY <1>1, <2>2
  <2>. QED BY <1>5, <2>2, <2>4, <2>5 DEF CaptionAfter, m, rest
<1>. QED BY <1>4, <1>5

LEMMA CaptionOfNothing ==
  ASSUME NEW b, NEW old
  PROVE  CaptionAfter(<<>>, b, old) = old
BY DEF CaptionAfter, LabelsIn

(* The list of a datagram begins with its caption, if that is news.        *)
LEMMA CaptionShown ==
  ASSUME TypeOK, NEW d \in net, Show(d), NEW b \in Boards, NEW old
  PROVE  CaptionAfter(work', b, old) =
           IF IsNews(d.id, b) /\ b = BoardOf(d, Peel(d, unix)) THEN d.id ELSE old
<1>. DEFINE board == BoardOf(d, Peel(d, unix))
            front == IF IsNews(d.id, board) THEN <<"board">> ELSE <<>>
            kinds == front \o d.body
<1>1. work' = [i \in 1..Len(kinds) |-> Entry(kinds[i], d, board)]
  BY DEF Show
<1>2. d.body \in Seq(Items)
  BY SetupParts DEF TypeOK, Datagrams
<1>3. \A i \in 1..Len(d.body) : d.body[i] # "board"
  BY <1>2 DEF Items
<1>4. CASE IsNews(d.id, board)
  <2>1. /\ Len(kinds) \in Nat /\ 1 \in 1..Len(kinds) /\ kinds[1] = "board"
        /\ \A i \in 1..Len(kinds) : kinds[i] = "board" => i = 1
    <3>1. front = <<"board">> /\ Len(front) = 1 /\ front[1] = "board"
      BY <1>4
    <3>2. /\ Len(kinds) = 1 + Len(d.body) /\ Len(d.body) \in Nat
          /\ \A i \in 1..Len(kinds) :
               kinds[i] = IF i <= 1 THEN "board" ELSE d.body[i - 1]
      <4>1. front \in Seq(Items \cup {"board"}) /\ d.body \in Seq(Items \cup {"board"})
        <5>1. <<"board">> \in Seq(Items \cup {"board"})
          OBVIOUS
        <5>2. d.body \in Seq(Items \cup {"board"})
          BY <1>2, SeqMonotonic
        <5>. QED BY <3>1, <5>1, <5>2
      <4>. HIDE DEF front
      <4>2. /\ Len(kinds) = Len(front) + Len(d.body) /\ Len(d.body) \in Nat
            /\ \A i \in 1..Len(front) + Len(d.body) :
                 kinds[i] = IF i <= Len(front) THEN front[i] ELSE d.body[i - Len(front)]
        BY <4>1, ConcatProperties, LenProperties
      <4>. HIDE DEF kinds
      <4>3. \A i \in 1..1 + Len(d.body) : i <= 1 => i = 1
        BY <4>2
      <4>. QED BY <3>1, <4>2, <4>3
    <3>. HIDE DEF kinds
    <3>3. \A i \in 1..Len(kinds) : i = 1 \/ (i > 1 /\ i - 1 \in 1..Len(d.body))
      BY <3>2
    <3>. QED BY <1>3, <3>2, <3>3
  <2>. HIDE DEF kinds
  <2>2. LabelsIn(work', b) = IF b = board THEN {1} ELSE {}
    BY <1>1, <2>1 DEF LabelsIn, Entry
  <2>3. b = board => Max(LabelsIn(work', b)) = 1
    <3>1. {1} \in SUBSET (1..1) /\ 1 \in Nat /\ 1 \in {1} /\ \A y \in {1} : y <= 1
      OBVIOUS
    <3>2. Max({1}) = 1
      BY <3>1, FromOne, MaxIs
    <3>. QED BY <2>2, <3>2
  <2>4. work'[1].from.id = d.id
    BY <1>1, <2>1 DEF Entry
  <2>. QED BY <1>4, <2>2, <2>3, <2>4 DEF CaptionAfter
<1>5. CASE ~IsNews(d.id, board)
  <2>1. kinds = d.body
    BY <1>2, <1>5, ConcatEmptySeq
  <2>. HIDE DEF kinds
  <2>2. LabelsIn(work', b) = {}
    BY <1>1, <1>3, <2>1 DEF LabelsIn, Entry
  <2>. QED BY <1>5, <2>2 DEF CaptionAfter
<1>. QED BY <1>4, <1>5

LEMMA CaptionNext ==
  ASSUME TypeOK, CaptionsFollow, \A b \in Boards : lastLabels[b] = agentOf[b], [Next]_vars
  PROVE  CaptionsFollow' /\ \A b \in Boards : lastLabels'[b] = agentOf'[b]
<1>. DEFINE Same == UNCHANGED <<work, queue, captions, lastLabels, agentOf, labelLost>>
<1>0. /\ queue \in Seq(Entries) /\ work \in Seq(Entries)
      /\ \A b \in Boards : lastLabels[b] = agentOf[b]
      /\ \A b \in Boards \ labelLost : FinalCaption(b) = lastLabels[b]
  BY DEF TypeOK, CaptionsFollow
<1>1. CASE Same
  <2>1. \A b : FinalCaption(b)' = FinalCaption(b)
    BY <1>1 DEF FinalCaption, CaptionAfter, LabelsIn
  <2>2. lastLabels' = lastLabels /\ agentOf' = agentOf /\ labelLost' = labelLost
    BY <1>1
  <2>. QED BY <1>0, <2>1, <2>2 DEF CaptionsFollow
<1>2. ASSUME NEW d \in net, Show(d)
      PROVE  /\ \A b \in Boards : lastLabels'[b] = agentOf'[b]
             /\ \A b \in Boards \ labelLost' : FinalCaption(b)' = lastLabels'[b]
  <2>. DEFINE board == BoardOf(d, Peel(d, unix))
  <2>1. /\ work = <<>> /\ UNCHANGED <<queue, captions, labelLost>>
        /\ lastLabels' = IF IsNews(d.id, board)
                         THEN [lastLabels EXCEPT ![board] = d.id] ELSE lastLabels
        /\ agentOf' = IF d.id = NoId THEN agentOf ELSE [agentOf EXCEPT ![board] = d.id]
    BY <1>2 DEF Show, Receive
  <2>. HIDE DEF board
  <2>2. ASSUME NEW b \in Boards
        PROVE  /\ lastLabels'[b] = IF IsNews(d.id, b) /\ b = board THEN d.id
                                   ELSE lastLabels[b]
               /\ agentOf'[b] = lastLabels'[b]
    <3>1. lastLabels \in [Boards -> Ids \cup {NoId}] /\ agentOf \in [Boards -> Ids \cup {NoId}]
      BY DEF TypeOK
    <3>. QED BY <1>0, <2>1, <3>1 DEF IsNews
  <2>3. ASSUME NEW b \in Boards \ labelLost
        PROVE  FinalCaption(b)' = lastLabels'[b]
    <3>. DEFINE old == CaptionAfter(queue, b, captions[b])
    <3>1. FinalCaption(b) = old
      BY <2>1, CaptionOfNothing DEF FinalCaption
    <3>2. FinalCaption(b)' = CaptionAfter(work', b, old)
      BY <2>1 DEF FinalCaption, CaptionAfter, LabelsIn
    <3>. HIDE DEF old
    <3>3. FinalCaption(b)' = IF IsNews(d.id, b) /\ b = board THEN d.id ELSE old
      BY <1>2, <3>2, CaptionShown DEF board
    <3>. QED BY <1>0, <2>2, <3>1, <3>3
  <2>. QED BY <2>1, <2>2, <2>3
<1>3. ASSUME DropControl \/ TrySend
      PROVE  \A b \in Boards \ labelLost' : FinalCaption(b)' = lastLabels'[b]
  <2>. DEFINE item == Head(work)
  <2>1. /\ work # <<>> /\ work' = Tail(work)
        /\ UNCHANGED <<captions, lastLabels, agentOf>>
        /\ \/ queue' = Append(queue, item) /\ labelLost' = labelLost
           \/ /\ queue' = queue
              /\ labelLost' = IF item.kind = "board" THEN labelLost \cup {item.board}
                              ELSE labelLost
    BY <1>3 DEF DropControl, TrySend, Barred
  <2>. SUFFICES ASSUME NEW b \in Boards \ labelLost'
                PROVE  FinalCaption(b)' = lastLabels'[b]
    OBVIOUS
  <2>2. item \in Entries
    BY <2>1, WorkTail
  <2>. DEFINE old == CaptionAfter(queue, b, captions[b])
  <2>3. FinalCaption(b) =
          CaptionAfter(Tail(work), b, IF LabelFor(item, b) THEN item.from.id ELSE old)
    BY <1>0, <2>1, CaptionTail DEF FinalCaption
  <2>. HIDE DEF item
  <2>4. CaptionAfter(queue', b, captions[b]) =
          IF LabelFor(item, b) THEN item.from.id ELSE old
    <3>1. CaptionAfter(Append(queue, item), b, captions[b]) =
            IF LabelFor(item, b) THEN item.from.id ELSE old
      BY <1>0, <2>2, CaptionAppend
    <3>2. CASE queue' = Append(queue, item)
      BY <3>1, <3>2
    <3>3. CASE queue' = queue /\ ~LabelFor(item, b)
      BY <3>3
    <3>. QED BY <2>1, <3>2, <3>3 DEF LabelFor
  <2>5. FinalCaption(b)' = CaptionAfter(Tail(work), b, CaptionAfter(queue', b, captions[b]))
    BY <2>1 DEF FinalCaption, CaptionAfter, LabelsIn
  <2>6. b \notin labelLost
    BY <2>1
  <2>. QED BY <1>0, <2>1, <2>3, <2>4, <2>5, <2>6
<1>4. ASSUME Take
      PROVE  \A b \in Boards \ labelLost' : FinalCaption(b)' = lastLabels'[b]
  <2>. DEFINE item == Head(queue)
  <2>1. /\ queue # <<>> /\ queue' = Tail(queue)
        /\ UNCHANGED <<work, lastLabels, agentOf, labelLost>>
        /\ captions' = IF item.kind = "board" THEN [captions EXCEPT ![item.board] = item.from.id]
                       ELSE captions
    BY <1>4 DEF Take
  <2>. SUFFICES ASSUME NEW b \in Boards \ labelLost
                PROVE  FinalCaption(b)' = lastLabels'[b]
    BY <2>1
  <2>2. CaptionAfter(queue, b, captions[b]) =
          CaptionAfter(Tail(queue), b, IF LabelFor(item, b) THEN item.from.id ELSE captions[b])
    BY <1>0, <2>1, CaptionTail
  <2>. HIDE DEF item
  <2>3. captions'[b] = IF LabelFor(item, b) THEN item.from.id ELSE captions[b]
    BY <2>1 DEF TypeOK, LabelFor
  <2>4. FinalCaption(b)' = CaptionAfter(work, b, CaptionAfter(Tail(queue), b, captions'[b]))
    BY <2>1 DEF FinalCaption, CaptionAfter, LabelsIn
  <2>. QED BY <1>0, <2>1, <2>2, <2>3, <2>4 DEF FinalCaption
<1>5. CASE Same
      \/ (\E d \in net : Show(d)) \/ DropControl \/ TrySend \/ Take
  <2>1. CASE DropControl \/ TrySend \/ Take
    <3>1. UNCHANGED <<lastLabels, agentOf>>
      BY <2>1 DEF DropControl, TrySend, Take
    <3>. QED BY <1>0, <1>3, <1>4, <2>1, <3>1 DEF CaptionsFollow
  <2>2. CASE \E d \in net : Show(d)
    BY <1>2, <2>2 DEF CaptionsFollow
  <2>. QED BY <1>1, <1>5, <2>1, <2>2
<1>. QED BY <1>5 DEF Next, vars, Tick, AgentSend, Drop, PassOn, Receive

(* While no caption of a board is refused, those on their way end in the   *)
(* id of the last datagram accepted for it.                                *)
THEOREM Captioned == Spec => []CaptionsFollow
<1>1. Init => CaptionsFollow /\ \A b \in Boards : lastLabels[b] = agentOf[b]
  BY CaptionOfNothing DEF Init, CaptionsFollow, FinalCaption
<1>. DEFINE Agree == \A b \in Boards : lastLabels[b] = agentOf[b]
<1>2. TypeOK /\ CaptionsFollow /\ Agree /\ [Next]_vars => CaptionsFollow' /\ Agree'
  BY CaptionNext
<1>. QED BY <1>1, <1>2, TypeCorrect, PTL DEF Spec
=============================================================================
