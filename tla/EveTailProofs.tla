---------------------------- MODULE EveTailProofs ---------------------------
(***************************************************************************)
(* Proofs about EveTail, for every bound and every set of lines that are   *)
(* cut inside a character.                                                 *)
(***************************************************************************)
EXTENDS EveTail, Lemmas

Half == 1..MaxWritten
Open == {k \in Half : ~Ends(k)}

-----------------------------------------------------------------------------
(* Halves, texts and what is made of them.                                 *)

(* The even halves are twice their line.                                   *)
LEMMA HalvesOfLines ==
  /\ \A k \in Half : Ends(k) => k \div 2 \in Half /\ 2 * (k \div 2) = k
  /\ \A k, l \in Half : Ends(k) /\ Ends(l) /\ k < l => k \div 2 < l \div 2
BY EveAssumption DEF Half, Ends

(* The rest begins after the last newline, or is everything.               *)
LEMMA RestBegins ==
  ASSUME NEW S \in SUBSET Int, NEW text \in Seq(S)
  PROVE  \E m \in 0..Len(text) :
           /\ Rest(text) = SubSeq(text, m + 1, Len(text))
           /\ m # 0 => Ends(text[m])
           /\ \A i \in m + 1..Len(text) : ~Ends(text[i])
<1>. DEFINE T == {0} \cup {i \in 1..Len(text) : Ends(text[i])}
            n == Len(text)
<1>1. n \in Nat /\ T \in SUBSET (0..n) /\ T # {}
  OBVIOUS
<1>2. Max(T) \in T /\ \A y \in T : y <= Max(T)
  <2>. HIDE DEF T, n
  <2>. QED BY <1>1, MaxProperties
<1>3. Rest(text) = SubSeq(text, 1 + Max(T), n)
  BY DEF Rest
<1>. DEFINE m == Max(T)
<1>4. m \in 0..n /\ (m # 0 => Ends(text[m]))
  BY <1>1, <1>2
<1>. HIDE DEF m
<1>5. \A i \in m + 1..n : ~Ends(text[i])
  <2>1. ASSUME NEW i \in m + 1..n, Ends(text[i]) PROVE FALSE
    <3>1. i \in 1..n /\ ~(i <= m)
      BY <1>1, <1>4
    <3>2. i \in T
      BY <2>1, <3>1
    <3>. QED BY <1>2, <3>1, <3>2 DEF m
  <2>. QED BY <2>1
<1>6. 1 + m = m + 1
  BY <1>4
<1>. QED BY <1>3, <1>4, <1>5, <1>6 DEF m

(* The rest holds no newline.                                              *)
LEMMA RestType ==
  ASSUME NEW text \in Seq(Half)
  PROVE  Rest(text) \in Seq(Open)
<1>1. Half \in SUBSET Int
  BY DEF Half
<1>2. PICK m \in 0..Len(text) :
        /\ Rest(text) = SubSeq(text, m + 1, Len(text))
        /\ \A i \in m + 1..Len(text) : ~Ends(text[i])
  BY <1>1, RestBegins
<1>3. \A i \in m + 1..Len(text) : text[i] \in Open
  <2>1. \A i \in m + 1..Len(text) : i \in 1..Len(text)
    OBVIOUS
  <2>2. \A i \in 1..Len(text) : text[i] \in Half
    BY ElementOfSeq
  <2>. QED BY <1>2, <2>1, <2>2 DEF Open
<1>4. m + 1 \in Int /\ Len(text) \in Int
  BY LenProperties
<1>. QED BY <1>2, <1>3, <1>4, SubSeqProperties

(* What is unread is the end of the first file.                            *)
LEMMA UnreadIs ==
  ASSUME NEW S, files[1] \in Seq(S), offset \in Nat
  PROVE  /\ Unread \in Seq(S)
         /\ Len(Unread) = IF offset < Len(files[1])
                          THEN Len(files[1]) - offset ELSE 0
         /\ \A i \in 1..Len(Unread) : /\ offset + i \in offset + 1..Len(files[1])
                                      /\ offset + i \in 1..Len(files[1])
                                      /\ Unread[i] = files[1][offset + i]
<1>. DEFINE f == files[1]
            m == offset + 1
            n == Len(f)
<1>1. n \in Nat /\ m \in Int /\ n \in Int
  OBVIOUS
<1>2. \A i \in m..n : f[i] \in S
  OBVIOUS
<1>3. Unread = SubSeq(f, m, n)
  BY DEF Unread, FromHandle
<1>4. /\ SubSeq(f, m, n) \in Seq(S)
      /\ Len(SubSeq(f, m, n)) = IF m <= n THEN n - m + 1 ELSE 0
      /\ \A i \in 1..n - m + 1 : SubSeq(f, m, n)[i] = f[m + i - 1]
  <2>. HIDE DEF f, m, n
  <2>. QED BY <1>1, <1>2, SubSeqProperties
<1>5. Len(Unread) = IF offset < n THEN n - offset ELSE 0
  BY <1>1, <1>3, <1>4
<1>6. ASSUME NEW i \in 1..Len(Unread)
      PROVE  /\ offset + i \in offset + 1..n /\ offset + i \in 1..n
             /\ i \in 1..n - m + 1 /\ m + i - 1 = offset + i
  BY <1>1, <1>5
<1>. QED BY <1>3, <1>4, <1>5, <1>6

(* The entries queued are those of the line ends, in their order.          *)
LEMMA QueuedProperties ==
  ASSUME NEW text \in Seq(Half), NEW full, pass \in Nat
  PROVE  LET q == Queued(text, full)
         IN  /\ q \in Seq(Entries)
             /\ \A i \in 1..Len(q) : \E a \in LineEnds(text) :
                  q[i] = Entry(text[a] \div 2) /\ text[a] \div 2 \notin full
             /\ \A i, j \in 1..Len(q) : i < j => \E a, b \in LineEnds(text) :
                  /\ a < b
                  /\ q[i] = Entry(text[a] \div 2) /\ q[j] = Entry(text[b] \div 2)
             /\ \A a \in LineEnds(text) : text[a] \div 2 \notin full =>
                  \E i \in 1..Len(q) : q[i] = Entry(text[a] \div 2)
<1>. DEFINE n == Len(text)
            Goes(a) == a \in LineEnds(text) /\ text[a] \div 2 \notin full
            s == [a \in 1..n |-> IF Goes(a) THEN <<Entry(text[a] \div 2)>>
                                            ELSE <<>>]
            q == Queued(text, full)
<1>1. n \in Nat /\ \A a \in LineEnds(text) : a \in 1..n /\ Ends(text[a])
  <2>1. n \in Nat
    OBVIOUS
  <2>2. \A a \in 2..n : a \in 1..n
    BY <2>1
  <2>. QED BY <2>1, <2>2 DEF LineEnds
<1>2. \A a \in LineEnds(text) : Entry(text[a] \div 2) \in Entries
  <2>1. ASSUME NEW a \in LineEnds(text) PROVE text[a] \div 2 \in Half
    <3>1. text[a] \in Half
      BY <1>1, ElementOfSeq
    <3>. QED BY <1>1, <3>1, HalvesOfLines
  <2>. QED BY <2>1 DEF Entry, Entries, Half
<1>3. s \in [1..n -> Seq(Entries)]
  BY <1>2
<1>4. q = FlattenSeq(s)
  BY DEF Queued
<1>5. \A a \in 1..n : s[a] = IF Goes(a) THEN <<Entry(text[a] \div 2)>> ELSE <<>>
  OBVIOUS
<1>. HIDE DEF s, n, q, Goes
<1>6. s \in Seq(Seq(Entries)) /\ Len(s) = n
  BY <1>1, <1>3, FunctionIsSeq
<1>7. q \in Seq(Entries)
  BY <1>4, <1>6, FlattenType
<1>8. Picks(q, s, n)
  <2>1. ASSUME NEW a \in 1..Len(s) PROVE Len(s[a]) <= 1
    <3>1. CASE Goes(a)
      <4>1. s[a] = <<Entry(text[a] \div 2)>>
        BY <1>5, <1>6, <3>1
      <4>. QED BY <4>1
    <3>2. CASE ~Goes(a)
      <4>1. s[a] = <<>>
        BY <1>5, <1>6, <3>2
      <4>. QED BY <4>1
    <3>. QED BY <3>1, <3>2
  <2>. QED BY <1>4, <1>6, <2>1, FlattenPicks
<1>9. ASSUME NEW a \in 1..n, NEW e, s[a] = <<e>>
      PROVE  Goes(a) /\ e = Entry(text[a] \div 2)
  <2>1. <<e>> # <<>> /\ \A d : <<d>> = <<e>> => d = e
    OBVIOUS
  <2>. QED BY <1>5, <1>9, <2>1
<1>10. ASSUME NEW i \in 1..Len(q)
       PROVE  \E a \in 1..n : Goes(a) /\ q[i] = Entry(text[a] \div 2)
  <2>1. PICK a \in 1..n : s[a] = <<q[i]>>
    BY <1>8 DEF Picks
  <2>. QED BY <1>9, <2>1
<1>11. ASSUME NEW i \in 1..Len(q), NEW j \in 1..Len(q), i < j
       PROVE  \E a, b \in 1..n : /\ a < b /\ Goes(a) /\ Goes(b)
                                 /\ q[i] = Entry(text[a] \div 2)
                                 /\ q[j] = Entry(text[b] \div 2)
  <2>1. PICK a, b \in 1..n : a < b /\ s[a] = <<q[i]>> /\ s[b] = <<q[j]>>
    BY <1>8, <1>11 DEF Picks
  <2>. QED BY <1>9, <2>1
<1>12. ASSUME NEW a \in 1..n, Goes(a)
       PROVE  \E i \in 1..Len(q) : q[i] = Entry(text[a] \div 2)
  <2>0. \A e : <<e>> # <<>>
    OBVIOUS
  <2>1. s[a] # <<>>
    BY <1>5, <1>12, <2>0
  <2>2. PICK i \in 1..Len(q) : s[a] = <<q[i]>>
    BY <1>8, <2>1 DEF Picks
  <2>. QED BY <1>9, <2>2
<1>. QED BY <1>1, <1>7, <1>10, <1>11, <1>12, SMTT(30) DEF Goes, q

-----------------------------------------------------------------------------
(* Type correctness.                                                       *)

TypeInv == TypeOK /\ written <= MaxWritten /\ Len(files) >= 1

LEMMA TypeInit == Init => TypeInv
<1>. SUFFICES ASSUME Init PROVE TypeInv
  OBVIOUS
<1>1. written \in Nat /\ written <= MaxWritten
  BY EveAssumption DEF Init
<1>. DEFINE f == [k \in 1..written |-> k]
<1>2. f \in Seq(Half)
  <2>1. f \in [1..written -> Half]
    BY <1>1, EveAssumption DEF Half
  <2>. HIDE DEF f
  <2>. QED BY <1>1, <2>1, FunctionIsSeq
<1>3. files \in Seq(Seq(Half)) /\ Len(files) = 1
  BY <1>2 DEF Init
<1>4. /\ linked \in BOOLEAN /\ truncated \in Nat /\ step = "stat"
      /\ len = written /\ pos = written /\ offset = written /\ base = written
      /\ pass \in Nat /\ carry = <<>> /\ out = <<>> /\ refused = {}
      /\ left = <<>> /\ skipped = {} /\ unseen \in BOOLEAN /\ clean \in BOOLEAN
  BY DEF Init
<1>. QED BY <1>1, <1>3, <1>4 DEF TypeInv, TypeOK, Half

(* Replacing the contents of a file. *)
LEMMA FilesType ==
  ASSUME TypeInv, NEW f \in Seq(Half),
         files' = [files EXCEPT ![Len(files)] = f]
  PROVE  /\ files' \in Seq(Seq(Half)) /\ Len(files') = Len(files)
         /\ files'[1] = IF Len(files) = 1 THEN f ELSE files[1]
<1>1. files \in Seq(Seq(Half)) /\ Len(files) \in 1..Len(files) /\ 1 \in 1..Len(files)
  BY DEF TypeInv, TypeOK, Half
<1>2. /\ files' \in Seq(Seq(Half)) /\ Len(files') = Len(files)
      /\ \A j \in 1..Len(files) :
           files'[j] = IF j = Len(files) THEN f ELSE files[j]
  BY <1>1, ExceptSeq
<1>. QED BY <1>1, <1>2

(* The first file and the last. *)
LEMMA FilesAre ==
  ASSUME TypeInv
  PROVE  /\ files \in Seq(Seq(Half)) /\ Len(files) \in Nat /\ Len(files) >= 1
         /\ files[1] \in Seq(Half) /\ Len(files[1]) \in Nat
         /\ files[Len(files)] \in Seq(Half) /\ Len(files[Len(files)]) \in Nat
<1>1. files \in Seq(Seq(Half)) /\ Len(files) \in 1..Len(files) /\ 1 \in 1..Len(files)
  BY DEF TypeInv, TypeOK, Half
<1>2. files[1] \in Seq(Half) /\ files[Len(files)] \in Seq(Half)
  BY <1>1, ElementOfSeq
<1>. QED BY <1>1, <1>2

(* The text a read works on: what was left over and what is new. *)
LEMMA TextIs ==
  ASSUME TypeInv
  PROVE  /\ carry \in Seq(Half) /\ Unread \in Seq(Half)
         /\ carry \o Unread \in Seq(Half)
<1>1. carry \in Seq(Open) /\ Open \subseteq Half
  BY DEF TypeInv, TypeOK, Open, Half
<1>2. carry \in Seq(Half)
  BY <1>1, SeqMonotonic
<1>3. Unread \in Seq(Half)
  BY FilesAre, UnreadIs DEF TypeInv, TypeOK
<1>. QED BY <1>2, <1>3, ConcatProperties

(* The handle is at the end of what it has read. *)
LEMMA OffsetAfter ==
  ASSUME TypeInv
  PROVE  LET o == Max({offset, Len(files[1])})
         IN  /\ o \in Nat /\ o >= Len(files[1]) /\ o >= offset
             /\ offset <= Len(files[1]) => o = Len(files[1])
<1>1. offset \in Nat /\ Len(files[1]) \in Nat
  BY FilesAre DEF TypeInv, TypeOK
<1>. DEFINE n == offset + Len(files[1])
            T == {offset, Len(files[1])}
<1>2. n \in Nat /\ T \in SUBSET (0..n) /\ T # {}
  BY <1>1
<1>3. Max(T) \in T /\ \A y \in T : y <= Max(T)
  <2>. HIDE DEF n, T
  <2>. QED BY <1>2, MaxProperties
<1>. QED BY <1>1, <1>3

LEMMA TypeRead ==
  ASSUME TypeInv, NEW full, Read(full)
  PROVE  TypeInv'
<1>. DEFINE text == carry \o Unread
<1>1. text \in Seq(Half) /\ pass \in Nat
  BY TextIs DEF TypeInv, TypeOK
<1>2. Rest(text) \in Seq(Open)
  BY <1>1, RestType
<1>3. Queued(text, full) \in Seq(Entries)
  BY <1>1, QueuedProperties
<1>4. {Entry(l) : l \in Alerts(text) \cap full} \subseteq Entries
  <2>1. ASSUME NEW a \in LineEnds(text) PROVE text[a] \div 2 \in Half
    <3>1. a \in 1..Len(text) /\ Ends(text[a])
      BY <1>1 DEF LineEnds
    <3>2. text[a] \in Half
      BY <1>1, <3>1, ElementOfSeq
    <3>. QED BY <3>1, <3>2, HalvesOfLines
  <2>. HIDE DEF text
  <2>2. \A l \in Alerts(text) : l \in Half
    BY <2>1 DEF Alerts
  <2>. QED BY <1>1, <2>2 DEF Entry, Entries, Half
<1>5. offset' \in Nat
  BY OffsetAfter DEF Read
<1>6. /\ out' = out \o Queued(text, full) /\ carry' = Rest(text)
      /\ refused' = refused \cup {Entry(l) : l \in Alerts(text) \cap full}
      /\ pos' = len /\ step' = "stat"
      /\ UNCHANGED <<written, files, linked, truncated, len, pass, base, left,
                     skipped, unseen, clean>>
  BY DEF Read, fileVars
<1>. HIDE DEF text
<1>7. out' \in Seq(Entries)
  BY <1>3, <1>6, ConcatProperties DEF TypeInv, TypeOK
<1>. QED BY <1>2, <1>4, <1>5, <1>6, <1>7 DEF TypeInv, TypeOK, Open, Half

LEMMA TypeNext == TypeInv /\ [Next]_vars => TypeInv'
<1>. SUFFICES ASSUME TypeInv, [Next]_vars PROVE TypeInv'
  OBVIOUS
<1>. USE EveAssumption
<1>1. CASE Write
  <2>1. written + 1 \in Half /\ written' = written + 1
    BY <1>1 DEF Write, TypeInv, TypeOK, Half
  <2>2. Append(files[Len(files)], written + 1) \in Seq(Half)
    BY <2>1, FilesAre, AppendProperties
  <2>3. files' \in Seq(Seq(Half)) /\ Len(files') = Len(files)
    BY <1>1, <2>2, FilesType DEF Write
  <2>. QED BY <1>1, <2>1, <2>3 DEF Write, tailVars, TypeInv, TypeOK, Half
<1>2. CASE Truncate
  <2>1. files' \in Seq(Seq(Half)) /\ Len(files') = Len(files)
    BY <1>2, FilesType, <<>> \in Seq(Half) DEF Truncate
  <2>2. clean' \in BOOLEAN /\ unseen' \in BOOLEAN
    BY <1>2 DEF Truncate, TypeInv, TypeOK
  <2>. QED BY <1>2, <2>1, <2>2 DEF Truncate, tailVars, TypeInv, TypeOK, Half
<1>3. CASE Rename
  BY <1>3 DEF Rename, tailVars, TypeInv, TypeOK
<1>4. CASE Reopen
  <2>1. files' \in Seq(Seq(Half)) /\ Len(files') = Len(files) + 1
    BY <1>4, FilesAre, AppendProperties, <<>> \in Seq(Half) DEF Reopen
  <2>. QED BY <1>4, <2>1 DEF Reopen, tailVars, TypeInv, TypeOK, Half
<1>5. CASE Stat
  <2>1. Len(files[Len(files)]) \in Nat
    BY FilesAre
  <2>2. clean' \in BOOLEAN
    BY <1>5 DEF Stat, TypeInv, TypeOK
  <2>3. /\ len' \in Nat /\ pos' \in Nat /\ step' \in {"stat", "read"}
        /\ unseen' \in BOOLEAN
    BY <1>5, <2>1 DEF Stat, TypeInv, TypeOK
  <2>4. offset' \in Nat /\ pass' \in Nat /\ base' \in Nat
    BY <1>5, SMTT(30) DEF Stat, TypeInv, TypeOK
  <2>5. UNCHANGED <<fileVars, carry, out, refused>>
    BY <1>5 DEF Stat
  <2>6. left' \in Seq(Open) /\ skipped' \subseteq Half
    <3>1. /\ left \in Seq(Open) /\ carry \in Seq(Open) /\ skipped \subseteq Half
      BY DEF TypeInv, TypeOK, Open, Half
    <3>2. left' = left \/ left' = carry
      BY <1>5 DEF Stat
    <3>3. skipped' = skipped \/ skipped' = {}
      BY <1>5 DEF Stat
    <3>. QED BY <3>1, <3>2, <3>3
  <2>. QED BY <2>2, <2>3, <2>4, <2>5, <2>6 DEF fileVars, TypeInv, TypeOK, Open, Half
<1>6. CASE FailRead
  <2>1. offset' \in Nat
    BY <1>6, OffsetAfter DEF FailRead
  <2>2. skipped' \subseteq Half
    <3>1. Unread \in Seq(Half) /\ skipped \subseteq Half
      BY TextIs DEF TypeInv, TypeOK, Half
    <3>2. \A i \in DOMAIN Unread : Unread[i] \in Half
      BY <3>1, LenProperties, ElementOfSeq
    <3>. QED BY <1>6, <3>1, <3>2 DEF FailRead, ToSet
  <2>. QED BY <1>6, <2>1, <2>2 DEF FailRead, fileVars, TypeInv, TypeOK, Half
<1>7. ASSUME NEW full, Read(full) PROVE TypeInv'
  BY <1>7, TypeRead
<1>8. CASE UNCHANGED vars
  BY <1>8 DEF vars, fileVars, tailVars, TypeInv, TypeOK
<1>. QED BY <1>1, <1>2, <1>3, <1>4, <1>5, <1>6, <1>7, <1>8 DEF Next, Follow

LEMMA TypeHolds == Spec => []TypeInv
BY TypeInit, TypeNext, PTL DEF Spec

(* Every variable has its type, and the carry holds no newline. *)
THEOREM TypeCorrect == Spec => []TypeOK
<1>1. TypeInv => TypeOK
  BY DEF TypeInv
<1>. QED BY <1>1, TypeHolds, PTL

-----------------------------------------------------------------------------
(* Order.                                                                  *)

(* The first file rises, whatever was cut off it. *)
FileRises ==
  /\ \A i, j \in 1..Len(files[1]) : i < j => files[1][i] < files[1][j]
  /\ \A i \in 1..Len(files[1]) : files[1][i] <= written

(* What came in this pass is older than what the handle has before it and  *)
(* than what is still to be written.                                       *)
OutBehind ==
  \A i \in 1..Len(out) :
    /\ out[i].pass <= pass
    /\ out[i].pass = pass =>
         /\ 2 * out[i].line <= written
         /\ \A k \in offset + 1..Len(files[1]) : 2 * out[i].line < files[1][k]

OrderInv == FileRises /\ OutBehind /\ OnceInOrder

LEMMA OrderInit == Init => OrderInv
<1>. SUFFICES ASSUME Init PROVE OrderInv
  OBVIOUS
<1>1. /\ out = <<>> /\ written \in Nat
      /\ files[1] = [k \in 1..written |-> k]
  BY DEF Init
<1>2. Len(files[1]) = written /\ \A i \in 1..written : files[1][i] = i
  BY <1>1
<1>3. FileRises
  BY <1>1, <1>2 DEF FileRises
<1>4. OutBehind /\ OnceInOrder
  BY <1>1 DEF OutBehind, OnceInOrder
<1>. QED BY <1>3, <1>4 DEF OrderInv

(* An alert that is found ends in the new text, and its half is its line.  *)
LEMMA AlertIsNew ==
  ASSUME TypeInv, NEW a \in LineEnds(carry \o Unread)
  PROVE  LET k == offset + (a - Len(carry))
         IN  /\ k \in offset + 1..Len(files[1]) /\ k \in 1..Len(files[1])
             /\ (carry \o Unread)[a] = files[1][k]
             /\ (carry \o Unread)[a] \in Half /\ Ends((carry \o Unread)[a])
             /\ 2 * ((carry \o Unread)[a] \div 2) = files[1][k]
             /\ a \in Int
<1>. DEFINE text == carry \o Unread
            n == Len(carry)
<1>1. /\ carry \in Seq(Half) /\ Unread \in Seq(Half) /\ text \in Seq(Half)
      /\ n \in Nat /\ Len(text) = n + Len(Unread) /\ Len(Unread) \in Nat
      /\ \A i \in 1..n : text[i] = carry[i]
      /\ \A i \in 1..Len(Unread) : text[n + i] = Unread[i]
  <2>1. carry \in Seq(Half) /\ Unread \in Seq(Half)
    BY TextIs
  <2>. HIDE DEF Half
  <2>. QED BY <2>1
<1>2. a \in 2..Len(text) /\ Ends(text[a])
  BY DEF LineEnds
<1>3. a \notin 1..n
  <2>1. \A i \in 1..n : carry[i] \in Open
    BY ElementOfSeq DEF TypeInv, TypeOK, Open, Half
  <2>. HIDE DEF text, n
  <2>. QED BY <1>1, <1>2, <2>1 DEF Open
<1>. HIDE DEF n
<1>4. a - n \in 1..Len(Unread) /\ n + (a - n) = a /\ a \in Int
  <2>. HIDE DEF text
  <2>. QED BY <1>1, <1>2, <1>3
<1>5. /\ offset + (a - n) \in offset + 1..Len(files[1])
      /\ offset + (a - n) \in 1..Len(files[1])
      /\ Unread[a - n] = files[1][offset + (a - n)]
  BY <1>4, FilesAre, UnreadIs DEF TypeInv, TypeOK
<1>6. text[a] = Unread[a - n]
  <2>. HIDE DEF text
  <2>. QED BY <1>1, <1>4
<1>7. text[a] \in Half
  <2>. HIDE DEF Half
  <2>1. a \in 1..Len(text)
    BY <1>1, <1>2
  <2>. QED BY <1>1, <2>1, ElementOfSeq
<1>8. 2 * (text[a] \div 2) = text[a]
  <2>. HIDE DEF text
  <2>. QED BY <1>2, <1>7, HalvesOfLines
<1>. QED BY <1>2, <1>4, <1>5, <1>6, <1>7, <1>8 DEF n

LEMMA OrderRead ==
  ASSUME TypeInv, OrderInv, NEW full, Read(full)
  PROVE  OrderInv'
<1>. DEFINE text == carry \o Unread
            q == Queued(text, full)
            n == Len(out)
<1>1. /\ q \in Seq(Entries)
      /\ \A i \in 1..Len(q) : \E a \in LineEnds(text) :
           q[i] = Entry(text[a] \div 2)
      /\ \A i, j \in 1..Len(q) : i < j => \E a, b \in LineEnds(text) :
           /\ a < b
           /\ q[i] = Entry(text[a] \div 2) /\ q[j] = Entry(text[b] \div 2)
  <2>. HIDE DEF text
  <2>1. text \in Seq(Half) /\ pass \in Nat
    BY TextIs DEF TypeInv, TypeOK, text
  <2>. QED BY <2>1, QueuedProperties
<1>2. /\ out' = out \o q /\ out \in Seq(Entries) /\ n \in Nat
      /\ UNCHANGED <<files, written, pass>>
      /\ offset' = Max({offset, Len(files[1])})
  BY DEF Read, fileVars, TypeInv, TypeOK
<1>. HIDE DEF q
<1>3. /\ Len(out') = n + Len(q) /\ Len(q) \in Nat
      /\ \A i \in 1..n : out'[i] = out[i]
      /\ \A i \in 1..Len(q) : out'[n + i] = q[i]
  BY <1>1, <1>2
<1>. HIDE DEF n
<1>4. \A i \in 1..Len(out') :
        \/ i \in 1..n
        \/ i - n \in 1..Len(q) /\ n + (i - n) = i
  BY <1>2, <1>3
<1>. DEFINE pos_of(a) == offset + (a - Len(carry))
<1>5. \A a \in LineEnds(text) :
        /\ pos_of(a) \in offset + 1..Len(files[1])
        /\ pos_of(a) \in 1..Len(files[1])
        /\ text[a] = files[1][pos_of(a)]
        /\ text[a] \in Half /\ Ends(text[a]) /\ a \in Int
        /\ 2 * (text[a] \div 2) = files[1][pos_of(a)]
  BY AlertIsNew
<1>6. Len(carry) \in Nat /\ offset \in Nat /\ Len(files[1]) \in Nat
      /\ written \in Nat
  BY TextIs, FilesAre DEF TypeInv, TypeOK
<1>. HIDE DEF text
<1>7. ASSUME NEW a \in LineEnds(text), NEW b \in LineEnds(text), a < b
      PROVE  text[a] \div 2 < text[b] \div 2
  <2>1. pos_of(a) < pos_of(b)
    BY <1>5, <1>6, <1>7
  <2>. HIDE DEF pos_of
  <2>2. files[1][pos_of(a)] < files[1][pos_of(b)]
    BY <1>5, <2>1 DEF OrderInv, FileRises
  <2>. QED BY <1>5, <2>2, HalvesOfLines
<1>. HIDE DEF pos_of
<1>8. FileRises'
  BY <1>2 DEF OrderInv, FileRises
<1>9. OutBehind'
  <2>1. ~(\E k \in offset' + 1..Len(files'[1]) : TRUE)
    <3>1. offset' \in Nat /\ offset' >= Len(files[1])
      BY <1>2, OffsetAfter
    <3>. QED BY <1>2, <1>6, <3>1
  <2>2. ASSUME NEW i \in 1..Len(out')
        PROVE  /\ out'[i].pass <= pass
               /\ out'[i].pass = pass => 2 * out'[i].line <= written
    <3>1. CASE i \in 1..n
      BY <1>3, <3>1 DEF OrderInv, OutBehind, n
    <3>2. CASE i - n \in 1..Len(q) /\ n + (i - n) = i
      <4>1. PICK a \in LineEnds(text) : q[i - n] = Entry(text[a] \div 2)
        BY <1>1, <3>2
      <4>2. files[1][pos_of(a)] <= written
        BY <1>5 DEF OrderInv, FileRises
      <4>3. out'[i] = Entry(text[a] \div 2)
        BY <1>3, <3>2, <4>1
      <4>4. pass <= pass
        BY DEF TypeInv, TypeOK
      <4>. QED BY <1>5, <4>2, <4>3, <4>4 DEF Entry
    <3>. QED BY <1>4, <3>1, <3>2
  <2>. QED BY <1>2, <2>1, <2>2 DEF OutBehind
<1>10. OnceInOrder'
  <2>1. ASSUME NEW i \in 1..Len(out'), NEW j \in 1..Len(out'), i < j,
               out'[i].pass = out'[j].pass
        PROVE  out'[i].line < out'[j].line
    <3>1. CASE j \in 1..n
      <4>1. i \in 1..n
        BY <1>2, <1>4, <2>1, <3>1
      <4>. QED BY <1>3, <2>1, <3>1, <4>1 DEF OrderInv, OnceInOrder, n
    <3>2. CASE j - n \in 1..Len(q) /\ n + (j - n) = j
      <4>1. CASE i \in 1..n
        <5>1. PICK b \in LineEnds(text) : q[j - n] = Entry(text[b] \div 2)
          BY <1>1, <3>2
        <5>2. out'[j].line = text[b] \div 2 /\ out'[j].pass = pass
          BY <1>3, <3>2, <5>1 DEF Entry
        <5>3. out'[i] = out[i] /\ out[i].pass = pass
          BY <1>3, <2>1, <4>1, <5>2
        <5>4. 2 * out[i].line < files[1][pos_of(b)]
          BY <1>5, <4>1, <5>3 DEF OrderInv, OutBehind, n
        <5>5. out[i].line \in Int /\ text[b] \div 2 \in Int
          <6>1. out[i] \in Entries
            BY <1>2, <4>1, ElementOfSeq DEF n
          <6>2. text[b] \in Half
            BY <1>5
          <6>. QED BY <6>1, <6>2, EveAssumption DEF Entries, Half
        <5>6. 2 * out[i].line < 2 * (text[b] \div 2)
          BY <1>5, <5>4
        <5>. QED BY <5>2, <5>3, <5>5, <5>6
      <4>2. CASE i - n \in 1..Len(q) /\ n + (i - n) = i
        <5>1. i - n < j - n
          BY <1>2, <2>1
        <5>2. PICK a, b \in LineEnds(text) :
                /\ a < b
                /\ q[i - n] = Entry(text[a] \div 2)
                /\ q[j - n] = Entry(text[b] \div 2)
          BY <1>1, <3>2, <4>2, <5>1
        <5>. QED BY <1>3, <1>7, <3>2, <4>2, <5>2, SMTT(30) DEF Entry
      <4>. QED BY <1>4, <4>1, <4>2
    <3>. QED BY <1>4, <3>1, <3>2
  <2>. QED BY <2>1 DEF OnceInOrder
<1>. QED BY <1>8, <1>9, <1>10 DEF OrderInv

(* A write adds to the end of the first file, or leaves it alone. *)
LEMMA WriteIs ==
  ASSUME TypeInv, Write
  PROVE  LET g == files[1]
             h == files'[1]
             n == Len(g)
         IN  /\ n \in Nat /\ written' = written + 1 /\ h \in Seq(Half)
             /\ \/ Len(h) = n
                \/ Len(h) = n + 1 /\ h[n + 1] = written + 1
             /\ \A i \in 1..n : h[i] = g[i]
<1>. DEFINE f == Append(files[Len(files)], written + 1)
            g == files[1]
            h == files'[1]
            n == Len(g)
<1>0. g \in Seq(Half) /\ n \in Nat /\ written \in Nat
  BY FilesAre DEF TypeInv, TypeOK
<1>1. f \in Seq(Half) /\ written + 1 \in Half
  <2>1. written + 1 \in Half
    BY <1>0, EveAssumption DEF Write, Half
  <2>. QED BY <2>1, FilesAre, AppendProperties
<1>2. /\ h = IF Len(files) = 1 THEN f ELSE g
      /\ written' = written + 1
  BY <1>1, FilesType DEF Write
<1>3. h \in Seq(Half)
  BY <1>0, <1>1, <1>2
<1>4. CASE Len(files) = 1
  <2>1. h = Append(g, written + 1)
    BY <1>2, <1>4
  <2>2. /\ Len(h) = n + 1 /\ h[n + 1] = written + 1
        /\ \A i \in 1..n : h[i] = g[i]
    <3>. HIDE DEF h, g
    <3>. QED BY <1>0, <1>1, <2>1, AppendProperties
  <2>. QED BY <1>0, <1>2, <1>3, <2>2
<1>5. CASE Len(files) # 1
  BY <1>0, <1>2, <1>3, <1>5
<1>. QED BY <1>4, <1>5

LEMMA OrderNext == TypeInv /\ OrderInv /\ [Next]_vars => OrderInv'
<1>. SUFFICES ASSUME TypeInv, OrderInv, [Next]_vars PROVE OrderInv'
  OBVIOUS
<1>0. /\ files[1] \in Seq(Half) /\ Len(files[1]) \in Nat /\ offset \in Nat
      /\ written \in Nat /\ out \in Seq(Entries) /\ pass \in Nat
      /\ Len(files) \in Nat /\ Len(files) >= 1
  BY FilesAre DEF TypeInv, TypeOK
<1>1. CASE UNCHANGED <<files, written, out, pass>> /\ offset' \in Nat
             /\ offset <= offset'
  <2>1. offset' + 1..Len(files[1]) \subseteq offset + 1..Len(files[1])
    BY <1>0, <1>1
  <2>. QED BY <1>1, <2>1 DEF OrderInv, FileRises, OutBehind, OnceInOrder
<1>2. CASE Write
  <2>. DEFINE g == files[1]
              h == files'[1]
              n == Len(g)
  <2>1. UNCHANGED <<out, pass, offset>>
    BY <1>2 DEF Write, tailVars
  <2>2. /\ n \in Nat /\ written' = written + 1
        /\ \/ Len(h) = n
           \/ Len(h) = n + 1 /\ h[n + 1] = written + 1
        /\ \A i \in 1..n : h[i] = g[i]
    BY <1>2, WriteIs
  <2>3. /\ n \in Nat
        /\ \/ Len(h) = n
           \/ Len(h) = n + 1 /\ h[n + 1] = written + 1
        /\ \A i \in 1..n : h[i] = g[i]
    BY <2>2
  <2>4. \A i \in 1..n : g[i] <= written /\ g[i] \in Int
    <3>1. \A i \in 1..n : g[i] \in Half
      BY <1>0, ElementOfSeq
    <3>. QED BY <3>1 DEF OrderInv, FileRises, Half
  <2>5. /\ \A i, j \in 1..n : i < j => g[i] < g[j]
        /\ \A i \in 1..Len(out) :
             out[i].pass = pass =>
               /\ 2 * out[i].line <= written
               /\ \A k \in offset + 1..n : 2 * out[i].line < g[k]
    BY DEF OrderInv, FileRises, OutBehind
  <2>. HIDE DEF g, h, n
  <2>6. \A i \in 1..Len(h) : i \in 1..n \/ (i = n + 1 /\ h[i] = written + 1)
    BY <2>3
  <2>7. /\ \A i, j \in 1..Len(h) : i < j => h[i] < h[j]
        /\ \A i \in 1..Len(h) : h[i] <= written + 1
    <3>1. ASSUME NEW i \in 1..Len(h), NEW j \in 1..Len(h), i < j
          PROVE  h[i] < h[j]
      <4>1. i \in 1..n
        BY <2>3, <2>6, <3>1
      <4>2. CASE j \in 1..n
        BY <2>3, <2>5, <3>1, <4>1, <4>2
      <4>3. CASE j = n + 1 /\ h[j] = written + 1
        BY <1>0, <2>3, <2>4, <4>1, <4>3
      <4>. QED BY <2>6, <4>2, <4>3
    <3>2. ASSUME NEW i \in 1..Len(h) PROVE h[i] <= written + 1
      BY <1>0, <2>3, <2>4, <2>6
    <3>. QED BY <3>1, <3>2
  <2>8. ASSUME NEW i \in 1..Len(out), out[i].pass = pass
        PROVE  /\ 2 * out[i].line <= written + 1
               /\ \A k \in offset + 1..Len(h) : 2 * out[i].line < h[k]
    <3>1. 2 * out[i].line <= written /\ 2 * out[i].line \in Int
      <4>1. out[i] \in Entries
        BY <1>0, ElementOfSeq
      <4>2. out[i].line \in Int
        BY <4>1 DEF Entries
      <4>. QED BY <2>5, <2>8, <4>2
    <3>2. ASSUME NEW k \in offset + 1..Len(h) PROVE 2 * out[i].line < h[k]
      <4>1. k \in 1..Len(h)
        BY <1>0
      <4>2. CASE k \in 1..n
        <5>1. k \in offset + 1..n
          BY <1>0, <4>2
        <5>. QED BY <2>3, <2>5, <2>8, <4>2, <5>1
      <4>3. CASE k = n + 1 /\ h[k] = written + 1
        BY <1>0, <3>1, <4>3
      <4>. QED BY <2>6, <4>1, <4>2, <4>3
    <3>. QED BY <1>0, <3>1, <3>2
  <2>. QED BY <2>1, <2>2, <2>7, <2>8 DEF OrderInv, FileRises, OutBehind,
                                           OnceInOrder, h
<1>3. CASE Truncate
  <2>1. /\ files'[1] = <<>> \/ files'[1] = files[1]
        /\ UNCHANGED <<written, out, pass, offset>>
    BY <1>3, FilesType, <<>> \in Seq(Half) DEF Truncate, tailVars
  <2>2. CASE files'[1] = <<>>
    <3>1. Len(files'[1]) = 0 /\ \A k \in offset + 1..0 : FALSE
      BY <1>0, <2>2
    <3>. QED BY <2>1, <3>1 DEF OrderInv, FileRises, OutBehind, OnceInOrder
  <2>3. CASE files'[1] = files[1]
    BY <2>1, <2>3 DEF OrderInv, FileRises, OutBehind, OnceInOrder
  <2>. QED BY <2>1, <2>2, <2>3
<1>4. CASE Rename
  BY <1>0, <1>1, <1>4 DEF Rename, tailVars
<1>5. CASE Reopen
  <2>1. files'[1] = files[1] /\ UNCHANGED <<written, out, pass, offset>>
    <3>1. files \in Seq(Seq(Half)) /\ 1 \in 1..Len(files)
      BY FilesAre
    <3>2. Append(files, <<>>)[1] = files[1]
      BY <3>1, AppendProperties, <<>> \in Seq(Half)
    <3>. QED BY <1>5, <3>2 DEF Reopen, tailVars
  <2>. QED BY <2>1 DEF OrderInv, FileRises, OutBehind, OnceInOrder
<1>6. CASE Stat
  <2>1. UNCHANGED <<files, written, out>>
    BY <1>6 DEF Stat, fileVars
  <2>2. CASE UNCHANGED <<pass, offset>>
    BY <1>0, <1>1, <2>1, <2>2
  <2>3. CASE pass' = pass + 1
    <3>1. \A i \in 1..Len(out) : out[i].pass <= pass /\ out[i].pass \in Nat
      <4>1. \A i \in 1..Len(out) : out[i] \in Entries
        BY <1>0, ElementOfSeq
      <4>. QED BY <4>1 DEF OrderInv, OutBehind, Entries
    <3>2. \A i \in 1..Len(out) : out[i].pass <= pass' /\ out[i].pass # pass'
      BY <1>0, <2>3, <3>1
    <3>. QED BY <2>1, <3>2 DEF OrderInv, FileRises, OutBehind, OnceInOrder
  <2>. QED BY <1>6, <2>2, <2>3 DEF Stat
<1>7. CASE FailRead
  <2>1. offset' \in Nat /\ offset <= offset'
    BY <1>0, <1>7, OffsetAfter DEF FailRead
  <2>. QED BY <1>1, <1>7, <2>1 DEF FailRead, fileVars
<1>8. ASSUME NEW full, Read(full) PROVE OrderInv'
  BY <1>8, OrderRead
<1>9. CASE UNCHANGED vars
  BY <1>0, <1>1, <1>9 DEF vars, fileVars, tailVars
<1>. QED BY <1>2, <1>3, <1>4, <1>5, <1>6, <1>7, <1>8, <1>9 DEF Next, Follow

LEMMA OrderHolds == Spec => []OrderInv
BY OrderInit, OrderNext, TypeHolds, PTL DEF Spec

(***************************************************************************)
(* A line comes twice, or after a later one, only if the tail has started  *)
(* over in between.                                                        *)
(***************************************************************************)
THEOREM InOrder == Spec => []OnceInOrder
<1>1. OrderInv => OnceInOrder
  BY DEF OrderInv
<1>. QED BY <1>1, OrderHolds, PTL

-----------------------------------------------------------------------------
(* What this pass has gone over without taking it to the queue.            *)

Past == skipped \cup {2 * e.line : e \in {r \in refused : r.pass = pass}}

(* It is older than what the handle has before it and than what is still   *)
(* to be written, and no alert was refused in a later pass.                *)
PastInv ==
  /\ \A e \in refused : e.pass <= pass
  /\ \A x \in Past : /\ x \in Int /\ x <= written
                     /\ \A k \in offset + 1..Len(files[1]) : x < files[1][k]

LEMMA PastInit == Init => PastInv
BY DEF Init, PastInv, Past

(* It stays so while the handle stays or moves on, and nothing is written. *)
LEMMA PastStays ==
  ASSUME PastInv, UNCHANGED <<written, refused, pass, skipped>>,
         \A k \in offset' + 1..Len(files'[1]) :
           k \in offset + 1..Len(files[1]) /\ files'[1][k] = files[1][k]
  PROVE  PastInv'
<1>1. Past' = Past
  BY DEF Past
<1>. QED BY <1>1 DEF PastInv

LEMMA PastWrite ==
  ASSUME TypeInv, PastInv, Write
  PROVE  PastInv'
<1>. DEFINE g == files[1]
            h == files'[1]
            n == Len(g)
<1>1. /\ n \in Nat /\ written' = written + 1
      /\ \/ Len(h) = n
         \/ Len(h) = n + 1 /\ h[n + 1] = written + 1
      /\ \A i \in 1..n : h[i] = g[i]
  BY WriteIs
<1>2. UNCHANGED <<refused, pass, skipped, offset>>
  BY DEF Write, tailVars
<1>3. offset \in Nat /\ written \in Nat
  BY DEF TypeInv, TypeOK
<1>4. Past' = Past
  BY <1>2 DEF Past
<1>5. ASSUME NEW x \in Past
      PROVE  /\ x \in Int /\ x <= written + 1
             /\ \A k \in offset + 1..Len(h) : x < h[k]
  <2>1. x \in Int /\ x <= written /\ \A k \in offset + 1..n : x < g[k]
    BY DEF PastInv
  <2>. HIDE DEF g, h, n
  <2>2. ASSUME NEW k \in offset + 1..Len(h) PROVE x < h[k]
    <3>1. CASE k \in offset + 1..n
      <4>1. k \in 1..n
        BY <1>1, <1>3, <3>1
      <4>. QED BY <1>1, <2>1, <3>1, <4>1
    <3>2. CASE k \notin offset + 1..n
      <4>1. k = n + 1 /\ h[n + 1] = written + 1
        BY <1>1, <1>3, <3>2
      <4>. QED BY <1>3, <2>1, <4>1
    <3>. QED BY <3>1, <3>2
  <2>. QED BY <1>3, <2>1, <2>2
<1>. QED BY <1>1, <1>2, <1>4, <1>5 DEF PastInv

(* A read that succeeds or fails goes over nothing newer than the file.    *)
LEMMA PastRead ==
  ASSUME TypeInv, OrderInv, PastInv,
         offset' = Max({offset, Len(files[1])}),
         UNCHANGED <<written, files, pass>>,
         \A e \in refused' : e \in refused \/ e.pass = pass,
         \A x \in Past' : x \in Past \/ \E k \in 1..Len(files[1]) : x = files[1][k]
  PROVE  PastInv'
<1>1. /\ files[1] \in Seq(Half) /\ Len(files[1]) \in Nat /\ pass \in Nat
      /\ written \in Nat
  BY FilesAre DEF TypeInv, TypeOK
<1>2. offset' \in Nat /\ offset' >= Len(files[1])
  BY OffsetAfter
<1>3. \A k \in offset' + 1..Len(files'[1]) : FALSE
  BY <1>1, <1>2
<1>4. \A e \in refused' : e.pass <= pass'
  <2>1. pass <= pass
    BY <1>1
  <2>. QED BY <2>1 DEF PastInv
<1>5. ASSUME NEW x \in Past' PROVE x \in Int /\ x <= written
  <2>1. CASE x \in Past
    BY <2>1 DEF PastInv
  <2>2. ASSUME NEW k \in 1..Len(files[1]), x = files[1][k]
        PROVE  x \in Int /\ x <= written
    <3>1. files[1][k] \in Half
      BY <1>1, ElementOfSeq
    <3>. QED BY <2>2, <3>1 DEF OrderInv, FileRises, Half
  <2>. QED BY <2>1, <2>2
<1>. QED BY <1>3, <1>4, <1>5 DEF PastInv

LEMMA PastNext == TypeInv /\ OrderInv /\ PastInv /\ [Next]_vars => PastInv'
<1>. SUFFICES ASSUME TypeInv, OrderInv, PastInv, [Next]_vars PROVE PastInv'
  OBVIOUS
<1>0. /\ files[1] \in Seq(Half) /\ Len(files[1]) \in Nat /\ offset \in Nat
      /\ refused \subseteq Entries /\ pass \in Nat
  BY FilesAre DEF TypeInv, TypeOK
<1>1. CASE Write
  BY <1>1, PastWrite
<1>2. CASE Truncate
  <2>1. files'[1] = <<>> \/ files'[1] = files[1]
    BY <1>2, FilesType, <<>> \in Seq(Half) DEF Truncate
  <2>2. UNCHANGED <<written, refused, pass, skipped, offset>>
    BY <1>2 DEF Truncate, tailVars
  <2>3. files'[1] = <<>> => \A k \in offset' + 1..Len(files'[1]) : FALSE
    <3>1. Len(<<>>) = 0 /\ \A k \in offset + 1..0 : FALSE
      BY <1>0
    <3>. QED BY <2>2, <3>1
  <2>. QED BY <2>1, <2>2, <2>3, PastStays
<1>3. CASE Rename \/ UNCHANGED vars
  <2>1. UNCHANGED <<written, refused, pass, skipped, offset, files>>
    BY <1>3 DEF Rename, vars, fileVars, tailVars
  <2>. QED BY <2>1, PastStays
<1>4. CASE Reopen
  <2>1. files'[1] = files[1]
    <3>1. files \in Seq(Seq(Half)) /\ 1 \in 1..Len(files)
      BY FilesAre
    <3>2. Append(files, <<>>)[1] = files[1]
      BY <3>1, AppendProperties, <<>> \in Seq(Half)
    <3>. QED BY <1>4, <3>2 DEF Reopen
  <2>2. UNCHANGED <<written, refused, pass, skipped, offset>>
    BY <1>4 DEF Reopen, tailVars
  <2>. QED BY <2>1, <2>2, PastStays
<1>5. CASE Stat
  <2>1. UNCHANGED <<files, written, refused>>
    BY <1>5 DEF Stat, fileVars
  <2>2. CASE UNCHANGED <<pass, offset, skipped>>
    BY <2>1, <2>2, PastStays
  <2>3. CASE pass' = pass + 1 /\ skipped' = {}
    <3>1. \A e \in refused : e.pass <= pass /\ e.pass \in Nat
      BY <1>0 DEF PastInv, Entries
    <3>2. \A e \in refused' : e.pass <= pass' /\ e.pass # pass'
      BY <1>0, <2>1, <2>3, <3>1
    <3>3. Past' = {}
      BY <2>3, <3>2 DEF Past
    <3>. QED BY <3>2, <3>3 DEF PastInv
  <2>. QED BY <1>5, <2>2, <2>3 DEF Stat
<1>6. CASE FailRead
  <2>1. /\ UNCHANGED <<written, files, refused, pass>>
        /\ offset' = Max({offset, Len(files[1])})
        /\ skipped' = skipped \cup ToSet(Unread)
    BY <1>6 DEF FailRead, fileVars
  <2>2. \A x \in ToSet(Unread) : \E k \in 1..Len(files[1]) : x = files[1][k]
    <3>1. Unread \in Seq(Half)
      BY TextIs
    <3>2. /\ DOMAIN Unread = 1..Len(Unread)
          /\ \A i \in 1..Len(Unread) : offset + i \in 1..Len(files[1])
                                       /\ Unread[i] = files[1][offset + i]
      BY <1>0, <3>1, LenProperties, UnreadIs
    <3>. QED BY <3>2 DEF ToSet
  <2>3. \A x \in Past' : x \in Past \/ x \in ToSet(Unread)
    BY <2>1 DEF Past
  <2>. QED BY <2>1, <2>2, <2>3, PastRead
<1>7. ASSUME NEW full, Read(full) PROVE PastInv'
  <2>. DEFINE text == carry \o Unread
  <2>1. /\ UNCHANGED <<written, files, pass, skipped>>
        /\ offset' = Max({offset, Len(files[1])})
        /\ refused' = refused \cup {Entry(l) : l \in Alerts(text) \cap full}
    BY <1>7 DEF Read, fileVars
  <2>2. \A a \in LineEnds(text) :
          /\ offset + (a - Len(carry)) \in 1..Len(files[1])
          /\ 2 * (text[a] \div 2) = files[1][offset + (a - Len(carry))]
    BY AlertIsNew
  <2>. HIDE DEF text
  <2>3. \A l \in Alerts(text) : \E k \in 1..Len(files[1]) : 2 * l = files[1][k]
    BY <2>2 DEF Alerts
  <2>4. \A e \in refused' :
          \/ e \in refused
          \/ e.pass = pass /\ e.line \in Alerts(text)
    BY <2>1 DEF Entry
  <2>5. \A x \in Past' : x \in Past \/ \E l \in Alerts(text) : x = 2 * l
    BY <2>1, <2>4 DEF Past
  <2>6. \A x \in Past' : x \in Past \/ \E k \in 1..Len(files[1]) : x = files[1][k]
    BY <2>3, <2>5
  <2>. QED BY <2>1, <2>4, <2>6, PastRead
<1>. QED BY <1>1, <1>2, <1>3, <1>4, <1>5, <1>6, <1>7 DEF Next, Follow

LEMMA PastHolds == Spec => []PastInv
BY PastInit, PastNext, TypeHolds, OrderHolds, PTL DEF Spec

-----------------------------------------------------------------------------
(* Exactness.                                                              *)

(***************************************************************************)
(* A text that is cut after a newline has the alerts of its parts, and the *)
(* rest of the second.                                                     *)
(***************************************************************************)
LEMMA CutAtNewline ==
  ASSUME NEW p \in Seq(Half), NEW v \in Seq(Half),
         Len(p) # 0 => Ends(p[Len(p)])
  PROVE  /\ LineEnds(p \o v) = LineEnds(p) \cup {Len(p) + i : i \in LineEnds(v)}
         /\ Rest(p \o v) = Rest(v)
<1>. DEFINE t == p \o v
            n == Len(p)
<1>1. /\ t \in Seq(Half) /\ n \in Nat /\ Len(v) \in Nat
      /\ Len(t) = n + Len(v)
      /\ \A i \in 1..n : t[i] = p[i]
      /\ \A i \in 1..Len(v) : t[n + i] = v[i]
  <2>. HIDE DEF Half
  <2>. QED OBVIOUS
<1>2. \A i \in 1..Len(t) : t[i] \in Int
  <2>1. \A i \in 1..Len(t) : t[i] \in Half
    BY <1>1, ElementOfSeq
  <2>. QED BY <2>1 DEF Half
<1>3. n # 0 => Ends(t[n])
  BY <1>1
<1>4. \A k \in Int : ~(Ends(k) /\ Ends(k - 1))
  BY DEF Ends
<1>. HIDE DEF t, n
<1>5. ASSUME NEW i \in 1..n PROVE i \in LineEnds(t) <=> i \in LineEnds(p)
  <2>1. /\ i \in 2..Len(t) <=> i \in 2..Len(p)
        /\ t[i] = p[i] /\ (i \in 2..Len(p) => t[i - 1] = p[i - 1])
        /\ (i > 2 => t[i - 2] = p[i - 2])
    <3>1. /\ i \in 2..Len(p) => i - 1 \in 1..n
          /\ i > 2 => i - 2 \in 1..n
          /\ i \in 2..Len(t) <=> i \in 2..Len(p)
      BY <1>1 DEF n
    <3>. QED BY <1>1, <3>1
  <2>. QED BY <2>1 DEF LineEnds
<1>6. ASSUME NEW i \in 1..Len(v)
      PROVE  n + i \in LineEnds(t) <=> i \in LineEnds(v)
  <2>1. t[n + i] = v[i] /\ i \in Int /\ n + i \in 1..Len(t)
    BY <1>1
  <2>2. CASE i = 1
    <3>1. i \notin LineEnds(v)
      BY <2>2 DEF LineEnds
    <3>2. ASSUME n + i \in LineEnds(t) PROVE FALSE
      <4>0. n + i \in 2..Len(t)
        BY <3>2 DEF LineEnds
      <4>1. n # 0 /\ n + i - 1 = n /\ n \in 1..Len(t)
        BY <1>1, <2>2, <4>0
      <4>2. t[n + i - 1] = t[n + i] - 1 /\ Ends(t[n + i])
        BY <1>1, <2>1, <3>2 DEF LineEnds
      <4>3. Ends(t[n + i] - 1)
        BY <1>3, <4>1, <4>2
      <4>. QED BY <1>2, <1>4, <2>1, <4>2, <4>3
    <3>. QED BY <3>1, <3>2
  <2>3. CASE i # 1
    <3>1. i - 1 \in 1..Len(v) /\ n + i - 1 = n + (i - 1)
      BY <1>1, <2>3
    <3>2. t[n + i - 1] = v[i - 1]
      BY <1>1, <3>1
    <3>3. i \in 2..Len(v) /\ n + i \in 2..Len(t)
      BY <1>1, <2>3
    <3>4. (n + i > 2 => Ends(t[n + i - 2])) <=> (i > 2 => Ends(v[i - 2]))
      <4>1. CASE i = 2
        <5>1. n + i - 2 = n /\ (n + i > 2 <=> n # 0) /\ ~(i > 2)
          BY <1>1, <4>1
        <5>. QED BY <1>3, <5>1
      <4>2. CASE i # 2
        <5>1. /\ i > 2 /\ n + i > 2 /\ i - 2 \in 1..Len(v)
              /\ n + i - 2 = n + (i - 2)
          BY <1>1, <2>3, <4>2
        <5>2. t[n + i - 2] = v[i - 2]
          BY <1>1, <5>1
        <5>. QED BY <5>1, <5>2
      <4>. QED BY <4>1, <4>2
    <3>5. n + i \in LineEnds(t) <=>
            /\ n + i \in 2..Len(t) /\ Ends(t[n + i])
            /\ t[n + i - 1] = t[n + i] - 1
            /\ n + i > 2 => Ends(t[n + i - 2])
      BY <1>1, <2>1 DEF LineEnds
    <3>6. i \in LineEnds(v) <=>
            /\ i \in 2..Len(v) /\ Ends(v[i])
            /\ v[i - 1] = v[i] - 1
            /\ i > 2 => Ends(v[i - 2])
      BY DEF LineEnds
    <3>. QED BY <2>1, <3>2, <3>3, <3>4, <3>5, <3>6
  <2>. QED BY <2>2, <2>3
<1>7. /\ \A i \in LineEnds(t) : i \in 1..n \/ (i - n \in 1..Len(v) /\ n + (i - n) = i)
      /\ \A i \in LineEnds(p) : i \in 1..n
      /\ \A i \in LineEnds(v) : i \in 1..Len(v)
  BY <1>1 DEF LineEnds, n
<1>8. LineEnds(t) = LineEnds(p) \cup {n + i : i \in LineEnds(v)}
  <2>1. \A i \in LineEnds(t) : i \in LineEnds(p) \cup {n + j : j \in LineEnds(v)}
    BY <1>5, <1>6, <1>7
  <2>2. \A i \in LineEnds(p) : i \in LineEnds(t)
    BY <1>5, <1>7
  <2>3. \A i \in LineEnds(v) : n + i \in LineEnds(t)
    BY <1>6, <1>7
  <2>. QED BY <2>1, <2>2, <2>3
<1>9. Rest(t) = Rest(v)
  <2>0. Half \in SUBSET Int
    BY DEF Half
  <2>1. PICK m \in 0..Len(v) :
          /\ Rest(v) = SubSeq(v, m + 1, Len(v))
          /\ m # 0 => Ends(v[m])
          /\ \A i \in m + 1..Len(v) : ~Ends(v[i])
    BY <2>0, RestBegins
  <2>2. PICK k \in 0..Len(t) :
          /\ Rest(t) = SubSeq(t, k + 1, Len(t))
          /\ k # 0 => Ends(t[k])
          /\ \A i \in k + 1..Len(t) : ~Ends(t[i])
    BY <2>0, <1>1, RestBegins
  <2>3. k = n + m
    <3>1. ~(k < n + m)
      <4>1. ASSUME k < n + m PROVE FALSE
        <5>1. n + m \in k + 1..Len(t) /\ n + m # 0
          BY <1>1, <4>1
        <5>2. Ends(t[n + m])
          <6>1. CASE m = 0
            BY <1>1, <1>3, <5>1, <6>1
          <6>2. CASE m # 0
            <7>1. m \in 1..Len(v)
              BY <6>2
            <7>. QED BY <1>1, <2>1, <6>2, <7>1
          <6>. QED BY <6>1, <6>2
        <5>. QED BY <2>2, <5>1, <5>2
      <4>. QED BY <4>1
    <3>2. ~(n + m < k)
      <4>1. ASSUME n + m < k PROVE FALSE
        <5>1. /\ k - n \in m + 1..Len(v) /\ k - n \in 1..Len(v)
              /\ n + (k - n) = k /\ k # 0
          BY <1>1, <4>1
        <5>2. t[k] = v[k - n]
          BY <1>1, <5>1
        <5>. QED BY <2>1, <2>2, <5>1, <5>2
      <4>. QED BY <4>1
    <3>. QED BY <1>1, <3>1, <3>2
  <2>4. /\ SubSeq(t, k + 1, Len(t)) \in Seq(Half)
        /\ SubSeq(v, m + 1, Len(v)) \in Seq(Half)
        /\ Len(SubSeq(t, k + 1, Len(t))) = Len(v) - m
        /\ Len(SubSeq(v, m + 1, Len(v))) = Len(v) - m
        /\ \A i \in 1..Len(v) - m : SubSeq(t, k + 1, Len(t))[i] = t[k + i]
        /\ \A i \in 1..Len(v) - m : SubSeq(v, m + 1, Len(v))[i] = v[m + i]
    <3>1. \A i \in k + 1..Len(t) : i \in 1..Len(t)
      OBVIOUS
    <3>2. \A i \in k + 1..Len(t) : t[i] \in Half
      BY <1>1, <3>1, ElementOfSeq
    <3>3. \A i \in m + 1..Len(v) : i \in 1..Len(v)
      OBVIOUS
    <3>4. \A i \in m + 1..Len(v) : v[i] \in Half
      BY <3>3, ElementOfSeq
    <3>5. k + 1 \in Int /\ m + 1 \in Int /\ Len(t) \in Int /\ Len(v) \in Int
      BY <1>1
    <3>6. /\ SubSeq(t, k + 1, Len(t)) \in Seq(Half)
          /\ Len(SubSeq(t, k + 1, Len(t))) =
               IF k + 1 <= Len(t) THEN Len(t) - (k + 1) + 1 ELSE 0
          /\ \A i \in 1..Len(t) - (k + 1) + 1 :
               SubSeq(t, k + 1, Len(t))[i] = t[(k + 1) + i - 1]
      BY <3>2, <3>5, SubSeqProperties
    <3>7. /\ SubSeq(v, m + 1, Len(v)) \in Seq(Half)
          /\ Len(SubSeq(v, m + 1, Len(v))) =
               IF m + 1 <= Len(v) THEN Len(v) - (m + 1) + 1 ELSE 0
          /\ \A i \in 1..Len(v) - (m + 1) + 1 :
               SubSeq(v, m + 1, Len(v))[i] = v[(m + 1) + i - 1]
      BY <3>4, <3>5, SubSeqProperties
    <3>8. /\ Len(t) - (k + 1) + 1 = Len(v) - m
          /\ Len(v) - (m + 1) + 1 = Len(v) - m
          /\ (k + 1 <= Len(t) <=> m + 1 <= Len(v))
          /\ (~(m + 1 <= Len(v)) => Len(v) - m = 0)
          /\ \A i \in Int : (k + 1) + i - 1 = k + i /\ (m + 1) + i - 1 = m + i
      BY <1>1, <2>3
    <3>9. Len(v) - m \in Int
      BY <1>1
    <3>. DEFINE xs == SubSeq(t, k + 1, Len(t))
                ys == SubSeq(v, m + 1, Len(v))
    <3>10. /\ Len(xs) = Len(v) - m /\ Len(ys) = Len(v) - m
      <4>. HIDE DEF xs, ys
      <4>. QED BY <3>6, <3>7, <3>8 DEF xs, ys
    <3>11. /\ \A i \in 1..Len(v) - m : xs[i] = t[k + i]
           /\ \A i \in 1..Len(v) - m : ys[i] = v[m + i]
      <4>1. /\ \A i \in 1..Len(v) - m : xs[i] = t[(k + 1) + i - 1]
            /\ \A i \in 1..Len(v) - m : ys[i] = v[(m + 1) + i - 1]
        BY <3>6, <3>7, <3>8
      <4>2. \A i \in 1..Len(v) - m : (k + 1) + i - 1 = k + i /\ (m + 1) + i - 1 = m + i
        BY <3>9
      <4>. HIDE DEF xs, ys
      <4>. QED BY <4>1, <4>2
    <3>. QED BY <3>6, <3>7, <3>10, <3>11
  <2>5. \A i \in 1..Len(v) - m : t[k + i] = v[m + i]
    <3>1. \A i \in 1..Len(v) - m : m + i \in 1..Len(v) /\ k + i = n + (m + i)
      BY <1>1, <2>3
    <3>. QED BY <1>1, <3>1
  <2>. DEFINE x == SubSeq(t, k + 1, Len(t))
              y == SubSeq(v, m + 1, Len(v))
  <2>6. x = y
    <3>1. /\ x \in Seq(Half) /\ y \in Seq(Half) /\ Len(x) = Len(y)
          /\ \A i \in 1..Len(x) : x[i] = y[i]
      BY <2>4, <2>5
    <3>. HIDE DEF x, y
    <3>. QED BY <3>1, SeqEqual
  <2>. QED BY <2>1, <2>2, <2>6
<1>. QED BY <1>8, <1>9 DEF t, n

LEMMA AlertsOfCut ==
  ASSUME NEW p \in Seq(Half), NEW v \in Seq(Half),
         Len(p) # 0 => Ends(p[Len(p)])
  PROVE  Alerts(p \o v) = Alerts(p) \cup Alerts(v)
<1>. DEFINE t == p \o v
            n == Len(p)
<1>1. LineEnds(t) = LineEnds(p) \cup {n + i : i \in LineEnds(v)}
  BY CutAtNewline
<1>2. /\ \A i \in LineEnds(p) : t[i] = p[i]
      /\ \A i \in LineEnds(v) : t[n + i] = v[i]
  <2>1. /\ \A i \in 1..n : t[i] = p[i]
        /\ \A i \in 1..Len(v) : t[n + i] = v[i]
        /\ n \in Nat /\ Len(v) \in Nat
    <3>. HIDE DEF Half
    <3>. QED OBVIOUS
  <2>2. /\ \A i \in LineEnds(p) : i \in 1..n
        /\ \A i \in LineEnds(v) : i \in 1..Len(v)
    BY <2>1 DEF LineEnds
  <2>. QED BY <2>1, <2>2
<1>. HIDE DEF t, n
<1>3. Alerts(t) = Alerts(p) \cup Alerts(v)
  BY <1>1, <1>2 DEF Alerts
<1>. QED BY <1>3 DEF t

(***************************************************************************)
(* Reading on: the alerts of all that was read are those found before and  *)
(* those of what was left over and the new text together.                  *)
(***************************************************************************)
LEMMA ReadingOn ==
  ASSUME NEW s \in Seq(Half), NEW u \in Seq(Half)
  PROVE  /\ Alerts(s \o u) = Alerts(s) \cup Alerts(Rest(s) \o u)
         /\ Rest(s \o u) = Rest(Rest(s) \o u)
<1>1. Half \in SUBSET Int
  BY DEF Half
<1>2. PICK m \in 0..Len(s) :
        /\ Rest(s) = SubSeq(s, m + 1, Len(s))
        /\ m # 0 => Ends(s[m])
        /\ \A i \in m + 1..Len(s) : ~Ends(s[i])
  BY <1>1, RestBegins
<1>. DEFINE p == SubSeq(s, 1, m)
            r == SubSeq(s, m + 1, Len(s))
<1>3. p \in Seq(Half) /\ r \in Seq(Half)
  BY CutType
<1>4. p \o r = s
  <2>1. 1 \in 1..Len(s) + 1 /\ m \in 1 - 1..Len(s) /\ Len(s) \in m..Len(s)
    BY LenProperties
  <2>2. p \o r = SubSeq(s, 1, Len(s))
    BY <2>1, ConcatAdjacentSubSeq
  <2>. QED BY <2>2, SubSeqFull
<1>5. Len(p) = m /\ (m # 0 => p[m] = s[m])
  <2>1. \A i \in 1..m : s[i] \in Half
    BY ElementOfSeq
  <2>2. /\ Len(p) = IF 1 <= m THEN m - 1 + 1 ELSE 0
        /\ \A i \in 1..m - 1 + 1 : p[i] = s[1 + i - 1]
    BY <2>1, SubSeqProperties
  <2>3. m \in 0..m /\ (m # 0 => m \in 1..m - 1 + 1 /\ 1 + m - 1 = m)
    OBVIOUS
  <2>. HIDE DEF p
  <2>. QED BY <2>2, <2>3
<1>6. LineEnds(r) = {}
  <2>1. \A i \in 1..Len(r) : ~Ends(r[i])
    <3>1. \A i \in m + 1..Len(s) : i \in 1..Len(s)
      OBVIOUS
    <3>2. \A i \in m + 1..Len(s) : s[i] \in Half
      BY <3>1, ElementOfSeq
    <3>3. /\ Len(r) = IF m + 1 <= Len(s) THEN Len(s) - (m + 1) + 1 ELSE 0
          /\ \A i \in 1..Len(s) - (m + 1) + 1 : r[i] = s[(m + 1) + i - 1]
      BY <3>2, SubSeqProperties
    <3>4. Len(s) \in Nat
      BY LenProperties
    <3>. HIDE DEF r
    <3>5. \A i \in 1..Len(r) : /\ i \in 1..Len(s) - (m + 1) + 1
                               /\ (m + 1) + i - 1 \in m + 1..Len(s)
      BY <3>3, <3>4
    <3>. QED BY <1>2, <3>3, <3>5
  <2>2. \A i \in 2..Len(r) : i \in 1..Len(r)
    BY <1>3
  <2>. HIDE DEF r
  <2>. QED BY <2>1, <2>2 DEF LineEnds
<1>. HIDE DEF p, r
<1>7. Len(p) # 0 => Ends(p[Len(p)])
  BY <1>2, <1>5
<1>8. Alerts(s) = Alerts(p)
  <2>1. Alerts(p \o r) = Alerts(p) \cup Alerts(r)
    BY <1>3, <1>7, AlertsOfCut
  <2>2. Alerts(r) = {}
    BY <1>6 DEF Alerts
  <2>. QED BY <1>4, <2>1, <2>2
<1>9. r \o u \in Seq(Half) /\ s \o u = p \o (r \o u)
  <2>1. r \o u \in Seq(Half)
    BY <1>3, ConcatProperties
  <2>2. (p \o r) \o u = p \o (r \o u)
    BY <1>3, ConcatAssociative, SMTT(30)
  <2>. QED BY <1>4, <2>1, <2>2
<1>10. Rest(s) = r
  BY <1>2 DEF r
<1>11. Alerts(p \o (r \o u)) = Alerts(p) \cup Alerts(r \o u)
  BY <1>3, <1>7, <1>9, AlertsOfCut
<1>12. Rest(p \o (r \o u)) = Rest(r \o u)
  BY <1>3, <1>7, <1>9, CutAtNewline
<1>. QED BY <1>8, <1>9, <1>10, <1>11, <1>12

(***************************************************************************)
(* A text without the halves of S, as a FlatMap of the text.               *)
(***************************************************************************)
Without(S) == [k \in Half |-> IF k \in S THEN <<>> ELSE <<k>>]
KeptOf(text, S) == FlatMap(text, Without(S))

LEMMA WithoutType == \A S : Without(S) \in [Half -> Seq(Half)]
BY DEF Without

LEMMA KeptType ==
  ASSUME NEW S, NEW text \in Seq(Half)
  PROVE  KeptOf(text, S) \in Seq(Half)
<1>. DEFINE h == Without(S)
<1>1. h \in [Half -> Seq(Half)]
  BY WithoutType
<1>. HIDE DEF h
<1>2. FlatMap(text, h) \in Seq(Half)
  BY <1>1, FlatMapType
<1>. QED BY <1>2 DEF KeptOf, h

LEMMA KeptIs ==
  ASSUME NEW S, NEW text \in Seq(Half)
  PROVE  FlattenSeq([i \in DOMAIN text |->
                       IF text[i] \in S THEN <<>> ELSE <<text[i]>>])
           = KeptOf(text, S)
<1>1. \A i \in DOMAIN text : text[i] \in Half
  BY LenProperties, ElementOfSeq
<1>2. \A k \in Half : Without(S)[k] = IF k \in S THEN <<>> ELSE <<k>>
  BY DEF Without
<1>3. \A i \in DOMAIN text :
        Without(S)[text[i]] = IF text[i] \in S THEN <<>> ELSE <<text[i]>>
  BY <1>1, <1>2
<1>. QED BY <1>3 DEF KeptOf, FlatMap, Each

LEMMA KeptConcat ==
  ASSUME NEW S, NEW s \in Seq(Half), NEW t \in Seq(Half)
  PROVE  KeptOf(s \o t, S) = KeptOf(s, S) \o KeptOf(t, S)
<1>. DEFINE h == Without(S)
<1>1. h \in [Half -> Seq(Half)]
  BY WithoutType
<1>. HIDE DEF h, Half
<1>2. FlatMap(s \o t, h) = FlatMap(s, h) \o FlatMap(t, h)
  BY <1>1, FlatMapConcat, ZenonT(30)
<1>. QED BY <1>2 DEF KeptOf, h

(* Only the halves that are in the text matter ...                         *)
LEMMA KeptSame ==
  ASSUME NEW S, NEW R, NEW text \in Seq(Half),
         \A i \in 1..Len(text) : text[i] \in S <=> text[i] \in R
  PROVE  KeptOf(text, S) = KeptOf(text, R)
<1>1. \A i \in DOMAIN text : text[i] \in Half /\ (text[i] \in S <=> text[i] \in R)
  BY LenProperties, ElementOfSeq
<1>2. \A k \in Half : /\ Without(S)[k] = IF k \in S THEN <<>> ELSE <<k>>
                      /\ Without(R)[k] = IF k \in R THEN <<>> ELSE <<k>>
  BY DEF Without
<1>3. \A i \in DOMAIN text : Without(S)[text[i]] = Without(R)[text[i]]
  BY <1>1, <1>2
<1>. QED BY <1>3 DEF KeptOf, FlatMap, Each

(* ... a text of which nothing goes stays ...                              *)
LEMMA KeptAll ==
  ASSUME NEW S, NEW text \in Seq(Half), \A i \in 1..Len(text) : text[i] \notin S
  PROVE  KeptOf(text, S) = text
<1>. DEFINE T == {s \in Seq(Half) : KeptOf(s, {}) = s}
            h == Without({})
<1>0. h \in [Half -> Seq(Half)] /\ \A x \in Half : h[x] = <<x>>
  BY WithoutType DEF Without
<1>. HIDE DEF h, Half
<1>1. <<>> \in T
  <2>1. FlattenSeq(<<>>) = <<>> /\ Each(<<>>, h) = <<>>
    BY DEF FlattenSeq, Each
  <2>. QED BY <2>1 DEF KeptOf, FlatMap, h
<1>2. ASSUME NEW s \in T, NEW x \in Half PROVE Append(s, x) \in T
  <2>1. s \in Seq(Half) /\ FlatMap(s, h) = s
    BY DEF KeptOf, h
  <2>2. FlatMap(Append(s, x), h) = FlatMap(s, h) \o h[x]
    BY <1>0, <2>1, FlatMapAppend, ZenonT(30)
  <2>3. s \o <<x>> = Append(s, x) /\ Append(s, x) \in Seq(Half)
    BY <2>1, AppendIsConcat, AppendProperties
  <2>. QED BY <1>0, <2>1, <2>2, <2>3 DEF KeptOf, h
<1>3. text \in T
  <2>1. T \in SUBSET Seq(Half)
    OBVIOUS
  <2>. HIDE DEF T
  <2>. QED BY <1>1, <1>2, <2>1, AllSequences
<1>4. KeptOf(text, S) = KeptOf(text, {})
  BY KeptSame
<1>. QED BY <1>3, <1>4

(* ... and of one of which everything goes nothing does.                   *)
LEMMA KeptNone ==
  ASSUME NEW S, NEW text \in Seq(Half), \A i \in 1..Len(text) : text[i] \in S
  PROVE  KeptOf(text, S) = <<>>
<1>. DEFINE h == Without(S)
            s == Each(text, h)
            Q == Seq(Half)
<1>1. h \in [Half -> Q]
  BY WithoutType
<1>2. s \in Seq(Q)
  <2>. HIDE DEF h, Q, Half
  <2>. QED BY <1>1, EachType
<1>3. Len(s) = Len(text) /\ \A i \in 1..Len(text) : s[i] = h[text[i]]
  BY EachIs
<1>4. \A i \in 1..Len(text) : h[text[i]] = <<>>
  BY ElementOfSeq DEF Without
<1>5. \A i \in 1..Len(s) : s[i] = <<>>
  BY <1>3, <1>4
<1>. HIDE DEF s, h
<1>6. FlattenSeq(s) = <<>>
  BY <1>2, <1>5, FlattenNone
<1>. QED BY <1>6 DEF KeptOf, FlatMap, s, h

(***************************************************************************)
(* The inductive form.  What was refused is a part of what was found, so   *)
(* that nothing found twice could hide in the difference.                  *)
(***************************************************************************)
Exact ==
  /\ base <= offset /\ offset <= Len(files[1])
  /\ LinesOf(refused) \subseteq Alerts(Got)
  /\ LinesOf(ToSet(out)) = Alerts(Got) \ LinesOf(refused)
  /\ carry = Rest(Got)

CleanInv == clean /\ ~unseen => Exact

(* What was read in this pass is a part of the first file. *)
LEMMA SeenIs ==
  ASSUME NEW f \in Seq(Half), NEW b \in Nat, NEW o \in Nat,
         b <= o, o <= Len(f)
  PROVE  /\ SubSeq(f, b + 1, o) \in Seq(Half)
         /\ Len(SubSeq(f, b + 1, o)) = o - b
         /\ \A i \in 1..o - b : /\ SubSeq(f, b + 1, o)[i] = f[b + i]
                                /\ b + i \in 1..o /\ b + i \in 1..Len(f)
<1>1. \A i \in b + 1..o : i \in 1..Len(f)
  BY LenProperties
<1>2. \A i \in b + 1..o : f[i] \in Half
  BY <1>1, ElementOfSeq
<1>3. /\ SubSeq(f, b + 1, o) \in Seq(Half)
      /\ Len(SubSeq(f, b + 1, o)) = IF b + 1 <= o THEN o - (b + 1) + 1 ELSE 0
      /\ \A i \in 1..o - (b + 1) + 1 : SubSeq(f, b + 1, o)[i] = f[(b + 1) + i - 1]
  BY <1>2, SubSeqProperties
<1>4. /\ o - (b + 1) + 1 = o - b /\ (~(b + 1 <= o) => o - b = 0)
      /\ \A i \in 1..o - b : /\ (b + 1) + i - 1 = b + i
                             /\ b + i \in 1..o /\ b + i \in 1..Len(f)
  BY LenProperties
<1>. DEFINE x == SubSeq(f, b + 1, o)
<1>. HIDE DEF x
<1>. QED BY <1>3, <1>4 DEF x

LEMMA NothingSeen ==
  ASSUME NEW f
  PROVE  /\ SubSeq(f, 0 + 1, 0) = <<>> /\ Alerts(<<>>) = {} /\ Rest(<<>>) = <<>>
<1>1. SubSeq(f, 0 + 1, 0) = <<>> /\ SubSeq(<<>>, 0 + 1, 0) = <<>>
  BY SubSeqEmpty
<1>2. LineEnds(<<>>) = {}
  BY DEF LineEnds
<1>3. <<>> \in Seq(Half) /\ Half \in SUBSET Int /\ Len(<<>>) = 0
  BY DEF Half
<1>4. PICK m \in 0..0 : Rest(<<>>) = SubSeq(<<>>, m + 1, 0)
  BY <1>3, RestBegins
<1>. QED BY <1>1, <1>2, <1>4 DEF Alerts

(* What is open when a pass begins is no line yet. *)
LEMMA OpenText ==
  ASSUME NEW text \in Seq(Open)
  PROVE  Alerts(text) = {} /\ Rest(text) = text
<1>1. text \in Seq(Half)
  BY SeqMonotonic, Open \subseteq Half DEF Open
<1>2. \A i \in 1..Len(text) : ~Ends(text[i])
  BY ElementOfSeq DEF Open
<1>3. LineEnds(text) = {}
  <2>1. \A i \in 2..Len(text) : i \in 1..Len(text)
    BY <1>1, LenProperties
  <2>. QED BY <1>2, <2>1 DEF LineEnds
<1>4. PICK m \in 0..Len(text) :
        /\ Rest(text) = SubSeq(text, m + 1, Len(text))
        /\ m # 0 => Ends(text[m])
  BY <1>1, RestBegins, Half \in SUBSET Int DEF Half
<1>5. m = 0
  BY <1>2, <1>4
<1>6. SubSeq(text, 1, Len(text)) = text
  BY <1>1, SubSeqFull
<1>. QED BY <1>3, <1>4, <1>5, <1>6 DEF Alerts

(* The text of a pass that has read nothing is what was left over. *)
LEMMA GotNothing ==
  ASSUME NEW S, NEW text \in Seq(Half)
  PROVE  text \o KeptOf(<<>>, S) = text
<1>1. <<>> \in Seq(Half) /\ \A i \in 1..Len(<<>>) : <<>>[i] \in S
  OBVIOUS
<1>2. KeptOf(<<>>, S) = <<>>
  BY <1>1, KeptNone
<1>. QED BY <1>2, ConcatEmptySeq

LEMMA CleanInit == Init => CleanInv
<1>. SUFFICES ASSUME Init PROVE CleanInv
  OBVIOUS
<1>1. /\ written \in Nat /\ offset = written /\ base = written
      /\ files = <<[k \in 1..written |-> k]>> /\ left = <<>>
      /\ carry = <<>> /\ out = <<>> /\ refused = {}
  BY DEF Init
<1>2. Len(files[1]) = written
  BY <1>1
<1>3. Seen = <<>>
  BY <1>1, SubSeqEmpty DEF Seen
<1>4. Got = <<>>
  <2>1. <<>> \in Seq(Half)
    OBVIOUS
  <2>2. Kept(<<>>) = KeptOf(<<>>, skipped)
    BY <2>1, KeptIs DEF Kept
  <2>3. <<>> \o KeptOf(<<>>, skipped) = <<>>
    BY <2>1, GotNothing
  <2>. QED BY <1>1, <1>3, <2>2, <2>3 DEF Got
<1>5. Exact
  BY <1>1, <1>2, <1>4, NothingSeen DEF Exact, LinesOf, ToSet
<1>. QED BY <1>5 DEF CleanInv

(* What the text of the pass is, before a step ... *)
LEMMA GotIs ==
  ASSUME TypeInv, base <= offset, offset <= Len(files[1])
  PROVE  /\ Seen \in Seq(Half) /\ left \in Seq(Half)
         /\ Got = left \o KeptOf(Seen, skipped)
         /\ Got \in Seq(Half)
<1>1. Seen \in Seq(Half)
  BY FilesAre, SeenIs DEF Seen, TypeInv, TypeOK
<1>2. left \in Seq(Half)
  <2>1. left \in Seq(Open) /\ Open \subseteq Half
    BY DEF TypeInv, TypeOK, Open, Half
  <2>. QED BY <2>1, SeqMonotonic
<1>3. Kept(Seen) = KeptOf(Seen, skipped)
  BY <1>1, KeptIs DEF Kept
<1>4. KeptOf(Seen, skipped) \in Seq(Half)
  BY <1>1, KeptType
<1>. QED BY <1>1, <1>2, <1>3, <1>4, ConcatProperties DEF Got

(* ... and after it. *)
LEMMA GotNext ==
  ASSUME Seen' \in Seq(Half)
  PROVE  Got' = left' \o KeptOf(Seen', skipped')
<1>. DEFINE s == Seen'
            S == skipped'
<1>1. FlattenSeq([i \in DOMAIN s |-> IF s[i] \in S THEN <<>> ELSE <<s[i]>>])
        = KeptOf(s, S)
  <2>. HIDE DEF s, S
  <2>1. s \in Seq(Half)
    BY DEF s
  <2>. QED BY <2>1, KeptIs
<1>. QED BY <1>1 DEF Got, Kept

(* What was seen, after a read that went on to the end of the file. *)
LEMMA SeenNext ==
  ASSUME TypeInv, base <= offset, offset <= Len(files[1]),
         offset' = Max({offset, Len(files[1])}), UNCHANGED <<files, base>>
  PROVE  /\ offset' = Len(files[1])
         /\ Seen' = Seen \o Unread /\ Seen' \in Seq(Half)
         /\ Seen \in Seq(Half) /\ Unread \in Seq(Half)
<1>. DEFINE f == files[1]
<1>1. /\ f \in Seq(Half) /\ Len(f) \in Nat /\ offset \in Nat /\ base \in Nat
  BY FilesAre DEF TypeInv, TypeOK
<1>2. offset' = Len(f)
  BY OffsetAfter
<1>3. Unread = SubSeq(f, offset + 1, Len(f)) /\ Unread \in Seq(Half)
  BY TextIs DEF Unread, FromHandle
<1>4. Seen \in Seq(Half)
  BY <1>1, SeenIs DEF Seen
<1>5. SubSeq(f, base + 1, offset) \o SubSeq(f, offset + 1, Len(f))
        = SubSeq(f, base + 1, Len(f))
  <2>1. /\ base + 1 \in 1..Len(f) + 1 /\ offset \in (base + 1) - 1..Len(f)
        /\ Len(f) \in offset..Len(f)
    BY <1>1
  <2>. QED BY <1>1, <2>1, ConcatAdjacentSubSeq
<1>6. Seen' = Seen \o Unread
  BY <1>2, <1>3, <1>5 DEF Seen
<1>. QED BY <1>2, <1>3, <1>4, <1>6, ConcatProperties

(* The lines of the entries queued by one read. *)
LEMMA LinesQueued ==
  ASSUME TypeInv, NEW full
  PROVE  LET text == carry \o Unread
         IN  /\ LinesOf(ToSet(Queued(text, full))) = Alerts(text) \ full
             /\ LinesOf({Entry(l) : l \in Alerts(text) \cap full}) =
                  Alerts(text) \cap full
<1>. DEFINE text == carry \o Unread
            q == Queued(text, full)
<1>0. text \in Seq(Half) /\ pass \in Nat
  BY TextIs DEF TypeInv, TypeOK
<1>. HIDE DEF text
<1>1. /\ q \in Seq(Entries)
      /\ \A i \in 1..Len(q) : \E a \in LineEnds(text) :
           q[i] = Entry(text[a] \div 2) /\ text[a] \div 2 \notin full
      /\ \A a \in LineEnds(text) : text[a] \div 2 \notin full =>
           \E i \in 1..Len(q) : q[i] = Entry(text[a] \div 2)
  BY <1>0, QueuedProperties
<1>. HIDE DEF q
<1>2. ToSet(q) = {q[i] : i \in 1..Len(q)}
  BY <1>1 DEF ToSet
<1>3. ASSUME NEW e \in ToSet(q)
      PROVE  e.pass = pass /\ e.line \in Alerts(text) \ full
  <2>1. PICK i \in 1..Len(q) : e = q[i]
    BY <1>2
  <2>2. PICK a \in LineEnds(text) :
          q[i] = Entry(text[a] \div 2) /\ text[a] \div 2 \notin full
    BY <1>1
  <2>3. text[a] \div 2 \in Alerts(text)
    BY DEF Alerts
  <2>. QED BY <2>1, <2>2, <2>3 DEF Entry
<1>4. \A l \in Alerts(text) \ full : Entry(l) \in ToSet(q)
  BY <1>1, <1>2 DEF Alerts
<1>5. \A l : Entry(l).pass = pass /\ Entry(l).line = l
  BY DEF Entry
<1>6. LinesOf(ToSet(q)) = Alerts(text) \ full
  BY <1>3, <1>4, <1>5 DEF LinesOf
<1>7. LinesOf({Entry(l) : l \in Alerts(text) \cap full}) = Alerts(text) \cap full
  BY <1>5 DEF LinesOf
<1>. QED BY <1>6, <1>7 DEF text, q

(* No alert of a new text is one of the pass already. *)
LEMMA NewAlerts ==
  ASSUME TypeInv, OrderInv, PastInv, Exact
  PROVE  \A l \in Alerts(Got) : l \notin Alerts(carry \o Unread)
<1>. DEFINE text == carry \o Unread
<1>1. \A a \in LineEnds(text) :
        /\ offset + (a - Len(carry)) \in offset + 1..Len(files[1])
        /\ 2 * (text[a] \div 2) = files[1][offset + (a - Len(carry))]
        /\ text[a] \in Half
  BY AlertIsNew
<1>2. \A a \in LineEnds(text) : 2 * (text[a] \div 2) \in Int
  <2>1. \A k \in Half : 2 * (k \div 2) \in Int
    BY DEF Half
  <2>. HIDE DEF text
  <2>. QED BY <1>1, <2>1
<1>. HIDE DEF text
<1>3. \A l \in Alerts(text) :
        /\ 2 * l \in Int
        /\ \E k \in offset + 1..Len(files[1]) : 2 * l = files[1][k]
  BY <1>1, <1>2 DEF Alerts
<1>4. ASSUME NEW l \in Alerts(text) PROVE l \notin LinesOf(refused)
  <2>1. l \in LinesOf(refused) => 2 * l \in Past
    BY DEF LinesOf, Past
  <2>2. 2 * l \in Past => \A k \in offset + 1..Len(files[1]) : 2 * l < files[1][k]
    BY DEF PastInv
  <2>. QED BY <1>3, <2>1, <2>2
<1>5. ASSUME NEW l \in Alerts(text) PROVE l \notin LinesOf(ToSet(out))
  <2>1. DOMAIN out = 1..Len(out)
    BY LenProperties DEF TypeInv, TypeOK
  <2>2. ASSUME l \in LinesOf(ToSet(out)) PROVE FALSE
    <3>1. PICK i \in 1..Len(out) : out[i].pass = pass /\ out[i].line = l
      BY <2>1, <2>2 DEF LinesOf, ToSet
    <3>2. \A k \in offset + 1..Len(files[1]) : 2 * l < files[1][k]
      BY <3>1 DEF OrderInv, OutBehind
    <3>. QED BY <1>3, <3>2
  <2>. QED BY <2>2
<1>6. Alerts(Got) \subseteq LinesOf(ToSet(out)) \cup LinesOf(refused)
  BY DEF Exact
<1>. QED BY <1>4, <1>5, <1>6 DEF text

LEMMA CleanRead ==
  ASSUME TypeInv, OrderInv, PastInv, CleanInv, NEW full, Read(full)
  PROVE  CleanInv'
<1>. DEFINE text == carry \o Unread
            q == Queued(text, full)
            no == {Entry(l) : l \in Alerts(text) \cap full}
<1>1. /\ carry' = Rest(text) /\ out' = out \o q /\ refused' = refused \cup no
      /\ UNCHANGED <<files, pass, base, left, skipped, unseen, clean>>
      /\ offset' = Max({offset, Len(files[1])})
  BY DEF Read, fileVars
<1>. SUFFICES ASSUME clean, ~unseen PROVE Exact'
  BY <1>1 DEF CleanInv
<1>2. /\ Exact /\ base <= offset /\ offset <= Len(files[1])
      /\ Len(files[1]) \in Nat /\ offset \in Nat /\ base \in Nat
  BY FilesAre DEF CleanInv, Exact, TypeInv, TypeOK
<1>3. /\ offset' = Len(files[1]) /\ Seen' = Seen \o Unread
      /\ Seen' \in Seq(Half) /\ Seen \in Seq(Half) /\ Unread \in Seq(Half)
  BY <1>1, <1>2, SeenNext
<1>4. KeptOf(Unread, skipped) = Unread
  <2>1. \A i \in 1..Len(Unread) : /\ offset + i \in offset + 1..Len(files[1])
                                  /\ Unread[i] = files[1][offset + i]
    BY <1>2, FilesAre, UnreadIs
  <2>2. ASSUME NEW i \in 1..Len(Unread), Unread[i] \in skipped PROVE FALSE
    <3>1. Unread[i] \in Int /\ Unread[i] < files[1][offset + i]
      BY <2>1, <2>2 DEF PastInv, Past
    <3>. QED BY <2>1, <3>1
  <2>. QED BY <1>3, <2>2, KeptAll
<1>5. /\ Got \in Seq(Half) /\ Got = left \o KeptOf(Seen, skipped)
      /\ left \in Seq(Half)
  BY <1>2, GotIs
<1>6. Got' = Got \o Unread
  <2>. DEFINE k == KeptOf(Seen, skipped)
              u == Unread
              l == left
  <2>1. Got' = l \o KeptOf(Seen \o u, skipped)
    BY <1>1, <1>3, GotNext
  <2>2. KeptOf(Seen \o u, skipped) = k \o u
    <3>1. KeptOf(Seen \o u, skipped) = KeptOf(Seen, skipped) \o KeptOf(u, skipped)
      BY ONLY <1>3, KeptConcat
    <3>. QED BY <1>4, <3>1
  <2>3. l \in Seq(Half) /\ k \in Seq(Half) /\ u \in Seq(Half)
    BY <1>3, <1>5, KeptType
  <2>. HIDE DEF l, k, u
  <2>4. (l \o k) \o u = l \o (k \o u)
    BY ONLY <2>3, ConcatAssociative, SMTT(30)
  <2>. QED BY <1>5, <2>1, <2>2, <2>4 DEF l, k, u
<1>7. /\ Alerts(Got') = Alerts(Got) \cup Alerts(text)
      /\ carry' = Rest(Got')
  BY <1>1, <1>2, <1>3, <1>5, <1>6, ReadingOn DEF Exact
<1>8. \A l \in Alerts(Got) : l \notin Alerts(text)
  BY <1>2, NewAlerts
<1>9. /\ LinesOf(ToSet(out))' = LinesOf(ToSet(out)) \cup LinesOf(ToSet(q))
      /\ LinesOf(refused)' = LinesOf(refused) \cup LinesOf(no)
  <2>1. out \in Seq(Entries) /\ q \in Seq(Entries)
    BY TextIs, QueuedProperties DEF TypeInv, TypeOK
  <2>. HIDE DEF q, no
  <2>2. ToSet(out') = ToSet(out) \cup ToSet(q)
    BY <1>1, <2>1, ToSetConcat
  <2>3. /\ LinesOf(ToSet(out))' = LinesOf(ToSet(out'))
        /\ LinesOf(refused)' = LinesOf(refused')
    BY <1>1 DEF LinesOf, ToSet
  <2>4. \A A, B : LinesOf(A \cup B) = LinesOf(A) \cup LinesOf(B)
    BY DEF LinesOf
  <2>. QED BY <1>1, <2>2, <2>3, <2>4
<1>10. /\ LinesOf(ToSet(q)) = Alerts(text) \ full
       /\ LinesOf(no) = Alerts(text) \cap full
  BY LinesQueued
<1>. HIDE DEF text, q, no
<1>11. Alerts(Got)' = Alerts(Got) \cup Alerts(text) /\ carry' = Rest(Got)'
  BY <1>7 DEF Alerts, LineEnds, Rest, Ends
<1>12. /\ LinesOf(refused)' \subseteq Alerts(Got)'
       /\ LinesOf(ToSet(out))' = Alerts(Got)' \ LinesOf(refused)'
  <2>. DEFINE A == Alerts(Got)
              B == Alerts(text)
              O == LinesOf(ToSet(out))
              R == LinesOf(refused)
  <2>1. R \subseteq A /\ O = A \ R /\ \A l \in A : l \notin B
    BY <1>2, <1>8 DEF Exact
  <2>2. /\ Alerts(Got)' = A \cup B
        /\ LinesOf(refused)' = R \cup (B \cap full)
        /\ LinesOf(ToSet(out))' = O \cup (B \ full)
    BY <1>9, <1>10, <1>11
  <2>. HIDE DEF A, B, O, R
  <2>. QED BY <2>1, <2>2
<1>13. base' <= offset' /\ offset' <= Len(files'[1])
  <2>. DEFINE n == Len(files[1])
  <2>1. base' = base /\ offset' = n /\ Len(files'[1]) = n
    BY <1>1, <1>3
  <2>2. base <= offset /\ offset <= n /\ n \in Nat
    BY <1>2
  <2>. HIDE DEF n
  <2>. QED BY ONLY <1>2, <2>1, <2>2
<1>. QED BY <1>11, <1>12, <1>13 DEF Exact

(***************************************************************************)
(* The text of the pass is the same, and nothing was taken or refused.     *)
(***************************************************************************)
LEMMA ExactStays ==
  ASSUME Exact, Got' = Got, base' <= offset', offset' <= Len(files'[1]),
         UNCHANGED <<pass, carry, out, refused>>
  PROVE  Exact'
<1>1. Alerts(Got)' = Alerts(Got) /\ Rest(Got)' = Rest(Got)
  BY DEF Alerts, LineEnds, Rest, Ends
<1>2. /\ LinesOf(refused)' = LinesOf(refused)
      /\ LinesOf(ToSet(out))' = LinesOf(ToSet(out))
  BY DEF LinesOf, ToSet
<1>. QED BY <1>1, <1>2 DEF Exact

(* A failed read has gone over halves that are in none of what was read.   *)
LEMMA CleanFailRead ==
  ASSUME TypeInv, OrderInv, CleanInv, FailRead
  PROVE  CleanInv'
<1>1. /\ UNCHANGED <<files, pass, base, left, carry, out, refused, unseen, clean>>
      /\ offset' = Max({offset, Len(files[1])})
      /\ skipped' = skipped \cup ToSet(Unread)
  BY DEF FailRead, fileVars
<1>. SUFFICES ASSUME clean, ~unseen PROVE Exact'
  BY <1>1 DEF CleanInv
<1>. DEFINE f == files[1]
<1>2. /\ Exact /\ base <= offset /\ offset <= Len(f) /\ f \in Seq(Half)
      /\ Len(f) \in Nat /\ offset \in Nat /\ base \in Nat
  BY FilesAre DEF CleanInv, Exact, TypeInv, TypeOK
<1>3. /\ offset' = Len(f) /\ Seen' = Seen \o Unread
      /\ Seen' \in Seq(Half) /\ Seen \in Seq(Half) /\ Unread \in Seq(Half)
  BY <1>1, <1>2, SeenNext
<1>4. /\ DOMAIN Unread = 1..Len(Unread)
      /\ \A i \in 1..Len(Unread) : /\ offset + i \in offset + 1..Len(f)
                                   /\ offset + i \in 1..Len(f)
                                   /\ Unread[i] = f[offset + i]
  BY <1>2, <1>3, LenProperties, UnreadIs
<1>5. KeptOf(Unread, skipped') = <<>>
  <2>1. \A i \in 1..Len(Unread) : Unread[i] \in skipped'
    BY <1>1, <1>4 DEF ToSet
  <2>. QED BY <1>3, <2>1, KeptNone
<1>6. KeptOf(Seen, skipped') = KeptOf(Seen, skipped)
  <2>1. /\ Len(Seen) = offset - base
        /\ \A i \in 1..offset - base :
             Seen[i] = f[base + i] /\ base + i \in 1..offset
             /\ base + i \in 1..Len(f)
    BY <1>2, SeenIs DEF Seen
  <2>2. ASSUME NEW i \in 1..Len(Seen) PROVE Seen[i] \notin ToSet(Unread)
    <3>1. Seen[i] = f[base + i] /\ base + i \in 1..offset /\ base + i \in 1..Len(f)
      BY <2>1
    <3>2. ASSUME NEW j \in 1..Len(Unread), Seen[i] = Unread[j] PROVE FALSE
      <4>1. base + i < offset + j /\ offset + j \in 1..Len(f)
        BY <1>2, <1>4, <3>1
      <4>2. f[base + i] < f[offset + j]
        BY <3>1, <4>1 DEF OrderInv, FileRises
      <4>3. f[base + i] \in Int /\ f[base + i] = f[offset + j]
        <5>1. f[base + i] \in Half
          BY <1>2, <3>1, ElementOfSeq
        <5>. QED BY <1>4, <3>1, <3>2, <5>1 DEF Half
      <4>. QED BY <4>2, <4>3
    <3>. QED BY <1>4, <3>2 DEF ToSet
  <2>3. \A i \in 1..Len(Seen) : Seen[i] \in skipped' <=> Seen[i] \in skipped
    BY <1>1, <2>2
  <2>. QED BY <1>3, <2>3, KeptSame
<1>7. Got' = Got
  <2>1. Got' = left \o KeptOf(Seen \o Unread, skipped')
    BY <1>1, <1>3, GotNext
  <2>2. KeptOf(Seen \o Unread, skipped')
          = KeptOf(Seen, skipped') \o KeptOf(Unread, skipped')
    BY <1>3, KeptConcat
  <2>3. KeptOf(Seen, skipped) \o <<>> = KeptOf(Seen, skipped)
    BY <1>3, KeptType, ConcatEmptySeq
  <2>4. Got = left \o KeptOf(Seen, skipped)
    BY <1>2, GotIs
  <2>. QED BY <1>5, <1>6, <2>1, <2>2, <2>3, <2>4
<1>8. base' <= offset' /\ offset' <= Len(files'[1])
  <2>. DEFINE n == Len(files[1])
  <2>1. base' = base /\ offset' = n /\ Len(files'[1]) = n
    BY <1>1, <1>3
  <2>2. base <= offset /\ offset <= n /\ n \in Nat
    BY <1>2
  <2>. HIDE DEF n
  <2>. QED BY ONLY <1>2, <2>1, <2>2
<1>. QED BY <1>1, <1>2, <1>7, <1>8, ExactStays

(* The end of the first file may have grown. *)
LEMMA ExactWhenGrown ==
  ASSUME TypeInv, Exact, Len(files[1]) <= Len(files'[1]), files'[1] \in Seq(Half),
         \A i \in 1..Len(files[1]) : files'[1][i] = files[1][i],
         UNCHANGED <<offset, base, left, skipped, pass, carry, out, refused>>
  PROVE  Exact'
<1>. DEFINE f == files[1]
            g == files'[1]
<1>1. /\ f \in Seq(Half) /\ Len(f) \in Nat /\ g \in Seq(Half) /\ Len(g) \in Nat
      /\ offset \in Nat /\ base \in Nat /\ base <= offset /\ offset <= Len(f)
      /\ offset <= Len(g) /\ \A i \in 1..Len(f) : g[i] = f[i]
  <2>1. /\ f \in Seq(Half) /\ Len(f) \in Nat /\ g \in Seq(Half)
        /\ Len(f) <= Len(g) /\ \A i \in 1..Len(f) : g[i] = f[i]
    BY FilesAre
  <2>2. offset \in Nat /\ base \in Nat /\ base <= offset /\ offset <= Len(f)
    BY DEF TypeInv, TypeOK, Exact
  <2>3. Len(g) \in Nat
    BY <2>1, LenProperties
  <2>. HIDE DEF f, g
  <2>. QED BY <2>1, <2>2, <2>3
<1>. HIDE DEF f, g
<1>2. SubSeq(g, base + 1, offset) = SubSeq(f, base + 1, offset)
  <2>1. /\ SubSeq(f, base + 1, offset) \in Seq(Half)
        /\ Len(SubSeq(f, base + 1, offset)) = offset - base
        /\ \A i \in 1..offset - base :
             SubSeq(f, base + 1, offset)[i] = f[base + i]
             /\ base + i \in 1..Len(f)
    BY <1>1, SeenIs
  <2>2. /\ SubSeq(g, base + 1, offset) \in Seq(Half)
        /\ Len(SubSeq(g, base + 1, offset)) = offset - base
        /\ \A i \in 1..offset - base :
             SubSeq(g, base + 1, offset)[i] = g[base + i]
    BY <1>1, SeenIs
  <2>. DEFINE x == SubSeq(f, base + 1, offset)
              y == SubSeq(g, base + 1, offset)
  <2>3. /\ x \in Seq(Half) /\ y \in Seq(Half) /\ Len(x) = Len(y)
        /\ \A i \in 1..Len(x) : x[i] = y[i]
    BY <1>1, <2>1, <2>2
  <2>. HIDE DEF x, y
  <2>4. x = y
    BY <2>3, SeqEqual
  <2>. QED BY <2>4 DEF x, y
<1>3. Seen' = Seen
  BY <1>2 DEF Seen, f, g
<1>4. Got' = Got
  BY <1>3 DEF Got, Kept
<1>5. base' <= offset' /\ offset' <= Len(files'[1])
  BY <1>1 DEF g
<1>. QED BY <1>4, <1>5, ExactStays

(* A pass that has read nothing has taken nothing and refused nothing.     *)
LEMMA ExactAfresh ==
  ASSUME offset' = 0, base' = 0, left' = carry', carry' \in Seq(Open),
         Len(files'[1]) \in Nat, LinesOf(refused)' = {},
         LinesOf(ToSet(out))' = {}
  PROVE  Exact'
<1>1. Seen' = <<>> /\ <<>> \in Seq(Half)
  BY NothingSeen DEF Seen
<1>2. carry' \in Seq(Half)
  BY SeqMonotonic, Open \subseteq Half DEF Open
<1>3. Got' = carry'
  <2>1. Got' = left' \o KeptOf(Seen', skipped')
    BY <1>1, GotNext
  <2>2. carry' \o KeptOf(<<>>, skipped') = carry'
    BY <1>2, GotNothing
  <2>. QED BY <1>1, <2>1, <2>2
<1>4. Alerts(Got)' = {} /\ Rest(Got)' = carry'
  <2>1. Alerts(Got') = {} /\ Rest(Got') = carry'
    BY <1>3, OpenText
  <2>. QED BY <2>1 DEF Alerts, LineEnds, Rest, Ends
<1>. QED BY <1>4 DEF Exact

LEMMA CleanStat ==
  ASSUME TypeInv, OrderInv, PastInv, CleanInv, Stat
  PROVE  CleanInv'
<1>. DEFINE size == Len(files[Len(files)])
<1>1. /\ IF size < pos THEN /\ offset' = 0 /\ pass' = pass + 1 /\ base' = 0
                            /\ left' = carry /\ skipped' = {}
                       ELSE UNCHANGED <<offset, pass, base, left, skipped>>
      /\ clean' = (clean /\ (unseen => size < pos))
      /\ UNCHANGED <<files, carry, out, refused>>
  BY DEF Stat, fileVars
<1>2. /\ pass \in Nat /\ files[1] \in Seq(Half) /\ Len(files[1]) \in Nat
      /\ refused \subseteq Entries /\ out \in Seq(Entries)
      /\ carry \in Seq(Open)
  BY FilesAre DEF TypeInv, TypeOK, Open, Half
<1>. HIDE DEF size
<1>. SUFFICES ASSUME clean' PROVE Exact'
  BY DEF CleanInv
<1>3. CASE size < pos
  <2>1. LinesOf(refused)' = {}
    <3>1. \A e \in refused : e.pass \in Nat /\ e.pass <= pass
      BY <1>2 DEF PastInv, Entries
    <3>2. \A e \in refused' : e.pass # pass'
      BY <1>1, <1>2, <1>3, <3>1
    <3>. QED BY <3>2 DEF LinesOf
  <2>2. LinesOf(ToSet(out))' = {}
    <3>1. ASSUME NEW i \in 1..Len(out) PROVE out[i].pass # pass'
      <4>1. out[i].pass \in Nat /\ out[i].pass <= pass
        <5>1. out[i] \in Entries
          BY <1>2, ElementOfSeq
        <5>. QED BY <5>1 DEF Entries, OrderInv, OutBehind
      <4>. QED BY <1>1, <1>2, <1>3, <4>1
    <3>2. \A e \in ToSet(out) : e.pass # pass'
      BY <3>1 DEF ToSet
    <3>. QED BY <1>1, <3>2 DEF LinesOf, ToSet
  <2>. QED BY <1>1, <1>2, <1>3, <2>1, <2>2, ExactAfresh
<1>4. CASE ~(size < pos)
  <2>1. Exact
    BY <1>1, <1>4 DEF CleanInv, TypeInv, TypeOK
  <2>2. UNCHANGED <<files, offset, base, left, skipped, pass, carry, out, refused>>
    BY <1>1, <1>4
  <2>3. Len(files[1]) <= Len(files'[1]) /\ files'[1] \in Seq(Half)
    BY <1>2, <2>2
  <2>. QED BY <2>1, <2>2, <2>3, ExactWhenGrown
<1>. QED BY <1>3, <1>4

LEMMA CleanTruncate ==
  ASSUME TypeInv, CleanInv, Truncate
  PROVE  CleanInv'
<1>1. /\ unseen' = (unseen \/ (Len(files) = 1 /\ (offset > 0 \/ step = "read")))
      /\ files' = [files EXCEPT ![Len(files)] = <<>>]
      /\ UNCHANGED <<offset, base, left, skipped, pass, carry, out, refused, clean>>
  BY DEF Truncate, tailVars
<1>2. /\ files'[1] = IF Len(files) = 1 THEN <<>> ELSE files[1]
      /\ files[1] \in Seq(Half) /\ Len(files[1]) \in Nat
      /\ offset \in Nat /\ base \in Nat /\ unseen \in BOOLEAN
  BY <1>1, FilesType, FilesAre, <<>> \in Seq(Half) DEF TypeInv, TypeOK
<1>. SUFFICES ASSUME clean', ~unseen' PROVE Exact'
  BY DEF CleanInv
<1>3. Exact
  BY <1>1, <1>2 DEF CleanInv
<1>4. CASE Len(files) = 1
  <2>1. offset = 0 /\ base = 0 /\ files'[1] = <<>> /\ Len(files'[1]) = 0
    <3>1. ~(offset > 0)
      BY <1>1, <1>4
    <3>2. base <= offset
      BY <1>3 DEF Exact
    <3>3. files'[1] = <<>>
      BY <1>2, <1>4
    <3>4. Len(<<>>) = 0
      OBVIOUS
    <3>5. offset = 0 /\ base = 0
      BY <1>2, <3>1, <3>2
    <3>. QED BY <3>3, <3>4, <3>5
  <2>2. Seen' = Seen
    BY <1>1, <2>1, NothingSeen DEF Seen
  <2>3. Got' = Got
    BY <1>1, <2>2 DEF Got, Kept
  <2>4. base' <= offset' /\ offset' <= Len(files'[1])
    BY <1>1, <2>1
  <2>. QED BY <1>1, <1>3, <2>3, <2>4, ExactStays
<1>5. CASE Len(files) # 1
  <2>1. files'[1] = files[1]
    BY <1>2, <1>5
  <2>2. Len(files[1]) <= Len(files'[1]) /\ files'[1] \in Seq(Half)
    BY <1>2, <2>1
  <2>. QED BY <1>1, <1>3, <2>1, <2>2, ExactWhenGrown
<1>. QED BY <1>4, <1>5

LEMMA CleanNext ==
  TypeInv /\ OrderInv /\ PastInv /\ CleanInv /\ [Next]_vars => CleanInv'
<1>. SUFFICES ASSUME TypeInv, OrderInv, PastInv, CleanInv, [Next]_vars
              PROVE  CleanInv'
  OBVIOUS
<1>1. ASSUME Len(files[1]) <= Len(files'[1]), files'[1] \in Seq(Half),
             \A i \in 1..Len(files[1]) : files'[1][i] = files[1][i],
             UNCHANGED <<tailVars, unseen, clean>>
      PROVE  CleanInv'
  <2>1. UNCHANGED <<offset, base, left, skipped, pass, carry, out, refused>>
    BY <1>1 DEF tailVars
  <2>2. Exact => Exact'
    BY <1>1, <2>1, ExactWhenGrown
  <2>. QED BY <1>1, <2>2 DEF CleanInv
<1>2. /\ files \in Seq(Seq(Half)) /\ 1 \in 1..Len(files)
      /\ files[1] \in Seq(Half) /\ Len(files[1]) \in Nat
  BY FilesAre
<1>3. CASE Write
  <2>. DEFINE n == Len(files[1])
              h == files'[1]
  <2>1. /\ n \in Nat /\ h \in Seq(Half) /\ (Len(h) = n \/ Len(h) = n + 1)
        /\ \A i \in 1..n : h[i] = files[1][i]
    BY <1>3, WriteIs
  <2>2. n <= Len(h)
    <3>. HIDE DEF n, h
    <3>. QED BY <2>1
  <2>. QED BY <1>1, <1>3, <2>1, <2>2 DEF Write
<1>4. CASE Truncate
  BY <1>4, CleanTruncate
<1>5. CASE Rename \/ UNCHANGED vars
  <2>1. UNCHANGED <<files, tailVars, unseen, clean>>
    BY <1>5 DEF Rename, vars, fileVars
  <2>. QED BY <1>1, <1>2, <2>1
<1>6. CASE Reopen
  <2>1. Append(files, <<>>)[1] = files[1]
    BY <1>2, AppendProperties, <<>> \in Seq(Half)
  <2>2. files'[1] = files[1] /\ UNCHANGED <<tailVars, unseen, clean>>
    BY <1>6, <2>1 DEF Reopen
  <2>. QED BY <1>1, <1>2, <2>2
<1>7. CASE Stat
  BY <1>7, CleanStat
<1>8. CASE FailRead
  BY <1>8, CleanFailRead
<1>9. ASSUME NEW full, Read(full) PROVE CleanInv'
  BY <1>9, CleanRead
<1>. QED BY <1>3, <1>4, <1>5, <1>6, <1>7, <1>8, <1>9 DEF Next, Follow

(***************************************************************************)
(* Until a truncation goes unnoticed, the queue has, with what it refused, *)
(* the lines of the text of the pass, all of them and no other, and the    *)
(* carry what follows the last newline: through failed reads, carries that *)
(* are not cleared and renames.                                            *)
(***************************************************************************)
THEOREM Exactly == Spec => []ExactWhileClean
<1>1. CleanInv => ExactWhileClean
  BY DEF CleanInv, Exact, ExactWhileClean
<1>. QED BY <1>1, CleanInit, CleanNext, TypeHolds, OrderHolds, PastHolds, PTL
         DEF Spec
=============================================================================
