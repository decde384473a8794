------------------------------- MODULE EveTail ------------------------------
(***************************************************************************)
(* tail_eve of the broker (broker/src/eve.rs) reads what Suricata appends  *)
(* to eve.json, every 300 ms, while the file grows, is truncated or is     *)
(* renamed and made anew.                                                  *)
(*                                                                         *)
(* Text is a sequence of numbered halves of lines: half k belongs to line  *)
(* (k+1) \div 2 and the even one ends with the newline.  A write may stop  *)
(* between two halves, and for the lines of Split that is in the middle of *)
(* a character.  Every line is an alert.                                   *)
(***************************************************************************)
EXTENDS Integers, Sequences, FiniteSets, SequencesExt

CONSTANTS
  Split,         \* lines whose halves meet inside a character
  MaxWritten,    \* bound: halves written
  MaxTruncated,  \* bound: truncations
  MaxRenamed     \* bound: rotations by rename

ASSUME EveAssumption ==
  /\ Split \subseteq Nat
  /\ MaxWritten \in Nat \ {0, 1}   \* the file may begin with a line
  /\ MaxTruncated \in Nat /\ MaxRenamed \in Nat

VARIABLES
  written,   \* halves written so far
  files,     \* contents; the first is the one opened, Suricata has the last
  linked,    \* path names the last file, not nothing
  truncated, \* history: truncations so far
  step,      \* "stat" or "read": what the tail does next
  len,       \* metadata(path).len()
  pos,       \* pos
  offset,    \* position of the file handle
  carry,     \* text after the last newline
  out,       \* alerts put on the queue, [line, pass]
  refused,   \* alerts the full queue refused, [line, pass]
  pass,      \* history: how often the tail has started over
  base,      \* history: the offset this pass began at
  left,      \* history: the carry this pass began with
  skipped,   \* history: halves that failed reads of this pass went over
  unseen,    \* history: a truncation the tail has not looked at yet
  clean      \* history: it started over after each that cut what it read

fileVars == <<written, files, linked, truncated>>
tailVars == <<step, len, pos, offset, carry, out, refused, pass, base, left,
              skipped>>
vars == <<fileVars, tailVars, unseen, clean>>

(* The tail opens the file and goes to its end, which may be amid a line.  *)
Init ==
  /\ written \in 0..2
  /\ files = <<[k \in 1..written |-> k]>>
  /\ linked = TRUE /\ truncated = 0
  /\ step = "stat" /\ len = written /\ pos = written /\ offset = written
  /\ carry = <<>> /\ out = <<>> /\ refused = {}
  /\ pass = 0 /\ base = written /\ left = <<>> /\ skipped = {}
  /\ unseen = FALSE /\ clean = TRUE

-----------------------------------------------------------------------------
(* Suricata and logrotate.                                                 *)

Write ==
  /\ written < MaxWritten
  /\ written' = written + 1
  /\ files' = [files EXCEPT ![Len(files)] = Append(@, written + 1)]
  /\ UNCHANGED <<linked, truncated, tailVars, unseen, clean>>

(* In place, as copytruncate does.  A handle at 0 has nothing to look for. *)
Truncate ==
  /\ linked /\ truncated < MaxTruncated
  /\ truncated' = truncated + 1
  /\ files' = [files EXCEPT ![Len(files)] = <<>>]
  /\ unseen' = (unseen \/ (Len(files) = 1 /\ (offset > 0 \/ step = "read")))
  /\ UNCHANGED <<written, linked, tailVars, clean>>

(* Suricata writes to the renamed file until it is told to reopen. *)
Rename ==
  /\ linked /\ Len(files) <= MaxRenamed
  /\ linked' = FALSE
  /\ UNCHANGED <<written, files, truncated, tailVars, unseen, clean>>

Reopen ==
  /\ ~linked
  /\ linked' = TRUE
  /\ files' = Append(files, <<>>)
  /\ UNCHANGED <<written, truncated, tailVars, unseen, clean>>

-----------------------------------------------------------------------------
(* The tail.  The handle stays on the first file.                          *)

(* What metadata says while path names a file; a shorter one starts over.  *)
Stat ==
  LET size    == Len(files[Len(files)])
      restart == size < pos
      from    == IF restart THEN 0 ELSE pos
  IN  /\ step = "stat" /\ linked
      /\ len' = size
      /\ pos' = from
      /\ step' = IF size = from THEN "stat" ELSE "read"
      /\ IF restart THEN /\ offset' = 0 /\ pass' = pass + 1 /\ base' = 0
                         /\ left' = carry /\ skipped' = {}
                    ELSE UNCHANGED <<offset, pass, base, left, skipped>>
      /\ unseen' = FALSE
      /\ clean' = (clean /\ (unseen => restart))
      /\ UNCHANGED <<fileVars, carry, out, refused>>

Ends(k) == k % 2 = 0

(* read_to_string fails on a character cut at either end. *)
Readable(text) ==
  \A i \in 1..Len(text) : (text[i] + 1) \div 2 \in Split =>
    IF Ends(text[i]) THEN i > 1 /\ text[i-1] = text[i] - 1
                     ELSE i < Len(text) /\ text[i+1] = text[i] + 1

(* The lines of a text that parse, those that are whole: where they end. *)
LineEnds(text) == {i \in 2..Len(text) : /\ Ends(text[i])
                                        /\ text[i-1] = text[i] - 1
                                        /\ i > 2 => Ends(text[i-2])}

Alerts(text) == {text[i] \div 2 : i \in LineEnds(text)}

(* Faulty: an incomplete line is forgotten. *)
RestDropped(text) == <<>>

(* Faulty: the newline is not drained. *)
RestWithNewline(text) ==
  SubSeq(text, Max({1} \cup {i \in 1..Len(text) : Ends(text[i])}), Len(text))

(* What follows the last newline. *)
Rest(text) ==
  SubSeq(text, 1 + Max({0} \cup {i \in 1..Len(text) : Ends(text[i])}), Len(text))

(* Faulty: a seek to pos before the read. *)
FromPos == pos

(* The handle is read on from where it is, past what metadata said. *)
FromHandle == offset

Unread == SubSeq(files[1], FromHandle + 1, Len(files[1]))

(* A failed read has moved the handle and nothing else. *)
FailRead ==
  /\ step = "read" /\ ~Readable(Unread)
  /\ step' = "stat"
  /\ offset' = Max({offset, Len(files[1])})
  /\ skipped' = skipped \cup ToSet(Unread)
  /\ UNCHANGED <<fileVars, len, pos, carry, out, refused, pass, base, left,
                 unseen, clean>>

(* try_send: the queue, which others fill as well, may refuse any alert. *)
Entry(l) == [line |-> l, pass |-> pass]

Queued(text, full) ==
  FlattenSeq([i \in 1..Len(text) |->
                IF i \in LineEnds(text) /\ text[i] \div 2 \notin full
                THEN <<Entry(text[i] \div 2)>> ELSE <<>>])

Read(full) ==
  LET text == carry \o Unread
  IN  /\ step = "read" /\ Readable(Unread)
      /\ step' = "stat"
      /\ offset' = Max({offset, Len(files[1])})
      /\ pos' = len
      /\ carry' = Rest(text)
      /\ out' = out \o Queued(text, full)
      /\ refused' = refused \cup {Entry(l) : l \in Alerts(text) \cap full}
      /\ UNCHANGED <<fileVars, len, pass, base, left, skipped, unseen, clean>>

Follow ==
  \/ Stat \/ FailRead
  \/ \E full \in SUBSET Alerts(carry \o Unread) : Read(full)

Next == Write \/ Truncate \/ Rename \/ Reopen \/ Follow

Spec == Init /\ [][Next]_vars

(* The timer ticks and reads return; nothing need be written or rotated. *)
FairSpec == Spec /\ WF_vars(Follow)

-----------------------------------------------------------------------------
(* What the tail promises.                                                 *)

Entries == [line : 1..MaxWritten, pass : Nat]

(* Every variable has its type; the carry holds no newline. *)
TypeOK ==
  /\ written \in Nat /\ files \in Seq(Seq(1..MaxWritten)) /\ linked \in BOOLEAN
  /\ truncated \in Nat /\ step \in {"stat", "read"}
  /\ len \in Nat /\ pos \in Nat /\ offset \in Nat /\ base \in Nat /\ pass \in Nat
  /\ carry \in Seq({k \in 1..MaxWritten : ~Ends(k)})
  /\ left \in Seq({k \in 1..MaxWritten : ~Ends(k)})
  /\ skipped \subseteq 1..MaxWritten
  /\ out \in Seq(Entries) /\ refused \subseteq Entries
  /\ unseen \in BOOLEAN /\ clean \in BOOLEAN

(***************************************************************************)
(* Whatever is truncated, renamed, cut or written between metadata and the *)
(* read, a line comes twice, or after a later one, only if the tail has    *)
(* started over in between.                                                *)
(***************************************************************************)
OnceInOrder ==
  \A i, j \in 1..Len(out) :
    i < j /\ out[i].pass = out[j].pass => out[i].line < out[j].line

(***************************************************************************)
(* The text of a pass is what was left in the carry when it began, then    *)
(* what the handle went over, but for the reads that failed.  The lines    *)
(* that are whole in it are on the queue, but for those it refused, and    *)
(* what follows the last newline waits in the carry: wherever writes and   *)
(* reads cut the text, wherever pos is, whatever a failed read or a carry  *)
(* that is not cleared glues together, and whatever is renamed.  Only a    *)
(* truncation the tail does not start over after, since the file is as     *)
(* long again, ends this.                                                  *)
(***************************************************************************)
LinesOf(es) == {e.line : e \in {r \in es : r.pass = pass}}

Seen == SubSeq(files[1], base + 1, offset)

Kept(text) ==
  FlattenSeq([i \in DOMAIN text |-> IF text[i] \in skipped THEN <<>>
                                    ELSE <<text[i]>>])

Got == left \o Kept(Seen)

ExactWhileClean ==
  clean /\ ~unseen =>
    /\ LinesOf(ToSet(out)) = Alerts(Got) \ LinesOf(refused)
    /\ carry = Rest(Got)

(***************************************************************************)
(* As long as no truncation went unnoticed and the file is still the one   *)
(* path names, every line that is whole in the text of the pass is taken   *)
(* to the queue without the file having to grow again, unless a read fails *)
(* over it.                                                                *)
(***************************************************************************)
Processed(l) == \E e \in ToSet(out) \cup refused : e.line = l

Ahead == SubSeq(files[1], base + 1, Len(files[1]))

Due(l) == /\ clean /\ linked /\ Len(files) = 1
          /\ l \in Alerts(left \o Kept(Ahead))

EventuallyTaken ==
  \A l \in 1..MaxWritten : Due(l) ~> (Processed(l) \/ ~Due(l))

-----------------------------------------------------------------------------
(* What a comment says and the code does not do.                           *)

(***************************************************************************)
(* eve.rs:65 "rotated/truncated: start over": lines of the file that took  *)
(* the place of a renamed one are taken to the queue.                      *)
(***************************************************************************)
RotatedLinesTaken ==
  \A l \in 1..MaxWritten :
    (linked /\ Len(files) > 1 /\ l \in Alerts(files[Len(files)]))
      ~> (Processed(l) \/ ~linked)
=============================================================================
