------------------------------- MODULE Relay --------------------------------
(***************************************************************************)
(* What the send path of an agent promises (agent/lib/send.c): messages it *)
(* accepts go out in the order they were accepted, none twice and none     *)
(* left out; how many wait at any time is its own business.                *)
(***************************************************************************)
EXTENDS Naturals, Sequences

CONSTANT Mesgs

VARIABLES
  in,   \* messages accepted
  out   \* messages handed to the network

vars == <<in, out>>

Init == in = <<>> /\ out = <<>>

Accept == in' \in {Append(in, m) : m \in Mesgs}

(* Some of what is still due goes out. *)
Forward == \E k \in Len(out)..Len(in') : out' = SubSeq(in', 1, k)

Next == (Accept \/ UNCHANGED in) /\ Forward

Spec == Init /\ [][Next]_vars
=============================================================================
