----------------------------- MODULE FrameFifo -----------------------------
(***************************************************************************)
(* What a connection promises to the code on both of its ends: the packets *)
(* that were written are handed over one by one, in order, unchanged, and  *)
(* all of them in the end.                                                 *)
(***************************************************************************)
EXTENDS Naturals, Sequences

CONSTANT Packets

VARIABLES
  written,     \* the packets written so far
  delivered    \* the packets handed over so far

Init == written = <<>> /\ delivered = <<>>

Write(p) ==
  /\ written' = Append(written, p)
  /\ UNCHANGED delivered

Deliver ==
  /\ Len(delivered) < Len(written)
  /\ delivered' = Append(delivered, written[Len(delivered) + 1])
  /\ UNCHANGED written

Next == Deliver \/ \E p \in Packets : Write(p)

Spec ==
  /\ Init
  /\ [][Next]_<<written, delivered>>
  /\ WF_<<written, delivered>>(Deliver)
============================================================================
