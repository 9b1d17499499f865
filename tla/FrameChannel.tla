---------------------------- MODULE FrameChannel ----------------------------
(***************************************************************************)
(* What the framing layer promises its users: the frames given to one      *)
(* sender come out whole, in order and once each, until the connection     *)
(* ends.  How the bytes were cut on the way cannot be seen.                *)
(***************************************************************************)
EXTENDS Naturals, Sequences

CONSTANT Payloads

VARIABLES
  sent,       \* payloads send_frame was given
  delivered   \* payloads read_next_frame has returned

Init == sent = <<>> /\ delivered = <<>>

SendFrame ==
  /\ \E p \in Payloads : sent' = Append(sent, p)
  /\ UNCHANGED delivered

Deliver ==
  /\ Len(delivered) < Len(sent)
  /\ delivered' = Append(delivered, sent[Len(delivered) + 1])
  /\ UNCHANGED sent

Next == SendFrame \/ Deliver

Spec == Init /\ [][Next]_<<sent, delivered>>
=============================================================================
