---------------------------- MODULE FrameChannel ----------------------------
(***************************************************************************)
(* What the pipe between pycan and the firewall is for: whole frames, in   *)
(* the order they were sent, none twice.  Frames that nobody has read when *)
(* the last end is closed are lost.  A channel that has been disturbed     *)
(* promises nothing, until it is empty.                                    *)
(***************************************************************************)
EXTENDS Naturals, Sequences

VARIABLES
  sent,       (* number of frames sent                                     *)
  queue,      (* frames on their way, by number                            *)
  received,   (* frames received, by number; 0 for what is not one         *)
  reliable    (* the channel has not been disturbed since it was empty     *)

vars == <<sent, queue, received, reliable>>

Init ==
  /\ sent = 0
  /\ queue = <<>>
  /\ received = <<>>
  /\ reliable = TRUE

Send ==
  /\ sent' = sent + 1
  /\ queue' = Append(queue, sent + 1)
  /\ UNCHANGED received

Receive ==
  /\ queue # <<>>
  /\ received' = Append(received, Head(queue))
  /\ queue' = Tail(queue)
  /\ UNCHANGED sent

Lose ==
  /\ queue' = <<>>
  /\ UNCHANGED <<sent, received>>

Garble ==
  /\ sent' \in {sent, sent + 1}
  /\ \/ UNCHANGED received
     \/ \E n \in 0 .. sent : received' = Append(received, n)

Disturb == ~reliable' /\ Garble

Recover ==
  /\ ~reliable /\ reliable'
  /\ queue' = <<>>
  /\ UNCHANGED <<sent, received>>

Next ==
  \/ reliable /\ reliable' /\ (Send \/ Receive \/ Lose)
  \/ Disturb
  \/ Recover

Spec == Init /\ [][Next]_vars
=============================================================================
