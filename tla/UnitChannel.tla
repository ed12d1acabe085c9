---------------------------- MODULE UnitChannel ----------------------------
(***************************************************************************)
(* What a client of the sidecar may expect of a video stream: access units *)
(* come out one by one, each exactly as it was put in, and only the end of *)
(* the stream loses one.  RtpSender implements this with packets.          *)
(***************************************************************************)
CONSTANT Units \* access units; <<>> stands for none

VARIABLES
  up,        \* the stream is on
  underway,  \* the unit put in and not yet out
  out        \* the unit that has come out, until the next is put in

Init == up = FALSE /\ underway = <<>> /\ out = <<>>

Open == /\ ~up /\ up' = TRUE
        /\ underway' = <<>> /\ out' = <<>>

Offer == /\ up /\ underway = <<>>
         /\ underway' \in Units
         /\ out' = <<>> /\ UNCHANGED up

Deliver == /\ up /\ underway # <<>>
           /\ out' = underway
           /\ underway' = <<>> /\ UNCHANGED up

Close == /\ up /\ up' = FALSE
         /\ underway' = <<>> /\ out' = <<>>

Next == Open \/ Offer \/ Deliver \/ Close

Spec == Init /\ [][Next]_<<up, underway, out>>
=============================================================================
