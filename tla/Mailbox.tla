------------------------------ MODULE Mailbox ------------------------------
(***************************************************************************)
(* What the one-slot mailbox between the audio loop and the network        *)
(* worker of jarvis_wake promises: events leave it in the order they were  *)
(* accepted, whole, none lost and none twice; at most one waits in it, and *)
(* none waits forever.  It may refuse an event, when one is waiting.       *)
(***************************************************************************)
EXTENDS Naturals, Sequences

CONSTANT Event

VARIABLES accepted,  \* events the mailbox took, oldest first
          taken      \* events the worker got out of it, oldest first

Waiting == Len(accepted) - Len(taken)

Init == accepted = <<>> /\ taken = <<>>

Accept ==
  /\ Waiting = 0
  /\ \E e \in Event : accepted' = Append(accepted, e)
  /\ UNCHANGED taken

Take ==
  /\ Waiting = 1
  /\ taken' = accepted
  /\ UNCHANGED accepted

Next == Accept \/ Take

(* What it never does, and what it does in the end. *)
Safe == Init /\ [][Next]_<<accepted, taken>>

Live == WF_<<accepted, taken>>(Take)
=============================================================================
