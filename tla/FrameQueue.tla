------------------------------ MODULE FrameQueue ------------------------------
(***************************************************************************)
(* What the ring of record/ring.c promises the encoder thread: a bounded   *)
(* first-in first-out queue that prefers a new frame to its oldest one,    *)
(* and an end of stream seen only once the queue is closed and empty.      *)
(***************************************************************************)
EXTENDS Naturals, Sequences

CONSTANTS Items, Capacity, None

VARIABLES queue,   \* what is queued, oldest first
          closed,  \* no more frames are wanted in this segment
          out,     \* the frame the consumer works on, or None
          ended    \* the consumer has seen the end of the stream

qvars == <<queue, closed, out, ended>>

Put(x) ==
  /\ queue' = IF Len(queue) < Capacity THEN Append(queue, x) ELSE Append(Tail(queue), x)
  /\ UNCHANGED <<closed, out, ended>>

Take ==
  /\ ~ended /\ out = None /\ queue # <<>>
  /\ out' = Head(queue) /\ queue' = Tail(queue)
  /\ UNCHANGED <<closed, ended>>

Return ==
  /\ out # None
  /\ out' = None
  /\ UNCHANGED <<queue, closed, ended>>

Close ==
  /\ closed' = TRUE
  /\ UNCHANGED <<queue, out, ended>>

\* The only way to end: nothing is left behind.
End ==
  /\ ~ended /\ closed /\ out = None /\ queue = <<>>
  /\ ended' = TRUE
  /\ UNCHANGED <<queue, closed, out>>

\* The next segment.  Frames put after the end wait for it.
Reopen ==
  /\ ended
  /\ ended' = FALSE /\ closed' = FALSE
  /\ UNCHANGED <<queue, out>>

Discard ==
  /\ ended
  /\ queue' = <<>>
  /\ UNCHANGED <<closed, out, ended>>

Init == queue = <<>> /\ closed = FALSE /\ out = None /\ ended = FALSE

Next == \/ \E x \in Items : Put(x)
        \/ Take \/ Return \/ Close \/ End \/ Reopen \/ Discard

Spec == Init /\ [][Next]_qvars

=============================================================================
