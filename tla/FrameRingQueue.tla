---------------------------- MODULE FrameRingQueue ----------------------------
(***************************************************************************)
(* The ring of FrameRing implements FrameQueue: its entries from tail to   *)
(* head are the queue, RING_CAP - 1 the capacity, the encoder thread the   *)
(* consumer.                                                               *)
(***************************************************************************)
EXTENDS FrameRing, Sequences

QueueLen == IF tail <= head THEN head - tail ELSE RingCap - tail + head

Queued == IF mainPc = "gone" THEN <<>>
          ELSE [k \in 1 .. QueueLen |-> slots[(tail + k - 1) % RingCap]]

Queue == INSTANCE FrameQueue WITH
           Items    <- Bufs,
           Capacity <- RingCap - 1,
           None     <- NoBuf,
           queue    <- Queued,
           closed   <- stopped,
           out      <- encBuf,
           ended    <- encPc \in {"done", "off"}

\* ring.c under its threads is a drop-oldest queue: the circular buffer never
\* reorders, duplicates or loses a frame other than the oldest of a full ring,
\* and the encoder of a segment ends only after the last frame queued for it.
ImplementsQueue == Queue!Spec

=============================================================================
