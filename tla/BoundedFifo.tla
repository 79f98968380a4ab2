---------------------------- MODULE BoundedFifo ----------------------------
(***************************************************************************)
(* What a single-producer single-consumer ring promises its two endpoints: *)
(* a FIFO queue of at most CAPACITY values.  LazyRingBuffer is shown to    *)
(* implement it; the pipeline modules use its two operators where the code *)
(* hands values from one thread to another through a ring.                 *)
(***************************************************************************)
EXTENDS Naturals, Sequences

CONSTANTS Values, CAPACITY, NoValue

VARIABLES queue,        \* published and not yet consumed values, oldest first
          delivered     \* the value the consumer released last

fifoVars == <<queue, delivered>>

FifoInit == queue = <<>> /\ delivered = NoValue

Put(v) == /\ Len(queue) < CAPACITY
          /\ queue' = Append(queue, v)
          /\ UNCHANGED delivered

Get == /\ queue # <<>>
       /\ delivered' = Head(queue)
       /\ queue' = Tail(queue)

FifoNext == Get \/ \E v \in Values : Put(v)

FifoSpec == FifoInit /\ [][FifoNext]_fifoVars
=============================================================================
