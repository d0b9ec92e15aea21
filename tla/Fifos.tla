------------------------------- MODULE Fifos --------------------------------
(***************************************************************************)
(* A process with a ring buffer and a linked queue.  ring_buffer.c and     *)
(* queue.c share nothing, so their operations come in any order.           *)
(***************************************************************************)
EXTENDS RingBuffer, Queue

FifosInit == RingInit /\ QueueInit

FifosNext ==
  \/ RingNext /\ UNCHANGED queueVars
  \/ QueueNext /\ UNCHANGED ringVars

FifosSpec == FifosInit /\ [][FifosNext]_<<ringVars, queueVars>>

-----------------------------------------------------------------------------
\* The newest items in order through wraps and clears, for the ring buffer and
\* its iterators; the same nodes from either end for the linked queue, whatever
\* was taken out of it before.
FifosExact == RingExact /\ QueueLinked
=============================================================================
