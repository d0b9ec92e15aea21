------------------------------- MODULE Queue --------------------------------
(***************************************************************************)
(* libutils/queue.c: a doubly linked first-in first-out list.  A node is   *)
(* named by its element, elements by the order they are enqueued in; a     *)
(* freed node leaves the domains of next and previous.                     *)
(***************************************************************************)
EXTENDS Integers, FiniteSets

CONSTANT MAX_ENQUEUES        \* bound: elements enqueued

NoNode == 0

VARIABLES q,                 \* struct Queue_ and its nodes
          enqueued           \* elements enqueued so far

queueVars == <<q, enqueued>>

-----------------------------------------------------------------------------
QueueNew == [node_count |-> 0, head |-> NoNode, tail |-> NoNode,
             next |-> [n \in {} |-> NoNode], previous |-> [n \in {} |-> NoNode]]

QueueInit == q = QueueNew /\ enqueued = 0

QueueEnqueue ==
  LET node == enqueued + 1
      nodes == DOMAIN q.next \cup {node}
  IN  /\ q' = [node_count |-> q.node_count + 1, tail |-> node,
               head     |-> IF q.tail # NoNode THEN q.head ELSE node,
               next     |-> [n \in nodes |-> IF n = node THEN NoNode
                                             ELSE IF n = q.tail THEN node ELSE q.next[n]],
               previous |-> [n \in nodes |-> IF n = node THEN q.tail ELSE q.previous[n]]]
      /\ enqueued' = node

\* Callers ask QueueIsEmpty first: the head of an empty queue is NULL.
QueueDequeue ==
  /\ q.node_count # 0
  /\ LET rest == DOMAIN q.next \ {q.head}
         head == q.next[q.head]
     IN  q' = [node_count |-> q.node_count - 1, head |-> head,
               tail     |-> IF head # NoNode THEN q.tail ELSE NoNode,
               next     |-> [n \in rest |-> q.next[n]],
               previous |-> [n \in rest |-> IF n = head THEN NoNode ELSE q.previous[n]]]
  /\ UNCHANGED enqueued

\* The walk from the head frees every node; a new queue follows.
QueueDestroy == q' = QueueNew /\ UNCHANGED enqueued

QueueNext == (enqueued < MAX_ENQUEUES /\ QueueEnqueue) \/ QueueDequeue \/ QueueDestroy

-----------------------------------------------------------------------------
\* The nodes from the head along next are those from the tail along previous,
\* in the order of enqueueing, as many as the queue counts; an empty queue has
\* neither head nor tail, whatever was taken out before.
QueueLinked ==
  /\ q.node_count = Cardinality(DOMAIN q.next)
  /\ (q.head = NoNode) = (q.node_count = 0) /\ (q.tail = NoNode) = (q.node_count = 0)
  /\ q.head # NoNode => q.previous[q.head] = NoNode /\ q.next[q.tail] = NoNode
  /\ \A n \in DOMAIN q.next :
        /\ n \in q.head..q.tail
        /\ n # q.tail => q.next[n] = n + 1 /\ q.previous[n + 1] = n
=============================================================================
