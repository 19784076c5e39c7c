------------------------------- MODULE LockQueue -------------------------------
(***************************************************************************)
(* The waiters of an asyncio.Lock, first come first served, the way the    *)
(* controller and the storage queue for theirs. asyncio itself is not part *)
(* of the repository.                                                      *)
(***************************************************************************)
EXTENDS Naturals, Sequences

\* t is at the head: the holder of a lock whose holder is kept in its queue.
Holds(q, t) == q # <<>> /\ Head(q) = t

\* t is there; a is there ahead of b.
Waits(q, t) == \E i \in DOMAIN q : q[i] = t
Ahead(q, a, b) == \E i, j \in DOMAIN q : i < j /\ q[i] = a /\ q[j] = b

\* Nobody waits twice.
Once(q) == \A i, j \in DOMAIN q : q[i] = q[j] => i = j

\* A waiter that is cancelled or done leaves its place, wherever that is.
Without(q, t) ==
    IF Waits(q, t)
      THEN LET i == CHOOSE j \in DOMAIN q : q[j] = t
           IN SubSeq(q, 1, i - 1) \o SubSeq(q, i + 1, Len(q))
      ELSE q
=============================================================================
