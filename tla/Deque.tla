------------------------------- MODULE Deque -------------------------------
(* The one operation on std::deque that kernel/task.cpp defines itself. *)
EXTENDS Naturals, Sequences

\* std::remove and erase: every copy of t leaves the queue.
Erase(queue, t) ==
  LET kept[i \in 0 .. Len(queue)] ==
        IF i = 0 THEN <<>>
        ELSE IF queue[i] = t THEN kept[i - 1] ELSE Append(kept[i - 1], queue[i])
  IN kept[Len(queue)]
=============================================================================
