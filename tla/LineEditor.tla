----------------------------- MODULE LineEditor -----------------------------
(***************************************************************************)
(* What a line of input is to somebody who types: a sequence of characters *)
(* and a position in it.  The terminal (kernel/terminal.cpp) keeps it in a *)
(* buffer behind the prompt and draws it again after every key.            *)
(***************************************************************************)
EXTENDS Naturals, Sequences

CONSTANTS
  Chars,     \* what can be typed
  Capacity   \* the longest line

VARIABLES line, pos

Before == SubSeq(line, 1, pos)
Behind == SubSeq(line, pos + 1, Len(line))

Init == line = <<>> /\ pos = 0

Insert(c) ==
  /\ Len(line) < Capacity
  /\ line' = Before \o <<c>> \o Behind
  /\ pos' = pos + 1

Left == pos > 0 /\ pos' = pos - 1 /\ UNCHANGED line

Right == pos < Len(line) /\ pos' = pos + 1 /\ UNCHANGED line

Backspace ==
  /\ pos > 0
  /\ line' = SubSeq(line, 1, pos - 1) \o Behind
  /\ pos' = pos - 1

Delete ==
  /\ pos < Len(line)
  /\ line' = Before \o Tail(Behind)
  /\ UNCHANGED pos

Enter == line' = <<>> /\ pos' = 0

Next ==
  \/ \E c \in Chars : Insert(c)
  \/ Left \/ Right \/ Backspace \/ Delete \/ Enter

Spec == Init /\ [][Next]_<<line, pos>>
=============================================================================
