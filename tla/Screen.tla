------------------------------- MODULE Screen -------------------------------
(***************************************************************************)
(* The screen of the terminal (kernel/screen.cpp): a long frame in memory  *)
(* that keeps what was written, and the frame on display, a window of it   *)
(* that starts at row base_.  A screen is a record, and an operation of    *)
(* ScreenManager a function from screens to screens.  Pixels and colours   *)
(* are abstracted: a cell holds a character, or the cursor's block.        *)
(*                                                                         *)
(* The terminal moves the cursor to the left and to the right only;        *)
(* MoveFrameToCursor and the other two directions have no caller.          *)
(***************************************************************************)
EXTENDS Naturals, Sequences

CONSTANTS
  Rows,     \* frame_rows_
  Cols,     \* frame_cols_ and long_frame_cols_
  LongRows  \* long_frame_rows_: kBufferSize frames, and what their rests add up to

ASSUME ScreenAssumption ==
  /\ Rows \in Nat \ {0} /\ Cols \in Nat \ {0, 1}
  /\ LongRows \in Nat /\ LongRows >= Rows

Columns == 0 .. Cols - 1
FrameRows == 0 .. Rows - 1
AllRows == 0 .. LongRows - 1

Blank == " "
Block == "cursor"
Garbage == "garbage"  \* what malloc returns
NewLine == "\n"

Line(c) == [x \in Columns |-> c]

-----------------------------------------------------------------------------
(* Cells.                                                                  *)

\* The differences are unsigned in the code, where a row above the frame is
\* far below it.  IsCursorInFrame compares rows; CopyChar and CopyLine compare the first
\* line of pixels, which a partial row below the last full one has too, when the height is
\* no multiple of 16.  The model has full rows only, for which the two tests agree.
InFrame(s, y) == s.base <= y /\ y < s.base + Rows
IsCursorInFrame(s) == InFrame(s, s.row)

\* Rows behind the end of the long frame are written to in vain.
WriteCharToLongFrame(s, x, y, c) ==
  IF y \in AllRows THEN [s EXCEPT !.long[y][x] = c] ELSE s

CopyChar(s, x, y) ==
  IF y \in AllRows /\ InFrame(s, y)
  THEN [s EXCEPT !.frame[y - s.base][x] = s.long[y][x]]
  ELSE s

CopyLine(s, y) ==
  IF y \in AllRows /\ InFrame(s, y)
  THEN [s EXCEPT !.frame[y - s.base] = s.long[y]]
  ELSE s

CursorShow(s) ==
  IF IsCursorInFrame(s) THEN [s EXCEPT !.frame[s.row - s.base][s.col] = Block] ELSE s

\* The rows of the frame that were never filled (those from end) are filled first.
CopyAll(s) ==
  LET long == [y \in AllRows |-> IF InFrame(s, y) /\ s.end <= y THEN Line(Blank)
                                 ELSE s.long[y]]
      frame == [r \in FrameRows |-> IF s.base + r \in AllRows THEN long[s.base + r]
                                    ELSE s.frame[r]]
      end == IF s.end < s.base + Rows THEN s.base + Rows ELSE s.end
  IN CursorShow([s EXCEPT !.long = long, !.frame = frame, !.end = end])

NewScreen ==
  CopyAll([long |-> [y \in AllRows |-> Line(IF y < Rows THEN Blank ELSE Garbage)],
           frame |-> [r \in FrameRows |-> Line(Blank)],
           base |-> 0, row |-> 0, col |-> 0, end |-> Rows])

-----------------------------------------------------------------------------
(* Operations.                                                             *)

ScrollUp(s) == CopyAll(IF s.base > 0 THEN [s EXCEPT !.base = @ - 1] ELSE s)

ScrollDown(s) == CopyAll(IF s.base < s.row THEN [s EXCEPT !.base = @ + 1] ELSE s)

\* Fault: the block stays where the cursor was.
MovedLeavingBlock(s, col) == CursorShow([s EXCEPT !.col = col])

Moved(s, col) == CursorShow([CopyChar(s, s.col, s.row) EXCEPT !.col = col])

MoveRight(s) == Moved(s, IF s.col + 1 < Cols THEN s.col + 1 ELSE s.col)

MoveLeft(s) == Moved(s, IF s.col > 0 THEN s.col - 1 ELSE s.col)

\* One line is scrolled when the cursor is not in the frame, however far it is.
PutChar(s, c) ==
  LET written == WriteCharToLongFrame(s, s.col, s.row, c)
      put == IF c = NewLine
             THEN [CopyChar(s, s.col, s.row) EXCEPT !.col = 0, !.row = @ + 1]
             ELSE [CopyChar(written, s.col, s.row) EXCEPT
                     !.col = IF @ + 1 < Cols THEN @ + 1 ELSE @]
  IN CursorShow(IF IsCursorInFrame(put) THEN put ELSE ScrollDown(put))

\* The characters of the string, one after the other.
PutString(s, string) ==
  LET put[n \in 0 .. Len(string)] ==
        IF n = 0 THEN s ELSE PutChar(put[n - 1], string[n])
  IN put[Len(string)]

\* Fault: the cell behind the string keeps its character.
UpdateRightWithoutBlank(s, string) ==
  LET line == [x \in Columns |->
                 IF s.col <= x /\ x < s.col + Len(string) THEN string[x - s.col + 1]
                 ELSE s.long[s.row][x]]
  IN CursorShow(CopyLine(IF s.row \in AllRows THEN [s EXCEPT !.long[s.row] = line]
                         ELSE s, s.row))

\* The string and a blank behind it, as far as they fit in the row.
UpdateRightFromCursor(s, string) ==
  LET text == Append(string, Blank)
      line == [x \in Columns |->
                 IF s.col <= x /\ x < s.col + Len(text) THEN text[x - s.col + 1]
                 ELSE s.long[s.row][x]]
  IN CursorShow(CopyLine(IF s.row \in AllRows THEN [s EXCEPT !.long[s.row] = line]
                         ELSE s, s.row))
=============================================================================
