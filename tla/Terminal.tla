------------------------------ MODULE Terminal ------------------------------
(***************************************************************************)
(* The terminal (kernel/terminal.cpp): line editing behind a prompt, drawn *)
(* on the screen of module Screen.                                         *)
(*                                                                         *)
(* A key stroke holds up to six keys, which OnKeyStroke handles one by one *)
(* until an Enter; the same happens when they come in strokes of their     *)
(* own, so a stroke is one key here, with or without Shift or Ctrl.  A key *)
(* may both edit (the switch statement) and stand for a character (the     *)
(* table of its code), as Backspace does with Shift: these are two steps.  *)
(***************************************************************************)
EXTENDS Screen

CONSTANTS
  PromptLen,  \* the number of characters of the prompt
  Strokes,    \* the pairs of a key and whether Shift is held
  MaxRow      \* bound on the row of the cursor

Keys == {"letter", "enter", "backspace", "delete", "left", "right", "up", "down"}

ASSUME TerminalAssumption ==
  /\ PromptLen \in Nat /\ PromptLen < Cols
  /\ Strokes \subseteq Keys \X BOOLEAN
  /\ MaxRow \in Nat

NoChar == "none"

Char(key, shift) ==
  CASE key = "letter" -> IF shift THEN "A" ELSE "a"
    [] key = "enter" -> NewLine
    [] key = "backspace" /\ shift -> "DEL"
    [] OTHER -> NoChar

Chars == {"a", "A", "DEL"}
Prompt == [i \in 1 .. PromptLen |-> "$"]

VARIABLES
  screen,
  ibuf_,        \* the input buffer; the part of the prompt is never written
  s_len_,       \* the end of the input line
  prompt_len_,  \* its beginning
  cursor_pos_,
  pending,      \* the character of the key that is being handled
  undisturbed   \* see LineShown

terminalVars == <<screen, ibuf_, s_len_, prompt_len_, cursor_pos_, pending, undisturbed>>

Nul == "nul"

\* Where the buffer holds a string: from i to the first NUL.
StringFrom(buffer, i) ==
  LET ends == {j \in Columns : j >= i /\ buffer[j] = Nul}
      end == CHOOSE j \in ends : \A k \in ends : j <= k
  IN [x \in 1 .. end - i |-> buffer[i + x - 1]]

\* malloc returns what it finds, at the beginning of the buffer perhaps a NUL.
TerminalInit ==
  /\ ibuf_ \in {[i \in Columns |-> c] : c \in {Nul, Garbage}}
  /\ screen = PutString(NewScreen, Prompt)
  /\ prompt_len_ = screen.col
  /\ s_len_ = screen.col
  /\ cursor_pos_ = screen.col
  /\ pending = NoChar
  /\ undisturbed = TRUE

-----------------------------------------------------------------------------
(* The editing keys.                                                       *)

MoveCursor(key) ==
  /\ \/ key = "right" /\ cursor_pos_ < s_len_ /\ screen' = MoveRight(screen)
     \/ key = "left" /\ prompt_len_ < cursor_pos_ /\ screen' = MoveLeft(screen)
  /\ cursor_pos_' = screen'.col
  /\ UNCHANGED <<ibuf_, s_len_>>

\* The characters behind position i move one to the left; a NUL ends them.
Removed(i) ==
  [j \in Columns |-> IF j = s_len_ - 1 THEN Nul
                     ELSE IF i <= j /\ j < s_len_ - 1 THEN ibuf_[j + 1]
                     ELSE ibuf_[j]]

HandleBackSpace ==
  /\ cursor_pos_ # prompt_len_
  /\ cursor_pos_' = cursor_pos_ - 1
  /\ ibuf_' = Removed(cursor_pos_ - 1)
  /\ s_len_' = s_len_ - 1
  /\ screen' = UpdateRightFromCursor(MoveLeft(screen), StringFrom(ibuf_', cursor_pos_'))

HandleDelete ==
  /\ cursor_pos_ # s_len_
  /\ ibuf_' = Removed(cursor_pos_)
  /\ s_len_' = s_len_ - 1
  /\ screen' = UpdateRightFromCursor(screen, StringFrom(ibuf_', cursor_pos_))
  /\ UNCHANGED cursor_pos_

Edit(key) ==
  \/ MoveCursor(key)
  \/ key = "backspace" /\ HandleBackSpace
  \/ key = "delete" /\ HandleDelete

CanEdit(key) ==
  \/ key = "right" /\ cursor_pos_ < s_len_
  \/ key = "left" /\ prompt_len_ < cursor_pos_
  \/ key = "backspace" /\ cursor_pos_ # prompt_len_
  \/ key = "delete" /\ cursor_pos_ # s_len_

OnKeyStroke(key, shift) ==
  /\ pending = NoChar
  /\ key = "enter" => screen.row < MaxRow
  /\ pending' = Char(key, shift)
  /\ \/ Edit(key)
     \/ ~ CanEdit(key) /\ UNCHANGED <<screen, ibuf_, s_len_, cursor_pos_>>
  /\ UNCHANGED <<prompt_len_, undisturbed>>

-----------------------------------------------------------------------------
(* Characters.                                                             *)

IsFull == s_len_ = Cols - 1

\* Fault: the character behind the cursor is lost.
InsertedOver(c) ==
  [j \in Columns |-> CASE j = s_len_ + 1 -> Nul
                       [] j = cursor_pos_ -> c
                       [] OTHER -> ibuf_[j]]

Inserted(c) ==
  [j \in Columns |-> CASE j = s_len_ + 1 -> Nul
                       [] cursor_pos_ < j /\ j <= s_len_ -> ibuf_[j - 1]
                       [] j = cursor_pos_ -> c
                       [] OTHER -> ibuf_[j]]

\* What is behind the cursor is drawn again, from where the cursor is then.
PutOnScreen(c) ==
  LET put == PutChar(screen, c)
  IN IF cursor_pos_ = s_len_ THEN put
     ELSE UpdateRightFromCursor(put, StringFrom(Inserted(c), put.col))

PutCharacter ==
  /\ pending \in Chars
  /\ IF IsFull THEN UNCHANGED <<screen, ibuf_, s_len_, cursor_pos_>>
     ELSE /\ ibuf_' = Inserted(pending)
          /\ s_len_' = s_len_ + 1
          /\ screen' = PutOnScreen(pending)
          /\ cursor_pos_' = screen'.col
  /\ pending' = NoChar
  /\ UNCHANGED <<prompt_len_, undisturbed>>

\* A full line drops the line feed as well; the prompt follows in any case.
PutNewLine ==
  /\ pending = NewLine
  /\ LET put == IF IsFull THEN screen ELSE PutOnScreen(NewLine)
     IN screen' = PutString(put, Prompt)
  /\ ibuf_' = IF IsFull THEN ibuf_ ELSE Inserted(NewLine)
  /\ cursor_pos_' = screen'.col
  /\ prompt_len_' = cursor_pos_'
  /\ s_len_' = cursor_pos_'
  /\ pending' = NoChar
  /\ undisturbed' = /\ ~ IsFull
                    /\ cursor_pos_ = s_len_
                    /\ IsCursorInFrame(screen)
                    /\ screen.row + 1 \in AllRows

ProcessKeyStrokeWithCtrl(key) ==
  /\ pending = NoChar
  /\ \/ key = "up" /\ screen' = ScrollUp(screen)
     \/ key = "down" /\ screen' = ScrollDown(screen)
  /\ UNCHANGED <<ibuf_, s_len_, prompt_len_, cursor_pos_, pending, undisturbed>>

TerminalNext ==
  \/ \E stroke \in Strokes : OnKeyStroke(stroke[1], stroke[2])
  \/ PutCharacter
  \/ PutNewLine
  \/ \E key \in Keys : ProcessKeyStrokeWithCtrl(key)

TerminalSpec == TerminalInit /\ [][TerminalNext]_terminalVars

-----------------------------------------------------------------------------
(* Properties.                                                             *)

Cells == Chars \cup {Blank, Garbage, NewLine, "$"}

TerminalTypeOK ==
  /\ screen \in [long : [AllRows -> [Columns -> Cells]],
                 frame : [FrameRows -> [Columns -> Cells \cup {Block}]],
                 base : Nat, row : Nat, col : Columns, end : Nat]
  /\ ibuf_ \in [Columns -> Chars \cup {Nul, Garbage, NewLine}]
  /\ {s_len_, prompt_len_, cursor_pos_} \subseteq Columns
  /\ pending \in Chars \cup {NoChar, NewLine}
  /\ undisturbed \in BOOLEAN

\* The display is the window of the long frame at base_, with the block at the
\* cursor and nowhere else, although every operation copies only the cells that it
\* thinks it has changed.
ScreenShowsWindow ==
  \A r \in FrameRows, x \in Columns :
    screen.base + r \in AllRows =>
      screen.frame[r][x] = IF <<screen.base + r, x>> = <<screen.row, screen.col>>
                           THEN Block ELSE screen.long[screen.base + r][x]

\* The terminal and the screen count the cursor's position each on their own, and
\* agree; the cursor stays between the prompt and the end of the line, and the frame
\* never below the cursor.
CursorsAgree ==
  /\ cursor_pos_ = screen.col
  /\ prompt_len_ <= cursor_pos_ /\ cursor_pos_ <= s_len_
  /\ screen.base <= screen.row

\* The display and the cursor after every operation of the screen.
DisplayKept == TerminalTypeOK /\ ScreenShowsWindow /\ CursorsAgree

Input == [i \in 1 .. s_len_ - prompt_len_ |-> ibuf_[prompt_len_ + i - 1]]

\* The cursor's row shows the prompt, the input and blanks, if the Enter before it
\* was typed at the end of a line that was not full, with the cursor on display, and
\* the long frame had a row left.  Otherwise a piece of the line before stays on the
\* row, no line feed is made and the terminal accepts nothing any more, the beginning
\* of the row is blanked when the frame reaches it, or nothing is kept of the row.
LineShown ==
  undisturbed =>
    /\ prompt_len_ = PromptLen
    /\ LET shown == Prompt \o Input
       IN \A x \in Columns : screen.long[screen.row][x] =
            IF x < Len(shown) THEN shown[x + 1] ELSE Blank

Editor == INSTANCE LineEditor WITH
  line <- Input,
  pos <- cursor_pos_ - prompt_len_,
  Capacity <- Cols - 1 - PromptLen

\* The shifts of the buffer and the positions implement the editing of a line.
ImplementsLineEditor == Editor!Spec
=============================================================================
