-------------------------------- MODULE Screen --------------------------------
(****************************************************************************)
(* The VGA text screen of core/drivers/screen.c: its cells and its cursor.  *)
(* Colours and the cursor of the hardware, which nothing reads, are left    *)
(* out.                                                                     *)
(****************************************************************************)
EXTENDS Integers

CONSTANTS Width,     \* VGA_WIDTH, 80 in the code
          Height,    \* VGA_HEIGHT, 25 in the code
          TabStop,   \* 8 in the code
          Chars      \* what screen_putchar is given

ASSUME ScreenAssumption ==
  /\ Width \in Nat \ {0} /\ Height \in Nat \ {0} /\ TabStop \in Nat \ {0}

Cells    == 0 .. Width * Height - 1
Blank    == " "
Controls == {"newline", "return", "backspace", "tab"}

VARIABLES vga, cursor_x, cursor_y

screen == <<vga, cursor_x, cursor_y>>

Cursor == cursor_y * Width + cursor_x

(* init_screen and screen_clear.                                            *)
Init == /\ vga = [i \in Cells |-> Blank]
        /\ cursor_x = 0 /\ cursor_y = 0

ScreenClear == /\ vga' = [i \in Cells |-> Blank]
               /\ cursor_x' = 0 /\ cursor_y' = 0

------------------------------------------------------------------------------
(* The column screen_putchar(c) goes to, before it wraps.                   *)
Column(c) ==
  CASE c \in {"newline", "return"} -> 0
    [] c = "backspace"             -> IF cursor_x > 0 THEN cursor_x - 1 ELSE 0
    [] c = "tab"                   -> ((cursor_x + TabStop) \div TabStop) * TabStop
    [] OTHER                       -> cursor_x + 1

EndsLine(c) == c = "newline" \/ Column(c) >= Width

\* Mutant: the last line is taken for the one before it.
Scrolls_Late(c) == EndsLine(c) /\ cursor_y + 1 > Height

Scrolls(c) == EndsLine(c) /\ cursor_y + 1 >= Height

(* The cells after c is written, before they scroll.                        *)
Painted(c) ==
  CASE c \notin Controls               -> [vga EXCEPT ![Cursor] = c]
    [] c = "backspace" /\ cursor_x > 0 -> [vga EXCEPT ![Cursor - 1] = Blank]
    [] OTHER                           -> vga

\* Mutant: the line that leaves the screen is copied, not the next one.
ScrolledUp_Twice(cells) ==
  [i \in Cells |-> IF i + 2 * Width \in Cells THEN cells[i + 2 * Width] ELSE Blank]

ScrolledUp(cells) ==
  [i \in Cells |-> IF i + Width \in Cells THEN cells[i + Width] ELSE Blank]

ScreenPutchar(c) ==
  /\ cursor_x' = IF EndsLine(c) THEN 0 ELSE Column(c)
  /\ cursor_y' = IF EndsLine(c) /\ ~Scrolls(c) THEN cursor_y + 1 ELSE cursor_y
  /\ vga' = IF Scrolls(c) THEN ScrolledUp(Painted(c)) ELSE Painted(c)

Next == ScreenClear \/ \E c \in Chars : ScreenPutchar(c)

Spec == Init /\ [][Next]_screen

------------------------------------------------------------------------------
TypeOK == /\ vga \in [Cells -> Chars \cup {Blank}]
          /\ cursor_x \in 0 .. Width - 1
          /\ cursor_y \in 0 .. Height - 1
==============================================================================
