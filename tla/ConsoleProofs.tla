----------------------------- MODULE ConsoleProofs -----------------------------
(****************************************************************************)
(* The line editor and the screen under it, for any size of the screen, any *)
(* keyboard and any line, and the words the shell cuts the line into.       *)
(****************************************************************************)
EXTENDS Shell, NaturalLemmas, SequenceTheorems, TLAPS

(* The line starts at or before the cursor, whatever was erased: the editor *)
(* paints no cell before its origin.                                        *)
AfterOrigin == Editing => Cursor >= origin + Len(line)

Letters == Chars \ Controls

IInv == /\ CTypeOK
        /\ line \in Seq(Letters) /\ origin \in Int /\ crossed \in BOOLEAN
        /\ NothingLeftBehind /\ AfterOrigin /\ LineShown

------------------------------------------------------------------------------
(* The screen.                                                              *)
\* Rows lie one after the other in the cells.
LEMMA RowFacts ==
  ASSUME NEW y \in 0 .. Height - 1
  PROVE  /\ y * Width \in Nat /\ (y + 1) * Width = y * Width + Width
         /\ Width * Height \in Nat
         /\ y * Width + Width =< Width * Height
         /\ y + 1 >= Height => y * Width + Width = Width * Height
<1>1. y \in Nat /\ Width \in Nat /\ Height \in Nat /\ y + 1 =< Height
  BY ScreenAssumption
<1>2. /\ y * Width \in Nat /\ Width * Height \in Nat
      /\ (y + 1) * Width = y * Width + Width
  BY <1>1
<1>3. (y + 1) * Width =< Height * Width
  BY <1>1
<1>4. Height * Width = Width * Height
  BY <1>1
<1>5. y + 1 >= Height => y + 1 = Height
  BY <1>1
<1> QED BY <1>1, <1>2, <1>3, <1>4, <1>5

\* The cursor is in a cell.
LEMMA CursorFacts ==
  ASSUME TypeOK
  PROVE  /\ Cursor \in Cells /\ Cursor \in Nat
         /\ cursor_y * Width \in Nat
         /\ Cursor = cursor_y * Width + cursor_x
         /\ cursor_x > 0 => Cursor - 1 \in Cells
<1>1. cursor_y \in 0 .. Height - 1 /\ cursor_x \in 0 .. Width - 1
  BY DEF TypeOK
<1> DEFINE row == cursor_y * Width
<1>2. row \in Nat /\ Width * Height \in Nat /\ row + Width =< Width * Height
  BY <1>1, RowFacts
<1>3. Cursor = row + cursor_x
  BY DEF Cursor
<1> HIDE DEF row
<1>4. Width \in Nat
  BY ScreenAssumption
<1>5. Cursor \in 0 .. Width * Height - 1 /\ (cursor_x > 0 => Cursor - 1 \in 0 .. Width * Height - 1)
  BY <1>1, <1>2, <1>3, <1>4
<1> QED BY <1>2, <1>3, <1>5 DEF Cells, row

\* And so it is after a step.
LEMMA CursorAfter == ASSUME TypeOK' PROVE Cursor' \in Nat
<1>1. cursor_y' \in 0 .. Height - 1 /\ cursor_x' \in Nat
  BY DEF TypeOK
<1>2. cursor_y' * Width \in Nat
  BY <1>1, RowFacts
<1> QED BY <1>1, <1>2 DEF Cursor

LEMMA ColumnType == ASSUME TypeOK, NEW c PROVE Column(c) \in Nat
<1>1. cursor_x \in Nat
  BY DEF TypeOK
<1>2. CASE c = "tab"
  <2>1. /\ TabStop \in Nat \ {0} /\ (cursor_x + TabStop) \div TabStop \in Nat
    BY <1>1, ScreenAssumption
  <2>2. \A m, n \in Nat : m * n \in Nat
    OBVIOUS
  <2> QED BY <1>2, <2>1, <2>2 DEF Column
<1>3. CASE c # "tab"
  BY <1>1, <1>3 DEF Column
<1> QED BY <1>2, <1>3

\* The cells stay cells of characters when they move up.
LEMMA ScrolledUpType ==
  ASSUME NEW cells \in [Cells -> Chars \cup {Blank}]
  PROVE  ScrolledUp(cells) \in [Cells -> Chars \cup {Blank}]
BY DEF ScrolledUp

LEMMA PaintedType ==
  ASSUME TypeOK, NEW c \in Chars \cup Controls
  PROVE  Painted(c) \in [Cells -> Chars \cup {Blank}]
<1>1. vga \in [Cells -> Chars \cup {Blank}]
  BY DEF TypeOK
<1>2. CASE c \notin Controls
  BY <1>1, <1>2 DEF Painted
<1>3. CASE c \in Controls /\ c = "backspace" /\ cursor_x > 0
  BY <1>1, <1>3 DEF Painted
<1>4. CASE c \in Controls /\ ~(c = "backspace" /\ cursor_x > 0)
  BY <1>1, <1>4 DEF Painted
<1> QED BY <1>2, <1>3, <1>4

LEMMA PutcharType ==
  ASSUME TypeOK, NEW c \in Chars \cup Controls, ScreenPutchar(c) PROVE TypeOK'
<1>1. vga' \in [Cells -> Chars \cup {Blank}]
  <2>1. Painted(c) \in [Cells -> Chars \cup {Blank}]
    BY PaintedType
  <2>2. ScrolledUp(Painted(c)) \in [Cells -> Chars \cup {Blank}]
    BY <2>1, ScrolledUpType
  <2> QED BY <2>1, <2>2 DEF ScreenPutchar
<1>2. cursor_x' \in 0 .. Width - 1
  <2>1. Column(c) \in Nat
    BY ColumnType
  <2>2. Width \in Nat \ {0}
    BY ScreenAssumption
  <2>3. CASE EndsLine(c)
    BY <2>2, <2>3 DEF ScreenPutchar
  <2>4. CASE ~EndsLine(c)
    <3>1. cursor_x' = Column(c) /\ Column(c) < Width
      BY <2>1, <2>2, <2>4 DEF ScreenPutchar, EndsLine
    <3> QED BY <2>1, <2>2, <3>1
  <2> QED BY <2>3, <2>4
<1>3. cursor_y' \in 0 .. Height - 1
  BY ScreenAssumption DEF ScreenPutchar, Scrolls, TypeOK
<1> QED BY <1>1, <1>2, <1>3 DEF TypeOK, Cells

LEMMA ClearType == ASSUME TypeOK, ScreenClear PROVE TypeOK'
BY ScreenAssumption DEF TypeOK, ScreenClear, Cells

\* A character goes to the cell of the cursor, which goes on to the next cell, on
\* the next line if need be; when the screen scrolls both go up a line.
LEMMA PutcharWrites ==
  ASSUME TypeOK, NEW c, c \notin Controls, ScreenPutchar(c)
  PROVE  /\ ~Scrolls(c) => Cursor' = Cursor + 1 /\ vga' = [vga EXCEPT ![Cursor] = c]
         /\ Scrolls(c) => /\ Cursor' = Cursor + 1 - Width
                          /\ vga' = ScrolledUp([vga EXCEPT ![Cursor] = c])
<1>1. Painted(c) = [vga EXCEPT ![Cursor] = c]
  BY DEF Painted, Controls
<1>2. Column(c) = cursor_x + 1 /\ (EndsLine(c) <=> cursor_x + 1 >= Width)
  BY DEF Column, EndsLine, Controls
<1> DEFINE row == cursor_y * Width
<1>3. /\ row \in Nat /\ (cursor_y + 1) * Width = row + Width
      /\ cursor_x \in 0 .. Width - 1 /\ cursor_y \in 0 .. Height - 1
  BY RowFacts DEF TypeOK
<1>4. Cursor = row + cursor_x /\ Cursor' = cursor_y' * Width + cursor_x'
  BY DEF Cursor
<1>5. Width \in Nat \ {0} /\ Height \in Nat \ {0}
  BY ScreenAssumption
<1>6. CASE ~EndsLine(c)
  <2>1. cursor_y' = cursor_y /\ cursor_x' = cursor_x + 1 /\ ~Scrolls(c)
    BY <1>2, <1>6 DEF ScreenPutchar, Scrolls
  <2>2. Cursor' = row + (cursor_x + 1)
    BY <1>4, <2>1
  <2> HIDE DEF row
  <2>3. Cursor' = Cursor + 1
    BY <1>3, <1>4, <1>5, <2>2
  <2> QED BY <1>1, <2>1, <2>3 DEF ScreenPutchar
<1>7. CASE EndsLine(c) /\ ~Scrolls(c)
  <2>1. cursor_y' = cursor_y + 1 /\ cursor_x' = 0 /\ cursor_x = Width - 1
    BY <1>2, <1>3, <1>5, <1>7 DEF ScreenPutchar
  <2>2. Cursor' = row + Width + 0
    BY <1>3, <1>4, <2>1
  <2> HIDE DEF row
  <2>3. Cursor' = Cursor + 1
    BY <1>3, <1>4, <1>5, <2>1, <2>2
  <2> QED BY <1>1, <1>7, <2>3 DEF ScreenPutchar
<1>8. CASE Scrolls(c)
  <2>1. cursor_y' = cursor_y /\ cursor_x' = 0 /\ cursor_x = Width - 1
    BY <1>2, <1>3, <1>5, <1>8 DEF ScreenPutchar, Scrolls
  <2>2. Cursor' = row + 0
    BY <1>4, <2>1
  <2> HIDE DEF row
  <2>3. Cursor' = Cursor + 1 - Width
    BY <1>3, <1>4, <1>5, <2>1, <2>2
  <2> QED BY <1>1, <1>8, <2>3 DEF ScreenPutchar
<1> QED BY <1>6, <1>7, <1>8 DEF Scrolls

\* A backspace blanks the cell before the cursor and goes there, but stays in
\* column 0.
LEMMA BackspaceWrites ==
  ASSUME TypeOK, ScreenPutchar("backspace")
  PROVE  /\ ~Scrolls("backspace")
         /\ cursor_x > 0 => Cursor' = Cursor - 1 /\ vga' = [vga EXCEPT ![Cursor - 1] = Blank]
         /\ cursor_x = 0 => Cursor' = Cursor /\ vga' = vga
<1>1. /\ cursor_x \in 0 .. Width - 1 /\ Width \in Nat \ {0}
      /\ cursor_y * Width \in Nat
  BY ScreenAssumption, RowFacts DEF TypeOK
<1>2. Column("backspace") = IF cursor_x > 0 THEN cursor_x - 1 ELSE 0
  BY DEF Column
<1>3. ~EndsLine("backspace") /\ ~Scrolls("backspace")
  BY <1>1, <1>2 DEF EndsLine, Scrolls
<1>4. /\ cursor_y' = cursor_y
      /\ cursor_x' = IF cursor_x > 0 THEN cursor_x - 1 ELSE 0
      /\ vga' = Painted("backspace")
  BY <1>2, <1>3 DEF ScreenPutchar
<1>5. Painted("backspace") = IF cursor_x > 0 THEN [vga EXCEPT ![Cursor - 1] = Blank] ELSE vga
  BY DEF Painted, Controls
<1>6. Cursor' = cursor_y * Width + cursor_x' /\ Cursor = cursor_y * Width + cursor_x
  BY <1>4 DEF Cursor
<1> QED BY <1>1, <1>3, <1>4, <1>5, <1>6

------------------------------------------------------------------------------
(* The editor.                                                              *)
LEMMA InitIInv == CInit => IInv
<1> SUFFICES ASSUME CInit PROVE IInv
  OBVIOUS
<1>1. TypeOK
  BY ScreenAssumption DEF CInit, Init, TypeOK, Cells
<1>2. line = << >> /\ line \in Seq(Letters) /\ Len(line) = 0
  BY EmptySeq DEF CInit
<1>3. CTypeOK
  <2>1. Len(line) < MaxLen /\ \A k \in 1 .. Len(line) : line[k] \in Chars \ Controls
    BY <1>2, ConsoleAssumption
  <2>2. /\ port = <<>> /\ kb_buffer = <<>> /\ shift_pressed = FALSE /\ caps_lock = FALSE
        /\ pc = "idle" /\ reader = "stdin"
    BY DEF CInit
  <2> QED BY <1>1, <2>1, <2>2 DEF CTypeOK
<1>4. NothingLeftBehind /\ AfterOrigin /\ LineShown
  BY DEF CInit, NothingLeftBehind, AfterOrigin, LineShown, Editing
<1>5. origin \in Int /\ crossed \in BOOLEAN
  <2>1. origin \in Int
    BY DEF CInit
  <2>2. crossed \in BOOLEAN
    BY Zenon DEF CInit
  <2> QED BY <2>1, <2>2
<1> QED
  BY <1>2, <1>3, <1>4, <1>5 DEF IInv

\* Steps that touch neither the screen nor the line.
LEMMA QuietStep ==
  ASSUME IInv, UNCHANGED <<screen, line, hist>>, Editing' => Editing,
         port' \in {<<>>} \cup {<<sc>> : sc \in Scancodes},
         kb_buffer' \in {<<>>} \cup {<<c>> : c \in Chars},
         shift_pressed' \in BOOLEAN, caps_lock' \in BOOLEAN,
         pc' \in {"idle", "poll", "pop"}, reader' \in {"readline", "stdin"},
         kb_buffer' # <<>> => pc' = "pop"
  PROVE  IInv'
<1>1. CTypeOK'
  BY DEF IInv, CTypeOK, TypeOK, screen
<1>2. NothingLeftBehind'
  BY DEF NothingLeftBehind
<1>3. AfterOrigin' /\ LineShown'
  BY DEF IInv, AfterOrigin, LineShown, Shown, Cursor, screen, hist
<1> QED BY <1>1, <1>2, <1>3 DEF IInv, hist

LEMMA KeyEventStep == ASSUME IInv, NEW sc \in Scancodes, KeyEvent(sc) PROVE IInv'
<1>1. /\ port' = <<sc>>
      /\ UNCHANGED <<screen, line, hist, kb_buffer, shift_pressed, caps_lock, pc, reader>>
  BY DEF KeyEvent, keyboard
<1> QED
  BY <1>1, QuietStep DEF IInv, CTypeOK, NothingLeftBehind, Editing

\* One scancode gives the ring one character at most.
LEMMA HandleScancodeType ==
  ASSUME IInv, NEW sc \in Scancodes, kb_buffer = <<>>, HandleScancode(sc)
  PROVE  /\ kb_buffer' \in {<<>>} \cup {<<c>> : c \in Chars}
         /\ shift_pressed' \in BOOLEAN /\ caps_lock' \in BOOLEAN
<1>1. shift_pressed \in BOOLEAN /\ caps_lock \in BOOLEAN /\ sc.released \in BOOLEAN
  BY DEF IInv, CTypeOK, Scancodes
<1>2. CASE /\ shift_pressed' = ~sc.released
           /\ UNCHANGED <<kb_buffer, caps_lock>>
  BY <1>1, <1>2
<1>3. CASE caps_lock' = ~caps_lock /\ UNCHANGED <<kb_buffer, shift_pressed>>
  BY <1>1, <1>3
<1>4. CASE UNCHANGED keyboard
  BY <1>1, <1>4 DEF keyboard
<1>5. CASE /\ sc.key \in Keys /\ CharOf(sc.key) # NoChar
           /\ Push(CharOf(sc.key)) /\ UNCHANGED <<shift_pressed, caps_lock>>
  <2>1. CharOf(sc.key) \in Chars
    BY <1>5, ConsoleAssumption DEF CharOf
  <2>2. kb_buffer' = Append(<<>>, CharOf(sc.key))
    BY <1>5, ConsoleAssumption DEF Push
  <2>3. kb_buffer' = <<CharOf(sc.key)>>
    BY <2>2
  <2> QED BY <1>1, <1>5, <2>1, <2>3
<1> QED BY <1>2, <1>3, <1>4, <1>5 DEF HandleScancode

LEMMA KbPollStep == ASSUME IInv, KbPoll PROVE IInv'
<1>1. /\ pc = "poll" /\ kb_buffer = <<>> /\ pc' = "pop" /\ port' = <<>>
      /\ UNCHANGED <<screen, reader, line, hist>>
  BY DEF KbPoll, IInv, NothingLeftBehind
<1>2. /\ kb_buffer' \in {<<>>} \cup {<<c>> : c \in Chars}
      /\ shift_pressed' \in BOOLEAN /\ caps_lock' \in BOOLEAN
  <2>1. CASE port = <<>>
    BY <2>1 DEF KbPoll, keyboard, IInv, CTypeOK
  <2>2. CASE port # <<>>
    <3>1. PICK sc \in Scancodes : port = <<sc>>
      BY <2>2 DEF IInv, CTypeOK
    <3>2. HandleScancode(sc)
      BY <2>2, <3>1 DEF KbPoll
    <3> QED BY <1>1, <3>2, HandleScancodeType
  <2> QED BY <2>1, <2>2
<1> QED
  BY <1>1, <1>2, QuietStep DEF IInv, CTypeOK, Editing

LEMMA NothingYetStep == ASSUME IInv, NothingYet PROVE IInv'
<1>1. /\ pc = "pop" /\ pc' = "poll" /\ kb_buffer = <<>>
      /\ UNCHANGED <<screen, line, hist, kb_buffer, shift_pressed, caps_lock, port, reader>>
  BY DEF NothingYet, Again, keyboard
<1> QED
  BY <1>1, QuietStep DEF IInv, CTypeOK, Editing

\* The character kb_getchar returns was the only one.
LEMMA ReturnsTakes ==
  ASSUME IInv, NEW r, NEW c, Returns(r, c)
  PROVE  /\ c \in Chars /\ kb_buffer' = <<>> /\ pc = "pop" /\ reader = r
         /\ UNCHANGED <<shift_pressed, caps_lock, port, reader>>
<1>1. PICK x \in Chars : kb_buffer = <<x>>
  BY DEF Returns, IInv, CTypeOK
<1> QED BY <1>1 DEF Returns, Popped

LEMMA ReadStdinStep == ASSUME IInv, ReadStdin PROVE IInv'
<1>1. /\ pc = "idle" /\ pc' = "poll" /\ reader' = "stdin"
      /\ UNCHANGED <<screen, line, hist, kb_buffer, shift_pressed, caps_lock, port>>
  BY DEF ReadStdin, keyboard
<1> QED
  BY <1>1, QuietStep DEF IInv, CTypeOK, NothingLeftBehind, Editing

LEMMA StdinReadStep == ASSUME IInv, NEW c, StdinRead(c) PROVE IInv'
<1>1. /\ kb_buffer' = <<>> /\ pc' = "idle"
      /\ UNCHANGED <<shift_pressed, caps_lock, port, reader, screen, line, hist>>
  BY ReturnsTakes DEF StdinRead
<1> QED
  BY <1>1, QuietStep DEF IInv, CTypeOK, Editing

LEMMA LineIgnoresStep == ASSUME IInv, NEW c, LineIgnores(c) PROVE IInv'
<1>1. /\ kb_buffer' = <<>> /\ pc' = "poll" /\ pc = "pop" /\ reader = "readline"
      /\ UNCHANGED <<shift_pressed, caps_lock, port, reader, screen, line, hist>>
  BY ReturnsTakes DEF LineIgnores
<1> QED
  BY <1>1, QuietStep DEF IInv, CTypeOK, Editing

\* Steps after which nobody edits a line.
LEMMA NotEditingStep ==
  ASSUME IInv, TypeOK', pc' = "idle", kb_buffer' = <<>>,
         UNCHANGED <<shift_pressed, caps_lock, port, reader>>,
         UNCHANGED <<line, hist>> \/ LineDone
  PROVE  IInv'
<1>1. line' \in Seq(Letters) /\ origin' \in Int /\ crossed' \in BOOLEAN
  <2>1. CASE UNCHANGED <<line, hist>>
    <3>1. line' = line /\ origin' = origin /\ crossed' = crossed
      BY <2>1 DEF hist
    <3> QED BY <3>1 DEF IInv
  <2>2. CASE LineDone
    <3>1. line' \in Seq(Letters)
      BY <2>2, EmptySeq DEF LineDone
    <3>2. origin' \in Int
      BY <2>2 DEF LineDone
    <3>3. crossed' \in BOOLEAN
      BY <2>2, Zenon DEF LineDone
    <3> QED BY <3>1, <3>2, <3>3
  <2> QED BY <2>1, <2>2
<1>2. Len(line') < MaxLen /\ \A k \in 1 .. Len(line') : line'[k] \in Chars \ Controls
  <2>1. CASE UNCHANGED line
    BY <2>1 DEF IInv, CTypeOK
  <2>2. CASE line' = <<>>
    BY <2>2, EmptySeq, ConsoleAssumption
  <2> QED BY <2>1, <2>2 DEF LineDone
<1>3. CTypeOK'
  BY <1>2 DEF IInv, CTypeOK
<1>4. NothingLeftBehind' /\ AfterOrigin' /\ LineShown'
  BY DEF NothingLeftBehind, AfterOrigin, LineShown, Editing
<1> QED BY <1>1, <1>3, <1>4 DEF IInv

LEMMA PrintsStep == ASSUME IInv, Prints PROVE IInv'
<1>1. TypeOK'
  BY PutcharType, ClearType, ConsoleAssumption DEF Prints, IInv, CTypeOK
<1>2. pc = "idle" /\ kb_buffer = <<>>
  BY DEF Prints, IInv, NothingLeftBehind
<1> QED
  BY <1>1, <1>2, NotEditingStep DEF Prints, keyboard, hist

LEMMA LineEnteredStep == ASSUME IInv, NEW c, LineEntered(c) PROVE IInv'
<1>1. TypeOK'
  BY PutcharType DEF LineEntered, IInv, CTypeOK, Controls
<1> QED
  BY <1>1, ReturnsTakes, NotEditingStep DEF LineEntered, LineDone

LEMMA KbReadlineStep == ASSUME IInv, KbReadline PROVE IInv'
<1>1. /\ pc = "idle" /\ pc' = "poll" /\ reader' = "readline" /\ line' = <<>>
      /\ origin' = Cursor /\ crossed' = FALSE /\ kb_buffer = <<>>
      /\ UNCHANGED <<vga, cursor_x, cursor_y, kb_buffer, shift_pressed, caps_lock, port>>
  BY DEF KbReadline, screen, keyboard, IInv, NothingLeftBehind
<1>2. TypeOK' /\ Cursor' = Cursor /\ Cursor \in Nat
  BY <1>1, CursorFacts DEF IInv, CTypeOK, TypeOK, Cursor
<1>3. line' \in Seq(Letters) /\ Len(line') = 0
  BY <1>1, EmptySeq
<1>4. CTypeOK'
  <2>1. Len(line') < MaxLen /\ \A k \in 1 .. Len(line') : line'[k] \in Chars \ Controls
    BY <1>3, ConsoleAssumption
  <2> QED BY <1>1, <1>2, <2>1 DEF IInv, CTypeOK
<1>5. AfterOrigin' /\ LineShown'
  BY <1>1, <1>2, <1>3 DEF AfterOrigin, LineShown, Shown
<1>6. origin' \in Int /\ crossed' \in BOOLEAN
  <2>1. crossed' \in BOOLEAN
    BY <1>1, Zenon
  <2> QED BY <1>1, <1>2, <2>1
<1> QED BY <1>1, <1>3, <1>4, <1>5, <1>6 DEF IInv, NothingLeftBehind

------------------------------------------------------------------------------
(* A character of the line is rubbed out or added.                          *)
\* What is left of a line has one character less.
LEMMA WithoutLast ==
  ASSUME NEW S, NEW s \in Seq(S), Len(s) > 0
  PROVE  Len(SubSeq(s, 1, Len(s) - 1)) = Len(s) - 1
<1> DEFINE n == Len(s) - 1
<1>1. n \in Int /\ 1 \in Int
  OBVIOUS
<1>2. n \in Nat
  OBVIOUS
<1>3. \A i \in 1 .. n : s[i] \in S
  OBVIOUS
<1> HIDE DEF n
<1>4. Len(SubSeq(s, 1, n)) = IF 1 =< n THEN n - 1 + 1 ELSE 0
  BY <1>1, <1>3, SubSeqProperties
<1>5. Len(SubSeq(s, 1, n)) = n
  BY <1>2, <1>4
<1> QED BY <1>5 DEF n

LEMMA LineErasedStep == ASSUME IInv, NEW c, LineErased(c) PROVE IInv'
<1>1. /\ c = "backspace" /\ kb_buffer' = <<>> /\ pc = "pop" /\ pc' = "poll"
      /\ reader = "readline"
      /\ UNCHANGED <<shift_pressed, caps_lock, port, reader>>
  BY ReturnsTakes DEF LineErased
<1>2. /\ ScreenPutchar("backspace") /\ crossed' = (crossed \/ cursor_x = 0)
      /\ line' = SubSeq(line, 1, Len(line) - 1) /\ Len(line) > 0
      /\ origin' = IF Scrolls("backspace") THEN Lifted(origin) ELSE origin
  BY <1>1 DEF LineErased, Echoes, Erasable
<1>3. TypeOK /\ Editing /\ line \in Seq(Letters) /\ origin \in Int
  BY <1>1 DEF IInv, CTypeOK, Editing
<1>4. TypeOK'
  BY <1>2, <1>3, PutcharType DEF Controls
<1>5. /\ origin' = origin
      /\ cursor_x > 0 => Cursor' = Cursor - 1 /\ vga' = [vga EXCEPT ![Cursor - 1] = Blank]
      /\ cursor_x = 0 => Cursor' = Cursor /\ vga' = vga
  BY <1>2, <1>3, BackspaceWrites
<1>6. /\ line' \in Seq(Letters) /\ Len(line') = Len(line) - 1 /\ Len(line) \in Nat
      /\ \A k \in 1 .. Len(line) - 1 : line'[k] = line[k]
  <2>1. Len(line) \in Nat
    BY <1>3
  <2>2. 1 \in 1 .. Len(line) + 1 /\ Len(line) - 1 \in 0 .. Len(line)
    BY <1>2, <2>1
  <2>3. line' = SubSeq(line, 1, Len(line) - 1)
    BY <1>2
  <2>4. line' \in Seq(Letters)
    BY <1>3, <2>1, <2>2, <2>3, SubSeqProperties
  <2>5. Len(line') = Len(line) - 1
    BY <1>2, <1>3, <2>3, WithoutLast
  <2>6. \A k \in 1 .. Len(line) - 1 : line'[k] = line[k]
    BY <1>2, <1>3, <2>1, <2>3
  <2> QED BY <2>1, <2>4, <2>5, <2>6
<1>7. Cursor \in Cells /\ Cursor \in Nat /\ (cursor_x > 0 => Cursor - 1 \in Cells)
  BY <1>3, CursorFacts
<1>8. CTypeOK'
  <2>1. Len(line') < MaxLen
    BY <1>6, ConsoleAssumption DEF IInv, CTypeOK
  <2>2. \A k \in 1 .. Len(line') : line'[k] \in Chars \ Controls
    BY <1>6 DEF Letters
  <2> QED BY <1>1, <1>4, <2>1, <2>2 DEF IInv, CTypeOK
<1>9. cursor_x \in Nat
  BY <1>3 DEF TypeOK
<1>10. AfterOrigin'
  <2>1. Cursor >= origin + Len(line)
    BY <1>3 DEF IInv, AfterOrigin
  <2>2. Cursor' >= origin' + Len(line')
    BY <1>3, <1>5, <1>6, <1>7, <1>9, <2>1
  <2> QED BY <2>2 DEF AfterOrigin
<1>11. LineShown'
  <2> SUFFICES ASSUME ~crossed' PROVE Shown'
    BY DEF LineShown
  <2>1. ~crossed /\ cursor_x > 0
    <3>1. ~crossed /\ ~(cursor_x = 0)
      BY <1>2, Zenon
    <3> QED BY <1>9, <3>1
  <2>2. Cursor = origin + Len(line)
    BY <1>3, <2>1 DEF IInv, LineShown, Shown
  <2>3. Cursor' = origin' + Len(line')
    BY <1>3, <1>5, <1>6, <1>7, <2>1, <2>2
  <2>4. ASSUME NEW k \in 1 .. Len(line'), origin' + k - 1 >= 0
        PROVE  vga'[origin' + k - 1] = line'[k]
    <3>1. /\ k \in 1 .. Len(line) /\ line'[k] = line[k] /\ origin' = origin
          /\ origin + k - 1 # Cursor - 1
      BY <1>3, <1>5, <1>6, <2>2
    <3>2. vga[origin + k - 1] = line[k]
      BY <1>3, <2>1, <2>4, <3>1 DEF IInv, LineShown, Shown
    <3>3. origin + k - 1 \in Cells
      BY <1>3, <1>6, <1>7, <2>2, <2>4, <3>1, ScreenAssumption DEF Cells
    <3>4. vga'[origin + k - 1] = vga[origin + k - 1]
      BY <1>3, <1>5, <2>1, <3>1, <3>3 DEF TypeOK
    <3> QED BY <3>1, <3>2, <3>4
  <2> QED BY <2>3, <2>4 DEF Shown
<1>12. crossed' \in BOOLEAN
  BY <1>2, Zenon
<1>13. NothingLeftBehind'
  BY <1>1 DEF NothingLeftBehind
<1> QED BY <1>3, <1>5, <1>6, <1>8, <1>10, <1>11, <1>12, <1>13 DEF IInv

\* What an echoed character does to the screen and to where the line began; the
\* bound of Lifted cuts off nothing of a line the screen shows.
LEMMA EchoMoves ==
  ASSUME IInv, TypeOK', Editing, NEW c, c \notin Controls, Echoes(c),
         Len(line) + 1 < MaxLen - 1
  PROVE  \E d \in Nat :
           /\ Cursor' = Cursor + 1 - d
           /\ \/ origin' = origin - d
              \/ ~Shown /\ origin' = -MaxLen
           /\ \A i \in Nat : i + d =< Cursor =>
                vga'[i] = IF i + d = Cursor THEN c ELSE vga[i + d]
<1>1. TypeOK /\ origin \in Int /\ Len(line) \in Nat /\ MaxLen \in Nat
  BY ConsoleAssumption DEF IInv, CTypeOK
<1>2. /\ Cursor \in Cells /\ Cursor \in Nat /\ Cursor' \in Nat
      /\ vga \in [Cells -> Chars \cup {Blank}]
  BY <1>1, CursorFacts, CursorAfter DEF TypeOK
<1>3. \A i \in Nat : i =< Cursor => i \in Cells
  BY <1>2, ScreenAssumption DEF Cells
<1>4. ScreenPutchar(c) /\ origin' = IF Scrolls(c) THEN Lifted(origin) ELSE origin
  BY DEF Echoes
<1>5. CASE ~Scrolls(c)
  <2>1. Cursor' = Cursor + 1 /\ vga' = [vga EXCEPT ![Cursor] = c] /\ origin' = origin
    BY <1>1, <1>4, <1>5, PutcharWrites
  <2>2. \A i \in Nat : i + 0 =< Cursor =>
          vga'[i] = IF i + 0 = Cursor THEN c ELSE vga[i + 0]
    BY <1>2, <1>3, <2>1
  <2>3. Cursor' = Cursor + 1 - 0 /\ origin' = origin - 0 /\ 0 \in Nat
    BY <1>1, <1>2, <2>1
  <2> QED BY <2>2, <2>3
<1>6. CASE Scrolls(c)
  <2>1. /\ Cursor' = Cursor + 1 - Width
        /\ vga' = ScrolledUp([vga EXCEPT ![Cursor] = c])
        /\ origin' = Lifted(origin)
    BY <1>1, <1>4, <1>6, PutcharWrites
  <2>2. Width \in Nat
    BY ScreenAssumption
  <2> DEFINE cells == [vga EXCEPT ![Cursor] = c]
  <2>3. \A i \in Nat : i + Width =< Cursor =>
          /\ i \in Cells /\ i + Width \in Cells
          /\ cells[i + Width] = IF i + Width = Cursor THEN c ELSE vga[i + Width]
    BY <1>2, <1>3, <2>2
  <2> HIDE DEF cells
  <2>4. \A i \in Nat : i + Width =< Cursor =>
          vga'[i] = IF i + Width = Cursor THEN c ELSE vga[i + Width]
    <3>1. vga' = ScrolledUp(cells)
      BY <2>1 DEF cells
    <3> QED BY <2>3, <3>1 DEF ScrolledUp
  <2>5. origin' = origin - Width \/ (~Shown /\ origin' = -MaxLen)
    <3>1. CASE origin - Width < -MaxLen
      <4>1. origin' = -MaxLen
        BY <2>1, <3>1 DEF Lifted
      <4>2. Cursor # origin + Len(line)
        BY <1>1, <1>2, <2>1, <2>2, <3>1
      <4> QED BY <4>1, <4>2 DEF Shown
    <3>2. CASE ~(origin - Width < -MaxLen)
      BY <2>1, <3>2 DEF Lifted
    <3> QED BY <3>1, <3>2
  <2> QED BY <2>1, <2>2, <2>4, <2>5
<1> QED BY <1>5, <1>6

LEMMA LineExtendedStep == ASSUME IInv, NEW c, LineExtended(c) PROVE IInv'
<1>1. /\ c \in Chars /\ c \notin Controls /\ kb_buffer' = <<>> /\ pc = "pop"
      /\ reader = "readline"
      /\ UNCHANGED <<shift_pressed, caps_lock, port, reader>>
  BY ReturnsTakes DEF LineExtended
<1>2. TypeOK'
  BY <1>1, PutcharType DEF LineExtended, Echoes, IInv, CTypeOK
<1>3. CASE ~(Len(line) + 1 < MaxLen - 1)
  BY <1>1, <1>2, <1>3, NotEditingStep DEF LineExtended, LineDone
<1>4. CASE Len(line) + 1 < MaxLen - 1
  <2>1. /\ line' = Append(line, c) /\ pc' = "poll" /\ Echoes(c) /\ crossed' = crossed
    BY <1>4 DEF LineExtended
  <2>2. /\ Editing /\ line \in Seq(Letters) /\ c \in Letters /\ origin \in Int
        /\ Len(line) \in Nat /\ MaxLen \in Nat
    BY <1>1, ConsoleAssumption DEF IInv, Editing, Letters
  <2>3. /\ line' \in Seq(Letters) /\ Len(line') = Len(line) + 1
        /\ line'[Len(line) + 1] = c
        /\ \A k \in 1 .. Len(line) : line'[k] = line[k]
    BY <2>1, <2>2, AppendProperties
  <2>4. CTypeOK'
    <3>1. Len(line') < MaxLen
      BY <1>4, <2>2, <2>3
    <3>2. \A k \in 1 .. Len(line') : line'[k] \in Chars \ Controls
      BY <2>3 DEF Letters
    <3> QED BY <1>1, <1>2, <2>1, <3>1, <3>2 DEF IInv, CTypeOK
  <2>5. PICK d \in Nat :
           /\ Cursor' = Cursor + 1 - d
           /\ \/ origin' = origin - d
              \/ ~Shown /\ origin' = -MaxLen
           /\ \A i \in Nat : i + d =< Cursor =>
                vga'[i] = IF i + d = Cursor THEN c ELSE vga[i + d]
    BY <1>1, <1>2, <1>4, <2>1, <2>2, EchoMoves
  <2>6. Cursor \in Nat /\ Cursor' \in Nat
    BY <1>2, CursorFacts, CursorAfter DEF IInv, CTypeOK
  <2>7. AfterOrigin'
    <3>1. Cursor >= origin + Len(line)
      BY <2>2 DEF IInv, AfterOrigin
    <3>2. Cursor' >= origin' + Len(line')
      BY <1>4, <2>2, <2>3, <2>5, <2>6, <3>1
    <3> QED BY <3>2 DEF AfterOrigin
  <2>8. LineShown'
    <3> SUFFICES ASSUME ~crossed' PROVE Shown'
      BY DEF LineShown
    <3>1. Shown
      BY <2>1, <2>2 DEF IInv, LineShown
    <3>2. Cursor = origin + Len(line) /\ origin' = origin - d
      BY <2>5, <3>1 DEF Shown
    <3>3. Cursor' = origin' + Len(line')
      BY <2>2, <2>3, <2>5, <2>6, <3>2
    <3>4. ASSUME NEW k \in 1 .. Len(line'), origin' + k - 1 >= 0
          PROVE  vga'[origin' + k - 1] = line'[k]
      <4>1. /\ origin' + k - 1 \in Nat /\ origin' + k - 1 + d =< Cursor
            /\ origin' + k - 1 + d = origin + k - 1
            /\ (origin' + k - 1 + d = Cursor) <=> (k = Len(line) + 1)
        BY <2>2, <2>3, <2>6, <3>2, <3>4
      <4>2. vga'[origin' + k - 1] = IF k = Len(line) + 1 THEN c ELSE vga[origin + k - 1]
        BY <2>5, <4>1
      <4>3. CASE k = Len(line) + 1
        BY <2>3, <4>2, <4>3
      <4>4. CASE k # Len(line) + 1
        <5>1. k \in 1 .. Len(line) /\ origin + k - 1 >= 0
          BY <2>2, <2>3, <3>2, <3>4, <4>1, <4>4
        <5> QED BY <2>3, <3>1, <4>2, <4>4, <5>1 DEF Shown
      <4> QED BY <4>3, <4>4
    <3> QED BY <3>3, <3>4 DEF Shown
  <2>9. origin' \in Int /\ crossed' \in BOOLEAN
    <3>1. origin' \in Int
      BY <2>2, <2>5
    <3>2. crossed' \in BOOLEAN
      BY <2>1 DEF IInv
    <3> QED BY <3>1, <3>2
  <2> QED BY <1>1, <2>1, <2>3, <2>4, <2>7, <2>8, <2>9 DEF IInv, NothingLeftBehind
<1> QED BY <1>3, <1>4

LEMMA StutterStep == ASSUME IInv, UNCHANGED cvars PROVE IInv'
<1>1. UNCHANGED <<screen, line, hist, kb_buffer, shift_pressed, caps_lock, port, pc, reader>>
  BY DEF cvars, keyboard
<1> QED
  BY <1>1, QuietStep DEF IInv, CTypeOK, NothingLeftBehind, Editing

LEMMA NextIInv == IInv /\ [CNext]_cvars => IInv'
<1> SUFFICES ASSUME IInv, [CNext]_cvars PROVE IInv'
  OBVIOUS
<1>1. CASE \E sc \in Scancodes : KeyEvent(sc)
  BY <1>1, KeyEventStep
<1>2. CASE Reads
  <2>1. CASE KbPoll
    BY <2>1, KbPollStep
  <2>2. CASE NothingYet
    BY <2>2, NothingYetStep
  <2>3. ASSUME NEW c \in Chars, StdinRead(c) PROVE IInv'
    BY <2>3, StdinReadStep
  <2>4. ASSUME NEW c \in Chars, LineEntered(c) PROVE IInv'
    BY <2>4, LineEnteredStep
  <2>5. ASSUME NEW c \in Chars, LineErased(c) PROVE IInv'
    BY <2>5, LineErasedStep
  <2>6. ASSUME NEW c \in Chars, LineExtended(c) PROVE IInv'
    BY <2>6, LineExtendedStep
  <2>7. ASSUME NEW c \in Chars, LineIgnores(c) PROVE IInv'
    BY <2>7, LineIgnoresStep
  <2> QED BY <1>2, <2>1, <2>2, <2>3, <2>4, <2>5, <2>6, <2>7 DEF Reads
<1>3. CASE ReadStdin
  BY <1>3, ReadStdinStep
<1>4. CASE KbReadline
  BY <1>4, KbReadlineStep
<1>5. CASE Prints
  BY <1>5, PrintsStep
<1>6. CASE UNCHANGED cvars
  BY <1>6, StutterStep
<1> QED BY <1>1, <1>2, <1>3, <1>4, <1>5, <1>6 DEF CNext

------------------------------------------------------------------------------
\* The state of the console is as declared, the ring holds nothing when no reader
\* is about to take it, the cursor never falls behind the line and the line is on
\* the screen: keyboard.c and screen.c with any sizes and any keys.
THEOREM ConsoleInvariant == CSpec => []IInv
<1>1. CInit => IInv
  BY InitIInv
<1>2. IInv /\ [CNext]_cvars => IInv'
  BY NextIInv
<1> QED BY <1>1, <1>2, PTL DEF CSpec

\* The cursor stays on the screen and the ring holds a character at most, for any
\* sizes (src/core/drivers/screen.c, src/core/drivers/keyboard.c).
THEOREM ConsoleTypeCorrect == CSpec => []CTypeOK
<1>1. IInv => CTypeOK
  BY DEF IInv
<1> QED BY <1>1, ConsoleInvariant, PTL

\* kb_readline shows the line it edits as long as no backspace was typed in column
\* 0, however the line wraps and the screen scrolls.
THEOREM ConsoleLineShown == CSpec => []LineShown
<1>1. IInv => LineShown
  BY DEF IInv
<1> QED BY <1>1, ConsoleInvariant, PTL

\* No character typed for one reader reaches the next, and none is dropped for want
\* of room in kb_buffer.
THEOREM ConsoleNothingLeftBehind == CSpec => []NothingLeftBehind
<1>1. IInv => NothingLeftBehind
  BY DEF IInv
<1> QED BY <1>1, ConsoleInvariant, PTL

\* The part of the screen before the line is as it was, or has moved up with it.
LEMMA EarlierTextStep ==
  ASSUME IInv, TypeOK', [CNext]_cvars, Editing, Editing',
         NEW i \in 0 .. origin' - 1
  PROVE  vga'[i] = vga[i + origin - origin']
<1>1. /\ TypeOK /\ origin \in Int /\ line \in Seq(Letters) /\ Len(line) \in Nat
      /\ Cursor >= origin + Len(line) /\ pc # "idle" /\ pc' # "idle"
  BY DEF IInv, CTypeOK, AfterOrigin, Editing
<1>2. Cursor \in Cells /\ Cursor \in Nat /\ (cursor_x > 0 => Cursor - 1 \in Cells)
      /\ vga \in [Cells -> Chars \cup {Blank}] /\ cursor_x \in Nat
  BY <1>1, CursorFacts DEF TypeOK
<1>3. CASE UNCHANGED <<vga, origin>>
  <2>1. origin \in Int /\ i \in Int /\ origin' = origin
    BY <1>1, <1>3
  <2>2. i + origin - origin' = i
    BY <2>1
  <2> QED BY <1>3, <2>2
<1>4. ASSUME NEW c, LineErased(c) PROVE vga'[i] = vga[i + origin - origin']
  <2>1. c = "backspace" /\ ScreenPutchar("backspace") /\ Len(line) > 0
    BY <1>4 DEF LineErased, Echoes, Erasable
  <2>2. /\ cursor_x > 0 => vga' = [vga EXCEPT ![Cursor - 1] = Blank]
        /\ cursor_x = 0 => vga' = vga
        /\ origin' = origin
    BY <1>1, <1>4, <2>1, BackspaceWrites DEF LineErased, Echoes
  <2>3. i # Cursor - 1 /\ i + origin - origin' = i
    BY <1>1, <1>2, <2>1, <2>2
  <2>4. i \in Cells
    BY <1>1, <1>2, <2>1, <2>2, ScreenAssumption DEF Cells
  <2> QED BY <1>2, <2>2, <2>3, <2>4
<1>5. ASSUME NEW c, LineExtended(c) PROVE vga'[i] = vga[i + origin - origin']
  <2>1. c \notin Controls /\ Len(line) + 1 < MaxLen - 1 /\ Echoes(c)
    BY <1>1, <1>5 DEF LineExtended, LineDone
  <2>2. PICK d \in Nat :
           /\ \/ origin' = origin - d
              \/ ~Shown /\ origin' = -MaxLen
           /\ \A j \in Nat : j + d =< Cursor =>
                vga'[j] = IF j + d = Cursor THEN c ELSE vga[j + d]
    BY <2>1, EchoMoves
  <2>3. MaxLen \in Nat /\ origin' > 0 /\ i \in Nat
    <3>1. MaxLen \in Nat
      BY ConsoleAssumption
    <3>2. origin' \in Int
      BY <1>1, <2>2, <3>1
    <3>3. \A o \in Int : \A n \in 0 .. o - 1 : o > 0 /\ n \in Nat
      OBVIOUS
    <3>4. origin' > 0 /\ i \in Nat
      BY <3>2, <3>3
    <3> QED BY <3>1, <3>4
  <2>4. origin' = origin - d
    BY <2>2, <2>3
  <2>5. i + origin - origin' = i + d /\ i + d < Cursor
    BY <1>1, <1>2, <2>3, <2>4
  <2>6. vga'[i] = vga[i + d]
    BY <1>2, <2>2, <2>3, <2>5
  <2> QED BY <2>5, <2>6
<1>6. CASE UNCHANGED cvars
  BY <1>3, <1>6 DEF cvars, screen, hist
<1>7. CASE CNext
  <2>1. CASE \/ \E sc \in Scancodes : KeyEvent(sc)
             \/ KbPoll \/ NothingYet \/ ReadStdin
             \/ \E c \in Chars : StdinRead(c) \/ LineIgnores(c)
    BY <1>3, <2>1
       DEF KeyEvent, KbPoll, NothingYet, ReadStdin, StdinRead, LineIgnores, screen, hist
  <2>2. CASE \E c \in Chars : LineErased(c) \/ LineExtended(c)
    BY <1>4, <1>5, <2>2
  <2>3. CASE KbReadline \/ Prints \/ \E c \in Chars : LineEntered(c)
    BY <1>1, <2>3 DEF KbReadline, Prints, LineEntered, LineDone
  <2> QED BY <1>7, <2>1, <2>2, <2>3 DEF CNext, Reads
<1> QED BY <1>6, <1>7

\* While kb_readline edits a line, what stood on the screen before it is neither
\* erased nor overwritten: it only moves up with the line when the screen scrolls.
THEOREM ConsoleEarlierTextKept == CSpec => EarlierTextKept
<1>1. IInv /\ IInv' /\ [CNext]_cvars =>
        [Editing /\ Editing' =>
           \A i \in 0 .. origin' - 1 : vga'[i] = vga[i + origin - origin']]_cvars
  BY EarlierTextStep DEF IInv, CTypeOK
<1> QED BY <1>1, ConsoleInvariant, PTL DEF CSpec, EarlierTextKept
------------------------------------------------------------------------------
(* The words parse_args cuts a line into.                                   *)
Marked == Chars \cup {Nul}

\* The place a scan of the buffer stops at.
LEMMA UptoFacts ==
  ASSUME NEW b \in Seq(Marked), NEW p \in Nat, 1 =< p, p =< Len(b) + 1, NEW stops
  PROVE  /\ Upto(b, p, stops) \in Nat
         /\ p =< Upto(b, p, stops) /\ Upto(b, p, stops) =< Len(b) + 1
         /\ \A q \in Nat : p =< q /\ q < Upto(b, p, stops) => b[q] \notin stops
         /\ Upto(b, p, stops) =< Len(b) => b[Upto(b, p, stops)] \in stops
<1> DEFINE found == {q \in p .. Len(b) : b[q] \in stops}
<1>1. Upto(b, p, stops) = IF found = {} THEN Len(b) + 1 ELSE Min(found)
  BY DEF Upto
<1>2. Len(b) \in Nat
  OBVIOUS
<1>3. CASE found = {}
  <2>1. \A q \in Nat : p =< q /\ q < Len(b) + 1 => b[q] \notin stops
    BY <1>2, <1>3
  <2> QED BY <1>1, <1>2, <1>3, <2>1
<1>4. CASE found # {}
  <2>1. found \in SUBSET Nat
    BY <1>2
  <2>2. Min(found) \in found /\ \A q \in found : Min(found) =< q
    BY <1>4, <2>1, MinOf
  <2>3. Upto(b, p, stops) = Min(found)
    BY <1>1, <1>4
  <2>4. \A q \in Nat : p =< q /\ q < Min(found) => b[q] \notin stops
    BY <1>2, <2>2
  <2> QED BY <1>2, <2>2, <2>3, <2>4
<1> QED BY <1>3, <1>4

\* A place nothing stops before, and that stops the scan or is the end, is where
\* it stops.
LEMMA UptoIs ==
  ASSUME NEW b \in Seq(Marked), NEW p \in Nat, 1 =< p, NEW stops,
         NEW e \in Nat, p =< e, e =< Len(b) + 1,
         \A q \in Nat : p =< q /\ q < e => b[q] \notin stops,
         e =< Len(b) => b[e] \in stops
  PROVE  Upto(b, p, stops) = e
<1> DEFINE u == Upto(b, p, stops)
<1>1. /\ u \in Nat /\ p =< u /\ u =< Len(b) + 1 /\ Len(b) \in Nat
      /\ \A q \in Nat : p =< q /\ q < u => b[q] \notin stops
      /\ u =< Len(b) => b[u] \in stops
  BY UptoFacts
<1> HIDE DEF u
<1>2. ~(u < e) /\ ~(e < u)
  BY <1>1
<1>3. u = e
  BY <1>1, <1>2
<1> QED BY <1>3 DEF u

StartsBefore(l, p) == {h \in WordStarts(l) : h < p}

(* What is true of argument k: it is a word of the line, with k - 1 words   *)
(* before it, and the buffer ends after it.                                 *)
ArgCut(l, s, k) ==
  /\ Cardinality(StartsBefore(l, s.argv[k])) = k - 1
  /\ \E j \in 1 .. Len(l) : IsWord(l, s.argv[k], j) /\ (j = Len(l) \/ s.buf[j + 1] = Nul)

(* The loop invariant of parse_args: the buffer is the line but for NULs in *)
(* place of spaces behind p, p is where no word is cut in two, and argv are *)
(* the words behind p, at most n of them.                                   *)
BufOK(l, s) ==
  /\ s.buf \in Seq(Marked) /\ Len(s.buf) = Len(l)
  /\ \A q \in Nat : 1 =< q /\ q =< Len(l) =>
       s.buf[q] = l[q] \/ (s.buf[q] = Nul /\ l[q] = Blank /\ q < s.p)

PlaceOK(l, s) ==
  /\ s.p \in Nat /\ 1 =< s.p /\ s.p =< Len(l) + 1
  /\ s.p = 1 \/ s.p = Len(l) + 1 \/ l[s.p - 1] = Blank

ArgvOK(l, s, n) ==
  /\ s.argv \in Seq(Nat) /\ Len(s.argv) =< n
  /\ Len(s.argv) = n \/ s.p = Len(l) + 1
  /\ Cardinality(StartsBefore(l, s.p)) = Len(s.argv)
  /\ \A k \in 1 .. Len(s.argv) : ArgCut(l, s, k)

Cutting(l, s, n) ==
  /\ s = [buf |-> s.buf, p |-> s.p, argv |-> s.argv]
  /\ BufOK(l, s) /\ PlaceOK(l, s) /\ ArgvOK(l, s, n)

LEMMA StartsFinite ==
  ASSUME NEW l \in Seq(Chars), NEW p
  PROVE  IsFiniteSet(StartsBefore(l, p)) /\ IsFiniteSet(WordStarts(l))
<1>1. IsFiniteSet(1 .. Len(l))
  BY FS_Interval
<1>2. WordStarts(l) \subseteq 1 .. Len(l) /\ StartsBefore(l, p) \subseteq 1 .. Len(l)
  BY DEF WordStarts, StartsBefore
<1> QED BY <1>1, <1>2, FS_Subset

(* Where a round finds a word: in it the line has no space, and no word lies  *)
(* between p and it.                                                        *)
Found(l, p, from, to) ==
  /\ from \in Nat /\ p =< from /\ from =< Len(l) + 1
  /\ \A q \in Nat : p =< q /\ q < from => l[q] = Blank
  /\ from =< Len(l) => /\ to \in Nat /\ from < to /\ to =< Len(l) + 1
                       /\ IsWord(l, from, to - 1)
                       /\ to =< Len(l) => l[to] = Blank

\* A round of parse_args finds the next word of the line.
LEMMA RoundWord ==
  ASSUME NEW l \in Seq(Chars), NEW s, BufOK(l, s), PlaceOK(l, s)
  PROVE  Found(l, s.p, SkipSpaces(s.buf, s.p), WordEnd(s.buf, SkipSpaces(s.buf, s.p)))
<1> DEFINE b == s.buf  p == s.p  L == Len(l)
           from == SkipSpaces(b, p)  to == WordEnd(b, from)
<1>1. /\ b \in Seq(Marked) /\ Len(b) = L /\ L \in Nat
      /\ p \in Nat /\ 1 =< p /\ p =< L + 1
      /\ p = 1 \/ p = L + 1 \/ l[p - 1] = Blank
  BY DEF BufOK, PlaceOK
<1>2. \A q \in Nat : p =< q /\ q =< L => b[q] = l[q]
  BY <1>1 DEF BufOK
<1>3. \A q \in Nat : 1 =< q /\ q =< L => b[q] \in Marked
  BY <1>1
<1> HIDE DEF b, p
<1>4. /\ from \in Nat /\ p =< from /\ from =< L + 1
      /\ \A q \in Nat : p =< q /\ q < from => b[q] \notin Marked \ {Blank}
      /\ from =< L => b[from] \in Marked \ {Blank}
  BY <1>1, UptoFacts DEF SkipSpaces, Marked
<1> HIDE DEF from
<1>5. \A q \in Nat : p =< q /\ q < from => l[q] = Blank
  BY <1>1, <1>2, <1>3, <1>4
<1>6. ASSUME from =< L
      PROVE  /\ to \in Nat /\ from < to /\ to =< L + 1
             /\ IsWord(l, from, to - 1)
             /\ to =< L => l[to] = Blank
  <2>1. /\ to \in Nat /\ from =< to /\ to =< L + 1
        /\ \A q \in Nat : from =< q /\ q < to => b[q] \notin {Blank, Nul}
        /\ to =< L => b[to] \in {Blank, Nul}
    BY <1>1, <1>4, UptoFacts DEF WordEnd
  <2> HIDE DEF to
  <2>2. \A q \in Nat : p =< q /\ q =< L => l[q] \in Chars /\ l[q] # Nul
    BY <1>1, ShellAssumption
  <2>3. b[from] = l[from] /\ l[from] # Blank /\ l[from] # Nul
    BY <1>2, <1>4, <1>6, <2>2
  <2>4. from < to
    BY <1>6, <2>1, <2>3, <1>4
  <2>5. to =< L => l[to] = Blank
    <3>1. p =< to
      BY <1>1, <1>4, <2>1
    <3>2. to =< L => b[to] = l[to]
      BY <1>2, <2>1, <3>1
    <3> QED BY <2>1, <2>2, <3>1, <3>2
  <2>6. from = 1 \/ l[from - 1] = Blank
    <3>1. CASE from = p
      BY <1>1, <1>6, <3>1
    <3>2. CASE p < from
      <4>1. from - 1 \in Nat /\ p =< from - 1 /\ from - 1 < from
        BY <1>1, <1>4, <3>2
      <4> QED BY <1>5, <4>1
    <3> QED BY <1>1, <1>4, <3>1, <3>2
  <2>7. from \in WordStarts(l)
    BY <1>1, <1>4, <1>6, <2>3, <2>6 DEF WordStarts
  <2>8. \A q \in from .. to - 1 : l[q] # Blank
    <3>1. \A q \in Nat : from =< q /\ q < to => b[q] = l[q] /\ b[q] # Blank
      BY <1>1, <1>2, <1>4, <2>1
    <3> QED BY <1>4, <2>1, <3>1
  <2>9. to - 1 \in from .. L
    BY <1>4, <2>1, <2>4, <1>1
  <2>10. to - 1 = L \/ l[(to - 1) + 1] = Blank
    BY <1>1, <2>1, <2>5
  <2> QED BY <2>1, <2>4, <2>5, <2>7, <2>8, <2>9, <2>10 DEF IsWord
<1>7. Found(l, p, from, to)
  BY <1>4, <1>5, <1>6 DEF Found
<1> QED BY <1>7 DEF b, p, from, to

\* Cut writes a NUL at p and nothing else.
LEMMA CutWrites ==
  ASSUME NEW b \in Seq(Marked), NEW p \in Nat, 1 =< p, p =< Len(b) + 1
  PROVE  /\ Cut(b, p) \in Seq(Marked) /\ Len(Cut(b, p)) = Len(b)
         /\ \A q \in Nat : 1 =< q /\ q =< Len(b) =>
              Cut(b, p)[q] = IF q = p THEN Nul ELSE b[q]
<1>1. Len(b) \in Nat /\ Nul \in Marked
  BY DEF Marked
<1>2. CASE p > Len(b)
  BY <1>1, <1>2 DEF Cut
<1>3. CASE p =< Len(b)
  <2>1. Cut(b, p) = [b EXCEPT ![p] = Nul]
    BY <1>1, <1>3 DEF Cut
  <2>2. [b EXCEPT ![p] = Nul] \in Seq(Marked) /\ Len([b EXCEPT ![p] = Nul]) = Len(b)
    BY <1>1, <1>3
  <2> QED BY <1>1, <1>3, <2>1, <2>2
<1> QED BY <1>1, <1>2, <1>3

\* Behind a word that was found there is one word more.
LEMMA OneWordMore ==
  ASSUME NEW l \in Seq(Chars), NEW p \in Nat, 1 =< p, NEW from, NEW to,
         Found(l, p, from, to), from =< Len(l),
         NEW p2 \in Nat, to =< Len(l) => p2 = to + 1, to > Len(l) => p2 = Len(l) + 1
  PROVE  /\ StartsBefore(l, from) = StartsBefore(l, p)
         /\ from \notin StartsBefore(l, p)
         /\ StartsBefore(l, p2) = StartsBefore(l, p) \cup {from}
<1>1. /\ Len(l) \in Nat /\ from \in Nat /\ p =< from
      /\ to \in Nat /\ from < to /\ to =< Len(l) + 1
      /\ \A q \in Nat : p =< q /\ q < from => l[q] = Blank
      /\ to =< Len(l) => l[to] = Blank
  BY DEF Found
<1>2. from \in WordStarts(l) /\ \A q \in from .. to - 1 : l[q] # Blank
  BY DEF Found, IsWord
<1>3. \A h \in WordStarts(l) :
        h \in Nat /\ h =< Len(l) /\ l[h] # Blank /\ (h = 1 \/ l[h - 1] = Blank)
  BY <1>1 DEF WordStarts
<1>4. \A h \in WordStarts(l) : ~(p =< h /\ h < from)
  BY <1>1, <1>3
<1>5. \A h \in WordStarts(l) : ~(from < h /\ h =< to)
  <2> SUFFICES ASSUME NEW h \in WordStarts(l), from < h, h =< to PROVE FALSE
    OBVIOUS
  <2>1. h - 1 \in from .. to - 1
    BY <1>1, <1>3
  <2>2. h = 1
    BY <1>2, <1>3, <2>1
  <2> QED BY <1>1, <2>2
<1>6. from < p2 /\ \A h \in WordStarts(l) : h < p2 <=> h =< to
  BY <1>1, <1>3
<1>7. ASSUME NEW h \in WordStarts(l)
      PROVE  (h < from <=> h < p) /\ (h < p2 <=> h < p \/ h = from)
  BY <1>1, <1>3, <1>4, <1>5, <1>6
<1>8. ~(from < p)
  BY <1>1
<1> QED BY <1>2, <1>7, <1>8 DEF StartsBefore

\* A round keeps the loop invariant.
LEMMA NextArgKeeps ==
  ASSUME NEW l \in Seq(Chars), NEW s, NEW n \in Nat, Cutting(l, s, n)
  PROVE  Cutting(l, NextArg(s), n + 1)
<1> DEFINE t    == NextArg(s)
           L    == Len(l)
           from == SkipSpaces(s.buf, s.p)
           to   == WordEnd(s.buf, from)
<1>1. /\ s = [buf |-> s.buf, p |-> s.p, argv |-> s.argv]
      /\ BufOK(l, s) /\ PlaceOK(l, s) /\ ArgvOK(l, s, n)
  BY DEF Cutting
<1>2. Found(l, s.p, from, to)
  BY <1>1, RoundWord
<1>3. /\ from > Len(s.buf) => t = [s EXCEPT !.p = from]
      /\ ~(from > Len(s.buf)) =>
           t = [buf |-> Cut(s.buf, to), p |-> Min({to, Len(s.buf)}) + 1,
                argv |-> Append(s.argv, from)]
  BY DEF NextArg
<1>4. /\ L \in Nat /\ Len(s.buf) = L /\ s.buf \in Seq(Marked)
      /\ s.p \in Nat /\ 1 =< s.p /\ s.p =< L + 1
      /\ s.argv \in Seq(Nat) /\ Len(s.argv) \in Nat
      /\ from \in Nat /\ s.p =< from /\ from =< L + 1
  BY <1>1, <1>2 DEF BufOK, PlaceOK, ArgvOK, Found
<1> HIDE DEF t, from, to
<1>5. CASE from > L
  <2>1. t = [buf |-> s.buf, p |-> L + 1, argv |-> s.argv]
    BY <1>1, <1>3, <1>4, <1>5
  <2>2. t.buf = s.buf /\ t.p = L + 1 /\ t.argv = s.argv
    BY <2>1
  <2>3. StartsBefore(l, L + 1) = StartsBefore(l, s.p)
    <3>1. \A h \in WordStarts(l) : h \in Nat /\ h =< L /\ l[h] # Blank
      BY <1>4 DEF WordStarts
    <3>2. \A h \in WordStarts(l) : h < L + 1 /\ h < s.p
      BY <1>2, <1>4, <1>5, <3>1 DEF Found
    <3> QED BY <3>2 DEF StartsBefore
  <2>4. BufOK(l, t)
    BY <1>1, <1>4, <2>2 DEF BufOK
  <2>5. PlaceOK(l, t)
    BY <1>4, <2>2 DEF PlaceOK
  <2>6. ArgvOK(l, t, n + 1)
    <3>1. \A k \in 1 .. Len(s.argv) : ArgCut(l, t, k)
      BY <1>1, <2>2 DEF ArgvOK, ArgCut
    <3>2. Len(s.argv) =< n /\ Cardinality(StartsBefore(l, s.p)) = Len(s.argv)
      BY <1>1 DEF ArgvOK
    <3> QED BY <1>4, <2>2, <2>3, <3>1, <3>2 DEF ArgvOK
  <2> QED BY <2>1, <2>2, <2>4, <2>5, <2>6 DEF Cutting, t
<1>6. CASE from =< L
  <2> DEFINE p2 == IF to =< L THEN to + 1 ELSE L + 1
  <2>1. /\ to \in Nat /\ from < to /\ to =< L + 1
        /\ IsWord(l, from, to - 1)
        /\ to =< L => l[to] = Blank
    BY <1>2, <1>6 DEF Found
  <2>2. Min({to, L}) + 1 = p2
    BY <1>4, <2>1, MinOfTwo
  <2>3. t = [buf |-> Cut(s.buf, to), p |-> p2, argv |-> Append(s.argv, from)]
    BY <1>3, <1>4, <1>6, <2>2
  <2>4. p2 \in Nat /\ s.p =< p2 /\ 1 =< p2 /\ p2 =< L + 1 /\ to < p2 + 1
        /\ (to =< L => p2 = to + 1) /\ (to > L => p2 = L + 1)
    BY <1>4, <2>1
  <2> HIDE DEF p2
  <2>5. t.buf = Cut(s.buf, to) /\ t.p = p2 /\ t.argv = Append(s.argv, from)
        /\ t = [buf |-> t.buf, p |-> t.p, argv |-> t.argv]
    BY <2>3
  <2>6. /\ t.buf \in Seq(Marked) /\ Len(t.buf) = L
        /\ \A q \in Nat : 1 =< q /\ q =< L => t.buf[q] = IF q = to THEN Nul ELSE s.buf[q]
    <3>1. 1 =< to /\ to =< Len(s.buf) + 1
      BY <1>4, <2>1
    <3>2. /\ Cut(s.buf, to) \in Seq(Marked) /\ Len(Cut(s.buf, to)) = Len(s.buf)
          /\ \A q \in Nat : 1 =< q /\ q =< Len(s.buf) =>
               Cut(s.buf, to)[q] = IF q = to THEN Nul ELSE s.buf[q]
      BY <1>4, <2>1, <3>1, CutWrites
    <3> QED BY <1>4, <2>5, <3>2
  <2>7. /\ StartsBefore(l, from) = StartsBefore(l, s.p)
        /\ from \notin StartsBefore(l, s.p)
        /\ StartsBefore(l, p2) = StartsBefore(l, s.p) \cup {from}
    BY <1>2, <1>4, <1>6, <2>4, OneWordMore
  <2>8. BufOK(l, t)
    <3>1. ASSUME NEW q \in Nat, 1 =< q, q =< L
          PROVE  t.buf[q] = l[q] \/ (t.buf[q] = Nul /\ l[q] = Blank /\ q < p2)
      <4>1. CASE q = to
        <5>1. l[q] = Blank /\ q < p2 /\ t.buf[q] = Nul
          BY <2>1, <2>4, <2>6, <3>1, <4>1
        <5> QED BY <5>1
      <4>2. CASE q # to
        <5>1. t.buf[q] = s.buf[q]
          BY <2>6, <3>1, <4>2
        <5>2. s.buf[q] = l[q] \/ (s.buf[q] = Nul /\ l[q] = Blank /\ q < s.p)
          BY <1>1, <3>1 DEF BufOK
        <5> QED BY <1>4, <2>4, <5>1, <5>2
      <4> QED BY <4>1, <4>2
    <3> QED BY <2>5, <2>6, <3>1 DEF BufOK
  <2>9. PlaceOK(l, t)
    <3>1. p2 = L + 1 \/ (p2 - 1 = to /\ l[to] = Blank)
      BY <1>4, <2>1, <2>4
    <3>2. p2 = L + 1 \/ l[p2 - 1] = Blank
      BY <3>1
    <3> QED BY <2>4, <2>5, <3>2 DEF PlaceOK
  <2>10. /\ Len(s.argv) = n /\ Cardinality(StartsBefore(l, s.p)) = n
         /\ \A k \in 1 .. n : ArgCut(l, s, k)
    <3>1. s.p # L + 1
      BY <1>4, <1>6
    <3> QED BY <1>1, <3>1 DEF ArgvOK
  <2>11. /\ t.argv \in Seq(Nat) /\ Len(t.argv) = n + 1 /\ t.argv[n + 1] = from
         /\ \A k \in 1 .. n : t.argv[k] = s.argv[k]
    BY <1>4, <2>5, <2>10
  <2>12. Cardinality(StartsBefore(l, p2)) = n + 1
    BY <2>7, <2>10, StartsFinite, FS_AddElement
  <2>13. ASSUME NEW k \in 1 .. n PROVE ArgCut(l, t, k)
    <3>1. PICK j \in 1 .. L : IsWord(l, s.argv[k], j) /\ (j = L \/ s.buf[j + 1] = Nul)
      BY <2>10 DEF ArgCut
    <3>2. j = L \/ t.buf[j + 1] = Nul
      <4>1. CASE j # L
        <5>1. j + 1 \in Nat /\ 1 =< j + 1 /\ j + 1 =< L
          BY <1>4, <4>1
        <5> QED BY <2>6, <3>1, <4>1, <5>1
      <4> QED BY <4>1
    <3> QED BY <2>10, <2>11, <3>1, <3>2 DEF ArgCut
  <2>14. ArgCut(l, t, n + 1)
    <3>1. to - 1 \in 1 .. L /\ (to - 1) + 1 = to /\ (to - 1 = L \/ to =< L)
      BY <1>4, <2>1
    <3>2. to - 1 = L \/ t.buf[(to - 1) + 1] = Nul
      BY <1>4, <2>1, <2>6, <3>1
    <3>3. Cardinality(StartsBefore(l, t.argv[n + 1])) = (n + 1) - 1
      BY <2>7, <2>10, <2>11
    <3> QED BY <2>1, <2>11, <3>1, <3>2, <3>3 DEF ArgCut
  <2>15. ArgvOK(l, t, n + 1)
    <3>1. \A k \in 1 .. n + 1 : k \in 1 .. n \/ k = n + 1
      OBVIOUS
    <3>2. \A k \in 1 .. Len(t.argv) : ArgCut(l, t, k)
      BY <2>11, <2>13, <2>14, <3>1
    <3> QED BY <2>5, <2>11, <2>12, <3>2 DEF ArgvOK
  <2> QED BY <2>5, <2>8, <2>9, <2>15 DEF Cutting, t
<1> QED BY <1>4, <1>5, <1>6

\* The rounds of parse_args, one after the other: the recursion has a solution,
\* so that the function of ParseArgs is it.
LEMMA RoundsExist ==
  ASSUME NEW l, NEW p, NEW m \in Nat
  PROVE  \E f : f = [n \in 0 .. m |-> IF n = 0 THEN [buf |-> l, p |-> p, argv |-> <<>>]
                                      ELSE NextArg(f[n - 1])]
<1> DEFINE s0 == [buf |-> l, p |-> p, argv |-> <<>>]
           Solves(f, k) == f = [n \in 0 .. k |-> IF n = 0 THEN s0 ELSE NextArg(f[n - 1])]
           Open == {k \in Nat : ~\E f : Solves(f, k)}
<1> HIDE DEF s0
<1>1. Open = {}
  <2> SUFFICES ASSUME Open # {} PROVE FALSE
    OBVIOUS
  <2>1. PICK k \in Open : \A j \in Open : k =< j
    <3>1. Open \in SUBSET Nat
      OBVIOUS
    <3> HIDE DEF Open
    <3> QED BY <3>1, LeastExists
  <2>2. k \in Nat /\ ~\E f : Solves(f, k)
    OBVIOUS
  <2>3. CASE k = 0
    <3>1. Solves([n \in 0 .. 0 |-> s0], 0)
      OBVIOUS
    <3> QED BY <2>2, <2>3, <3>1
  <2>4. CASE k # 0
    <3>1. k - 1 \in Nat /\ k - 1 \notin Open
      <4> HIDE DEF Open
      <4> QED BY <2>1, <2>2, <2>4
    <3>2. PICK f : Solves(f, k - 1)
      BY <3>1
    <3> DEFINE g == [n \in 0 .. k |-> IF n = k THEN NextArg(f[k - 1]) ELSE f[n]]
    <3>3. ASSUME NEW n \in 0 .. k
          PROVE  g[n] = IF n = 0 THEN s0 ELSE NextArg(g[n - 1])
      <4>1. CASE n = k
        <5>1. n - 1 \in 0 .. k /\ n - 1 # k /\ n - 1 = k - 1 /\ n # 0
          BY <2>2, <2>4, <4>1
        <5> QED BY <4>1, <5>1
      <4>2. CASE n # k
        <5>1. n \in 0 .. k - 1
          BY <2>2, <4>2
        <5>2. f[n] = IF n = 0 THEN s0 ELSE NextArg(f[n - 1])
          BY <3>2, <5>1
        <5>3. n # 0 => n - 1 \in 0 .. k /\ n - 1 # k
          BY <2>2, <5>1
        <5> QED BY <4>2, <5>2, <5>3
      <4> QED BY <4>1, <4>2
    <3>4. Solves(g, k)
      <4>1. g = [n \in 0 .. k |-> g[n]]
        OBVIOUS
      <4> HIDE DEF g
      <4> QED BY <3>3, <4>1
    <3> QED BY <2>2, <3>4
  <2> QED BY <2>3, <2>4
<1>2. \E f : Solves(f, m)
  BY <1>1
<1> QED BY <1>2 DEF s0

\* After any number of rounds the loop invariant holds of what parse_args leaves.
LEMMA ParseArgsCuts ==
  ASSUME NEW l \in Seq(Chars), NEW p, NEW m \in Nat,
         Cutting(l, [buf |-> l, p |-> p, argv |-> <<>>], 0)
  PROVE  Cutting(l, ParseArgs(l, p, m), m)
<1> DEFINE s0 == [buf |-> l, p |-> p, argv |-> <<>>]
           Solves(f) == f = [n \in 0 .. m |-> IF n = 0 THEN s0 ELSE NextArg(f[n - 1])]
           after == CHOOSE f : Solves(f)
           Broken == {n \in 0 .. m : ~Cutting(l, after[n], n)}
<1>1. ParseArgs(l, p, m) = after[m]
  BY DEF ParseArgs
<1>2. Solves(after)
  BY RoundsExist
<1>3. Cutting(l, s0, 0)
  OBVIOUS
<1> HIDE DEF after, s0
<1>4. \A n \in 0 .. m : after[n] = IF n = 0 THEN s0 ELSE NextArg(after[n - 1])
  BY <1>2
<1>5. Broken = {}
  <2> SUFFICES ASSUME Broken # {} PROVE FALSE
    OBVIOUS
  <2>1. PICK n \in Broken : \A k \in Broken : n =< k
    <3>1. Broken \in SUBSET Nat
      OBVIOUS
    <3> HIDE DEF Broken
    <3> QED BY <3>1, LeastExists
  <2>2. n \in 0 .. m /\ ~Cutting(l, after[n], n)
    OBVIOUS
  <2>3. n # 0
    BY <1>3, <1>4, <2>2
  <2>4. n - 1 \in Nat /\ n - 1 \in 0 .. m /\ ~(n =< n - 1) /\ (n - 1) + 1 = n
    BY <2>2, <2>3
  <2>5. n - 1 \notin Broken
    <3> HIDE DEF Broken
    <3> QED BY <2>1, <2>4
  <2>6. Cutting(l, after[n - 1], n - 1)
    BY <2>4, <2>5
  <2>7. Cutting(l, NextArg(after[n - 1]), n)
    BY <2>4, <2>6, NextArgKeeps
  <2> QED BY <1>4, <2>2, <2>3, <2>7
<1>6. m \in 0 .. m
  OBVIOUS
<1> QED BY <1>1, <1>5, <1>6

\* parse_args starts behind the spaces at the head of the line.
LEMMA CuttingStarts ==
  ASSUME NEW l \in Seq(Chars)
  PROVE  Cutting(l, [buf |-> l, p |-> SkipSpaces(l, 1), argv |-> <<>>], 0)
<1> DEFINE p == SkipSpaces(l, 1)
           s == [buf |-> l, p |-> p, argv |-> <<>>]
<1>1. /\ l \in Seq(Marked) /\ Len(l) \in Nat
      /\ \A q \in Nat : 1 =< q /\ q =< Len(l) => l[q] \in Chars
  BY DEF Marked
<1>2. /\ p \in Nat /\ 1 =< p /\ p =< Len(l) + 1
      /\ \A q \in Nat : 1 =< q /\ q < p => l[q] \notin Marked \ {Blank}
  BY <1>1, UptoFacts DEF SkipSpaces, Marked
<1> HIDE DEF p
<1>3. \A q \in Nat : 1 =< q /\ q < p => l[q] = Blank
  BY <1>1, <1>2 DEF Marked
<1>4. BufOK(l, s)
  BY <1>1 DEF BufOK
<1>5. PlaceOK(l, s)
  <2>1. p # 1 => p - 1 \in Nat /\ 1 =< p - 1 /\ p - 1 < p
    BY <1>2
  <2>2. p = 1 \/ l[p - 1] = Blank
    BY <1>3, <2>1
  <2> QED BY <1>2, <2>2 DEF PlaceOK
<1>6. StartsBefore(l, p) = {}
  <2>1. \A h \in WordStarts(l) : h \in Nat /\ 1 =< h /\ l[h] # Blank
    BY <1>1 DEF WordStarts
  <2> QED BY <1>3, <2>1 DEF StartsBefore
<1>7. ArgvOK(l, s, 0)
  <2>1. Cardinality({}) = 0
    BY FS_EmptySet
  <2>2. Len(s.argv) = 0 /\ s.argv \in Seq(Nat) /\ s.p = p
    OBVIOUS
  <2> HIDE DEF s
  <2>3. \A k \in 1 .. Len(s.argv) : ArgCut(l, s, k)
    BY <2>2
  <2>4. Cardinality(StartsBefore(l, s.p)) = Len(s.argv)
    BY <1>6, <2>1, <2>2
  <2> QED BY <2>2, <2>3, <2>4 DEF ArgvOK
<1> QED BY <1>4, <1>5, <1>7 DEF Cutting, p

\* The string a handler finds at argv[k] is the word that was cut there.
LEMMA ArgIsWord ==
  ASSUME NEW l \in Seq(Chars), NEW s, NEW n \in Nat, Cutting(l, s, n),
         NEW k \in 1 .. Len(s.argv)
  PROVE  /\ IsWordAfter(l, k - 1, Arg(s, k))
         /\ Arg(s, k) \in Seq(Marked) /\ Arg(s, k) # <<>>
<1>1. /\ Len(l) \in Nat /\ s.buf \in Seq(Marked) /\ Len(s.buf) = Len(l)
      /\ \A q \in Nat : 1 =< q /\ q =< Len(l) =>
           s.buf[q] = l[q] \/ (s.buf[q] = Nul /\ l[q] = Blank /\ q < s.p)
      /\ ArgCut(l, s, k)
  BY DEF Cutting, BufOK, ArgvOK
<1> DEFINE i == s.argv[k]
<1>2. Cardinality(StartsBefore(l, i)) = k - 1
  BY <1>1 DEF ArgCut
<1>3. PICK j \in 1 .. Len(l) : IsWord(l, i, j) /\ (j = Len(l) \/ s.buf[j + 1] = Nul)
  BY <1>1 DEF ArgCut
<1>4. Arg(s, k) = SubSeq(s.buf, i, Upto(s.buf, i, {Nul}) - 1)
  BY DEF Arg
<1> HIDE DEF i
<1>5. /\ i \in 1 .. Len(l) /\ i =< j /\ j =< Len(l)
      /\ \A q \in Nat : i =< q /\ q =< j => l[q] # Blank
  <2>1. i \in WordStarts(l) /\ j \in i .. Len(l) /\ \A q \in i .. j : l[q] # Blank
    BY <1>3 DEF IsWord
  <2>2. i \in 1 .. Len(l)
    BY <2>1 DEF WordStarts
  <2> QED BY <1>1, <2>1, <2>2
<1>6. \A q \in Nat : i =< q /\ q =< j =>
        s.buf[q] = l[q] /\ l[q] \in Chars /\ s.buf[q] \notin {Nul}
  <2> SUFFICES ASSUME NEW q \in Nat, i =< q, q =< j
               PROVE  s.buf[q] = l[q] /\ l[q] \in Chars /\ s.buf[q] \notin {Nul}
    OBVIOUS
  <2>1. 1 =< q /\ q =< Len(l) /\ l[q] # Blank
    BY <1>1, <1>5
  <2>2. s.buf[q] = l[q] /\ l[q] \in Chars
    BY <1>1, <2>1
  <2> QED BY <2>2, ShellAssumption
<1>7. Upto(s.buf, i, {Nul}) = j + 1
  <2>1. /\ i \in Nat /\ 1 =< i /\ j + 1 \in Nat /\ i =< j + 1 /\ j + 1 =< Len(s.buf) + 1
        /\ i =< Len(s.buf) + 1
        /\ \A q \in Nat : i =< q /\ q < j + 1 => s.buf[q] \notin {Nul}
        /\ j + 1 =< Len(s.buf) => s.buf[j + 1] \in {Nul}
    BY <1>1, <1>3, <1>5, <1>6
  <2> QED BY <1>1, <2>1, UptoIs
<1>8. Arg(s, k) = SubSeq(s.buf, i, j)
  <2>1. (j + 1) - 1 = j
    OBVIOUS
  <2> QED BY <1>4, <1>7, <2>1
<1>9. /\ SubSeq(s.buf, i, j) \in Seq(Marked) /\ Len(SubSeq(s.buf, i, j)) = j - i + 1
      /\ SubSeq(l, i, j) \in Seq(Chars) /\ Len(SubSeq(l, i, j)) = j - i + 1
      /\ \A q \in 1 .. j - i + 1 : /\ SubSeq(s.buf, i, j)[q] = s.buf[i + q - 1]
                                   /\ SubSeq(l, i, j)[q] = l[i + q - 1]
  BY <1>1, <1>5
<1>10. SubSeq(s.buf, i, j) = SubSeq(l, i, j)
  <2>1. ASSUME NEW q \in 1 .. j - i + 1
        PROVE  SubSeq(s.buf, i, j)[q] = SubSeq(l, i, j)[q]
    <3>1. i + q - 1 \in Nat /\ i =< i + q - 1 /\ i + q - 1 =< j
      BY <1>5
    <3> QED BY <1>6, <1>9, <3>1
  <2>2. SubSeq(l, i, j) \in Seq(Marked)
    BY <1>9 DEF Marked
  <2>3. \A u, v \in Seq(Marked) :
          Len(u) = Len(v) /\ (\A q \in 1 .. Len(u) : u[q] = v[q]) => u = v
    OBVIOUS
  <2> QED BY <1>9, <2>1, <2>2, <2>3
<1>11. IsWordAfter(l, k - 1, Arg(s, k))
  BY <1>2, <1>3, <1>5, <1>8, <1>10 DEF IsWordAfter, StartsBefore
<1>12. Arg(s, k) # <<>>
  <2>1. j - i + 1 # 0
    BY <1>5
  <2>2. Len(Arg(s, k)) # 0
    BY <1>8, <1>9, <2>1
  <2> QED BY <2>2, EmptySeq
<1> QED BY <1>8, <1>9, <1>11, <1>12

\* However many words argv has room for, it holds that many of them.
LEMMA ArgvFull ==
  ASSUME NEW l \in Seq(Chars), NEW s, NEW n \in Nat, Cutting(l, s, n)
  PROVE  Len(s.argv) = Min({n, Cardinality(WordStarts(l))})
<1>1. /\ Len(s.argv) \in Nat /\ Len(s.argv) =< n
      /\ Len(s.argv) = n \/ s.p = Len(l) + 1
      /\ Cardinality(StartsBefore(l, s.p)) = Len(s.argv)
  BY DEF Cutting, ArgvOK
<1>2. /\ IsFiniteSet(WordStarts(l)) /\ StartsBefore(l, s.p) \subseteq WordStarts(l)
      /\ Cardinality(WordStarts(l)) \in Nat
  BY StartsFinite, FS_CardinalityType DEF StartsBefore
<1>3. Len(s.argv) =< Cardinality(WordStarts(l))
  BY <1>1, <1>2, FS_Subset
<1>4. s.p = Len(l) + 1 => Len(s.argv) = Cardinality(WordStarts(l))
  <2>1. \A h \in WordStarts(l) : h < Len(l) + 1
    BY DEF WordStarts
  <2> QED BY <1>1, <2>1 DEF StartsBefore
<1> QED BY <1>1, <1>2, <1>3, <1>4, MinOfTwo

\* What run gives to exec_program begins with a slash.
LEMMA RunPathRooted ==
  ASSUME NEW arg \in Seq(Marked), arg # <<>>
  PROVE  RunPath(arg)[1] = Slash
<1>1. Head(arg) = arg[1]
  OBVIOUS
<1>2. (<<Slash>> \o arg)[1] = Slash
  <2>1. <<Slash>> \in Seq({Slash} \cup Marked) /\ arg \in Seq({Slash} \cup Marked)
        /\ Len(<<Slash>>) = 1 /\ <<Slash>>[1] = Slash
    OBVIOUS
  <2>2. /\ Len(<<Slash>> \o arg) = 1 + Len(arg)
        /\ \A i \in 1 .. 1 + Len(arg) : (<<Slash>> \o arg)[i] =
             IF i =< 1 THEN <<Slash>>[i] ELSE arg[i - 1]
    BY <2>1, ConcatProperties
  <2>3. 1 \in 1 .. 1 + Len(arg)
    BY EmptySeq
  <2> QED BY <2>1, <2>2, <2>3
<1> QED BY <1>1, <1>2 DEF RunPath

\* The handlers get the words of any line of characters.
LEMMA LineWords ==
  ASSUME NEW l \in Seq(Chars), NEW m \in Nat
  PROVE  LET args == ShellArgs(l, m)
         IN  /\ Len(args) = Min({m, Cardinality(WordStarts(l))})
             /\ \A k \in DOMAIN args : IsWordAfter(l, k - 1, args[k])
             /\ \A k \in DOMAIN args : RunPath(args[k])[1] = Slash
<1> DEFINE s    == ParseArgs(l, SkipSpaces(l, 1), m)
           args == ShellArgs(l, m)
<1>1. Cutting(l, s, m)
  BY CuttingStarts, ParseArgsCuts
<1>2. args = [k \in 1 .. Len(s.argv) |-> Arg(s, k)]
  BY DEF ShellArgs
<1> HIDE DEF s, args
<1>3. Len(s.argv) \in Nat
  BY <1>1 DEF Cutting, ArgvOK
<1>4. Len(args) = Len(s.argv) /\ DOMAIN args = 1 .. Len(s.argv)
  BY <1>2, <1>3
<1>5. ASSUME NEW k \in DOMAIN args
      PROVE  IsWordAfter(l, k - 1, args[k]) /\ RunPath(args[k])[1] = Slash
  <2>1. args[k] = Arg(s, k) /\ k \in 1 .. Len(s.argv)
    BY <1>2, <1>4
  <2> QED BY <1>1, <2>1, ArgIsWord, RunPathRooted
<1>6. /\ Len(args) = Min({m, Cardinality(WordStarts(l))})
      /\ \A k \in DOMAIN args : IsWordAfter(l, k - 1, args[k])
      /\ \A k \in DOMAIN args : RunPath(args[k])[1] = Slash
  BY <1>1, <1>4, <1>5, ArgvFull
<1> QED BY <1>6 DEF args

\* A handler gets the words of the line, each whole and none longer, in order and
\* as many as argv has room for: whatever was typed and erased, for any line and
\* any number of arguments.
THEOREM ConsoleArgsAreWords == CSpec => []ArgsAreWords
<1>1. IInv => ArgsAreWords
  <2> SUFFICES ASSUME line \in Seq(Letters) PROVE ArgsAreWords
    BY DEF IInv
  <2>1. line \in Seq(Chars)
    BY DEF Letters
  <2>2. \A m \in 1 .. MaxArgs : m \in Nat
    BY ShellAssumption
  <2> QED BY <2>1, <2>2, LineWords DEF ArgsAreWords
<1> QED BY <1>1, ConsoleInvariant, PTL
==============================================================================
