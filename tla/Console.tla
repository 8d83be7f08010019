------------------------------- MODULE Console -------------------------------
(****************************************************************************)
(* The keyboard of core/drivers/keyboard.c and the line editor kb_readline, *)
(* over the screen they echo to.                                            *)
(*                                                                          *)
(* A scancode is a key and whether it was released.  Of kb_buffer the       *)
(* characters between tail and head are kept, in order.  ctrl_pressed,      *)
(* which nothing reads, is left out.                                        *)
(****************************************************************************)
EXTENDS Screen, Sequences

CONSTANTS Keys,           \* the keys besides the modifiers
          Plain, Shifted, \* scancode_map and scancode_shift_map
          NoChar,         \* the character 0 in them
          Outputs,        \* what commands and programs print
          MaxLen,         \* max_len of kb_readline, 256 for the shell
          BufferSize      \* KB_BUFFER_SIZE, 256 in the code

ASSUME ConsoleAssumption ==
  /\ Plain \in [Keys -> Chars \cup {NoChar}]
  /\ Shifted \in [Keys -> Chars \cup {NoChar}]
  /\ Outputs \subseteq Chars
  /\ MaxLen \in Nat /\ MaxLen > 1 /\ BufferSize \in Nat /\ BufferSize > 1

Shifts    == {"lshift", "rshift"}
Modifiers == Shifts \cup {"ctrl", "caps"}
Scancodes == [key : Keys \cup Modifiers, released : BOOLEAN]

VARIABLES port,           \* external: the scancode at port 0x60, if any
          kb_buffer,      \* the characters in the ring
          shift_pressed, caps_lock,
          pc,             \* inside kb_getchar "poll" or "pop", else "idle"
          reader,         \* who called it: "readline" or "stdin"
          line,           \* kb_readline's buffer up to pos
          origin,         \* history: the cell where the line began, which moves
                          \* up with the text
          crossed         \* history: has a backspace been typed in column 0

keyboard == <<kb_buffer, shift_pressed, caps_lock>>
hist     == <<origin, crossed>>
cvars    == <<screen, keyboard, port, pc, reader, line, hist>>

CInit == /\ Init
         /\ port = <<>> /\ kb_buffer = <<>>
         /\ shift_pressed = FALSE /\ caps_lock = FALSE
         /\ pc = "idle" /\ reader = "stdin" /\ line = <<>>
         /\ origin = 0 /\ crossed = FALSE

------------------------------------------------------------------------------
(* External: a key goes down or up; the controller holds one scancode.      *)
KeyEvent(sc) ==
  /\ port = <<>>
  /\ port' = <<sc>>
  /\ UNCHANGED <<screen, keyboard, pc, reader, line, hist>>

(* kb_buffer_push: one cell stays free, and a character too many is lost.   *)
Push(c) ==
  kb_buffer' = IF Len(kb_buffer) + 1 = BufferSize THEN kb_buffer
               ELSE Append(kb_buffer, c)

CharOf(key) == IF shift_pressed # caps_lock THEN Shifted[key] ELSE Plain[key]

HandleScancode(sc) ==
  \/ /\ sc.key \in Shifts
     /\ shift_pressed' = ~sc.released
     /\ UNCHANGED <<kb_buffer, caps_lock>>
  \/ /\ sc.key = "caps" /\ ~sc.released
     /\ caps_lock' = ~caps_lock
     /\ UNCHANGED <<kb_buffer, shift_pressed>>
  \/ /\ \/ sc.key = "ctrl"
        \/ sc.key \in Keys \cup {"caps"} /\ sc.released
        \/ sc.key \in Keys /\ ~sc.released /\ CharOf(sc.key) = NoChar
     /\ UNCHANGED keyboard
  \/ /\ sc.key \in Keys /\ ~sc.released /\ CharOf(sc.key) # NoChar
     /\ Push(CharOf(sc.key))
     /\ UNCHANGED <<shift_pressed, caps_lock>>

(* kb_poll, as kb_getchar calls it.                                         *)
KbPoll ==
  /\ pc = "poll"
  /\ IF port = <<>> THEN UNCHANGED keyboard ELSE HandleScancode(port[1])
  /\ port' = <<>>
  /\ pc' = "pop"
  /\ UNCHANGED <<screen, reader, line, hist>>

\* Mutant: the tail is left where it is.
Popped_Kept(s) == s

Popped(s) == Tail(s)

\* Mutant: kb_poll is called before the loop.
Again_WithoutPoll == "pop"

Again == "poll"

(* kb_buffer_pop had no character: kb_getchar polls again.                  *)
NothingYet ==
  /\ pc = "pop" /\ kb_buffer = <<>>
  /\ pc' = Again
  /\ UNCHANGED <<screen, keyboard, port, reader, line, hist>>

(* kb_getchar returns c to r.                                               *)
Returns(r, c) ==
  /\ pc = "pop" /\ kb_buffer # <<>> /\ reader = r
  /\ c = Head(kb_buffer)
  /\ kb_buffer' = Popped(kb_buffer)
  /\ UNCHANGED <<shift_pressed, caps_lock, port, reader>>

(* sys_read of descriptor 0: one character, without an echo.                *)
ReadStdin ==
  /\ pc = "idle"
  /\ pc' = "poll"
  /\ reader' = "stdin"
  /\ UNCHANGED <<screen, keyboard, port, line, hist>>

StdinRead(c) ==
  /\ Returns("stdin", c)
  /\ pc' = "idle"
  /\ UNCHANGED <<screen, line, hist>>

------------------------------------------------------------------------------
KbReadline ==
  /\ pc = "idle"
  /\ pc' = "poll"
  /\ reader' = "readline"
  /\ line' = <<>>
  /\ origin' = Cursor
  /\ crossed' = FALSE
  /\ UNCHANGED <<screen, keyboard, port>>

(* Bound: lines that left the screen are told apart only as far as an       *)
(* uncrossed line can have left it.                                         *)
Lifted(o) == IF o - Width < -MaxLen THEN -MaxLen ELSE o - Width

Echoes(c) ==
  /\ ScreenPutchar(c)
  /\ origin' = IF Scrolls(c) THEN Lifted(origin) ELSE origin

(* The call is over; of the line nothing is kept.                           *)
LineDone == pc' = "idle" /\ line' = <<>> /\ crossed' = FALSE /\ origin' = 0

LineEntered(c) ==
  /\ Returns("readline", c) /\ c \in {"newline", "return"}
  /\ ScreenPutchar("newline")
  /\ LineDone

\* Mutant: a backspace is echoed although the line is empty.
Erasable_Always == TRUE

Erasable == Len(line) > 0

LineErased(c) ==
  /\ Returns("readline", c) /\ c = "backspace"
  /\ Erasable
  /\ line' = SubSeq(line, 1, Len(line) - 1)
  /\ Echoes(c)
  /\ crossed' = (crossed \/ cursor_x = 0)
  /\ pc' = "poll"

LineExtended(c) ==
  /\ Returns("readline", c) /\ c \notin Controls
  /\ IF Len(line) + 1 < MaxLen - 1
     THEN /\ line' = Append(line, c)
          /\ pc' = "poll"
          /\ Echoes(c)
          /\ UNCHANGED crossed
     ELSE ScreenPutchar(c) /\ LineDone

LineIgnores(c) ==
  /\ Returns("readline", c)
  /\ c = "tab" \/ (c = "backspace" /\ ~Erasable)
  /\ pc' = "poll"
  /\ UNCHANGED <<screen, line, hist>>

(* Between two reads commands and programs print, and may clear the screen. *)
Prints ==
  /\ pc = "idle"
  /\ ScreenClear \/ \E c \in Outputs : ScreenPutchar(c)
  /\ UNCHANGED <<keyboard, port, pc, reader, line, hist>>

Reads == \/ KbPoll
         \/ NothingYet
         \/ \E c \in Chars : \/ StdinRead(c) \/ LineEntered(c) \/ LineErased(c)
                             \/ LineExtended(c) \/ LineIgnores(c)

CNext == \/ \E sc \in Scancodes : KeyEvent(sc)
         \/ Reads
         \/ ReadStdin \/ KbReadline \/ Prints

(* kb_getchar is a loop that nothing interrupts.                            *)
CSpec == CInit /\ [][CNext]_cvars /\ WF_cvars(Reads)

------------------------------------------------------------------------------
CTypeOK == /\ TypeOK
           /\ port \in {<<>>} \cup {<<sc>> : sc \in Scancodes}
           /\ kb_buffer \in {<<>>} \cup {<<c>> : c \in Chars}
           /\ shift_pressed \in BOOLEAN /\ caps_lock \in BOOLEAN
           /\ pc \in {"idle", "poll", "pop"} /\ reader \in {"readline", "stdin"}
           /\ Len(line) < MaxLen /\ \A k \in 1 .. Len(line) : line[k] \in Chars \ Controls

Editing == pc # "idle" /\ reader = "readline"

(* From its origin to the cursor the screen shows the line, what has        *)
(* scrolled away excepted.                                                  *)
Shown == /\ Cursor = origin + Len(line)
         /\ \A k \in 1 .. Len(line) :
              origin + k - 1 >= 0 => vga[origin + k - 1] = line[k]

\* LineShown: kb_readline "Exibe os caracteres na tela"
\* (src/core/drivers/keyboard.c:204): while no backspace was typed in column 0 the
\* screen shows the line it edits, where lines wrap and while the screen scrolls.
LineShown == Editing /\ ~crossed => Shown

\* LineShownAlways: kb_readline edits "com suporte a Backspace para edição. Exibe
\* os caracteres na tela" (src/core/drivers/keyboard.c:204): the same whatever is
\* typed.
LineShownAlways == Editing => Shown

\* EarlierTextKept: the editor leaves what stood on the screen before the line: it
\* only moves up.  kb_readline counts characters, screen_putchar columns, and a
\* backspace too many would eat the prompt.
EarlierTextKept ==
  [][Editing /\ Editing' =>
       \A i \in 0 .. origin' - 1 : vga'[i] = vga[i + origin - origin']]_cvars

\* NothingLeftBehind: the ring is empty whenever no reader is about to take from
\* it: no character is dropped for want of room, and none that was typed for one
\* reader comes to the next.
NothingLeftBehind == kb_buffer # <<>> => pc = "pop" /\ Len(kb_buffer) = 1

\* ReadReturns: whoever reads gets an answer if Enter is pressed again and again,
\* whatever else is typed.
ReadReturns ==
  []<>(port # <<>> /\ port[1].key = "enter" /\ ~port[1].released)
    => (pc # "idle" ~> pc = "idle")
==============================================================================
