------------------------------- MODULE Console -------------------------------
(***************************************************************************)
(* The console: the text screen of src/drv/vga.cpp, the keyboard of        *)
(* src/drv/keyboard.cpp, and the line editor of shell_main on top of them. *)
(*                                                                         *)
(* kbd_getc polls inside the system call, so nothing else runs while the   *)
(* shell reads a line: between two keys only the keyboard controller       *)
(* moves.  At any other time the kernel, the interpreter and the commands  *)
(* put characters on the screen.                                           *)
(***************************************************************************)
EXTENDS Integers, SequencesExt

CONSTANTS
    VGA_COLS, VGA_ROWS,   \* the size of the screen
    KBD_BREAK_BIT,        \* a scan code from here on is that of a released key
    g_scancode_ascii,     \* the character of each scan code below it
    Cells,                \* what vga_putc puts into a cell: every byte but LF and BS
    Glyphs,               \* those of them that a key can give and the shell puts into a line
    Banner, Prompt,       \* what shell_main prints at its start, and before each line
    LineMax,              \* sizeof(line) - 1 in shell_main
    MaxPaper, MaxTyped    \* bounds: rows printed since vga_init, keys per line

Blank     == " "
NewLine   == "LF"
Return    == "CR"
BackSpace == "BS"
NoChar    == "NUL"

Chars == Glyphs \cup {NewLine, Return, BackSpace}
Codes == 0 .. 2 * KBD_BREAK_BIT - 1
Empty == -1               \* the output buffer of the controller holds nothing

ASSUME ConsoleAssumption ==
    /\ VGA_COLS \in Nat \ {0} /\ VGA_ROWS \in Nat \ {0}
    /\ KBD_BREAK_BIT \in Nat /\ LineMax \in Nat
    /\ g_scancode_ascii \in [0 .. KBD_BREAK_BIT - 1 -> Chars \cup {NoChar}]
    /\ Blank \in Glyphs /\ Glyphs \cap {NewLine, Return, BackSpace, NoChar} = {}
    /\ Glyphs \subseteq Cells /\ Cells \cap {NewLine, BackSpace} = {}
    /\ Prompt \in Seq(Cells) /\ Banner \in Seq(Cells \cup {NewLine})

VARIABLES
    vga,      \* the screen memory, g_row and g_col
    obf,      \* the scan code that waits in the keyboard controller, or Empty
    phase,    \* "off" before hal_init, "editing" while the shell reads a line, else "busy"
    line,     \* the line buffer of shell_main
    paper,    \* history: what a printer that never scrolls would have printed
    home,     \* history: where on the paper the prompt of the line that is being read
              \* ended, and the row of the paper as it was then
    typed     \* history: the characters of the keys pressed since the last line

vars == <<vga, obf, phase, line, paper, home, typed>>

RowIds   == 0 .. VGA_ROWS - 1
ColIds   == 0 .. VGA_COLS - 1
BlankRow == [c \in ColIds |-> Blank]
NoHome   == [row |-> 1, col |-> 0, under |-> BlankRow]
Cleared  == [cell |-> [r \in RowIds |-> BlankRow], row |-> 0, col |-> 0]

-----------------------------------------------------------------------------
(* The screen                                                              *)

\* A mistake the checks rule out: the last row is left as it was.
vga_scroll_uncleared(v) ==
    [v EXCEPT !.cell = [r \in RowIds |-> IF r + 1 \in RowIds THEN v.cell[r + 1] ELSE v.cell[r]],
              !.row  = VGA_ROWS - 1]

vga_scroll(v) ==
    [v EXCEPT !.cell = [r \in RowIds |-> IF r + 1 \in RowIds THEN v.cell[r + 1] ELSE BlankRow],
              !.row  = VGA_ROWS - 1]

Wrapped(v) == IF v.col >= VGA_COLS THEN [v EXCEPT !.col = 0, !.row = @ + 1] ELSE v

Placed(v, c) == Wrapped([v EXCEPT !.cell[v.row][v.col] = c, !.col = @ + 1])

\* vga_putc up to its last test: the row may be one below the screen.
Moved(v, c) ==
    CASE c = NewLine   -> [v EXCEPT !.col = 0, !.row = @ + 1]
      [] c = BackSpace -> [v EXCEPT !.col = IF @ > 0 THEN @ - 1 ELSE @]
      [] OTHER         -> Placed(v, c)

vga_putc(v, c) ==
    LET w == Moved(v, c) IN IF w.row >= VGA_ROWS THEN vga_scroll(w) ELSE w

vga_puts(v, s) == FoldLeft(vga_putc, v, s)

\* The same text on the paper: a sequence of rows, of which the last is printed on.
PrintChar(p, c) ==
    LET on == Len(p.rows) IN
    CASE c = NewLine   -> [rows |-> Append(p.rows, BlankRow), col |-> 0]
      [] c = BackSpace -> [p EXCEPT !.col = IF @ = 0 THEN 0 ELSE @ - 1]
      [] OTHER         -> LET row  == [p.rows[on] EXCEPT ![p.col] = c]
                              done == [p.rows EXCEPT ![on] = row]
                          IN  IF p.col = VGA_COLS - 1
                              THEN [rows |-> Append(done, BlankRow), col |-> 0]
                              ELSE [rows |-> done, col |-> p.col + 1]

Printed(s) == FoldLeft(PrintChar, paper, s)

Puts(s) ==
    /\ Len(Printed(s).rows) <= MaxPaper
    /\ vga' = vga_puts(vga, s)
    /\ paper' = Printed(s)

-----------------------------------------------------------------------------
(* The keyboard                                                            *)

\* The character kbd_getc makes of a scan code; NoChar: it goes on waiting.
CharOf(sc) == IF sc < KBD_BREAK_BIT THEN g_scancode_ascii[sc] ELSE NoChar

\* The controller has a scan code for the processor.
KeyEvent(sc) ==
    /\ obf = Empty
    /\ obf' = sc
    /\ typed' = IF phase = "off" \/ CharOf(sc) = NoChar THEN typed
                ELSE Append(typed, CharOf(sc))
    /\ Len(typed') <= MaxTyped
    /\ UNCHANGED <<vga, phase, line, paper, home>>

\* kbd_getc, called by the shell, returns one of the characters.
GetC(chars) ==
    /\ phase = "editing"
    /\ obf # Empty
    /\ CharOf(obf) \in chars
    /\ obf' = Empty

-----------------------------------------------------------------------------
(* Boot, output, and the line editor                                       *)

Init ==
    /\ \E g \in Cells : vga = [Cleared EXCEPT !.cell = [r \in RowIds |-> [c \in ColIds |-> g]]]
    /\ obf \in Codes \cup {Empty}
    /\ phase = "off"
    /\ line = <<>>
    /\ paper = [rows |-> <<BlankRow>>, col |-> 0]
    /\ home = NoHome
    /\ typed = <<>>

\* A mistake the checks rule out: the controller is not emptied.
HalInitKeepingKeys ==
    /\ phase = "off"
    /\ phase' = "busy"
    /\ vga' = Cleared
    /\ UNCHANGED <<obf, line, paper, home, typed>>

\* hal_init: vga_init and kbd_init.
HalInit ==
    /\ phase = "off"
    /\ phase' = "busy"
    /\ vga' = Cleared
    /\ obf' = Empty
    /\ UNCHANGED <<line, paper, home, typed>>

\* The kernel prints a character, or a program does by SYS_PUTC, SYS_WRITE or a file that
\* the interpreter runs, which can be any byte.
Output(c) ==
    /\ phase = "busy"
    /\ Puts(<<c>>)
    /\ UNCHANGED <<obf, phase, line, home, typed>>

ReadLine(s) ==
    /\ phase = "busy"
    /\ Puts(s)
    /\ phase' = "editing"
    /\ line' = <<>>
    /\ home' = [row |-> Len(paper'.rows), col |-> paper'.col, under |-> Last(paper'.rows)]
    /\ UNCHANGED <<obf, typed>>

ShellMain  == ReadLine(Banner \o Prompt)   \* shell_main starts, or is entered again
NextPrompt == ReadLine(Prompt)             \* a command has returned

Ignored == GetC({NoChar}) /\ UNCHANGED <<vga, phase, line, paper, home, typed>>

Enter ==
    /\ GetC({NewLine, Return})
    /\ Puts(<<NewLine>>)
    /\ phase' = "busy"
    /\ typed' = <<>>
    /\ home' = NoHome
    /\ UNCHANGED line

\* A mistake the checks rule out: the cursor moves back, but the character stays.
MoveBack == <<BackSpace>>

RubOut == <<BackSpace, Blank, BackSpace>>

Erase ==
    /\ GetC({BackSpace})
    /\ IF line # <<>>
       THEN Puts(RubOut) /\ line' = Front(line)
       ELSE UNCHANGED <<vga, paper, line>>
    /\ UNCHANGED <<phase, home, typed>>

\* A full line takes no more characters, and does not show them.
Echo(c) ==
    /\ GetC({c})
    /\ IF Len(line) < LineMax
       THEN Puts(<<c>>) /\ line' = Append(line, c)
       ELSE UNCHANGED <<vga, paper, line>>
    /\ UNCHANGED <<phase, home, typed>>

Next ==
    \/ HalInit
    \/ ShellMain
    \/ NextPrompt
    \/ Ignored
    \/ Enter
    \/ Erase
    \/ \E c \in Glyphs : Echo(c)
    \/ \E c \in Cells \cup {NewLine, BackSpace} : Output(c)
    \/ \E sc \in Codes : KeyEvent(sc)

Spec == Init /\ [][Next]_vars

-----------------------------------------------------------------------------
(* Properties                                                              *)

\* vga.cpp scrolls only when the cursor leaves the screen, moves the rows up and clears
\* the last one: the screen shows the end of all that was printed, the current row
\* where the paper has it, and nothing below it.  Nothing is ever written outside it.
ScreenIsWindow ==
    /\ vga \in [cell : [RowIds -> [ColIds -> Cells]], row : RowIds, col : ColIds]
    /\ phase # "off" =>
        LET first == Len(paper.rows) - vga.row
        IN  /\ vga.col = paper.col
            /\ first = 1 \/ vga.row = VGA_ROWS - 1
            /\ \A r \in RowIds :
                 vga.cell[r] = IF r <= vga.row THEN paper.rows[first + r] ELSE BlankRow

\* The shell echoes by itself and rubs out by "\b \b": as long as the line has not
\* wrapped, what stands on the screen from the prompt to the cursor is what sh_exec_line
\* will get, and erasing leaves no letter behind the cursor: what stands there is blank,
\* or a program has left it there before the prompt, by a '\b' that only moves back.
ScreenShowsLine ==
    (phase = "editing" /\ Len(paper.rows) = home.row) =>
        /\ vga.col = home.col + Len(line)
        /\ \A c \in home.col .. VGA_COLS - 1 :
             IF c < vga.col THEN vga.cell[vga.row][c] = line[c - home.col + 1]
                            ELSE vga.cell[vga.row][c] \in {Blank, home.under[c]}

\* What a sequence of keys means, if erasing undoes the last letter that counted.
Edited(keys) ==
    LET Step(l, c) == CASE c = BackSpace                      -> SubSeq(l, 1, Len(l) - 1)
                        [] c # BackSpace /\ Len(l) < LineMax  -> Append(l, c)
                        [] OTHER                              -> l
    IN  FoldLeft(Step, <<>>, keys)

\* The line is made of every key pressed since the one before, in their order, those
\* pressed while a command was busy included, and of none from before kbd_init.
LineIsTyped ==
    phase = "editing" =>
        line = Edited(IF obf # Empty /\ CharOf(obf) # NoChar THEN Front(typed) ELSE typed)
=============================================================================
