------------------------------ MODULE Desktop ------------------------------
(***************************************************************************)
(* What the kernel's thread and the processes put out: the log on the text *)
(* screen (Code/kernelLog.cpp, graphics/vgaText.cpp), the serial port (io/ *)
(* serial.cpp), the desktop's window (desktop/), the processes' windows    *)
(* (graphics/windowManager.cpp) and the double buffer (graphics/screen.cpp,*)
(* draw/).  The kernel's thread is kernel_ultimate; a process's system     *)
(* call (core/syscall.cpp) comes between any two of its steps and runs     *)
(* with interrupts off.  A pixel here is a block of 25 by 25, a character  *)
(* one of its own.                                                         *)
(***************************************************************************)
EXTENDS Integers, Sequences

CONSTANTS
    Bottom,         \* the last row of the text screen (24)
    Messages,       \* lines the kernel logs
    Width, Height,  \* of the screen, in blocks
    MaxWindows, MaxPuts \* bounds: windows of processes (64 in the table), characters

ASSUME DesktopAssumption ==
    /\ Bottom \in Nat \ {0} /\ Messages \in Nat
    /\ Width \in Nat \ {0, 1} /\ Height \in Nat \ {0, 1, 2}
    /\ MaxWindows \in 0..64 /\ MaxPuts \in Nat

VARIABLES
    at, i,          \* what the kernel's thread is doing, and its loop counter
    logged,         \* lines logged
    text,           \* the text screen, per row: the line of the log, and a process's
                    \* character in its first 71 columns and in the 9 behind them
    puts,           \* characters of processes so far
    fifo,           \* characters in the serial port
    fontSheet,      \* "none", "sheet", or "junk": whatever lies at a null pointer
    window,         \* the frame buffer of desktop.windows[0]
    windows,        \* the processes' windows
    b_shouldPresent,
    double_buffer, screen   \* pixels

logVars == <<logged, text, puts>>
drawVars == <<fontSheet, window, windows, b_shouldPresent, double_buffer, screen>>
vars == <<at, i, logVars, fifo, drawVars>>

Rows == 0..(Height - 1)
Pixels == (0..(Width - 1)) \X Rows
WindowPixels == (0..(Width \div 2 - 1)) \X (0..(Height \div 2 - 1))
Row(n, char, margin) == [line |-> n, char |-> char, margin |-> margin]
NoChar == 0

Init ==
    /\ at = "serial" /\ i = 0
    /\ logged = 0 /\ puts = 0
    /\ text = [r \in 0..Bottom |-> Row(0, NoChar, NoChar)]
    /\ fifo = 0
    /\ fontSheet = "none"
    /\ window = [p \in {} |-> "unset"]
    /\ windows = <<>> /\ b_shouldPresent = FALSE
    /\ double_buffer = [p \in Pixels |-> "clear"]
    /\ screen = [p \in Pixels |-> "unset"]

Goes(from, to) == at = from /\ at' = to /\ i' = 0

\* A loop over rows: the step of row i, then the next
Loops(from, rows, to) ==
    /\ at = from
    /\ IF i + 1 < rows THEN i' = i + 1 /\ UNCHANGED at ELSE i' = 0 /\ at' = to

-----------------------------------------------------------------------------
(* The serial port and the log.                                            *)

\* serial_write_char waits until the port is empty ...
SerialReady ==
    /\ Goes("serial", "write") /\ fifo = 0
    /\ UNCHANGED <<logVars, fifo, drawVars>>

\* ... and writes, whatever has come in between
SerialWrite ==
    /\ Goes("write", IF logged < Messages THEN "scroll" ELSE "first present")
    /\ fifo' = fifo + 1
    /\ UNCHANGED <<logVars, drawVars>>

SerialSends ==
    /\ fifo > 0 /\ fifo' = fifo - 1
    /\ UNCHANGED <<at, i, logVars, drawVars>>

\* Mutant of Scroll: from the last row upwards
ScrollUpwards ==
    /\ Loops("scroll", Bottom, "clear")
    /\ text' = [text EXCEPT ![Bottom - 1 - i] = text[Bottom - i]]
    /\ UNCHANGED <<logged, puts, fifo, drawVars>>

\* kernelLog_string: each row takes the one below it, the last is cleared, 71 columns
\* of it, and printed
Scroll ==
    /\ Loops("scroll", Bottom, "clear")
    /\ text' = [text EXCEPT ![i] = text[i + 1]]
    /\ UNCHANGED <<logged, puts, fifo, drawVars>>

ClearRow ==
    /\ Goes("clear", "print")
    /\ text' = [text EXCEPT ![Bottom] = Row(0, NoChar, @.margin)]
    /\ UNCHANGED <<logged, puts, fifo, drawVars>>

PrintRow ==
    /\ Goes("print", "serial")
    /\ logged' = logged + 1
    /\ text' = [text EXCEPT ![Bottom].line = logged + 1]
    /\ UNCHANGED <<puts, fifo, drawVars>>

-----------------------------------------------------------------------------
(* start_desktop.                                                          *)

\* biltBuffer, before the desktop is drawn and after
BiltBuffer ==
    /\ \/ Loops("first present", Height, "font")
       \/ Loops("present", Height, "idle")
    /\ screen' = [p \in Pixels |-> IF p[2] = i THEN double_buffer[p] ELSE screen[p]]
    /\ UNCHANGED <<logVars, fifo, fontSheet, window, windows, b_shouldPresent, double_buffer>>

\* desktop_Init: a file that is not there is reported and decoded all the same, and so
\* is a decoder that is not there
LoadFont ==
    /\ Goes("font", "create")
    /\ fontSheet' \in {"sheet", "junk"}
    /\ UNCHANGED <<logVars, fifo, window, windows, b_shouldPresent, double_buffer, screen>>

\* Error_Critical: the thread stays there, the processes go on
FontFails == Goes("font", "critical") /\ UNCHANGED <<logVars, fifo, drawVars>>

\* desktop_creatWindow takes the first place that is not in use, and marks none
CreateDesktopWindow ==
    /\ Goes("create", "draw")
    /\ window' = [p \in WindowPixels |-> "unset"]
    /\ UNCHANGED <<logVars, fifo, fontSheet, windows, b_shouldPresent, double_buffer, screen>>

\* A character's place of the image, at 0, 0 of the window
image_view_blit(image, frame) == [frame EXCEPT ![<<0, 0>>] = image]

\* window_draw_character draws at 0, 0 whatever point it is given
DrawCharacter ==
    /\ Goes("draw", "render")
    /\ window' = image_view_blit(fontSheet, window)
    /\ UNCHANGED <<logVars, fifo, fontSheet, windows, b_shouldPresent, double_buffer, screen>>

\* Mutant of RenderWindow: one row less
RenderWindowShort ==
    /\ Loops("render", Height \div 2 - 1, "present")
    /\ double_buffer' = [p \in Pixels |-> IF p \in DOMAIN window /\ p[2] = i + 1
                                          THEN window[p] ELSE double_buffer[p]]
    /\ UNCHANGED <<logVars, fifo, fontSheet, window, windows, b_shouldPresent, screen>>

\* render_window: blitFrameToFrame of the window, which stands at 0, 0
RenderWindow ==
    /\ Loops("render", Height \div 2, "present")
    /\ double_buffer' = [p \in Pixels |-> IF p \in DOMAIN window /\ p[2] = i
                                          THEN window[p] ELSE double_buffer[p]]
    /\ UNCHANGED <<logVars, fifo, fontSheet, window, windows, b_shouldPresent, screen>>

KernelThread ==
    \/ SerialReady \/ SerialWrite \/ Scroll \/ ClearRow \/ PrintRow
    \/ BiltBuffer \/ LoadFont \/ FontFails
    \/ CreateDesktopWindow \/ DrawCharacter \/ RenderWindow

-----------------------------------------------------------------------------
(* System calls.                                                           *)

\* syscall 1, putc, at a place of the text screen.  The code takes any coordinates: those
\* whose place is not on the screen write over other memory, which is not of this model
SyscallPutc ==
    /\ puts < MaxPuts /\ puts' = puts + 1
    /\ \E r \in 0..Bottom : \/ text' = [text EXCEPT ![r].char = puts + 1]
                            \/ text' = [text EXCEPT ![r].margin = puts + 1]
    /\ UNCHANGED <<at, i, logged, fifo, drawVars>>

\* draw_rect as renderWindow calls it: all but a menu at the top and one at the bottom
draw_rect == [p \in Pixels |-> IF p[2] \in 1..(Height - 2) THEN "user" ELSE double_buffer[p]]

\* syscall 0x10, createWindow: its characters for the serial port wait for each other,
\* its window fills the screen, and presentScreen, which nobody calls, is told
SyscallCreateWindow ==
    /\ Len(windows) < MaxWindows
    /\ fifo = 0 /\ fifo' = 1
    /\ windows' = Append(windows, [window_ID |-> Len(windows)])
    /\ double_buffer' = draw_rect
    /\ b_shouldPresent' = TRUE
    /\ UNCHANGED <<at, i, logVars, fontSheet, window, screen>>

syscall == SyscallPutc \/ SyscallCreateWindow

Next == KernelThread \/ SerialSends \/ syscall

Spec == Init /\ [][Next]_vars

-----------------------------------------------------------------------------
(* Properties.                                                             *)

\* Between two lines the log's last lines are on the screen in their order, whatever
\* processes write in between, and a process's character is there once at most: the
\* scrolling moves it or overwrites it and leaves no copy.  A character behind the
\* columns that are cleared stays in the last row and is copied upwards from there
LogInOrder ==
    at \notin {"scroll", "clear", "print"} =>
        \A r \in 0..Bottom :
            /\ text[r].line = IF Bottom - r < logged THEN logged - (Bottom - r) ELSE 0
            /\ \A s \in 0..Bottom : text[r].char = text[s].char /\ text[r].char # NoChar => r = s

\* When the desktop is up its letter is on the screen, with any windows of processes
\* drawn in between, before or after
LetterShown ==
    (at = "idle" /\ fontSheet = "sheet") => screen[<<0, 0>>] = "sheet"
=============================================================================
