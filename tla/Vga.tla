--------------------------------- MODULE Vga ---------------------------------
(***************************************************************************)
(* The graphics of the first kernel (src/Old Code/vga.c): setting a mode   *)
(* by writing all registers of the VGA through its ports, and drawing into *)
(* a buffer in memory that vga_update_buffer copies to the screen.  The    *)
(* VGA's own rules are external: registers 0 to 7 of the CRT controller    *)
(* can be locked, and the attribute controller has one port for numbers    *)
(* and values in turn, which reading the status register sets back.  The   *)
(* kernel writes its text at 0xB8000: the VGA is in a colour mode, whose   *)
(* ports the MISC register of either mode keeps.                           *)
(***************************************************************************)
EXTENDS Line, SequencesExt

CONSTANTS
    Width, Height,      \* g_wd and g_ht in mode 2 (320 by 200), the bound of this model
    Corners,            \* points of triangles
    LetterSize,         \* columns and rows of a letter (5)
    CrtRegisters        \* registers of the CRT controller (25)

ASSUME VgaAssumption ==
    /\ Width \in Nat \ {0} /\ Height \in Nat \ {0}
    /\ Corners \subseteq Nat \X Nat
    /\ LetterSize \in Nat \ {0}
    /\ CrtRegisters \in Nat \ {0}

VARIABLES
    at,             \* "off", "set", "idle", "line", "circle", "drawn", "shown"
    mode,           \* the mode that is set or being set
    k,              \* the next access of write_regs, 0 for that to MISC
    misc,           \* what the MISC register holds: the mode it is from
    register,       \* the same of the other registers
    number,         \* per index port, the register chosen
    next,           \* what the attribute port takes next: "number" or "value"
    locked,         \* bit 7 of CRT register 0x11
    lines,          \* the lines of a triangle that are left
    ring,           \* vga_draw_circle: its arguments and variables
    figure,         \* what is being drawn
    buffer, screen  \* the offsets whose pixel has the figure's colour

hardware == <<misc, register, number, next, locked>>
drawing == <<lineVars, lines, ring, figure, buffer, screen>>
vars == <<at, mode, k, hardware, drawing>>

-----------------------------------------------------------------------------
(* Setting a mode.                                                         *)

Count == [SEQ |-> 5, CRTC |-> CrtRegisters, GC |-> 9, AC |-> 21]
Groups == DOMAIN Count
LockRegister == 17                  \* 0x11
BlankRegister == 3

\* The accesses of write_regs behind the first, for each register its number and its value
Number(g, n) == [port |-> g, what |-> "number", n |-> n]
Value(g) == [port |-> g, what |-> "value"]
Both(g) == [i \in 1..(2 * Count[g]) |-> IF i % 2 = 1 THEN Number(g, i \div 2) ELSE Value(g)]
Status == [port |-> "status", what |-> "read"]

\* Mutant of Unlock: nothing is unlocked
UnlockNothing == <<>>

\* A register that is read and written back with a bit changed
Unlock == <<Number("CRTC", BlankRegister), [port |-> "CRTC", what |-> "same"],
            Number("CRTC", LockRegister), [port |-> "CRTC", what |-> "same"]>>

\* The attribute controller's port is made to take a number before each of them
Attributes ==
    [i \in 1..(3 * Count["AC"]) |->
        CASE i % 3 = 1 -> Status
          [] i % 3 = 2 -> Number("AC", i \div 3)
          [] i % 3 = 0 -> Value("AC")]

write_regs ==
    Both("SEQ") \o Unlock \o Both("CRTC") \o Both("GC") \o Attributes
    \o <<Status, Number("AC", 32)>>

\* A write to CRT register n: 0 to 7 take it only when they are not locked
Takes(n) == n > 7 \/ ~locked

\* The value written to the chosen register of group g
Written(g, value) ==
    IF number[g] \in DOMAIN register[g] /\ (g = "CRTC" => Takes(number[g]))
    THEN [register EXCEPT ![g][number[g]] = value] ELSE register

\* The lock's bit is cleared in the tables' values as well
Unlocks(g) == g = "CRTC" /\ number[g] = LockRegister
Access(a) ==
    \/ /\ a = Status
       /\ next' = "number"
       /\ UNCHANGED <<register, number, locked>>
    \/ /\ a.port = "AC"
       /\ \/ next = "number" /\ number' = [number EXCEPT !.AC = IF a.what = "number" THEN a.n ELSE -1]
             /\ UNCHANGED register
          \/ next = "value" /\ UNCHANGED number
             /\ register' = Written("AC", IF a.what = "value" THEN mode ELSE -1)
       /\ next' = IF next = "number" THEN "value" ELSE "number"
       /\ UNCHANGED locked
    \/ /\ a.port \in {"SEQ", "CRTC", "GC"}
       /\ \/ a.what = "number" /\ number' = [number EXCEPT ![a.port] = a.n]
             /\ UNCHANGED <<register, locked>>
          \/ /\ a.what # "number"
             /\ register' = IF a.what = "same" THEN register ELSE Written(a.port, mode)
             /\ locked' = (locked /\ ~Unlocks(a.port))
             /\ UNCHANGED number
       /\ UNCHANGED next

\* Any text mode: its registers locked or not, the ports as they were left
Init ==
    /\ at = "off" /\ mode = 0 /\ k = 0
    /\ misc = 0
    /\ register = [g \in Groups |-> [n \in 0..(Count[g] - 1) |-> 0]]
    /\ number = [g \in Groups |-> 0]
    /\ next \in {"number", "value"}
    /\ locked \in BOOLEAN
    /\ from = <<0, 0>> /\ to = <<0, 0>> /\ Begins
    /\ lines = <<>> /\ ring = [r |-> 0] /\ figure = "none"
    /\ buffer = {} /\ screen = {}

vga_Start ==
    /\ at \in {"off", "idle"}
    /\ \E m \in {1, 2} \ {mode} : mode' = m
    /\ at' = "set" /\ k' = 0
    /\ UNCHANGED <<hardware, drawing>>

\* The MISC register comes first and has a port of its own
SetMisc ==
    /\ at = "set" /\ k = 0
    /\ misc' = mode /\ k' = 1
    /\ UNCHANGED <<at, mode, register, number, next, locked, drawing>>

SetRegister ==
    /\ at = "set" /\ k \in 1..Len(write_regs)
    /\ Access(write_regs[k])
    /\ k' = k + 1
    /\ at' = IF k = Len(write_regs) THEN "idle" ELSE "set"
    /\ UNCHANGED <<mode, misc, drawing>>

-----------------------------------------------------------------------------
(* Drawing, in mode 2: vga_cls, a figure, vga_update_buffer.               *)

Points == (0..(Width - 1)) \X (0..(Height - 1))

\* vga_buffer_pixel
Offset(x, y) == Width * y + x
Lit(points) == {Offset(q[1], q[2]) : q \in points}

RestUnchanged == UNCHANGED <<mode, k, hardware>>

\* The first pixel of a line from a to b
StartLine(a, b) ==
    /\ Call(a, b)
    /\ buffer' = buffer \cup Lit({Pixel'})

vga_draw_line(a, b) ==
    /\ StartLine(a, b)
    /\ lines' = <<>> /\ figure' = "lines"
    /\ at' = "line"
    /\ UNCHANGED <<ring, screen>>

vga_draw_triangle(a, b, c) ==
    /\ StartLine(a, b)
    /\ lines' = <<<<b, c>>, <<c, a>>>> /\ figure' = "lines"
    /\ at' = "line"
    /\ UNCHANGED <<ring, screen>>

LinePixel ==
    /\ at = "line" /\ DrawNext
    /\ buffer' = buffer \cup Lit({Pixel'})
    /\ UNCHANGED <<at, lines, ring, figure, screen>> /\ RestUnchanged

LineDone ==
    /\ at = "line" /\ ~Drawing
    /\ \/ /\ lines # <<>>
          /\ StartLine(lines[1][1], lines[1][2])
          /\ lines' = Tail(lines)
          /\ UNCHANGED at
       \/ /\ lines = <<>>
          /\ at' = "drawn"
          /\ UNCHANGED <<lineVars, lines, buffer>>
    /\ UNCHANGED <<ring, figure, screen>> /\ RestUnchanged

vga_draw_circle(c, r) ==
    /\ ring' = [c |-> c, r |-> r, x |-> 0, y |-> r, p |-> 3 - 2 * r]
    /\ figure' = "circle"
    /\ at' = IF r = 0 THEN "drawn" ELSE "circle"
    /\ UNCHANGED <<lineVars, lines, buffer, screen>>

\* The eight pixels of a step
Octants ==
    {<<ring.c[1] + o[1], ring.c[2] + o[2]>> : o \in
        LET xs == {ring.x, -ring.x}
            ys == {ring.y, -ring.y} IN (xs \X ys) \cup (ys \X xs)}

\* Mutant of CircleStep: y is counted down too late
CircleStepLate ==
    IF ring.p < 0
    THEN [ring EXCEPT !.p = @ + 4 * ring.x + 6, !.x = @ + 1]
    ELSE [ring EXCEPT !.p = @ + 4 * (ring.x - ring.y) + 10, !.x = @ + 1]

CircleStep ==
    IF ring.p < 0
    THEN [ring EXCEPT !.p = @ + 4 * ring.x + 6, !.x = @ + 1]
    ELSE [ring EXCEPT !.p = @ + 4 * (ring.x - ring.y) + 10, !.x = @ + 1, !.y = @ - 1]

CirclePixels ==
    /\ at = "circle"
    /\ \/ /\ ring.y >= ring.x
          /\ buffer' = buffer \cup Lit(Octants)
          /\ ring' = CircleStep
          /\ UNCHANGED at
       \/ ring.y < ring.x /\ at' = "drawn" /\ UNCHANGED <<ring, buffer>>
    /\ UNCHANGED <<lineVars, lines, figure, screen>> /\ RestUnchanged

\* vga_draw_text: letter j stands j letters to the right, and what does not fit the row
\* goes on in the one below
vga_draw_text(x, y, letters) ==
    /\ buffer' = {Offset(x + i, y + j) : i \in 0..(letters * LetterSize - 1),
                                         j \in 0..(LetterSize - 1)}
    /\ figure' = "text" /\ at' = "drawn"
    /\ UNCHANGED <<lineVars, lines, ring, screen>>

\* vga_cls comes first
Draw ==
    /\ at = "idle" /\ mode = 2 /\ buffer = {}
    /\ \/ \E a, b \in Points : vga_draw_line(a, b)
       \/ \E a, b, c \in Corners : vga_draw_triangle(a, b, c)
       \/ \E c \in Points, r \in 0..Width :
             {<<c[1] - r, c[2] - r>>, <<c[1] + r, c[2] + r>>} \subseteq Points /\ vga_draw_circle(c, r)
       \/ \E c \in Corners, n \in 1..2 : vga_draw_text(c[1], c[2], n)
    /\ RestUnchanged

\* vga_update_buffer copies as many bytes as mode 2 has pixels
vga_update_buffer ==
    /\ at = "drawn" /\ at' = "shown"
    /\ screen' = buffer \cap (0..(Width * Height - 1))
    /\ UNCHANGED <<lineVars, lines, ring, figure, buffer>> /\ RestUnchanged

Next ==
    \/ vga_Start \/ SetMisc \/ SetRegister
    \/ Draw \/ LinePixel \/ LineDone \/ CirclePixels \/ vga_update_buffer

Spec == Init /\ [][Next]_vars

-----------------------------------------------------------------------------

\* Whatever mode was set and however the ports were left, all registers hold the new
\* mode's values and the display is on: no write was lost to the lock, and none went to
\* another register because the attribute port took a number for a value
ModeIsSet ==
    at \notin {"off", "set"} =>
        /\ misc = mode
        /\ \A g \in Groups : \A n \in DOMAIN register[g] : register[g][n] = mode
        /\ number.AC = 32 /\ next = "value" /\ ~locked

\* The distance of a point from the circle, as a difference of squares
FromCircle(q) == LET i == q[1] - ring.c[1]
                     j == q[2] - ring.c[2] IN i * i + j * j - ring.r * ring.r

\* The circle that is shown is closed and round ("Untested Function", vga.h): each row
\* and column of its square has pixels, and each pixel is less than one from the circle
CircleIsRound ==
    (figure = "circle" /\ ring.r > 0 /\ at = "shown") =>
        LET lit == {q \in Points : Offset(q[1], q[2]) \in screen}
        IN  /\ {q[1] : q \in lit} = (ring.c[1] - ring.r)..(ring.c[1] + ring.r)
            /\ {q[2] : q \in lit} = (ring.c[2] - ring.r)..(ring.c[2] + ring.r)
            /\ \A q \in lit : Abs(FromCircle(q)) <= ring.r

\* The line being drawn
LineIsTrue == at = "line" => NextToTheLine
=============================================================================
