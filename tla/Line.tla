--------------------------------- MODULE Line ---------------------------------
(***************************************************************************)
(* vga_draw_line of src/Old Code/vga.c: the line between two points, one   *)
(* pixel for each step along the longer axis.  The two branches of the     *)
(* code are one here, with u along the longer axis and v across it; they   *)
(* differ in what they do when the error is 0.  Coordinates stay far from  *)
(* the limits of a short.                                                  *)
(***************************************************************************)
EXTENDS Integers

VARIABLES
    from, to,       \* the points the function is called with
    u, v,           \* the pixel drawn last
    p               \* the error: px or py

lineVars == <<from, to, u, v, p>>

Abs(n) == IF n < 0 THEN -n ELSE n

dx == to[1] - from[1]
dy == to[2] - from[2]

\* The branch for lines with more rows than columns
Steep == Abs(dx) < Abs(dy)
Along(point) == IF Steep THEN point[2] ELSE point[1]
Across(point) == IF Steep THEN point[1] ELSE point[2]
Long  == IF Steep THEN Abs(dy) ELSE Abs(dx)
Short == IF Steep THEN Abs(dx) ELSE Abs(dy)

\* The line is drawn towards greater u, whichever of its points comes first
Backwards == (IF Steep THEN dy ELSE dx) < 0
First == IF Backwards THEN to ELSE from
Final == IF Backwards THEN from ELSE to

Slope == IF (dx < 0 /\ dy < 0) \/ (dx > 0 /\ dy > 0) THEN 1 ELSE -1

Pixel == IF Steep THEN <<v, u>> ELSE <<u, v>>

\* The first pixel, of the line the arguments are set to
Begins ==
    /\ u = Along(First) /\ v = Across(First)
    /\ p = 2 * Short - Long

\* A call with points a and b
Call(a, b) ==
    /\ from' = a /\ to' = b
    /\ u' = Along(First)' /\ v' = Across(First)'
    /\ p' = (2 * Short - Long)'

Drawing == u < Along(Final)

\* The branches differ where the error is 0
Straight == p < 0 \/ (Steep /\ p = 0)

\* Mutant of DrawNext: the error grows by half of what it should
DrawNextFlat ==
    /\ Drawing
    /\ u' = u + 1
    /\ IF Straight THEN v' = v /\ p' = p + Short
                   ELSE v' = v + Slope /\ p' = p + 2 * (Short - Long)
    /\ UNCHANGED <<from, to>>

DrawNext ==
    /\ Drawing
    /\ u' = u + 1
    /\ IF Straight THEN v' = v /\ p' = p + 2 * Short
                   ELSE v' = v + Slope /\ p' = p + 2 * (Short - Long)
    /\ UNCHANGED <<from, to>>

-----------------------------------------------------------------------------

\* Every pixel is the one next to the true line, within half a pixel across it, and the
\* last one is the other end point: the error is kept by additions alone, and the branch
\* taken and the direction must fit it for every slope
NextToTheLine ==
    LET steps == u - Along(First)
        across == Slope * (v - Across(First))
    IN  /\ -Long <= 2 * (steps * Short - across * Long)
        /\ 2 * (steps * Short - across * Long) <= Long
        /\ ~Drawing => v = Across(Final)
=============================================================================
