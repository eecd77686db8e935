------------------------------ MODULE VgaProofs ------------------------------
(***************************************************************************)
(* Every line and circle that is drawn, on a screen of any size, and the   *)
(* registers of a mode.  A line stays within half a pixel of the true one  *)
(* and ends in its other end point; a circle stays within less than one    *)
(* pixel of the true one and leaves no row or column of its square out.    *)
(* The errors, which the code keeps by additions alone, are functions of   *)
(* the pixel drawn last, and a step keeps them in bounds whichever branch  *)
(* is taken.  A mode's registers are set one after the other: those whose  *)
(* place in write_regs is behind hold its values.                          *)
(***************************************************************************)
EXTENDS Vga, SequenceTheorems, TLAPS

Pt == Int \X Int

(* How far the pixel drawn last is from the first one.                     *)
Steps == u - Along(First)
Crossed == Slope * (v - Across(First))

(* The true line's distance across the pixel drawn last, times 2 * Long.   *)
Deviation == 2 * (Steps * Short - Crossed * Long)

LineInv ==
    /\ from \in Pt /\ to \in Pt
    /\ u \in Int /\ v \in Int /\ p \in Int
    /\ Steps \in 0..Long /\ (Steps = 0 => v = Across(First))
    /\ p = Deviation + 2 * Short - Long
    /\ 2 * Short - 2 * Long <= p /\ p <= 2 * Short

(* What the two branches have in common: the line is at least as long as   *)
(* it is broad, and its end points are that far apart.                     *)
Facts ==
    /\ Short \in Nat /\ Long \in Nat /\ Short <= Long
    /\ Slope \in {1, -1}
    /\ Along(First) \in Int /\ Across(First) \in Int
    /\ Along(Final) = Along(First) + Long
    /\ Across(Final) = Across(First) + Slope * Short

(* They hold for any two points.                                           *)
LEMMA LineFacts == from \in Pt /\ to \in Pt => Facts
<1> SUFFICES ASSUME from \in Pt, to \in Pt PROVE Facts
  OBVIOUS
<1> USE DEF Facts
<1> DEFINE fx == from[1]  fy == from[2]  tx == to[1]  ty == to[2]
<1>1. fx \in Int /\ fy \in Int /\ tx \in Int /\ ty \in Int
  BY DEF Pt
<1> HIDE DEF fx, fy, tx, ty
<1>2. /\ First[1] = (IF Backwards THEN tx ELSE fx)
      /\ First[2] = (IF Backwards THEN ty ELSE fy)
      /\ Final[1] = (IF Backwards THEN fx ELSE tx)
      /\ Final[2] = (IF Backwards THEN fy ELSE ty)
  BY DEF First, Final, fx, fy, tx, ty
<1>3. dx = tx - fx /\ dy = ty - fy
  BY DEF dx, dy, fx, fy, tx, ty
<1>4. CASE Steep
  BY <1>1, <1>2, <1>3, <1>4 DEF Short, Long, Slope, Along, Across, Backwards, Steep, Abs
<1>5. CASE ~Steep
  BY <1>1, <1>2, <1>3, <1>5 DEF Short, Long, Slope, Along, Across, Backwards, Steep, Abs
<1> QED
  BY <1>4, <1>5

(* A step along the line, straight or across.                              *)
LEMMA StepDeviation ==
    ASSUME NEW s \in Int, NEW a \in Int, NEW S \in Int, NEW L \in Int
    PROVE  /\ 2 * ((s + 1) * S - a * L) = 2 * (s * S - a * L) + 2 * S
           /\ 2 * ((s + 1) * S - (a + 1) * L) = 2 * (s * S - a * L) + 2 * (S - L)
OBVIOUS

(* At the end the only whole number of crossings within half a pixel of    *)
(* the true one is the true one.                                           *)
LEMMA EndIsReached ==
    ASSUME NEW a \in Int, NEW S \in Int, NEW L \in Nat, L > 0,
           -L <= 2 * (L * S - a * L), 2 * (L * S - a * L) <= L
    PROVE  a = S
<1>1. L * S - a * L = L * (S - a)
  OBVIOUS
<1>2. CASE S - a >= 1
  <2>1. L * (S - a) >= L
    BY <1>2
  <2> QED  BY <1>1, <2>1
<1>3. CASE S - a <= -1
  <2>1. L * (S - a) <= -L
    BY <1>3
  <2> QED  BY <1>1, <2>1
<1> QED
  BY <1>2, <1>3

(* The invariant is all that the property asks for.                        *)
LEMMA LineInvIsTrue == LineInv => NextToTheLine
<1> SUFFICES ASSUME LineInv PROVE NextToTheLine
  OBVIOUS
<1> USE DEF Facts
<1>1. Facts
  BY LineFacts DEF LineInv
<1>2. u \in Int /\ v \in Int /\ Steps \in Int /\ Crossed \in Int
  BY <1>1 DEF LineInv, Steps, Crossed
<1>3. Deviation \in Int
  BY <1>1, <1>2 DEF Deviation
<1>4. -Long <= Deviation /\ Deviation <= Long
  BY <1>1, <1>3 DEF LineInv
<1>5. ASSUME ~Drawing PROVE v = Across(Final)
  <2>1. Steps = Long
    BY <1>1, <1>2, <1>5 DEF Drawing, Steps, LineInv
  <2>2. Crossed = Short
    <3>1. CASE Long > 0
      BY <1>1, <1>2, <1>4, <2>1, <3>1, EndIsReached DEF Deviation
    <3>2. CASE Long = 0
      <4>1. p = 0 /\ Short = 0
        BY <1>1, <3>2 DEF LineInv
      <4>2. v = Across(First)
        BY <1>1, <3>2 DEF LineInv
      <4> QED  BY <1>1, <1>2, <4>1, <4>2 DEF Crossed
    <3> QED  BY <1>1, <3>1, <3>2
  <2>3. Slope * (v - Across(First)) = Short
    BY <2>2 DEF Crossed
  <2>4. CASE Slope = 1
    BY <1>1, <1>2, <2>3, <2>4
  <2>5. CASE Slope = -1
    BY <1>1, <1>2, <2>3, <2>5
  <2> QED  BY <1>1, <2>4, <2>5
<1> QED
  BY <1>4, <1>5 DEF NextToTheLine, Deviation, Steps, Crossed

-----------------------------------------------------------------------------

(* The end points stay what they are while a line is drawn, and all that   *)
(* is computed from them.                                                  *)
LEMMA EndsStay ==
    UNCHANGED <<from, to>> =>
        UNCHANGED <<Steep, Short, Long, Slope, Along(First), Across(First), Along(Final)>>
BY DEF Steep, Short, Long, Slope, Along, Across, First, Final, Backwards, dx, dy, Abs

(* One more pixel keeps the invariant, whichever branch is taken.          *)
LEMMA PixelStep ==
    ASSUME LineInv, DrawNext
    PROVE  LineInv'
<1> USE DEF Facts
<1>1. Facts
  BY LineFacts DEF LineInv
<1>2. UNCHANGED <<Steep, Short, Long, Slope, Along(First), Across(First), from, to>>
  BY EndsStay DEF DrawNext
<1>3. /\ u \in Int /\ v \in Int /\ p \in Int /\ Steps \in Nat /\ Crossed \in Int
      /\ u' = u + 1 /\ v' \in Int /\ Deviation \in Int
  BY <1>1 DEF LineInv, DrawNext, Steps, Crossed, Deviation
<1>4. Steps' = Steps + 1 /\ Steps' \in 0..Long
  BY <1>1, <1>2, <1>3 DEF Steps, DrawNext, Drawing
<1>5. CASE Straight
  <2>1. v' = v /\ p' = p + 2 * Short
    BY <1>5 DEF DrawNext
  <2>2. Crossed' = Crossed
    BY <1>2, <2>1 DEF Crossed
  <2>3. Deviation' = Deviation + 2 * Short
    BY <1>1, <1>2, <1>3, <1>4, <2>2, StepDeviation DEF Deviation
  <2>4. p <= 0
    BY <1>3, <1>5 DEF Straight
  <2>5. /\ p' = Deviation' + 2 * Short - Long
        /\ 2 * Short - 2 * Long <= p' /\ p' <= 2 * Short
    BY <1>1, <1>3, <2>1, <2>3, <2>4 DEF LineInv
  <2> QED  BY <1>2, <1>3, <1>4, <2>1, <2>5 DEF LineInv
<1>6. CASE ~Straight
  <2>1. v' = v + Slope /\ p' = p + 2 * (Short - Long)
    BY <1>6 DEF DrawNext
  <2>2. Crossed' = Crossed + 1
    <3>1. Crossed' = Slope * ((v + Slope) - Across(First))
      BY <1>2, <2>1 DEF Crossed
    <3>2. Slope * ((v + Slope) - Across(First)) = Slope * (v - Across(First)) + 1
      BY <1>1, <1>3
    <3> QED  BY <3>1, <3>2 DEF Crossed
  <2>3. Deviation' = Deviation + 2 * (Short - Long)
    BY <1>1, <1>2, <1>3, <1>4, <2>2, StepDeviation DEF Deviation
  <2>4. p >= 0
    BY <1>3, <1>6 DEF Straight
  <2>5. /\ p' = Deviation' + 2 * Short - Long
        /\ 2 * Short - 2 * Long <= p' /\ p' <= 2 * Short
    BY <1>1, <1>3, <2>1, <2>3, <2>4 DEF LineInv
  <2> QED  BY <1>2, <1>3, <1>4, <2>1, <2>5 DEF LineInv
<1> QED
  BY <1>5, <1>6

(* The first pixel of any line satisfies it.                               *)
LEMMA FirstPixel == from \in Pt /\ to \in Pt /\ Begins => LineInv
<1> SUFFICES ASSUME from \in Pt, to \in Pt, Begins PROVE LineInv
  OBVIOUS
<1> USE DEF Facts
<1>1. Facts
  BY LineFacts
<1>2. u = Along(First) /\ v = Across(First) /\ p = 2 * Short - Long
  BY DEF Begins
<1>3. Steps = 0 /\ Crossed = 0
  BY <1>1, <1>2 DEF Steps, Crossed
<1>4. Deviation = 0
  BY <1>1, <1>3 DEF Deviation
<1> QED
  BY <1>1, <1>2, <1>3, <1>4 DEF LineInv

(* So does the first pixel of a line that is called for.                   *)
LEMMA CallStep ==
    ASSUME NEW a \in Pt, NEW b \in Pt, Call(a, b)
    PROVE  LineInv'
<1>1. from' \in Pt /\ to' \in Pt /\ Begins'
  BY DEF Call, Begins
<1>2. (from \in Pt /\ to \in Pt /\ Begins => LineInv)'
  BY FirstPixel, PTL
<1> QED
  BY <1>1, <1>2

-----------------------------------------------------------------------------

(* What is left of a triangle are lines between points.                    *)
DrawInv == LineInv /\ lines \in Seq(Pt \X Pt)

(* The points of the screen and the corners are points.                    *)
LEMMA PointsAreInts == Points \subseteq Pt /\ Corners \subseteq Pt
BY VgaAssumption DEF Points, Pt

(* Every step of the graphics keeps the invariant.                         *)
LEMMA DrawStep ==
    ASSUME DrawInv, [Next]_vars
    PROVE  DrawInv'
<1> USE DEF DrawInv
<1>1. ASSUME UNCHANGED <<lineVars, lines>> PROVE DrawInv'
  <2>1. UNCHANGED <<from, to, u, v, p, lines>>
    BY <1>1 DEF lineVars
  <2>2. UNCHANGED <<Short, Long, Slope, Along(First), Across(First)>>
    BY <2>1, EndsStay
  <2>3. UNCHANGED <<Steps, Crossed>>
    BY <2>1, <2>2 DEF Steps, Crossed
  <2> QED  BY <2>1, <2>2, <2>3 DEF LineInv, Deviation
<1>2. CASE vga_Start \/ SetMisc \/ SetRegister \/ CirclePixels \/ vga_update_buffer
  BY <1>1, <1>2 DEF vga_Start, SetMisc, SetRegister, CirclePixels, vga_update_buffer, drawing, RestUnchanged
<1>3. CASE LinePixel
  BY <1>3, PixelStep DEF LinePixel
<1>4. CASE LineDone
  <2>1. CASE lines # <<>>
    <3>1. lines[1][1] \in Pt /\ lines[1][2] \in Pt /\ Tail(lines) \in Seq(Pt \X Pt)
      BY <2>1
    <3>2. Call(lines[1][1], lines[1][2]) /\ lines' = Tail(lines)
      BY <1>4, <2>1 DEF LineDone, StartLine
    <3> QED  BY <3>1, <3>2, CallStep
  <2>2. CASE lines = <<>>
    BY <1>1, <1>4, <2>2 DEF LineDone
  <2> QED  BY <2>1, <2>2
<1>5. CASE Draw
  <2>1. ASSUME NEW a \in Points, NEW b \in Points, vga_draw_line(a, b) PROVE DrawInv'
    <3>1. Call(a, b) /\ lines' = <<>>
      BY <2>1 DEF vga_draw_line, StartLine
    <3> QED  BY <3>1, CallStep, PointsAreInts
  <2>2. ASSUME NEW a \in Corners, NEW b \in Corners, NEW c \in Corners, vga_draw_triangle(a, b, c)
        PROVE  DrawInv'
    <3>1. Call(a, b) /\ lines' = <<<<b, c>>, <<c, a>>>>
      BY <2>2 DEF vga_draw_triangle, StartLine
    <3>2. a \in Pt /\ b \in Pt /\ c \in Pt
      BY PointsAreInts
    <3>3. <<b, c>> \in Pt \X Pt /\ <<c, a>> \in Pt \X Pt
      BY <3>2
    <3>4. lines' \in Seq(Pt \X Pt)
      BY <3>1, <3>3
    <3> QED  BY <3>1, <3>2, <3>4, CallStep
  <2>3. ASSUME NEW c, NEW r, vga_draw_circle(c, r) PROVE DrawInv'
    BY <1>1, <2>3 DEF vga_draw_circle
  <2>4. ASSUME NEW x, NEW y, NEW n, vga_draw_text(x, y, n) PROVE DrawInv'
    BY <1>1, <2>4 DEF vga_draw_text
  <2> QED  BY <1>5, <2>1, <2>2, <2>3, <2>4 DEF Draw
<1>6. CASE UNCHANGED vars
  BY <1>1, <1>6 DEF vars, drawing
<1> QED
  BY <1>2, <1>3, <1>4, <1>5, <1>6 DEF Next

(* Every pixel of every line is next to the true line, and the last one is *)
(* the other end point.                                                    *)
THEOREM LinesAreTrue == Spec => []LineIsTrue
<1>1. Init => DrawInv
  <2> SUFFICES ASSUME Init PROVE DrawInv
    OBVIOUS
  <2>1. from \in Pt /\ to \in Pt /\ Begins /\ lines = <<>>
    BY DEF Init, Pt
  <2> QED  BY <2>1, FirstPixel DEF DrawInv
<1>2. DrawInv => LineIsTrue
  BY LineInvIsTrue DEF DrawInv, LineIsTrue
<1>3. DrawInv /\ [Next]_vars => DrawInv'
  BY DrawStep
<1> QED
  BY <1>1, <1>2, <1>3, PTL DEF Spec

-----------------------------------------------------------------------------
(* Circles.                                                                *)

RingFields == DOMAIN ring = {"c", "r", "x", "y", "p"} /\ ring = [f \in DOMAIN ring |-> ring[f]]

(* The distance of the step's pixels from the circle, as a difference of   *)
(* squares; the error is a function of it.                                 *)
Distance == ring.x * ring.x + ring.y * ring.y - ring.r * ring.r

RingInv ==
    /\ RingFields
    /\ ring.r \in Nat \ {0} /\ ring.x \in Nat /\ ring.y \in Int /\ ring.p \in Int
    /\ ring.c[1] \in Int /\ ring.c[2] \in Int
    /\ ring.c[1] - ring.r >= 0 /\ ring.c[1] + ring.r < Width
    /\ ring.c[2] - ring.r >= 0 /\ ring.c[2] + ring.r < Height
    /\ ring.y <= ring.r
    /\ ring.p = 2 * Distance + 4 * ring.x - 2 * ring.y + 3
    /\ ring.x <= ring.y => -ring.r <= Distance /\ Distance <= ring.r

(* What is lit is in the circle's square and near the circle.              *)
Near(set) ==
    \A n \in set : \E q \in Points :
        /\ n = Offset(q[1], q[2])
        /\ q[1] \in (ring.c[1] - ring.r)..(ring.c[1] + ring.r)
        /\ q[2] \in (ring.c[2] - ring.r)..(ring.c[2] + ring.r)
        /\ Abs(FromCircle(q)) <= ring.r

HasColumn(set, n) == \E q \in Points : q[1] = n /\ Offset(q[1], q[2]) \in set
HasRow(set, n) == \E q \in Points : q[2] = n /\ Offset(q[1], q[2]) \in set

(* The rows and columns j from the centre have lit pixels.                 *)
Covers(set, j) ==
    /\ HasColumn(set, ring.c[1] + j) /\ HasColumn(set, ring.c[1] - j)
    /\ HasRow(set, ring.c[2] + j) /\ HasRow(set, ring.c[2] - j)

Round(set) == Near(set) /\ \A j \in 0..ring.r : Covers(set, j)

CircleInv ==
    /\ at \in {"off", "set", "idle"} => figure = "none"
    /\ at = "line" => figure = "lines"
    /\ at = "circle" =>
          /\ figure = "circle"
          /\ RingInv
          /\ Near(buffer)
          /\ \A j \in 0..ring.r : j < ring.x \/ ring.y < j => Covers(buffer, j)
    /\ figure = "circle" /\ ring.r > 0 /\ at = "drawn" => RingInv /\ Round(buffer)
    /\ figure = "circle" /\ ring.r > 0 /\ at = "shown" => RingInv /\ Round(screen)

(* The sizes of the screen.                                                *)
LEMMA ScreenSizes == Width \in Nat \ {0} /\ Height \in Nat \ {0}
BY VgaAssumption

(* A place of the buffer is one point's, and the screen has it.            *)
LEMMA OffsetIsOnes ==
    ASSUME NEW a \in 0..(Width - 1), NEW b \in 0..(Height - 1),
           NEW c \in 0..(Width - 1), NEW d \in 0..(Height - 1)
    PROVE  /\ Offset(a, b) = Offset(c, d) => a = c /\ b = d
           /\ Offset(a, b) \in 0..(Width * Height - 1)
<1>1. /\ Width \in Nat \ {0} /\ Height \in Nat \ {0} /\ a \in Int /\ b \in Int
      /\ c \in Int /\ d \in Int
  BY ScreenSizes
<1>2. PICK wb \in Int, wd \in Int : wb = Width * b /\ wd = Width * d
  BY <1>1
<1>3. ASSUME b < d PROVE wb + Width <= wd
  <2>1. Width * (b + 1) <= Width * d
    BY <1>1, <1>3
  <2>2. Width * (b + 1) = Width * b + Width
    BY <1>1
  <2> QED  BY <1>2, <2>1, <2>2
<1>4. ASSUME d < b PROVE wd + Width <= wb
  <2>1. Width * (d + 1) <= Width * b
    BY <1>1, <1>4
  <2>2. Width * (d + 1) = Width * d + Width
    BY <1>1
  <2> QED  BY <1>2, <2>1, <2>2
<1>5. Offset(a, b) = wb + a /\ Offset(c, d) = wd + c
  BY <1>2 DEF Offset
<1>6. ASSUME Offset(a, b) = Offset(c, d) PROVE a = c /\ b = d
  <2>1. wb + a = wd + c
    BY <1>5, <1>6
  <2>2. ~(b < d)
    BY <1>1, <1>2, <1>3, <2>1
  <2>3. ~(d < b)
    BY <1>1, <1>2, <1>4, <2>1
  <2>4. b = d
    BY <1>1, <2>2, <2>3
  <2> QED  BY <1>2, <2>1, <2>4
<1>7. wb >= 0 /\ wb + Width <= Width * Height
  <2>1. Width * (b + 1) <= Width * Height
    BY <1>1
  <2>2. Width * (b + 1) = Width * b + Width /\ Width * b >= 0
    BY <1>1
  <2> QED  BY <1>2, <2>1, <2>2
<1>8. Width * Height \in Nat
  BY <1>1
<1> QED
  BY <1>1, <1>5, <1>6, <1>7, <1>8

(* The squares of the next step's pixels.                                 *)
LEMMA NextSquares ==
    ASSUME NEW x \in Int, NEW y \in Int, NEW r \in Int
    PROVE  /\ (x + 1) * (x + 1) + y * y - r * r = (x * x + y * y - r * r) + 2 * x + 1
           /\ (x + 1) * (x + 1) + (y - 1) * (y - 1) - r * r
                 = (x * x + y * y - r * r) + 2 * x - 2 * y + 2
<1>1. /\ (x + 1) * (x + 1) = x * x + 2 * x + 1
      /\ (y - 1) * (y - 1) = y * y - 2 * y + 1
  OBVIOUS
<1>2. PICK xx \in Int, yy \in Int, rr \in Int : xx = x * x /\ yy = y * y /\ rr = r * r
  OBVIOUS
<1> QED
  BY <1>1, <1>2



(* The eight pixels of a step: the four places of <<x, y>> and those of    *)
(* <<y, x>> around the centre.                                             *)
LEMMA OctantsAre ==
    ASSUME NEW i, NEW j, i \in {ring.x, -ring.x}, j \in {ring.y, -ring.y}
    PROVE  /\ <<ring.c[1] + i, ring.c[2] + j>> \in Octants
           /\ <<ring.c[1] + j, ring.c[2] + i>> \in Octants
<1> DEFINE xs == {ring.x, -ring.x}
           ys == {ring.y, -ring.y}
           all == (xs \X ys) \cup (ys \X xs)
<1>1. Octants = {<<ring.c[1] + o[1], ring.c[2] + o[2]>> : o \in all}
  BY Zenon DEF Octants
<1>2. <<i, j>> \in all /\ <<j, i>> \in all
  OBVIOUS
<1> HIDE DEF all
<1>3. \A o \in all : <<ring.c[1] + o[1], ring.c[2] + o[2]>> \in Octants
  BY <1>1
<1>4. PICK o \in all, w \in all : o = <<i, j>> /\ w = <<j, i>>
  BY <1>2
<1>5. o[1] = i /\ o[2] = j /\ w[1] = j /\ w[2] = i
  BY <1>4
<1> QED
  BY <1>3, <1>5

(* ... and no others.                                                      *)
LEMMA OctantIs ==
    ASSUME NEW q \in Octants
    PROVE  \E i \in {ring.x, -ring.x}, j \in {ring.y, -ring.y} :
               \/ q = <<ring.c[1] + i, ring.c[2] + j>>
               \/ q = <<ring.c[1] + j, ring.c[2] + i>>
BY DEF Octants

(* While x is at most y the pixels are on the screen, in the square and    *)
(* near the circle.                                                        *)
LEMMA OctantsNear ==
    ASSUME RingInv, ring.x <= ring.y, NEW q \in Octants
    PROVE  /\ q \in Points
           /\ q[1] \in (ring.c[1] - ring.r)..(ring.c[1] + ring.r)
           /\ q[2] \in (ring.c[2] - ring.r)..(ring.c[2] + ring.r)
           /\ Abs(FromCircle(q)) <= ring.r
<1>1. PICK x, y, r, a, b : x = ring.x /\ y = ring.y /\ r = ring.r /\ a = ring.c[1] /\ b = ring.c[2]
  OBVIOUS
<1>2. /\ x \in Nat /\ y \in Int /\ r \in Nat /\ a \in Int /\ b \in Int /\ x <= y /\ y <= r
      /\ a - r >= 0 /\ a + r < Width /\ b - r >= 0 /\ b + r < Height
      /\ -r <= x * x + y * y - r * r /\ x * x + y * y - r * r <= r
  BY <1>1 DEF RingInv, Distance
<1>3. ASSUME NEW i \in Int, NEW j \in Int, q = <<a + i, b + j>>,
             -r <= i, i <= r, -r <= j, j <= r,
             i * i + j * j = x * x + y * y
      PROVE  /\ q \in Points
             /\ q[1] \in (a - r)..(a + r) /\ q[2] \in (b - r)..(b + r)
             /\ Abs(FromCircle(q)) <= r
  <2>1. q[1] = a + i /\ q[2] = b + j
    BY <1>3
  <2>2. a + i \in (a - r)..(a + r) /\ b + j \in (b - r)..(b + r)
    BY <1>2, <1>3
  <2>3. a + i \in 0..(Width - 1) /\ b + j \in 0..(Height - 1)
    BY <1>2, <1>3, ScreenSizes
  <2>4. q \in Points
    BY <1>3, <2>3 DEF Points
  <2>5. FromCircle(q) = ((a + i) - a) * ((a + i) - a) + ((b + j) - b) * ((b + j) - b) - r * r
    BY <1>1, <2>1 DEF FromCircle
  <2>6. (a + i) - a = i /\ (b + j) - b = j
    BY <1>2, <1>3
  <2>7. FromCircle(q) = i * i + j * j - r * r
    BY <2>5, <2>6
  <2>8. PICK d : d = x * x + y * y - r * r
    OBVIOUS
  <2>9. d \in Int /\ -r <= d /\ d <= r
    BY <1>2, <2>8
  <2>10. FromCircle(q) = d
    BY <1>2, <1>3, <2>7, <2>8
  <2>11. Abs(FromCircle(q)) <= r
    BY <1>2, <2>9, <2>10 DEF Abs
  <2> QED  BY <2>1, <2>2, <2>4, <2>11
<1>4. PICK i \in {x, -x}, j \in {y, -y} : q = <<a + i, b + j>> \/ q = <<a + j, b + i>>
  BY <1>1, OctantIs
<1>5. /\ i \in Int /\ j \in Int /\ -r <= i /\ i <= r /\ -r <= j /\ j <= r
  BY <1>2
<1>6. i * i = x * x /\ j * j = y * y
  BY <1>2
<1>7. PICK ii, jj, xx, yy : ii = i * i /\ jj = j * j /\ xx = x * x /\ yy = y * y
  OBVIOUS
<1>8. ii \in Int /\ jj \in Int /\ ii = xx /\ jj = yy
  BY <1>5, <1>6, <1>7
<1>9. i * i + j * j = x * x + y * y /\ j * j + i * i = x * x + y * y
  BY <1>7, <1>8
<1>10. /\ q \in Points
       /\ q[1] \in (a - r)..(a + r) /\ q[2] \in (b - r)..(b + r)
       /\ Abs(FromCircle(q)) <= r
  <2>1. CASE q = <<a + i, b + j>>
    BY <1>3, <1>5, <1>9, <2>1
  <2>2. CASE q = <<a + j, b + i>>
    BY <1>3, <1>5, <1>9, <2>2
  <2> QED  BY <1>4, <2>1, <2>2
<1> QED
  BY <1>1, <1>10

(* What is lit stays so.                                                   *)
LEMMA CoversMore ==
    ASSUME NEW set, NEW more, set \subseteq more, NEW j, Covers(set, j)
    PROVE  Covers(more, j)
BY DEF Covers, HasColumn, HasRow

(* A step lights the rows and columns x and y from the centre.             *)
LEMMA OctantsCover ==
    ASSUME RingInv, ring.x <= ring.y, NEW set
    PROVE  Covers(set \cup Lit(Octants), ring.x) /\ Covers(set \cup Lit(Octants), ring.y)
<1> DEFINE all == set \cup Lit(Octants)
<1>1. PICK x, y, a, b : x = ring.x /\ y = ring.y /\ a = ring.c[1] /\ b = ring.c[2]
  OBVIOUS
<1>2. x \in Int /\ y \in Int /\ a \in Int /\ b \in Int
  BY <1>1 DEF RingInv
<1>3. ASSUME NEW q \in Octants
      PROVE  q \in Points /\ Offset(q[1], q[2]) \in all
  BY <1>3, OctantsNear DEF Lit
<1>4. ASSUME NEW i, NEW j, <<i, j>> \in Octants
      PROVE  HasColumn(all, i) /\ HasRow(all, j)
  <2>1. PICK q \in Octants : q = <<i, j>>
    BY <1>4
  <2>2. q \in Points /\ Offset(q[1], q[2]) \in all /\ q[1] = i /\ q[2] = j
    BY <1>3, <2>1
  <2> HIDE DEF all
  <2> QED  BY <2>2 DEF HasColumn, HasRow
<1> HIDE DEF all
<1>5. /\ <<a + x, b + y>> \in Octants /\ <<a + (-x), b + (-y)>> \in Octants
      /\ <<a + y, b + x>> \in Octants /\ <<a + (-y), b + (-x)>> \in Octants
  BY <1>1, OctantsAre
<1>6. a + (-x) = a - x /\ a + (-y) = a - y /\ b + (-x) = b - x /\ b + (-y) = b - y
  BY <1>2
<1>7. /\ HasColumn(all, a + x) /\ HasColumn(all, a - x) /\ HasRow(all, b + x) /\ HasRow(all, b - x)
      /\ HasColumn(all, a + y) /\ HasColumn(all, a - y) /\ HasRow(all, b + y) /\ HasRow(all, b - y)
  BY <1>4, <1>5, <1>6
<1> QED
  BY <1>1, <1>7 DEF Covers, all

(* The step's arguments stay, its variables move on.                       *)
LEMMA RingMoves ==
    ASSUME RingInv, ring' = CircleStep
    PROVE  /\ RingFields' /\ ring'.c = ring.c /\ ring'.r = ring.r /\ ring'.x = ring.x + 1
           /\ ring.p < 0 => ring'.p = ring.p + 4 * ring.x + 6 /\ ring'.y = ring.y
           /\ ~(ring.p < 0) => /\ ring'.p = ring.p + 4 * (ring.x - ring.y) + 10
                               /\ ring'.y = ring.y - 1
<1> USE DEF RingInv, RingFields
<1>1. ASSUME ring.p < 0
      PROVE  /\ RingFields' /\ ring'.c = ring.c /\ ring'.r = ring.r /\ ring'.x = ring.x + 1
             /\ ring'.p = ring.p + 4 * ring.x + 6 /\ ring'.y = ring.y
  <2>1. ring' = [ring EXCEPT !.p = ring.p + 4 * ring.x + 6, !.x = ring.x + 1]
    BY <1>1 DEF CircleStep
  <2> QED  BY <2>1
<1>2. ASSUME ~(ring.p < 0)
      PROVE  /\ RingFields' /\ ring'.c = ring.c /\ ring'.r = ring.r /\ ring'.x = ring.x + 1
             /\ ring'.p = ring.p + 4 * (ring.x - ring.y) + 10 /\ ring'.y = ring.y - 1
  <2>1. ring' = [ring EXCEPT !.p = ring.p + 4 * (ring.x - ring.y) + 10,
                             !.x = ring.x + 1, !.y = ring.y - 1]
    BY <1>2 DEF CircleStep
  <2> QED  BY <2>1
<1> QED
  BY <1>1, <1>2

(* ... and keep their relation.                                            *)
LEMMA RingStays ==
    ASSUME RingInv, ring.x <= ring.y, ring' = CircleStep
    PROVE  RingInv'
<1>1. PICK x, y, r, e, d : /\ x = ring.x /\ y = ring.y /\ r = ring.r /\ e = ring.p
                           /\ d = x * x + y * y - r * r
  OBVIOUS
<1>2. /\ x \in Nat /\ y \in Int /\ r \in Nat /\ e \in Int /\ x <= y /\ y <= r
      /\ e = 2 * d + 4 * x - 2 * y + 3 /\ -r <= d /\ d <= r
  BY <1>1 DEF RingInv, Distance
<1>3. d \in Int
  BY <1>1, <1>2
<1>4. /\ RingFields' /\ ring'.c = ring.c /\ ring'.r = r /\ ring'.x = x + 1
      /\ e < 0 => ring'.p = e + 4 * x + 6 /\ ring'.y = y
      /\ ~(e < 0) => ring'.p = e + 4 * (x - y) + 10 /\ ring'.y = y - 1
  BY <1>1, RingMoves
<1>5. /\ ring'.y \in Int /\ ring'.y <= r /\ ring'.p \in Int /\ ring'.x \in Nat
  BY <1>2, <1>4
<1>6. PICK n : n = Distance'
  OBVIOUS
<1>7. /\ ring'.p = 2 * n + 4 * ring'.x - 2 * ring'.y + 3
      /\ ring'.x <= ring'.y => -r <= n /\ n <= r
  <2>1. CASE e < 0
    <3>1. n = (x + 1) * (x + 1) + y * y - r * r
      BY <1>4, <1>6, <2>1 DEF Distance
    <3>2. n = d + 2 * x + 1
      BY <1>1, <1>2, <3>1, NextSquares
    <3> QED  BY <1>2, <1>3, <1>4, <2>1, <3>2
  <2>2. CASE ~(e < 0)
    <3>1. n = (x + 1) * (x + 1) + (y - 1) * (y - 1) - r * r
      BY <1>4, <1>6, <2>2 DEF Distance
    <3>2. n = d + 2 * x - 2 * y + 2
      BY <1>1, <1>2, <3>1, NextSquares
    <3> QED  BY <1>2, <1>3, <1>4, <2>2, <3>2
  <2> QED  BY <2>1, <2>2
<1> QED
  BY <1>1, <1>4, <1>5, <1>6, <1>7 DEF RingInv

(* The arguments are all that the sets of pixels depend on.                *)
LEMMA SameCircle ==
    ASSUME ring'.c = ring.c, ring'.r = ring.r, NEW set
    PROVE  /\ Near(set) => Near(set)'
           /\ \A j : Covers(set, j)' <=> Covers(set, j)
<1>1. \A q : FromCircle(q)' = FromCircle(q)
  BY DEF FromCircle
<1>2. ASSUME Near(set) PROVE Near(set)'
  BY <1>1, <1>2 DEF Near, Offset, Abs
<1>3. \A j : Covers(set, j)' <=> Covers(set, j)
  BY DEF Covers, HasColumn, HasRow, Offset
<1> QED
  BY <1>2, <1>3

(* A step draws near the circle and leaves no row or column out.           *)
LEMMA CircleDraws ==
    ASSUME CircleInv, at = "circle", ring.y >= ring.x,
           buffer' = buffer \cup Lit(Octants), ring' = CircleStep,
           UNCHANGED <<at, figure>>
    PROVE  CircleInv'
<1>1. /\ figure = "circle" /\ RingInv /\ Near(buffer)
      /\ \A j \in 0..ring.r : j < ring.x \/ ring.y < j => Covers(buffer, j)
      /\ ring.x <= ring.y
  <2>1. ring.x \in Int /\ ring.y \in Int
    BY DEF CircleInv, RingInv
  <2> QED  BY <2>1 DEF CircleInv
<1>2. RingInv'
  BY <1>1, RingStays
<1>3. /\ ring'.c = ring.c /\ ring'.r = ring.r /\ ring'.x = ring.x + 1
      /\ ring'.y \in {ring.y, ring.y - 1}
  BY <1>1, RingMoves
<1>4. PICK more : more = buffer \cup Lit(Octants)
  OBVIOUS
<1>5. Near(more)
  <2>1. ASSUME NEW n \in Lit(Octants)
        PROVE  \E q \in Points :
                  /\ n = Offset(q[1], q[2])
                  /\ q[1] \in (ring.c[1] - ring.r)..(ring.c[1] + ring.r)
                  /\ q[2] \in (ring.c[2] - ring.r)..(ring.c[2] + ring.r)
                  /\ Abs(FromCircle(q)) <= ring.r
    <3>1. PICK q \in Octants : n = Offset(q[1], q[2])
      BY <2>1 DEF Lit
    <3> QED  BY <1>1, <3>1, OctantsNear
  <2> QED  BY <1>1, <1>4, <2>1 DEF Near
<1>6. \A j \in 0..ring.r : j < ring.x + 1 \/ ring.y - 1 < j => Covers(more, j)
  <2> SUFFICES ASSUME NEW j \in 0..ring.r, j < ring.x + 1 \/ ring.y - 1 < j
               PROVE  Covers(more, j)
    OBVIOUS
  <2>1. Covers(more, ring.x) /\ Covers(more, ring.y)
    BY <1>1, <1>4, OctantsCover
  <2>2. j < ring.x \/ ring.y < j => Covers(more, j)
    BY <1>1, <1>4, CoversMore
  <2>3. j \in Int /\ ring.x \in Int /\ ring.y \in Int
    BY <1>1 DEF RingInv
  <2>4. j = ring.x \/ j = ring.y \/ j < ring.x \/ ring.y < j
    BY <2>3
  <2> QED  BY <2>1, <2>2, <2>4
<1>7. Near(more)' /\ \A j : Covers(more, j)' <=> Covers(more, j)
  BY <1>3, <1>5, SameCircle
<1>8. ASSUME NEW j \in 0..ring'.r, j < ring'.x \/ ring'.y < j
      PROVE  Covers(more, j)'
  <2>1. ring.y \in Int /\ j \in Int
    BY <1>1, <1>3 DEF RingInv
  <2>2. j < ring.x + 1 \/ ring.y - 1 < j
    BY <1>3, <1>8, <2>1
  <2> QED  BY <1>3, <1>6, <1>7, <2>2
<1>9. buffer' = more
  BY <1>4
<1>10. Near(buffer)' /\ \A j \in 0..ring'.r : j < ring'.x \/ ring'.y < j => Covers(buffer, j)'
  <2>1. Near(buffer)'
    BY <1>7, <1>9 DEF Near
  <2>2. ASSUME NEW j \in 0..ring'.r, j < ring'.x \/ ring'.y < j PROVE Covers(buffer, j)'
    BY <1>8, <1>9, <2>2 DEF Covers, HasColumn, HasRow
  <2> QED  BY <2>1, <2>2
<1> QED
  BY <1>1, <1>2, <1>10 DEF CircleInv

(* When x has passed y every row and column has been reached.              *)
LEMMA CircleEnds ==
    ASSUME CircleInv, at = "circle", ring.y < ring.x, at' = "drawn",
           UNCHANGED <<ring, figure, buffer>>
    PROVE  CircleInv'
<1>1. RingInv /\ Near(buffer) /\ figure = "circle"
  BY DEF CircleInv
<1>2. \A j \in 0..ring.r : Covers(buffer, j)
  <2> SUFFICES ASSUME NEW j \in 0..ring.r PROVE Covers(buffer, j)
    OBVIOUS
  <2>1. j \in Int /\ ring.x \in Int /\ ring.y \in Int
    BY <1>1 DEF RingInv
  <2>2. j < ring.x \/ ring.y < j
    BY <2>1
  <2> QED  BY <2>2 DEF CircleInv
<1>3. RingInv' /\ Round(buffer)'
  BY <1>1, <1>2 DEF Round, RingInv, RingFields, Distance, Near, Covers, HasColumn, HasRow,
                   FromCircle, Offset, Abs
<1> QED
  BY <1>1, <1>3 DEF CircleInv

(* A circle starts with nothing drawn, and no row or column is left out.   *)
LEMMA CircleBegins ==
    ASSUME NEW c \in Points, NEW r \in 0..Width, vga_draw_circle(c, r), buffer = {},
           {<<c[1] - r, c[2] - r>>, <<c[1] + r, c[2] + r>>} \subseteq Points
    PROVE  CircleInv'
<1>1. PICK a, b : a = c[1] /\ b = c[2]
  OBVIOUS
<1>2. /\ a \in 0..(Width - 1) /\ b \in 0..(Height - 1)
      /\ a - r \in 0..(Width - 1) /\ b - r \in 0..(Height - 1)
      /\ a + r \in 0..(Width - 1) /\ b + r \in 0..(Height - 1)
  BY <1>1 DEF Points
<1>3. ring' = [c |-> c, r |-> r, x |-> 0, y |-> r, p |-> 3 - 2 * r]
  BY DEF vga_draw_circle
<1>4. /\ RingFields' /\ ring'.c = c /\ ring'.r = r /\ ring'.x = 0 /\ ring'.y = r
      /\ ring'.p = 3 - 2 * r
  BY <1>3 DEF RingFields
<1>5. figure' = "circle" /\ buffer' = {} /\ at' = IF r = 0 THEN "drawn" ELSE "circle"
  BY DEF vga_draw_circle
<1>6. CASE r = 0
  BY <1>4, <1>5, <1>6 DEF CircleInv
<1>7. CASE r # 0
  <2>1. r \in Nat \ {0} /\ a \in Int /\ b \in Int /\ Width \in Int /\ Height \in Int
    BY <1>2, <1>7, ScreenSizes
  <2>2. Distance' = 0 * 0 + r * r - r * r
    BY <1>4 DEF Distance
  <2>3. Distance' = 0
    <3>1. r * r \in Int
      BY <2>1
    <3> QED  BY <2>2, <3>1
  <2>4. ring'.c[1] = a /\ ring'.c[2] = b
    BY <1>1, <1>4
  <2>5. RingInv'
    BY <1>2, <1>4, <2>1, <2>3, <2>4 DEF RingInv
  <2>6. Near(buffer)'
    BY <1>5 DEF Near
  <2>7. \A j \in 0..ring'.r : ~(j < ring'.x) /\ ~(ring'.y < j)
    BY <1>4, <2>1
  <2>8. at' = "circle" /\ figure' = "circle"
    BY <1>5, <1>7
  <2> QED  BY <2>5, <2>6, <2>7, <2>8 DEF CircleInv
<1> QED
  BY <1>6, <1>7

(* The screen shows the whole of what has been drawn.                      *)
LEMMA CircleShows ==
    ASSUME CircleInv, vga_update_buffer
    PROVE  CircleInv'
<1>1. /\ at = "drawn" /\ at' = "shown" /\ UNCHANGED <<ring, figure>>
      /\ screen' = buffer \cap (0..(Width * Height - 1))
  BY DEF vga_update_buffer
<1>2. CASE figure = "circle" /\ ring.r > 0
  <2>1. RingInv /\ Round(buffer)
    BY <1>1, <1>2 DEF CircleInv
  <2>2. ASSUME NEW n \in buffer PROVE n \in 0..(Width * Height - 1)
    <3>1. PICK q \in Points : n = Offset(q[1], q[2])
      BY <2>1, <2>2 DEF Round, Near
    <3>2. q[1] \in 0..(Width - 1) /\ q[2] \in 0..(Height - 1)
      BY DEF Points
    <3> QED  BY <3>1, <3>2, OffsetIsOnes
  <2>3. screen' = buffer
    BY <1>1, <2>2
  <2>4. Round(screen)'
    BY <1>1, <2>1, <2>3 DEF Round, Near, Covers, HasColumn, HasRow, FromCircle, Offset, Abs
  <2>5. RingInv'
    BY <1>1, <2>1 DEF RingInv, RingFields, Distance
  <2> QED  BY <1>1, <2>4, <2>5 DEF CircleInv
<1>3. CASE ~(figure = "circle" /\ ring.r > 0)
  BY <1>1, <1>3 DEF CircleInv
<1> QED
  BY <1>2, <1>3

(* Every step of the graphics keeps the circle's invariant.                *)
LEMMA CircleStaysRound ==
    ASSUME CircleInv, [Next]_vars
    PROVE  CircleInv'
<1>1. CASE vga_Start \/ SetMisc \/ SetRegister
  <2>1. at \in {"off", "set", "idle"} /\ at' \in {"set", "idle"} /\ figure' = figure
    BY <1>1 DEF vga_Start, SetMisc, SetRegister, drawing
  <2> QED  BY <2>1 DEF CircleInv
<1>2. CASE Draw
  <2>1. buffer = {}
    BY <1>2 DEF Draw
  <2>2. ASSUME NEW a, NEW b, vga_draw_line(a, b) PROVE CircleInv'
    BY <2>2 DEF vga_draw_line, CircleInv
  <2>3. ASSUME NEW a, NEW b, NEW c, vga_draw_triangle(a, b, c) PROVE CircleInv'
    BY <2>3 DEF vga_draw_triangle, CircleInv
  <2>4. ASSUME NEW x, NEW y, NEW n, vga_draw_text(x, y, n) PROVE CircleInv'
    BY <2>4 DEF vga_draw_text, CircleInv
  <2> QED  BY <1>2, <2>1, <2>2, <2>3, <2>4, CircleBegins DEF Draw
<1>3. CASE LinePixel \/ LineDone
  <2>1. at = "line" /\ at' \in {"line", "drawn"} /\ figure' = figure
    BY <1>3 DEF LinePixel, LineDone
  <2> QED  BY <2>1 DEF CircleInv
<1>4. CASE CirclePixels
  <2>1. at = "circle" /\ figure' = figure
    BY <1>4 DEF CirclePixels
  <2>2. CASE ring.y >= ring.x
    <3>1. buffer' = buffer \cup Lit(Octants) /\ ring' = CircleStep /\ at' = at
      <4>1. ~(ring.y < ring.x)
        <5>1. ring.x \in Int /\ ring.y \in Int
          BY <2>1 DEF CircleInv, RingInv
        <5> QED  BY <2>2, <5>1
      <4> QED  BY <1>4, <4>1 DEF CirclePixels
    <3> QED  BY <2>1, <2>2, <3>1, CircleDraws
  <2>3. CASE ~(ring.y >= ring.x)
    <3>1. ring.y < ring.x /\ at' = "drawn" /\ UNCHANGED <<ring, buffer>>
      BY <1>4, <2>3 DEF CirclePixels
    <3> QED  BY <2>1, <3>1, CircleEnds
  <2> QED  BY <2>2, <2>3
<1>5. CASE vga_update_buffer
  BY <1>5, CircleShows
<1>6. CASE UNCHANGED vars
  <2>1. UNCHANGED <<at, ring, figure, buffer, screen>>
    BY <1>6 DEF vars, drawing
  <2>2. RingInv' <=> RingInv
    BY <2>1 DEF RingInv, RingFields, Distance
  <2>3. /\ Near(buffer)' <=> Near(buffer)
        /\ \A j : Covers(buffer, j)' <=> Covers(buffer, j)
    BY <2>1 DEF Near, Covers, HasColumn, HasRow, FromCircle, Offset, Abs
  <2>4. Round(buffer)' <=> Round(buffer)
    BY <2>1 DEF Round, Near, Covers, HasColumn, HasRow, FromCircle, Offset, Abs
  <2>5. Round(screen)' <=> Round(screen)
    BY <2>1 DEF Round, Near, Covers, HasColumn, HasRow, FromCircle, Offset, Abs
  <2> QED  BY <2>1, <2>2, <2>3, <2>4, <2>5 DEF CircleInv
<1> QED
  BY <1>1, <1>2, <1>3, <1>4, <1>5, <1>6 DEF Next

(* A round set of pixels has the rows and columns of its square, all of    *)
(* them, and no others.                                                    *)
LEMMA RoundIsShown ==
    ASSUME RingInv, Round(screen)
    PROVE  LET lit == {q \in Points : Offset(q[1], q[2]) \in screen}
           IN  /\ {q[1] : q \in lit} = (ring.c[1] - ring.r)..(ring.c[1] + ring.r)
               /\ {q[2] : q \in lit} = (ring.c[2] - ring.r)..(ring.c[2] + ring.r)
               /\ \A q \in lit : Abs(FromCircle(q)) <= ring.r
<1> DEFINE lit == {q \in Points : Offset(q[1], q[2]) \in screen}
<1>1. PICK a, b, r : a = ring.c[1] /\ b = ring.c[2] /\ r = ring.r
  OBVIOUS
<1>2. a \in Int /\ b \in Int /\ r \in Nat
  BY <1>1 DEF RingInv
<1>3. ASSUME NEW q \in lit
      PROVE  q[1] \in (a - r)..(a + r) /\ q[2] \in (b - r)..(b + r) /\ Abs(FromCircle(q)) <= r
  <2>1. q \in Points /\ Offset(q[1], q[2]) \in screen
    OBVIOUS
  <2>2. PICK w \in Points :
            /\ Offset(q[1], q[2]) = Offset(w[1], w[2])
            /\ w[1] \in (a - r)..(a + r) /\ w[2] \in (b - r)..(b + r)
            /\ Abs(FromCircle(w)) <= r
    BY <1>1, <2>1 DEF Round, Near
  <2>3. /\ q[1] \in 0..(Width - 1) /\ q[2] \in 0..(Height - 1)
        /\ w[1] \in 0..(Width - 1) /\ w[2] \in 0..(Height - 1)
    BY <2>1 DEF Points
  <2>4. q[1] = w[1] /\ q[2] = w[2]
    BY <2>2, <2>3, OffsetIsOnes
  <2>5. FromCircle(q) = FromCircle(w)
    BY <2>4 DEF FromCircle
  <2> QED  BY <2>2, <2>4, <2>5
<1>4. ASSUME NEW n \in (a - r)..(a + r) PROVE \E q \in lit : q[1] = n
  <2>1. PICK j \in 0..r : n = a + j \/ n = a - j
    <3>1. CASE n >= a
      <4>1. n - a \in 0..r /\ n = a + (n - a)
        BY <1>2, <3>1
      <4> QED  BY <4>1
    <3>2. CASE n < a
      <4>1. a - n \in 0..r /\ n = a - (a - n)
        BY <1>2, <3>2
      <4> QED  BY <4>1
    <3> QED  BY <1>2, <3>1, <3>2
  <2>2. HasColumn(screen, n)
    BY <1>1, <2>1 DEF Round, Covers
  <2> QED  BY <2>2 DEF HasColumn
<1>5. ASSUME NEW n \in (b - r)..(b + r) PROVE \E q \in lit : q[2] = n
  <2>1. PICK j \in 0..r : n = b + j \/ n = b - j
    <3>1. CASE n >= b
      <4>1. n - b \in 0..r /\ n = b + (n - b)
        BY <1>2, <3>1
      <4> QED  BY <4>1
    <3>2. CASE n < b
      <4>1. b - n \in 0..r /\ n = b - (b - n)
        BY <1>2, <3>2
      <4> QED  BY <4>1
    <3> QED  BY <1>2, <3>1, <3>2
  <2>2. HasRow(screen, n)
    BY <1>1, <2>1 DEF Round, Covers
  <2> QED  BY <2>2 DEF HasRow
<1> HIDE DEF lit
<1>6. {q[1] : q \in lit} = (a - r)..(a + r)
  BY <1>3, <1>4
<1>7. {q[2] : q \in lit} = (b - r)..(b + r)
  BY <1>3, <1>5
<1> QED
  BY <1>1, <1>3, <1>6, <1>7 DEF lit

(* Every circle that is shown is closed and round, on a screen of any      *)
(* size, for any centre and radius that fit it: when x passes y, every row *)
(* and column of its square has been reached, and no step has taken a      *)
(* pixel too far in or out.                                                *)
THEOREM CirclesAreRound == Spec => []CircleIsRound
<1>1. Init => CircleInv
  BY DEF Init, CircleInv
<1>2. CircleInv => CircleIsRound
  BY RoundIsShown, Zenon DEF CircleInv, CircleIsRound
<1>3. CircleInv /\ [Next]_vars => CircleInv'
  BY CircleStaysRound
<1> QED
  BY <1>1, <1>2, <1>3, PTL DEF Spec

-----------------------------------------------------------------------------
(* Modes.                                                                  *)

(* The access of write_regs that writes register n of a group.             *)
Place(g, n) ==
    CASE g = "SEQ"  -> 2 * n + 2
      [] g = "CRTC" -> 14 + 2 * n + 2
      [] g = "GC"   -> 14 + 2 * CrtRegisters + 2 * n + 2
      [] g = "AC"   -> 32 + 2 * CrtRegisters + 3 * n + 3

Accesses == 97 + 2 * CrtRegisters

Indices(g) == 0..(Count[g] - 1)

Registers(reg) ==
    /\ reg = [g \in Groups |-> reg[g]]
    /\ \A g \in Groups : reg[g] = [n \in Indices(g) |-> reg[g][n]]

PortTypes ==
    /\ next \in {"number", "value"}
    /\ Registers(register)
    /\ number = [g \in Groups |-> number[g]]

(* What lies behind access k holds the mode, and the port is ready for     *)
(* what access k takes it for.                                             *)
Setting ==
    /\ k \in 1..Accesses
    /\ \A g \in Groups : \A n \in Indices(g) : Place(g, n) < k => register[g][n] = mode
    /\ \A g \in Groups : \A n \in Indices(g) : Place(g, n) = k => number[g] = n
    /\ \A n \in Indices("AC") :
          /\ Place("AC", n) = k => next = "value"
          /\ Place("AC", n) = k + 1 => next = "number"
    /\ k = 14 => number["CRTC"] = LockRegister
    /\ k > 14 => ~locked
    /\ k = Accesses => next = "number"

ModeInv ==
    /\ PortTypes
    /\ at = "set" => k = 0 \/ (misc = mode /\ Setting)
    /\ ModeIsSet

(* The groups and their registers.                                         *)
LEMMA Groups4 ==
    /\ Groups = {"SEQ", "CRTC", "GC", "AC"}
    /\ Count["SEQ"] = 5 /\ Count["CRTC"] = CrtRegisters /\ Count["GC"] = 9 /\ Count["AC"] = 21
    /\ CrtRegisters \in Nat \ {0}
BY VgaAssumption DEF Groups, Count

(* An access is one of these.                                              *)
Same == [port |-> "CRTC", what |-> "same"]
AllAccesses ==
    {Number(g, n) : g \in Groups, n \in Nat} \cup {Value(g) : g \in Groups} \cup {Status, Same}

(* A function on 1..n is a sequence.                                       *)
LEMMA FunctionIsSeq ==
    ASSUME NEW S, NEW n \in Nat, NEW f \in [1..n -> S]
    PROVE  f \in Seq(S) /\ Len(f) = n
<1>1. f \in Seq(S)
  BY SeqDef
<1>2. Len(f) \in Nat /\ 1..Len(f) = 1..n
  BY <1>1, LenProperties
<1>3. Len(f) = n
  BY <1>2
<1> QED
  BY <1>1, <1>3

(* A group's accesses are a number and a value for each register.          *)
Pair(g, i, access) ==
    \E n \in Indices(g) : \/ i = 2 * n + 1 /\ access = Number(g, n)
                          \/ i = 2 * n + 2 /\ access = Value(g)

IsAccesses(s, n) == s \in Seq(AllAccesses) /\ Len(s) = n

LEMMA BothAre ==
    ASSUME NEW g \in Groups
    PROVE  /\ IsAccesses(Both(g), 2 * Count[g])
           /\ \A i \in 1..(2 * Count[g]) : Pair(g, i, Both(g)[i])
<1>1. Count[g] \in Nat
  BY Groups4
<1>2. ASSUME NEW i \in 1..(2 * Count[g])
      PROVE  Pair(g, i, Both(g)[i])
  <2>1. Both(g)[i] = IF i % 2 = 1 THEN Number(g, i \div 2) ELSE Value(g)
    BY DEF Both
  <2>2. CASE i % 2 = 1
    <3>1. i \div 2 \in Indices(g) /\ i = 2 * (i \div 2) + 1
      BY <1>1, <2>2 DEF Indices
    <3> QED  BY <2>1, <2>2, <3>1 DEF Pair
  <2>3. CASE i % 2 # 1
    <3>1. PICK n \in Int : n = (i \div 2) - 1
      BY <1>1
    <3>2. n \in Indices(g) /\ i = 2 * n + 2
      BY <1>1, <2>3, <3>1 DEF Indices
    <3> QED  BY <2>1, <2>3, <3>2 DEF Pair
  <2> QED  BY <2>2, <2>3
<1>3. ASSUME NEW i \in 1..(2 * Count[g]) PROVE Both(g)[i] \in AllAccesses
  <2>1. \A n \in Indices(g) : n \in Nat
    BY <1>1 DEF Indices
  <2> QED  BY <1>2, <2>1 DEF AllAccesses, Pair
<1>4. 2 * Count[g] \in Nat /\ Both(g) = [i \in 1..(2 * Count[g]) |-> Both(g)[i]]
  BY <1>1 DEF Both
<1>5. IsAccesses(Both(g), 2 * Count[g])
  <2>1. Both(g) \in [1..(2 * Count[g]) -> AllAccesses]
    BY <1>3, <1>4, Zenon
  <2>2. 2 * Count[g] \in Nat
    BY <1>4
  <2> QED  BY <2>1, <2>2, FunctionIsSeq DEF IsAccesses
<1> QED
  BY <1>2, <1>5

(* ... and for the attributes a status, a number and a value.              *)
Triple(i, access) ==
    \E n \in Indices("AC") : \/ i = 3 * n + 1 /\ access = Status
                             \/ i = 3 * n + 2 /\ access = Number("AC", n)
                             \/ i = 3 * n + 3 /\ access = Value("AC")

LEMMA AttributesAre ==
    /\ IsAccesses(Attributes, 63)
    /\ \A i \in 1..63 : Triple(i, Attributes[i])
<1>1. Attributes = [i \in 1..63 |->
        CASE i % 3 = 1 -> Status
          [] i % 3 = 2 -> Number("AC", i \div 3)
          [] i % 3 = 0 -> Value("AC")]
  BY Groups4 DEF Attributes
<1>2. ASSUME NEW i \in 1..63
      PROVE  Triple(i, Attributes[i])
  <2>1. CASE i % 3 = 1
    <3>1. i \div 3 \in Indices("AC") /\ i = 3 * (i \div 3) + 1
      BY <2>1, Groups4 DEF Indices
    <3> QED  BY <1>1, <2>1, <3>1 DEF Triple
  <2>2. CASE i % 3 = 2
    <3>1. i \div 3 \in Indices("AC") /\ i = 3 * (i \div 3) + 2
      BY <2>2, Groups4 DEF Indices
    <3> QED  BY <1>1, <2>2, <3>1 DEF Triple
  <2>3. CASE i % 3 = 0
    <3>1. PICK n \in Int : n = (i \div 3) - 1
      OBVIOUS
    <3>2. n \in Indices("AC") /\ i = 3 * n + 3
      BY <2>3, <3>1, Groups4 DEF Indices
    <3> QED  BY <1>1, <2>3, <3>2 DEF Triple
  <2> QED  BY <2>1, <2>2, <2>3
<1>3. ASSUME NEW i \in 1..63 PROVE Attributes[i] \in AllAccesses
  <2>1. \A n \in Indices("AC") : n \in Nat
    BY Groups4 DEF Indices
  <2>2. /\ Status \in AllAccesses /\ Value("AC") \in AllAccesses
        /\ \A n \in Nat : Number("AC", n) \in AllAccesses
    BY Groups4 DEF AllAccesses
  <2> QED  BY <1>2, <2>1, <2>2 DEF Triple
<1>4. IsAccesses(Attributes, 63)
  <2>1. Attributes = [i \in 1..63 |-> Attributes[i]]
    BY <1>1
  <2>2. Attributes \in [1..63 -> AllAccesses]
    BY <1>3, <2>1, Zenon
  <2> QED  BY <2>2, FunctionIsSeq DEF IsAccesses
<1> QED
  BY <1>2, <1>4

(* What one sequence behind another holds.                                 *)
Joined(s, t) == s \o t

LEMMA Behind ==
    ASSUME NEW s, NEW t, NEW m \in Nat, NEW n \in Nat, IsAccesses(s, m), IsAccesses(t, n)
    PROVE  /\ IsAccesses(Joined(s, t), m + n)
           /\ \A i \in 1..m : Joined(s, t)[i] = s[i]
           /\ \A i \in 1..n : Joined(s, t)[m + i] = t[i]
BY DEF IsAccesses, Joined

(* Which access is access i.                                               *)
LEMMA AccessIs ==
    /\ Len(write_regs) = Accesses
    /\ \A i \in 1..Accesses :
          \/ \E g \in {"SEQ", "CRTC", "GC"} : \E n \in Indices(g) :
                \/ i = Place(g, n) - 1 /\ write_regs[i] = Number(g, n)
                \/ i = Place(g, n) /\ write_regs[i] = Value(g)
          \/ i = 11 /\ write_regs[i] = Number("CRTC", BlankRegister)
          \/ i = 13 /\ write_regs[i] = Number("CRTC", LockRegister)
          \/ i \in {12, 14} /\ write_regs[i] = Same
          \/ \E n \in Indices("AC") :
                \/ i = Place("AC", n) - 2 /\ write_regs[i] = Status
                \/ i = Place("AC", n) - 1 /\ write_regs[i] = Number("AC", n)
                \/ i = Place("AC", n) /\ write_regs[i] = Value("AC")
          \/ i = Accesses - 1 /\ write_regs[i] = Status
          \/ i = Accesses /\ write_regs[i] = Number("AC", 32)
<1> DEFINE a == Both("SEQ")
           b == Unlock
           c == Both("CRTC")
           d == Both("GC")
           e == Attributes
           f == <<Status, Number("AC", 32)>>
           C == CrtRegisters
<1>1. /\ IsAccesses(a, 10) /\ IsAccesses(c, 2 * C) /\ IsAccesses(d, 18) /\ IsAccesses(e, 63)
      /\ C \in Nat
  <2>1. /\ IsAccesses(Both("SEQ"), 2 * Count["SEQ"]) /\ IsAccesses(Both("CRTC"), 2 * Count["CRTC"])
        /\ IsAccesses(Both("GC"), 2 * Count["GC"])
    BY BothAre, Groups4
  <2>2. 2 * Count["SEQ"] = 10 /\ 2 * Count["CRTC"] = 2 * C /\ 2 * Count["GC"] = 18
    BY Groups4
  <2> QED  BY <2>1, <2>2, Groups4, AttributesAre
<1>2. IsAccesses(b, 4)
  <2>1. /\ Number("CRTC", BlankRegister) \in AllAccesses
        /\ Number("CRTC", LockRegister) \in AllAccesses /\ Same \in AllAccesses
    BY Groups4 DEF AllAccesses, BlankRegister, LockRegister
  <2>2. b = <<Number("CRTC", BlankRegister), Same, Number("CRTC", LockRegister), Same>>
    BY DEF Unlock, Same
  <2> HIDE DEF AllAccesses
  <2> QED  BY <2>1, <2>2 DEF IsAccesses
<1>3. b[1] = Number("CRTC", BlankRegister) /\ b[2] = Same /\ b[3] = Number("CRTC", LockRegister) /\ b[4] = Same
  BY DEF Unlock, Same
<1>4. IsAccesses(f, 2) /\ f[1] = Status /\ f[2] = Number("AC", 32)
  <2>1. Status \in AllAccesses /\ Number("AC", 32) \in AllAccesses
    BY Groups4 DEF AllAccesses
  <2> HIDE DEF AllAccesses
  <2> QED  BY <2>1 DEF IsAccesses
<1>5. write_regs = a \o b \o c \o d \o e \o f
  BY DEF write_regs
<1> HIDE DEF a, b, c, d, e, f, C
<1>6. PICK ab : ab = Joined(a, b)
  OBVIOUS
<1>7. PICK abc : abc = Joined(ab, c)
  OBVIOUS
<1>8. PICK abcd : abcd = Joined(abc, d)
  OBVIOUS
<1>9. PICK rest : rest = Joined(abcd, e)
  OBVIOUS
<1>10. /\ IsAccesses(ab, 14)
       /\ \A i \in 1..10 : ab[i] = a[i]
       /\ \A i \in 1..4 : ab[10 + i] = b[i]
  <2>1. /\ IsAccesses(Joined(a, b), 10 + 4)
        /\ \A i \in 1..10 : Joined(a, b)[i] = a[i]
        /\ \A i \in 1..4 : Joined(a, b)[10 + i] = b[i]
    BY <1>1, <1>2, Behind
  <2>2. 10 + 4 = 14
    BY <1>1
  <2> QED  BY <2>1, <2>2, <1>6
<1>11. /\ IsAccesses(abc, 14 + 2 * C)
       /\ \A i \in 1..14 : abc[i] = ab[i]
       /\ \A i \in 1..(2 * C) : abc[14 + i] = c[i]
  <2>1. /\ IsAccesses(Joined(ab, c), 14 + (2 * C))
        /\ \A i \in 1..14 : Joined(ab, c)[i] = ab[i]
        /\ \A i \in 1..(2 * C) : Joined(ab, c)[14 + i] = c[i]
    BY <1>1, <1>10, Behind
  <2>2. 14 + (2 * C) = 14 + 2 * C
    BY <1>1
  <2> QED  BY <2>1, <2>2, <1>7
<1>12. /\ IsAccesses(abcd, 32 + 2 * C)
       /\ \A i \in 1..(14 + 2 * C) : abcd[i] = abc[i]
       /\ \A i \in 1..18 : abcd[14 + 2 * C + i] = d[i]
  <2>1. /\ IsAccesses(Joined(abc, d), (14 + 2 * C) + 18)
        /\ \A i \in 1..(14 + 2 * C) : Joined(abc, d)[i] = abc[i]
        /\ \A i \in 1..18 : Joined(abc, d)[(14 + 2 * C) + i] = d[i]
    BY <1>1, <1>11, Behind
  <2>2. (14 + 2 * C) + 18 = 32 + 2 * C
    BY <1>1
  <2> QED  BY <2>1, <2>2, <1>8
<1>13. /\ IsAccesses(rest, 95 + 2 * C)
       /\ \A i \in 1..(32 + 2 * C) : rest[i] = abcd[i]
       /\ \A i \in 1..63 : rest[32 + 2 * C + i] = e[i]
  <2>1. /\ IsAccesses(Joined(abcd, e), (32 + 2 * C) + 63)
        /\ \A i \in 1..(32 + 2 * C) : Joined(abcd, e)[i] = abcd[i]
        /\ \A i \in 1..63 : Joined(abcd, e)[(32 + 2 * C) + i] = e[i]
    BY <1>1, <1>12, Behind
  <2>2. (32 + 2 * C) + 63 = 95 + 2 * C
    BY <1>1
  <2> QED  BY <2>1, <2>2, <1>9
<1>14. write_regs = Joined(rest, f)
  BY <1>5, <1>6, <1>7, <1>8, <1>9 DEF Joined
<1>15. /\ IsAccesses(write_regs, 97 + 2 * C)
       /\ \A i \in 1..(95 + 2 * C) : write_regs[i] = rest[i]
       /\ \A i \in 1..2 : write_regs[95 + 2 * C + i] = f[i]
  <2>1. /\ IsAccesses(Joined(rest, f), (95 + 2 * C) + 2)
        /\ \A i \in 1..(95 + 2 * C) : Joined(rest, f)[i] = rest[i]
        /\ \A i \in 1..2 : Joined(rest, f)[(95 + 2 * C) + i] = f[i]
    BY <1>1, <1>4, <1>13, Behind
  <2>2. (95 + 2 * C) + 2 = 97 + 2 * C
    BY <1>1
  <2> QED  BY <2>1, <2>2, <1>14
<1>16. ASSUME NEW i \in 1..10
       PROVE  \E n \in Indices("SEQ") :
              \/ i = Place("SEQ", n) - 1 /\ write_regs[i] = Number("SEQ", n)
              \/ i = Place("SEQ", n) /\ write_regs[i] = Value("SEQ")
  <2>1. write_regs[i] = a[i]
    BY <1>1, <1>10, <1>11, <1>12, <1>13, <1>15
  <2>2. PICK n \in Indices("SEQ") :
              \/ i = 2 * n + 1 /\ a[i] = Number("SEQ", n)
              \/ i = 2 * n + 2 /\ a[i] = Value("SEQ")
    <3>1. 2 * Count["SEQ"] = 10 /\ "SEQ" \in Groups
      BY Groups4 DEF C
    <3>2. Pair("SEQ", i, a[i])
      BY <3>1, BothAre DEF a
    <3> QED  BY <3>2 DEF Pair
  <2>3. Place("SEQ", n) = 2 * n + 2 /\ n \in Int
    BY Groups4 DEF Place, Indices
  <2> QED  BY <2>1, <2>2, <2>3
<1>17. ASSUME NEW j \in 1..(2 * C), NEW i, i = 14 + j
       PROVE  \E n \in Indices("CRTC") :
              \/ i = Place("CRTC", n) - 1 /\ write_regs[i] = Number("CRTC", n)
              \/ i = Place("CRTC", n) /\ write_regs[i] = Value("CRTC")
  <2>1. write_regs[i] = c[j]
    BY <1>1, <1>11, <1>12, <1>13, <1>15, <1>17
  <2>2. PICK n \in Indices("CRTC") :
              \/ j = 2 * n + 1 /\ c[j] = Number("CRTC", n)
              \/ j = 2 * n + 2 /\ c[j] = Value("CRTC")
    <3>1. 2 * Count["CRTC"] = 2 * C /\ "CRTC" \in Groups
      BY Groups4 DEF C
    <3>2. Pair("CRTC", j, c[j])
      BY <3>1, BothAre DEF c
    <3> QED  BY <3>2 DEF Pair
  <2>3. Place("CRTC", n) = 14 + 2 * n + 2 /\ n \in Int
    BY Groups4 DEF Place, Indices
  <2> QED  BY <1>17, <2>1, <2>2, <2>3
<1>18. ASSUME NEW j \in 1..18, NEW i, i = 14 + 2 * C + j
       PROVE  \E n \in Indices("GC") :
              \/ i = Place("GC", n) - 1 /\ write_regs[i] = Number("GC", n)
              \/ i = Place("GC", n) /\ write_regs[i] = Value("GC")
  <2>1. write_regs[i] = d[j]
    BY <1>1, <1>12, <1>13, <1>15, <1>18
  <2>2. PICK n \in Indices("GC") :
              \/ j = 2 * n + 1 /\ d[j] = Number("GC", n)
              \/ j = 2 * n + 2 /\ d[j] = Value("GC")
    <3>1. 2 * Count["GC"] = 18 /\ "GC" \in Groups
      BY Groups4 DEF C
    <3>2. Pair("GC", j, d[j])
      BY <3>1, BothAre DEF d
    <3> QED  BY <3>2 DEF Pair
  <2>3. Place("GC", n) = 14 + 2 * C + 2 * n + 2 /\ n \in Int
    BY Groups4 DEF Place, Indices, C
  <2> QED  BY <1>1, <1>18, <2>1, <2>2, <2>3
<1>19. ASSUME NEW j \in 1..63, NEW i, i = 32 + 2 * C + j
       PROVE  \E n \in Indices("AC") :
                \/ i = Place("AC", n) - 2 /\ write_regs[i] = Status
                \/ i = Place("AC", n) - 1 /\ write_regs[i] = Number("AC", n)
                \/ i = Place("AC", n) /\ write_regs[i] = Value("AC")
  <2>1. write_regs[i] = e[j]
    BY <1>1, <1>13, <1>15, <1>19
  <2>2. PICK n \in Indices("AC") :
              \/ j = 3 * n + 1 /\ e[j] = Status
              \/ j = 3 * n + 2 /\ e[j] = Number("AC", n)
              \/ j = 3 * n + 3 /\ e[j] = Value("AC")
    BY AttributesAre DEF e, Triple
  <2>3. Place("AC", n) = 32 + 2 * C + 3 * n + 3 /\ n \in Int
    BY Groups4 DEF Place, Indices, C
  <2> QED  BY <1>1, <1>19, <2>1, <2>2, <2>3
<1>20. ASSUME NEW j \in 1..4 PROVE write_regs[10 + j] = b[j]
  <2>1. ab[10 + j] = b[j] /\ abc[10 + j] = ab[10 + j]
    BY <1>10, <1>11
  <2>2. /\ 10 + j \in 1..(14 + 2 * C) /\ 10 + j \in 1..(32 + 2 * C) /\ 10 + j \in 1..(95 + 2 * C)
    BY <1>1
  <2> QED  BY <1>12, <1>13, <1>15, <2>1, <2>2
<1>21. /\ write_regs[11] = b[1] /\ write_regs[12] = b[2]
       /\ write_regs[13] = b[3] /\ write_regs[14] = b[4]
  BY <1>20
<1>22. write_regs[96 + 2 * C] = f[1] /\ write_regs[97 + 2 * C] = f[2]
  <2>1. 95 + 2 * C + 1 = 96 + 2 * C /\ 95 + 2 * C + 2 = 97 + 2 * C
    BY <1>1
  <2> QED  BY <1>15, <2>1
<1>23. Accesses = 97 + 2 * C
  BY DEF Accesses, C
<1>24. ASSUME NEW i \in 1..Accesses
       PROVE  \/ i \in 1..10 \/ i \in {11, 12, 13, 14}
              \/ \E j \in 1..(2 * C) : i = 14 + j
              \/ \E j \in 1..18 : i = 14 + 2 * C + j
              \/ \E j \in 1..63 : i = 32 + 2 * C + j
              \/ i = 96 + 2 * C \/ i = 97 + 2 * C
  <2>1. i \in Int /\ C \in Nat
    BY <1>1
  <2>2. CASE i \in 15..(14 + 2 * C)
    <3>1. i - 14 \in 1..(2 * C) /\ i = 14 + (i - 14)
      BY <2>1, <2>2
    <3> QED  BY <3>1
  <2>3. CASE i \in (15 + 2 * C)..(32 + 2 * C)
    <3>1. i - 14 - 2 * C \in 1..18 /\ i = 14 + 2 * C + (i - 14 - 2 * C)
      BY <2>1, <2>3
    <3> QED  BY <3>1
  <2>4. CASE i \in (33 + 2 * C)..(95 + 2 * C)
    <3>1. i - 32 - 2 * C \in 1..63 /\ i = 32 + 2 * C + (i - 32 - 2 * C)
      BY <2>1, <2>4
    <3> QED  BY <3>1
  <2> QED  BY <1>23, <2>1, <2>2, <2>3, <2>4
<1>25. Accesses - 1 = 96 + 2 * C
  BY <1>1, <1>23
<1> QED
  <2>1. Len(write_regs) = Accesses
    BY <1>15, <1>23 DEF IsAccesses
  <2> SUFFICES ASSUME NEW i \in 1..Accesses
               PROVE
          \/ \E g \in {"SEQ", "CRTC", "GC"} : \E n \in Indices(g) :
                \/ i = Place(g, n) - 1 /\ write_regs[i] = Number(g, n)
                \/ i = Place(g, n) /\ write_regs[i] = Value(g)
          \/ i = 11 /\ write_regs[i] = Number("CRTC", BlankRegister)
          \/ i = 13 /\ write_regs[i] = Number("CRTC", LockRegister)
          \/ i \in {12, 14} /\ write_regs[i] = Same
          \/ \E n \in Indices("AC") :
                \/ i = Place("AC", n) - 2 /\ write_regs[i] = Status
                \/ i = Place("AC", n) - 1 /\ write_regs[i] = Number("AC", n)
                \/ i = Place("AC", n) /\ write_regs[i] = Value("AC")
          \/ i = Accesses - 1 /\ write_regs[i] = Status
          \/ i = Accesses /\ write_regs[i] = Number("AC", 32)
    BY <2>1
  <2>2. CASE i \in 1..10
    BY <1>16, <2>2
  <2>3. CASE i \in {11, 12, 13, 14}
    BY <1>3, <1>21, <2>3
  <2>4. CASE \E j \in 1..(2 * C) : i = 14 + j
    BY <1>17, <2>4
  <2>5. CASE \E j \in 1..18 : i = 14 + 2 * C + j
    BY <1>18, <2>5
  <2>6. CASE \E j \in 1..63 : i = 32 + 2 * C + j
    BY <1>19, <2>6
  <2>7. CASE i = 96 + 2 * C
    BY <1>4, <1>22, <1>25, <2>7
  <2>8. CASE i = 97 + 2 * C
    BY <1>4, <1>22, <1>23, <2>8
  <2> QED  BY <1>24, <2>2, <2>3, <2>4, <2>5, <2>6, <2>7, <2>8

(* What the ports do with each kind of access.                             *)
LEMMA AccessDoes ==
    ASSUME NEW a, Access(a)
    PROVE  /\ \A g \in {"SEQ", "CRTC", "GC"} : \A n : a = Number(g, n) =>
                 number' = [number EXCEPT ![g] = n] /\ UNCHANGED <<register, locked, next>>
           /\ \A g \in {"SEQ", "CRTC", "GC"} : a = Value(g) =>
                 /\ register' = Written(g, mode) /\ locked' = (locked /\ ~Unlocks(g))
                 /\ UNCHANGED <<number, next>>
           /\ a = Same =>
                 locked' = (locked /\ ~Unlocks("CRTC")) /\ UNCHANGED <<number, next, register>>
           /\ a = Status => next' = "number" /\ UNCHANGED <<register, number, locked>>
           /\ \A n : a = Number("AC", n) /\ next = "number" =>
                 /\ number' = [number EXCEPT !["AC"] = n] /\ next' = "value"
                 /\ UNCHANGED <<register, locked>>
           /\ a = Value("AC") /\ next = "value" =>
                 /\ register' = Written("AC", mode) /\ next' = "number"
                 /\ UNCHANGED <<number, locked>>
<1> USE DEF Access, Number, Value, Same, Status
<1>1. ASSUME NEW g \in {"SEQ", "CRTC", "GC"}, NEW n, a = Number(g, n)
      PROVE  number' = [number EXCEPT ![g] = n] /\ UNCHANGED <<register, locked, next>>
  BY <1>1
<1>2. ASSUME NEW g \in {"SEQ", "CRTC", "GC"}, a = Value(g)
      PROVE  /\ register' = Written(g, mode) /\ locked' = (locked /\ ~Unlocks(g))
             /\ UNCHANGED <<number, next>>
  BY <1>2
<1>3. ASSUME a = Same
      PROVE  locked' = (locked /\ ~Unlocks("CRTC")) /\ UNCHANGED <<number, next, register>>
  BY <1>3
<1>4. ASSUME a = Status
      PROVE  next' = "number" /\ UNCHANGED <<register, number, locked>>
  BY <1>4
<1>5. ASSUME NEW n, a = Number("AC", n), next = "number"
      PROVE  /\ number' = [number EXCEPT !["AC"] = n] /\ next' = "value"
             /\ UNCHANGED <<register, locked>>
  BY <1>5
<1>6. ASSUME a = Value("AC"), next = "value"
      PROVE  /\ register' = Written("AC", mode) /\ next' = "number"
             /\ UNCHANGED <<number, locked>>
  BY <1>6
<1> QED
  BY <1>1, <1>2, <1>3, <1>4, <1>5, <1>6

(* A value reaches the register chosen, unless the lock keeps it out.      *)
LEMMA Writes ==
    ASSUME Registers(register), NEW g \in Groups, NEW value, register' = Written(g, value)
    PROVE  /\ Registers(register)'
           /\ \A h \in Groups : \A n \in Indices(h) :
                 register'[h][n] = IF h = g /\ n = number[g] /\ (g = "CRTC" => Takes(n))
                                   THEN value ELSE register[h][n]
<1>1. \A h \in Groups : DOMAIN register[h] = Indices(h)
  BY DEF Registers
<1>2. CASE number[g] \in DOMAIN register[g] /\ (g = "CRTC" => Takes(number[g]))
  <2>1. register' = [register EXCEPT ![g] = [register[g] EXCEPT ![number[g]] = value]]
    BY <1>2 DEF Written
  <2>2. DOMAIN register = Groups
    BY DEF Registers
  <2>3. \A h \in Groups : register'[h] = IF h = g THEN [register[g] EXCEPT ![number[g]] = value]
                                                  ELSE register[h]
    BY <2>1, <2>2
  <2>4. register' = [h \in Groups |-> register'[h]]
    BY <2>1, <2>2
  <2>5. ASSUME NEW h \in Groups PROVE register'[h] = [n \in Indices(h) |-> register'[h][n]]
    <3>1. register[h] = [n \in Indices(h) |-> register[h][n]]
      BY DEF Registers
    <3> QED  BY <1>1, <2>3, <3>1
  <2> QED  BY <1>1, <1>2, <2>3, <2>4, <2>5 DEF Registers
<1>3. CASE ~(number[g] \in DOMAIN register[g] /\ (g = "CRTC" => Takes(number[g])))
  <2>1. register' = register
    BY <1>3 DEF Written
  <2> QED  BY <1>1, <1>3, <2>1 DEF Registers
<1> QED
  BY <1>2, <1>3

(* The places in numbers.                                                  *)
LEMMA PlacesAre ==
    /\ \A n \in Indices("SEQ")  : n \in 0..4  /\ Place("SEQ", n) = 2 * n + 2
    /\ \A n \in Indices("CRTC") : n \in 0..(CrtRegisters - 1) /\ Place("CRTC", n) = 2 * n + 16
    /\ \A n \in Indices("GC")   : n \in 0..8  /\ Place("GC", n) = 2 * CrtRegisters + 2 * n + 16
    /\ \A n \in Indices("AC")   : n \in 0..20 /\ Place("AC", n) = 2 * CrtRegisters + 3 * n + 35
BY Groups4 DEF Indices, Place

(* A step that leaves the next access what it needs.                       *)
LEMMA SettingGoesOn ==
    ASSUME PortTypes, Setting, k < Accesses, k' = k + 1, UNCHANGED mode,
           next' \in {"number", "value"}, Registers(register)', number' = [g \in Groups |-> number'[g]],
           \A g \in Groups : \A n \in Indices(g) :
               register'[g][n] = mode \/ (Place(g, n) # k /\ register'[g][n] = register[g][n]),
           \A g \in Groups : \A n \in Indices(g) : Place(g, n) = k + 1 => number'[g] = n,
           \A n \in Indices("AC") :
               /\ Place("AC", n) = k + 1 => next' = "value"
               /\ Place("AC", n) = k + 2 => next' = "number",
           k = 13 => number'["CRTC"] = LockRegister,
           k >= 14 => ~locked',
           k + 1 = Accesses => next' = "number"
    PROVE  PortTypes' /\ Setting'
<1>1. PortTypes'
  BY DEF PortTypes
<1>2. k \in Int /\ Accesses \in Int /\ k' \in 1..Accesses
  BY Groups4 DEF Setting, Accesses
<1>3. \A g \in Groups : \A n \in Indices(g) : Place(g, n) \in Int
  BY PlacesAre, Groups4
<1>4. ASSUME NEW g \in Groups, NEW n \in Indices(g), Place(g, n) < k' PROVE register'[g][n] = mode'
  <2>1. Place(g, n) = k \/ Place(g, n) < k
    BY <1>2, <1>3, <1>4
  <2> QED  BY <2>1 DEF Setting
<1>5. ASSUME NEW n \in Indices("AC"), Place("AC", n) = k' + 1 PROVE next' = "number"
  <2>1. Place("AC", n) = k + 2
    BY <1>2, <1>5
  <2> QED  BY <2>1
<1>6. k' = 14 => k = 13
  BY <1>2
<1>7. k' > 14 => k >= 14
  BY <1>2
<1> QED
  BY <1>1, <1>2, <1>4, <1>5, <1>6, <1>7 DEF Setting

(* A number for a port that keeps numbers and values apart: the value that *)
(* comes next is for the register chosen.                                  *)
LEMMA NumberStep ==
    ASSUME PortTypes, Setting, Access(write_regs[k]), k' = k + 1, UNCHANGED mode,
           NEW g \in {"SEQ", "CRTC", "GC"}, NEW n \in Indices(g),
           k = Place(g, n) - 1, write_regs[k] = Number(g, n)
    PROVE  k < Accesses /\ PortTypes' /\ Setting'
<1>1. number' = [number EXCEPT ![g] = n] /\ UNCHANGED <<register, locked, next>>
  BY AccessDoes
<1>2. number' = [h \in Groups |-> number'[h]] /\ number'[g] = n
      /\ \A h \in Groups : h # g => number'[h] = number[h]
  BY <1>1, Groups4 DEF PortTypes
<1>3. CrtRegisters \in Nat \ {0} /\ Accesses = 97 + 2 * CrtRegisters /\ k \in Int
  BY Groups4 DEF Accesses, Setting
<1>4. /\ k < Accesses - 1 /\ k # 13 /\ (k >= 14 => k > 14) /\ k + 2 < 2 * CrtRegisters + 35
  BY <1>3, PlacesAre
<1>5. ASSUME NEW h \in Groups, NEW m \in Indices(h)
      PROVE  Place(h, m) # k /\ (Place(h, m) = k + 1 => h = g /\ m = n)
  BY <1>3, <1>5, PlacesAre, Groups4
<1>6. \A h \in Groups : \A m \in Indices(h) :
          register'[h][m] = mode \/ (Place(h, m) # k /\ register'[h][m] = register[h][m])
  BY <1>1, <1>5
<1>7. \A h \in Groups : \A m \in Indices(h) : Place(h, m) = k + 1 => number'[h] = m
  BY <1>2, <1>5
<1>8. \A m \in Indices("AC") : Place("AC", m) # k + 1 /\ Place("AC", m) # k + 2
  BY <1>3, <1>4, PlacesAre
<1>9. k >= 14 => ~locked'
  BY <1>1, <1>4 DEF Setting
<1>10. Registers(register)' /\ next' \in {"number", "value"}
  BY <1>1 DEF PortTypes, Registers
<1>11. k < Accesses /\ k + 1 # Accesses
  BY <1>3, <1>4
<1> QED
  BY <1>2, <1>4, <1>6, <1>7, <1>8, <1>9, <1>10, <1>11, SettingGoesOn

(* Its value.                                                              *)
LEMMA ValueStep ==
    ASSUME PortTypes, Setting, Access(write_regs[k]), k' = k + 1, UNCHANGED mode,
           NEW g \in {"SEQ", "CRTC", "GC"}, NEW n \in Indices(g),
           k = Place(g, n), write_regs[k] = Value(g)
    PROVE  k < Accesses /\ PortTypes' /\ Setting'
<1>1. /\ register' = Written(g, mode) /\ locked' = (locked /\ ~Unlocks(g))
      /\ UNCHANGED <<number, next>>
  BY AccessDoes
<1>2. CrtRegisters \in Nat \ {0} /\ Accesses = 97 + 2 * CrtRegisters /\ k \in Int
  BY Groups4 DEF Accesses, Setting
<1>3. /\ k < Accesses - 1 /\ k # 13 /\ (k >= 14 => k > 14) /\ (g = "CRTC" => k > 14)
      /\ k + 2 < 2 * CrtRegisters + 35
  BY <1>2, PlacesAre
<1>4. g \in Groups /\ number[g] = n
  BY Groups4 DEF Setting
<1>5. g = "CRTC" => Takes(n)
  BY <1>3 DEF Takes, Setting
<1>6. /\ Registers(register)'
      /\ \A h \in Groups : \A m \in Indices(h) :
            register'[h][m] = IF h = g /\ m = number[g] /\ (g = "CRTC" => Takes(m))
                              THEN mode ELSE register[h][m]
  BY <1>1, <1>4, Writes DEF PortTypes
<1>7. ASSUME NEW h \in Groups, NEW m \in Indices(h)
      PROVE  (Place(h, m) = k => h = g /\ m = n) /\ Place(h, m) # k + 1
  BY <1>2, <1>7, PlacesAre, Groups4
<1>8. \A h \in Groups : \A m \in Indices(h) :
          register'[h][m] = mode \/ (Place(h, m) # k /\ register'[h][m] = register[h][m])
  BY <1>4, <1>5, <1>6, <1>7
<1>9. \A m \in Indices("AC") : Place("AC", m) # k + 1 /\ Place("AC", m) # k + 2
  BY <1>2, <1>3, PlacesAre
<1>10. k >= 14 => ~locked'
  BY <1>1, <1>3 DEF Setting
<1>11. number' = [h \in Groups |-> number'[h]] /\ next' \in {"number", "value"}
  BY <1>1 DEF PortTypes
<1>12. k < Accesses /\ k + 1 # Accesses
  BY <1>2, <1>3
<1> QED
  BY <1>3, <1>6, <1>7, <1>8, <1>9, <1>10, <1>11, <1>12, SettingGoesOn

(* The four accesses that unlock the CRT controller.                       *)
LEMMA UnlockStep ==
    ASSUME PortTypes, Setting, Access(write_regs[k]), k' = k + 1, UNCHANGED mode,
           \/ k = 11 /\ write_regs[k] = Number("CRTC", BlankRegister)
           \/ k = 13 /\ write_regs[k] = Number("CRTC", LockRegister)
           \/ k \in {12, 14} /\ write_regs[k] = Same
    PROVE  k < Accesses /\ PortTypes' /\ Setting'
<1>1. CrtRegisters \in Nat \ {0} /\ Accesses = 97 + 2 * CrtRegisters /\ k \in 11..14
  BY Groups4 DEF Accesses, Setting
<1>2. ASSUME NEW h \in Groups, NEW m \in Indices(h)
      PROVE  Place(h, m) # k /\ Place(h, m) # k + 1
  BY <1>1, <1>2, PlacesAre, Groups4
<1>3. \A m \in Indices("AC") : Place("AC", m) # k + 1 /\ Place("AC", m) # k + 2
  BY <1>1, PlacesAre
<1>4. k < Accesses /\ k + 1 # Accesses
  BY <1>1
<1>5. ASSUME k \in {11, 13}
      PROVE  /\ UNCHANGED <<register, locked, next>>
             /\ number' = [h \in Groups |-> number'[h]]
             /\ k = 13 => number'["CRTC"] = LockRegister
  <2>1. PICK n : write_regs[k] = Number("CRTC", n) /\ (k = 13 => n = LockRegister)
    BY <1>5
  <2>2. number' = [number EXCEPT !["CRTC"] = n] /\ UNCHANGED <<register, locked, next>>
    BY <2>1, AccessDoes
  <2> QED  BY <2>1, <2>2, Groups4 DEF PortTypes
<1>6. ASSUME k \in {12, 14}
      PROVE  UNCHANGED <<register, number, next>> /\ (k = 14 => ~locked')
  <2>1. write_regs[k] = Same
    BY <1>6
  <2>2. locked' = (locked /\ ~Unlocks("CRTC")) /\ UNCHANGED <<number, next, register>>
    BY <2>1, AccessDoes
  <2>3. k = 14 => Unlocks("CRTC")
    BY DEF Setting, Unlocks
  <2> QED  BY <2>2, <2>3
<1>7. /\ UNCHANGED <<register, next>> /\ number' = [h \in Groups |-> number'[h]]
      /\ k = 13 => number'["CRTC"] = LockRegister
      /\ k >= 14 => ~locked'
  <2>1. k \in {11, 13} \/ k \in {12, 14}
    BY <1>1
  <2> QED  BY <1>1, <1>5, <1>6, <2>1 DEF PortTypes
<1>8. Registers(register)' /\ next' \in {"number", "value"}
  BY <1>7 DEF PortTypes, Registers
<1> QED
  BY <1>2, <1>3, <1>4, <1>7, <1>8, SettingGoesOn

(* The attribute controller's port takes a number after its status is      *)
(* read, then a value.                                                     *)
LEMMA AttributeStep ==
    ASSUME PortTypes, Setting, Access(write_regs[k]), k' = k + 1, UNCHANGED mode,
           NEW n \in Indices("AC"),
           \/ k = Place("AC", n) - 2 /\ write_regs[k] = Status
           \/ k = Place("AC", n) - 1 /\ write_regs[k] = Number("AC", n)
           \/ k = Place("AC", n) /\ write_regs[k] = Value("AC")
    PROVE  k < Accesses /\ PortTypes' /\ Setting'
<1>1. /\ CrtRegisters \in Nat \ {0} /\ Accesses = 97 + 2 * CrtRegisters /\ k \in Int
      /\ n \in 0..20 /\ Place("AC", n) = 2 * CrtRegisters + 3 * n + 35
  BY Groups4, PlacesAre DEF Accesses, Setting
<1>2. k < Accesses /\ k + 1 # Accesses /\ k > 14
  BY <1>1
<1>3. ASSUME NEW h \in Groups, NEW m \in Indices(h), Place(h, m) \in {k, k + 1}
      PROVE  h = "AC"
  BY <1>1, <1>3, PlacesAre, Groups4
<1>4. ASSUME NEW m \in Indices("AC")
      PROVE  /\ k = Place("AC", n) - 2 => Place("AC", m) # k /\ Place("AC", m) # k + 1
             /\ k = Place("AC", n) - 1 =>
                   Place("AC", m) # k /\ (Place("AC", m) = k + 1 => m = n) /\ Place("AC", m) # k + 2
             /\ k = Place("AC", n) => (Place("AC", m) = k => m = n) /\ Place("AC", m) # k + 1
  <2>1. m \in Int /\ Place("AC", m) = 2 * CrtRegisters + 3 * m + 35
    BY PlacesAre
  <2> QED  BY <1>1, <2>1
<1>5. ~locked
  BY <1>2 DEF Setting
<1>6. CASE k = Place("AC", n) - 2 /\ write_regs[k] = Status
  <2>1. next' = "number" /\ UNCHANGED <<register, number, locked>>
    BY <1>6, AccessDoes
  <2>2. Registers(register)' /\ number' = [h \in Groups |-> number'[h]]
    BY <2>1 DEF PortTypes, Registers
  <2>3. \A h \in Groups : \A m \in Indices(h) : Place(h, m) # k /\ Place(h, m) # k + 1
    BY <1>3, <1>4, <1>6
  <2>4. k # 13
    BY <1>2
  <2> QED  BY <1>2, <1>4, <1>5, <1>6, <2>1, <2>2, <2>3, <2>4, SettingGoesOn
<1>7. CASE k = Place("AC", n) - 1 /\ write_regs[k] = Number("AC", n)
  <2>1. next = "number"
    <3>1. Place("AC", n) = k + 1
      BY <1>1, <1>7
    <3> QED  BY <3>1 DEF Setting
  <2>2. /\ number' = [number EXCEPT !["AC"] = n] /\ next' = "value"
        /\ UNCHANGED <<register, locked>>
    BY <1>7, <2>1, AccessDoes
  <2>3. Registers(register)' /\ number' = [h \in Groups |-> number'[h]] /\ number'["AC"] = n
    BY <2>2, Groups4 DEF PortTypes, Registers
  <2>4. \A h \in Groups : \A m \in Indices(h) : Place(h, m) # k
    BY <1>3, <1>4, <1>7
  <2>5. \A h \in Groups : \A m \in Indices(h) : Place(h, m) = k + 1 => number'[h] = m
    BY <1>3, <1>4, <1>7, <2>3
  <2>6. \A m \in Indices("AC") : Place("AC", m) # k + 2
    BY <1>4, <1>7
  <2>7. k # 13
    BY <1>2
  <2> QED  BY <1>2, <1>5, <2>2, <2>3, <2>4, <2>5, <2>6, <2>7, SettingGoesOn
<1>8. CASE k = Place("AC", n) /\ write_regs[k] = Value("AC")
  <2>1. next = "value" /\ number["AC"] = n
    BY <1>8, Groups4 DEF Setting
  <2>2. /\ register' = Written("AC", mode) /\ next' = "number"
        /\ UNCHANGED <<number, locked>>
    BY <1>8, <2>1, AccessDoes
  <2>3. /\ Registers(register)'
        /\ \A h \in Groups : \A m \in Indices(h) :
              register'[h][m] = IF h = "AC" /\ m = n THEN mode ELSE register[h][m]
    BY <2>1, <2>2, Writes, Groups4 DEF PortTypes
  <2>4. \A h \in Groups : \A m \in Indices(h) :
            register'[h][m] = mode \/ (Place(h, m) # k /\ register'[h][m] = register[h][m])
    BY <1>3, <1>4, <1>8, <2>3
  <2>5. \A h \in Groups : \A m \in Indices(h) : Place(h, m) # k + 1
    BY <1>3, <1>4, <1>8
  <2>6. number' = [h \in Groups |-> number'[h]]
    BY <2>2 DEF PortTypes
  <2>7. k # 13
    BY <1>2
  <2> QED  BY <1>2, <1>5, <2>2, <2>3, <2>4, <2>5, <2>6, <2>7, Groups4, SettingGoesOn
<1> QED
  BY <1>6, <1>7, <1>8

(* The last access but one is a status again, ...                          *)
LEMMA StatusStep ==
    ASSUME PortTypes, Setting, Access(write_regs[k]), k' = k + 1, UNCHANGED mode,
           k = Accesses - 1, write_regs[k] = Status
    PROVE  k < Accesses /\ PortTypes' /\ Setting'
<1>1. CrtRegisters \in Nat \ {0} /\ Accesses = 97 + 2 * CrtRegisters /\ k \in Int
  BY Groups4 DEF Accesses, Setting
<1>2. next' = "number" /\ UNCHANGED <<register, number, locked>>
  BY AccessDoes
<1>3. ASSUME NEW h \in Groups, NEW m \in Indices(h)
      PROVE  Place(h, m) # k /\ Place(h, m) # k + 1
  BY <1>1, <1>3, PlacesAre, Groups4
<1>4. k < Accesses /\ k # 13 /\ k > 14
  BY <1>1
<1>5. ~locked'
  BY <1>2, <1>4 DEF Setting
<1>6. Registers(register)' /\ number' = [h \in Groups |-> number'[h]]
  BY <1>2 DEF PortTypes, Registers
<1> QED
  BY <1>2, <1>3, <1>4, <1>5, <1>6, Groups4, SettingGoesOn

(* ... and the last one switches the display on.                           *)
LEMMA LastStep ==
    ASSUME PortTypes, Setting, Access(write_regs[k]), misc = mode, UNCHANGED <<mode, misc>>,
           k = Accesses, write_regs[k] = Number("AC", 32)
    PROVE  PortTypes' /\ ModeIsSet'
<1>1. CrtRegisters \in Nat \ {0} /\ Accesses = 97 + 2 * CrtRegisters
  BY Groups4 DEF Accesses
<1>2. next = "number" /\ ~locked
  <2>1. k > 14
    BY <1>1
  <2> QED  BY <2>1 DEF Setting
<1>3. /\ number' = [number EXCEPT !["AC"] = 32] /\ next' = "value"
      /\ UNCHANGED <<register, locked>>
  BY <1>2, AccessDoes
<1>4. PortTypes' /\ number'["AC"] = 32
  BY <1>3, Groups4 DEF PortTypes, Registers
<1>5. ASSUME NEW h \in Groups, NEW m \in Indices(h) PROVE register[h][m] = mode
  <2>1. Place(h, m) < k
    BY <1>1, <1>5, PlacesAre, Groups4
  <2> QED  BY <2>1 DEF Setting
<1>6. \A h \in Groups : DOMAIN register[h] = Indices(h)
  BY DEF PortTypes, Registers
<1> QED
  BY <1>2, <1>3, <1>4, <1>5, <1>6 DEF ModeIsSet

(* Every step of the graphics keeps the invariant.                         *)
LEMMA ModeStep ==
    ASSUME ModeInv, [Next]_vars
    PROVE  ModeInv'
<1>1. ASSUME UNCHANGED <<mode, hardware>>,
             at \notin {"off", "set"} \/ at' \in {"off", "set"}, at' = "set" => at = "set" /\ k' = k
      PROVE  ModeInv'
  <2>1. UNCHANGED <<mode, misc, register, number, next, locked>>
    BY <1>1 DEF hardware
  <2>2. PortTypes'
    BY <2>1 DEF ModeInv, PortTypes, Registers
  <2>3. at' = "set" => k' = 0 \/ (misc' = mode' /\ Setting')
    BY <1>1, <2>1 DEF ModeInv, Setting
  <2>4. ModeIsSet'
    BY <1>1, <2>1 DEF ModeInv, ModeIsSet
  <2> QED  BY <2>2, <2>3, <2>4 DEF ModeInv
<1>2. CASE vga_Start
  <2>1. at' = "set" /\ k' = 0 /\ UNCHANGED <<register, number, next, locked>>
    BY <1>2 DEF vga_Start, hardware
  <2>2. PortTypes' /\ ModeIsSet'
    BY <2>1 DEF ModeInv, PortTypes, Registers, ModeIsSet
  <2> QED  BY <2>1, <2>2 DEF ModeInv
<1>2a. CASE SetMisc
  <2>1. at' = "set" /\ k' = 1 /\ misc' = mode' /\ UNCHANGED <<register, number, next, locked>>
    BY <1>2a DEF SetMisc
  <2>2. PortTypes' /\ ModeIsSet'
    BY <2>1 DEF ModeInv, PortTypes, Registers, ModeIsSet
  <2>3. CrtRegisters \in Nat \ {0} /\ Accesses = 97 + 2 * CrtRegisters
    BY Groups4 DEF Accesses
  <2>4. \A g \in Groups : \A n \in Indices(g) : ~(Place(g, n) < 1) /\ Place(g, n) # 1
    BY <2>3, PlacesAre, Groups4
  <2>5. \A n \in Indices("AC") : Place("AC", n) # 2
    BY <2>3, PlacesAre
  <2>6. Setting'
    BY <2>1, <2>3, <2>4, <2>5, Groups4 DEF Setting
  <2> QED  BY <2>1, <2>2, <2>6 DEF ModeInv
<1>3. CASE SetRegister
  <2>0. k # 0 /\ UNCHANGED misc
    BY <1>3 DEF SetRegister
  <2>1. /\ at = "set" /\ Access(write_regs[k]) /\ k' = k + 1 /\ UNCHANGED mode
        /\ at' = IF k = Accesses THEN "idle" ELSE "set"
    BY <1>3, AccessIs DEF SetRegister
  <2>2. PortTypes /\ misc = mode /\ Setting /\ k \in 1..Accesses
    BY <2>0, <2>1 DEF ModeInv, Setting
  <2>3. ASSUME k < Accesses, PortTypes', Setting' PROVE ModeInv'
    <3>1. at' = "set"
      <4>1. k # Accesses
        BY <2>2, <2>3, Groups4 DEF Accesses
      <4> QED  BY <2>1, <4>1
    <3> QED  BY <2>0, <2>1, <2>2, <2>3, <3>1 DEF ModeInv, ModeIsSet
  <2>4. CASE \E g \in {"SEQ", "CRTC", "GC"} : \E n \in Indices(g) :
                \/ k = Place(g, n) - 1 /\ write_regs[k] = Number(g, n)
                \/ k = Place(g, n) /\ write_regs[k] = Value(g)
    BY <2>1, <2>2, <2>3, <2>4, NumberStep, ValueStep
  <2>5. CASE \/ k = 11 /\ write_regs[k] = Number("CRTC", BlankRegister)
             \/ k = 13 /\ write_regs[k] = Number("CRTC", LockRegister)
             \/ k \in {12, 14} /\ write_regs[k] = Same
    BY <2>1, <2>2, <2>3, <2>5, UnlockStep
  <2>6. CASE \E n \in Indices("AC") :
                \/ k = Place("AC", n) - 2 /\ write_regs[k] = Status
                \/ k = Place("AC", n) - 1 /\ write_regs[k] = Number("AC", n)
                \/ k = Place("AC", n) /\ write_regs[k] = Value("AC")
    BY <2>1, <2>2, <2>3, <2>6, AttributeStep
  <2>7. CASE k = Accesses - 1 /\ write_regs[k] = Status
    BY <2>1, <2>2, <2>3, <2>7, StatusStep
  <2>8. CASE k = Accesses /\ write_regs[k] = Number("AC", 32)
    <3>1. PortTypes' /\ ModeIsSet'
      BY <2>0, <2>1, <2>2, <2>8, LastStep
    <3>2. at' = "idle"
      BY <2>1, <2>8
    <3> QED  BY <3>1, <3>2 DEF ModeInv
  <2> QED  BY <2>2, <2>4, <2>5, <2>6, <2>7, <2>8, AccessIs
<1>4. CASE Draw
  <2>1. at = "idle" /\ UNCHANGED <<mode, hardware>>
    BY <1>4 DEF Draw, RestUnchanged
  <2>2. \A a, b : vga_draw_line(a, b) => at' = "line"
    BY DEF vga_draw_line
  <2>3. \A a, b, c : vga_draw_triangle(a, b, c) => at' = "line"
    BY DEF vga_draw_triangle
  <2>4. \A c, r : vga_draw_circle(c, r) => at' \in {"drawn", "circle"}
    BY DEF vga_draw_circle
  <2>5. \A x, y, n : vga_draw_text(x, y, n) => at' = "drawn"
    BY DEF vga_draw_text
  <2>6. at' # "set"
    <3>1. \/ \E a, b \in Points : vga_draw_line(a, b)
          \/ \E a, b, c \in Corners : vga_draw_triangle(a, b, c)
          \/ \E c \in Points, r \in 0..Width : vga_draw_circle(c, r)
          \/ \E c \in Corners, n \in 1..2 : vga_draw_text(c[1], c[2], n)
      BY <1>4, Zenon DEF Draw
    <3>2. at' \in {"line", "drawn", "circle"}
      BY <2>2, <2>3, <2>4, <2>5, <3>1, Zenon
    <3> QED  BY <3>2
  <2> QED  BY <1>1, <2>1, <2>6
<1>5. CASE LinePixel \/ LineDone \/ CirclePixels \/ vga_update_buffer
  BY <1>1, <1>5 DEF LinePixel, LineDone, CirclePixels, vga_update_buffer, RestUnchanged
<1>6. CASE UNCHANGED vars
  BY <1>1, <1>6 DEF vars
<1> QED
  BY <1>2, <1>2a, <1>3, <1>4, <1>5, <1>6 DEF Next

(* Once a mode is set every register holds its value, for any number of    *)
(* registers, however the ports and the lock were left.                    *)
THEOREM ModesAreSet == Spec => []ModeIsSet
<1>1. Init => ModeInv
  <2> SUFFICES ASSUME Init PROVE ModeInv
    OBVIOUS
  <2>1. register = [g \in Groups |-> [n \in 0..(Count[g] - 1) |-> 0]]
    BY DEF Init
  <2>2. Registers(register)
    BY <2>1 DEF Registers, Indices
  <2> QED  BY <2>2 DEF Init, ModeInv, PortTypes, ModeIsSet
<1>2. ModeInv => ModeIsSet
  BY DEF ModeInv
<1>3. ModeInv /\ [Next]_vars => ModeInv'
  BY ModeStep
<1> QED
  BY <1>1, <1>2, <1>3, PTL DEF Spec
=============================================================================
