--------------------------- MODULE DesktopProofs ---------------------------
(***************************************************************************)
(* Proofs about module Desktop, for a text screen and a screen of any      *)
(* size, any number of messages, windows and characters: what the log's    *)
(* scrolling shows, and the letter of the desktop's window.                *)
(***************************************************************************)
EXTENDS Desktop, TLAPS

\* The rows the scrolling has moved up so far
moved == IF at = "scroll" THEN i ELSE IF at \in {"clear", "print"} THEN Bottom ELSE 0

\* The row that has just been copied upwards and is still where it was
hole == IF at = "scroll" THEN i ELSE IF at = "clear" THEN Bottom ELSE 0

\* The log's line that belongs into row r
LineOf(r) == IF Bottom - r < logged THEN logged - (Bottom - r) ELSE 0

TextRow == [line : Nat, char : Nat, margin : Nat]
TextTypes ==
    /\ text \in [0..Bottom -> TextRow]
    /\ logged \in Nat /\ puts \in Nat /\ i \in Nat
    /\ at = "scroll" => i < Bottom

LinesInv ==
    \A r \in 0..Bottom :
        text[r].line = IF r < moved THEN LineOf(r + 1) ELSE IF at = "print" THEN 0 ELSE LineOf(r)

\* A character is in one row, or in the one being copied and the one above it
CharsInv ==
    /\ \A r \in 0..Bottom : text[r].char <= puts
    /\ \A r, s \in 0..Bottom :
          text[r].char = text[s].char /\ text[r].char # NoChar =>
              r = s \/ (s = hole /\ r + 1 = hole) \/ (r = hole /\ s + 1 = hole)

LogInv == TextTypes /\ LinesInv /\ CharsInv

\* Where the letter has come: the window, the double buffer, the screen
Drawn == {"render", "present", "idle"}
LetterInv ==
    /\ i \in Nat
    /\ DOMAIN double_buffer = Pixels
    /\ at \in {"draw"} \cup Drawn => DOMAIN window = WindowPixels
    /\ at \in Drawn => window[<<0, 0>>] = fontSheet
    /\ at \in {"present", "idle"} \/ (at = "render" /\ i > 0) =>
           double_buffer[<<0, 0>>] = fontSheet
    /\ at = "idle" \/ (at = "present" /\ i > 0) => screen[<<0, 0>>] = fontSheet

-----------------------------------------------------------------------------
(* The log.                                                                *)

\* The rows with one field of one of them changed
WithLine(rows, row, n) == [rows EXCEPT ![row].line = n]
WithChar(rows, row, n) == [rows EXCEPT ![row].char = n]
WithMargin(rows, row, n) == [rows EXCEPT ![row].margin = n]

(* The line of one row changes,                                            *)
LEMMA LineChanges ==
    ASSUME NEW rows \in [0..Bottom -> TextRow], NEW row \in 0..Bottom, NEW n \in Nat
    PROVE  /\ WithLine(rows, row, n) \in [0..Bottom -> TextRow]
           /\ \A r \in 0..Bottom : r # row => WithLine(rows, row, n)[r] = rows[r]
           /\ WithLine(rows, row, n)[row].line = n
           /\ WithLine(rows, row, n)[row].char = rows[row].char
<1> DEFINE new == WithLine(rows, row, n)
<1>1. rows[row] \in TextRow
  OBVIOUS
<1>2. [rows[row] EXCEPT !.line = n] \in TextRow
  BY <1>1 DEF TextRow
<1>3. new = [rows EXCEPT ![row] = [rows[row] EXCEPT !.line = n]]
  BY DEF WithLine
<1>4. new[row] = [rows[row] EXCEPT !.line = n]
  BY <1>3
<1> QED
  BY <1>1, <1>2, <1>3, <1>4 DEF TextRow

(* ... its character,                                                      *)
LEMMA CharChanges ==
    ASSUME NEW rows \in [0..Bottom -> TextRow], NEW row \in 0..Bottom, NEW n \in Nat
    PROVE  /\ WithChar(rows, row, n) \in [0..Bottom -> TextRow]
           /\ \A r \in 0..Bottom : r # row => WithChar(rows, row, n)[r] = rows[r]
           /\ WithChar(rows, row, n)[row].line = rows[row].line
           /\ WithChar(rows, row, n)[row].char = n
<1> DEFINE new == WithChar(rows, row, n)
<1>1. rows[row] \in TextRow
  OBVIOUS
<1>2. [rows[row] EXCEPT !.char = n] \in TextRow
  BY <1>1 DEF TextRow
<1>3. new = [rows EXCEPT ![row] = [rows[row] EXCEPT !.char = n]]
  BY DEF WithChar
<1>4. new[row] = [rows[row] EXCEPT !.char = n]
  BY <1>3
<1> QED
  BY <1>1, <1>2, <1>3, <1>4 DEF TextRow

(* ... or the one behind the columns.                                      *)
LEMMA MarginChanges ==
    ASSUME NEW rows \in [0..Bottom -> TextRow], NEW row \in 0..Bottom, NEW n \in Nat
    PROVE  /\ WithMargin(rows, row, n) \in [0..Bottom -> TextRow]
           /\ \A r \in 0..Bottom : r # row => WithMargin(rows, row, n)[r] = rows[r]
           /\ WithMargin(rows, row, n)[row].line = rows[row].line
           /\ WithMargin(rows, row, n)[row].char = rows[row].char
<1> DEFINE new == WithMargin(rows, row, n)
<1>1. rows[row] \in TextRow
  OBVIOUS
<1>2. [rows[row] EXCEPT !.margin = n] \in TextRow
  BY <1>1 DEF TextRow
<1>3. new = [rows EXCEPT ![row] = [rows[row] EXCEPT !.margin = n]]
  BY DEF WithMargin
<1>4. new[row] = [rows[row] EXCEPT !.margin = n]
  BY <1>3
<1> QED
  BY <1>1, <1>2, <1>3, <1>4 DEF TextRow

(* The text screen begins empty.                                           *)
LEMMA LogInitially ==
    ASSUME Init
    PROVE  LogInv
<1>1. /\ text = [r \in 0..Bottom |-> [line |-> 0, char |-> 0, margin |-> 0]]
      /\ logged = 0 /\ puts = 0 /\ i = 0 /\ at = "serial" /\ Bottom \in Nat
  BY DesktopAssumption DEF Init, Row, NoChar
<1>2. TextTypes
  BY <1>1 DEF TextTypes, TextRow
<1>3. LinesInv
  BY <1>1 DEF LinesInv, LineOf, moved
<1>4. CharsInv
  BY <1>1 DEF CharsInv, NoChar
<1> QED
  BY <1>2, <1>3, <1>4 DEF LogInv

(* What does not touch the text screen and the log, and starts or ends no  *)
(* scrolling but from row 0 on, leaves both in order.                      *)
LEMMA LogRests ==
    ASSUME LogInv, UNCHANGED logVars, i' \in Nat,
           \/ UNCHANGED <<at, i>>
           \/ at \notin {"scroll", "clear", "print"} /\ at' \notin {"clear", "print"}
              /\ (at' = "scroll" => i' = 0)
    PROVE  LogInv'
<1>1. text' = text /\ logged' = logged /\ puts' = puts
  BY DEF logVars
<1>2. moved' = moved /\ hole' = hole /\ (at' = "print" <=> at = "print")
  BY DEF moved, hole
<1>3. TextTypes'
  BY <1>1, DesktopAssumption DEF LogInv, TextTypes
<1>4. LinesInv'
  BY <1>1, <1>2 DEF LogInv, LinesInv, LineOf
<1>5. CharsInv'
  BY <1>1, <1>2 DEF LogInv, CharsInv
<1> QED
  BY <1>3, <1>4, <1>5 DEF LogInv

(* A row takes the one below it.                                           *)
LEMMA LogScrolls ==
    ASSUME LogInv, Scroll
    PROVE  LogInv'
<1>1. /\ at = "scroll" /\ i \in Nat /\ i < Bottom /\ Bottom \in Nat
      /\ text \in [0..Bottom -> TextRow]
      /\ logged' = logged /\ puts' = puts /\ logged \in Nat /\ puts \in Nat
      /\ text' = [text EXCEPT ![i] = text[i + 1]]
  BY DesktopAssumption DEF Scroll, Loops, LogInv, TextTypes
<1>2. \/ i + 1 < Bottom /\ i' = i + 1 /\ at' = "scroll"
      \/ i + 1 = Bottom /\ i' = 0 /\ at' = "clear"
  BY <1>1 DEF Scroll, Loops
<1>3. moved = i /\ moved' = i + 1 /\ hole = i /\ hole' = i + 1 /\ at' # "print"
  BY <1>1, <1>2 DEF moved, hole
<1>4. /\ i \in 0..Bottom /\ i + 1 \in 0..Bottom
      /\ text'[i] = text[i + 1]
      /\ \A r \in 0..Bottom : r # i => text'[r] = text[r]
  BY <1>1
<1>5. TextTypes'
  <2>1. text[i + 1] \in TextRow
    BY <1>1, <1>4
  <2>2. text' \in [0..Bottom -> TextRow]
    BY <1>1, <2>1
  <2>3. i' \in Nat /\ (at' = "scroll" => i' < Bottom)
    BY <1>1, <1>2
  <2> QED  BY <1>1, <2>2, <2>3 DEF TextTypes
<1>6. LinesInv'
  <2> SUFFICES ASSUME NEW r \in 0..Bottom
               PROVE  text'[r].line = IF r < i + 1 THEN LineOf(r + 1) ELSE LineOf(r)
    BY <1>1, <1>3 DEF LinesInv, LineOf
  <2>1. \A q \in 0..Bottom : text[q].line = IF q < i THEN LineOf(q + 1) ELSE LineOf(q)
    BY <1>1, <1>3 DEF LogInv, LinesInv
  <2>2. CASE r = i
    BY <1>1, <1>4, <2>1, <2>2
  <2>3. CASE r # i
    BY <1>1, <1>4, <2>1, <2>3
  <2> QED  BY <2>2, <2>3
<1>7. CharsInv'
  <2>1. \A r \in 0..Bottom : text'[r].char <= puts'
    BY <1>1, <1>4 DEF LogInv, CharsInv
  <2>2. \A r, s \in 0..Bottom :
            text[r].char = text[s].char /\ text[r].char # NoChar =>
                r = s \/ (s = i /\ r + 1 = i) \/ (r = i /\ s + 1 = i)
    BY <1>3 DEF LogInv, CharsInv
  <2>3. ASSUME NEW r \in 0..Bottom, NEW s \in 0..Bottom,
               text'[r].char = text'[s].char, text'[r].char # NoChar
        PROVE  r = s \/ (s = i + 1 /\ r = i) \/ (r = i + 1 /\ s = i)
    <3>1. CASE r # i /\ s # i
      BY <1>4, <2>2, <2>3, <3>1
    <3>2. CASE r = i /\ s # i
      <4>1. text[i + 1].char = text[s].char /\ text[i + 1].char # NoChar
        BY <1>4, <2>3, <3>2
      <4>2. i + 1 = s \/ (s = i /\ i + 1 + 1 = i) \/ (i + 1 = i /\ s + 1 = i)
        BY <1>4, <2>2, <4>1
      <4> QED  BY <1>1, <3>2, <4>2
    <3>3. CASE r # i /\ s = i
      <4>1. text[r].char = text[i + 1].char /\ text[r].char # NoChar
        BY <1>4, <2>3, <3>3
      <4>2. r = i + 1 \/ (i + 1 = i /\ r + 1 = i) \/ (r = i /\ i + 1 + 1 = i)
        BY <1>4, <2>2, <4>1
      <4> QED  BY <1>1, <3>3, <4>2
    <3> QED  BY <3>1, <3>2, <3>3
  <2>4. ASSUME NEW r \in 0..Bottom, NEW s \in 0..Bottom,
               text'[r].char = text'[s].char, text'[r].char # NoChar
        PROVE  r = s \/ (s = hole' /\ r + 1 = hole') \/ (r = hole' /\ s + 1 = hole')
    BY <1>1, <1>3, <2>3, <2>4
  <2> QED  BY <2>1, <2>4 DEF CharsInv
<1> QED
  BY <1>5, <1>6, <1>7 DEF LogInv

(* The last row is cleared.                                                *)
LEMMA LogClears ==
    ASSUME LogInv, ClearRow
    PROVE  LogInv'
<1>1. /\ at = "clear" /\ at' = "print" /\ i' = 0 /\ Bottom \in Nat \ {0}
      /\ text \in [0..Bottom -> TextRow]
      /\ logged' = logged /\ puts' = puts /\ logged \in Nat /\ puts \in Nat
      /\ text' = [text EXCEPT ![Bottom] = [line |-> 0, char |-> 0, margin |-> @.margin]]
  BY DesktopAssumption DEF ClearRow, Goes, LogInv, TextTypes, Row, NoChar
<1>2. moved = Bottom /\ moved' = Bottom /\ hole = Bottom /\ hole' = 0
  BY <1>1 DEF moved, hole
<1>3. /\ Bottom \in 0..Bottom
      /\ text'[Bottom] = [line |-> 0, char |-> 0, margin |-> text[Bottom].margin]
      /\ \A r \in 0..Bottom : r # Bottom => text'[r] = text[r]
      /\ text[Bottom].margin \in Nat
  BY <1>1 DEF TextRow
<1>4. TextTypes'
  <2>1. [line |-> 0, char |-> 0, margin |-> text[Bottom].margin]
            \in TextRow
    BY <1>3 DEF TextRow
  <2>2. text' \in [0..Bottom -> TextRow]
    BY <1>1, <2>1
  <2> QED  BY <1>1, <2>2 DEF TextTypes
<1>5. LinesInv'
  <2> SUFFICES ASSUME NEW r \in 0..Bottom
               PROVE  text'[r].line = IF r < Bottom THEN LineOf(r + 1) ELSE 0
    BY <1>1, <1>2 DEF LinesInv, LineOf
  <2>1. r < Bottom => text[r].line = LineOf(r + 1)
    BY <1>2 DEF LogInv, LinesInv
  <2> QED  BY <1>1, <1>3, <2>1
<1>6. CharsInv'
  <2>1. \A r \in 0..Bottom : text'[r].char <= puts'
    BY <1>1, <1>3 DEF LogInv, CharsInv
  <2>2. ASSUME NEW r \in 0..Bottom, NEW s \in 0..Bottom,
               text'[r].char = text'[s].char, text'[r].char # NoChar
        PROVE  r = s
    <3>1. r # Bottom /\ s # Bottom
      BY <1>3, <2>2 DEF NoChar
    <3>2. text[r].char = text[s].char /\ text[r].char # NoChar
      BY <1>3, <2>2, <3>1
    <3> QED  BY <1>2, <3>1, <3>2 DEF LogInv, CharsInv
  <2> QED  BY <2>1, <2>2 DEF CharsInv
<1> QED
  BY <1>4, <1>5, <1>6 DEF LogInv

(* ... and printed.                                                        *)
LEMMA LogPrints ==
    ASSUME LogInv, PrintRow
    PROVE  LogInv'
<1>1. /\ at = "print" /\ at' = "serial" /\ i' = 0 /\ Bottom \in Nat \ {0}
      /\ text \in [0..Bottom -> TextRow]
      /\ logged' = logged + 1 /\ puts' = puts /\ logged \in Nat /\ puts \in Nat
      /\ text' = [text EXCEPT ![Bottom].line = logged + 1]
  BY DesktopAssumption DEF PrintRow, Goes, LogInv, TextTypes
<1>2. moved = Bottom /\ moved' = 0 /\ hole = 0 /\ hole' = 0
  BY <1>1 DEF moved, hole
<1>3. /\ Bottom \in 0..Bottom
      /\ text'[Bottom].line = logged + 1 /\ text'[Bottom].char = text[Bottom].char
      /\ \A r \in 0..Bottom : r # Bottom => text'[r] = text[r]
      /\ text' \in [0..Bottom -> TextRow]
  <2>1. PICK row \in 0..Bottom : row = Bottom
    BY <1>1
  <2>3. PICK n : n = logged + 1
    OBVIOUS
  <2>2. /\ text' \in [0..Bottom -> TextRow]
        /\ \A r \in 0..Bottom : r # row => text'[r] = text[r]
        /\ text'[row].line = n /\ text'[row].char = text[row].char
    <3>1. text' = WithLine(text, row, n)
      BY <1>1, <2>1, <2>3 DEF WithLine
    <3>2. text \in [0..Bottom -> TextRow]
      BY <1>1
    <3>3. n \in Nat
      BY <1>1, <2>3
    <3> QED  BY <3>1, <3>2, <3>3, LineChanges
  <2> QED  BY <2>1, <2>2, <2>3
<1>4. TextTypes'
  BY <1>1, <1>3 DEF TextTypes
<1>5. LinesInv'
  <2> SUFFICES ASSUME NEW r \in 0..Bottom
               PROVE  text'[r].line = IF Bottom - r < logged + 1
                                      THEN (logged + 1) - (Bottom - r) ELSE 0
    BY <1>1, <1>2 DEF LinesInv, LineOf
  <2>1. r < Bottom => text[r].line = LineOf(r + 1)
    BY <1>2 DEF LogInv, LinesInv
  <2>2. CASE r = Bottom
    BY <1>1, <1>3, <2>2
  <2>3. CASE r < Bottom
    BY <1>1, <1>3, <2>1, <2>3 DEF LineOf
  <2> QED  BY <1>1, <2>2, <2>3
<1>6. CharsInv'
  <2>1. \A r \in 0..Bottom : text'[r].char = text[r].char
    BY <1>3
  <2> QED  BY <1>1, <1>2, <2>1 DEF LogInv, CharsInv
<1> QED
  BY <1>4, <1>5, <1>6 DEF LogInv

(* A process's character is new, wherever it comes.                        *)
LEMMA LogTakesChar ==
    ASSUME LogInv, SyscallPutc
    PROVE  LogInv'
<1>1. /\ UNCHANGED <<at, i>> /\ logged' = logged /\ logged \in Nat /\ puts \in Nat
      /\ puts' = puts + 1 /\ i \in Nat /\ Bottom \in Nat
      /\ text \in [0..Bottom -> TextRow]
      /\ at = "scroll" => i < Bottom
  BY DesktopAssumption DEF SyscallPutc, LogInv, TextTypes
<1>2. moved' = moved /\ hole' = hole
  BY <1>1 DEF moved, hole
<1>3. PICK row \in 0..Bottom : \/ text' = [text EXCEPT ![row].char = puts + 1]
                               \/ text' = [text EXCEPT ![row].margin = puts + 1]
  BY DEF SyscallPutc
<1>4. /\ text' \in [0..Bottom -> TextRow]
      /\ \A r \in 0..Bottom : text'[r].line = text[r].line
      /\ \A r \in 0..Bottom : r # row => text'[r].char = text[r].char
      /\ text'[row].char \in {text[row].char, puts + 1}
  <2>1. CASE text' = [text EXCEPT ![row].char = puts + 1]
    <3>1. puts + 1 \in Nat
      BY <1>1
    <3>2. /\ text' \in [0..Bottom -> TextRow]
          /\ \A r \in 0..Bottom : r # row => text'[r] = text[r]
          /\ text'[row].line = text[row].line /\ text'[row].char = puts + 1
      <4>1. text' = WithChar(text, row, puts + 1)
        BY <2>1 DEF WithChar
      <4> QED  BY <1>1, <3>1, <4>1, CharChanges
    <3> QED  BY <3>2
  <2>2. CASE text' = [text EXCEPT ![row].margin = puts + 1]
    <3>1. puts + 1 \in Nat
      BY <1>1
    <3>2. /\ text' \in [0..Bottom -> TextRow]
          /\ \A r \in 0..Bottom : r # row => text'[r] = text[r]
          /\ text'[row].line = text[row].line /\ text'[row].char = text[row].char
      <4>1. text' = WithMargin(text, row, puts + 1)
        BY <2>2 DEF WithMargin
      <4> QED  BY <1>1, <3>1, <4>1, MarginChanges
    <3> QED  BY <3>2
  <2> QED  BY <1>3, <2>1, <2>2
<1>5. TextTypes'
  BY <1>1, <1>4 DEF TextTypes
<1>6. LinesInv'
  BY <1>1, <1>2, <1>4 DEF LogInv, LinesInv, LineOf
<1>7. CharsInv'
  <2>1. \A r \in 0..Bottom : text[r].char \in Nat /\ text[r].char <= puts
    BY <1>1 DEF LogInv, CharsInv, TextRow
  <2>2. ASSUME NEW r \in 0..Bottom
        PROVE  text'[r].char <= puts'
    <3>1. text'[r].char \in {text[r].char, puts + 1}
      BY <1>4
    <3> QED  BY <1>1, <2>1, <3>1
  <2>3. ASSUME NEW r \in 0..Bottom, NEW s \in 0..Bottom,
               text'[r].char = text'[s].char, text'[r].char # NoChar
        PROVE  r = s \/ (s = hole /\ r + 1 = hole) \/ (r = hole /\ s + 1 = hole)
    <3>1. CASE text'[row].char = text[row].char
      BY <1>4, <2>3, <3>1 DEF LogInv, CharsInv
    <3>2. CASE text'[row].char = puts + 1
      <4>1. ASSUME NEW q \in 0..Bottom, q # row PROVE text'[q].char # text'[row].char
        <5>1. text'[q].char = text[q].char
          BY <1>4, <4>1
        <5> QED  BY <1>1, <2>1, <3>2, <5>1
      <4>2. r = row <=> s = row
        BY <2>3, <4>1
      <4> QED  BY <1>4, <2>3, <4>2 DEF LogInv, CharsInv
    <3> QED  BY <1>4, <3>1, <3>2
  <2> QED  BY <1>2, <2>2, <2>3 DEF CharsInv
<1> QED
  BY <1>5, <1>6, <1>7 DEF LogInv

(* All steps.                                                              *)
LEMMA LogStep ==
    ASSUME LogInv, [Next]_vars
    PROVE  LogInv'
<1>1. i \in Nat
  BY DEF LogInv, TextTypes
<1>2. ASSUME SerialReady \/ SerialWrite \/ LoadFont \/ FontFails
             \/ CreateDesktopWindow \/ DrawCharacter
      PROVE  LogInv'
  <2>1. UNCHANGED logVars /\ i' = 0
    BY <1>2 DEF SerialReady, SerialWrite, LoadFont, FontFails, CreateDesktopWindow,
                DrawCharacter, Goes
  <2>2. at \notin {"scroll", "clear", "print"} /\ at' \notin {"clear", "print"}
    BY <1>2 DEF SerialReady, SerialWrite, LoadFont, FontFails, CreateDesktopWindow,
                DrawCharacter, Goes
  <2> QED  BY <2>1, <2>2, LogRests
<1>3. ASSUME BiltBuffer \/ RenderWindow PROVE LogInv'
  <2>1. UNCHANGED logVars /\ i' \in Nat
    <3>1. i' = i + 1 \/ i' = 0
      BY <1>3 DEF BiltBuffer, RenderWindow, Loops
    <3>2. UNCHANGED logVars
      BY <1>3 DEF BiltBuffer, RenderWindow
    <3> QED  BY <1>1, <3>1, <3>2
  <2>2. at \notin {"scroll", "clear", "print"} /\ at' \notin {"scroll", "clear", "print"}
    BY <1>3 DEF BiltBuffer, RenderWindow, Loops
  <2> QED  BY <2>1, <2>2, LogRests
<1>4. ASSUME SerialSends \/ SyscallCreateWindow \/ UNCHANGED vars PROVE LogInv'
  <2>1. UNCHANGED <<at, i, logVars>>
    BY <1>4 DEF SerialSends, SyscallCreateWindow, vars
  <2> QED  BY <1>1, <2>1, LogRests
<1> QED
  BY <1>2, <1>3, <1>4, LogScrolls, LogClears, LogPrints, LogTakesChar
     DEF Next, KernelThread, syscall

(* Between two lines the log's last lines stand in their order and no      *)
(* process's character twice, however characters and scrolling interleave. *)
THEOREM LogStaysInOrder == Spec => []LogInOrder
<1>1. Init => LogInv
  BY LogInitially
<1>2. LogInv /\ [Next]_vars => LogInv'
  BY LogStep
<1>3. ASSUME LogInv PROVE LogInOrder
  <2> SUFFICES ASSUME at \notin {"scroll", "clear", "print"}, NEW r \in 0..Bottom
               PROVE  /\ text[r].line = LineOf(r)
                      /\ \A s \in 0..Bottom :
                             text[r].char = text[s].char /\ text[r].char # NoChar => r = s
    BY DEF LogInOrder, LineOf
  <2>1. moved = 0 /\ hole = 0
    BY DEF moved, hole
  <2>2. text[r].line = LineOf(r)
    BY <1>3, <2>1 DEF LogInv, LinesInv
  <2>3. ASSUME NEW s \in 0..Bottom, text[r].char = text[s].char, text[r].char # NoChar
        PROVE  r = s
    BY <1>3, <2>1, <2>3 DEF LogInv, CharsInv
  <2> QED  BY <2>2, <2>3
<1> QED
  BY <1>1, <1>2, <1>3, PTL DEF Spec

-----------------------------------------------------------------------------
(* The letter.                                                             *)

(* Its pixel, in the screen and in the window.                             *)
LEMMA Corner ==
    /\ <<0, 0>> \in Pixels /\ <<0, 0>> \in WindowPixels
    /\ 0 \notin 1..(Height - 2)
    /\ \A p : p = <<0, 0>> => p[2] = 0
<1>1. Width \div 2 \in Nat \ {0} /\ Height \div 2 \in Nat \ {0}
  BY DesktopAssumption
<1>2. 0 \in 0..(Width - 1) /\ 0 \in 0..(Height - 1)
  BY DesktopAssumption
<1> QED
  BY <1>1, <1>2 DEF Pixels, WindowPixels, Rows

(* No step of the thread or of a process takes the letter away again.      *)
LEMMA LetterStep ==
    ASSUME LetterInv, [Next]_vars
    PROVE  LetterInv'
<1> DEFINE corner == <<0, 0>>
<1>1. corner \in Pixels /\ corner \in WindowPixels /\ corner[2] = 0 /\ i \in Nat
  BY Corner DEF LetterInv
<1>2. /\ DOMAIN double_buffer = Pixels
      /\ at \in {"draw"} \cup Drawn => DOMAIN window = WindowPixels
      /\ at \in Drawn => window[corner] = fontSheet
      /\ at \in {"present", "idle"} \/ (at = "render" /\ i > 0) => double_buffer[corner] = fontSheet
      /\ at = "idle" \/ (at = "present" /\ i > 0) => screen[corner] = fontSheet
  BY DEF LetterInv
<1>3. SUFFICES
        /\ i' \in Nat
        /\ DOMAIN double_buffer' = Pixels
        /\ at' \in {"draw"} \cup Drawn => DOMAIN window' = WindowPixels
        /\ at' \in Drawn => window'[corner] = fontSheet'
        /\ at' \in {"present", "idle"} \/ (at' = "render" /\ i' > 0) =>
               double_buffer'[corner] = fontSheet'
        /\ at' = "idle" \/ (at' = "present" /\ i' > 0) => screen'[corner] = fontSheet'
  BY DEF LetterInv
<1> HIDE DEF corner
<1> USE DEF Drawn
<1>5. CASE SerialReady \/ SerialWrite \/ Scroll \/ ClearRow \/ PrintRow \/ FontFails
  <2>1. /\ at' \notin {"draw"} \cup Drawn /\ UNCHANGED double_buffer
        /\ i' = i + 1 \/ i' = 0
    BY <1>5 DEF SerialReady, SerialWrite, Scroll, ClearRow, PrintRow, FontFails, Goes, Loops, drawVars
  <2> QED  BY <1>1, <1>2, <2>1
<1>6. CASE BiltBuffer
  <2>1. /\ screen' = [p \in Pixels |-> IF p[2] = i THEN double_buffer[p] ELSE screen[p]]
        /\ UNCHANGED <<fontSheet, window, double_buffer>>
        /\ \/ at = "first present" /\ at' \in {"first present", "font"}
           \/ at = "present" /\ at' \in {"present", "idle"}
        /\ i' = i + 1 \/ i' = 0
    BY <1>6 DEF BiltBuffer, Loops
  <2>2. screen'[corner] = IF i = 0 THEN double_buffer[corner] ELSE screen[corner]
    BY <1>1, <2>1
  <2>3. CASE at = "first present"
    <3>1. at' \notin {"draw"} \cup Drawn
      BY <2>1, <2>3
    <3>2. i' = i + 1 \/ i' = 0
      BY <2>1
    <3>3. i' \in Nat
      BY <1>1, <3>2
    <3> QED  BY <1>2, <2>1, <3>1, <3>3
  <2>4. CASE at = "present"
    <3>1. screen'[corner] = fontSheet'
      <4>1. i = 0 \/ i > 0
        BY <1>1
      <4> QED  BY <1>2, <2>1, <2>2, <2>4, <4>1
    <3>2. at' \notin {"draw", "render"} /\ i' \in Nat
      BY <1>1, <2>1, <2>4
    <3> QED  BY <1>2, <2>1, <2>4, <3>1, <3>2
  <2> QED  BY <2>1, <2>3, <2>4
<1>7. CASE LoadFont \/ CreateDesktopWindow
  <2>1. /\ i' = 0 /\ UNCHANGED double_buffer
        /\ \/ at' = "create"
           \/ at' = "draw" /\ window' = [p \in WindowPixels |-> "unset"]
    BY <1>7 DEF LoadFont, CreateDesktopWindow, Goes
  <2> QED  BY <1>2, <2>1
<1>8. CASE DrawCharacter
  <2>1. /\ at = "draw" /\ at' = "render" /\ i' = 0 /\ UNCHANGED <<fontSheet, double_buffer>>
        /\ window' = [window EXCEPT ![corner] = fontSheet]
    BY <1>8 DEF DrawCharacter, Goes, image_view_blit, corner
  <2>2. DOMAIN window' = WindowPixels /\ window'[corner] = fontSheet
    BY <1>1, <1>2, <2>1
  <2> QED  BY <1>2, <2>1, <2>2
<1>9. CASE RenderWindow
  <2>1. /\ double_buffer' = [p \in Pixels |-> IF p \in DOMAIN window /\ p[2] = i
                                              THEN window[p] ELSE double_buffer[p]]
        /\ UNCHANGED <<fontSheet, window>>
        /\ at = "render"
        /\ \/ at' = "render" /\ i' = i + 1
           \/ at' = "present" /\ i' = 0
    BY <1>9 DEF RenderWindow, Loops
  <2>2. double_buffer'[corner] = IF i = 0 THEN window[corner] ELSE double_buffer[corner]
    BY <1>1, <1>2, <2>1
  <2>3. DOMAIN double_buffer' = Pixels
    BY <2>1
  <2>4. window[corner] = fontSheet /\ DOMAIN window = WindowPixels
    BY <1>2, <2>1
  <2>5. double_buffer'[corner] = fontSheet
    <3>1. i = 0 \/ i > 0
      BY <1>1
    <3> QED  BY <1>2, <2>1, <2>2, <2>4, <3>1
  <2>6. at' \notin {"draw", "idle"} /\ (at' = "present" => i' = 0) /\ i' \in Nat
    BY <1>1, <2>1
  <2> QED  BY <2>1, <2>3, <2>4, <2>5, <2>6
<1>10. CASE SyscallCreateWindow
  <2>1. /\ UNCHANGED <<at, i, fontSheet, window, screen>>
        /\ double_buffer' = [p \in Pixels |-> IF p[2] \in 1..(Height - 2)
                                              THEN "user" ELSE double_buffer[p]]
    BY <1>10 DEF SyscallCreateWindow, draw_rect
  <2>2. double_buffer'[corner] = double_buffer[corner] /\ DOMAIN double_buffer' = Pixels
    BY <1>1, <2>1, Corner
  <2>3. /\ at' \in {"present", "idle"} \/ (at' = "render" /\ i' > 0) =>
               double_buffer'[corner] = fontSheet'
        /\ at' = "idle" \/ (at' = "present" /\ i' > 0) => screen'[corner] = fontSheet'
    BY <1>2, <2>1, <2>2
  <2>4. /\ i' \in Nat
        /\ at' \in {"draw"} \cup Drawn => DOMAIN window' = WindowPixels
        /\ at' \in Drawn => window'[corner] = fontSheet'
    BY <1>1, <1>2, <2>1
  <2> QED  BY <2>2, <2>3, <2>4
<1>11. CASE SerialSends \/ SyscallPutc \/ UNCHANGED vars
  <2>1. UNCHANGED <<at, i, fontSheet, window, double_buffer, screen>>
    BY <1>11 DEF SerialSends, SyscallPutc, vars, drawVars
  <2> QED  BY <1>1, <1>2, <2>1
<1> QED
  BY <1>5, <1>6, <1>7, <1>8, <1>9, <1>10, <1>11 DEF Next, KernelThread, syscall

(* When the desktop is up its letter is on the screen, whatever windows    *)
(* processes have had drawn in between.                                    *)
THEOREM LetterIsShown == Spec => []LetterShown
<1>1. Init => LetterInv
  BY DesktopAssumption DEF Init, LetterInv, Drawn
<1>2. LetterInv /\ [Next]_vars => LetterInv'
  BY LetterStep
<1>3. LetterInv => LetterShown
  BY DEF LetterInv, LetterShown
<1> QED
  BY <1>1, <1>2, <1>3, PTL DEF Spec
=============================================================================
