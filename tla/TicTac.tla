-------------------------------- MODULE TicTac --------------------------------
(***************************************************************************)
(* TicTacMain of src/Old Code/tictac.c: a board both players mark from one *)
(* keyboard.  There is no turn and no winner in the code: a key marks its  *)
(* cell if the cell is free, a space clears the board, t ends the program. *)
(***************************************************************************)
EXTENDS KeySlot, TLC

VARIABLES TTboard, isRunning
ttVars == <<TTboard, isRunning>>

Cells == (0..2) \X (0..2)
NoMarks == [cell \in Cells |-> 0]

\* The keys of the two players, row by row
KeyCell(p) ==
    IF p = 1
    THEN [q |-> <<0, 0>>, w |-> <<0, 1>>, e |-> <<0, 2>>,
          a |-> <<1, 0>>, s |-> <<1, 1>>, d |-> <<1, 2>>,
          z |-> <<2, 0>>, x |-> <<2, 1>>, c |-> <<2, 2>>]
    ELSE [i |-> <<0, 0>>, o |-> <<0, 1>>, p |-> <<0, 2>>,
          j |-> <<1, 0>>, k |-> <<1, 1>>, l |-> <<1, 2>>,
          n |-> <<2, 0>>, m |-> <<2, 1>>] @@ ("," :> <<2, 2>>)

TTInit == TTboard = NoMarks /\ isRunning = FALSE

TTclearboard == TTboard' = NoMarks

\* player p's part of TTKeyboard: letter c marks its cell of board b if it is free
Marked(b, p, c) ==
    IF c \in DOMAIN KeyCell(p) /\ b[KeyCell(p)[c]] = 0
    THEN [b EXCEPT ![KeyCell(p)[c]] = p] ELSE b

\* TTKeyboard with a letter in the slot: text[1] is compared twice over, once for
\* each player, with whatever it holds then
TTKeyboard ==
    \E c, d \in Reads :
        /\ Acts({c, d}, "clear")
        /\ isRunning' = (c # "t")
        /\ LET b == CASE c = "t" -> TTboard
                      [] c = " " -> NoMarks
                      [] OTHER -> Marked(TTboard, 1, c)
           IN  TTboard' = Marked(b, 2, d)
=============================================================================
