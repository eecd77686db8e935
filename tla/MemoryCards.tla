----------------------------- MODULE MemoryCards -----------------------------
(***************************************************************************)
(* Coltyn2Main of src/Old Code/coltyn2Game.c: cards lie face down, a space *)
(* turns the one under the cursor, at most two are face up, and c compares *)
(* the two that were noted.  Which note is cleared when a card is turned   *)
(* down is decided by the counter; what the code does not keep, the order  *)
(* in which the cards were turned, is kept beside it.                      *)
(***************************************************************************)
EXTENDS KeySlot

CONSTANTS eCard        \* eCard[<<y, x>>], the face of each card (4 by 4 in the code)

ASSUME CardsAssumption ==
    /\ DOMAIN eCard \subseteq Nat \X Nat
    /\ <<0, 0>> \in DOMAIN eCard
    /\ \A place \in DOMAIN eCard : eCard[place] # "no card"

VARIABLES
    exPos, eyPos,               \* the cursor
    eChecked,                   \* the places of the cards that lie face up
    card1, card2,               \* the notes
    checkedCounter, boardRendered,
    turned,                     \* history: the places face up, in the order they were turned
    outOfTurn                   \* history: the first of two was turned down, and since
                                \* then there has always been one face up

notes == <<eChecked, card1, card2, checkedCounter, turned, outOfTurn>>
c2Vars == <<exPos, eyPos, notes, boardRendered>>

Places == DOMAIN eCard
NoCard == "no card"        \* -1 in card1, -2 in card2

C2Init ==
    /\ exPos = 0 /\ eyPos = 0
    /\ eChecked = {} /\ checkedCounter = 0
    /\ card1 = NoCard /\ card2 = NoCard
    /\ boardRendered = FALSE
    /\ turned = <<>> /\ outOfTurn = FALSE

\* Mutant of eRender: only an e is cleared
eRenderClearsE ==
    \E c \in Reads :
        /\ Acts({c}, IF c = "e" THEN "clear" ELSE "look")
        /\ boardRendered' = (boardRendered \/ c = "e")
        /\ UNCHANGED <<exPos, eyPos, notes>>

\* The waiting loop: e draws the board
eRender ==
    \E c \in Reads :
        /\ Acts({c}, "clear")
        /\ boardRendered' = (boardRendered \/ c = "e")
        /\ UNCHANGED <<exPos, eyPos, notes>>

Step(c) == [w |-> <<-1, 0>>, s |-> <<1, 0>>, a |-> <<0, -1>>, d |-> <<0, 1>>][c]

\* eCursor, a move: the cursor stays on the cards
eMove(c) ==
    /\ c \in {"w", "s", "a", "d"}
    /\ LET to == <<eyPos + Step(c)[1], exPos + Step(c)[2]>>
       IN  IF to \in Places THEN eyPos' = to[1] /\ exPos' = to[2]
                            ELSE UNCHANGED <<eyPos, exPos>>
    /\ UNCHANGED <<notes, boardRendered>>

\* Mutant of TurnUp: the second card is noted over the first as well
TurnUpOver(here) ==
    /\ here \notin eChecked /\ checkedCounter < 2
    /\ eChecked' = eChecked \cup {here}
    /\ card1' = eCard[here]
    /\ card2' = IF checkedCounter = 1 THEN eCard[here] ELSE card2
    /\ checkedCounter' = checkedCounter + 1
    /\ turned' = Append(turned, here) /\ UNCHANGED outOfTurn

TurnUp(here) ==
    /\ here \notin eChecked /\ checkedCounter < 2
    /\ eChecked' = eChecked \cup {here}
    /\ card1' = IF checkedCounter = 0 THEN eCard[here] ELSE card1
    /\ card2' = IF checkedCounter = 1 THEN eCard[here] ELSE card2
    /\ checkedCounter' = checkedCounter + 1
    /\ turned' = Append(turned, here) /\ UNCHANGED outOfTurn

TurnDown(here) ==
    /\ here \in eChecked
    /\ eChecked' = eChecked \ {here}
    /\ card2' = IF checkedCounter = 2 THEN NoCard ELSE card2
    /\ card1' = IF checkedCounter = 1 THEN NoCard ELSE card1
    /\ checkedCounter' = checkedCounter - 1
    /\ turned' = IF here = Head(turned) THEN Tail(turned) ELSE <<Head(turned)>>
    /\ outOfTurn' = (checkedCounter = 2 /\ (outOfTurn \/ here = Head(turned)))

\* eCursor, the space bar: a third card stays as it is
eTurn ==
    LET here == <<eyPos, exPos>>
    IN  /\ \/ TurnUp(here)
           \/ TurnDown(here)
           \/ here \notin eChecked /\ checkedCounter >= 2 /\ UNCHANGED notes
        /\ UNCHANGED <<exPos, eyPos, boardRendered>>

eCursor ==
    \E c \in Reads :
        \/ Acts({c}, "clear") /\ eMove(c)
        \/ Acts({c}, "clear") /\ c = " " /\ eTurn
        \/ c \notin {"w", "s", "a", "d", " "} /\ Ignores("clear") /\ UNCHANGED c2Vars

\* checkMatch looks at the slot after eCursor has cleared it: it sees a c only if the
\* key comes between the two.  It prints whether the cards match and leaves the slot
\* as it is
checkMatch ==
    /\ \E c \in Reads :
          \/ c = "c" /\ checkedCounter = 2 /\ Acts({c}, "look")
          \/ ~(c = "c" /\ checkedCounter = 2) /\ Ignores("look")
    /\ UNCHANGED c2Vars
=============================================================================
