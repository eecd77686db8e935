---------------------------- MODULE OldShellProofs ----------------------------
(***************************************************************************)
(* Proofs about the first kernel's shell: for all names of commands, all   *)
(* cards, all sizes of the line's arrays, until one of them is left, and a *)
(* key press between any two steps; and about its blackjack, until the     *)
(* player asks for a seventh card, for any deck and, where the deck's      *)
(* order matters, for any in which the dealer stops in time (DeckLasts).   *)
(***************************************************************************)
EXTENDS OldShell, BlackJack, SequenceTheorems, FiniteSetTheorems, WellFoundedInduction, TLAPS

Keys == {Nothing, Enter} \cup {Letter(c) : c \in Letters}

(* The Enter key in front of a letter that has not been read yet.          *)
Behind == {[kind |-> "enter", char |-> c] : c \in Letters}

(* A key has been acted on at most once.  The steps that leave it in the   *)
(* slot behind them are the comparison of the cards, whose next look       *)
(* ignores its key, and those that clear the slot next.                    *)
KeyInv ==
    /\ slot \in Keys \cup Behind /\ seen \in Keys
    /\ seen.kind = "letter" => slot.char \in Letters
    /\ at # "act" => seen = Nothing
    /\ used \in 0..1
    /\ ~same => used = 0
    /\ at = "act" /\ same => seen = Looked(slot)
    /\ used = 1 /\ at # "clear" =>
          slot = Nothing \/ (app = "cards" /\ slot = Letter("c"))

(* The notes and the cards, with the cursor on one of them: the cards that *)
(* lie face up are those that were turned, in their order the faces noted  *)
(* unless the first of two has been turned down.                           *)
OneUp(p) ==
    /\ checkedCounter = 1 /\ turned = <<p>> /\ eChecked = {p}
    /\ card1 # NoCard /\ card2 = NoCard
    /\ ~outOfTurn => card1 = eCard[p]
TwoUp(p, q) ==
    /\ checkedCounter = 2 /\ turned = <<p, q>> /\ eChecked = {p, q}
    /\ card1 # NoCard /\ card2 # NoCard
    /\ ~outOfTurn => card1 = eCard[p] /\ card2 = eCard[q]

CardInv ==
    /\ exPos \in Nat /\ eyPos \in Nat /\ <<eyPos, exPos>> \in Places
    /\ \/ /\ checkedCounter = 0 /\ turned = <<>> /\ eChecked = {}
          /\ card1 = NoCard /\ card2 = NoCard
       \/ \E p \in Places : OneUp(p)
       \/ \E p, q \in Places : p # q /\ TwoUp(p, q)

(* The line, its place among the rows, and what it shows.                  *)
RowMarks == Letters \cup {Blank, ">", ClockDigit}

LineTypes ==
    /\ command \in Seq(Letters)
    /\ commandCounter \in Int /\ cursorX \in Int
    /\ commandCounter <= CommandPlaces
    /\ row \in [Columns -> RowMarks]
    /\ mixed \in BOOLEAN

LineRows ==
    /\ cursorY \in 1..Rows /\ ListStart \in 0..Rows
    /\ app = "shell" /\ at = "act" /\ kernel = "running" => cursorY < Rows

LineInv == LineTypes /\ LineRows /\ LineShowsCommand

-----------------------------------------------------------------------------
(* The slot.                                                               *)

(* What a key is.                                                          *)
LEMMA KeyFacts ==
    ASSUME NEW k \in Keys
    PROVE  /\ k.kind = "letter" => k.char \in Letters /\ k = Letter(k.char)
           /\ k = Nothing => k.kind # "letter"
           /\ k = Enter => k.kind # "letter"
           /\ k # Nothing /\ k # Enter => k.kind = "letter"
BY DEF Keys, Nothing, Enter, Letter

(* A letter and its character, nothing and the Enter key.                  *)
LEMMA LetterFacts ==
    /\ \A c : Letter(c).kind = "letter" /\ Letter(c).char = c
    /\ Nothing # Enter /\ Nothing.kind # "letter" /\ Enter.kind # "letter"
    /\ Nothing \in Keys /\ Enter \in Keys
BY DEF Keys, Nothing, Enter, Letter

(* A letter in the slot is the key it looks like.                          *)
LEMMA SlotFacts ==
    ASSUME NEW k \in Keys \cup Behind
    PROVE  /\ k.kind = "letter" => k.char \in Letters /\ k = Letter(k.char)
           /\ Looked(k) \in Keys
           /\ Looked(k).kind = "letter" => Looked(k) = k
           /\ Looked(k) = Nothing => k = Nothing
<1>1. CASE k = Nothing
  <2>1. Looked(k) = Nothing
    BY <1>1 DEF Looked, Nothing
  <2> QED  BY <1>1, <2>1, KeyFacts, LetterFacts
<1>2. CASE k \in {Enter} \cup Behind
  <2>1. k.kind = "enter" /\ Looked(k) = Enter
    BY <1>2 DEF Looked, Enter, Behind
  <2> QED  BY <2>1, KeyFacts, LetterFacts
<1>3. CASE \E c \in Letters : k = Letter(c)
  <2>1. k.kind = "letter" /\ Looked(k) = k /\ k \in Keys
    BY <1>3, LetterFacts DEF Looked, Keys
  <2> QED  BY <2>1, KeyFacts
<1> QED
  BY <1>1, <1>2, <1>3 DEF Keys

(* A read of the letter gives one that a key stands for, and the letter    *)
(* looked at if no key has come since.                                     *)
LEMMA ReadsFacts ==
    ASSUME KeyInv, seen.kind = "letter"
    PROVE  /\ Reads \subseteq Letters
           /\ seen = slot => \A c \in Reads : c = slot.char
BY KeyFacts DEF Reads, KeyInv

(* A key that has been acted on is not acted on again: there is nothing in *)
(* the slot, or the key of the comparison in front of the cards' cursor.   *)
LEMMA ActedOn ==
    ASSUME KeyInv, at = "act", used = 1
    PROVE  /\ same /\ seen = slot
           /\ seen = Nothing \/ (app = "cards" /\ seen = Letter("c"))
<1>1. /\ same /\ seen = Looked(slot)
      /\ slot = Nothing \/ (app = "cards" /\ slot = Letter("c"))
  BY DEF KeyInv
<1>2. Looked(Nothing) = Nothing /\ Looked(Letter("c")) = Letter("c")
  BY DEF Looked, Nothing, Letter
<1> QED
  BY <1>1, <1>2

(* Acting on a key for the first time, the slot to be cleared next.        *)
LEMMA ActsOnce ==
    ASSUME KeyInv, NEW cs, Acts(cs, "clear"), used # 1
    PROVE  KeyInv'
BY LetterFacts DEF KeyInv, Acts, Acting

(* Clearing the slot before acting on what was in it.                      *)
LEMMA TakesOnce ==
    ASSUME KeyInv, NEW next \in {"look", "clear"}, Takes(next), used # 1
    PROVE  KeyInv'
BY LetterFacts DEF KeyInv, Takes, Acting

(* Passing over what was seen.                                             *)
LEMMA IgnoresKeeps ==
    ASSUME KeyInv, NEW next \in {"look", "clear"}, Ignores(next),
           used = 1 /\ next = "look" =>
              slot = Nothing \/ (app' = "cards" /\ slot = Letter("c"))
    PROVE  KeyInv'
BY LetterFacts DEF KeyInv, Ignores, Acting

(* Every step keeps the slot's count.                                      *)
LEMMA KeyStep == KeyInv /\ [Next]_vars => KeyInv'
<1> SUFFICES ASSUME KeyInv, [Next]_vars
             PROVE  KeyInv'
  OBVIOUS
<1>1. ASSUME Look, app' = app
      PROVE  KeyInv'
  <2>1. /\ at = "look" /\ at' = "act" /\ same' /\ seen' = Looked(slot)
        /\ UNCHANGED <<slot, used>>
    BY <1>1 DEF Look
  <2>2. slot \in Keys \cup Behind
    BY DEF KeyInv
  <2>3. seen' \in Keys /\ (seen'.kind = "letter" => slot'.char \in Letters)
    BY <2>1, <2>2, SlotFacts
  <2> QED  BY <1>1, <2>1, <2>3 DEF KeyInv
<1>2. CASE keyCheckLetter
  <2>1. at = "act" /\ seen.kind = "letter" /\ app = "shell"
    BY <1>2 DEF keyCheckLetter, Acts, Acting
  <2>2. used # 1
    BY <2>1, ActedOn, LetterFacts, KeyFacts
  <2>3. \E cs : Acts(cs, "clear")
    BY <1>2 DEF keyCheckLetter
  <2> QED  BY <2>2, <2>3, ActsOnce
<1>3. CASE commandCheck
  <2>1. /\ \E next \in {"look", "clear"} : Takes(next)
        /\ app = "shell" /\ seen = Enter
    BY <1>3 DEF commandCheck, NoCommand, help, hex, runNothing, runCards,
                runTicTac, settings, Starts
  <2>2. at = "act"
    BY <2>1 DEF Takes, Acting
  <2>3. used # 1
    BY <2>1, <2>2, ActedOn, LetterFacts
  <2> QED  BY <2>1, <2>3, TakesOnce
<1>4. CASE GetKeySettings
  <2>1. /\ app = "settings" /\ seen # Nothing
        /\ Takes("look") \/ \E cs : Acts(cs, "clear")
    BY <1>4 DEF GetKeySettings, OpenPicker, ExitSettings
  <2>2. at = "act"
    BY <2>1 DEF Takes, Acts, Acting
  <2>3. used # 1
    BY <2>1, <2>2, ActedOn
  <2> QED  BY <2>1, <2>3, TakesOnce, ActsOnce
<1>5. CASE ColorPicker
  <2>1. /\ app = "picker" /\ (seen = Enter \/ seen.kind = "letter")
        /\ \E cs : Acts(cs, "clear")
    BY <1>5 DEF ColorPicker, PickColour, MovePicker
  <2>2. at = "act"
    BY <2>1 DEF Acts, Acting
  <2>3. used # 1
    BY <2>1, <2>2, ActedOn, LetterFacts, KeyFacts
  <2> QED  BY <2>1, <2>3, ActsOnce
<1>6. CASE TicTacMenu \/ TicTacMain \/ CardsMenu
  <2>1. /\ app \in {"tictac menu", "tictac", "cards menu"} /\ seen.kind = "letter"
        /\ \E cs : Acts(cs, "clear")
    BY <1>6 DEF TicTacMenu, TicTacMain, TTKeyboard, CardsMenu, eRender
  <2>2. at = "act"
    BY <2>1 DEF Acts, Acting
  <2>3. used # 1
    BY <2>1, <2>2, ActedOn, LetterFacts, KeyFacts
  <2> QED  BY <2>1, <2>3, ActsOnce
<1>7. CASE Cards
  <2>1. /\ app = "cards" /\ app' = app /\ seen.kind = "letter"
        /\ at = "act"
    BY <1>7 DEF Cards, eCursor, Acts, Ignores, Acting
  <2>2. CASE Ignores("clear")
    BY <2>1, <2>2, IgnoresKeeps
  <2>3. ASSUME NEW c \in Reads, Acts({c}, "clear"),
               c \in {"w", "s", "a", "d", " "}
        PROVE  KeyInv'
    <3>1. used # 1
      <4> SUFFICES ASSUME used = 1 PROVE FALSE
        OBVIOUS
      <4>1. seen = slot /\ seen = Letter("c")
        BY <2>1, ActedOn, LetterFacts, KeyFacts
      <4>2. c = "c"
        BY <4>1, ReadsFacts, LetterFacts
      <4> QED  BY <2>3, <4>2
    <3> QED  BY <2>3, <3>1, ActsOnce
  <2> QED  BY <1>7, <2>2, <2>3 DEF Cards, eCursor, eMove
<1>8. CASE CardsCheck
  <2>1. /\ app = "cards check" /\ app' = "cards" /\ seen.kind = "letter"
        /\ at = "act"
    BY <1>8 DEF CardsCheck, checkMatch, Acts, Ignores, Acting
  <2>2. used # 1
    BY <2>1, ActedOn, LetterFacts, KeyFacts
  <2>3. CASE Ignores("look")
    BY <2>2, <2>3, IgnoresKeeps
  <2>4. CASE Acts({"c"}, "look")
    <3>1. used' = 1 => same \/ (slot.kind = "letter" /\ slot.char \in {"c"} \ {seen.char})
      BY <2>2, <2>4, SlotFacts DEF Acts, KeyInv
    <3>2. "c" \in Reads \/ Ignores("look")
      BY <1>8 DEF CardsCheck, checkMatch
    <3>3. CASE "c" \in Reads
      <4>1. same => slot = Letter("c")
        <5>1. same => seen = slot
          BY <2>1, SlotFacts DEF KeyInv
        <5> QED  BY <2>1, <3>3, <5>1, KeyFacts, ReadsFacts DEF KeyInv
      <4>2. slot.kind = "letter" /\ slot.char = "c" => slot = Letter("c")
        BY SlotFacts DEF KeyInv
      <4>3. used' = 1 => slot = Letter("c")
        BY <3>1, <4>1, <4>2
      <4>4. /\ used' \in 0..1
            /\ slot' = slot /\ seen' = Nothing /\ at' = "look" /\ same'
        BY <2>2, <2>4 DEF KeyInv, Acts, Acting
      <4> QED  BY <2>1, <4>3, <4>4, LetterFacts DEF KeyInv
    <3> QED  BY <2>3, <3>2, <3>3
  <2> QED  BY <1>8, <2>3, <2>4 DEF CardsCheck, checkMatch
<1>9. CASE NothingSeen
  <2>1. /\ \E next \in {"look", "clear"} : Ignores(next)
        /\ seen \in {Nothing, Enter}
        /\ at = "act"
    BY <1>9 DEF NothingSeen, Ignores, Acting
  <2>2. used = 1 => slot = Nothing
    BY <2>1, ActedOn, LetterFacts, KeyFacts
  <2> QED  BY <2>1, <2>2, IgnoresKeeps
<1>10. CASE ClearSlot
  <2>1. Clear
    BY <1>10 DEF ClearSlot
  <2> QED  BY <2>1, LetterFacts DEF Clear, KeyInv
<1>11. CASE KeyboardLetter
  <2>1. PICK c \in Letters : Press(Letter(c))
    BY <1>11, ShellAssumption DEF KeyboardLetter
  <2>2. Letter(c) # Enter /\ Letter(c) \in Keys /\ Letter(c).char \in Letters
    BY LetterFacts DEF Letter, Enter, Keys
  <2> QED  BY <2>1, <2>2 DEF Press, KeyInv
<1>12. CASE KeyboardEnter
  <2>1. /\ slot' = IF seen.kind = "letter" THEN [Enter EXCEPT !.char = slot.char] ELSE Enter
        /\ used' = 0 /\ same' = FALSE /\ UNCHANGED <<at, seen>>
    BY <1>12 DEF KeyboardEnter, Press
  <2>2. CASE seen.kind = "letter"
    <3>1. slot' = [kind |-> "enter", char |-> slot.char] /\ slot.char \in Letters
      BY <2>1, <2>2 DEF KeyInv, Enter
    <3>2. slot' \in Behind /\ slot'.char \in Letters
      BY <3>1 DEF Behind
    <3> QED  BY <2>1, <3>2 DEF KeyInv
  <2>3. CASE seen.kind # "letter"
    BY <2>1, <2>3, LetterFacts DEF KeyInv
  <2> QED  BY <2>2, <2>3
<1>13. ASSUME UNCHANGED <<slot, seen, used, same, at, app>>
       PROVE  KeyInv'
  BY <1>13 DEF KeyInv
<1>14. CASE RenderScreenKernel \/ LookAround
  BY <1>1, <1>14 DEF RenderScreenKernel, LookAround
<1>15. CASE KeyboardAlt \/ KeyboardRightShift \/ LineOverruns \/ UNCHANGED vars
  BY <1>13, <1>15
     DEF KeyboardAlt, PressAlt, ProgramsUnchanged, KeyboardRightShift, LineOverruns,
         vars, slotVars
<1> QED
  BY <1>2, <1>3, <1>4, <1>5, <1>6, <1>7, <1>8, <1>9, <1>10, <1>11, <1>12,
     <1>14, <1>15
     DEF Next, ProgramStep, keyboard_handler_main

(* A key counts once, whatever program it is meant for and whatever comes  *)
(* between the steps of a poll.                                            *)
THEOREM KeysCountOnce == Spec => []KeyActedOnOnce
<1>1. Init => KeyInv
  BY LetterFacts DEF Init, SlotInit, KeyInv
<1>2. KeyInv => KeyActedOnOnce
  BY DEF KeyInv, KeyActedOnOnce
<1> QED
  BY <1>1, <1>2, KeyStep, PTL DEF Spec

-----------------------------------------------------------------------------
(* The cards.                                                              *)

(* One more behind the first.                                              *)
LEMMA SecondPlace ==
    ASSUME NEW S, NEW p \in S, NEW q \in S
    PROVE  Append(<<p>>, q) = <<p, q>>
<1>1. <<p>> \in Seq(S) /\ <<p, q>> \in Seq(S) /\ Len(<<p>>) = 1 /\ Len(<<p, q>>) = 2
  OBVIOUS
<1>2. Append(<<p>>, q) \in Seq(S) /\ Len(Append(<<p>>, q)) = 2
  BY <1>1, AppendProperties
<1>3. \A i \in 1..2 : Append(<<p>>, q)[i] = <<p, q>>[i]
  BY <1>1, AppendProperties
<1> QED
  BY <1>1, <1>2, <1>3, SeqEqual

(* A card turned up is the one turned last, and noted.                     *)
LEMMA TurnUpKeepsNotes ==
    ASSUME CardInv, NEW here \in Places, TurnUp(here), UNCHANGED <<exPos, eyPos>>
    PROVE  CardInv'
<1>1. /\ here \notin eChecked /\ checkedCounter < 2
      /\ eChecked' = eChecked \cup {here}
      /\ card1' = IF checkedCounter = 0 THEN eCard[here] ELSE card1
      /\ card2' = IF checkedCounter = 1 THEN eCard[here] ELSE card2
      /\ checkedCounter' = checkedCounter + 1
      /\ turned' = Append(turned, here) /\ outOfTurn' = outOfTurn
  BY DEF TurnUp
<1>2. eCard[here] # NoCard
  BY CardsAssumption DEF Places, NoCard
<1>3. CASE /\ checkedCounter = 0 /\ turned = <<>> /\ eChecked = {}
           /\ card1 = NoCard /\ card2 = NoCard
  <2>1. OneUp(here)'
    BY <1>1, <1>2, <1>3 DEF OneUp
  <2> QED  BY <2>1 DEF CardInv
<1>4. ASSUME NEW p \in Places, OneUp(p)
      PROVE  CardInv'
  <2>0. /\ checkedCounter = 1 /\ turned = <<p>> /\ eChecked = {p}
        /\ turned' = Append(turned, here) /\ here \notin eChecked
    BY <1>1, <1>4 DEF OneUp
  <2>1. p # here /\ eChecked' = {p, here} /\ checkedCounter' = 2
    BY <1>1, <2>0
  <2>2. turned' = <<p, here>>
    BY <2>0, SecondPlace
  <2>3. /\ card1' # NoCard /\ card2' = eCard[here]
        /\ ~outOfTurn => card1' = eCard[p]
    BY <1>1, <1>4 DEF OneUp
  <2>4. TwoUp(p, here)'
    BY <1>1, <1>2, <2>1, <2>2, <2>3 DEF TwoUp
  <2> QED  BY <2>1, <2>4 DEF CardInv
<1>5. ~ \E p, q \in Places : p # q /\ TwoUp(p, q)
  BY <1>1 DEF TwoUp
<1> QED
  BY <1>3, <1>4, <1>5 DEF CardInv

(* A card turned down is the last, or its note is kept out of turn.        *)
LEMMA TurnDownKeepsNotes ==
    ASSUME CardInv, NEW here \in Places, TurnDown(here), UNCHANGED <<exPos, eyPos>>
    PROVE  CardInv'
<1>1. /\ here \in eChecked
      /\ eChecked' = eChecked \ {here}
      /\ card2' = IF checkedCounter = 2 THEN NoCard ELSE card2
      /\ card1' = IF checkedCounter = 1 THEN NoCard ELSE card1
      /\ checkedCounter' = checkedCounter - 1
      /\ turned' = IF here = Head(turned) THEN Tail(turned) ELSE <<Head(turned)>>
      /\ outOfTurn' = (checkedCounter = 2 /\ (outOfTurn \/ here = Head(turned)))
  BY DEF TurnDown
<1>2. ASSUME NEW p \in Places, OneUp(p)
      PROVE  CardInv'
  <2>1. here = p /\ Head(turned) = p /\ Tail(turned) = <<>>
    BY <1>1, <1>2 DEF OneUp
  <2>2. /\ checkedCounter' = 0 /\ turned' = <<>> /\ eChecked' = {}
        /\ card1' = NoCard /\ card2' = NoCard
    BY <1>1, <1>2, <2>1 DEF OneUp
  <2> QED  BY <2>2 DEF CardInv
<1>3. ASSUME NEW p \in Places, NEW q \in Places, p # q, TwoUp(p, q)
      PROVE  CardInv'
  <2>1. /\ here \in {p, q} /\ Head(turned) = p /\ Tail(turned) = <<q>>
        /\ checkedCounter' = 1 /\ card1' # NoCard /\ card2' = NoCard
    BY <1>1, <1>3 DEF TwoUp
  <2>2. CASE here = p
    <3>1. OneUp(q)'
      BY <1>1, <1>3, <2>1, <2>2 DEF OneUp, TwoUp
    <3> QED  BY <3>1 DEF CardInv
  <2>3. CASE here = q
    <3>1. OneUp(p)'
      BY <1>1, <1>3, <2>1, <2>3 DEF OneUp, TwoUp
    <3> QED  BY <3>1 DEF CardInv
  <2> QED  BY <2>1, <2>2, <2>3
<1>4. eChecked # {}
  BY <1>1
<1> QED
  BY <1>2, <1>3, <1>4 DEF CardInv

(* Every step keeps the notes in step with the cards.                      *)
LEMMA CardStep == CardInv /\ [Next]_vars => CardInv'
<1> SUFFICES ASSUME CardInv, [Next]_vars
             PROVE  CardInv'
  OBVIOUS
<1>1. ASSUME UNCHANGED <<exPos, eyPos, notes>>
      PROVE  CardInv'
  BY <1>1 DEF CardInv, OneUp, TwoUp, notes
<1>2. ASSUME NEW c \in Reads, eMove(c)
      PROVE  CardInv'
  <2>1. PICK to : /\ to = <<eyPos + Step(c)[1], exPos + Step(c)[2]>>
                  /\ IF to \in Places THEN eyPos' = to[1] /\ exPos' = to[2]
                                      ELSE UNCHANGED <<eyPos, exPos>>
    BY <1>2 DEF eMove
  <2>2. CASE to \in Places
    <3>1. to \in Nat \X Nat /\ eyPos' = to[1] /\ exPos' = to[2]
      BY <2>1, <2>2, CardsAssumption DEF Places
    <3>2. to = <<to[1], to[2]>> /\ to[1] \in Nat /\ to[2] \in Nat
      BY <3>1
    <3>3. UNCHANGED notes
      BY <1>2 DEF eMove
    <3>4. eyPos' \in Nat /\ exPos' \in Nat /\ <<eyPos', exPos'>> \in Places
      BY <2>2, <3>1, <3>2
    <3> QED  BY <3>3, <3>4 DEF notes, CardInv, OneUp, TwoUp
  <2>3. CASE to \notin Places
    <3>1. UNCHANGED <<eyPos, exPos>>
      BY <2>1, <2>3
    <3> QED  BY <1>1, <1>2, <3>1 DEF eMove
  <2> QED  BY <2>2, <2>3
<1>3. CASE Cards
  <2>1. CASE UNCHANGED c2Vars
    BY <1>1, <2>1 DEF c2Vars
  <2>2. ASSUME eTurn
        PROVE  CardInv'
    <3>1. PICK here \in Places : here = <<eyPos, exPos>>
      BY DEF CardInv
    <3>2. \/ TurnUp(here) \/ TurnDown(here)
          \/ UNCHANGED notes
      BY <2>2, <3>1 DEF eTurn
    <3>3. UNCHANGED <<exPos, eyPos>>
      BY <2>2 DEF eTurn
    <3> QED  BY <1>1, <3>2, <3>3, TurnUpKeepsNotes, TurnDownKeepsNotes
  <2> QED  BY <1>2, <1>3, <2>1, <2>2 DEF Cards, eCursor
<1>4. CASE CardsMenu
  BY <1>1, <1>4 DEF CardsMenu, eRender
<1>5. CASE CardsCheck
  BY <1>1, <1>5 DEF CardsCheck, checkMatch, c2Vars
<1>6. ASSUME UNCHANGED c2Vars
      PROVE  CardInv'
  BY <1>1, <1>6 DEF c2Vars
<1>7. CASE commandCheck
  BY <1>6, <1>7 DEF commandCheck, NoCommand, help, hex, runNothing, runCards,
                    runTicTac, settings
<1>8. CASE RenderScreenKernel \/ keyCheckLetter \/ GetKeySettings \/ ColorPicker
  BY <1>6, <1>8 DEF RenderScreenKernel, keyCheckLetter, GetKeySettings, ColorPicker
<1>9. CASE TicTacMenu \/ TicTacMain \/ LookAround
  BY <1>6, <1>9 DEF TicTacMenu, TicTacMain, LookAround
<1>10. CASE NothingSeen \/ ClearSlot
  <2>1. UNCHANGED c2Vars
    BY <1>10 DEF NothingSeen, ClearSlot
  <2> QED  BY <1>6, <2>1
<1>11. CASE keyboard_handler_main \/ LineOverruns
  BY <1>6, <1>11 DEF keyboard_handler_main, KeyboardLetter, KeyboardEnter,
                     KeyboardAlt, KeyboardRightShift, ProgramsUnchanged, LineOverruns
<1>12. CASE UNCHANGED vars
  BY <1>6, <1>12 DEF vars
<1> QED
  BY <1>3, <1>4, <1>5, <1>7, <1>8, <1>9, <1>10, <1>11, <1>12
     DEF Next, ProgramStep

(* As many cards are noted as lie face up, and the notes are their faces   *)
(* unless the first of two has been turned down: over every order of       *)
(* turning any cards up and down.                                          *)
THEOREM NotesAreRight == Spec => []NotedCardsLieFaceUp
<1>1. Init => CardInv
  <2> SUFFICES ASSUME C2Init
               PROVE  CardInv
    BY DEF Init
  <2>1. exPos = 0 /\ eyPos = 0 /\ <<eyPos, exPos>> \in Places
    BY CardsAssumption DEF C2Init, Places
  <2> QED  BY <2>1 DEF C2Init, CardInv
<1>2. CardInv => NotedCardsLieFaceUp
  <2> SUFFICES ASSUME CardInv
               PROVE  NotedCardsLieFaceUp
    OBVIOUS
  <2>1. CASE /\ checkedCounter = 0 /\ turned = <<>> /\ eChecked = {}
             /\ card1 = NoCard /\ card2 = NoCard
    <3>1. Cardinality(eChecked) = 0 /\ Range(turned) = {}
      BY <2>1, FS_EmptySet DEF Range
    <3> QED  BY <2>1, <3>1 DEF NotedCardsLieFaceUp
  <2>2. ASSUME NEW p \in Places, OneUp(p)
        PROVE  NotedCardsLieFaceUp
    <3>1. Cardinality({p}) = 1
      BY FS_Singleton
    <3>2. Range(<<p>>) = {p}
      BY DEF Range
    <3> QED  BY <2>2, <3>1, <3>2 DEF OneUp, NotedCardsLieFaceUp
  <2>3. ASSUME NEW p \in Places, NEW q \in Places, p # q, TwoUp(p, q)
        PROVE  NotedCardsLieFaceUp
    <3>1. IsFiniteSet({p}) /\ Cardinality({p}) = 1
      BY FS_Singleton
    <3>2. Cardinality({p, q}) = 2
      <4>1. Cardinality({p} \cup {q}) = Cardinality({p}) + 1
        BY <2>3, <3>1, FS_AddElement
      <4>2. {p, q} = {p} \cup {q}
        OBVIOUS
      <4> QED  BY <3>1, <4>1, <4>2
    <3>3. Range(<<p, q>>) = {p, q}
      BY DEF Range
    <3> QED  BY <2>3, <3>2, <3>3 DEF TwoUp, NotedCardsLieFaceUp
  <2> QED  BY <2>1, <2>2, <2>3 DEF CardInv
<1> QED
  BY <1>1, <1>2, CardStep, PTL DEF Spec

-----------------------------------------------------------------------------
(* The line.                                                               *)

(* The column behind the prompt.                                           *)
LEMMA HomeColumn == CURSORX_HOME \in Int
BY DEF CURSORX_HOME

(* The letters of a command but the last.                                  *)
LEMMA FrontFacts ==
    ASSUME NEW s \in Seq(Letters), Len(s) > 0
    PROVE  /\ Front(s) \in Seq(Letters) /\ Len(Front(s)) = Len(s) - 1
           /\ \A i \in 1 .. Len(s) - 1 : Front(s)[i] = s[i]
<1>1. Len(s) \in Nat /\ \A i \in 1 .. Len(s) - 1 : s[i] \in Letters
  OBVIOUS
<1>2. /\ SubSeq(s, 1, Len(s) - 1) \in Seq(Letters)
      /\ Len(SubSeq(s, 1, Len(s) - 1)) =
            IF 1 <= Len(s) - 1 THEN (Len(s) - 1) - 1 + 1 ELSE 0
      /\ \A i \in 1 .. (Len(s) - 1) - 1 + 1 : SubSeq(s, 1, Len(s) - 1)[i] = s[1 + i - 1]
  BY <1>1, SubSeqProperties
<1>3. (Len(s) - 1) - 1 + 1 = Len(s) - 1 /\ \A i \in Int : 1 + i - 1 = i
  BY <1>1
<1> HIDE DEF Front
<1>4. Front(s) = SubSeq(s, 1, Len(s) - 1)
  BY DEF Front
<1> QED
  BY <1>1, <1>2, <1>3, <1>4

(* The argument of a command is made of letters.                           *)
LEMMA ArgumentType ==
    ASSUME LineTypes, NEW name \in Names
    PROVE  Argument(name) \in Seq(Letters)
<1>1. Len(name) \in Nat /\ Len(command) \in Nat
  BY ShellAssumption DEF LineTypes
<1>2. \A i \in Len(name) + 2 .. Len(command) : command[i] \in Letters
  BY <1>1 DEF LineTypes
<1> QED
  BY <1>1, <1>2, SubSeqProperties DEF Argument

(* A mark put into the row.                                                *)
LEMMA WrittenFacts ==
    ASSUME LineTypes, NEW x \in Int, NEW c \in RowMarks
    PROVE  /\ Written(x, c) \in [Columns -> RowMarks]
           /\ \A y \in Columns : y # x => Written(x, c)[y] = row[y]
           /\ x \in Columns => Written(x, c)[x] = c
BY DEF Written, LineTypes, RowMarks

(* An empty row.                                                           *)
LEMMA FreshRowType == FreshRow \in [Columns -> RowMarks]
BY DEF FreshRow, RowMarks

(* The cursor's row and the screen's, when the cursor goes to a row.       *)
LEMMA ScrolledRows ==
    ASSUME LineRows, NEW y \in 1..Rows, thing(y), cursorY' = y,
           ~(app' = "shell" /\ at' = "act" /\ kernel' = "running")
    PROVE  LineRows'
BY ShellAssumption DEF LineRows, thing

(* A command ends, or a program or the settings return to the shell.       *)
LEMMA ReturnsToLine ==
    ASSUME LineTypes, LineRows, NEW y \in 1..Rows, Returns(y), at' = "clear",
           row' \in [Columns -> RowMarks]
    PROVE  LineInv'
<1>1. /\ thing(y) /\ cursorY' = y
      /\ command' = <<>> /\ commandCounter' = 0 /\ cursorX' = CURSORX_HOME
      /\ mixed' = FALSE /\ app' = "shell"
  BY DEF Returns, thing
<1>2. LineTypes'
  <2>1. command' \in Seq(Letters)
    BY <1>1
  <2>2. /\ commandCounter' \in Int /\ cursorX' \in Int /\ mixed' \in BOOLEAN
        /\ commandCounter' <= CommandPlaces
    <3>1. CURSORX_HOME \in Int /\ 0 \in Int /\ FALSE \in BOOLEAN /\ 0 <= CommandPlaces
      BY ShellAssumption DEF CURSORX_HOME
    <3> QED  BY <1>1, <3>1
  <2> QED  BY <2>1, <2>2 DEF LineTypes
<1>3. LineRows'
  BY <1>1, ScrolledRows
<1>4. LineShowsCommand'
  BY <1>1 DEF LineShowsCommand, CURSORX_HOME
<1> QED
  BY <1>2, <1>3, <1>4 DEF LineInv

(* A program runs, or the machine has stopped: the line says nothing.      *)
LEMMA LineAway ==
    ASSUME LineTypes', LineRows', app' # "shell" \/ kernel' # "running"
    PROVE  LineInv'
BY DEF LineInv, LineShowsCommand

(* The line stays, and the shell does not begin to act.                    *)
LEMMA LineStays ==
    ASSUME LineInv, UNCHANGED lineVars, app' = app, kernel' = kernel,
           at' = "act" => at = "act"
    PROVE  LineInv'
<1>1. LineTypes' /\ LineShowsCommand'
  BY DEF LineInv, LineTypes, LineShowsCommand, lineVars
<1>2. LineRows'
  BY DEF LineInv, LineRows, lineVars
<1> QED
  BY <1>1, <1>2 DEF LineInv

(* The letters of the command lie in columns that are kept.                *)
LEMMA LettersHaveColumns ==
    ASSUME LineInv, kernel = "running", app = "shell"
    PROVE  /\ Len(command) \in Nat /\ Len(command) <= CommandPlaces
           /\ \A i \in 1 .. Len(command) : i + 1 \in Columns /\ i + 1 # 1
<1>1. /\ Len(command) \in Nat /\ Len(command) <= CommandPlaces
      /\ CommandPlaces \in Nat
  BY ShellAssumption DEF LineInv, LineTypes, LineShowsCommand
<1> QED
  BY <1>1 DEF Columns, CURSORX_HOME

(* The prompt does not touch the letters.                                  *)
LEMMA PromptStep ==
    ASSUME LineInv, RenderScreenKernel
    PROVE  LineInv'
<1>1. /\ at = "look" /\ at' = "act" /\ cursorY < Rows
      /\ app' = app /\ app = "shell" /\ kernel' = kernel /\ kernel = "running"
      /\ row' = [row EXCEPT ![1] = ">"]
      /\ UNCHANGED <<command, commandCounter, cursorX, cursorY, ListStart, mixed>>
  BY DEF RenderScreenKernel, Look
<1>2. /\ row' \in [Columns -> RowMarks]
      /\ \A y \in Columns : y # 1 => row'[y] = row[y]
  <2>1. ">" \in RowMarks
    BY DEF RowMarks
  <2> QED  BY <1>1, <2>1 DEF LineInv, LineTypes
<1>3. LineTypes'
  BY <1>1, <1>2 DEF LineInv, LineTypes
<1>4. LineRows'
  BY <1>1 DEF LineInv, LineRows
<1>5. LineShowsCommand'
  BY <1>1, <1>2, LettersHaveColumns DEF LineInv, LineShowsCommand
<1> QED
  BY <1>3, <1>4, <1>5 DEF LineInv

(* The clock writes over its own columns only, wherever it stands.         *)
LEMMA ClockStep ==
    ASSUME LineInv, kernel = "running", app = "shell", Seconds,
           app' = app, kernel' = kernel, at' = "look",
           UNCHANGED <<command, commandCounter, cursorX, cursorY, ListStart, mixed>>
    PROVE  LineInv'
<1>1. PICK r : r = ListStart - cursorY
  OBVIOUS
<1>2. r \in -Rows..Rows
  BY <1>1, ShellAssumption DEF LineInv, LineRows
<1>3. row' = [x \in Columns |->
                 IF x - r * Width \in ClockColumns THEN ClockDigit ELSE row[x]]
  BY <1>1 DEF Seconds
<1>4. \A x \in Columns : row'[x] = row[x] \/ (row'[x] = ClockDigit /\ UnderClock(x))
  BY <1>2, <1>3 DEF UnderClock
<1>5. LineTypes'
  <2>1. row' \in [Columns -> RowMarks]
    BY <1>3 DEF LineInv, LineTypes, RowMarks
  <2> QED  BY <2>1 DEF LineInv, LineTypes
<1>6. LineRows'
  BY DEF LineInv, LineRows
<1>7. LineShowsCommand'
  <2>1. \A i \in 1 .. Len(command) : i + 1 \in Columns
    BY LettersHaveColumns
  <2> QED  BY <1>4, <2>1 DEF LineInv, LineShowsCommand
<1> QED
  BY <1>5, <1>6, <1>7 DEF LineInv

(* Backspace takes the last letter from the command and from the row, and  *)
(* nothing once both are past their starts.                                *)
LEMMA BackspaceStep ==
    ASSUME LineInv, kernel = "running", app = "shell",
           Backspace, at' = "clear", app' = app, cursorY' = cursorY
    PROVE  LineInv'
<1>1. /\ commandCounter \in Int /\ cursorX = CURSORX_HOME + commandCounter
      /\ command \in Seq(Letters)
      /\ Len(command) = (IF commandCounter > 0 THEN commandCounter ELSE 0)
      /\ commandCounter <= CommandPlaces /\ CommandPlaces \in Nat
      /\ mixed \in BOOLEAN
  BY ShellAssumption DEF LineInv, LineTypes, LineShowsCommand
<1>2. /\ cursorX' = cursorX - 1 /\ commandCounter' = commandCounter - 1
      /\ row' = Written(cursorX - 1, Blank) /\ mixed' = mixed
      /\ command' = IF commandCounter > 0 THEN Front(command) ELSE command
  BY DEF Backspace
<1>3. cursorX - 1 \in Int /\ cursorX - 1 = commandCounter + 1
  BY <1>1 DEF CURSORX_HOME
<1>4. /\ row' \in [Columns -> RowMarks]
      /\ \A y \in Columns : y # commandCounter + 1 => row'[y] = row[y]
  BY <1>2, <1>3, WrittenFacts DEF LineInv, RowMarks
<1>5. /\ command' \in Seq(Letters)
      /\ Len(command') = (IF commandCounter' > 0 THEN commandCounter' ELSE 0)
      /\ \A i \in 1 .. Len(command') : i < commandCounter
                                        /\ command'[i] = command[i]
  <2>1. CASE commandCounter > 0
    <3>1. command' = Front(command) /\ Len(command) = commandCounter
      BY <1>1, <1>2, <2>1
    <3>2. /\ command' \in Seq(Letters) /\ Len(command') = Len(command) - 1
          /\ \A i \in 1 .. Len(command) - 1 : command'[i] = command[i]
      BY <1>1, <2>1, <3>1, FrontFacts
    <3>3. Len(command') = commandCounter' /\ commandCounter' \in Nat
      BY <1>1, <1>2, <2>1, <3>1, <3>2
    <3> QED  BY <1>1, <1>2, <2>1, <3>1, <3>2, <3>3
  <2>2. CASE ~ commandCounter > 0
    <3>1. command' = command /\ Len(command) = 0 /\ ~ commandCounter' > 0
      BY <1>1, <1>2, <2>2
    <3> QED  BY <1>1, <3>1
  <2> QED  BY <2>1, <2>2
<1>6. LineTypes'
  BY <1>1, <1>2, <1>3, <1>4, <1>5 DEF LineTypes, RowMarks
<1>7. LineRows'
  BY DEF LineInv, LineRows, Backspace, TypeLetter
<1>8. LineShowsCommand'
  <2>1. cursorX' = CURSORX_HOME + commandCounter'
    BY <1>1, <1>2 DEF CURSORX_HOME
  <2>2. ASSUME ~mixed, NEW i \in 1 .. Len(command')
        PROVE  row'[i + 1] = command'[i] \/ (row'[i + 1] = ClockDigit /\ UnderClock(i + 1))
    <3>1. /\ i \in 1 .. Len(command) /\ i + 1 \in Columns
          /\ i + 1 # commandCounter + 1
      BY <1>1, <1>5 DEF Columns, CURSORX_HOME
    <3>2. row[i + 1] = command[i] \/ (row[i + 1] = ClockDigit /\ UnderClock(i + 1))
      BY <2>2, <3>1 DEF LineInv, LineShowsCommand
    <3> QED  BY <1>4, <1>5, <3>1, <3>2
  <2> QED  BY <1>2, <1>5, <2>1, <2>2 DEF LineShowsCommand
<1> QED
  BY <1>6, <1>7, <1>8 DEF LineInv

(* A letter goes to the end of the command and of the row.                 *)
LEMMA TypeStep ==
    ASSUME LineInv, kernel = "running", app = "shell",
           NEW c \in Letters, NEW d \in Letters,
           LetterFits, TypeLetter(c, d), at' = "clear", app' = app, cursorY' = cursorY
    PROVE  LineInv'
<1>1. /\ commandCounter \in Int /\ cursorX = CURSORX_HOME + commandCounter
      /\ command \in Seq(Letters)
      /\ Len(command) = (IF commandCounter > 0 THEN commandCounter ELSE 0)
      /\ commandCounter < CommandPlaces /\ CommandPlaces \in Nat /\ mixed \in BOOLEAN
  BY ShellAssumption DEF LineInv, LineTypes, LineShowsCommand, LetterFits
<1>2. /\ cursorX' = cursorX + 1 /\ commandCounter' = commandCounter + 1
      /\ mixed' = (mixed \/ c # d)
      /\ row' = IF mixed' THEN FreshRow ELSE Written(cursorX, d)
      /\ command' = IF commandCounter >= 0 THEN Append(command, c) ELSE command
  BY DEF TypeLetter
<1>3. cursorX \in Int /\ cursorX = commandCounter + 2
  BY <1>1 DEF CURSORX_HOME
<1>4. /\ Written(cursorX, d) \in [Columns -> RowMarks]
      /\ \A y \in Columns : y # commandCounter + 2 => Written(cursorX, d)[y] = row[y]
      /\ commandCounter + 2 \in Columns => Written(cursorX, d)[commandCounter + 2] = d
  BY <1>3, WrittenFacts DEF LineInv, RowMarks
<1>9. row' \in [Columns -> RowMarks] /\ (~mixed' => row' = Written(cursorX, d))
  BY <1>2, <1>4, FreshRowType
<1>5. /\ command' \in Seq(Letters)
      /\ Len(command') = (IF commandCounter' > 0 THEN commandCounter' ELSE 0)
      /\ \A i \in 1 .. Len(command') :
            \/ i \in 1 .. Len(command) /\ command'[i] = command[i]
            \/ i = commandCounter + 1 /\ commandCounter >= 0 /\ command'[i] = c
  <2>1. CASE commandCounter >= 0
    <3>1. /\ command' = Append(command, c) /\ Len(command) = commandCounter
      BY <1>1, <1>2, <2>1
    <3>2. /\ command' \in Seq(Letters) /\ Len(command') = Len(command) + 1
          /\ \A i \in 1 .. Len(command) : command'[i] = command[i]
          /\ command'[Len(command) + 1] = c
      BY <1>1, <3>1, AppendProperties
    <3>3. Len(command') = commandCounter' /\ commandCounter' > 0
      BY <1>1, <1>2, <2>1, <3>1, <3>2
    <3> QED  BY <1>1, <2>1, <3>1, <3>2, <3>3
  <2>2. CASE ~ commandCounter >= 0
    <3>1. command' = command /\ Len(command) = 0 /\ ~ commandCounter' > 0
      BY <1>1, <1>2, <2>2
    <3> QED  BY <1>1, <3>1
  <2> QED  BY <2>1, <2>2
<1>6. LineTypes'
  BY <1>1, <1>2, <1>3, <1>9, <1>5 DEF LineTypes, RowMarks
<1>7. LineRows'
  BY DEF LineInv, LineRows, Backspace, TypeLetter
<1>8. LineShowsCommand'
  <2>1. cursorX' = CURSORX_HOME + commandCounter'
    BY <1>1, <1>2 DEF CURSORX_HOME
  <2>2. ASSUME ~mixed', NEW i \in 1 .. Len(command')
        PROVE  row'[i + 1] = command'[i] \/ (row'[i + 1] = ClockDigit /\ UnderClock(i + 1))
    <3>1. ~mixed /\ c = d /\ row' = Written(cursorX, d)
      BY <1>2, <1>9, <2>2
    <3>2. CASE i \in 1 .. Len(command) /\ command'[i] = command[i]
      <4>1. i + 1 \in Columns /\ i + 1 # commandCounter + 2
        BY <1>1, <3>2 DEF Columns, CURSORX_HOME
      <4>2. row[i + 1] = command[i] \/ (row[i + 1] = ClockDigit /\ UnderClock(i + 1))
        BY <3>1, <3>2 DEF LineInv, LineShowsCommand
      <4> QED  BY <1>4, <3>1, <3>2, <4>1, <4>2
    <3>3. CASE i = commandCounter + 1 /\ commandCounter >= 0 /\ command'[i] = c
      <4>1. i + 1 = commandCounter + 2 /\ commandCounter + 2 \in Columns
        BY <1>1, <3>3 DEF Columns, CURSORX_HOME
      <4> QED  BY <1>4, <3>1, <3>3, <4>1
    <3> QED  BY <1>5, <3>2, <3>3
  <2> QED  BY <1>5, <2>1, <2>2 DEF LineShowsCommand
<1> QED
  BY <1>6, <1>7, <1>8 DEF LineInv

(* Every step keeps the line and the command together.                     *)
LEMMA LineStep == KeyInv /\ LineInv /\ [Next]_vars => LineInv'
<1> SUFFICES ASSUME KeyInv, LineInv, [Next]_vars
             PROVE  LineInv'
  OBVIOUS
<1>0. LineTypes /\ LineRows /\ cursorY \in 1..Rows /\ cursorY \in Nat /\ Rows \in Nat
  BY ShellAssumption DEF LineInv, LineRows
<1>1. ASSUME UNCHANGED lineVars, app' # "shell" \/ kernel' # "running"
      PROVE  LineInv'
  <2>1. LineTypes'
    BY <1>0, <1>1 DEF LineTypes, lineVars
  <2>2. LineRows'
    BY <1>0, <1>1 DEF LineRows, lineVars
  <2> QED  BY <1>1, <2>1, <2>2, LineAway
<1>2. ASSUME UNCHANGED lineVars, UNCHANGED <<app, kernel>>, at' = "clear"
      PROVE  LineInv'
  BY <1>2, LineStays
<1>3. CASE RenderScreenKernel
  BY <1>3, PromptStep
<1>4. CASE keyCheckLetter
  <2>1. /\ app = "shell" /\ app' = app /\ cursorY' = cursorY /\ seen.kind = "letter"
        /\ kernel = "running" /\ kernel' = kernel
        /\ at = "act" /\ at' = "clear"
    BY <1>4 DEF keyCheckLetter, Acts, Acting
  <2>2. \/ Backspace
        \/ UNCHANGED <<command, commandCounter, cursorX, ListStart, row, mixed>>
        \/ ScrollTo(ListStart + 1) \/ ScrollTo(ListStart - 1)
        \/ LetterFits /\ \E c, d \in Reads : TypeLetter(c, d)
    BY <1>4 DEF keyCheckLetter
  <2>3. CASE UNCHANGED <<command, commandCounter, cursorX, ListStart, row, mixed>>
    <3>1. UNCHANGED lineVars
      BY <2>1, <2>3 DEF lineVars
    <3> QED  BY <1>2, <2>1, <3>1
  <2>4. ASSUME NEW y, ScrollTo(y)
        PROVE  LineInv'
    <3>1. UNCHANGED <<command, commandCounter, cursorX, row, mixed>>
      BY <2>4 DEF ScrollTo
    <3>2. LineTypes' /\ LineShowsCommand'
      BY <2>1, <3>1 DEF LineInv, LineTypes, LineShowsCommand
    <3>3. ListStart' \in 0..Rows
      BY <1>0, <2>4 DEF ScrollTo, LineRows
    <3>4. LineRows'
      BY <1>0, <2>1, <3>3 DEF LineRows
    <3> QED  BY <3>2, <3>4 DEF LineInv
  <2>5. ASSUME LetterFits, NEW c \in Reads, NEW d \in Reads, TypeLetter(c, d)
        PROVE  LineInv'
    <3>1. c \in Letters /\ d \in Letters
      BY <2>1, ReadsFacts
    <3> QED  BY <2>1, <2>5, <3>1, TypeStep
  <2> QED  BY <2>1, <2>2, <2>3, <2>4, <2>5, BackspaceStep
<1>5. ASSUME NEW y \in 1..Rows, Returns(y), at' = "clear", row' = FreshRow \/ row' = row
      PROVE  LineInv'
  <2>1. row' \in [Columns -> RowMarks]
    BY <1>0, <1>5, FreshRowType DEF LineTypes
  <2> QED  BY <1>0, <1>5, <2>1, ReturnsToLine
<1>5a. cursorY < Rows => cursorY + 1 \in 1..Rows
  BY <1>0, ShellAssumption
<1>6. ASSUME NEW program \in {"cards menu", "tictac menu", "settings"},
             Starts(program, "look"), cursorY < Rows
      PROVE  LineInv'
  <2>1. /\ app' = program /\ cursorX' = CURSORX_HOME /\ cursorY' = cursorY + 1
        /\ row' = FreshRow /\ mixed' = FALSE
        /\ UNCHANGED <<command, commandCounter, ListStart>>
    BY <1>6 DEF Starts
  <2>2. CURSORX_HOME \in Int
    BY HomeColumn
  <2>3. LineTypes'
    BY <1>0, <2>1, <2>2, FreshRowType DEF LineTypes
  <2>4. LineRows'
    <3>1. cursorY' \in 1..Rows
      BY <1>6, <1>5a, <2>1
    <3> QED  BY <1>0, <2>1, <3>1 DEF LineRows
  <2> QED  BY <2>1, <2>3, <2>4, LineAway
<1>7. CASE hex
  <2>1. /\ Returns(cursorY + 2) /\ at' = "clear" /\ cursorY + 2 < Rows
        /\ row' = LET a == Argument(Hex)
                  IN [x \in Columns |->
                        IF x - 4 \in 1..(IF Len(a) < 8 THEN Len(a) ELSE 8)
                        THEN a[x - 4] ELSE Blank]
    BY <1>7 DEF hex, Takes, Acting
  <2>2. PICK a : a = Argument(Hex)
    OBVIOUS
  <2>3. a \in Seq(Letters)
    BY <1>0, <2>2, ArgumentType DEF Names
  <2>4. \A x \in Columns : x - 4 \in 1..(IF Len(a) < 8 THEN Len(a) ELSE 8) =>
           a[x - 4] \in Letters
    BY <2>3
  <2>5. row' \in [Columns -> RowMarks]
    BY <2>1, <2>2, <2>4 DEF RowMarks
  <2>6. cursorY + 2 \in 1..Rows
    BY <1>0, <2>1
  <2> QED  BY <1>0, <2>1, <2>5, <2>6, ReturnsToLine
<1>8. CASE commandCheck
  <2>0. cursorY < Rows
    <3>1. /\ \E next : Takes(next)
          /\ app = "shell"
      BY <1>8 DEF commandCheck, NoCommand, help, hex, runNothing, runCards,
                  runTicTac, settings, Starts
    <3>2. at = "act" /\ kernel = "running"
      BY <3>1 DEF Takes, Acting
    <3> QED  BY <1>0, <3>1, <3>2 DEF LineRows
  <2>1. CASE NoCommand \/ runNothing
    <3>1. cursorY + 1 \in 1..Rows
      BY <1>0, <2>0
    <3> QED  BY <1>0, <1>5, <2>1, <3>1 DEF NoCommand, runNothing, Takes, Acting
  <2>2. CASE help
    <3>1. cursorY + 4 < Rows /\ Returns(cursorY + 5) /\ row' = FreshRow /\ at' = "clear"
      BY <2>2 DEF help, Takes, Acting
    <3>2. cursorY + 5 \in 1..Rows
      BY <1>0, <3>1
    <3> QED  BY <1>5, <3>1, <3>2
  <2>3. CASE runCards \/ runTicTac \/ settings
    BY <1>6, <2>0, <2>3 DEF runCards, runTicTac, settings
  <2> QED  BY <1>7, <1>8, <2>1, <2>2, <2>3 DEF commandCheck
<1>9. CASE GetKeySettings
  <2>1. CASE seen = Enter /\ OpenPicker
    BY <1>1, <2>1 DEF OpenPicker
  <2>2. CASE seen = Enter /\ ExitSettings
    BY <1>0, <1>5, <2>2 DEF ExitSettings, Acts, Acting
  <2>3. CASE UNCHANGED <<app, Selection, chosen, lineVars>>
    BY <1>1, <1>9, <2>3 DEF GetKeySettings
  <2> QED  BY <1>9, <2>1, <2>2, <2>3 DEF GetKeySettings
<1>10. CASE ColorPicker
  <2>1. UNCHANGED lineVars /\ app' # "shell"
    BY <1>10 DEF ColorPicker, PickColour, MovePicker
  <2> QED  BY <1>1, <2>1
<1>11. CASE TicTacMain
  <2>1. /\ app = "tictac" /\ at' = "clear"
        /\ \/ UNCHANGED app /\ UNCHANGED lineVars
           \/ Returns(cursorY) /\ UNCHANGED row
    BY <1>11 DEF TicTacMain, TTKeyboard, Acts, Acting, OthersUnchanged
  <2> QED  BY <1>0, <1>1, <1>5, <2>1
<1>12. CASE TicTacMenu \/ CardsMenu \/ Cards \/ CardsCheck
  <2>1. UNCHANGED lineVars /\ app' # "shell"
    BY <1>12 DEF TicTacMenu, CardsMenu, Cards, CardsCheck, OthersUnchanged
  <2> QED  BY <1>1, <2>1
<1>13. CASE LookAround
  BY <1>1, <1>13 DEF LookAround, OthersUnchanged
<1>14. CASE NothingSeen
  <2>1. /\ UNCHANGED lineVars /\ kernel' = kernel
        /\ app' = CASE app = "cards" -> "cards check"
                    [] app = "cards check" -> "cards" [] OTHER -> app
        /\ app = "shell" => at' = "clear"
    BY <1>14 DEF NothingSeen, OthersUnchanged, Ignores, Acting
  <2>2. IF app = "shell" THEN app' = app ELSE app' # "shell"
    BY <2>1
  <2> QED  BY <1>1, <1>2, <2>1, <2>2
<1>15. CASE ClearSlot
  <2>1. /\ kernel' = kernel /\ kernel = "running" /\ at' = "look"
        /\ app' = CASE app = "cards" -> "cards check"
                    [] app = "cards menu" /\ boardRendered -> "cards"
                    [] OTHER -> app
        /\ UNCHANGED <<command, commandCounter, cursorX, cursorY, ListStart, mixed>>
        /\ \/ app = "shell" /\ Seconds
           \/ app # "shell" /\ row' = row
    BY <1>15 DEF ClearSlot, Clear
  <2>2. IF app = "shell" THEN app' = app ELSE app' # "shell"
    BY <2>1
  <2>3. CASE app = "shell"
    BY <2>1, <2>2, <2>3, ClockStep
  <2>4. CASE app # "shell"
    <3>1. UNCHANGED lineVars
      BY <2>1, <2>4 DEF lineVars
    <3> QED  BY <1>1, <2>2, <2>4, <3>1
  <2> QED  BY <2>3, <2>4
<1>16. CASE KeyboardLetter \/ KeyboardEnter
  <2>1. UNCHANGED lineVars /\ UNCHANGED <<app, kernel, at>>
    BY <1>16 DEF KeyboardLetter, KeyboardEnter, ProgramsUnchanged, Press
  <2> QED  BY <2>1, LineStays
<1>17. CASE LineOverruns
  <2>1. UNCHANGED lineVars /\ kernel' = "overrun"
    BY <1>17 DEF LineOverruns
  <2> QED  BY <1>1, <2>1
<1>18. CASE KeyboardAlt
  BY <1>1, <1>18 DEF KeyboardAlt, PressAlt, ProgramsUnchanged
<1>19. CASE KeyboardRightShift
  <2>1. /\ kernel' = "restarted" /\ thing(cursorY) /\ command' = <<>> /\ commandCounter' = 0
        /\ UNCHANGED <<cursorX, cursorY, row, mixed>>
    BY <1>19 DEF KeyboardRightShift, thing
  <2>2. <<>> \in Seq(Letters) /\ 0 \in Int /\ 0 <= CommandPlaces
    BY ShellAssumption
  <2>3. LineTypes'
    BY <1>0, <2>1, <2>2 DEF LineTypes
  <2>4. LineRows'
    BY <1>0, <2>1, ScrolledRows
  <2> QED  BY <2>1, <2>3, <2>4, LineAway
<1>20. CASE UNCHANGED vars
  <2>1. UNCHANGED lineVars /\ UNCHANGED <<app, kernel, at, seen, slot>>
    BY <1>20 DEF vars, lineVars, slotVars
  <2> QED  BY <2>1, LineStays
<1> QED
  BY <1>3, <1>4, <1>8, <1>9, <1>10, <1>11, <1>12, <1>13, <1>14, <1>15,
     <1>16, <1>17, <1>18, <1>19, <1>20
     DEF Next, ProgramStep, keyboard_handler_main

(* While the shell waits, the command it will match is the line it shows.  *)
THEOREM LineIsCommand == Spec => []LineShowsCommand
<1>1. Init => KeyInv /\ LineInv
  <2> SUFFICES ASSUME Init
               PROVE  KeyInv /\ LineInv
    OBVIOUS
  <2>1. KeyInv
    BY LetterFacts DEF Init, SlotInit, KeyInv
  <2>2. /\ command = <<>> /\ commandCounter = 0 /\ cursorX = CURSORX_HOME
        /\ cursorY = 1 /\ ListStart = 0
        /\ row = FreshRow /\ mixed = FALSE
        /\ at = "look" /\ slot = Nothing
    BY DEF Init, SlotInit
  <2>3. LineTypes
    <3>1. <<>> \in Seq(Letters) /\ 0 \in Int /\ CURSORX_HOME \in Int /\ 0 <= CommandPlaces
      BY ShellAssumption DEF CURSORX_HOME
    <3> QED  BY <2>2, <3>1, FreshRowType DEF LineTypes
  <2>4. LineRows
    BY <2>2, ShellAssumption DEF LineRows
  <2>5. LineShowsCommand
    BY <2>2 DEF LineShowsCommand, CURSORX_HOME
  <2> QED  BY <2>1, <2>3, <2>4, <2>5 DEF LineInv
<1>2. LineInv => LineShowsCommand
  BY DEF LineInv
<1> QED
  BY <1>1, <1>2, KeyStep, LineStep, PTL DEF Spec
-----------------------------------------------------------------------------

(* Blackjack.                                                              *)

(* What holds of 0 and, if of a number, of the next one, holds of all.     *)
LEMMA NatsAreIn ==
    ASSUME NEW T, 0 \in T, \A n \in Nat : n \in T => n + 1 \in T
    PROVE  Nat \subseteq T
<1> DEFINE R == OpToRel(<, Nat)
           U == Nat \ T
<1>1. IsWellFoundedOn(R, Nat)
  BY NatLessThanWellFounded, Zenon
<1>2. ASSUME U # {} PROVE FALSE
  <2>1. U \subseteq Nat
    OBVIOUS
  <2>2. PICK x \in U : \A y \in U : ~(<<y, x>> \in R)
    <3> HIDE DEF R, U
    <3> QED  BY <1>1, <1>2, <2>1, WFMin
  <2>3. x # 0 /\ x - 1 \in Nat /\ (x - 1) + 1 = x
    OBVIOUS
  <2>4. x - 1 \in U
    BY <2>3
  <2>5. x - 1 \in Nat /\ x \in Nat /\ x - 1 < x
    BY <2>3
  <2>6. <<x - 1, x>> \in R
    BY <2>5, Zenon DEF OpToRel
  <2> QED  BY <2>2, <2>4, <2>6
<1> QED
  BY <1>2

(* Pscore and Dscore go through a hand card by card.                       *)
SumAt(f, hand, n) ==
    f = [i \in 0..n |-> IF i = 0 THEN 0 ELSE f[i - 1] + Worth(f[i - 1], hand[i])]

Hands == Seq(0..13)

(* There is such a function for any hand.                                  *)
LEMMA SumExists ==
    ASSUME NEW hand, NEW n \in Nat
    PROVE  \E f : SumAt(f, hand, n)
<1> DEFINE T == {i \in Nat : \E f : SumAt(f, hand, i)}
<1>1. 0 \in T
  <2>1. PICK f : f = [i \in 0..0 |-> 0]
    OBVIOUS
  <2>2. f = [i \in 0..0 |-> IF i = 0 THEN 0 ELSE f[i - 1] + Worth(f[i - 1], hand[i])]
    BY <2>1
  <2>3. SumAt(f, hand, 0)
    BY <2>2 DEF SumAt
  <2> QED  BY <2>3
<1>2. ASSUME NEW i \in Nat, i \in T
      PROVE  i + 1 \in T
  <2>1. PICK f : SumAt(f, hand, i)
    BY <1>2
  <2> DEFINE e == [j \in 0..i + 1 |->
                     IF j <= i THEN f[j]
                     ELSE IF j = 0 THEN 0 ELSE f[j - 1] + Worth(f[j - 1], hand[j])]
  <2>2. ASSUME NEW j \in 0..i + 1
        PROVE  e[j] = IF j = 0 THEN 0 ELSE e[j - 1] + Worth(e[j - 1], hand[j])
    <3>1. j # 0 => j - 1 \in 0..i + 1 /\ e[j - 1] = f[j - 1]
      OBVIOUS
    <3>2. j <= i => f[j] = IF j = 0 THEN 0 ELSE f[j - 1] + Worth(f[j - 1], hand[j])
      BY <2>1 DEF SumAt
    <3>3. e[j] = IF j = 0 THEN 0 ELSE f[j - 1] + Worth(f[j - 1], hand[j])
      BY <3>2
    <3> QED  BY <3>1, <3>3
  <2>3. e = [j \in 0..i + 1 |-> IF j = 0 THEN 0 ELSE e[j - 1] + Worth(e[j - 1], hand[j])]
    <3>1. e = [j \in 0..i + 1 |-> e[j]]
      OBVIOUS
    <3> HIDE DEF e
    <3> QED  BY <2>2, <3>1
  <2>4. SumAt(e, hand, i + 1)
    <3> HIDE DEF e
    <3> QED  BY <2>3 DEF SumAt
  <2> QED  BY <2>4
<1>3. n \in T
  <2> HIDE DEF T
  <2> QED  BY <1>1, <1>2, NatsAreIn
<1> QED
  BY <1>3

(* A score is what the function has at the last card.                      *)
LEMMA ScoreIsSum ==
    ASSUME NEW hand, Len(hand) \in Nat
    PROVE  \E f : SumAt(f, hand, Len(hand)) /\ Score(hand) = f[Len(hand)]
<1>1. Score(hand) = (CHOOSE f : f = [n \in 0..Len(hand) |->
                        IF n = 0 THEN 0 ELSE f[n - 1] + Worth(f[n - 1], hand[n])])[Len(hand)]
  BY DEF Score
<1>2. \E f : f = [n \in 0..Len(hand) |->
                    IF n = 0 THEN 0 ELSE f[n - 1] + Worth(f[n - 1], hand[n])]
  BY SumExists DEF SumAt
<1> QED
  BY <1>1, <1>2 DEF SumAt

(* A card is worth 11 at most, and only if it makes no more than 21.       *)
LEMMA WorthFacts ==
    ASSUME NEW sum \in Nat, NEW card \in 0..13
    PROVE  /\ Worth(sum, card) \in Nat /\ Worth(sum, card) <= 11
           /\ sum <= 11 => sum + Worth(sum, card) <= 21
<1>1. CASE card = 0
  BY <1>1 DEF Worth
<1>2. CASE card \in 1..9
  BY <1>2 DEF Worth
<1>3. CASE card \in 10..12
  BY <1>3 DEF Worth
<1>4. CASE card = 13
  BY <1>4 DEF Worth
<1> QED
  BY <1>1, <1>2, <1>3, <1>4

(* Every hand has a score.                                                 *)
LEMMA ScoreType == \A hand \in Hands : Score(hand) \in Nat
<1> SUFFICES ASSUME NEW hand \in Hands PROVE Score(hand) \in Nat
  OBVIOUS
<1>1. Len(hand) \in Nat /\ \A i \in 1..Len(hand) : hand[i] \in 0..13
  BY LenProperties, ElementOfSeq DEF Hands
<1>2. PICK f : SumAt(f, hand, Len(hand)) /\ Score(hand) = f[Len(hand)]
  BY <1>1, ScoreIsSum
<1>3. \A i \in 0..Len(hand) :
         f[i] = IF i = 0 THEN 0 ELSE f[i - 1] + Worth(f[i - 1], hand[i])
  BY <1>2 DEF SumAt
<1> DEFINE T == {n \in Nat : n <= Len(hand) => f[n] \in Nat}
<1>4. 0 \in T
  BY <1>1, <1>3
<1>5. ASSUME NEW n \in Nat, n \in T PROVE n + 1 \in T
  <2>1. ASSUME n + 1 <= Len(hand) PROVE f[n + 1] \in Nat
    <3>1. n + 1 \in 1..Len(hand) /\ n + 1 \in 0..Len(hand) /\ n + 1 # 0 /\ (n + 1) - 1 = n
          /\ n <= Len(hand)
      BY <1>1, <2>1
    <3>2. f[n] \in Nat /\ hand[n + 1] \in 0..13
      BY <1>1, <1>5, <3>1
    <3>3. f[n + 1] = f[n] + Worth(f[n], hand[n + 1])
      BY <1>3, <3>1
    <3>4. Worth(f[n], hand[n + 1]) \in Nat
      <4> HIDE DEF T
      <4> QED  BY <3>2, WorthFacts
    <3> QED  BY <3>2, <3>3, <3>4
  <2> QED  BY <2>1
<1>6. Len(hand) \in T
  <2> HIDE DEF T
  <2> QED  BY <1>1, <1>4, <1>5, NatsAreIn
<1> QED
  BY <1>1, <1>2, <1>6

(* Nobody is bust by two cards.                                            *)
LEMMA TwoCards ==
    ASSUME NEW a \in 0..13, NEW b \in 0..13
    PROVE  <<a, b>> \in Hands /\ Score(<<a, b>>) <= 21
<1> DEFINE hand == <<a, b>>
<1>1. hand \in Hands /\ Len(hand) = 2 /\ hand[1] = a /\ hand[2] = b
  BY DEF Hands
<1> HIDE DEF hand
<1>2. PICK f : SumAt(f, hand, 2) /\ Score(hand) = f[2]
  <2>1. Len(hand) \in Nat
    BY <1>1
  <2>2. \E f : SumAt(f, hand, Len(hand)) /\ Score(hand) = f[Len(hand)]
    BY <2>1, ScoreIsSum
  <2> QED  BY <1>1, <2>2
<1>3. \A i \in 0..2 : f[i] = IF i = 0 THEN 0 ELSE f[i - 1] + Worth(f[i - 1], hand[i])
  BY <1>2 DEF SumAt
<1>4. f[0] = 0
  BY <1>3
<1>5. f[1] = 0 + Worth(0, a)
  <2>1. f[1] = f[0] + Worth(f[0], hand[1])
    BY <1>3
  <2> QED  BY <1>1, <1>4, <2>1
<1>6. f[1] \in Nat /\ f[1] <= 11
  <2>1. Worth(0, a) \in Nat /\ Worth(0, a) <= 11
    BY WorthFacts
  <2> QED  BY <1>5, <2>1
<1>7. f[2] = f[1] + Worth(f[1], b)
  <2>1. f[2] = f[1] + Worth(f[1], hand[2])
    BY <1>3
  <2> QED  BY <1>1, <2>1
<1>8. f[2] <= 21
  BY <1>6, <1>7, WorthFacts
<1> QED
  BY <1>1, <1>2, <1>8 DEF hand

(* What is read from the deck, or from behind it.                          *)
LEMMA CardType == \A n \in Nat : CardAt(n) \in 0..13
<1> SUFFICES ASSUME NEW n \in Nat PROVE CardAt(n) \in 0..13
  OBVIOUS
<1>1. CASE n < Len(bJCard)
  <2>1. bJCard \in Seq(0..12) /\ Len(bJCard) \in Nat
    BY DeckAssumption, LenProperties
  <2>2. n + 1 \in 1..Len(bJCard)
    BY <1>1, <2>1
  <2>3. bJCard[n + 1] \in 0..12
    BY <2>1, <2>2, ElementOfSeq
  <2> QED  BY <1>1, <2>3 DEF CardAt
<1>2. CASE ~(n < Len(bJCard))
  BY <1>2 DEF CardAt
<1> QED
  BY <1>1, <1>2

(* Until somebody is bust both scores are what the hands are worth, and a  *)
(* dealer who stands has 16 or more.                                       *)
Scored ==
    ~pbustb /\ ~dbustb =>
        /\ bJPscore = Score(bJPcards) /\ bJPscore <= 21
        /\ bJDscore = Score(bJDcards) /\ bJDscore <= 21
        /\ dStay => bJDscore >= 16

HandTypes == bJPcards \in Hands /\ bJDcards \in Hands /\ bJcardCount \in Nat

HandInv == HandTypes /\ Scored

(* A deal of four cards.                                                   *)
LEMMA DealKeeps ==
    ASSUME HandTypes, Deal(bJcardCount), ~dStay'
    PROVE  HandInv'
<1> DEFINE n == bJcardCount
<1>1. /\ CardAt(n) \in 0..13 /\ CardAt(n + 1) \in 0..13
      /\ CardAt(n + 2) \in 0..13 /\ CardAt(n + 3) \in 0..13
  BY CardType DEF HandTypes
<1>2. /\ bJPcards' = <<CardAt(n), CardAt(n + 2)>> /\ bJDcards' = <<CardAt(n + 1), CardAt(n + 3)>>
      /\ bJPscore' = Score(bJPcards') /\ bJDscore' = Score(bJDcards') /\ bJcardCount' = n + 4
  BY DEF Deal
<1>3. /\ bJPcards' \in Hands /\ Score(bJPcards') <= 21
      /\ bJDcards' \in Hands /\ Score(bJDcards') <= 21
  BY <1>1, <1>2, TwoCards
<1>4. bJcardCount' \in Nat
  BY <1>2 DEF HandTypes
<1> QED
  BY <1>2, <1>3, <1>4 DEF HandInv, HandTypes, Scored

(* A card is put to a hand.                                                *)
LEMMA OneMore ==
    ASSUME HandTypes
    PROVE  /\ Append(bJPcards, CardAt(bJcardCount)) \in Hands
           /\ Append(bJDcards, CardAt(bJcardCount)) \in Hands
           /\ bJcardCount + 1 \in Nat
  BY CardType, AppendProperties DEF HandTypes, Hands

(* Every step of the game keeps it.                                        *)
LEMMA HandStep ==
    ASSUME HandInv, step = "menu" => ~dStay, [bJNext]_bJVars
    PROVE  HandInv'
<1>1. CASE Play
  <2>1. HandTypes /\ Deal(bJcardCount) /\ ~dStay'
    BY <1>1 DEF Play, HandInv
  <2> QED  BY <2>1, DealKeeps
<1>2. CASE Hit
  <2>1. /\ bJPcards' = Append(bJPcards, CardAt(bJcardCount)) /\ bJDcards' = bJDcards
        /\ bJcardCount' = bJcardCount + 1 /\ dbustb' = dbustb /\ dStay' = dStay
    BY <1>2 DEF Hit
  <2>2. HandTypes'
    BY <2>1, OneMore DEF HandInv, HandTypes
  <2>3. \/ pbustb' = TRUE
        \/ /\ Score(bJPcards') <= 21 /\ bJPscore' = Score(bJPcards')
           /\ bJDscore' = bJDscore /\ pbustb' = pbustb
    BY <1>2 DEF Hit
  <2>4. Scored'
    BY <2>1, <2>3 DEF HandInv, Scored
  <2> QED  BY <2>2, <2>4 DEF HandInv
<1>3. CASE NewGame
  BY <1>3, DealKeeps DEF NewGame, HandInv
<1>4. CASE DealerStands
  BY <1>4 DEF DealerStands, HandInv, HandTypes, Scored
<1>5. CASE DealerDraws
  <2>1. /\ bJDcards' = Append(bJDcards, CardAt(bJcardCount)) /\ bJPcards' = bJPcards
        /\ bJcardCount' = bJcardCount + 1 /\ pbustb' = pbustb /\ ~dStay
    BY <1>5 DEF DealerDraws, DealersTurn
  <2>2. HandTypes'
    BY <2>1, OneMore DEF HandInv, HandTypes
  <2>3. \/ dbustb' = TRUE
        \/ /\ Score(bJDcards') <= 21 /\ bJDscore' = Score(bJDcards')
           /\ bJPscore' = bJPscore /\ dbustb' = dbustb /\ dStay' = dStay
    BY <1>5 DEF DealerDraws
  <2>4. Scored'
    BY <2>1, <2>3 DEF HandInv, Scored
  <2> QED  BY <2>2, <2>4 DEF HandInv
<1>6. CASE StartOver
  BY <1>6 DEF StartOver, HandInv, HandTypes, Scored
<1>7. CASE Leave \/ NextRound \/ Stand \/ OtherKey \/ HitBehind \/ UNCHANGED bJVars
  BY <1>7 DEF Leave, NextRound, Stand, OtherKey, HitBehind, bJVars, HandInv, HandTypes, Scored
<1> QED
  BY <1>1, <1>2, <1>3, <1>4, <1>5, <1>6, <1>7 DEF bJNext, bJKeyboard

(* The menu comes once, before all games.                                  *)
LEMMA MenuStep ==
    ASSUME step = "menu" => ~dStay, [bJNext]_bJVars
    PROVE  (step = "menu" => ~dStay)'
<1>1. CASE bJKeyboard
  BY <1>1 DEF bJKeyboard, HitBehind
<1>2. CASE Play \/ Leave \/ StartOver \/ NextRound
  BY <1>2 DEF Play, Leave, StartOver, NextRound
<1>3. CASE DealerStands \/ DealerDraws
  BY <1>3 DEF DealerStands, DealerDraws, DealersTurn
<1>4. CASE UNCHANGED bJVars
  BY <1>4 DEF bJVars
<1> QED
  BY <1>1, <1>2, <1>3, <1>4 DEF bJNext

(* An empty hand is worth nothing.                                         *)
LEMMA EmptyHand == <<>> \in Hands /\ Len(<<>>) = 0 /\ Score(<<>>) = 0
<1>1. <<>> \in Hands /\ Len(<<>>) = 0
  BY DEF Hands
<1>2. PICK f : SumAt(f, <<>>, 0) /\ Score(<<>>) = f[0]
  <2>1. \E f : SumAt(f, <<>>, Len(<<>>)) /\ Score(<<>>) = f[Len(<<>>)]
    BY <1>1, ScoreIsSum
  <2> QED  BY <1>1, <2>1
<1>3. f[0] = 0
  BY <1>2 DEF SumAt
<1> QED
  BY <1>1, <1>2, <1>3

(* From any deck the winner is announced by what the hands are worth.      *)
THEOREM WinnerIsBetter == bJSpec => []WinnerByHands
<1> DEFINE Inv == HandInv /\ (step = "menu" => ~dStay)
<1>1. bJInit => Inv
  <2> SUFFICES ASSUME bJInit PROVE Inv
    OBVIOUS
  <2> QED  BY EmptyHand DEF bJInit, HandInv, HandTypes, Scored
<1>2. Inv /\ [bJNext]_bJVars => Inv'
  BY HandStep, MenuStep
<1>3. Inv => WinnerByHands
  <2> SUFFICES ASSUME HandInv, Compared PROVE
        /\ bJPscore = Score(bJPcards) /\ Score(bJPcards) <= 21
        /\ bJDscore = Score(bJDcards) /\ Score(bJDcards) \in 16..21
    BY DEF WinnerByHands, PlayerWins, DealerWins
  <2>1. Score(bJDcards) \in Nat
    BY ScoreType DEF HandInv, HandTypes
  <2> QED  BY <2>1 DEF HandInv, Scored, Compared
<1> HIDE DEF Inv
<1> QED
  BY <1>1, <1>2, <1>3, PTL DEF bJSpec

-----------------------------------------------------------------------------
(* The deck.                                                               *)

(* The dealer has drawn k cards from place p on, after a deal from place n *)
(* and the cards the player asked for.  He was below 16 after all but the  *)
(* last of them, and has not left his turn.                                *)
Drawing(n, p, k) ==
    /\ n \in 0 .. Len(bJCard) - 4 /\ p \in Nat /\ k \in 0..4
    /\ DrawPlace(n, Len(bJPcards) - 2, p)
    /\ bJDcards = Drawn(n, p, k) /\ bJcardCount = p + k
    /\ \A j \in 1 .. k - 1 : Score(Drawn(n, p, j)) < 16
    /\ k > 0 => step = "dealer" /\ pStay /\ bJDscore = Score(bJDcards)
    /\ step = "dealer" => p <= Reshuffle

InGame == step \in {"keys", "deck", "dealer"}

(* Before the first game nothing has been taken from the deck.             *)
BeforeGames ==
    step \in {"menu", "left"} =>
        bJcardCount = 0 /\ bJPcards = <<>> /\ bJDcards = <<>> /\ ~dStay /\ ~dbustb

(* While games are played the dealer's cards are those of a Drawing until  *)
(* he stands, and wherever cards may be taken from the deck next, four are *)
(* left.                                                                   *)
DeckInv ==
    /\ InGame => Len(bJPcards) \in 2..HandPlaces
    /\ InGame /\ ~dStay => \E n, p, k : Drawing(n, p, k)
    /\ step \in {"keys", "dealer"} => bJcardCount + 4 <= Len(bJCard)

(* All cards are of the deck, and what the hands are worth.                *)
ShownInv ==
    /\ bJPcards \in Seq(0..12) /\ bJDcards \in Seq(0..12)
    /\ Len(bJDcards) <= HandPlaces
    /\ dbustb => dStay
    /\ ~pbustb => Score(bJPcards) <= 21 /\ Score(bJDcards) <= 26

(* One card more is worth what it adds to the hand before it.              *)
LEMMA ScoreAppended ==
    ASSUME NEW hand \in Hands, NEW card \in 0..13
    PROVE  /\ Append(hand, card) \in Hands
           /\ Score(Append(hand, card)) = Score(hand) + Worth(Score(hand), card)
<1> DEFINE more == Append(hand, card)
<1>1. PICK k \in Nat : k = Len(hand)
  BY LenProperties DEF Hands
<1>2. /\ more \in Hands /\ Len(more) = k + 1 /\ more[k + 1] = card
      /\ \A i \in 1..k : more[i] = hand[i]
  BY <1>1, AppendProperties DEF Hands
<1> HIDE DEF more
<1>3. PICK f : SumAt(f, hand, k) /\ Score(hand) = f[k]
  BY <1>1, ScoreIsSum
<1>4. PICK g : SumAt(g, more, k + 1) /\ Score(more) = g[k + 1]
  <2>1. Len(more) \in Nat
    BY <1>2
  <2> QED  BY <1>2, <2>1, ScoreIsSum
<1>5. \A i \in 0..k : f[i] = IF i = 0 THEN 0 ELSE f[i - 1] + Worth(f[i - 1], hand[i])
  BY <1>3 DEF SumAt
<1>6. \A i \in 0..k + 1 : g[i] = IF i = 0 THEN 0 ELSE g[i - 1] + Worth(g[i - 1], more[i])
  BY <1>4 DEF SumAt
<1> DEFINE T == {n \in Nat : n <= k => g[n] = f[n]}
<1>7. 0 \in T
  BY <1>5, <1>6
<1>8. ASSUME NEW n \in Nat, n \in T PROVE n + 1 \in T
  <2>1. ASSUME n + 1 <= k PROVE g[n + 1] = f[n + 1]
    <3>1. /\ n + 1 \in 1..k /\ n + 1 \in 0..k /\ n + 1 \in 0..k + 1 /\ n + 1 # 0
          /\ (n + 1) - 1 = n /\ n <= k
      BY <2>1
    <3>2. g[n] = f[n] /\ more[n + 1] = hand[n + 1]
      BY <1>2, <1>8, <3>1
    <3>3. f[n + 1] = f[n] + Worth(f[n], hand[n + 1])
      BY <1>5, <3>1
    <3>4. g[n + 1] = g[n] + Worth(g[n], more[n + 1])
      BY <1>6, <3>1
    <3> QED  BY <3>2, <3>3, <3>4
  <2> QED  BY <2>1
<1>9. k \in T
  <2> HIDE DEF T
  <2> QED  BY <1>7, <1>8, NatsAreIn
<1>10. g[k + 1] = g[k] + Worth(g[k], more[k + 1])
  <2>1. k + 1 \in 0..k + 1 /\ k + 1 # 0 /\ (k + 1) - 1 = k
    OBVIOUS
  <2> QED  BY <1>6, <2>1
<1> QED
  BY <1>2, <1>3, <1>4, <1>9, <1>10 DEF more

(* The cards dealt, and one drawn behind the others.                       *)
LEMMA DrawnFacts ==
    ASSUME NEW n \in Nat, NEW p \in Nat, NEW k \in Nat
    PROVE  /\ Drawn(n, p, 0) = <<CardAt(n + 1), CardAt(n + 3)>>
           /\ Len(Drawn(n, p, k)) = k + 2
           /\ Append(Drawn(n, p, k), CardAt(p + k)) = Drawn(n, p, k + 1)
<1> DEFINE two == <<CardAt(n + 1), CardAt(n + 3)>>
           Extras(j) == [i \in 1..j |-> CardAt(p + i - 1)]
<1>1. two \in Seq(0..13) /\ Len(two) = 2
  BY CardType
<1>2. ASSUME NEW j \in Nat PROVE Extras(j) \in Seq(0..13) /\ Len(Extras(j)) = j
  <2>1. \A i \in 1..j : CardAt(p + i - 1) \in 0..13
    <3>1. \A i \in 1..j : p + i - 1 \in Nat
      OBVIOUS
    <3> QED  BY <3>1, CardType
  <2> QED  BY <2>1
<1>3. Drawn(n, p, 0) = two
  <2>1. Extras(0) = <<>>
    BY <1>2, EmptySeq
  <2> QED  BY <1>1, <2>1, ConcatEmptySeq DEF Drawn
<1>4. Len(Drawn(n, p, k)) = k + 2
  BY <1>1, <1>2, ConcatProperties DEF Drawn
<1>5. Append(Extras(k), CardAt(p + k)) = Extras(k + 1)
  <2>1. Append(Extras(k), CardAt(p + k)) \in Seq(0..13) /\ Extras(k + 1) \in Seq(0..13)
    BY <1>2, CardType, AppendProperties
  <2>2. Len(Append(Extras(k), CardAt(p + k))) = k + 1 /\ Len(Extras(k + 1)) = k + 1
    BY <1>2, AppendProperties, CardType
  <2>3. \A i \in 1..k + 1 : Append(Extras(k), CardAt(p + k))[i] = Extras(k + 1)[i]
    <3> SUFFICES ASSUME NEW i \in 1..k + 1
                 PROVE  Append(Extras(k), CardAt(p + k))[i] = Extras(k + 1)[i]
      OBVIOUS
    <3>1. Extras(k + 1)[i] = CardAt(p + i - 1)
      OBVIOUS
    <3>2. CASE i \in 1..k
      <4>1. Append(Extras(k), CardAt(p + k))[i] = Extras(k)[i]
        <5> HIDE DEF Extras
        <5> QED  BY <1>2, <3>2, CardType, AppendProperties
      <4> QED  BY <3>1, <3>2, <4>1
    <3>3. CASE i = k + 1
      <4>1. Append(Extras(k), CardAt(p + k))[k + 1] = CardAt(p + k)
        <5> HIDE DEF Extras
        <5> QED  BY <1>2, CardType, AppendProperties
      <4>2. p + (k + 1) - 1 = p + k
        OBVIOUS
      <4> QED  BY <3>1, <3>3, <4>1, <4>2
    <3> QED  BY <3>2, <3>3
  <2> HIDE DEF Extras
  <2> QED  BY <2>1, <2>2, <2>3, SeqEqual
<1>6. Append(Drawn(n, p, k), CardAt(p + k)) = two \o Append(Extras(k), CardAt(p + k))
  <2>1. Drawn(n, p, k) = two \o Extras(k)
    BY DEF Drawn
  <2>2. CardAt(p + k) \in 0..13
    BY CardType
  <2> DEFINE c == CardAt(p + k)
             extra == Extras(k)
  <2>3. two \in Seq(0..13) /\ extra \in Seq(0..13) /\ c \in 0..13 /\ <<c>> \in Seq(0..13)
    BY <1>1, <1>2, <2>2
  <2> HIDE DEF extra, two, c
  <2>4. two \o extra \in Seq(0..13)
    BY <2>3, ConcatProperties
  <2>5. Append(two \o extra, c) = (two \o extra) \o <<c>>
    BY <2>3, <2>4, AppendIsConcat
  <2>6. Append(extra, c) = extra \o <<c>>
    BY <2>3, AppendIsConcat
  <2>7. (two \o extra) \o <<c>> = two \o (extra \o <<c>>)
    BY <2>3, ConcatAssociative
  <2> USE DEF extra, c
  <2> HIDE DEF Extras
  <2> QED  BY <2>1, <2>5, <2>6, <2>7
<1> QED
  BY <1>3, <1>4, <1>5, <1>6 DEF Drawn

(* A card that is not behind the deck.                                     *)
LEMMA CardOfDeck ==
    ASSUME NEW n \in Nat, n < Len(bJCard)
    PROVE  CardAt(n) \in 0..12
<1>1. bJCard \in Seq(0..12) /\ Len(bJCard) \in Nat
  BY DeckAssumption, LenProperties
<1>2. n + 1 \in 1..Len(bJCard)
  BY <1>1
<1>3. bJCard[n + 1] \in 0..12
  BY <1>1, <1>2, ElementOfSeq
<1> QED
  BY <1>3 DEF CardAt

(* The constants as numbers.                                               *)
LEMMA DeckNumbers ==
    ASSUME DeckLasts
    PROVE  /\ Len(bJCard) \in Nat /\ Reshuffle \in Nat
           /\ Reshuffle + 4 <= Len(bJCard) /\ 8 <= Len(bJCard)
<1>1. Len(bJCard) \in Nat
  BY DeckAssumption, LenProperties
<1> QED
  BY <1>1, DeckAssumption DEF DeckLasts

(* A deal of four where four are left.                                     *)
LEMMA DealFromDeck ==
    ASSUME DeckLasts, HandTypes, Deal(bJcardCount), ~dStay', ~dbustb', step' \in {"keys", "deck"},
           bJcardCount + 4 <= Len(bJCard), step' = "keys" => bJcardCount = 0
    PROVE  BeforeGames' /\ DeckInv' /\ ShownInv'
<1>0. PICK n : n = bJcardCount
  OBVIOUS
<1>1. /\ Len(bJCard) \in Nat /\ Reshuffle \in Nat /\ n \in Nat
      /\ 8 <= Len(bJCard)
  BY <1>0, DeckNumbers DEF HandTypes
<1>2. /\ CardAt(n) \in 0..12 /\ CardAt(n + 1) \in 0..12
      /\ CardAt(n + 2) \in 0..12 /\ CardAt(n + 3) \in 0..12
  <2>1. /\ n < Len(bJCard) /\ n + 1 < Len(bJCard) /\ n + 2 < Len(bJCard) /\ n + 3 < Len(bJCard)
        /\ n + 1 \in Nat /\ n + 2 \in Nat /\ n + 3 \in Nat
    BY <1>0, <1>1
  <2> QED  BY <1>1, <2>1, CardOfDeck
<1>3. /\ bJPcards' = <<CardAt(n), CardAt(n + 2)>> /\ bJDcards' = <<CardAt(n + 1), CardAt(n + 3)>>
      /\ bJcardCount' = n + 4
  BY <1>0 DEF Deal
<1>4. Len(bJPcards') = 2 /\ Len(bJDcards') = 2
  BY <1>3
<1>5. ShownInv'
  <2>1. bJPcards' \in Seq(0..12) /\ bJDcards' \in Seq(0..12)
    BY <1>2, <1>3
  <2>2. /\ CardAt(n) \in 0..13 /\ CardAt(n + 1) \in 0..13
        /\ CardAt(n + 2) \in 0..13 /\ CardAt(n + 3) \in 0..13
    BY <1>2
  <2>3. Score(bJPcards') <= 21 /\ bJDcards' \in Hands /\ Score(bJDcards') <= 21
    BY <1>3, <2>2, TwoCards
  <2>4. Score(bJDcards') <= 26
    <3>1. Score(bJDcards') \in Nat
      BY <2>3, ScoreType
    <3> QED  BY <2>3, <3>1
  <2> QED  BY <1>4, <2>1, <2>3, <2>4 DEF ShownInv, HandPlaces
<1>6. Drawing(n, n + 4, 0)'
  <2>1. bJDcards' = Drawn(n, n + 4, 0)
    <3>1. n \in Nat /\ n + 4 \in Nat /\ 0 \in Nat
      BY <1>1
    <3>2. Drawn(n, n + 4, 0) = <<CardAt(n + 1), CardAt(n + 3)>>
      BY <3>1, DrawnFacts
    <3> QED  BY <1>3, <3>2
  <2>2. n \in 0 .. Len(bJCard) - 4 /\ n + 4 \in Nat /\ 0 \in 0..4
    BY <1>0, <1>1
  <2>3. DrawPlace(n, Len(bJPcards') - 2, n + 4)
    BY <1>1, <1>4 DEF DrawPlace
  <2>4. bJcardCount' = (n + 4) + 0 /\ ~(0 > 0) /\ 1 .. 0 - 1 = {}
    BY <1>1, <1>3
  <2>5. step' # "dealer"
    OBVIOUS
  <2>6. \A j \in 1 .. 0 - 1 : Score(Drawn(n, n + 4, j)) < 16
    BY <2>4
  <2> QED  BY <2>1, <2>2, <2>3, <2>4, <2>5, <2>6 DEF Drawing
<1>7. DeckInv'
  <2>1. \E m, p, k : Drawing(m, p, k)'
    BY <1>6
  <2>2. step' = "keys" => bJcardCount' + 4 <= Len(bJCard)
    BY <1>0, <1>1, <1>3
  <2>3. Len(bJPcards') \in 2..HandPlaces
    BY <1>1, <1>4 DEF HandPlaces
  <2> QED  BY <2>1, <2>2, <2>3 DEF DeckInv
<1> QED
  BY <1>5, <1>7 DEF BeforeGames

(* The player takes a card.                                                *)
LEMMA HitFromDeck ==
    ASSUME DeckLasts, HandTypes, BeforeGames, DeckInv, ShownInv, step = "keys", step' = "deck", Hit
    PROVE  BeforeGames' /\ DeckInv' /\ ShownInv'
<1> DEFINE c == CardAt(bJcardCount)
<1>1. /\ Len(bJCard) \in Nat /\ Reshuffle \in Nat /\ bJcardCount \in Nat
  BY DeckNumbers DEF HandTypes
<1>2. /\ Len(bJPcards) < HandPlaces /\ bJPcards' = Append(bJPcards, c)
      /\ bJcardCount' = bJcardCount + 1
      /\ UNCHANGED <<bJDcards, pStay, dStay, dbustb>>
  BY DEF Hit
<1>3. c \in 0..12
  BY <1>1, CardOfDeck DEF DeckInv
<1>4. bJPcards' \in Seq(0..12) /\ Len(bJPcards') = Len(bJPcards) + 1 /\ Len(bJPcards) \in Nat
  BY <1>2, <1>3, AppendProperties, LenProperties DEF ShownInv
<1>5. ShownInv'
  <2>1. ~pbustb' => ~pbustb /\ Score(bJPcards') <= 21
    BY DEF Hit
  <2> QED  BY <1>2, <1>4, <2>1 DEF ShownInv
<1>6. DeckInv'
  <2>1. ASSUME ~dStay' PROVE \E n, p, k : Drawing(n, p, k)'
    <3>1. PICK n, p, k : Drawing(n, p, k)
      BY <1>2, <2>1 DEF DeckInv, InGame
    <3>2. /\ n \in 0 .. Len(bJCard) - 4 /\ p \in Nat /\ k = 0 /\ bJcardCount = p
          /\ bJDcards = Drawn(n, p, k) /\ DrawPlace(n, Len(bJPcards) - 2, p)
      BY <3>1 DEF Drawing
    <3>3. DrawPlace(n, Len(bJPcards') - 2, p + 1)
      BY <1>1, <1>4, <3>2 DEF DrawPlace
    <3>4. Drawn(n, p, k) = Drawn(n, p + 1, k)
      <4>1. n \in Nat /\ p + 1 \in Nat /\ k = 0
        BY <1>1, <3>2
      <4> QED  BY <3>2, <4>1, DrawnFacts
    <3>5. Drawing(n, p + 1, k)'
      BY <1>2, <3>2, <3>3, <3>4 DEF Drawing
    <3> QED  BY <3>5
  <2>2. Len(bJPcards') \in 2..HandPlaces
    BY <1>1, <1>2, <1>4 DEF DeckInv, InGame, HandPlaces
  <2> QED  BY <2>1, <2>2 DEF DeckInv
<1> QED
  BY <1>5, <1>6 DEF BeforeGames

(* The deck starts over, or does not.                                      *)
LEMMA StartOverKeeps ==
    ASSUME DeckLasts, HandTypes, BeforeGames, DeckInv, ShownInv, StartOver
    PROVE  BeforeGames' /\ DeckInv' /\ ShownInv'
<1>1. /\ Len(bJCard) \in Nat /\ Reshuffle \in Nat /\ bJcardCount \in Nat
      /\ Reshuffle + 4 <= Len(bJCard)
  BY DeckNumbers DEF HandTypes
<1>2. /\ step = "deck" /\ step' = "dealer"
      /\ bJcardCount' = IF bJcardCount > Reshuffle THEN 0 ELSE bJcardCount
      /\ UNCHANGED <<bJPcards, bJDcards, bJPscore, bJDscore, pStay, dStay, pbustb, dbustb>>
  BY DEF StartOver
<1>3. ShownInv'
  BY <1>2 DEF ShownInv
<1>4. bJcardCount' + 4 <= Len(bJCard)
  BY <1>1, <1>2
<1>5. ASSUME ~dStay' PROVE \E n, p, k : Drawing(n, p, k)'
  <2>1. PICK n, p, k : Drawing(n, p, k)
    BY <1>2, <1>5 DEF DeckInv, InGame
  <2>2. /\ n \in 0 .. Len(bJCard) - 4 /\ p \in Nat /\ k = 0 /\ bJcardCount = p
        /\ bJDcards = Drawn(n, p, k) /\ DrawPlace(n, Len(bJPcards) - 2, p)
    BY <1>2, <2>1 DEF Drawing
  <2>3. Len(bJPcards) - 2 \in Nat
    BY <1>1, <1>2 DEF DeckInv, InGame
  <2>4. CASE bJcardCount > Reshuffle
    <3>1. DrawPlace(n, Len(bJPcards') - 2, 0)
      BY <1>1, <1>2, <2>2, <2>3, <2>4 DEF DrawPlace
    <3>2. Drawn(n, p, k) = Drawn(n, 0, k)
      <4>1. n \in Nat /\ 0 \in Nat
        BY <1>1, <2>2
      <4> QED  BY <2>2, <4>1, DrawnFacts
    <3>3. Drawing(n, 0, k)'
      BY <1>1, <1>2, <2>2, <2>4, <3>1, <3>2 DEF Drawing
    <3> QED  BY <3>3
  <2>5. CASE ~(bJcardCount > Reshuffle)
    <3>1. Drawing(n, p, k)'
      BY <1>1, <1>2, <2>2, <2>5 DEF Drawing
    <3> QED  BY <3>1
  <2> QED  BY <2>4, <2>5
<1>6. DeckInv'
  BY <1>2, <1>4, <1>5 DEF DeckInv, InGame
<1> QED
  BY <1>2, <1>3, <1>6 DEF BeforeGames

(* The dealer takes a card: DeckLasts grants that there is one, that it    *)
(* fits his places, and that four are left behind it.                      *)
LEMMA DrawFromDeck ==
    ASSUME DeckLasts, HandInv, BeforeGames, DeckInv, ShownInv, DealerDraws
    PROVE  BeforeGames' /\ DeckInv' /\ ShownInv'
<1> DEFINE c == CardAt(bJcardCount)
<1>1. /\ Len(bJCard) \in Nat /\ Reshuffle \in Nat /\ bJcardCount \in Nat
  BY DeckNumbers DEF HandInv, HandTypes
<1>2. /\ step = "dealer" /\ step' = "dealer" /\ pStay /\ ~dStay /\ bJDscore < 16
      /\ bJDcards' = Append(bJDcards, c) /\ bJcardCount' = bJcardCount + 1
      /\ UNCHANGED <<bJPcards, pStay, pbustb>>
      /\ \/ dStay' = TRUE /\ dbustb' = TRUE
         \/ bJDscore' = Score(bJDcards') /\ UNCHANGED <<dStay, dbustb>>
  BY DEF DealerDraws, DealersTurn
<1>3. PICK n, p, k : Drawing(n, p, k)
  BY <1>2 DEF DeckInv, InGame
<1>4. /\ n \in 0 .. Len(bJCard) - 4 /\ n \in Nat /\ p \in 0..Reshuffle /\ k \in 0..4 /\ p \in Nat
      /\ bJcardCount = p + k /\ bJDcards = Drawn(n, p, k)
      /\ DrawPlace(n, Len(bJPcards) - 2, p)
  BY <1>1, <1>2, <1>3 DEF Drawing
<1>5. ASSUME NEW j \in 1..k PROVE Score(Drawn(n, p, j)) < 16
  <2>1. CASE j \in 1 .. k - 1
    BY <1>3, <2>1 DEF Drawing
  <2>2. CASE j = k
    <3>1. k > 0
      BY <1>4
    <3> QED  BY <1>2, <1>3, <2>2, <3>1 DEF Drawing
  <2> QED  BY <1>4, <2>1, <2>2
<1>6. k < 4 /\ p + k + 5 <= Len(bJCard)
  <2>1. Len(bJPcards) - 2 \in 0 .. HandPlaces - 2
    BY <1>1, <1>2 DEF DeckInv, InGame, HandPlaces
  <2> QED  BY <1>4, <1>5, <2>1 DEF DeckLasts
<1>7. c \in 0..12
  BY <1>1, <1>4, <1>6, CardOfDeck
<1>8. bJDcards' = Drawn(n, p, k + 1)
  <2>1. Append(Drawn(n, p, k), CardAt(p + k)) = Drawn(n, p, k + 1)
    <3>1. k \in Nat
      BY <1>4
    <3> QED  BY <1>4, <3>1, DrawnFacts
  <2> QED  BY <1>2, <1>4, <2>1
<1>9. Len(bJDcards') = k + 3
  <2>1. k + 1 \in Nat /\ (k + 1) + 2 = k + 3
    BY <1>4
  <2>2. Len(Drawn(n, p, k + 1)) = (k + 1) + 2
    BY <1>4, <2>1, DrawnFacts
  <2> QED  BY <1>8, <2>1, <2>2
<1>10. ShownInv'
  <2>1. bJDcards' \in Seq(0..12)
    BY <1>2, <1>7, AppendProperties DEF ShownInv
  <2>2. ASSUME ~pbustb' PROVE Score(bJDcards') <= 26
    <3>1. bJDcards \in Hands /\ ~pbustb /\ ~dbustb
      BY <1>2, <2>2 DEF HandInv, HandTypes, ShownInv
    <3>2. bJDscore = Score(bJDcards) /\ Score(bJDcards) \in Nat
      BY <3>1, ScoreType DEF HandInv, Scored
    <3>3. c \in 0..13
      BY <1>7
    <3>4. Score(bJDcards') = Score(bJDcards) + Worth(Score(bJDcards), c)
      BY <1>2, <3>1, <3>3, ScoreAppended
    <3>5. Worth(Score(bJDcards), c) \in Nat /\ Worth(Score(bJDcards), c) <= 11
      BY <3>2, <3>3, WorthFacts
    <3> HIDE DEF c
    <3> QED  BY <1>2, <3>2, <3>4, <3>5
  <2>3. Len(bJDcards') <= HandPlaces
    BY <1>4, <1>6, <1>9 DEF HandPlaces
  <2> QED  BY <1>2, <2>1, <2>2, <2>3 DEF ShownInv
<1>11. ASSUME ~dStay' PROVE Drawing(n, p, k + 1)'
  <2>1. bJDscore' = Score(bJDcards')
    BY <1>2, <1>11
  <2>2. k + 1 \in 0..4 /\ bJcardCount' = p + (k + 1) /\ (k + 1) - 1 = k
    BY <1>2, <1>4, <1>6
  <2>3. \A j \in 1 .. (k + 1) - 1 : Score(Drawn(n, p, j)) < 16
    BY <1>5, <2>2
  <2>4. DrawPlace(n, Len(bJPcards') - 2, p)
    BY <1>2, <1>4
  <2>5. /\ n \in 0 .. Len(bJCard) - 4 /\ p \in Nat /\ k + 1 \in 0..4 /\ p <= Reshuffle
        /\ step' = "dealer" /\ pStay'
    BY <1>1, <1>2, <1>4, <2>2
  <2> HIDE DEF c
  <2> QED  BY <1>8, <2>1, <2>2, <2>3, <2>4, <2>5 DEF Drawing
<1>12. DeckInv'
  <2>1. bJcardCount' + 4 <= Len(bJCard)
    BY <1>1, <1>2, <1>4, <1>6
  <2> QED  BY <1>2, <1>11, <2>1 DEF DeckInv, InGame
<1> QED
  BY <1>2, <1>10, <1>12 DEF BeforeGames

(* Every step of the game keeps it.                                        *)
LEMMA GamesStep ==
    ASSUME DeckLasts, HandInv, BeforeGames, DeckInv, ShownInv, [bJNext]_bJVars
    PROVE  BeforeGames' /\ DeckInv' /\ ShownInv'
<1>1. CASE Play
  <2>1. /\ HandTypes /\ Deal(bJcardCount) /\ ~dStay' /\ ~dbustb' /\ step' = "keys"
        /\ bJcardCount = 0
    BY <1>1 DEF Play, HandInv, BeforeGames
  <2>2. bJcardCount + 4 <= Len(bJCard)
    BY <2>1, DeckNumbers
  <2> QED  BY <2>1, <2>2, DealFromDeck
<1>2. CASE Leave
  BY <1>2 DEF Leave, BeforeGames, DeckInv, ShownInv, InGame
<1>3. CASE bJKeyboard
  <2>1. step = "keys"
    BY <1>3 DEF bJKeyboard
  <2>2. CASE Hit /\ step' = "deck"
    BY <2>1, <2>2, HitFromDeck DEF HandInv
  <2>3. CASE NewGame /\ step' = "deck"
    <3>1. HandTypes /\ Deal(bJcardCount) /\ ~dStay' /\ ~dbustb' /\ step' = "deck"
      BY <2>1, <2>3 DEF NewGame, HandInv
    <3>2. bJcardCount + 4 <= Len(bJCard)
      BY <2>1 DEF DeckInv
    <3> QED  BY <3>1, <3>2, DealFromDeck
  <2>4. CASE (Stand \/ OtherKey) /\ step' = "deck"
    <3>1. UNCHANGED <<bJPcards, bJDcards, bJPscore, bJDscore, dStay, pbustb, dbustb, bJcardCount>>
      BY <2>4 DEF Stand, OtherKey
    <3>2. ASSUME NEW n, NEW p, NEW k, Drawing(n, p, k) PROVE Drawing(n, p, k)'
      BY <2>1, <2>4, <3>1, <3>2 DEF Drawing
    <3>3. DeckInv'
      BY <2>1, <2>4, <3>1, <3>2 DEF DeckInv, InGame
    <3> QED  BY <2>1, <2>4, <3>1, <3>3 DEF BeforeGames, ShownInv
  <2>5. CASE HitBehind
    BY <2>5 DEF HitBehind, BeforeGames, DeckInv, ShownInv, InGame
  <2> QED  BY <1>3, <2>2, <2>3, <2>4, <2>5 DEF bJKeyboard
<1>4. CASE StartOver
  BY <1>4, StartOverKeeps DEF HandInv
<1>5. CASE DealerStands
  BY <1>5 DEF DealerStands, DealersTurn, BeforeGames, DeckInv, ShownInv, InGame
<1>6. CASE DealerDraws
  BY <1>6, DrawFromDeck
<1>7. CASE NextRound
  <2>1. /\ step = "dealer" /\ step' = "keys" /\ (~pStay \/ dStay)
        /\ UNCHANGED <<bJPcards, bJDcards, bJPscore, bJDscore, pStay, dStay, pbustb, dbustb,
                       bJcardCount>>
    BY <1>7 DEF NextRound, DealersTurn
  <2>2. ASSUME NEW n, NEW p, NEW k, Drawing(n, p, k), ~dStay PROVE Drawing(n, p, k)'
    BY <2>1, <2>2 DEF Drawing
  <2>3. DeckInv'
    BY <2>1, <2>2 DEF DeckInv, InGame
  <2> QED  BY <2>1, <2>3 DEF BeforeGames, ShownInv
<1>8. CASE UNCHANGED bJVars
  <2>1. ASSUME NEW n, NEW p, NEW k, Drawing(n, p, k) PROVE Drawing(n, p, k)'
    BY <1>8, <2>1 DEF Drawing, bJVars
  <2>2. DeckInv'
    BY <1>8, <2>1 DEF DeckInv, InGame, bJVars
  <2> QED  BY <1>8, <2>2 DEF BeforeGames, ShownInv, bJVars
<1> QED
  BY <1>1, <1>2, <1>3, <1>4, <1>5, <1>6, <1>7, <1>8 DEF bJNext

GamesInv == HandInv /\ (step = "menu" => ~dStay) /\ BeforeGames /\ DeckInv /\ ShownInv

(* Before the first deal.                                                  *)
LEMMA GamesInit == bJInit => GamesInv
<1> SUFFICES ASSUME bJInit PROVE GamesInv
  OBVIOUS
<1>1. HandInv
  BY EmptyHand DEF bJInit, HandInv, HandTypes, Scored
<1>2. ShownInv
  <2>1. <<>> \in Seq(0..12)
    OBVIOUS
  <2> QED  BY <2>1, EmptyHand DEF bJInit, ShownInv, HandPlaces
<1>3. BeforeGames /\ DeckInv
  BY DEF bJInit, BeforeGames, DeckInv, InGame
<1> QED
  BY <1>1, <1>2, <1>3 DEF GamesInv, bJInit

(* With a deck in such an order the invariant holds in every order of      *)
(* games, until a card goes behind the player's places.                    *)
LEMMA GamesAreSafe ==
    ASSUME DeckLasts PROVE bJSpec => []GamesInv
<1>1. GamesInv /\ [bJNext]_bJVars => GamesInv'
  BY HandStep, MenuStep, GamesStep DEF GamesInv
<1> QED
  BY <1>1, GamesInit, PTL DEF bJSpec

(* The dealer's cards fit their six places, although nothing counts them,  *)
(* in every order of games in which the player's have fitted theirs: with  *)
(* the seventh card he asks for the game is over for this theorem.         *)
THEOREM DealersCardsHavePlaces ==
    ASSUME DeckLasts PROVE bJSpec => []DealersCardsFit
<1>1. GamesInv => DealersCardsFit
  BY DEF GamesInv, ShownInv, DealersCardsFit
<1> QED
  BY <1>1, GamesAreSafe, PTL

(* No card is read from behind the deck, and every score shown has a text, *)
(* in every order of games until the player asks for a seventh card.       *)
THEOREM AllShownHasText ==
    ASSUME DeckLasts PROVE bJSpec => []ShownHasText
<1>1. GamesInv => ShownHasText
  <2> SUFFICES ASSUME GamesInv PROVE ShownHasText
    OBVIOUS
  <2>1. bJPcards \in Seq(0..12) /\ bJDcards \in Seq(0..12)
    BY DEF GamesInv, ShownInv
  <2>2. \A card \in Range(bJPcards) \cup Range(bJDcards) : HasFace(card)
    <3>1. ASSUME NEW hand \in Seq(0..12) PROVE Range(hand) \subseteq 0..12
      <4>1. DOMAIN hand = 1..Len(hand) /\ \A i \in 1..Len(hand) : hand[i] \in 0..12
        BY LenProperties, ElementOfSeq
      <4> QED  BY <4>1, Zenon DEF Range
    <3> QED  BY <2>1, <3>1 DEF HasFace
  <2>3. Score(bJPcards) \in Nat /\ Score(bJDcards) \in Nat
    BY ScoreType DEF GamesInv, HandInv, HandTypes
  <2>4. ASSUME ~pbustb PROVE HasText(Score(bJPcards)) /\ HasText(Score(bJDcards))
    <3>1. Score(bJPcards) <= 21 /\ Score(bJDcards) <= 26
      BY <2>4 DEF GamesInv, ShownInv
    <3> QED  BY <2>3, <3>1 DEF HasText
  <2> QED  BY <2>2, <2>4 DEF ShownHasText
<1> QED
  BY <1>1, GamesAreSafe, PTL
=============================================================================
