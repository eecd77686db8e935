------------------------------- MODULE KeySlot -------------------------------
(***************************************************************************)
(* The keyboard of the first kernel (src/Old Code).  The interrupt handler *)
(* leaves one key in two bytes at 0x7E00: text[0] says what there is       *)
(* (nothing, the Enter key, a letter) and text[1] holds the letter.  There *)
(* is no queue and no lock: whatever program runs polls text[0], acts, and *)
(* clears text[0] when it is done, and the interrupt may come between any  *)
(* two of these steps.  This module is the slot, the handler and the three *)
(* steps of a poll; the programs that poll are modules of their own.       *)
(***************************************************************************)
EXTENDS Integers, Sequences, FiniteSets

CONSTANTS Letters          \* what keyboard_map makes of the keys but Right Shift and Alt

VARIABLES
    slot,       \* text[0] as kind, text[1] as char while somebody may read it
    at,         \* the step of the poll that comes next: "look", "act", "clear"
    seen,       \* what the last look read, while it is acted on
    used,       \* how often the key now in the slot has been acted on
    same,       \* no key has come since the look
    kernel      \* "running", "debug" (in debug() for good), "restarted" (kmain again),
                \* "overrun" (an array has been left: what lies behind is overwritten)

slotVars == <<slot, at, seen, used, same, kernel>>

Blank == " "

\* text[0] = 0, 2 and 3.  Only a program that has seen text[0] = 3 reads text[1]
Nothing   == [kind |-> "none", char |-> Blank]
Enter     == [kind |-> "enter", char |-> Blank]
Letter(c) == [kind |-> "letter", char |-> c]

SlotInit ==
    /\ slot = Nothing /\ seen = Nothing
    /\ at = "look"
    /\ used = 0 /\ same = TRUE
    /\ kernel = "running"

-----------------------------------------------------------------------------
(* The interrupt handler: the slot is overwritten, read or not.            *)

\* The Enter key leaves text[1] as it is, for a program that has seen a letter and has
\* not read it yet
Press(key) ==
    /\ kernel = "running"
    /\ slot' = IF key = Enter /\ seen.kind = "letter" THEN [key EXCEPT !.char = slot.char] ELSE key
    /\ used' = 0 /\ same' = FALSE
    /\ UNCHANGED <<at, seen, kernel>>

\* Alt: the handler never returns from debug()
PressAlt ==
    /\ kernel = "running"
    /\ kernel' = "debug"
    /\ UNCHANGED <<slot, at, seen, used, same>>

-----------------------------------------------------------------------------
(* A poll: text[0] is read, what it says is acted on, text[0] is cleared.  *)

\* What a look at key tells
Looked(key) == IF key.kind = "letter" THEN key ELSE [key EXCEPT !.char = Blank]

Look ==
    /\ kernel = "running" /\ at = "look"
    /\ seen' = Looked(slot) /\ same' = TRUE
    /\ at' = "act"
    /\ UNCHANGED <<slot, used, kernel>>

\* What a program that has seen a letter may read: text is no volatile pointer, so that
\* a read of text[1] gives the letter of the look or the last one that has come since,
\* the Enter key behind it or not
Reads == {seen.char, slot.char}

Acting(next) ==
    /\ kernel = "running" /\ at = "act"
    /\ at' = next /\ seen' = Nothing /\ same' = TRUE
    /\ UNCHANGED kernel

\* The program acts on the key it looked at, having read the letters of cs, and
\* goes on with step next
Acts(cs, next) ==
    /\ Acting(next)
    /\ used' = IF same \/ (slot.kind = "letter" /\ slot.char \in cs \ {seen.char})
               THEN used + 1 ELSE used
    /\ UNCHANGED slot

\* The program clears text[0] at once and acts on the key it looked at afterwards
Takes(next) ==
    /\ Acting(next)
    /\ slot' = Nothing
    /\ used' = IF same THEN used + 1 ELSE 0

\* The look found nothing the program acts on
Ignores(next) == Acting(next) /\ UNCHANGED <<slot, used>>

Clear ==
    /\ kernel = "running" /\ at = "clear"
    /\ slot' = Nothing /\ used' = 0
    /\ at' = "look"
    /\ UNCHANGED <<seen, same, kernel>>
=============================================================================
