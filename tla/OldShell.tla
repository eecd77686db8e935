------------------------------- MODULE OldShell -------------------------------
(***************************************************************************)
(* The command line of the first kernel (src/Old Code/renderer.c), its     *)
(* settings screen and its programs (command.c), on the one-key slot of    *)
(* KeySlot.  One program runs at a time: the shell calls it from keyCheck  *)
(* and goes on when it returns.  The line is kept twice, as the letters of *)
(* command and as a stretch of CommandLine, whose rows follow each other   *)
(* in memory: a long line runs on into the next row.  The clock is written *)
(* into CommandLine too, into the row the screen begins with.  Where a     *)
(* line leaves its arrays the model stops.                                 *)
(***************************************************************************)
EXTENDS TicTac, MemoryCards, SequencesExt

CONSTANTS
    Help, Hex, Run, Settings,  \* list[0..3]: the names of the commands, as letters
    Blackjack, Tictac,         \* listProg[0..1]: the names of the programs
    Colours, BorderColour,     \* the entries of ColorNameList (16), the border's first (9)
    CommandPlaces,             \* the letters command holds (256)
    Rows, Width,               \* CommandLine: its rows (256) and their columns (78)
    ScrollRow,                 \* the row of the cursor from which on the list scrolls (20)
    ClockColumns,              \* the columns of a row Seconds() writes (70 to 77)
    TypedLetters, OtherLetters, \* bounds: the keys pressed at the line and in programs,
    HurriedLetters,            \* those pressed at the line while it deals with another,
    MaxBack, MaxRow, MaxLater  \* see KeyComes

Names == {Help, Hex, Run, Settings}
Programs == {Blackjack, Tictac}
PrefixFree(S) == \A m, n \in S : IsPrefix(m, n) => m = n

ASSUME ShellAssumption ==
    /\ Names \cup Programs \subseteq Seq(Letters)
    /\ TypedLetters \cup HurriedLetters \cup OtherLetters \subseteq Letters
    /\ PrefixFree(Names) /\ PrefixFree(Programs)
    /\ Colours \in Nat \ {0} /\ BorderColour \in 0..(Colours - 1)
    /\ CommandPlaces \in Nat /\ ScrollRow \in Nat /\ MaxBack \in Nat /\ MaxRow \in Nat /\ MaxLater \in Nat
    /\ Rows \in Nat \ {0, 1} /\ Width \in Nat \ {0}
    /\ ClockColumns \subseteq 0..(Width - 1)

VARIABLES
    app,                                \* the program that polls
    command, commandCounter,            \* the letters of the line, and the next one's index
    cursorX, cursorY,                   \* the cursor in CommandLine
    ListStart,                          \* the row the screen begins with
    row,                                \* what the line and the clock have written into
                                        \* CommandLine[cursorY] and behind, from column 1
    mixed,                              \* a letter's copies came from two reads of the slot:
                                        \* from there on row is not kept
    arrow, Selection, chosen            \* the settings screen: arrow, picker, selections

lineVars == <<command, commandCounter, cursorX, cursorY, ListStart, row, mixed>>
setVars == <<arrow, Selection, chosen>>
vars == <<slotVars, ttVars, c2Vars, lineVars, setVars, app>>

CURSORX_HOME == 2
Columns == 1..(CURSORX_HOME + CommandPlaces - 1)

\* What stands in the row when a line begins is not kept: the line is typed over it
FreshRow == [x \in Columns |-> Blank]
ClockDigit == "clock digit"

Init ==
    /\ SlotInit /\ TTInit /\ C2Init
    /\ app = "shell"
    /\ command = <<>> /\ commandCounter = 0
    /\ cursorX = CURSORX_HOME /\ cursorY = 1 /\ ListStart = 0
    /\ row = FreshRow /\ mixed = FALSE
    /\ arrow = <<0, 0>> /\ Selection = 0
    /\ chosen = [BG |-> 0, FG |-> Colours - 1, BD |-> BorderColour]

-----------------------------------------------------------------------------
(* The line.                                                               *)

\* row with letter c in column x of the line, if x is a column that is modelled
Written(x, c) == IF x \in Columns THEN [row EXCEPT ![x] = c] ELSE row

\* thing(), with the cursor in row y: the list scrolls and the command is emptied
thing(y) ==
    /\ ListStart' = IF y > ScrollRow THEN y - ScrollRow ELSE ListStart
    /\ command' = <<>> /\ commandCounter' = 0

\* RenderScreenKernel puts the prompt back and then calls keyCheck
RenderScreenKernel ==
    /\ app = "shell" /\ cursorY < Rows
    /\ Look
    /\ row' = [row EXCEPT ![1] = ">"]
    /\ UNCHANGED <<app, command, commandCounter, cursorX, cursorY, ListStart, mixed,
                   ttVars, c2Vars, setVars>>

\* ... and writes the time into the first row of the screen.  Column 0 of that row is
\* as many widths from column 0 of the line as it is rows away
Seconds ==
    /\ ListStart < Rows
    /\ row' = [x \in Columns |->
                 IF x - (ListStart - cursorY) * Width \in ClockColumns THEN ClockDigit ELSE row[x]]

\* Mutant of Backspace: the counter stops at the start of the line, the cursor does not
BackspaceHalfChecked ==
    /\ cursorX' = cursorX - 1
    /\ row' = Written(cursorX - 1, Blank)
    /\ commandCounter' = IF commandCounter > 0 THEN commandCounter - 1 ELSE commandCounter
    /\ command' = IF commandCounter > 0 THEN Front(command) ELSE command
    /\ UNCHANGED <<ListStart, mixed>>

\* Neither index is checked.  What lies before command is not of this model
Backspace ==
    /\ cursorX' = cursorX - 1
    /\ row' = Written(cursorX - 1, Blank)
    /\ commandCounter' = commandCounter - 1
    /\ command' = IF commandCounter > 0 THEN Front(command) ELSE command
    /\ UNCHANGED <<ListStart, mixed>>

\* Tab and ` scroll the list by a row
ScrollTo(y) ==
    /\ ListStart' = IF y \in 0..Rows THEN y ELSE ListStart
    /\ UNCHANGED <<command, commandCounter, cursorX, row, mixed>>

\* The letter goes into command and, read once more, onto the screen
LetterFits ==
    /\ commandCounter < CommandPlaces
    /\ cursorY * Width + cursorX < Rows * Width
TypeLetter(c, d) ==
    /\ command' = IF commandCounter >= 0 THEN Append(command, c) ELSE command
    /\ commandCounter' = commandCounter + 1
    /\ cursorX' = cursorX + 1
    /\ mixed' = (mixed \/ c # d)
    /\ row' = IF mixed' THEN FreshRow ELSE Written(cursorX, d)
    /\ UNCHANGED ListStart

\* The keys with a meaning of their own, in the order in which text[1] is compared with
\* them: 8, 11 (Left Shift), 9 and 96
Tests == <<"back", "shift", "tab", "grave">>

\* What is typed when every comparison fails, each of them, the letter for command and
\* the one for the screen being a read of its own: a letter that comes in between is
\* compared with the rest only
IsTyped(c, d) ==
    \/ c = seen.char /\ c \notin Range(Tests) /\ d \in Reads
    \/ /\ c = slot.char /\ d = c
       /\ \A i, j \in DOMAIN Tests : Tests[i] = c /\ Tests[j] = seen.char => i < j

keyCheckLetter ==
    /\ app = "shell" /\ seen.kind = "letter"
    /\ \/ \E k \in Reads :
             /\ Acts({k}, "clear")
             /\ \/ k = "back" /\ Backspace
                \/ k = "shift"
                   /\ UNCHANGED <<command, commandCounter, cursorX, ListStart, row, mixed>>
                \/ k = "tab" /\ ScrollTo(ListStart + 1)
                \/ k = "grave" /\ ScrollTo(ListStart - 1)
       \/ \E c, d \in Reads :
             IsTyped(c, d) /\ LetterFits /\ Acts({c, d}, "clear") /\ TypeLetter(c, d)
    /\ UNCHANGED <<app, cursorY, ttVars, c2Vars, setVars>>

-----------------------------------------------------------------------------
(* commandCheck: the line starts with the name of a command.               *)

\* command[k+i+1]: what follows the name and one more letter
Argument(name) == SubSeq(command, Len(name) + 2, Len(command))

Returns(y) ==
    /\ thing(y) /\ cursorY' = y /\ cursorX' = CURSORX_HOME
    /\ mixed' = FALSE
    /\ app' = "shell"

\* No command: the next line is typed over this one
NoCommand ==
    /\ \A n \in Names : ~IsPrefix(n, command)
    /\ Takes("clear") /\ Returns(cursorY)
    /\ row' = FreshRow
    /\ UNCHANGED <<ttVars, c2Vars, setVars>>

\* help() lists the commands below, four rows
help ==
    /\ IsPrefix(Help, command) /\ cursorY + 4 < Rows
    /\ Takes("clear") /\ Returns(cursorY + 5)
    /\ row' = FreshRow
    /\ UNCHANGED <<ttVars, c2Vars, setVars>>

\* hex() writes its argument from column 5 of the row the cursor comes to stand in
hex ==
    /\ IsPrefix(Hex, command) /\ cursorY + 2 < Rows
    /\ Takes("clear") /\ Returns(cursorY + 2)
    /\ row' = LET a == Argument(Hex)
              IN [x \in Columns |-> IF x - 4 \in 1..(IF Len(a) < 8 THEN Len(a) ELSE 8)
                                    THEN a[x - 4] ELSE Blank]
    /\ UNCHANGED <<ttVars, c2Vars, setVars>>

\* A program or the settings start on the next row; the line is emptied when they return
Starts(program, next) ==
    /\ Takes(next)
    /\ app' = program
    /\ cursorX' = CURSORX_HOME /\ cursorY' = cursorY + 1
    /\ row' = FreshRow /\ mixed' = FALSE
    /\ UNCHANGED <<command, commandCounter, ListStart>>

runNothing ==
    /\ IsPrefix(Run, command) /\ \A p \in Programs : ~IsPrefix(p, Argument(Run))
    /\ Takes("clear") /\ Returns(cursorY + 1)
    /\ row' = FreshRow
    /\ UNCHANGED <<ttVars, c2Vars, setVars>>

\* run(): the first name of listProg starts the cards, whatever it says
runCards ==
    /\ IsPrefix(Run, command) /\ IsPrefix(Blackjack, Argument(Run))
    /\ Starts("cards menu", "look")
    /\ UNCHANGED <<ttVars, c2Vars, setVars>>

runTicTac ==
    /\ IsPrefix(Run, command) /\ IsPrefix(Tictac, Argument(Run))
    /\ Starts("tictac menu", "look")
    /\ TTclearboard /\ isRunning' = TRUE
    /\ UNCHANGED <<c2Vars, setVars>>

settings ==
    /\ IsPrefix(Settings, command)
    /\ Starts("settings", "look")
    /\ arrow' = <<0, 0>>
    /\ UNCHANGED <<Selection, chosen, ttVars, c2Vars>>

commandCheck ==
    /\ app = "shell" /\ seen = Enter
    /\ \/ NoCommand \/ help \/ hex \/ runNothing \/ runCards \/ runTicTac \/ settings

-----------------------------------------------------------------------------
(* The settings screen and its colour picker.                              *)

Setting(a) == CASE a = <<0, 0>> -> "BG" [] a = <<0, 1>> -> "FG" [] a = <<1, 0>> -> "BD"

\* w, s, a and d move the arrow between the four buttons
Moved(c) ==
    CASE c = "w" -> <<arrow[1], 0>> [] c = "s" -> <<arrow[1], 1>>
      [] c = "a" -> <<0, arrow[2]>> [] c = "d" -> <<1, arrow[2]>> [] OTHER -> arrow

OpenPicker ==
    /\ arrow # <<1, 1>>
    /\ Takes("look")
    /\ app' = "picker" /\ Selection' = 0
    /\ UNCHANGED <<arrow, chosen, lineVars>>

\* Exit returns without clearing text[0]: keyCheck does, after thing()
ExitSettings ==
    /\ arrow = <<1, 1>>
    /\ Acts({}, "clear")
    /\ Returns(cursorY)
    /\ UNCHANGED <<setVars, row>>

GetKeySettings ==
    /\ app = "settings" /\ seen # Nothing
    /\ \/ seen = Enter /\ (OpenPicker \/ ExitSettings)
       \/ /\ seen.kind = "letter"
          /\ \E c \in Reads : Acts({c}, "clear") /\ arrow' = Moved(c)
          /\ UNCHANGED <<app, Selection, chosen, lineVars>>
    /\ UNCHANGED <<ttVars, c2Vars>>

\* Mutant of PickColour: the caller does not clear the slot
PickColourOnly ==
    /\ seen = Enter
    /\ Acts({}, "look")
    /\ app' = "settings"
    /\ chosen' = [chosen EXCEPT ![Setting(arrow)] = Selection]
    /\ UNCHANGED <<arrow, Selection>>

\* ColorPicker returns with the Enter key still in the slot: GetKeySettings clears it
PickColour ==
    /\ seen = Enter
    /\ Acts({}, "clear")
    /\ app' = "settings"
    /\ chosen' = [chosen EXCEPT ![Setting(arrow)] = Selection]
    /\ UNCHANGED <<arrow, Selection>>

MovePicker ==
    /\ seen.kind = "letter"
    /\ \E c \in Reads :
          /\ Acts({c}, "clear")
          /\ Selection' = LET to == CASE c = "w" -> Selection - 1
                                      [] c = "s" -> Selection + 1 [] OTHER -> Selection
                          IN  IF to \in 0..(Colours - 1) THEN to ELSE Selection
    /\ UNCHANGED <<app, arrow, chosen>>

ColorPicker ==
    /\ app = "picker"
    /\ PickColour \/ MovePicker
    /\ UNCHANGED <<lineVars, ttVars, c2Vars>>

-----------------------------------------------------------------------------
(* The programs: each waits for its key, then polls for good.              *)

OthersUnchanged == UNCHANGED <<lineVars, setVars>>

TicTacMenu ==
    /\ app = "tictac menu" /\ seen.kind = "letter"
    /\ \E c \in Reads :
          /\ Acts({c}, "clear")
          /\ app' = IF c = " " THEN "tictac" ELSE app
    /\ UNCHANGED <<ttVars, c2Vars>> /\ OthersUnchanged

\* The poll that reads t is the last: the program returns to the shell
TicTacMain ==
    /\ app = "tictac" /\ seen.kind = "letter"
    /\ TTKeyboard
    /\ \/ isRunning' /\ UNCHANGED app /\ OthersUnchanged
       \/ ~isRunning' /\ Returns(cursorY) /\ UNCHANGED <<row, setVars>>
    /\ UNCHANGED c2Vars

CardsMenu ==
    /\ app = "cards menu" /\ seen.kind = "letter"
    /\ eRender
    /\ UNCHANGED <<app, ttVars>> /\ OthersUnchanged

Cards ==
    /\ app = "cards" /\ seen.kind = "letter"
    /\ eCursor
    /\ UNCHANGED <<app, ttVars>> /\ OthersUnchanged

CardsCheck ==
    /\ app = "cards check" /\ seen.kind = "letter"
    /\ checkMatch
    /\ app' = "cards"
    /\ UNCHANGED ttVars /\ OthersUnchanged

\* What each program does when the slot holds nothing for it: most clear it all the
\* same, the cards clear it only behind a letter
NothingSeen ==
    /\ seen = Nothing \/ (seen = Enter /\ app \notin {"shell", "settings", "picker"})
    /\ Ignores(IF app \in {"cards menu", "cards", "cards check"} THEN "look" ELSE "clear")
    /\ app' = CASE app = "cards" -> "cards check" [] app = "cards check" -> "cards"
                [] OTHER -> app
    /\ UNCHANGED <<ttVars, c2Vars>> /\ OthersUnchanged

\* text[0] = 0 at the end of a poll, and the step to the next loop; the shell shows the
\* time behind it
ClearSlot ==
    /\ Clear
    /\ \/ app = "shell" /\ Seconds
       \/ app # "shell" /\ UNCHANGED row
    /\ app' = CASE app = "cards" -> "cards check"
                [] app = "cards menu" /\ boardRendered -> "cards"
                [] OTHER -> app
    /\ UNCHANGED <<command, commandCounter, cursorX, cursorY, ListStart, mixed,
                   ttVars, c2Vars, setVars>>

\* The prompt, a letter, what help and hex write, the time: behind command or behind
\* the last row of CommandLine, where the model does not follow
LineOverruns ==
    /\ kernel = "running" /\ app = "shell"
    /\ \/ at = "look" /\ cursorY >= Rows
       \/ /\ at = "act" /\ seen.kind = "letter" /\ ~LetterFits
          /\ \E c, d \in Reads : IsTyped(c, d)
       \/ at = "act" /\ seen = Enter /\ IsPrefix(Help, command) /\ cursorY + 4 >= Rows
       \/ at = "act" /\ seen = Enter /\ IsPrefix(Hex, command) /\ cursorY + 2 >= Rows
       \/ at = "clear" /\ ListStart >= Rows
    /\ kernel' = "overrun"
    /\ UNCHANGED <<slot, at, seen, used, same, app, ttVars, c2Vars, lineVars, setVars>>

LookAround ==
    /\ app # "shell" /\ Look
    /\ UNCHANGED <<app, ttVars, c2Vars>> /\ OthersUnchanged

ProgramStep ==
    \/ RenderScreenKernel \/ keyCheckLetter \/ commandCheck
    \/ GetKeySettings \/ ColorPicker
    \/ TicTacMenu \/ TicTacMain
    \/ CardsMenu \/ Cards \/ CardsCheck
    \/ LookAround \/ NothingSeen \/ ClearSlot \/ LineOverruns

-----------------------------------------------------------------------------
(* The keyboard interrupt, between any two steps.                          *)

ProgramsUnchanged == UNCHANGED <<app, ttVars, c2Vars, lineVars, setVars>>

\* The bounds on the keys.  At the line: MaxBack backspaces past its start, one that is
\* looked at counted, behind row MaxRow only MaxLater letters, and none once programs
\* have left marks or a selection behind.  In a program: only those started from the
\* first rows of a list that has not been scrolled
Pending == IF at = "act" /\ seen.kind = "letter" THEN 1 ELSE 0
KeyComes ==
    IF app = "shell"
    THEN /\ commandCounter - Pending > -MaxBack
         /\ cursorY > MaxRow => commandCounter + Pending < MaxLater
         /\ TTboard = NoMarks /\ Selection = 0 /\ arrow = <<0, 0>>
    ELSE ListStart = 0 /\ cursorY <= MaxRow + 1

KeyboardLetter ==
    /\ KeyComes
    /\ \E c \in CASE app # "shell" -> OtherLetters
                [] app = "shell" /\ at = "look" -> TypedLetters
                [] app = "shell" /\ at # "look" -> HurriedLetters : Press(Letter(c))
    /\ ProgramsUnchanged

KeyboardEnter == (app = "shell" \/ KeyComes) /\ Press(Enter) /\ ProgramsUnchanged

KeyboardAlt == PressAlt /\ ProgramsUnchanged

\* Right Shift: thing(), then kmain() starts over inside the handler, which this model
\* does not follow
KeyboardRightShift ==
    /\ kernel = "running"
    /\ kernel' = "restarted"
    /\ thing(cursorY)
    /\ UNCHANGED <<slot, at, seen, used, same, app, ttVars, c2Vars, setVars,
                   cursorX, cursorY, row, mixed>>

keyboard_handler_main ==
    KeyboardLetter \/ KeyboardEnter \/ KeyboardAlt \/ KeyboardRightShift

Next == ProgramStep \/ keyboard_handler_main

\* The programs poll without end; nobody need touch the keyboard
Spec == Init /\ [][Next]_vars /\ WF_vars(ProgramStep)

-----------------------------------------------------------------------------
(* Properties.                                                             *)

\* A key is acted on at most once, whatever program it is meant for: "set text[0] = 0
\* after the keypress has been accepted" (coltynGame.c).  The picker returns and the
\* settings exit with the Enter key still in the slot and rely on their callers'
\* clearing it before anybody looks again.
KeyActedOnOnce == used <= 1

\* Column x of the line has been under the clock at some time: with the screen's first
\* row r rows below the line
UnderClock(x) == \E r \in -Rows..Rows : x - r * Width \in ClockColumns

\* The command that is matched is the line that is shown: while the shell waits, the
\* cursor stands as many columns behind the prompt as there are letters in command,
\* and shows them, unless a key came between the two reads of one letter, and but for
\* the columns of the clock, which Tab brings down onto the line.  Backspace checks
\* neither index, so both must go below their starts together.
LineShowsCommand ==
    (kernel = "running" /\ app = "shell") =>
        /\ cursorX = CURSORX_HOME + commandCounter
        /\ Len(command) = (IF commandCounter > 0 THEN commandCounter ELSE 0)
        /\ ~mixed => \A i \in 1..Len(command) :
               row[i + 1] = command[i] \/ (row[i + 1] = ClockDigit /\ UnderClock(i + 1))

\* The two notes are of the cards that lie face up, the one turned first in card1, so
\* that two are called a match if their faces are the same: over every order of turning
\* cards up and down in which the one turned last is the one turned down.  When the
\* first of two is turned down, the code keeps its note and forgets the other, and
\* only how many are noted is right until none lies face up.
NotedCardsLieFaceUp ==
    /\ Cardinality(eChecked) = checkedCounter
    /\ card1 = NoCard <=> checkedCounter = 0
    /\ card2 = NoCard <=> checkedCounter < 2
    /\ ~outOfTurn =>
          /\ eChecked = Range(turned)
          /\ checkedCounter >= 1 => card1 = eCard[turned[1]]
          /\ checkedCounter = 2 => card2 = eCard[turned[2]]

\* A letter in the slot is looked at and cleared, or replaced by the Enter key, by
\* whatever program runs, unless the handler itself stops the machine or the line
\* leaves its arrays.
LetterLeavesSlot == (slot.kind = "letter") ~> (slot.kind # "letter" \/ kernel # "running")
=============================================================================
