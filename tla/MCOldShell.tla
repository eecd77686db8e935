------------------------------ MODULE MCOldShell ------------------------------
(* The old shell with names of one and two letters, three cards and two    *)
(* colours, a line of three letters and six rows of three columns.         *)
EXTENDS OldShell

MCTyped == {"t", "c", " ", "back", "shift", "tab", "grave"}
MCHurried == {"back"}
MCOther == {"w", "s", "d", "e", "c", "t", "k", " "}
MCLetters == MCTyped \cup MCOther
MCHelp == <<"c", "c">>
MCHex == <<" ">>
MCRun == <<"t">>
MCSettings == <<"c", "t">>
MCBlackjack == <<"c">>
MCTictac == <<"t">>
MCCard == [p \in (0..2) \X {0} |-> <<"1", "2", "1">>[p[1] + 1]]
MCClock == {2}
=============================================================================
