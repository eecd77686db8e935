------------------------------ MODULE BlackJack ------------------------------
(***************************************************************************)
(* ColtynMain of src/Old Code/coltynGame.c: one player against a dealer    *)
(* who draws below 16, from a deck of fixed order that is read in a circle *)
(* with no check but one in the main loop.  Nothing counts the cards of a  *)
(* hand either: the model stops where the player asks for a seventh.  The  *)
(* keys come as in KeySlot; here a poll takes some key or none.            *)
(***************************************************************************)
EXTENDS Integers, SequencesExt

CONSTANTS
    bJCard,     \* the deck: card numbers 0 (ace) to 12 (king), in order (56 in the code)
    Reshuffle   \* the count behind which the main loop starts the deck over (50)

ASSUME DeckAssumption ==
    /\ bJCard \in Seq(0..12)
    /\ Reshuffle \in 0..Len(bJCard)

VARIABLES
    bJPcards, bJDcards,         \* the hands
    bJPscore, bJDscore,
    pStay, dStay, pbustb, dbustb,
    bJcardCount,                \* the next card of the deck
    step                        \* where ColtynMain is: "menu", "keys", "deck", "dealer", "left",
                                \* or "overrun": a card has gone behind bJPcards

bJVars == <<bJPcards, bJDcards, bJPscore, bJDscore, pStay, dStay, pbustb, dbustb,
          bJcardCount, step>>

\* The places of bJPcards and of bJDcards
HandPlaces == 6

\* bJCard[n]: what lies behind the deck is taken for a number that is no card
CardAt(n) == IF n < Len(bJCard) THEN bJCard[n + 1] ELSE 13

\* Pscore and Dscore: the cards in the order they came, an ace as 11 if the cards
\* before it come to 10 at most
Worth(sum, card) ==
    CASE card = 0 -> IF sum > 10 THEN 1 ELSE 11
      [] card \in 1..9 -> card + 1
      [] card \in 10..12 -> 10
      [] OTHER -> 0
Score(hand) ==
    LET sum[n \in 0..Len(hand)] ==
            IF n = 0 THEN 0 ELSE sum[n - 1] + Worth(sum[n - 1], hand[n])
    IN  sum[Len(hand)]

\* intToString and CintToChar: the scores and cards they have a text for; the others
\* are shown as "E" and "e"
HasText(score) == score \in 0..30
HasFace(card) == card \in 0..12

bJInit ==
    /\ bJPcards = <<>> /\ bJDcards = <<>>
    /\ bJPscore = 0 /\ bJDscore = 0
    /\ pStay = FALSE /\ dStay = FALSE /\ pbustb = FALSE /\ dbustb = FALSE
    /\ bJcardCount = 0
    /\ step = "menu"

\* Mutant of Deal: the dealer keeps his cards
DealOneHand(n) ==
    /\ bJPcards' = <<CardAt(n), CardAt(n + 2)>>
    /\ bJDcards' = bJDcards \o <<CardAt(n + 1), CardAt(n + 3)>>
    /\ bJPscore' = Score(bJPcards') /\ bJDscore' = Score(bJDcards')
    /\ bJcardCount' = n + 4

\* bJdeal from place n: player, dealer, player, dealer
Deal(n) ==
    /\ bJPcards' = <<CardAt(n), CardAt(n + 2)>>
    /\ bJDcards' = <<CardAt(n + 1), CardAt(n + 3)>>
    /\ bJPscore' = Score(bJPcards') /\ bJDscore' = Score(bJDcards')
    /\ bJcardCount' = n + 4

Play ==
    /\ step = "menu"
    /\ Deal(bJcardCount)
    /\ step' = "keys"
    /\ UNCHANGED <<pStay, dStay, pbustb, dbustb>>

Leave == step = "menu" /\ step' = "left" /\ UNCHANGED <<bJPcards, bJDcards, bJPscore,
            bJDscore, pStay, dStay, pbustb, dbustb, bJcardCount>>

\* Mutant of Hit: a bust is not noted
HitUnnoticed ==
    /\ Len(bJPcards) < HandPlaces
    /\ bJPcards' = Append(bJPcards, CardAt(bJcardCount))
    /\ bJcardCount' = bJcardCount + 1
    /\ LET score == Score(bJPcards') IN
       \/ score > 21 /\ bJPscore' = 0 /\ bJDscore' = 0
       \/ score <= 21 /\ bJPscore' = score /\ UNCHANGED bJDscore
    /\ UNCHANGED <<bJDcards, pStay, dStay, pbustb, dbustb>>

\* bJPlayerCard, and the player's bust: both scores are set to 0.  A player who is bust
\* or stands may go on asking
Hit ==
    /\ Len(bJPcards) < HandPlaces
    /\ bJPcards' = Append(bJPcards, CardAt(bJcardCount))
    /\ bJcardCount' = bJcardCount + 1
    /\ LET score == Score(bJPcards') IN
       \/ score > 21 /\ bJPscore' = 0 /\ bJDscore' = 0 /\ pbustb' = TRUE
       \/ score <= 21 /\ bJPscore' = score /\ UNCHANGED <<bJDscore, pbustb>>
    /\ UNCHANGED <<bJDcards, pStay, dStay, dbustb>>

\* bJPlayerCard does not count: the seventh card and its sign are written behind their
\* arrays.  What they overwrite is left to the linker, and the model ends here
HitBehind ==
    /\ Len(bJPcards) >= HandPlaces
    /\ step' = "overrun"
    /\ UNCHANGED <<bJPcards, bJDcards, bJPscore, bJDscore, pStay, dStay, pbustb, dbustb,
                   bJcardCount>>

Stand ==
    /\ pStay' = TRUE
    /\ UNCHANGED <<bJPcards, bJDcards, bJPscore, bJDscore, dStay, pbustb, dbustb, bJcardCount>>

NewGame ==
    /\ Deal(bJcardCount)
    /\ pStay' = FALSE /\ dStay' = FALSE /\ pbustb' = FALSE /\ dbustb' = FALSE

\* No key, or one that has no meaning: e leaves bJKeyboard and not the game
OtherKey == UNCHANGED <<bJPcards, bJDcards, bJPscore, bJDscore, pStay, dStay, pbustb,
                        dbustb, bJcardCount>>

bJKeyboard ==
    /\ step = "keys"
    /\ \/ step' = "deck" /\ (Hit \/ Stand \/ NewGame \/ OtherKey)
       \/ HitBehind

\* Mutant of StartOver: it looks after the deal's four cards
StartOverLate ==
    /\ step = "deck" /\ step' = "dealer"
    /\ bJcardCount' = IF bJcardCount > Reshuffle + 4 THEN 0 ELSE bJcardCount
    /\ UNCHANGED <<bJPcards, bJDcards, bJPscore, bJDscore, pStay, dStay, pbustb, dbustb>>

\* The main loop behind the poll: the deck starts over
StartOver ==
    /\ step = "deck" /\ step' = "dealer"
    /\ bJcardCount' = IF bJcardCount > Reshuffle THEN 0 ELSE bJcardCount
    /\ UNCHANGED <<bJPcards, bJDcards, bJPscore, bJDscore, pStay, dStay, pbustb, dbustb>>

DealersTurn == step = "dealer" /\ pStay /\ ~dStay

\* dealerAi: stand from 16 on
DealerStands ==
    /\ DealersTurn /\ bJDscore >= 16
    /\ dStay' = TRUE
    /\ UNCHANGED <<bJPcards, bJDcards, bJPscore, bJDscore, pStay, pbustb, dbustb, bJcardCount, step>>

\* ... and draw below, with the bust behind it in the loop of ColtynMain
DealerDraws ==
    /\ DealersTurn /\ bJDscore < 16
    /\ bJDcards' = Append(bJDcards, CardAt(bJcardCount))
    /\ bJcardCount' = bJcardCount + 1
    /\ LET score == Score(bJDcards') IN
       \/ /\ score > 21
          /\ bJPscore' = 0 /\ bJDscore' = 0 /\ dStay' = TRUE /\ dbustb' = TRUE
       \/ score <= 21 /\ bJDscore' = score /\ UNCHANGED <<bJPscore, dStay, dbustb>>
    /\ UNCHANGED <<bJPcards, pStay, pbustb, step>>

\* What ColtynMain prints at the end of a round
Compared == pStay /\ dStay /\ ~dbustb /\ ~pbustb
PlayerWins == Compared /\ bJPscore > bJDscore
DealerWins == Compared /\ bJPscore <= bJDscore

NextRound == step = "dealer" /\ ~DealersTurn /\ step' = "keys" /\ UNCHANGED <<bJPcards, bJDcards,
                bJPscore, bJDscore, pStay, dStay, pbustb, dbustb, bJcardCount>>

bJNext == Play \/ Leave \/ bJKeyboard \/ StartOver \/ DealerStands \/ DealerDraws \/ NextRound

bJSpec == bJInit /\ [][bJNext]_bJVars

-----------------------------------------------------------------------------

\* The dealer's hand: dealt from place n, with k cards drawn from place p on
Drawn(n, p, k) == <<CardAt(n + 1), CardAt(n + 3)>> \o [i \in 1..k |-> CardAt(p + i - 1)]

\* Where the dealer draws first after a deal from place n, if the player asked for so
\* many cards: behind these, unless the deck has started over since
DrawPlace(n, asked, p) ==
    \/ p = n + 4 + asked
    \/ n + 4 + asked > Reshuffle /\ p \in 0..asked

\* What the order of the deck must grant: wherever the dealer begins to draw, behind as
\* many cards as the player has places for, and draws on below 16, his cards fit their
\* places and four are left behind them for a deal
DeckLasts ==
    /\ Len(bJCard) >= 8 /\ Reshuffle + 4 <= Len(bJCard)
    /\ \A n \in 0 .. Len(bJCard) - 4, asked \in 0 .. HandPlaces - 2, p \in 0..Reshuffle, k \in 0..4 :
          DrawPlace(n, asked, p) /\ (\A j \in 1..k : Score(Drawn(n, p, j)) < 16)
             => k < 4 /\ p + k + 5 <= Len(bJCard)

-----------------------------------------------------------------------------

\* As long as the player's cards fit their six places the dealer's do, although nothing
\* counts either: also those of the dealer who must draw once more because the player's
\* bust set his score to 0.  The player need only ask for a seventh card to leave these
\* games, and from there on nothing is claimed: had there been room for it and for those
\* that follow, they could lead the dealer to places of the deck where six are not enough
DealersCardsFit == Len(bJDcards) <= HandPlaces

\* What is on the screen has a text.  No card is read from behind the deck: the one
\* check in the main loop leaves enough for a deal of four, or for all the dealer draws
\* behind it, in any order of games in none of which the player has asked for a seventh
\* card.  And a score is at most 30 unless the player's bust has ended the game: it sets
\* the dealer's score to 0, and one who stood at 21 draws again, to 31
ShownHasText ==
    /\ \A card \in Range(bJPcards) \cup Range(bJDcards) : HasFace(card)
    /\ pbustb \/ (HasText(Score(bJPcards)) /\ HasText(Score(bJDcards)))

\* A winner is announced by what the hands are worth, no bust hand among them: the
\* scores are kept apart from the cards and set to 0 by either bust.  It speaks of the
\* same games
WinnerByHands ==
    (PlayerWins \/ DealerWins) =>
        /\ bJPscore = Score(bJPcards) /\ Score(bJPcards) <= 21
        /\ bJDscore = Score(bJDcards) /\ Score(bJDcards) \in 16..21
=============================================================================
