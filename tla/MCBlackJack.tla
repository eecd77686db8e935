----------------------------- MODULE MCBlackJack -----------------------------
(* The deck as the program ships it.                                       *)
EXTENDS BlackJack

MCDeck == <<0, 1, 3, 2, 0, 12, 7, 5, 1, 2, 4, 8, 2, 4, 1, 6, 12, 10, 3, 9, 7, 8, 11, 10,
            10, 9, 0, 12, 11, 5, 8, 2, 12, 3, 4, 11, 6, 2, 8, 1, 5, 7, 6, 4, 7, 9, 4,
            10, 0, 9, 3, 11, 5, 1, 8, 6>>

\* Its order grants what the properties of the dealer's cards rest on
ASSUME ShippedDeckLasts == DeckLasts
=============================================================================
