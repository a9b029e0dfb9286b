----------------------------- MODULE MCCardRound -----------------------------
EXTENDS CardRound

Card(category, priority, effect) ==
    [category |-> category, priority |-> priority, effect |-> effect]

\* Five cards of contracts_data/cards, by id.
FiveCards == <<Card("attack", 600, "slot0"), Card("attack", 550, "slot1"),
               Card("movement", 400, "toward"), Card("movement", 380, "away"),
               Card("vent", 200, "none")>>

Overlay(decks, quota, registers, shared, rules, policy, paced) ==
    [decks |-> decks, quota |-> quota, registers |-> registers, shared |-> shared,
     rules |-> rules, policy |-> policy, paced |-> paced]

\* A single deck of five cards, two each round, reshuffled between the seats.
SharedDeck ==
    Overlay([deck |-> <<2, 0, 2, 0, 1>>],
            [s \in {1, 2} |-> [deck |-> 2]], [s \in {1, 2} |-> 2],
            TRUE, <<>>, {}, FALSE)

\* Movement and weapon piles of each seat, one seat with fewer registers.
SplitDecks ==
    Overlay([m1 |-> <<0, 0, 2, 0, 0>>, w1 |-> <<1, 0, 0, 0, 1>>,
             m2 |-> <<0, 0, 1, 1, 0>>, w2 |-> <<1, 0, 0, 0, 0>>],
            <<[m1 |-> 2, w1 |-> 1], [m2 |-> 1, w2 |-> 1]>>,
            <<3, 1>>, FALSE, <<>>, {}, TRUE)

\* A pile of one card that is asked for two, of the second seat.
ShortPile ==
    Overlay([m1 |-> <<0, 0, 1, 0, 0>>, m2 |-> <<0, 0, 0, 1, 0>>],
            <<[m1 |-> 1], [m2 |-> 2]>>, <<1, 1>>, FALSE, <<>>, {}, TRUE)

\* All rules over a hand larger than the registers, with and without a policy.
RuledHands(policy) ==
    Overlay([m1 |-> <<0, 0, 1, 1, 0>>, w1 |-> <<1, 1, 0, 0, 1>>, w2 |-> <<1, 0, 0, 0, 0>>],
            <<[m1 |-> 2, w1 |-> 2], [w2 |-> 1]>>, <<2, 1>>, FALSE,
            <<"prefer_attack_cards", "close_the_gap", "ensure_movement_card">>, policy, TRUE)

AllSetups == {SharedDeck, SplitDecks, ShortPile, RuledHands({}), RuledHands({1})}
=============================================================================
