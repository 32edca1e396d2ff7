------------------------------ MODULE MCBonds ------------------------------
EXTENDS Bonds, TLC

\* The operations that touch the same pointers are explored together.
Pairings == {{"following"}, {"following", "charming"}, {"charming", "serving"}, {"serving", "haunting"},
             {"riding", "serving"}, {"riding", "holding"}}
Gathering == [t \in Pairings |-> IF t \cap {"charming", "haunting"} = {} THEN 4 ELSE 3]
Everyone == Permutations(Chars) \cup Permutations(Players)

\* The file of a player in the game is written again before it is read.
WhatIsRead ==
  <<topics, presence, fellowship, service, spirits, riding, holding,
    {f \in saved : \A c \in Chars : who[c] # f[1]}>>
=============================================================================
