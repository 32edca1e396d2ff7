CONSTANTS
    NULL = NULL
    Room = room
    pat = pat
    mob = mob
    Chars = {pat, mob}
    Players = {pat}
    MaxObjs = 3
    CarryN = 2
    CarryW = 4
    CoinCost = {9}
    Amounts = {1, 2}
    Purse <- MCPurse
SPECIFICATION Spec
INVARIANTS
    TypeOK
    EachInItsPlace
    SumsRight
PROPERTY GoldOnlyByCoins
CONSTRAINT ObjectsBound
VIEW Seen
