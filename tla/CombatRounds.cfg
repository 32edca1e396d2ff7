CONSTANTS
    NULL = NULL
    street = street
    alley = alley
    altar = altar
    Chars = {p1, p2, m1}
    Players = {p1, p2}
    Groups = {{p1, p2}}
    Rooms = {street, alley, altar}
    Altar = altar
    Home = alley
    Exits <- MCExits
    Speed = {2}
SPECIFICATION BattleSpec
PROPERTY RoundEnds
CHECK_DEADLOCK FALSE
