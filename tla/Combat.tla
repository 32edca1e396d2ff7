------------------------------- MODULE Combat -------------------------------
(***************************************************************************)
(* Fights (fight.c): the periodic violence_update, the groups of attacks   *)
(* it makes (multi_hit, one_hit), what a blow can do to its victim         *)
(* (hurt_person, raw_kill), and the commands and ticks that come between   *)
(* two rounds.                                                             *)
(*                                                                         *)
(* The server is one thread, so nothing runs concurrently; what interferes *)
(* is the code itself.  A blow may wound, kill, free, or drive off anyone, *)
(* while violence_update, the room loop inside it and multi_hit still hold *)
(* pointers they read before the blow.  Each action is one step between    *)
(* two such points: one iteration of a loop, one stage of multi_hit, the   *)
(* entry of damage(), the outcome of hurt_person().                        *)
(*                                                                         *)
(* The fight list is taken from FightOrder, which FightList implements.    *)
(*                                                                         *)
(* Definitions named Slip... are bugs the code could plausibly have had;   *)
(* nothing uses them except the runs that show a property notices them.    *)
(***************************************************************************)
EXTENDS FightOrder

CONSTANTS
    Players,       \* the characters that are players; the others are mobiles
    Groups,        \* players who are grouped with one another (a partition)
    Rooms,         \* rooms a fight can take place in, and the two below
    Altar,         \* ROOM_VNUM_ALTAR, a ROOM_SAFE room where dead players wake
    Home,          \* ch->home, where do_recall leads
    Exits,         \* Exits[r]: the rooms next to r
    Speed          \* the values get_speed can return

ASSUME CombatAssumption ==
    /\ IsFiniteSet(Chars) /\ Players \subseteq Chars
    /\ \A g \in Groups : g \subseteq Players
    /\ Altar \in Rooms /\ Home \in Rooms /\ NULL \notin Rooms
    /\ Exits \in [Rooms -> SUBSET Rooms]
    /\ Speed \subseteq Nat /\ \A n \in Speed : n >= 2

VARIABLES
    position,      \* ch->position; "down" is POS_MORTAL, INCAP or STUNNED
    wounded,       \* the players whose hit is 0 or less; who is "down" and not
                   \*   one of them has only been stunned
    people,        \* people[r]: the room's list, threaded by next_in_room
    init,          \* ch->init: pulses before the next attacks
    pc,            \* where the thread is
    ch,            \* violence_update's loop variable
    ch_next,       \*   and the successor it saved
    victim,        \* the opponent violence_update holds during the room loop
    rch,           \* the room loop's variable
    att, vic,      \* multi_hit's arguments
    stage,         \* how far multi_hit has come
    ret,           \* where multi_hit returns to
    blow,          \* the arguments of the hurt_person call under way
    served,        \* history: 0 for who has not had its attacks in this round; for
                   \*   the others one more than the times it has since taken up
                   \*   a fight anew, counted up to two
    slain          \* history: who has been killed since the thread was idle

world == <<order, fighting, position, wounded, people, init>>
walk == <<ch, ch_next, victim, rch>>
hit == <<att, vic, stage, ret, blow>>
history == <<served, slain>>
vars == <<world, pc, walk, hit, history>>

NobodyServed == [c \in Chars |-> 0]

Positions == {"dead", "down", "sleeping", "resting", "fighting", "standing"}
Awake(c) == position[c] \in {"resting", "fighting", "standing"}
IsNPC(c) == c \notin Players
SameGroup(c, d) == c = d \/ \E g \in Groups : c \in g /\ d \in g

In(s, c) == \E i \in 1..Len(s) : s[i] = c

(* ch->in_room; NULL for a character that has been extracted.              *)
RoomOf(c) == IF \E r \in Rooms : In(people[r], c)
             THEN CHOOSE r \in Rooms : In(people[r], c)
             ELSE NULL

Present(c) == RoomOf(c) # NULL

HeadOf(s) == IF s = << >> THEN NULL ELSE s[1]

(* The link to the element after c; NULL once c is unlinked.               *)
NextIn(s, c) ==
    IF \E i \in 1..(Len(s) - 1) : s[i] = c
    THEN s[(CHOOSE i \in 1..(Len(s) - 1) : s[i] = c) + 1]
    ELSE NULL

SlipFromTheTop(c) ==            \* the room loop starts over instead of going on
    IF Present(c) THEN HeadOf(people[RoomOf(c)]) ELSE NULL

NextInRoom(c) == IF Present(c) THEN NextIn(people[RoomOf(c)], c) ELSE NULL

(* char_from_room unlinks; char_to_room links in at the head.              *)
Gone(c) == [r \in Rooms |-> Without(people[r], {c})]

SlipStillThere(c, r) == [people EXCEPT ![r] = <<c>> \o @]   \* not unlinked first

MovedTo(c, r) == [Gone(c) EXCEPT ![r] = <<c>> \o @]

TypeOK ==
    /\ order \in Seq(Chars)
    /\ fighting \in [Chars -> Chars \cup {NULL}]
    /\ position \in [Chars -> Positions]
    /\ wounded \subseteq Players
    /\ people \in [Rooms -> Seq(Chars)]
    /\ \A r, q \in Rooms : \A i \in 1..Len(people[r]), j \in 1..Len(people[q]) :
           people[r][i] = people[q][j] => r = q /\ i = j
    /\ init \in [Chars -> Nat]
    /\ pc \in {"idle", "head", "after", "assist", "swing", "blow"}
    /\ {ch, ch_next, victim, rch, att, vic} \subseteq Chars \cup {NULL}
    /\ stage \in 0..5
    /\ ret \in {"idle", "again", "after", "assist"}
    /\ blow \in (Chars \X Chars) \cup {<< >>}
    /\ served \in [Chars -> 0..3] /\ slain \subseteq Chars

-----------------------------------------------------------------------------
SlipPositionKept(out, hurt) == position    \* released, but left in POS_FIGHTING

(* stop_fighting, for the fighters it takes out; its update_pos leaves a   *)
(* released fighter on its feet, or down if its hit is 0 or less.          *)
AfterStop(out, hurt) ==
    [c \in Chars |-> IF c \notin out THEN position[c]
                     ELSE IF c \in hurt THEN "down" ELSE "standing"]

StopFor(out, hurt) ==
    /\ order' = Without(order, out)
    /\ fighting' = Disengaged(fighting, out)
    /\ position' = AfterStop(out, hurt)

SlipAnyRoom(h, t) == RoomOf(h) = Altar     \* the rooms are not compared

(* is_safe, as far as rooms go; whom the PK rules protect is left open, but*)
(* nobody is protected from whoever it is fighting itself.                 *)
IsSafe(h, t) == RoomOf(h) # RoomOf(t) \/ RoomOf(h) = Altar
MayBeRefused(h, t) == fighting[t] # h

(* What one_hit and damage check before anything happens; nobody is safe   *)
(* from its own hand.                                                      *)
MayStrike(h, t) ==
    /\ position[t] # "dead"
    /\ IF h = t THEN Present(h) ELSE ~IsSafe(h, t)

Init ==
    /\ FightInit
    /\ position = [c \in Chars |-> "standing"]
    /\ wounded = {}
    /\ \E r \in Rooms : \E s \in [1..Cardinality(Chars) -> Chars] :
           /\ \A i, j \in DOMAIN s : s[i] = s[j] => i = j
           /\ r # Altar
           /\ people = [q \in Rooms |-> IF q = r THEN s ELSE << >>]
    /\ init = [c \in Chars |-> 0]
    /\ pc = "idle"
    /\ ch = NULL /\ ch_next = NULL /\ victim = NULL /\ rch = NULL
    /\ att = NULL /\ vic = NULL /\ stage = 0 /\ ret = "idle" /\ blow = << >>
    /\ served = NobodyServed /\ slain = {}

-----------------------------------------------------------------------------
(* multi_hit: up to five blows, with the tests between them that are meant *)
(* to notice that a blow has ended the fight.                              *)
(*   1 one_hit(ch, victim)             2 the spell in the weapon           *)
(*   3, 4 the victim's fast-drawn weapons, one_hit(victim, ch)             *)
(*   5 fangs, tusks or horns, one_hit(ch, victim)                          *)

MultiHit(a, v, back) ==
    /\ att' = a /\ vic' = v /\ ret' = back
    /\ stage' = 1 /\ blow' = << >>
    /\ pc' = "swing"

(* The tests made before stage n, and who can have that stage at all.      *)
GoesOn(n) ==
    /\ n > 1 => position[vic] = "fighting"
    /\ n > 2 /\ stage <= 3 => fighting[att] = vic
    /\ n \in {3, 4} => ~IsNPC(vic)
    /\ n = 5 => ~IsNPC(att)

(* The entry of damage(h, t) up to hurt_person: whoever is not down takes  *)
(* up the fight, and that puts it in POS_FIGHTING, whatever state it is in.*)
(* A blow against oneself starts no fight.                                 *)
TakeUpFight(h, t) ==
    LET awake == h # t /\ position[t] # "down"
        new   == IF awake THEN {c \in {h, t} : fighting[c] = NULL} ELSE {}
    IN  /\ order' = order \o (IF t \in new THEN <<t>> ELSE << >>)
                          \o (IF h \in new THEN <<h>> ELSE << >>)
        /\ fighting' = [c \in Chars |-> IF c \notin new THEN fighting[c]
                                        ELSE IF c = t THEN h ELSE t]
        /\ position' = [c \in Chars |->
                           IF c \in new \/ (c = t /\ awake) THEN "fighting"
                           ELSE position[c]]
        /\ served' = [c \in Chars |-> IF c \in new /\ served[c] \in {1, 2}
                                      THEN served[c] + 1 ELSE served[c]]

(* Stage n is reached; one_hit and is_safe may end it at once.             *)
Swing(n) ==
    LET h == IF n \in {3, 4} THEN vic ELSE att
        t == IF n \in {3, 4} THEN att ELSE vic
    IN  /\ pc = "swing" /\ stage > 0 /\ n >= stage
        /\ n = 1 => stage = 1
        /\ stage = 1 => n = 1 /\ position[att] \notin {"dead", "down"}
        /\ GoesOn(n)
        /\ \/ /\ ~MayStrike(h, t) \/ (h # t /\ MayBeRefused(h, t))
              /\ UNCHANGED <<world, pc, blow, served>>
           \/ /\ MayStrike(h, t)
              /\ TakeUpFight(h, t)
              /\ pc' = "blow" /\ blow' = <<h, t>>
              /\ UNCHANGED <<wounded, people, init>>
        /\ stage' = IF n = 5 THEN 0 ELSE n + 1
        /\ UNCHANGED <<walk, att, vic, ret, slain>>

(* multi_hit returns: after any stage but the first has been skipped, or   *)
(* because its attacker is down to begin with.                             *)
MultiHitOver ==
    /\ pc = "swing"
    /\ stage = 1 => position[att] \in {"dead", "down"}
    /\ UNCHANGED <<world, walk, blow, served>>

MultiHitReturn ==
    /\ MultiHitOver
    /\ ret # "again"
    /\ pc' = ret
    /\ att' = NULL /\ vic' = NULL /\ stage' = 0 /\ ret' = "idle"
    /\ slain' = IF ret = "idle" THEN {} ELSE slain

(* do_kill calls multi_hit a second time after a charge, whatever the first *)
(* call has done to the two.                                               *)
MultiHitAgain ==
    /\ MultiHitOver
    /\ ret = "again"
    /\ stage' = 1 /\ ret' = "idle"
    /\ UNCHANGED <<pc, att, vic, slain>>

-----------------------------------------------------------------------------
(* What hurt_person(h, t) does.  Control then returns to the multi_hit it  *)
(* was called from, or to the tick that hurt t.                            *)
BlowDone ==
    /\ pc = "blow"
    /\ pc' = IF att = NULL THEN "idle" ELSE "swing"
    /\ blow' = << >>
    /\ UNCHANGED <<init, walk, att, vic, stage, ret, served>>

(* Who has died is remembered until the thread is idle again.              *)
Noted(dead) == slain' = IF att = NULL THEN {} ELSE slain \cup dead

Target == blow[2]

Stunned(c) == position[c] = "down" /\ c \notin wounded

(* Missed, parried, or hurt without consequence; hurt_person stops the     *)
(* fight of whoever is not awake.                                          *)
BlowAbsorbed ==
    /\ BlowDone
    /\ ~Stunned(Target)
    /\ Target \in wounded => Awake(Target)
    /\ StopFor(IF Awake(Target) THEN {} ELSE Released(fighting, Target, FALSE), wounded)
    /\ UNCHANGED <<wounded, people>>
    /\ Noted({})

(* Who was stunned before the blow can neither parry nor dodge it, and is  *)
(* on its feet after it (update_pos); without a connection it may recall,  *)
(* also from no fight.                                                     *)
BlowRouses ==
    /\ BlowDone
    /\ Stunned(Target)
    /\ position' = [position EXCEPT ![Target] = "standing"]
    /\ \/ UNCHANGED people
       \/ /\ blow[1] # Target /\ ~IsNPC(Target) /\ fighting[Target] = NULL
          /\ people' = MovedTo(Target, Home)
    /\ UNCHANGED <<order, fighting, wounded>>
    /\ Noted({})

(* update_pos on a player p whose hit has just fallen to 0 or less: p goes *)
(* down.  A hero (undying) is left as it is, except that everybody lets go *)
(* of one that is in POS_FIGHTING.  alone: stop_fighting(p, FALSE) follows *)
(* if p is no longer awake.                                                *)
GoDown(p, alone) ==
    \E undying \in BOOLEAN :
        LET stays == undying /\ position[p] # "fighting"
            out   == IF undying /\ ~stays THEN Released(fighting, p, TRUE)
                     ELSE IF alone /\ ~(stays /\ Awake(p))
                          THEN Released(fighting, p, FALSE) ELSE {}
        IN  /\ order' = Without(order, out)
            /\ fighting' = Disengaged(fighting, out)
            /\ wounded' = wounded \cup {p}
            /\ position' = IF stays /\ p \notin out THEN position
                           ELSE [AfterStop(out, wounded') EXCEPT ![p] = "down"]

(* A player is badly hurt.  Its opponents go on fighting it.  A player     *)
(* without a connection may then recall.                                   *)
BlowWounds ==
    /\ BlowDone
    /\ Target \in Players
    /\ GoDown(Target, TRUE)
    /\ \/ UNCHANGED people
       \/ blow[1] # Target /\ people' = MovedTo(Target, Home)
    /\ Noted({})

SlipOneSided(t) ==              \* the dead lets go, its opponents do not
    LET out == Released(fighting, t, FALSE)
    IN  /\ order' = Without(order, out)
        /\ fighting' = Disengaged(fighting, out)
        /\ wounded' = wounded \ {t}
        /\ position' = [AfterStop(out, wounded) EXCEPT
                            ![t] = IF IsNPC(t) THEN "dead" ELSE "resting"]
        /\ people' = IF IsNPC(t) THEN Gone(t) ELSE MovedTo(t, Altar)

(* raw_kill: everybody lets go of the dead; a mobile is extracted, a       *)
(* player wakes up resting at the altar.                                   *)
RawKill(t) ==
    LET out == Released(fighting, t, TRUE)
    IN  /\ order' = Without(order, out)
        /\ fighting' = Disengaged(fighting, out)
        /\ wounded' = wounded \ {t}
        /\ position' = [AfterStop(out, wounded) EXCEPT
                            ![t] = IF IsNPC(t) THEN "dead" ELSE "resting"]
        /\ people' = IF IsNPC(t) THEN Gone(t) ELSE MovedTo(t, Altar)

BlowKills ==
    /\ BlowDone
    /\ RawKill(Target)
    /\ Noted({Target})

(* The victim runs: do_flee (wimpy, fear), or do_recall without connection.*)
BlowDrivesOff ==
    /\ BlowDone
    /\ blow[1] # Target
    /\ Target \notin wounded /\ fighting[Target] # NULL
    /\ \E r \in Exits[RoomOf(Target)] \cup (IF IsNPC(Target) THEN {} ELSE {Home}) :
           /\ r # RoomOf(Target)
           /\ people' = MovedTo(Target, r)
    /\ StopFor(Released(fighting, Target, TRUE), wounded)
    /\ UNCHANGED wounded
    /\ Noted({})

-----------------------------------------------------------------------------
(* violence_update, called by update_handler between two input polls.      *)
ViolenceUpdate ==
    /\ pc = "idle"
    /\ order # << >>
    /\ pc' = "head"
    /\ ch' = HeadOf(order)
    /\ served' = NobodyServed
    /\ UNCHANGED <<world, ch_next, victim, rch, hit, slain>>

Awaits(c) == /\ fighting[c] # NULL /\ Awake(c) /\ Awake(fighting[c])
             /\ RoomOf(c) = RoomOf(fighting[c]) /\ Present(c)

(* The head of its loop: the successor is saved before anything happens.   *)
Turn ==
    /\ pc = "head" /\ ch # NULL
    /\ ch_next' = NextIn(order, ch)
    /\ UNCHANGED <<wounded, people, victim, rch, slain>>
    /\ \/ /\ Awaits(ch) /\ init[ch] - 1 <= 0
          /\ MultiHit(ch, fighting[ch], "after")
          /\ init' = [init EXCEPT ![ch] = 0]
          /\ served' = [served EXCEPT ![ch] = 1]
          /\ UNCHANGED <<order, fighting, position, ch>>
       \/ /\ Awaits(ch) /\ init[ch] - 1 > 0
          /\ init' = [init EXCEPT ![ch] = @ - 1]
          /\ ch' = ch_next'
          /\ UNCHANGED <<order, fighting, position, pc, hit, served>>
       \/ /\ ~Awaits(ch)
          /\ StopFor(Released(fighting, ch, FALSE), wounded)
          /\ ch' = ch_next'
          /\ UNCHANGED <<init, pc, hit, served>>

SlipNoFloor == {n - 1 : n \in Speed}    \* without the "count < 2" of get_speed

(* get_speed: how many rounds lie between a character's attacks.           *)
GetSpeed == Speed

(* multi_hit is back: ch may be dead, freed or elsewhere by now.           *)
TurnTaken ==
    /\ pc = "after"
    /\ \E n \in GetSpeed : init' = [init EXCEPT ![ch] = n]
    /\ IF fighting[ch] = NULL
       THEN /\ pc' = "head" /\ ch' = ch_next /\ ch_next' = NULL
            /\ UNCHANGED <<victim, rch>>
       ELSE /\ pc' = "assist"
            /\ victim' = fighting[ch]
            /\ rch' = HeadOf(people[RoomOf(ch)])
            /\ UNCHANGED <<ch, ch_next>>
    /\ UNCHANGED <<order, fighting, position, wounded, people, hit, history>>

(* Whom an idle bystander b joins the fight against, if anybody: a player  *)
(* helps a player of its group against ch's opponent; a mobile attacks     *)
(* somebody, anywhere, of the opponent's group.                            *)
AssistTargets(b) ==
    IF ~Awake(b) \/ fighting[b] # NULL THEN {}
    ELSE IF ~IsNPC(ch)
         THEN IF ~IsNPC(b) /\ SameGroup(ch, b) THEN {victim} ELSE {}
    ELSE IF IsNPC(b) THEN {v \in Chars : Present(v) /\ SameGroup(v, victim)} ELSE {}

MustAssist(b) == ~IsNPC(ch) /\ AssistTargets(b) # {}

(* The room loop: rch_next is saved, then rch may attack.                  *)
Assist ==
    /\ pc = "assist" /\ rch # NULL
    /\ rch' = NextInRoom(rch)
    /\ \/ \E v \in AssistTargets(rch) : MultiHit(rch, v, "assist")
       \/ ~MustAssist(rch) /\ UNCHANGED <<pc, hit>>
    /\ UNCHANGED <<world, ch, ch_next, victim, history>>

AssistDone ==
    /\ pc = "assist" /\ rch = NULL
    /\ pc' = "head" /\ ch' = ch_next
    /\ ch_next' = NULL /\ victim' = NULL
    /\ UNCHANGED <<world, rch, hit, history>>

RoundOver ==
    /\ pc = "head" /\ ch = NULL
    /\ pc' = "idle"
    /\ ch_next' = NULL
    /\ served' = NobodyServed /\ slain' = {}
    /\ UNCHANGED <<world, ch, victim, rch, hit>>

-----------------------------------------------------------------------------
(* Between the rounds: commands and ticks.                                 *)
Between == pc = "idle" /\ UNCHANGED <<walk, history>>
Quiet == Between /\ UNCHANGED <<pc, hit>>

(* do_kill, and a mobile's unprovoked attack in aggr_update.  A Black Fury *)
(* charges into who stands, stuns it, and strikes two groups of blows.     *)
Attack(a, v) ==
    /\ Between
    /\ a # v /\ position[a] = "standing"
    /\ Present(a) /\ ~IsSafe(a, v)
    /\ \/ MultiHit(a, v, "idle") /\ UNCHANGED position
       \/ /\ a \in Players /\ position[v] = "standing"
          /\ position' = [position EXCEPT ![v] = "down"]
          /\ MultiHit(a, v, "again")
    /\ UNCHANGED <<order, fighting, wounded, people, init>>

(* do_flee, and do_recall out of a fight.                                  *)
Flee(c) ==
    /\ Quiet
    /\ position[c] \in {"fighting", "standing"} /\ fighting[c] # NULL
    /\ \E r \in Exits[RoomOf(c)] \cup (IF IsNPC(c) THEN {} ELSE {Home}) :
           r # RoomOf(c) /\ people' = MovedTo(c, r)
    /\ StopFor(Released(fighting, c, TRUE), wounded)
    /\ UNCHANGED <<wounded, init>>

(* do_rescue(c, v): c takes v's place in the fight with fch.               *)
Rescue(c, v) ==
    /\ Quiet
    /\ c # v /\ Awake(c) /\ position[c] # "resting"
    /\ Present(c) /\ RoomOf(c) = RoomOf(v)
    /\ IsNPC(c) \/ ~IsNPC(v)
    /\ fighting[c] # v
    /\ fighting[v] # NULL
    /\ LET fch == fighting[v]
           out == {d \in {c, v, fch} : fighting[d] # NULL}
       IN  /\ fighting[fch] = v
           /\ ~IsSafe(c, fch)
           /\ order' = Without(order, out) \o <<c, fch>>
           /\ fighting' = [Disengaged(fighting, out) EXCEPT ![c] = fch, ![fch] = c]
           /\ position' = [AfterStop(out, wounded) EXCEPT
                               ![c] = "fighting", ![fch] = "fighting"]
    /\ UNCHANGED <<wounded, people, init>>

(* Walking; only allowed to those who stand.                               *)
Walk(c) ==
    /\ Quiet
    /\ position[c] = "standing" /\ Present(c)
    /\ \E r \in Exits[RoomOf(c)] : people' = MovedTo(c, r)
    /\ UNCHANGED <<order, fighting, position, wounded, init>>

(* do_sleep and do_stand; both refuse a fighter.                           *)
Sleep(c) ==
    /\ Quiet
    /\ Present(c) /\ position[c] \in {"resting", "standing"}
    /\ position' = [position EXCEPT ![c] = "sleeping"]
    /\ UNCHANGED <<order, fighting, wounded, people, init>>

Stand(c) ==
    /\ Quiet
    /\ Present(c) /\ position[c] \in {"sleeping", "resting"}
    /\ position' = [position EXCEPT ![c] = "standing"]
    /\ UNCHANGED <<order, fighting, wounded, people, init>>

(* spell_teleport by a mobile moves a player it is near without ending the *)
(* fight the player is in.                                                 *)
Teleport(p) ==
    /\ Quiet
    /\ p \in Players /\ fighting[p] # NULL /\ IsNPC(fighting[p])
    /\ RoomOf(p) = RoomOf(fighting[p]) /\ RoomOf(p) # Altar
    /\ \E r \in Rooms : people' = MovedTo(p, r)
    /\ UNCHANGED <<order, fighting, position, wounded, init>>

(* char_update: who is wounded or stunned recovers.                         *)
Recover(p) ==
    /\ Quiet
    /\ p \in wounded \/ Stunned(p)
    /\ Present(p)
    /\ wounded' = wounded \ {p}
    /\ position' = [position EXCEPT ![p] = IF @ = "down" THEN "standing" ELSE @]
    /\ UNCHANGED <<order, fighting, people, init>>

(* char_update: flames, and hunger for blood, take hit points themselves.  *)
(* update_pos is called, stop_fighting is not.                             *)
Wither(p) ==
    /\ Quiet
    /\ p \in Players /\ Present(p)
    /\ GoDown(p, FALSE)
    /\ UNCHANGED <<people, init>>

(* char_update: killperson, for loss of blood, flames or wounds.            *)
BleedToDeath(c) ==
    /\ Quiet
    /\ Present(c)
    /\ RawKill(c)
    /\ UNCHANGED init

(* char_update: poison hurts c by c's own hand, damage(ch, ch, ...).       *)
Poison(c) ==
    /\ Between
    /\ Present(c)
    /\ pc' = "blow" /\ blow' = <<c, c>>
    /\ UNCHANGED <<world, att, vic, stage, ret>>

(* extract_char(c, TRUE): a mobile at any time, a player by do_quit, which *)
(* refuses a fighter (and the worse kinds of "down").                       *)
Extract(c) ==
    /\ Quiet
    /\ Present(c) /\ (IsNPC(c) \/ position[c] # "fighting")
    /\ LET out == Released(fighting, c, TRUE)
       IN  /\ order' = Without(order, out)
           /\ fighting' = Disengaged(fighting, out)
           /\ position' = [AfterStop(out, wounded) EXCEPT ![c] = "dead"]
    /\ people' = Gone(c)
    /\ UNCHANGED <<wounded, init>>

(* A mobile is reset, or a player logs in, in a structure from char_free;  *)
(* a player comes back as hurt as it left, and in the position it left in. *)
Appear(c) ==
    /\ Quiet
    /\ ~Present(c)
    /\ \E r \in Rooms \ {Altar} : people' = MovedTo(c, r)
    /\ \E p \in IF c \in wounded THEN {"down"} ELSE IF IsNPC(c) THEN {"standing"}
                 ELSE {"down", "sleeping", "resting", "standing"} :
           position' = [position EXCEPT ![c] = p]
    /\ init' = [init EXCEPT ![c] = 0]
    /\ UNCHANGED <<order, fighting, wounded>>

-----------------------------------------------------------------------------
Round ==
    \/ ViolenceUpdate \/ Turn \/ TurnTaken \/ Assist \/ AssistDone \/ RoundOver
    \/ \E n \in 1..5 : Swing(n)
    \/ MultiHitReturn \/ MultiHitAgain
    \/ BlowAbsorbed \/ BlowRouses \/ BlowWounds \/ BlowKills \/ BlowDrivesOff

Commands ==
    \E c \in Chars :
        \/ \E v \in Chars : Attack(c, v) \/ Rescue(c, v)
        \/ Flee(c) \/ Walk(c) \/ Sleep(c) \/ Stand(c)
        \/ Teleport(c) \/ Recover(c) \/ Wither(c) \/ BleedToDeath(c)
        \/ Poison(c)
        \/ Extract(c) \/ Appear(c)

Next == Round \/ Commands

(* The server is one thread, so what it has begun it goes on with; and     *)
(* update_handler calls violence_update again and again.                   *)
Spec == Init /\ [][Next]_vars /\ WF_vars(Round)

-----------------------------------------------------------------------------
(* Nobody fights, or is fought by, a character that is not in the game: no *)
(* fighting pointer outlives the structure it points to (extract_char puts *)
(* it on char_free).  At every step, including within a round.             *)
FightLinksLive ==
    \A c \in Chars : fighting[c] # NULL => Present(c) /\ Present(fighting[c])

(* Whenever the thread is back at the game loop, whoever is in             *)
(* POS_FIGHTING has an opponent: process_output shows the opponent's       *)
(* health to everybody in POS_FIGHTING without looking whether there is    *)
(* one.  (Not the other way round: Wither leaves a fighter lying down.)    *)
FightingHasOpponent ==
    pc = "idle" => \A c \in Chars : position[c] = "fighting" => fighting[c] # NULL

(* Who has been killed while a round, or a group of attacks, is under way  *)
(* neither strikes nor is struck until it is over, though multi_hit and    *)
(* the room loop still hold pointers to it: the only defence is the room   *)
(* test of one_hit and is_safe, and the altar being a safe room.           *)
TheSlainAreOutOfIt ==
    pc = "blow" => \A i \in 1..2 : blow[i] \notin slain \/ blow[1] = blow[2]

(* violence_update gives nobody its attacks a second time in one round    *)
(* unless it has left the list and joined it at the end at least twice     *)
(* since: being met again only counts down the speed that get_speed gave   *)
(* it, which is 2 or more.                                                 *)
TakesTurn(c) == pc = "head" /\ pc' = "swing" /\ ch = c
NoTurnTooSoon == [][\A c \in Chars : TakesTurn(c) => served[c] \in {0, 3}]_vars

(* Every round comes to its end, however the lists it walks change.        *)
RoundEnds == pc # "idle" ~> pc = "idle"
=============================================================================
