------------------------------- MODULE Bonds -------------------------------
(***************************************************************************)
(* The pointers that tie characters to one another: followers and groups   *)
(* (act_comm.c), charm (magic.c, clan.c), servants that answer to a lord   *)
(* by name and familiars (clan.c, more.c, demon.c), riding (act_move.c),   *)
(* a vampire's embrace (clan.c, update.c), and extract_char (handler.c),   *)
(* which must undo all of them before free_char puts the structure on the  *)
(* free list for the next mobile or player.                                *)
(*                                                                         *)
(* A character is its CHAR_DATA structure.  Rooms, positions, levels and   *)
(* saving throws only decide whether an operation is refused, so they are  *)
(* left to chance; so is the order in which free structures are reused.    *)
(***************************************************************************)
EXTENDS Naturals, FiniteSets

CONSTANTS
  Chars,          \* CHAR_DATA structures
  Players,        \* names of players
  Mob, Free,      \* who a structure is: a mobile, or nobody (char_free)
  None,           \* NULL
  MaxFollowers,   \* summoning is refused to who has this many (5)
  Topics,         \* sets of operations explored together (a bound)
  Crowd           \* how many characters there are at once, for each of these (a bound)

ASSUME ConstantsDiffer ==
  /\ {Mob, Free} \cap Players = {} /\ Mob # Free
  /\ None \notin Chars \cup Players
  /\ IsFiniteSet(Chars) /\ MaxFollowers \in Nat
  /\ Crowd \in [Topics -> Nat]

VARIABLES
  topics,         \* the operations this behaviour explores
  who,            \* Chars -> Players \cup {Mob, Free}
  kind,           \* of a mobile: "plain", "beast" (ACT_MOUNT), "spirit", "eye"
  master, leader, \* whom it follows, who leads its group
  charm,          \* AFF_CHARM: "none", or by what set it: "person", "chant", "pet", "file"
  lord,           \* the player whose servant it is, by name
  followers,      \* pcdata->followers, the servants a player is charged with
  familiar, wizard,
  no_action,      \* EXTRA_NO_ACTION: the body lies still while its spirit roams
  saved,          \* in the players' files: <<name, "no_action">>, <<name, "charm">>
  mount, mounted, \* partner in riding; "foot", "riding", "mount"
  embrace, embraced, \* partner in an embrace; "none", "embracing", "embraced"
  cleared         \* structures whose count do_clearstats has reset (history)

fellowship == <<master, leader, charm>>
service == <<lord, followers, cleared>>
spirits == <<familiar, wizard, no_action>>
riding == <<mount, mounted>>
holding == <<embrace, embraced>>
presence == <<who, kind>>
vars == <<topics, presence, fellowship, service, spirits, saved, riding, holding>>

IsNPC(c) == who[c] = Mob
IsPC(c) == who[c] \in Players
InGame == {c \in Chars : who[c] # Free}
NPCs == {c \in Chars : IsNPC(c)}
PCs == {c \in Chars : IsPC(c)}
Servants(c) == {m \in NPCs : lord[m] = who[c]}

\* Mutant of IsItself: EXTRA_NO_ACTION does not stop commands.
SlipNoBodyNeeded(c) == embraced[c] = "none"

\* interp.c: a body without its spirit, or in an embrace, may do next to nothing.
IsItself(c) == ~no_action[c] /\ embraced[c] = "none"

Init ==
  /\ topics \in Topics
  /\ who = [c \in Chars |-> Free]
  /\ kind = [c \in Chars |-> "plain"]
  /\ master = [c \in Chars |-> None]
  /\ leader = [c \in Chars |-> None]
  /\ charm = [c \in Chars |-> "none"]
  /\ lord = [c \in Chars |-> None]
  /\ followers = [c \in Chars |-> 0]
  /\ cleared = {}
  /\ familiar = [c \in Chars |-> None]
  /\ wizard = [c \in Chars |-> None]
  /\ no_action = [c \in Chars |-> FALSE]
  /\ saved = {}
  /\ mount = [c \in Chars |-> None]
  /\ mounted = [c \in Chars |-> "foot"]
  /\ embrace = [c \in Chars |-> None]
  /\ embraced = [c \in Chars |-> "none"]

----------------------------------------------------------------------------
(* Coming into the game.  clear_char leaves no pointer of an earlier life.  *)

Allocate(c, w, k) ==
  /\ who[c] = Free /\ Cardinality(InGame) < Crowd[topics]
  /\ who' = [who EXCEPT ![c] = w]
  /\ kind' = [kind EXCEPT ![c] = k]

\* A reset brings a mobile into the world.
Appear(c, k) ==
  /\ Allocate(c, Mob, k)
  /\ UNCHANGED <<topics, fellowship, service, spirits, saved, riding, holding>>

\* A player logs in.  load_char_obj restores EXTRA_NO_ACTION with the other bits
\* of "extra" and AFF_CHARM with those of "affected_by" and the affects, but no
\* master, no familiar and no count of followers.
Login(c, p) ==
  /\ \A d \in Chars : who[d] # p
  /\ Allocate(c, p, "plain")
  /\ no_action' = [no_action EXCEPT ![c] = <<p, "no_action">> \in saved]
  /\ charm' = [charm EXCEPT ![c] = IF <<p, "charm">> \in saved THEN "file" ELSE "none"]
  /\ UNCHANGED <<topics, master, leader, service, familiar, wizard, saved, riding, holding>>

Bits == {"no_action", "charm"}
BitsOf(c) == (IF no_action[c] THEN {"no_action"} ELSE {})
             \cup (IF charm[c] # "none" THEN {"charm"} ELSE {})
SavedWith(c) == (saved \ ({who[c]} \X Bits)) \cup ({who[c]} \X BitsOf(c))

Save(c) ==
  /\ IsPC(c)
  /\ saved' = SavedWith(c)
  /\ UNCHANGED <<topics, presence, fellowship, service, spirits, riding, holding>>

----------------------------------------------------------------------------
(* act_comm.c: following and grouping.                                      *)

\* stop_follower clears the charm with the master; only the spell's own affect
\* is stripped, but the bit goes whatever set it.
StopFollower(c) ==
  /\ master' = [master EXCEPT ![c] = None]
  /\ leader' = [leader EXCEPT ![c] = None]
  /\ charm' = [charm EXCEPT ![c] = "none"]

\* Mutant of TakenInBy: add_follower leaves the old group's leader.
SlipOldGroup(c, m, how) ==
  /\ master' = [master EXCEPT ![c] = m]
  /\ charm' = [charm EXCEPT ![c] = how]
  /\ UNCHANGED leader

\* stop_follower, if need be, and add_follower.
TakenInBy(c, m, how) ==
  /\ master' = [master EXCEPT ![c] = m]
  /\ leader' = [leader EXCEPT ![c] = None]
  /\ charm' = [charm EXCEPT ![c] = how]

Follow(c, m) ==
  /\ c # m /\ {c, m} \subseteq InGame /\ IsItself(c)
  /\ charm[c] = "none" \/ master[c] = None
  /\ TakenInBy(c, m, IF master[c] # None THEN "none" ELSE charm[c])
  /\ UNCHANGED <<topics, presence, service, spirits, saved, riding, holding>>

FollowSelf(c) ==
  /\ c \in InGame /\ IsItself(c) /\ charm[c] = "none" /\ master[c] # None
  /\ StopFollower(c)
  /\ UNCHANGED <<topics, presence, service, spirits, saved, riding, holding>>

Led(c) == IF leader[c] # None THEN leader[c] ELSE c
SameGroup(a, b) == Led(a) = Led(b)
\* "group" is among the commands let through in an embrace.
MayLead(c) == /\ c \in InGame /\ ~no_action[c]
              /\ master[c] = None /\ leader[c] \in {None, c}

Group(c, v) ==
  /\ MayLead(c) /\ v \in InGame
  /\ master[v] = c \/ v = c
  /\ leader' = [leader EXCEPT ![v] = IF SameGroup(v, c) /\ v # c THEN None ELSE c]
  /\ UNCHANGED <<topics, presence, master, charm, service, spirits, saved, riding, holding>>

\* "group all" takes in its followers that are in the room, present.
GroupAll(c, present) ==
  /\ MayLead(c)
  /\ leader' = [v \in Chars |-> IF v \in present \ {c} THEN c ELSE leader[v]]
  /\ UNCHANGED <<topics, presence, master, charm, service, spirits, saved, riding, holding>>

----------------------------------------------------------------------------
(* Charm.                                                                   *)

\* Mutant of MayCharm: the caster may be bound itself.
SlipBoundCaster(c, v) == c # v /\ IsPC(c) /\ v \in InGame /\ charm[v] = "none"

\* spell_charm_person refuses to bind, or to be cast by, who is bound already.
MayCharm(c, v) == /\ c # v /\ IsPC(c) /\ v \in InGame
                  /\ charm[v] = "none" /\ charm[c] = "none"

CharmPerson(c, v) ==
  /\ IsItself(c) /\ MayCharm(c, v)
  /\ TakenInBy(v, c, "person")
  /\ UNCHANGED <<topics, presence, service, spirits, saved, riding, holding>>

\* A written spell with "affect: charm" (enhance_stat) lays its affect on who is
\* bound already, and otherwise binds: also the chanter to itself, if there is no
\* other target, and also to a chanter who is bound.
Chant(c, v) ==
  /\ IsPC(c) /\ IsItself(c) /\ v \in InGame
  /\ IF charm[v] = "none" THEN TakenInBy(v, c, "chant")
     ELSE charm' = [charm EXCEPT ![v] = "chant"] /\ UNCHANGED <<master, leader>>
  /\ UNCHANGED <<topics, presence, service, spirits, saved, riding, holding>>

\* The affect runs out: the bit goes, the master stays.
CharmFades(v) ==
  /\ charm[v] \in {"person", "chant", "file"}
  /\ charm' = [charm EXCEPT ![v] = "none"]
  /\ UNCHANGED <<topics, presence, master, leader, service, spirits, saved, riding, holding>>

\* The thread check_killer follows from v "to the responsible character".
Bound(c) == charm[c] # "none" /\ master[c] # None
Thread(v) == LET n == Cardinality(Chars)
                 t[i \in 0..n] == IF i = 0 THEN v
                                  ELSE IF Bound(t[i - 1]) THEN master[t[i - 1]] ELSE t[i - 1]
             IN t
Responsible(v) == Thread(v)[Cardinality(Chars)]
ThreadEnds(v) == ~Bound(Responsible(v))

\* damage(c, v): check_killer lets go of a charmed attacker of a player, and
\* whoever follows its attacker stops.  When the thread does not end, neither
\* does check_killer, and nothing happens any more (see ThreadEnds).
Strike(c, v) ==
  /\ c # v /\ {c, v} \subseteq InGame /\ ThreadEnds(v)
  /\ LET freed == (IF IsPC(Responsible(v)) /\ charm[c] # "none" THEN {c} ELSE {})
                  \cup (IF master[v] = c THEN {v} ELSE {})
     IN /\ master' = [d \in Chars |-> IF d \in freed THEN None ELSE master[d]]
        /\ leader' = [d \in Chars |-> IF d \in freed /\ master[d] # None THEN None ELSE leader[d]]
        /\ charm' = [d \in Chars |-> IF d \in freed THEN "none" ELSE charm[d]]
  /\ UNCHANGED <<topics, presence, service, spirits, saved, riding, holding>>

----------------------------------------------------------------------------
(* Servants: mobiles with the player's name for a lord, counted in          *)
(* pcdata->followers.                                                       *)

\* Mutant of MaySummon: one too many.
SlipOneMore(c) == IsPC(c) /\ IsItself(c) /\ followers[c] <= MaxFollowers

MaySummon(c) == IsPC(c) /\ IsItself(c) /\ followers[c] < MaxFollowers
Charged(c) == followers' = [followers EXCEPT ![c] = @ + 1]
SwornTo(m, c) == lord' = [lord EXCEPT ![m] = who[c]]

\* Mounts, hounds, beckoned animals, mirror images and illusions only bear the
\* name; guardians, demonic servants and zombies are bound and follow as well.
Summon(c, m, k, bind) ==
  /\ MaySummon(c) /\ Allocate(m, Mob, k)
  /\ Charged(c) /\ SwornTo(m, c)
  /\ IF bind THEN TakenInBy(m, c, "person") ELSE UNCHANGED fellowship
  /\ UNCHANGED <<topics, cleared, spirits, saved, riding, holding>>

\* A pet is bought, bound without an affect that could run out, and not charged.
BuyPet(c, m) ==
  /\ IsPC(c) /\ IsItself(c) /\ Allocate(m, Mob, "plain")
  /\ TakenInBy(m, c, "pet")
  /\ UNCHANGED <<topics, service, spirits, saved, riding, holding>>

\* Mutant of Entrance: a mobile that serves another already is not charged.
SlipSecondHand(c, v) ==
  /\ IsItself(c) /\ MayCharm(c, v)
  /\ TakenInBy(v, c, "person")
  /\ IF IsNPC(v) THEN /\ MaySummon(c) /\ SwornTo(v, c)
                      /\ IF lord[v] = None THEN Charged(c) ELSE UNCHANGED followers
                 ELSE UNCHANGED <<lord, followers>>
  /\ UNCHANGED <<topics, presence, cleared, spirits, saved, riding, holding>>

\* do_entrance casts charm person and makes a mobile that fell for it a
\* servant, even one that was a servant before: of another, or of ch itself.
Entrance(c, v) ==
  /\ IsItself(c) /\ MayCharm(c, v)
  /\ TakenInBy(v, c, "person")
  /\ IF IsNPC(v) THEN MaySummon(c) /\ Charged(c) /\ SwornTo(v, c)
                 ELSE UNCHANGED <<lord, followers>>
  /\ UNCHANGED <<topics, presence, cleared, spirits, saved, riding, holding>>

\* do_clearstats forgets the count, and every affect and charm of its own.
ClearStats(c) ==
  /\ IsPC(c)
  /\ followers' = [followers EXCEPT ![c] = 0]
  /\ cleared' = cleared \cup {c}
  /\ charm' = [charm EXCEPT ![c] = "none"]
  /\ UNCHANGED <<topics, presence, master, leader, lord, spirits, saved, riding, holding>>

----------------------------------------------------------------------------
(* Familiars: a mobile whose eyes and commands a player uses.               *)

Linked(c, m) == /\ familiar' = [familiar EXCEPT ![c] = m]
                /\ wizard' = [wizard EXCEPT ![m] = c]

\* do_possession, do_sharespirit and do_control take over a mobile at hand.
TakeOver(c, m) ==
  /\ IsPC(c) /\ IsItself(c) /\ IsNPC(m)
  /\ familiar[c] = None /\ wizard[m] = None
  /\ Linked(c, m)
  /\ UNCHANGED <<topics, presence, fellowship, service, no_action, saved, riding, holding>>

\* spell_find_familiar and do_eyespy make one, which is nobody's servant.
MakeFamiliar(c, m, k) ==
  /\ IsPC(c) /\ IsItself(c) /\ familiar[c] = None
  /\ Allocate(m, Mob, k) /\ Linked(c, m)
  /\ UNCHANGED <<topics, fellowship, service, no_action, saved, riding, holding>>

\* do_projection without a familiar: the spirit is a servant and familiar.  The
\* interpreter lets this command through when the body is without its spirit,
\* and then does not look for an embrace.
Project(c, m) ==
  /\ IsPC(c) /\ (no_action[c] \/ embraced[c] = "none")
  /\ familiar[c] = None /\ followers[c] < MaxFollowers
  /\ Allocate(m, Mob, "spirit") /\ Charged(c) /\ SwornTo(m, c) /\ Linked(c, m)
  /\ no_action' = [no_action EXCEPT ![c] = TRUE]
  /\ UNCHANGED <<topics, fellowship, cleared, saved, riding, holding>>

\* Any other command of a body without its spirit is refused; it comes back to
\* life when the interpreter notices that the spirit is gone.
Stir(c) ==
  /\ IsPC(c) /\ no_action[c] /\ familiar[c] = None
  /\ no_action' = [no_action EXCEPT ![c] = FALSE]
  /\ UNCHANGED <<topics, presence, fellowship, service, familiar, wizard, saved, riding, holding>>

\* do_omnipotence makes an eye that follows its victim wherever it is ...
SendEye(c, m, v) ==
  /\ MaySummon(c) /\ familiar[c] = None /\ v \in InGame \ {c}
  /\ Allocate(m, Mob, "eye") /\ Charged(c) /\ SwornTo(m, c) /\ Linked(c, m)
  /\ TakenInBy(m, v, "none")
  /\ UNCHANGED <<topics, cleared, no_action, saved, riding, holding>>

\* ... and turns it on another, be it the eye of do_eyespy.
TurnEye(c, v) ==
  /\ IsPC(c) /\ IsItself(c) /\ v \in InGame \ {c}
  /\ familiar[c] # None /\ kind[familiar[c]] = "eye"
  /\ LET eye == familiar[c]
     IN TakenInBy(eye, v, IF master[eye] # None THEN "none" ELSE charm[eye])
  /\ UNCHANGED <<topics, presence, service, spirits, saved, riding, holding>>

----------------------------------------------------------------------------
(* Riding and embracing.                                                    *)

Mount(c, m) ==
  /\ c # m /\ c \in InGame /\ IsItself(c)
  /\ IsNPC(m) /\ kind[m] = "beast"
  /\ mounted[c] = "foot" /\ mounted[m] = "foot"
  /\ mount' = [mount EXCEPT ![c] = m, ![m] = c]
  /\ mounted' = [mounted EXCEPT ![c] = "riding", ![m] = "mount"]
  /\ UNCHANGED <<topics, presence, fellowship, service, spirits, saved, holding>>

\* do_dismount, typed by either; update_pos, when either is stunned; raw_kill.
Parted(c) ==
  /\ mount' = [mount EXCEPT ![c] = None, ![mount[c]] = None]
  /\ mounted' = [mounted EXCEPT ![c] = "foot", ![mount[c]] = "foot"]

Dismount(c) ==
  /\ mount[c] # None
  /\ Parted(c)
  /\ UNCHANGED <<topics, presence, fellowship, service, spirits, saved, holding>>

\* do_embrace by who holds nobody: it takes the victim's answer into its own
\* fields, whatever they held.
Embrace(c, v) ==
  /\ IsPC(c) /\ ~no_action[c] /\ v \in InGame \ {c}
  /\ ~\E held \in Chars : embrace[c] = held /\ embrace[held] = c
  /\ embrace[v] = None
  /\ embrace' = [embrace EXCEPT ![c] = v, ![v] = c]
  /\ embraced' = [embraced EXCEPT ![c] = "embracing", ![v] = "embraced"]
  /\ UNCHANGED <<topics, presence, fellowship, service, spirits, saved, riding>>

LetGo(c) ==
  /\ embrace' = [embrace EXCEPT ![c] = None, ![embrace[c]] = None]
  /\ embraced' = [embraced EXCEPT ![c] = "none", ![embrace[c]] = "none"]

\* The one who embraces lets go by the command, or update_embraced finds one of
\* them down, fighting, gone or dead; do_decapitate and do_stake part both too.
Release(c) ==
  /\ embraced[c] = "embracing" /\ embrace[c] # None
  /\ LetGo(c)
  /\ UNCHANGED <<topics, presence, fellowship, service, spirits, saved, riding>>

----------------------------------------------------------------------------
(* Leaving the game: extract_char(c, TRUE), with everyone it takes along.   *)

\* Mutant of Departing: the familiar is left behind.
SlipFamiliarStays(c) == {c} \cup IF IsPC(c) THEN Servants(c) ELSE {}

\* die_follower extracts the servants of a player, and the end of extract_char
\* its familiar; mobiles take nobody along.
Departing(c) ==
  {c} \cup IF IsPC(c) THEN Servants(c) \cup ({familiar[c]} \cap NPCs) ELSE {}

ExtractChar(c, awake) ==
  LET gone == Departing(c)
      stay == Chars \ gone
      Lost(s) == IF IsPC(s) THEN Servants(s) \cap gone ELSE {}
      LeftBy(field, s) == \E g \in gone : field[g] = s
  IN
  /\ who' = [s \in Chars |-> IF s \in stay THEN who[s] ELSE Free]
  /\ kind' = [s \in Chars |-> IF s \in stay THEN kind[s] ELSE "plain"]
  /\ master' = [s \in Chars |-> IF s \in stay /\ master[s] \notin gone THEN master[s] ELSE None]
  /\ leader' = [s \in Chars |-> IF s \in gone \/ master[s] \in gone THEN None
                                ELSE IF leader[s] \in gone THEN s ELSE leader[s]]
  /\ charm' = [s \in Chars |-> IF s \in stay /\ master[s] \notin gone THEN charm[s] ELSE "none"]
  /\ lord' = [s \in Chars |-> IF s \in stay THEN lord[s] ELSE None]
  /\ followers' = [s \in Chars |->
       IF s \in stay /\ followers[s] > Cardinality(Lost(s))
       THEN followers[s] - Cardinality(Lost(s)) ELSE 0]
  /\ cleared' = cleared \cap stay
  /\ familiar' = [s \in Chars |-> IF s \in gone \/ LeftBy(wizard, s) THEN None ELSE familiar[s]]
  /\ wizard' = [s \in Chars |-> IF s \in gone THEN None ELSE wizard[s]]
  /\ no_action' = [s \in Chars |-> no_action[s] /\ s \notin gone \cup awake /\ Lost(s) = {}]
  /\ mount' = [s \in Chars |-> IF s \in gone \/ LeftBy(mount, s) THEN None ELSE mount[s]]
  /\ mounted' = [s \in Chars |-> IF s \in gone \/ LeftBy(mount, s) THEN "foot" ELSE mounted[s]]
  /\ embrace' = [s \in Chars |-> IF s \in gone \/ LeftBy(embrace, s) THEN None ELSE embrace[s]]
  /\ embraced' = [s \in Chars |-> IF s \in gone \/ LeftBy(embrace, s) THEN "none" ELSE embraced[s]]
  /\ UNCHANGED topics

\* A mobile is killed (raw_kill), purged, or its time is up.
MobileGoes(m) == IsNPC(m) /\ ExtractChar(m, {}) /\ UNCHANGED saved

\* A player quits, or is made to, and is saved before extract_char stops its
\* following: who quits charmed comes back charmed, without a master.
Quit(c) == IsPC(c) /\ saved' = SavedWith(c) /\ ExtractChar(c, {})

\* do_projection again: the spirit is taken back.
Recall(c) ==
  /\ IsPC(c) /\ familiar[c] # None /\ no_action[c]
  /\ ExtractChar(familiar[c], {c}) /\ UNCHANGED saved

\* do_omnipotence without a victim.
CloseEye(c) ==
  /\ IsPC(c) /\ IsItself(c) /\ familiar[c] # None /\ kind[familiar[c]] = "eye"
  /\ ExtractChar(familiar[c], {}) /\ UNCHANGED saved

\* raw_kill of a player, who stays in the game: it falls off its mount, loses
\* every affect and comes to its body, and is saved so.  The spirit goes on.
PlayerDies(c) ==
  /\ IsPC(c)
  /\ IF mount[c] # None THEN Parted(c) ELSE UNCHANGED riding
  /\ charm' = [charm EXCEPT ![c] = "none"]
  /\ no_action' = [no_action EXCEPT ![c] = FALSE]
  /\ saved' = saved \ ({who[c]} \X Bits)
  /\ UNCHANGED <<topics, presence, master, leader, service, familiar, wizard, holding>>

----------------------------------------------------------------------------

Arrivals == \/ \E c \in Chars, k \in {"plain", "beast"} : Appear(c, k)
            \/ \E c \in Chars, p \in Players : Login(c, p)

Departures == \E c \in Chars : Quit(c) \/ MobileGoes(c) \/ PlayerDies(c) \/ Save(c)

Following ==
  \E c \in Chars :
    \/ FollowSelf(c)
    \/ \E v \in Chars : Follow(c, v) \/ Group(c, v)
    \/ \E present \in SUBSET {v \in Chars : master[v] = c} : GroupAll(c, present)

Charming ==
  \E c, v \in Chars :
    \/ CharmPerson(c, v) \/ Chant(c, v) \/ Strike(c, v) \/ BuyPet(c, v)
    \/ CharmFades(v)

Serving ==
  \E c \in Chars :
    \/ ClearStats(c)
    \/ \E v \in Chars : Entrance(c, v)
    \/ \E m \in Chars, k \in {"plain", "beast"}, bind \in BOOLEAN : Summon(c, m, k, bind)

Haunting ==
  \E c \in Chars :
    \/ Stir(c) \/ Recall(c) \/ CloseEye(c)
    \/ \E m \in Chars : TakeOver(c, m) \/ Project(c, m) \/ TurnEye(c, m)
    \/ \E m \in Chars, k \in {"plain", "eye"} : MakeFamiliar(c, m, k)
    \/ \E m, v \in Chars : SendEye(c, m, v)

Riding == \E c \in Chars : Dismount(c) \/ \E m \in Chars : Mount(c, m)
Holding == \E c \in Chars : Release(c) \/ \E v \in Chars : Embrace(c, v)

Next ==
  \/ Arrivals \/ Departures
  \/ "following" \in topics /\ Following
  \/ "charming" \in topics /\ Charming
  \/ "serving" \in topics /\ Serving
  \/ "haunting" \in topics /\ Haunting
  \/ "riding" \in topics /\ Riding
  \/ "holding" \in topics /\ Holding

Spec == Init /\ [][Next]_vars

----------------------------------------------------------------------------

\* Type invariant.
TypeOK ==
  /\ topics \in Topics
  /\ who \in [Chars -> Players \cup {Mob, Free}]
  /\ kind \in [Chars -> {"plain", "beast", "spirit", "eye"}]
  /\ master \in [Chars -> Chars \cup {None}]
  /\ leader \in [Chars -> Chars \cup {None}]
  /\ charm \in [Chars -> {"none", "person", "chant", "pet", "file"}]
  /\ lord \in [Chars -> Players \cup {None}]
  /\ followers \in [Chars -> 0..MaxFollowers]
  /\ familiar \in [Chars -> Chars \cup {None}]
  /\ wizard \in [Chars -> Chars \cup {None}]
  /\ no_action \in [Chars -> BOOLEAN]
  /\ saved \subseteq Players \X Bits
  /\ mount \in [Chars -> Chars \cup {None}]
  /\ mounted \in [Chars -> {"foot", "riding", "mount"}]
  /\ embrace \in [Chars -> Chars \cup {None}]
  /\ embraced \in [Chars -> {"none", "embracing", "embraced"}]
  /\ cleared \subseteq Chars

\* A familiar and its wizard, a rider and its mount, and the two in an embrace
\* point to each other in opposite roles.
FamiliarsMutual == \A c, m \in Chars : familiar[c] = m <=> wizard[m] = c
RidingMutual ==
  \A c \in Chars :
    /\ mount[c] = None <=> mounted[c] = "foot"
    /\ mount[c] # None => /\ mount[mount[c]] = c
                          /\ mounted[c] = "riding" <=> mounted[mount[c]] = "mount"
HoldingMutual ==
  \A c \in Chars :
    /\ embrace[c] = None <=> embraced[c] = "none"
    /\ embrace[c] # None => /\ embrace[embrace[c]] = c
                            /\ embraced[c] = "embracing" <=> embraced[embrace[c]] = "embraced"

\* Nobody in the game points to a structure on the free list, whatever took its
\* owner away, and a structure is freed without a pointer of its own; so nobody
\* finds a stranger for its master, mount or familiar when the structure is
\* used again (extract_char; free_char clears nothing itself).
NobodyPointsToTheGone ==
  \A c \in Chars :
    /\ {master[c], leader[c], familiar[c], wizard[c], mount[c], embrace[c]} \subseteq InGame \cup {None}
    /\ who[c] = Free => /\ {master[c], leader[c], familiar[c], wizard[c], mount[c], embrace[c]} = {None}
                        /\ charm[c] = "none" /\ lord[c] = None
\* Bonds are mutual and among those in the game.
BondsHold == /\ FamiliarsMutual /\ RidingMutual /\ HoldingMutual
             /\ NobodyPointsToTheGone

\* Whoever is in another's group follows that other, through every change of
\* master, charm, death and departure: experience, gold and group talk
\* (is_same_group) go to nobody who has left.
GroupsFollow == \A c \in Chars : leader[c] \in {None, c, master[c]}

\* A player is charged with at least the servants that bear its name, so that it
\* never has more than the limit, unless do_clearstats made it forget some; and
\* none of them outlives its lord's leaving.
ServantsCounted ==
  /\ \A c \in PCs \ cleared : Cardinality(Servants(c)) <= followers[c]
  /\ \A m \in NPCs : lord[m] # None => \E c \in PCs : who[c] = lord[m]

\* A body that may not act has sent out its spirit and nothing else, or its
\* spirit is gone and its next command wakes it: no player is shut out of its
\* body for the sake of a familiar that cannot be recalled.
OnlyTheSpiritKeepsTheBody ==
  \A c \in PCs : no_action[c] /\ familiar[c] # None => kind[familiar[c]] = "spirit"

\* Where the thread of charm that check_killer follows has no end, somebody on it
\* was bound by a chanted spell, or came back from its file with the charm and
\* without the master it was under: charm person, entrancement and pets, given
\* and lost in any order, tie no knot among those who have not been away.
OnlyStrayCharmTangles ==
  \A v \in Chars : ~ThreadEnds(v) =>
    \E i \in 0..Cardinality(Chars) : charm[Thread(Responsible(v))[i]] \in {"chant", "file"}
=============================================================================
