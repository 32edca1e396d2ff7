----------------------------- MODULE Equipment -----------------------------
(***************************************************************************)
(* What players wear and what it does to them: affect_modify and the       *)
(* affects of spells (handler.c, magic.c), equip_char and unequip_char,    *)
(* the light of lamps in hand (handler.c, update.c), and the commands and  *)
(* events that walk over what somebody carries while pieces of it come     *)
(* off (act_obj.c, fight.c, act_wiz.c); and the player files that bring    *)
(* all of it back after a departure or a crash (save.c).                   *)
(*                                                                         *)
(* affect_modify makes a weakened player drop the weapon in his right      *)
(* hand, from within any of these.  Strength stands for all sums that      *)
(* affects contribute to, flying for all powers an item can grant.         *)
(***************************************************************************)
EXTENDS Integers, SequencesExt

CONSTANTS
  Chars,          \* players (a mobile's strength does not depend on affects)
  Rooms, Altar,   \* Altar: where the dead wake up and stats are cleared
  Limbo,          \* the room from which players leave the game
  Objs,           \* OBJ_DATA structures
  None,           \* NULL
  PermStr, MinStr, MaxStr,  \* a player's own strength, and the range it is cut to
  MaxPoison,      \* how much poison adds up to (a bound)
  Scenes          \* what there is in a behaviour: the objects' prototypes ("kit"),
                  \* the "players", the "magic" that may be worked on them, whether
                  \* they come and go, with "files" (a bound)

Corpse == "corpse"   \* the contents of corpses, wherever they lie
Spells == {"strength", "poison", "fly", "enchant"}
Hands == {"wield", "hold"}
Wearable == {"wield", "hold", "body", "finger"}
Scabbard == [hand \in Hands |-> IF hand = "wield" THEN "scabbard_r" ELSE "scabbard_l"]
Scabbards == {Scabbard[hand] : hand \in Hands}
WearLocs == Wearable \cup Scabbards \cup {"none"}
Loops == {"none", "wear", "remove", "corpse", "zap", "clear", "quit"}
Holders == Chars \cup Rooms \cup {Corpse}

\* obj_index_data.  wear_obj takes a light in hand, whatever else it fits.
Kits ==
  {k \in [type : {"weapon", "light", "armor"}, fits : Seq(Wearable), affects : Seq(Int),
          heft : Int, ac : Int, flies : BOOLEAN, noremove : BOOLEAN, anti : BOOLEAN] :
     k.type = "light" => k.fits \in Seq(Hands)}

ASSUME Prototypes ==
  /\ IsFiniteSet(Chars) /\ IsFiniteSet(Objs) /\ {Altar, Limbo} \subseteq Rooms
  /\ Chars \cap Rooms = {} /\ Corpse \notin Chars \cup Rooms
  /\ None \notin Chars \cup Rooms \cup Objs
  /\ {PermStr, MinStr, MaxStr, MaxPoison} \subseteq Int /\ MinStr <= PermStr /\ PermStr <= MaxStr
  /\ \A s \in Scenes :
       /\ s.players \subseteq Chars /\ s.magic \subseteq Spells /\ s.files \in BOOLEAN
       /\ DOMAIN s.kit \subseteq Objs /\ s.kit \in [DOMAIN s.kit -> Kits]

VARIABLES
  scene,
  w,              \* lists, wear_loc, sums and files, which one call after another changes
  in_room,        \* None: not in the game
  affected,       \* of each player, the [type, modifier] of the spells on it
  loop,           \* the walk over a carrying list: what it does, whose, its next object
  doubled         \* somebody has left or entered a room with two lamps (history)
vars == <<scene, w, in_room, affected, loop, doubled>>

kit == scene.kit
Things == DOMAIN kit
Idle == [what |-> "none", ch |-> None, obj |-> None]

\* A player without anything.
Blank == [things |-> <<>>, mod_str |-> 0, armor |-> 100, hitroll |-> 0, flying |-> FALSE,
          kept |-> FALSE, affected |-> {}, in_room |-> Altar, surplus |-> 0]

\* A world of nobody and nothing.
Empty ==
  [contents |-> [h \in Holders |-> <<>>],
   wear_loc |-> [o \in Objs |-> "none"],
   mod_str |-> [c \in Chars |-> 0],
   armor |-> [c \in Chars |-> 100],
   flying |-> [c \in Chars |-> FALSE],
   kept |-> [c \in Chars |-> FALSE],      \* flies by an item taken off (history)
   hitroll |-> [c \in Chars |-> 0],
   enchanted |-> {},                      \* has the affects and flags of the spell
   marked |-> {},                         \* QUEST_ENCHANTED
   surplus |-> [c \in Chars |-> 0],       \* by enchantments files forgot (history)
   file |-> [c \in Chars |-> Blank],
   lit |-> {},                            \* value[2] # 0
   light |-> [r \in Rooms |-> 0]]

Init ==
  /\ scene \in Scenes
  /\ w = [Empty EXCEPT !.contents[Altar] = SetToSeq(Things),
                       !.lit = {o \in Things : kit[o].type = "light"}]
  /\ in_room = [c \in Chars |-> Altar]
  /\ affected = [c \in Chars |-> {}]
  /\ loop = Idle
  /\ doubled = FALSE

----------------------------------------------------------------------------
(* handler.c *)

Carried(v, ch) == ToSet(v.contents[ch])
WornBy(v, ch) == {o \in Carried(v, ch) : v.wear_loc[o] # "none"}

GetEqChar(v, ch, loc) ==
  LET worn == {i \in DOMAIN v.contents[ch] : v.wear_loc[v.contents[ch][i]] = loc}
  IN  IF worn = {} THEN None ELSE v.contents[ch][Min(worn)]

GetCurrStr(v, ch) ==
  LET str == PermStr + v.mod_str[ch]
  IN  IF str < MinStr THEN MinStr ELSE IF str > MaxStr THEN MaxStr ELSE str

ApplyAC(o, loc) ==
  IF kit[o].type # "armor" THEN 0
  ELSE kit[o].ac * (CASE loc = "body" -> 3 [] loc \in {"hold", "finger"} -> 1 [] OTHER -> 0)

\* obj_to_char, obj_to_room and obj_to_obj put an object in front.
PutIn(v, h, o) == [v EXCEPT !.contents[h] = <<o>> \o @]

\* What the three obj_from_* do to a list: they unlink the object.
Unlinked(s, o) == RemoveAt(s, CHOOSE i \in DOMAIN s : s[i] = o)
TakeOut(v, h, o) == [v EXCEPT !.contents[h] = Unlinked(@, o)]

SumOf(f) == FoldFunction(+, 0, f)
Abs(n) == IF n < 0 THEN -n ELSE n

IsAffected(ch, type) == \E a \in affected[ch] : a.type = type

\* What a piece of equipment adds to strength and to hitroll, and what taking it off does.
Affects(v, o) ==
  [i \in DOMAIN kit[o].affects |-> <<kit[o].affects[i], 0>>]
    \o (IF o \in v.enchanted THEN <<<<0, 1>>>> ELSE <<>>)
Reverts(v, o) == [i \in DOMAIN Affects(v, o) |-> <<-Affects(v, o)[i][1], -Affects(v, o)[i][2]>>]

\* affect_modify for each of ds.
ModifyAll(v, ch, ds, found, Modify(_, _, _, _)) ==
  LET after[i \in 0 .. Len(ds)] == IF i = 0 THEN v ELSE Modify(after[i - 1], ch, ds[i], found)
  IN  after[Len(ds)]

\* A lit lamp that is no longer worn.
Dims(v, ch, o) ==
  IF o \in v.lit /\ v.light[in_room[ch]] > 0 THEN [v EXCEPT !.light[in_room[ch]] = @ - 1] ELSE v

\* get_char_world looks for the player by name; "found" if it finds the player and
\* not somebody else whose name begins like that, and no editor has its input.
PowerGone(v, ch, o, found) ==
  IF ~kit[o].flies THEN v
  ELSE IF ~found THEN [v EXCEPT !.kept[ch] = @ \/ v.flying[ch]]
  ELSE IF IsAffected(ch, "fly") THEN v
  ELSE [v EXCEPT !.flying[ch] = FALSE, !.kept[ch] = FALSE]

\* unequip_char.  Modify is affect_modify, which within itself drops nothing.
Unequipped(v, ch, o, found, Modify(_, _, _, _)) ==
  IF v.wear_loc[o] \in Scabbards THEN [v EXCEPT !.wear_loc[o] = "none"]
  ELSE LET off == [v EXCEPT !.armor[ch] = @ + ApplyAC(o, v.wear_loc[o]), !.wear_loc[o] = "none"]
           undone == ModifyAll(off, ch, Reverts(v, o), found, Modify)
       IN  PowerGone(Dims(undone, ch, o), ch, o, found)

\* obj_from_char
FromChar(v, ch, o, found, Modify(_, _, _, _)) ==
  LET off == IF v.wear_loc[o] = "none" THEN v ELSE Unequipped(v, ch, o, found, Modify)
  IN  TakeOut(off, ch, o)

\* obj_from_char, obj_to_room
Discarded(v, ch, o, found, Modify(_, _, _, _)) ==
  PutIn(FromChar(v, ch, o, found, Modify), in_room[ch], o)

\* affect_modify while it is already running (depth is 1).
Shifted(v, ch, d, found) == [v EXCEPT !.mod_str[ch] = @ + d[1], !.hitroll[ch] = @ + d[2]]

\* Mutant of TooHeavy: whatever is wielded.
SlipAnyBlade(v, ch, o) == kit[o].type = "weapon"

TooHeavy(v, ch, o) == kit[o].type = "weapon" /\ kit[o].heft > GetCurrStr(v, ch)

\* Mutant of AffectModify: what is dropped is not taken off first.
SlipDropWorn(v, ch, d, found) ==
  LET shifted == Shifted(v, ch, d, found)
      wield == GetEqChar(shifted, ch, "wield")
  IN  IF wield # None /\ TooHeavy(shifted, ch, wield)
      THEN PutIn(TakeOut(shifted, ch, wield), in_room[ch], wield)
      ELSE shifted

AffectModify(v, ch, d, found) ==
  LET shifted == Shifted(v, ch, d, found)
      wield == GetEqChar(shifted, ch, "wield")
  IN  IF wield # None /\ TooHeavy(shifted, ch, wield)
      THEN Discarded(shifted, ch, wield, found, Shifted)
      ELSE shifted

\* Mutant of PowerOn: not noticing that the piece has been dropped meanwhile.
SlipPowerLost(v, ch, o, found) ==
  IF found /\ kit[o].flies THEN [v EXCEPT !.flying[ch] = TRUE] ELSE v

PowerOn(v, ch, o, found) ==
  IF found /\ v.wear_loc[o] # "none" /\ kit[o].flies THEN [v EXCEPT !.flying[ch] = TRUE] ELSE v

InUse(v, ch) == {o \in WornBy(v, ch) : v.wear_loc[o] \notin Scabbards}

\* fwrite_opt_char and fwrite_opt_obj: the sums are written as they are.  An object without
\* the name of a maker or owner, which enchanting does not give it, is written as its
\* prototype and the mark of the spell; the spell's affects are lost, what they have
\* added is not.
Image(v, ch, room, spells) ==
  [things |-> [i \in DOMAIN v.contents[ch] |->
                 LET o == v.contents[ch][i]
                 IN  [kit |-> kit[o], wear_loc |-> v.wear_loc[o], marked |-> o \in v.marked]],
   mod_str |-> v.mod_str[ch], armor |-> v.armor[ch], hitroll |-> v.hitroll[ch],
   flying |-> v.flying[ch], kept |-> v.kept[ch], affected |-> spells, in_room |-> room,
   surplus |-> v.surplus[ch] + Cardinality(InUse(v, ch) \cap v.enchanted)]

\* do_autosave, of players who have killed five mobiles.
SavedAs(v, ch, room, spells) ==
  IF scene.files THEN [v EXCEPT !.file[ch] = Image(v, ch, room, spells)] ELSE v
Saved(v, ch) == SavedAs(v, ch, in_room[ch], affected[ch])

\* equip_char; "zap": the object does not suit the wearer's alignment.
Equipped(v, ch, o, loc, found, zap) ==
  IF zap THEN Saved(Discarded(v, ch, o, found, AffectModify), ch)
  ELSE LET on == [v EXCEPT !.armor[ch] = @ - ApplyAC(o, loc), !.wear_loc[o] = loc]
           done == ModifyAll(on, ch, Affects(v, o), found, AffectModify)
           shining == IF o \in v.lit THEN [done EXCEPT !.light[in_room[ch]] = @ + 1] ELSE done
       IN  PowerOn(shining, ch, o, found)

\* char_from_room and char_to_room count one lamp, whichever hand it is in.
Lamps(v, ch) == {o \in v.lit \cap Carried(v, ch) : v.wear_loc[o] \in Hands}

FromRoom(v, ch) ==
  IF Lamps(v, ch) # {} /\ v.light[in_room[ch]] > 0
  THEN [v EXCEPT !.light[in_room[ch]] = @ - 1] ELSE v
ToRoom(v, ch, to) == IF Lamps(v, ch) # {} THEN [v EXCEPT !.light[to] = @ + 1] ELSE v
Moved(v, ch, to) == ToRoom(FromRoom(v, ch), ch, to)

TwoLamps(v, ch) == Cardinality(Lamps(v, ch)) > 1

----------------------------------------------------------------------------
(* Spells.  One affect of a type at most is on a player.                    *)

Playing(ch) == loop.what = "none" /\ ch \in scene.players /\ in_room[ch] # None
Lookups == IF \E o \in Things : kit[o].flies THEN BOOLEAN ELSE {TRUE}

Adds(v, ch, a, found) ==
  AffectModify(IF a.type = "fly" THEN [v EXCEPT !.flying[ch] = TRUE] ELSE v,
               ch, <<a.modifier, 0>>, found)

\* affect_remove clears the spell's bit, whatever else grants the power.
Takes(v, ch, a, found) ==
  AffectModify(IF a.type = "fly" THEN [v EXCEPT !.flying[ch] = FALSE, !.kept[ch] = FALSE] ELSE v,
               ch, <<-a.modifier, 0>>, found)

\* spell_giant_strength and spell_fly do nothing for who has it already.
Blessed(ch, type) ==
  LET a == [type |-> type, modifier |-> IF type = "strength" THEN 1 ELSE 0]
  IN  /\ Playing(ch) /\ type \in scene.magic \cap {"strength", "fly"}
      /\ ~IsAffected(ch, type) /\ (type = "fly" => ~w.flying[ch])
      /\ affected' = [affected EXCEPT ![ch] = @ \cup {a}]
      /\ \E found \in Lookups : w' = Adds(w, ch, a, found)
      /\ UNCHANGED <<scene, in_room, loop, doubled>>

\* spell_poison: affect_join takes the poison there is off and puts the sum of both on.
Poisoned(ch, d) ==
  LET ill == IsAffected(ch, "poison")
      old == CHOOSE a \in affected[ch] : a.type = "poison"
      new == [type |-> "poison", modifier |-> (IF ill THEN old.modifier ELSE 0) - d]
  IN  /\ Playing(ch) /\ "poison" \in scene.magic /\ new.modifier >= -MaxPoison
      /\ affected' = [affected EXCEPT ![ch] = (IF ill THEN @ \ {old} ELSE @) \cup {new}]
      /\ \E found \in Lookups :
           w' = Adds(IF ill THEN Takes(w, ch, old, found) ELSE w, ch, new, found)
      /\ UNCHANGED <<scene, in_room, loop, doubled>>

\* char_update at the end of a spell's duration; affect_strip.
Expires(ch, a) ==
  /\ Playing(ch)
  /\ affected' = [affected EXCEPT ![ch] = @ \ {a}]
  /\ \E found \in Lookups : w' = Takes(w, ch, a, found)
  /\ UNCHANGED <<scene, in_room, loop, doubled>>

----------------------------------------------------------------------------
(* Commands for one object.                                                 *)

\* wear_obj: an occupied place is cleared if need be, the first free one taken.
Worn(v, ch, o, fReplace, found, zap) ==
  LET fits == kit[o].fits
      at(u, i) == GetEqChar(u, ch, fits[i])
      loose == {i \in DOMAIN fits : at(v, i) # None /\ ~kit[at(v, i)].noremove}
      freed == IF fReplace /\ loose # {} /\ \A i \in DOMAIN fits : at(v, i) # None
               THEN Unequipped(v, ch, at(v, Min(loose)), found, AffectModify) ELSE v
      free == {i \in DOMAIN fits : at(freed, i) = None}
  IN  IF free = {} THEN freed ELSE Equipped(freed, ch, o, fits[Min(free)], found, zap)

\* remove_obj
TakenOff(v, ch, o, found) ==
  IF kit[o].noremove THEN v ELSE Unequipped(v, ch, o, found, AffectModify)

Zaps(o) == IF kit[o].anti \/ o \in w.enchanted THEN BOOLEAN ELSE {FALSE}

rest == <<scene, in_room, affected, loop, doubled>>

Get(ch, from, o) ==
  /\ Playing(ch) /\ from \in {in_room[ch], Corpse} /\ o \in ToSet(w.contents[from])
  /\ w' = Saved(PutIn(TakeOut(w, from, o), ch, o), ch)
  /\ UNCHANGED rest

Drop(ch, o) ==
  /\ Playing(ch) /\ o \in Carried(w, ch) \ WornBy(w, ch)
  /\ w' = Saved(Discarded(w, ch, o, TRUE, AffectModify), ch)
  /\ UNCHANGED rest

Wear(ch, o) ==
  /\ Playing(ch) /\ o \in Carried(w, ch) \ WornBy(w, ch)
  /\ \E found \in Lookups, zap \in Zaps(o) : w' = Worn(w, ch, o, TRUE, found, zap)
  /\ UNCHANGED rest

TakeOff(ch, o) ==
  /\ Playing(ch) /\ o \in WornBy(w, ch)
  /\ \E found \in Lookups : w' = TakenOff(w, ch, o, found)
  /\ UNCHANGED rest

\* sheath
Sheath(ch, hand) ==
  LET o == GetEqChar(w, ch, hand)
  IN  /\ Playing(ch) /\ o # None /\ GetEqChar(w, ch, Scabbard[hand]) = None
      /\ kit[o].type = "weapon"
      /\ \E found \in Lookups :
           w' = [Unequipped(w, ch, o, found, AffectModify) EXCEPT !.wear_loc[o] = Scabbard[hand]]
      /\ UNCHANGED rest

\* draw
Draw(ch, hand) ==
  LET o == GetEqChar(w, ch, Scabbard[hand])
  IN  /\ Playing(ch) /\ o # None /\ GetEqChar(w, ch, hand) = None
      /\ \E found \in Lookups, zap \in Zaps(o) :
           w' = Equipped([w EXCEPT !.wear_loc[o] = "none"], ch, o, hand, found, zap)
      /\ UNCHANGED rest

\* extract_obj, for a timer that runs out or because the object is used up.
Vanish(h, o) ==
  /\ loop.what = "none" /\ o \in ToSet(w.contents[h])
  /\ \E found \in Lookups :
       w' = IF h \in Chars THEN FromChar(w, h, o, found, AffectModify)
            ELSE TakeOut(w, h, o)
  /\ UNCHANGED rest

\* spell_enchant_weapon, which works on what is carried and not in use.
Enchant(ch, o) ==
  /\ Playing(ch) /\ "enchant" \in scene.magic
  /\ o \in Carried(w, ch) \ WornBy(w, ch) /\ kit[o].type = "weapon" /\ o \notin w.marked
  /\ w' = [w EXCEPT !.enchanted = @ \cup {o}, !.marked = @ \cup {o}]
  /\ UNCHANGED rest

Unused(v) == {o \in Things : \A h \in Holders : o \notin ToSet(v.contents[h])}
\* create_object, for each of S.
Created(v, S) ==
  [v EXCEPT !.enchanted = @ \ S, !.marked = @ \ S, !.lit = @ \cup {o \in S : kit[o].type = "light"}]

Load(r, o) ==
  /\ loop.what = "none" /\ r \notin {Limbo} /\ o \in Unused(w)
  /\ w' = PutIn(Created(w, {o}), r, o)
  /\ UNCHANGED rest

\* Mutant of BurnOut: the lamp still counts as lit when it is taken off.
SlipBurntTwice(ch, o) ==
  /\ Playing(ch) /\ o \in Lamps(w, ch)
  /\ w.wear_loc[o] = "hold" => GetEqChar(w, ch, "wield") \notin w.lit
  /\ \E found \in Lookups :
       w' = FromChar([w EXCEPT !.light[in_room[ch]] = @ - 1], ch, o, found, AffectModify)
  /\ UNCHANGED rest

\* char_update: the lamp in the right hand burns, or else the one in the left.
BurnOut(ch, o) ==
  /\ Playing(ch) /\ o \in Lamps(w, ch)
  /\ w.wear_loc[o] = "hold" => GetEqChar(w, ch, "wield") \notin w.lit
  /\ \E found \in Lookups :
       w' = FromChar([w EXCEPT !.lit = @ \ {o}, !.light[in_room[ch]] = @ - 1],
                     ch, o, found, AffectModify)
  /\ UNCHANGED rest

Walk(ch, to) ==
  /\ Playing(ch) /\ to \notin {in_room[ch], Limbo}
  /\ w' = Moved(w, ch, to)
  /\ in_room' = [in_room EXCEPT ![ch] = to]
  /\ doubled' = (doubled \/ TwoLamps(w, ch))
  /\ UNCHANGED <<scene, affected, loop>>

----------------------------------------------------------------------------
(* Commands for all objects, with the successor saved before each.          *)

Starts(ch, what) ==
  /\ Playing(ch)
  /\ loop' = [what |-> what, ch |-> ch,
              obj |-> IF w.contents[ch] = <<>> THEN None ELSE Head(w.contents[ch])]
  /\ UNCHANGED <<scene, affected>>

Begin(ch, what) ==
  /\ what = "clear" => in_room[ch] = Altar
  /\ Starts(ch, what)
  /\ UNCHANGED <<w, in_room, doubled>>

\* do_quit, which does not save somebody in an editor, up to the walk of extract_char.
Quit(ch, editing) ==
  /\ scene.files
  /\ Starts(ch, "quit")
  /\ w' = Moved(IF editing THEN w ELSE Saved(w, ch), ch, Limbo)
  /\ in_room' = [in_room EXCEPT ![ch] = Limbo]
  /\ doubled' = (doubled \/ TwoLamps(w, ch))

NextContent(o) ==
  LET h == CHOOSE x \in Holders : o \in ToSet(w.contents[x])
      i == CHOOSE j \in DOMAIN w.contents[h] : w.contents[h][j] = o
  IN  IF i = Len(w.contents[h]) THEN None ELSE w.contents[h][i + 1]

\* What the walk reaches is not carried by whom it is about.
Astray == loop.obj # None /\ loop.obj \notin Carried(w, loop.ch)

\* One iteration, which makes v of w.
Iteration(what, v) ==
  /\ loop.what = what
  /\ w' = v
  /\ loop' = [loop EXCEPT !.obj = NextContent(loop.obj)]
  /\ UNCHANGED <<scene, in_room, affected, doubled>>

Reached(what) == loop.what = what /\ loop.obj # None /\ ~Astray
IsWorn(o) == w.wear_loc[o] # "none"

\* do_wear "all"
WearNext ==
  /\ Reached("wear")
  /\ \E found \in Lookups, zap \in Zaps(loop.obj) :
       Iteration("wear", IF IsWorn(loop.obj) THEN w
                         ELSE Worn(w, loop.ch, loop.obj, FALSE, found, zap))

\* do_remove "all"
RemoveNext ==
  /\ Reached("remove")
  /\ \E found \in Lookups :
       Iteration("remove", IF IsWorn(loop.obj) THEN TakenOff(w, loop.ch, loop.obj, found) ELSE w)

\* make_corpse; some things vanish with their owner.
BuryNext ==
  /\ Reached("corpse")
  /\ \E found \in Lookups, vanish \in BOOLEAN :
       LET off == FromChar(w, loop.ch, loop.obj, found, AffectModify)
       IN  Iteration("corpse", IF vanish THEN off ELSE PutIn(off, Corpse, loop.obj))

\* group_gain, which a kill may have made evil or good.
ZapNext ==
  /\ Reached("zap")
  /\ \E found \in Lookups, zap \in Zaps(loop.obj) :
       Iteration("zap", IF IsWorn(loop.obj) /\ zap
                        THEN Discarded(w, loop.ch, loop.obj, found, AffectModify) ELSE w)

\* do_clearstats
ClearNext ==
  /\ Reached("clear")
  /\ \E found \in Lookups :
       Iteration("clear", IF IsWorn(loop.obj)
                          THEN PutIn(FromChar(w, loop.ch, loop.obj, found, AffectModify),
                                     loop.ch, loop.obj)
                          ELSE w)

\* extract_char
QuitNext ==
  /\ Reached("quit")
  /\ \E found \in Lookups : Iteration("quit", FromChar(w, loop.ch, loop.obj, found, AffectModify))

Over == loop.what # "none" /\ loop.obj = None

AllDone ==
  /\ Over /\ loop.what \notin {"corpse", "clear", "quit"}
  /\ loop' = Idle
  /\ UNCHANGED <<scene, w, in_room, affected, doubled>>

\* raw_kill and do_clearstats: the spells end, and what they and the items have done
\* to armour and affected_by is set back; strength is not, it must add up by itself.
Cleansed(v, ch) ==
  LET off == FoldSet(LAMBDA a, u : Takes(u, ch, a, TRUE), v, affected[ch])
  IN  [off EXCEPT !.armor[ch] = 100, !.hitroll[ch] = 0, !.surplus[ch] = 0,
                  !.flying[ch] = FALSE, !.kept[ch] = FALSE]

StatsCleared ==
  /\ Over /\ loop.what = "clear"
  /\ w' = SavedAs(Cleansed(w, loop.ch), loop.ch, in_room[loop.ch], {})
  /\ affected' = [affected EXCEPT ![loop.ch] = {}]
  /\ loop' = Idle
  /\ UNCHANGED <<scene, in_room, doubled>>

\* extract_char without fPull, and the rest of raw_kill.
WakesUp ==
  /\ Over /\ loop.what = "corpse"
  /\ w' = SavedAs(Cleansed(Moved(w, loop.ch, Altar), loop.ch), loop.ch, Altar, {})
  /\ in_room' = [in_room EXCEPT ![loop.ch] = Altar]
  /\ affected' = [affected EXCEPT ![loop.ch] = {}]
  /\ loop' = Idle
  /\ UNCHANGED <<scene, doubled>>

----------------------------------------------------------------------------
(* Coming and going.                                                        *)

\* What a structure of a player holds that comes from a file, or from none.
With(v, ch, f) ==
  [v EXCEPT !.mod_str[ch] = f.mod_str, !.armor[ch] = f.armor, !.hitroll[ch] = f.hitroll,
            !.flying[ch] = f.flying, !.kept[ch] = f.kept, !.surplus[ch] = f.surplus]

\* The end of extract_char: char_from_room, free_char.
Gone ==
  /\ Over /\ loop.what = "quit"
  /\ w' = With(FromRoom(w, loop.ch), loop.ch, Blank)
  /\ in_room' = [in_room EXCEPT ![loop.ch] = None]
  /\ affected' = [affected EXCEPT ![loop.ch] = {}]
  /\ loop' = Idle
  /\ UNCHANGED <<scene, doubled>>

\* char_update, do_save
Save(ch) == Playing(ch) /\ scene.files /\ w' = Saved(w, ch) /\ UNCHANGED rest

\* The process ends: by a timed reboot, which saves everyone, or at any moment.
Down(saves) ==
  /\ scene.files /\ (saves => loop.what = "none")
  /\ w' = [Empty EXCEPT
             !.file = [c \in Chars |->
                         IF saves /\ c \in scene.players /\ in_room[c] # None
                         THEN Image(w, c, in_room[c], affected[c]) ELSE w.file[c]]]
  /\ in_room' = [c \in Chars |-> None]
  /\ affected' = [c \in Chars |-> {}]
  /\ loop' = Idle
  /\ doubled' = FALSE
  /\ UNCHANGED scene

\* load_char_obj, with a structure for each object in the file, and char_to_room.
Login(ch) ==
  LET f == w.file[ch]
      n == DOMAIN f.things
  IN  /\ loop.what = "none" /\ ch \in scene.players /\ in_room[ch] = None
      /\ \E s \in [n -> Unused(w)] :
           LET v == [Created(With(w, ch, f), ToSet(s)) EXCEPT
                       !.contents[ch] = s,
                       !.marked = @ \cup {s[i] : i \in {j \in n : f.things[j].marked}},
                       !.wear_loc = [o \in Objs |-> IF \E i \in n : s[i] = o
                                                    THEN f.things[CHOOSE i \in n : s[i] = o].wear_loc
                                                    ELSE @[o]]]
           IN  /\ IsInjective(s) /\ \A i \in n : kit[s[i]] = f.things[i].kit
               /\ w' = ToRoom(v, ch, f.in_room)
               /\ doubled' = (doubled \/ TwoLamps(v, ch))
      /\ in_room' = [in_room EXCEPT ![ch] = f.in_room]
      /\ affected' = [affected EXCEPT ![ch] = f.affected]
      /\ UNCHANGED <<scene, loop>>

Next ==
  \/ \E ch \in Chars :
       \/ \E type \in Spells : Blessed(ch, type)
       \/ \E d \in 1..2 : Poisoned(ch, d)
       \/ \E a \in affected[ch] : Expires(ch, a)
       \/ \E o \in Objs : Drop(ch, o) \/ Wear(ch, o) \/ TakeOff(ch, o) \/ BurnOut(ch, o)
       \/ \E o \in Objs, h \in Holders : Get(ch, h, o)
       \/ \E hand \in Hands : Sheath(ch, hand) \/ Draw(ch, hand)
       \/ \E r \in Rooms : Walk(ch, r)
       \/ \E what \in Loops \ {"none", "quit"} : Begin(ch, what)
       \/ \E o \in Objs : Enchant(ch, o)
       \/ Save(ch) \/ Login(ch) \/ \E editing \in BOOLEAN : Quit(ch, editing)
  \/ \E o \in Objs : (\E h \in Holders : Vanish(h, o)) \/ (\E r \in Rooms : Load(r, o))
  \/ WearNext \/ RemoveNext \/ BuryNext \/ ZapNext \/ ClearNext
  \/ AllDone \/ StatsCleared \/ WakesUp \/ QuitNext \/ Gone
  \/ \E saves \in BOOLEAN : Down(saves)

Spec == Init /\ [][Next]_vars

----------------------------------------------------------------------------
(* Properties *)

\* Every object is in one list at most and worn only by who carries it, one in each
\* place (equip_char, unequip_char, obj_from_char in handler.c).
TypeOK ==
  /\ scene \in Scenes /\ in_room \in [Chars -> Rooms \cup {None}]
  /\ w.wear_loc \in [Objs -> WearLocs] /\ w.lit \subseteq Objs
  /\ w.mod_str \in [Chars -> Int] /\ w.armor \in [Chars -> Int] /\ w.light \in [Rooms -> Int]
  /\ w.hitroll \in [Chars -> Int] /\ w.enchanted \subseteq w.marked /\ w.marked \subseteq Objs
  /\ w.flying \in [Chars -> BOOLEAN] /\ w.kept \in [Chars -> BOOLEAN]
  /\ loop.what \in Loops /\ loop.ch \in Chars \cup {None} /\ loop.obj \in Objs \cup {None}
  /\ \A h \in Holders : IsInjective(w.contents[h]) /\ ToSet(w.contents[h]) \subseteq Objs
  /\ \A g, h \in Holders : g # h => ToSet(w.contents[g]) \cap ToSet(w.contents[h]) = {}
  /\ \A o \in Objs : IsWorn(o) => \E c \in Chars : o \in Carried(w, c)
  /\ \A c \in Chars : \A o, p \in WornBy(w, c) : w.wear_loc[o] = w.wear_loc[p] => o = p

\* Strength, armour and hitroll are what the spells on a player and the pieces in use add up to,
\* also in the middle of a walk, when a piece is dropped while it is being put on, and
\* after a return to the game, but for enchantments that a file has not kept.
SumsAddUp ==
  \A c \in Chars :
    /\ w.mod_str[c] = SumOf([a \in affected[c] |-> a.modifier])
                      + SumOf([o \in InUse(w, c) |-> SumOf(kit[o].affects)])
    /\ w.armor[c] = 100 - SumOf([o \in InUse(w, c) |-> ApplyAC(o, w.wear_loc[o])])
    /\ w.hitroll[c] = Cardinality(InUse(w, c) \cap w.enchanted) + w.surplus[c]

\* Nobody flies but by a spell, by a piece in use, or because unequip_char did not
\* recognise who took the piece off (handler.c, get_char_world in unequip_char).
PowersHaveSource ==
  \A c \in Chars : w.flying[c] =>
    w.kept[c] \/ IsAffected(c, "fly") \/ \E o \in InUse(w, c) : kit[o].flies

\* equip_char, unequip_char, affect_to_char and affect_remove undo exactly what they did,
\* however a weapon dropped from within affect_modify cuts across them.
EffectsAddUp == SumsAddUp /\ PowersHaveSource

\* A room's count of lights is the number of lit lamps in the hands of those in it,
\* until somebody leaves a room with two of them (char_from_room counts one).
LightsAgree ==
  ~doubled => \A r \in Rooms :
    w.light[r] = Cardinality(UNION {Lamps(w, c) : c \in {d \in Chars : in_room[d] = r}})

\* A step leads a walk over what somebody carries elsewhere only when the successor it has
\* saved is the weapon in that player's hand, and the step has made the player too weak
\* for it, by no more than what the piece at hand does to strength (affect_modify).
StrayIsWeapon ==
  Astray' =>
    LET ch == loop.ch
        arms == loop'.obj
        swing == SumOf([i \in DOMAIN kit[loop.obj].affects |-> Abs(kit[loop.obj].affects[i])])
    IN  /\ arms = GetEqChar(w, ch, "wield") /\ arms \in ToSet(w'.contents[in_room[ch]])
        /\ kit[arms].type = "weapon"
        /\ kit[arms].heft > GetCurrStr([w EXCEPT !.mod_str[ch] = @ - swing], ch)
StraysAfterWeaponsOnly == [][StrayIsWeapon]_vars
=============================================================================
