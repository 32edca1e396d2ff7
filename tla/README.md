# A verification model of the GodWars server

GodWars is a MUD server of the Diku/Merc family: one process, one thread, a
`select` loop (`src/src/comm.c`, `game_loop_unix`) that polls its connections,
runs one line of input of each, calls `update_handler` (`update.c`) four times a
second, and writes the output. Nothing runs in parallel. What makes the code
hard is that everything is a global, hand-linked list of recycled structures,
and that any call can kill, free, move or disconnect anything — also what a
loop further up the stack holds a pointer to. Where two machines are involved
(IMC, the network between MUDs), messages are lost, repeated and answered late.

The TLA+ modules here are translated from that code; `PROJECT.json` names the
lines behind every definition. TLC checks small instances; TLAPS proves a part
for every number of characters.

## 1. Inventory

| component | state | operations | what is hard | what makes it correct |
|---|---|---|---|---|
| Fight list (`core.c` 533-595) | `first_fight`, `last_fight`, `next_fight`, `prev_fight`, `fighting` | `set_fighting`, `stop_fighting` | unlinking during the walk, four cases, legal calls in any order | the links form one list of exactly the fighters; a release is complete |
| Combat (`fight.c`) | position, hit points, room lists, `init` (speed) | `violence_update`, `multi_hit`, `one_hit`, `damage`, `hurt_person`, `raw_kill`, `do_kill`, `do_flee`, `do_rescue` | saved successors and arguments that go stale at every blow | no pointer to the dead or gone; no turn too soon; rounds end |
| Connections, login (`comm.c`) | descriptor list, `connected`, `character`/`original`/`desc`, `char_list` | `new_descriptor`, `nanny`, `check_reconnect`, `check_playing`, `close_socket`, the walks of the game loop; with `do_switch`, `do_return`, `do_quit`, `do_disconnect` | connections that close one another during the walk; two connections logging in as one player; player files written meanwhile | walk visits the open ones and only them; links agree; one body per player |
| IMC mail (`imc-mail.c`) | mail list with usage counts, queue, ID list, three files | send, hourly retry, mail-ok, mail-reject, receive, startup, shutdown | loss, duplicates, late answers, death between two files | nothing vanishes, nothing is freed in use, delivered once |
| Objects (`handler.c`, `act_obj.c`, `obj_update`) | `object_list`, contents of rooms, characters, objects; `carry_weight`, `carry_number` | `obj_to_*`, `obj_from_*`, `extract_obj`, get, put, drop, give | extraction of contents under a running walk, weights | each object in one place, counts agree |
| Bonds (`act_comm.c`, `handler.c`, `clan.c`, `act_move.c`) | `master`, `leader`, charm, `lord` and the count of followers, `familiar`/`wizard`, `mount`, `embrace`, `EXTRA_NO_ACTION` | follow, group, charm, summon, possess, project, ride, embrace, `die_follower`, `extract_char` | a departure undoes every kind of pointer in another place, some on one side only; the structure is used again | bonds are mutual and none leads to the dead; groups follow; servants are counted; a body finds its spirit |
| Affects and equipment (`handler.c`, `act_obj.c`) | `affected`, `wear_loc` and what they add up to: `mod_str`, `armor`, powers, a room's `light` | `affect_to_char`, `affect_remove`, `affect_join`, `equip_char`, `unequip_char`, wear, remove, draw, sheath, death | a weapon that has become too heavy is dropped from within any of it, under running walks | the sums are what is worn and cast; walks stay with what is carried |
| Player files (`save.c`) | one file per player | `save_char_obj`, `load_char_obj`, `load_char_short` | sums are written as numbers and pieces apart from them; a save while switched or editing, a crash between saves | what is loaded adds up; who is loaded is in the game once |
| IMC links (`imc.c`) | connections, their state and protocol version | handshake, read, write, disconnect | half-open connections, both sides connecting | an entry's connection is the one end that knows it; who wants to be connected is never forgotten and gets connected |
| IMC forwarding (`imc.c`) | remembered (source, sequence) pairs, paths | `forward`, `checkrepeat`, `imc_send` | duplicates along several paths; restarts and the sequence | each packet at most once; what suppresses repeats never cuts the flood off |
| IMC events (`imc-events.c`) | a sorted queue with recycled nodes | add, cancel, run | handlers that add and cancel while run | due events run, in order, once |
| ICE channels (`ice.c`, `icec.c`) | channel records at owner and client | create, update, refresh, destroy | stale local copies | the copies converge |
| Ticks and resets (`update.c`, `db.c`) | pulses, area ages | `update_handler`, `area_update`, `weather_update` | counters at their limits | each pulse fires once per period |
| Editors (`olc.c`, `string.c`) | `connected` below 0, `pEdit`, `pString` | the OLC commands | an editor taken over by another connection | an editing connection edits something |
| Powers (`clan.c`, `more.c`, `werewolf.c`, `demon.c`, ...), information, shops, channels, special procedures | flags of one character | hundreds of commands | little interaction | not modelled |
| Stand-alone programs (`iced.c`, `router.c`, `web*.c`) | — | — | not part of the server | not modelled |

How they interact: the game loop (Session) calls `interpret`, whose commands are
the actions of the other parts, and `update_handler`, which calls
`violence_update` (Combat), `char_update`, `obj_update` and the IMC event queue.
Combat calls the fight list for every pointer change, the room lists of
`handler.c`, and `extract_char`, which calls the fight list again, the objects
and the descriptors (`do_return`, `desc->character = NULL`).

## 2. Modules

| module | models | state and actions |
|---|---|---|
| `Lists` | — | `Without`, what unlinking does to the sequence a list threads |
| `FightOrder` | what the fight list promises | a sequence of fighters and their opponents; `Engage`, `Disengage` are single steps |
| `FightList` | `set_fighting`, `stop_fighting` | every pointer; one action per iteration of the unlinking walk; refines `FightOrder` |
| `FightList_proofs` | — | proofs about `FightList` for any finite set of characters |
| `Combat` | `fight.c` and the commands and ticks that interfere | EXTENDS `FightOrder`; a thread counter `pc` says which loop, stage of `multi_hit` or blow is running; loop variables and saved successors are variables |
| `Combat_proofs` | — | proofs about `Combat` for any characters, rooms, groups and speeds |
| `MCCombat` | — | the map of three rooms, bounds, view, the reduced specification |
| `Session` | the three walks of the game loop, `nanny`, body changes | one action is what the loop does for the descriptor it has reached |
| `MCSession` | — | symmetry |
| `Session_proofs` | — | proofs about `Session` for any descriptors, bodies, mobiles and names |
| `ImcMail` | `imc-mail.c`, sender and receivers | a handler changes memory in one step, then saves its files and sends one after the other (`todo`) |
| `MCImcMail` | — | bounds, symmetry, view |
| `Objects` | containment in `handler.c`, the commands of `act_obj.c`, death, `obj_update` | `heap` is a record of all the lists and fields of the structures, so that a handler is the composition of what it calls; one action per command, and one per iteration of `obj_update` |
| `MCObjects` | — | a purse, bounds, view |
| `Objects_proofs` | — | proofs about `Objects` for any characters and any number of structures |
| `ImcForward` | `forward` and what it learns routes from, in `imc.c`, `imc-util.c` | one packet received, sent or turned away per action; each end of a connection has its own opinion whether it is `up` |
| `MCImcForward` | — | the small networks, symmetry |
| `ImcForward_proofs` | — | proofs about `ImcForward` for any network, memory and lifetime |
| `ImcLink` | connecting, handshake, loss, events, in `imc.c`, `imc-events.c` | a socket has a client and a server end, each with the state of its `imc_connect`; one action per connection served or event fired |
| `MCImcLink` | — | the pairs of settings |
| `Imc_proofs` | — | proofs about `ImcMail` for any finite sets of mails and muds, and about `ImcLink` for any muds and any finite set of sockets |
| `Bonds` | everything that ties two characters to each other | a character is a structure with `who` it is now; one action per command or power, `ExtractChar` undoes it all |
| `MCBonds` | — | the groups of operations explored together, symmetry |
| `Bonds_proofs` | — | proofs about `Bonds` for any number of structures |
| `Equipment` | affects, wearing and light in `handler.c`, the commands and events that walk over what somebody carries; player files, departures and crashes | `w` is a record of lists, `wear_loc` and sums, which one call after another changes; one action per command, and one per iteration of a walk |
| `MCEquipment` | — | the scenes: two or three things with their prototypes, who plays, what is cast, whether there are files |
| `Equipment_proofs` | — | proofs about `Equipment` for any players, rooms and things and any prototypes |

`SetFighting(ch, victim)` is `set_fighting` without its two logging early returns;
`StopFighting`, `StopStep`, `StopReturn` are the call, one iteration and the end of
`stop_fighting`. `Unlink` states the four cases of the code by which neighbours exist.

In `Combat`, `Turn`, `TurnTaken`, `Assist`, `AssistDone`, `RoundOver` are
`violence_update`; `Swing(n)` reaches stage n of `multi_hit` and makes the tests
the code makes before it; `BlowAbsorbed`, `BlowRouses`, `BlowWounds`, `BlowKills`,
`BlowDrivesOff` are the ways `hurt_person` comes back. Damage is not computed:
which outcome a blow has is left open, so every sequence of outcomes the
arithmetic can produce is covered. A mobile does not go down by its wounds without dying
(`update_pos` kills it at 0); the charge of a Black Fury in `do_kill` stuns whoever stands
(`Stunned`: down and not wounded), after which `MultiHitAgain` is the second `multi_hit`
of that command and the first blow rouses the victim again. A player comes back in the
position it left in.

In `Session` the actions have the names of what the connection does; `GoOn` and
`Onward` are the loop's saved `d_next` and `close_socket`'s correction of it.
`Reboot` is the copyover-less reboot that saves everyone who is worth saving.

In `ImcMail` a queue entry is a pair of mail and mud. `Exchange` is a packet
received and answered, with the answer lost or on its way. `astray` collects the mails that
nothing in the code will ever free: those `delete_ml` has dropped from the list, and those that
`load_ml` reads from a file to which `mail-queue` has no entry any more.

In `Objects`, `To` and `From` are the three `obj_to_*` and the three `obj_from_*`,
`Extracted` is `extract_obj` with its contents, `Buried` the loop of `make_corpse`, `Created` and `MoneyIn` are
`create_object` and `create_money`. A structure on `obj_free` can be met again: the
free list is threaded by the same `next` as `object_list`, and `NextOf` follows
whichever of the two the structure is on, as the code does.

In `ImcForward`, `Forward` is `forward` with its three tests in order, `UpdateRoutes`
what `updateroutes` and the sequence bookkeeping leave (an entry that had expired is then
`"revived"`: it is as good as a normal one, but the drop scheduled at its expiry is still to come,
since `updateroutes` cancels `ev_expire_reminfo` only), `NextHops` the connections
`imc_send` picks. Replies that `imc_recv` sends while it receives are `ImcSend` steps of
their own, `noforward` and `rcvstamp` are at their default 0, and the three chat channels
kept at home do not occur.

In `ImcLink`, one `imc_idle_select` serves several connections; here each of them is a
step (`Serve`). Time is left out: an event that is pending may fire whenever the bounds
allow. `SetupReconnect` leaves open whether a second event is added, which the code
decides by comparing random delays.

In `Bonds`, rooms, positions, levels and saving throws only refuse an operation, so they
are left to chance, as is the order in which `char_free` hands structures out.
`Entrance`, `Summon`, `Project`, `SendEye` are the powers that charge a servant;
`Chant` is the charm of a written spell; `Departing` is whom a departure takes along.
`saved` is what the files keep of all this: `EXTRA_NO_ACTION` and `AFF_CHARM`, the latter
without the master it was under (`charm` is `"file"` after the login).

In `Equipment`, `AffectModify` is `affect_modify` and `Shifted` the same within itself,
where its static `depth` keeps it from dropping anything; `Unequipped` and what calls it
take the one or the other as an operator argument, and `ModifyAll` is the loop over the
affects of a piece. Strength stands for the sums affects
change, flying for the powers an item grants. `found` is what the test of
`get_char_world` in `equip_char` and `unequip_char` comes to (the wearer is found by its
own name, and is not in an editor), `zap` whether a piece suits its wearer's alignment;
both are left open. `WearNext`, `RemoveNext`, `BuryNext`, `ZapNext`, `ClearNext` are one
iteration of "wear all", "remove all", `make_corpse`, the zapping in `group_gain` and
`do_clearstats`, each with its saved `next_content`. In the scenes with files, whose
players have killed the five mobiles `do_autosave` asks for, `Image` is what `save_char_obj`
writes, `Login` what `load_char_obj` and the end of `nanny` make of it, `Quit`, `QuitNext`
and `Gone` are `do_quit` with the walk of `extract_char`, and `Down` is the timed reboot
(which saves everyone) or a death of the process at any point, in the middle of a walk too.
A file is the sums as numbers, the affects of spells, and the pieces; the pieces come back
from their prototypes. `surplus` counts the enchantments that were lost in this way while
their hitroll stayed.

## 3. Runs

| run | asks | answer |
|---|---|---|
| `fight_list` (4 characters) | Do the links stay one list of exactly the fighters (`ListIntact`); does a call release everyone it must (`StopIsComplete`); does it look atomic (`ImplementsFightOrder`); does it return (`StopReturns`)? | yes |
| `combat` (2 players, 1 mobile, 3 rooms) | Does a fighting pointer ever lead to someone not in the game (`FightLinksLive`); is somebody in `POS_FIGHTING` without the opponent whom `process_output` reads (`FightingHasOpponent`); do the dead strike or get struck through stale pointers (`TheSlainAreOutOfIt`); is anyone given its attacks again in a round without having rejoined the list at least twice (`NoTurnTooSoon`)? | no, none of them |
| `combat_rounds` | Does every round end (`RoundEnds`)? | yes |
| `session` (3 connections, 3 bodies, 1 mobile, 2 names) | Does the walk visit only open descriptors, and all of them (`WalkComplete`); do bodies and descriptors agree, and is each body either in the game or one login's (`LinksAgree`)? | yes |
| `session_bodies` | Is everyone in the game once (`OneBody`)? | **no** |
| `mail` (2 mails, 2 muds) | Do usage counts match the queue, and is a mail freed with its last entry unless it went astray (`UsageCounts`); does a saved entry vanish without delivery or notice (`NoSilentLoss`); is mail delivered twice without a forgotten ID (`DeliveredOnce`)? | yes, no, no |
| `mail_restart` | Do the files together always hold the mail of each entry (`QueueResolves`)? | **no** |
| `objects` (1 player, 1 mobile, 3 structures) | Is every structure in one list, in the one its pointer names, and freed once (`EachInItsPlace`); are the carried counts and weights what a fresh count would give (`SumsRight`); does gold come from nowhere but the price of a single coin (`GoldOnlyByCoins`)? | yes |
| `imc_forward` (up to 4 muds, 3 packets) | Does a mud take a packet in twice (`AtMostOnce`); does it turn one away that it never had without need (`RefusedForAReason`); does a broadcast come to everyone connected, and is a packet for one mud lost on a sound network only where routes mislead (`PacketsArrive`)? | no, no, yes |
| `imc_link` (2 muds, 2 sockets) | Is an entry's connection the one connected end that knows it, and do events refer to what exists (`ConnectionAgrees`); is a mud that should be called again forgotten (`NeverForgotten`); do two muds that want to be connected end up so (`ComesTogether`)? | yes, no, yes |
| `bonds` (2 players, 4 structures) | Are familiars, mounts and embraces mutual and does no pointer lead to a freed structure (`BondsHold`); does everyone in a group follow its leader (`GroupsFollow`); is every servant counted (`ServantsCounted`); can a body whose spirit roams always get it back (`OnlyTheSpiritKeepsTheBody`); do circles of charm take a written spell or a charm from a player file (`OnlyStrayCharmTangles`)? | yes |
| `equipment` (1 or 2 players, up to 3 things) | Are strength, armour, hitroll and powers what is worn and cast, whatever drops out of a hand meanwhile, and after a return from the player file (`EffectsAddUp`); is a room as light as the lamps in it (`LightsAgree`); is a walk led away from its owner by nothing but the weapon in hand, which was its next piece and has become too heavy (`StraysAfterWeaponsOnly`)? | yes |

The two answers in bold are recorded under `findings` in `PROJECT.json` with
the lines that promise otherwise. In short: taking over a switched immortal's
connection forgets the immortal's own body (`comm.c` 2079), and `delete_ml` drops every
newer mail (`imc-mail.c` 261).

More observations come out of the models' behaviours without a property of their
own, most of them because nothing in the repository promises otherwise:

- `Combat`: a fighter unlinked while it is the saved successor ends the round for
  everybody behind it (`fight.c` 68). An attacker felled by the fast-draw answer still
  strikes, and is put back into the fight without hit points (`fight.c` 265). With eight
  characters somebody can attack twice in one round: who leaves the list, takes up a
  fight anew and is met again only counts down the speed it was given, and the second time
  it is met the speed is used up. "One turn a round" is therefore true of the three
  characters of the run and false in general, and `NoTurnTooSoon` says what does hold.
- `Session`: a login that began before its player's file existed enters as a newcomer
  (`comm.c` 1615, `blank`).
- `ImcMail`: a mail that `delete_ml` has dropped, or that came from `mail-list` without an
  entry in `mail-queue`, is never freed (`astray`). The hourly expiry forgets all mail IDs, not the old ones
  (`imc-mail.c` 672), so mail resent after it is delivered again; `DeliveredOnce`
  therefore excludes IDs a receiver was made to forget.
- `Objects`: a container that runs out frees the successor that `obj_update` has saved,
  and the walk strays onto the free list (`update.c` 1712). A single coin keeps the
  value `create_object` gave it, its fuzzy cost of 9 to 11 (`db.c` 1734).
- `ImcForward`: a packet for one mud alone is flooded on by it, although the comment
  at `imc.c` 605 says such packets are not forwarded; only the memory of the others
  stops it. An entry of `imc_reminfo` that had expired is dropped at the appointed time although
  its mud was heard of in between (`imc.c` 208). On a network of six muds a packet can be lost although no connection was, no
  packet expired and nobody forgot anything, which is why `PacketsArrive` does not say that a
  packet for one mud always arrives. Let the connections be T–E, T–F, E–C, F–D, C–D, B–C
  and B–D. C and D broadcast something, which B does not read yet. T sends a packet
  to C by way of E and one to D by way of F; when C and D see each other's copies they
  learn that T is reached through D and through C. B, which knows no route to T, now
  floods a packet for T to C and D. Each sends its copy to the other only (`imc.c`
  617–640), and each refuses the other's as a repeat: it is nowhere any more. What
  `PacketsArrive` and its proof say is that it takes just that: two neighbours that both
  have routes for the addressee, neither of them connected to it.
- `ImcLink`: a mud whose first call at startup fails at once is never called again
  (`imc.c` 953, `missed`). `ev_login_timeout` reads `c->info`, which `imc delete` may
  have freed (`imc.c` 313). Two overlapping connections can displace each other for
  ever if a reconnect event fires during every handshake; `ComesTogether` holds because
  an attempt during which nothing fires succeeds (see Fairness).
- `Bonds`: `EXTRA_NO_ACTION` ends with the loss of any servant, after which
  "projection" finds a familiar but no spirit roaming and does nothing; entrancing
  one's own servant again charges it twice, and nothing gives the surplus back before
  the next login. A written charm spell without a target makes its chanter its own master,
  whereupon `check_killer` loops for ever (`fight.c` 1557). So it does after two players under
  plain "charm person" quit and log in again: `fwrite_opt_char` keeps `AFF_CHARM` (`save.c`
  697) and `fread_opt_char` restores it (`save.c` 3045) without a master, and `do_follow`
  refuses the charmed only while they have one (`act_comm.c` 1914), so that they can follow each
  other. `OnlyStrayCharmTangles` says that it takes one of these two.
- `Equipment`: a piece that strengthens its bearer, taken off by a walk, makes the weapon
  in hand drop; when that weapon is the saved successor (`Astray`), `make_corpse` calls
  `obj_from_char` on a thing of the room ("Obj_from_char: null ch.", `handler.c` 919) and
  puts it and what lies behind it into the corpse, "wear all" puts on what lies on the
  floor, and "clearstats" leaves pieces worn whose strength and armour it has set back.
  A bearer of two lamps who walks away leaves the count of lights one too high, and the
  next room one too low.
  `affect_remove` ends "fly" though wings are worn (`handler.c` 657).
  `spell_enchant_weapon` gives a weapon affects but no maker's name, so `fwrite_opt_obj`
  writes it as unmodified (`save.c` 1293): after the next login its affects are gone, the
  hitroll they gave to whoever wore it stays for good, and the mark that it is enchanted,
  which is kept, prevents that it is enchanted again. The walk of `extract_char` at a
  departure can go astray like the others, in the room players leave from
  (`ROOM_VNUM_DISCONNECTION`); the weapon dropped there is in the file as well. Whoever
  logs in with a lamp in each hand is counted once.

Each property of a passing run has a mutant, a `Slip...` definition next to the one
it replaces, which is a bug the code could have had; the property notices it.

### Bounds, and why they are enough

- `fight_list`: four characters, so that the list has a first, a last and two
  middle elements and each unlinking case occurs next to each other one.
- `combat`: two grouped players and a mobile is the least with an assister, a
  rescuer and a third party on the list; three rooms are the fight, somewhere else
  (where flight and recall lead) and the altar, a safe room. `FewDown` lets only one
  character at a time be hurt, lying down or on the list without being in
  `POS_FIGHTING`, and lets no round begin with all three fighting and one of them hurt (a hero
  fights on with no hit points); within a round that happens, and the states where the bound ends
  are checked too. `Speed` is {2}, the least `get_speed` returns, which brings
  turns as close together as they can be. The view tells `init` apart only above or
  not above 1, which is all `Turn` asks once it has counted down, and leaves out what is set
  again before it is read: `ch_next` at the head of the loop, the stage of `multi_hit` but for
  the stages that can still come, the attacker and the victim once none can, and whether
  somebody who may be served again has been served before.
- `combat_rounds` runs `BattleSpec`, the behaviours of `Spec` without commands
  other than attacks. What ends a round is in the round, and everything
  inside a round is there. `CHECK_DEADLOCK FALSE`: when everybody is down or
  dead and nothing recovers, that reduced system stops.
- `session`: three descriptors, so that one can take over or close another
  while the third is the saved successor; three bodies, two names, one an
  immortal who can switch into the one mobile.
- `mail`: two mails and two muds; `NetSize` packets at once (2), at most three
  entries in all, two deliveries of an entry, and one forgotten ID or one bounce.
  Two mails are what `delete_ml` needs to go wrong, two muds what a shared usage
  count needs. A packet lost at any time is covered by its loss when it is sent.

- `objects`: three structures are a container, what is in it and something beside
  it; they are allocated, freed and used again. Two things (`CarryN`) and weight 4
  (`CarryW`) can be carried, so that both limits are met. Purses together hold at
  most two gold, amounts are 1 and 2, and a coin's value is 9, the least it can
  be; Preservation is used once per character on something it does not carry. The
  view renames structures by their place in `object_list`, which changes nothing
  that can happen.
- `imc_forward`: a triangle (the least with two paths) with three packets, so that more
  packets pass than a mud remembers (`IMC_MEMORY` is 2, 256 in the code) and numbers are
  overtaken (`IMC_PACKET_LIFETIME` 0); a triangle, a triangle with a tail and a ring of
  four with two packets, the triangle with one event (a lost or new connection,
  a restart, an expiry, a tick). One pair has the broadcast flag. The numbers run out,
  so the run stops: `CHECK_DEADLOCK FALSE`.
- `imc_link`: two muds; a pair is all a connection knows about. Two sockets, so that
  both can call at once or a new connection displaces an old one; two pending
  reconnects of an entry and two troubles (failure, timeout, cut, command, restart), the
  second of which may hit the recovery from the first. Once connected, with the troubles used up, or with its
  entries deleted, a pair rests: `CHECK_DEADLOCK FALSE`.
- `bonds`: four structures, so that a lord, its servant, a second player and whoever
  gets a freed structure exist at once. Operations interact through the pointers they
  share, so a behaviour explores the kinds of bond in pairs (`Topics`), with
  departures and logins in all of them. `MaxFollowers` is 2 (5 in the code). The
  symmetry exchanges structures, and players. The view leaves out the file of a player who is
  in the game: only `Login` reads a file, and whoever left the game has written it anew.

- `equipment`: each scene has three prototypes that disturb each other: a sword with a
  belt, which strengthens and weakens in turn, and a shield that weakens; a sword with affects of its own, one of
  which makes it too heavy while it is put on; wings and a spell that grant the same
  power; two lamps, borne by one player or two. Strength is 3, cut to 1 to 5; the sword
  needs 3; poison adds up to 3 at most. The scenes with files have one player and two things
  (a weapon and a girdle with enchantments, two lamps, a weapon that lets one fly and wings),
  because `Login` takes a spare structure of the right prototype for each piece in the file. One
  enchantment may be lost at a time. A behaviour that has gone astray is not followed
  further (`OnCourse`): what comes then is the wrong list under the walk, not the sums.

### Fairness

- `FightList`: weak fairness of the walk's steps. The server is one thread, so a
  call of `stop_fighting`, once made, runs on; nothing else is enabled until it returns.
- `Combat`: weak fairness of `Round`, for the same reason: while `pc` is not idle no
  command runs, and `update_handler` calls `violence_update` again and again.
- `ImcLink`: weak fairness of `Serve` for each connection, which `imc_idle_select` comes to
  in every loop; of a pending reconnect event, which `imc_run_events` runs when it is due;
  and of `ImcStartup`. None of the troubles is fair. `ComesTogether` counts a reconnect event that
  fires although the entry is being connected as one of the bounded troubles, because
  such events can otherwise recur in step with the handshakes.
- `Session`, `ImcMail`, `Objects`, `ImcForward`, `Bonds` and `Equipment` state safety only and assume none.

## 4. Proofs

`FightList_proofs` proves, for any finite set `Chars` and a `NULL` outside it
(`CharsAssumption`):

- `TypeCorrect`: `Spec => []TypeOK`, by one lemma for `Init` and one for a step.
- `Threaded`: `Spec => []IInv`, the inductive invariant. `ListIntact`
  says that some sequence threads the links; it is not enough, because it does not
  say where a running `stop_fighting` is. `IInv` adds `WalkAt`: the loop
  variable stands at a position of that sequence (or behind its end) with nobody left
  to stop before it. `SetFightingKeeps` appends to the witness, `UnlinkKeeps`
  removes the k-th element by cases on its neighbours, `PassKeeps` moves on.
- `ListNeverCorrupted`: `Spec => []ListIntact`; the length of the list is bounded by
  the number of characters by `ListBound`, an injection argument.
- `StopLeavesNobody`: `Spec => []StopIsComplete`; at the end of the walk `WalkAt`
  says that nobody on the list is to be stopped, and whoever is not on it has no
  opponent.
- `ListImplementsOrder`: `Spec => ImplementsFightOrder`, the refinement. The mapping reads
  the order off the links (`Linked`) and leaves out those a running `stop_fighting` has
  still to reach. `LinkedIs` shows that following the links finds the sequence they
  thread (the equation of the recursion has one solution: `OneWay`, by the least place
  where two would differ). Then `SetFightingEngages` and `StopFightingDisengages` map the two
  calls to the abstract steps and `StopStepStutters` and `StopReturnStutters` the rest to none:
  to unlink one of those who are to go, and then to leave out the others, is the same as to leave
  all of them out (`OneByOne`).

`Bonds_proofs` proves, for any number of structures, any players and any
`MaxFollowers`, from the assumption that a role is not its absence
(`ConstantsDiffer`):

- `Invariant`: `Spec => []IInv`, where `IInv` is `TypeOK` and one part for each kind of
  pointer: `FellowInv` (master and leader), `SpiritInv` (familiar, wizard and the body
  a spirit left), `RideInv`, `HoldInv` (embraces) and `LordInv` (charges and the counts
  of followers). The properties are not inductive as they stand, because a departure
  (`ExtractChar`) undoes a bond from one end only: each part says of both ends what the
  code relies on when it follows the pointer, and that a structure on the free list is
  in nobody's bond. A step of one kind leaves the other four parts alone, which is
  one lemma per part (`...Same`), so the proof has one step for each action and part it
  can disturb.
- `TypeCorrect`, `BondsAlwaysHold`, `GroupsAlwaysFollow`, `ServantsAlwaysCounted` and
  `BodiesAlwaysReachable` follow from it.
- `KnotsAreStray`: `Spec => []OnlyStrayCharmTangles`, from `KnotInv`: every set of bound characters
  that goes round under `master` (`Ring`) has somebody in it whose charm is `Stray`, of a chant
  or from a file. A step
  that ties somebody by other means either finds nobody behind the one it ties
  (`NobodyBehind`) or has asked that the new lord be bound to no one, so it closes no ring
  (`KnotTaken`); the others only untie (`Untied`, `KnotGoes`). A thread that does not end
  visits more places than there are characters, so it comes to one of them twice (`Again`,
  the library's pigeonhole principle) and ends in a ring (`EndsInRing`). That
  the recursive function in `Thread` is such a thread is shown by least counterexamples
  (`ThreadExists`, `ThreadIs`).

`Imc_proofs` proves about `ImcMail`, for any finite sets of mails and muds and any network
(`MailAssumption`; the size of the network is never used), three properties with an
inductive invariant each, and the types (the module extends `ImcLink`
too, which is why `ImcMail` calls its formulas `MailInit`, `MailNext` and so on):

- `UsageAlwaysCounts`: `MailSpec => []UsageCounts`. `UsageInv` adds that a mail
  whose ID is listed, in memory or on file, has been written (`OnceWritten`: a new
  mail cannot be in an old entry) and that no list holds a mail twice, so that
  `delete_ml`, which drops whatever is in front of the mail it frees, leaves no freed
  mail on the list (`DeleteMlFrees`); and that whatever is allocated is on the list or in
  `astray`, so that the last entry's `delete_ml` finds it. `DeleteMqCounts` and `SendMailCounts`
  count the entries of one mail by the library's cardinality facts.
- `AlwaysDeliveredOnce`: `MailSpec => []DeliveredOnce`. `DeliveryInv` adds that what has
  been delivered is in the ID list and in its file, unless it was forgotten: the file
  matters, because a restart replaces the list by it.
- `NeverSilentLoss`: `MailSpec => []NoSilentLoss`. `LossInv` adds that an ID is listed, and
  a mail-ok is on its way, only after the delivery (`ListedDelivered`, `AcksTrue`), and
  that the promise holds of the queue in memory and of its file at once: either may be
  the one that is left after the next step. Steps of receivers and of the network
  keep it by one lemma (`QuietKeeps`).
- `MailTypeCorrect`: `MailSpec => []MailTypeOK`, from `MoreTyped` on top of the first two invariants: a
  reference count stays between 0 and the number of muds because it counts the entries of one
  mail, of which there is one for each mud at most (`AtMostMuds`).

`Session_proofs` proves, for any descriptors, bodies, mobiles and names that
differ from `None`, with one inductive invariant, `IInv`:

- `WalksAlwaysComplete`: `Spec => []WalkComplete`. `ListInv` adds that the list holds a
  descriptor once, and `WalkInv` (`Ahead`) that what a walk has still to serve lies from `d_next`
  on: `close_socket` moves `d_next` when it removes the descriptor `d_next` points to,
  which is what keeps it so. `Place` and `Without` get lemmas from the
  library's facts about concatenation and subsequences.
- `LinksAlwaysAgree`: `Spec => []LinksAgree`. `StateFits` says which states of
  the dialogue go with a body, `LeftBehind` that a body somebody left for another is
  nobody else's, `BodyToReturnTo` that whoever is switched has one, `OnlyImmortals`
  that only immortals left one, and `ListedOrLogin`, `InGameListed` and `FreeBodies`
  which bodies the game's list holds. Together they say what each handler
  relies on when it follows `d->character` or `d->original`.
- `Invariant` and `TypeCorrect` are the two that these rest on.

`Imc_proofs` proves about `ImcLink`, for any muds, flags and trust, any finite set of sockets
and any bounds (`LinkAssumption`), from `IInv`, which adds to the properties what an
end knows in each state (`EndsFit`) and that no mud has an entry for itself (without
that the connection a handshake displaces could be the other end of its own socket):

- `ConnectionsAlwaysAgree`: `Spec => []ConnectionAgrees`. `DoCloseKeeps` serves refused
  passwords, lost lines, timeouts and `rdisconnect`; `RegisteredKeeps` both passwords.
- `NothingForgotten`: `Spec => []NeverForgotten`. `Retries` says that `do_close` asks
  for an event for every entry it lets go of, `SetUp` that the event then is pending.
  Steps that change no relation keep it by one lemma (`QuietKeeps`).
- `Invariant` and `TypeCorrect`, on which these rest.

`ImcForward_proofs` proves, for any muds, any network of connections
between two of them, any memory and any lifetime (`ForwardAssumption`; only
`PacketsAlwaysArrive` needs the muds to be finite in number), with the
inductive invariant `IInv`:

- `TakenInOnce`: `Spec => []AtMostOnce`. `MemInv` adds that the keys a mud remembers are
  distinct and each is the key of a packet it took in or turned away. There are then no
  more of them than packets (`Pigeons`), so while all packets fit into the memory nothing
  is forgotten, and `OnceInv` says that whatever was taken in is still remembered.
- `AlwaysRefusedForAReason`: `Spec => []RefusedForAReason`. `SendInv` adds that the
  numbers of a sender that was never rewound grow with its packets: a remembered key is
  then the packet's own (`RepeatReason`), and a highest number known of the sender, which
  by `RouteInv` is one it has used, that lies too far ahead is a later packet that
  overtook this one (`OldReason`).
- `TypeCorrect`: `Spec => []TypeOK`. `WireInv` adds that the path of a packet on a wire
  ends where the wire begins and does not name the mud at its other end, because
  `NextHops` leaves out whoever is on the path.
- `PacketsAlwaysArrive`: `Spec => []PacketsArrive`, from a second inductive invariant, `FlowInv`
  (theorem `Flow`), on top of `IInv`. Its parts for broadcasts: a recent packet is on
  wires with an open sending end only, and whoever it passed has taken it in (`EndsInv`,
  `PathInv`, `SenderInv`); and whoever has taken in a fresh broadcast has it taken in by,
  or on the wire to, every neighbour, ahead of all later packets of the same sender
  (`FloodInv`). Wires keep their order, so nobody takes in a later packet first, and with
  `TopInv` (a highest number known is one of a packet taken in) the age test cannot
  refuse the broadcast; the memory refuses repeats only, by `RepeatReason`. For packets to one
  mud, while nothing has happened: a route leads to the addressee or to a neighbour that
  has one (`CalmInv`), and whoever has taken in a packet that has not arrived has passed
  it to everybody, to the addressee, or to a neighbour with a route (`OnwardInv`). There is
  one lemma for each action, `FlowForward` and its parts for what `forward` does.
  At the end, the muds that have the packet are a set that no connection leads out of, and
  `ReachableIn` says that such a set holds all that can be reached: the recursive function in
  `Reachable` has a solution (`SpanExists`), and there is no least step at which it leaves
  the set. Both use least counterexamples in place of an induction (`Least`).
- `Invariant`, on which these rest.

`Combat_proofs` proves, for any finite set of characters, any rooms, exits, groups and
any speeds of at least 2 (`CombatAssumption`), with one inductive invariant, `IInv`:

- `LinksAlwaysLive` and `FightersHaveOpponents`: `FightLinksLive` and
  `FightingHasOpponent`. `OrderInv` adds that the fight list holds exactly those who have
  an opponent, and nobody twice; `PlaceInv` that a character is in one place of one room,
  or in none and then dead; and `LinkInv` states the second property at every step, not
  only when the thread is idle. There is one lemma for each way the world changes
  (`StopKeepsWorld`, `DownKeepsWorld`, `KillKeepsWorld`, `StrikeKeepsWorld`,
  `ExtractKeepsWorld`, `RescueKeepsWorld`, `FlightKeepsWorld`, `PeaceKeepsWorld`), which
  the actions that make it cite.
- `SlainStayOut`: `TheSlainAreOutOfIt`. `SlainInv` adds that the slain are nowhere or at
  the altar, so that whoever strikes one of them, or is struck by one, is not in a room
  where blows fall.
- `TurnsAreSpaced`: the action property `NoTurnTooSoon`. `TurnInv` relates the place of
  the walk (`Front`), the list and the speeds: who was served and has not rejoined is
  behind the walk; who has rejoined once has a speed of 2 if the walk is still to meet it
  and of at least 1 behind it. That every step only takes names out of the list or puts
  new ones at its end is `KeepsOrder`.
- `Invariant` and `TypeCorrect`, on which these rest. `Without`, the list without a set
  of characters, is defined by counting what is kept up to a place; the lemmas `Ranks`,
  `WithoutKeeps` and `Shrinks` derive from the library's cardinality facts that it is
  again a list, of those who stay and in their order.

`Objects_proofs` proves, for any characters, any number of structures, any carrying
capacities and any purses (`ObjectsAssumption`; structures are numbered, so it also says
that no character, the room or `NULL` is one of the numbers), with the inductive
invariant `IInv`:

- `EverythingInItsPlace`: `Spec => []EachInItsPlace`. The property counts what can be reached
  from outside; it does not say why a new link cannot close a ring. `Tidy` adds
  that lists and pointers back agree (`Agrees`) and that every set of structures has one
  that nothing of the set is in (`Grounded`): together, `Forest`. It also allows for things
  on their way (`L`), taken from one place and not put into another yet, so that the
  parts of a handler can be proved one after the other. `ToTidy`, `FromTidy`, `FreedTidy`
  and `CreatedTidy` do that for `obj_to_*`, `obj_from_*`, the unlinking of `extract_obj` and
  `create_object`; `ExtractedTidy`, `MovedTidy`, `MoneyTidy`, `BuriedTidy` (the loop of
  `make_corpse`) and `AllExtracted` (that of `extract_char`) compose them; and there is one
  lemma for each action. `Held` adds that only who is in the game holds anything, and
  `LiveAreHeld` draws the conclusion: above every structure there is an outermost one
  (`Outermost`), and it lies in the room or with a character who is in the game.
- `SumsAlwaysRight`: `Spec => []SumsRight`. `Square` is inductive together with `Tidy`: putting
  `o` into `p` adds all that is under `o` to the load of exactly those who bear `p`
  (`HookedCarried`), and because no branch is carried twice (`ApartOrUnder`) the totals
  differ by exactly its weight (`TotalBoth`).
- What `Doomed` collects, to any depth, is shown in three steps: in a forest the
  recursive function exists (`DoomedExists`, adding one structure at a time in an order in
  which what is inside comes first) and is unique (`DoomedIs`); its members are the least set that
  holds `o` and whatever is in a member (`UnderLeast`); everything else follows from that.
  Loops over a list are functions on `0 .. Len(s)`, whose
  existence, and whatever a step keeps, is one lemma (`Recursion`), derived from the fact
  that a set of numbers has a least element.
- `GoldNeverGrows`: the action property `GoldOnlyByCoins`, for finitely many characters
  (the only use of that assumption). `Purses` and `Goods` are the two sums that make up the
  property's `Worth`; `SumIs` derives from the definition of the library's
  `MapThenSumSet` what a sum is (its recursive function exists, by `ElementByElement`),
  `PursesChange` what moves with one purse, `SumIsTotal` that over structures it is the sum the
  rest of the module uses. `NothingMade` and `MoneyTaken` are the two ways to balance an account:
  nothing new appears, or one thing does, whose price a purse has paid.
  There is one lemma for each action (`GetObjBalanced`, `DropCoinsBalanced`,
  `KillBalanced`, ...). The property is not
  inductive by itself: one coin dropped where worthless money lies would be made into a
  single coin in the structure of the old one, whose price `Minted` does not see.
  `Priced` adds that money in the game is worth at least 1.
- `Invariant` and `TypeCorrect`, on which these rest.

`Equipment_proofs` proves, for any finite sets of players and things, any rooms, any range of
strength, and any prototypes (any lists of affects, any weights, any places they fit), from
`Prototypes` (which says, besides types, that a light fits the hands only, as `wear_obj`
has it, and that players, rooms, things and `NULL` differ), with the inductive invariant `Fit`:

- `TypeCorrect`: `Spec => []TypeOK`. `Sound` adds to the agreement of lists and places that
  lamps are worn in the hands and that what is lit is a lamp: `char_from_room` looks
  into the hands only, `unequip_char` dims whatever is lit.
- `EffectsCorrect`: `Spec => []EffectsAddUp`. `Balanced` and `Sourced` say it for one player and
  a set of spells, because the spells change in the middle of a step. A piece of equipment is
  put on in many steps of arithmetic, and any of them can make the weapon in hand drop:
  `Turn` says what such a sequence may do to the rest (it takes pieces off, it
  keeps their order, and strength and hitroll move by what is being added and nothing else), and
  composes (`TurnTwice`). `ModifyDrops` shows by `Recursion` that the loop of `affect_modify`
  is such a sequence and drops the weapon once at most: what follows finds the hand empty and only
  adds. From it come `Unequipping`, `FromCharTakes` and `Discarding` (`Undone`) and `Equipping`
  (`Steady`), which all actions cite. The sums are the library's `FoldFunction`:
  `SumIs`, `SumWith` and `SumRenamed` derive from its definition that a sum exists, loses what an
  element adds when it loses the element, and does not depend on names.
- The files are part of the invariant: `FileFits` says of every file what `Balanced` and
  `Sourced` say of a player, with the lost enchantments in `surplus`. `ImageFits` shows that what is
  written fits, whatever is worn at that moment, and `LoggingIn` that a player with other structures of the same
  prototypes, read from a fitting file, is balanced again (`SumRenamed`, along the file's list).
- `LightsCorrect`: `Spec => []LightsAgree`. `Bright` is inductive as long as each step moves
  the count by what it does to the set of lamps in the room (`OneLess`): `Departing` and
  `Arriving` need that the player has one lamp, which is what `doubled` remembers; everything
  else changes one lamp and one count (`LampOut`), or neither.
- `StraysCorrect`: `Spec => StraysAfterWeaponsOnly`. `Loses` says of each operation whom it takes what from:
  the piece at hand, or the wielded weapon, which then lies in the room and weighs more than the
  strength that is left when all the piece takes away is taken (`Fell`; the bound is `PartsAbs`).
  `IterationStep` draws the conclusion for every walk: its successor was carried, so it is
  carried still, or is that weapon.
- That strength is right again after `raw_kill` and `do_clearstats`, which set armour and hitroll back
  but not strength, rests on everything having been taken off. `Remains` says so in the
  middle of a walk: whatever is still worn lies at the walk's next object or behind it,
  which needs that the operations keep the order of the list (`Less`) and that the walk has not
  gone astray.
- `StaysFit`: `Spec => []Fit`, on which these rest.

Only model-checked: `StopReturns`,
`RoundEnds` and `ComesTogether` (liveness is out of the prover's reach). Every safety
invariant and action property of a passing run has a theorem.

## 5. Not modelled, and why

- `Combat`: how much damage, parry and dodge, which only choose an outcome;
  mounts, charmed mobiles (redirected damage), the stance branch of `special_move`,
  decapitation and the other combat commands; the timer that moves idle players
  to limbo; what `hurt_person` does with a mobile that killed itself (it reads a
  freed structure, `fight.c` 1188, which has no state to be wrong here).
- `Session`: prompts, colour, snooping, output buffers, input parsing, wizlock
  and bans beyond "turned away".
- `ImcMail`: one sender and receivers that do not send (the halves share no
  state); mail to every MUD ("not yet implemented" in the source) and
  `ev_qnode_expire`, which nothing schedules; a file is written by one step, so a
  file torn by a death while it is being written is not covered; the time of
  receipt of an ID, since the expiry ignores it. `DeliveredOnce` excludes IDs a
  receiver was made to forget, by the expiry or by dying before it had saved.
- `Objects`: wearing, which is in `Equipment`; how much fits into a container and whether it is
  closed, and cursed or invisible things, which only refuse a command that may also
  just not be given; things that are claimed, or called back at death (`do_call`);
  players who have become things; `SITEM_MORPH`, which an immortal sets; hatching
  eggs; the saved belongings of a player, which come back by `Load`; and all rooms
  but one. "get all" and the like are their singular forms repeated.
- `ImcForward`: the contents of packets and what a mud does with one it takes in; the
  stamp and `noforward` options, which are off by default; hop counts as such (`path`
  is the muds passed).
- `ImcLink`: buffers, the wording of the handshake, passwords, the spam counters and
  the limit of buffered output; the client-only and server-only settings are in as
  refusals of an end.
- `Bonds`: the bonds only some classes have and only their own commands read (marriage,
  `reply`, `propose`, `partner`, `blinkykill`), and whatever refuses an operation by
  room, position, level or chance.
- `Equipment`: the other attributes and powers, which are added and set in the same way,
  and the powers of classes; highlanders, who wear no armour class; vampires' flames,
  which light a room; lost limbs and forms, which only refuse a place; messages; the
  alignment itself; mobiles, whose strength is fixed; and what happens once a walk has gone astray. Of the player files:
  their format and a file torn by a death while it is written; things in things, which
  `Objects` has; keys, which are not written, so that one worn at a crash leaves its effect
  behind; players with fewer than five kills, who are never saved; and the fields
  that are written and read back without being related to any other.
- Components marked `not_modelled` in `PROJECT.json`: tables, powers that set
  flags of one character, displays, and programs the server does not consist of.

Most of the source lines are of that last kind: some 60 000 lines of `clan.c`,
`more.c`, `jobo_*.c`, `act_info.c`, `const.c`, `olc.c` and their like test a class and a
level, set or print fields of one character and return. A model of such a command is
its text again, with no property that any other step could break; this is why the map
covers the parts that share state, and a minor share of the lines.

## 6. Plan

1. Done: `FightOrder`, `FightList` and its proofs, `Combat`, `Session`, `ImcMail`,
   `Objects`, `Bonds`, `ImcForward`, `ImcLink` (with the IMC events), the proofs about
   `Session`, `ImcMail`, `Bonds`, `ImcLink`, `ImcForward`, `Combat` and `Objects`,
   the refinement of `FightOrder`, `Equipment` (with player files) and its proofs.
2. The nested objects of player files, `IceChannel`, the mobile's scripted assistants.
3. Liveness of mail: an entry that is saved is eventually settled, under fairness of
   resending and of a network that does not lose for ever.

All these modules are free of RECURSIVE operators.

Runs are kept to one per question; when new components need runs, questions that share
an instance are merged.
