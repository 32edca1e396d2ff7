------------------------------ MODULE Session -------------------------------
(***************************************************************************)
(* Connections (comm.c): the descriptors the game loop serves, the login   *)
(* dialogue (nanny), and how a descriptor gets, keeps and loses the body   *)
(* it plays: loading it, finding it link-dead (check_reconnect), taking it *)
(* over from another connection (check_playing), leaving it for a mobile's *)
(* (do_switch, do_return), losing the link (close_socket), quitting.       *)
(*                                                                         *)
(* One action of a walk is what the game loop does for one descriptor,     *)
(* whose successor d_next it has saved before.  Anything that descriptor's *)
(* input brings about can close any descriptor, the saved one included.    *)
(*                                                                         *)
(* Bodies are the structures CHAR_DATA, recycled through char_free: a body *)
(* without a name is free.                                                 *)
(*                                                                         *)
(* Definitions named Slip... are bugs the code could plausibly have had;   *)
(* nothing uses them except the runs that show a property notices them.    *)
(***************************************************************************)
EXTENDS SequencesExt, FiniteSets

CONSTANTS
    Desc,          \* structures DESCRIPTOR_DATA
    Bodies,        \* structures CHAR_DATA that hold players
    Mobs,          \* mobiles an immortal can switch into
    Names,         \* names of players
    Immortals,     \* those who may switch and who never time out
    NULL

ASSUME SessionAssumption ==
    /\ IsFiniteSet(Desc) /\ IsFiniteSet(Bodies)
    /\ Immortals \subseteq Names
    /\ Bodies \cap Mobs = {}
    /\ NULL \notin Desc \cup Bodies \cup Mobs \cup Names

VARIABLES
    descriptor_list,
    connected,     \* d->connected; "free" when d is on descriptor_free
    character,     \* d->character
    original,      \* d->original
    desc,          \* ch->desc
    name,          \* ch->name
    char_list,
    switched,      \* the bodies with EXTRA_SWITCH
    blank,         \* bodies read, at level 0, when there was no file yet
    pfiles,        \* names with a player file (of level 2 or more)
    flagged,       \* names whose file has EXTRA_SWITCH
    at,            \* which part of the game loop is running
    d_next,        \* the successor its walk has saved
    unserved       \* history: open since the walk began, and not yet reached

links == <<character, original, desc>>
world == <<descriptor_list, connected, links, name, char_list, switched, blank>>
files == <<pfiles, flagged>>
loop == <<at, d_next, unserved>>
vars == <<world, files, loop>>

(* "new" stands for the four questions a new player is asked; "editor" for *)
(* the states below CON_PLAYING.                                           *)
Login == {"get_name", "old_password", "new", "motd"}
InGame == {"playing", "editor"}

Open == ToSet(descriptor_list)

TypeOK ==
    /\ IsInjective(descriptor_list) /\ Open \subseteq Desc
    /\ connected \in [Desc -> Login \cup InGame \cup {"free"}]
    /\ character \in [Desc -> Bodies \cup Mobs \cup {NULL}]
    /\ original \in [Desc -> Bodies \cup {NULL}]
    /\ desc \in [Bodies \cup Mobs -> Desc \cup {NULL}]
    /\ name \in [Bodies -> Names \cup {NULL}]
    /\ char_list \subseteq Bodies \cup Mobs
    /\ switched \subseteq Bodies /\ blank \subseteq Bodies
    /\ pfiles \subseteq Names /\ flagged \subseteq pfiles
    /\ at \in {"poll", "input", "output"}
    /\ d_next \in Desc \cup {NULL}
    /\ unserved \subseteq Desc

Init ==
    /\ descriptor_list = << >>
    /\ connected = [d \in Desc |-> "free"]
    /\ character = [d \in Desc |-> NULL] /\ original = [d \in Desc |-> NULL]
    /\ desc = [c \in Bodies \cup Mobs |-> NULL]
    /\ name = [c \in Bodies |-> NULL]
    /\ char_list = Mobs
    /\ switched = {} /\ blank = {}
    /\ pfiles = Immortals /\ flagged = {}
    /\ at = "poll" /\ d_next = NULL /\ unserved = {}

-----------------------------------------------------------------------------
Place(d) == CHOOSE i \in DOMAIN descriptor_list : descriptor_list[i] = d

After(d) == IF Place(d) = Len(descriptor_list) THEN NULL
            ELSE descriptor_list[Place(d) + 1]

(* descriptor_list once d has been unlinked.                                *)
Without(d) == IF d \in Open THEN RemoveAt(descriptor_list, Place(d))
              ELSE descriptor_list

(* The game loop turns to d, and saves its successor.                      *)
Reached(d) == at \in {"input", "output"} /\ d_next = d /\ d # NULL

SlipSkips(d, closed) ==              \* d_next is moved on whoever is closed
    d_next' = IF closed = NULL \/ After(d) = NULL THEN After(d) ELSE After(After(d))

(* What d_next is when d has been served and closed has been closed: if it *)
(* was the saved one, close_socket has moved d_next on.                    *)
Onward(d, closed) ==
    d_next' = IF After(d) # NULL /\ After(d) = closed THEN After(closed) ELSE After(d)

GoOn(d, closed) ==
    /\ Onward(d, closed)
    /\ unserved' = unserved \ {d, closed}
    /\ UNCHANGED at

(* A step for d that closes no connection.                                 *)
Served(d) == Reached(d) /\ GoOn(d, NULL) /\ UNCHANGED descriptor_list

Input(d) == Served(d) /\ at = "input"

-----------------------------------------------------------------------------
SlipStaysListed(d) ==                \* not taken out of descriptor_list
    /\ connected' = [connected EXCEPT ![d] = "free"]
    /\ character' = [character EXCEPT ![d] = NULL]
    /\ original' = [original EXCEPT ![d] = NULL]
    /\ desc' = [c \in DOMAIN desc |-> IF c = character[d] THEN NULL ELSE desc[c]]
    /\ name' = [c \in Bodies |-> IF c = character[d] /\ connected[d] \in Login
                                 THEN NULL ELSE name[c]]
    /\ switched' = switched \ {original[d]}
    /\ blank' = blank \ {character[d]}
    /\ UNCHANGED <<descriptor_list, char_list>>

SlipKeepsDesc(d) ==                  \* the body left behind still points to d
    /\ descriptor_list' = Without(d)
    /\ connected' = [connected EXCEPT ![d] = "free"]
    /\ character' = [character EXCEPT ![d] = NULL]
    /\ original' = [original EXCEPT ![d] = NULL]
    /\ name' = [c \in Bodies |-> IF c = character[d] /\ connected[d] \in Login
                                 THEN NULL ELSE name[c]]
    /\ switched' = switched \ {original[d]}
    /\ blank' = blank \ {character[d]}
    /\ UNCHANGED <<desc, char_list>>

(* close_socket(d): a switched immortal returns to the body it came from;  *)
(* a body in the game is left behind link-dead, any other is freed.        *)
CloseSocket(d) ==
    /\ descriptor_list' = Without(d)
    /\ connected' = [connected EXCEPT ![d] = "free"]
    /\ character' = [character EXCEPT ![d] = NULL]
    /\ original' = [original EXCEPT ![d] = NULL]
    /\ desc' = [c \in DOMAIN desc |-> IF c = character[d] THEN NULL ELSE desc[c]]
    /\ name' = [c \in Bodies |-> IF c = character[d] /\ connected[d] \in Login
                                 THEN NULL ELSE name[c]]
    /\ switched' = switched \ {original[d]}
    /\ blank' = blank \ {character[d]}
    /\ UNCHANGED char_list

(* do_autosave(c): nothing is written for a mobile, or for a body that is  *)
(* still logging in or in an editor; for a new player only once it has got *)
(* somewhere.                                                              *)
Autosave(c) ==
    IF c \notin Bodies \/ (desc[c] # NULL /\ connected[desc[c]] # "playing")
    THEN UNCHANGED files
    ELSE \/ /\ pfiles' = pfiles \cup {name[c]}
            /\ flagged' = IF c \in switched THEN flagged \cup {name[c]}
                          ELSE flagged \ {name[c]}
         \/ name[c] \notin pfiles /\ UNCHANGED files

-----------------------------------------------------------------------------
(* new_descriptor.                                                         *)
NewDescriptor(d) ==
    /\ at = "poll"
    /\ connected[d] = "free"
    /\ connected' = [connected EXCEPT ![d] = "get_name"]
    /\ descriptor_list' = <<d>> \o descriptor_list
    /\ UNCHANGED <<links, name, char_list, switched, blank, files, loop>>

(* A walk over the descriptors begins, and ends.                            *)
Walk ==
    /\ \/ at = "poll" /\ at' = "input"
       \/ at = "input" /\ d_next = NULL /\ at' = "output"
    /\ d_next' = IF descriptor_list = << >> THEN NULL ELSE descriptor_list[1]
    /\ unserved' = Open
    /\ UNCHANGED <<world, files>>

EndWalk ==
    /\ at = "output" /\ d_next = NULL
    /\ at' = "poll"
    /\ unserved' = {}
    /\ UNCHANGED <<world, files, d_next>>

(* Nothing to read, nothing to write, or a line that changes nothing here. *)
Nothing(d) == Served(d) /\ UNCHANGED <<world, files>>

(* The connection is found broken by select, read or write; what it was    *)
(* playing, or logging in with, is saved first.                            *)
LinkLost(d) ==
    /\ Reached(d)
    /\ IF character[d] = NULL THEN UNCHANGED files ELSE Autosave(character[d])
    /\ CloseSocket(d)
    /\ GoOn(d, d)

(* nanny closes the connection: wrong password, denied, too young, too     *)
(* many players, wizlock.                                                  *)
TurnedAway(d) ==
    /\ at = "input" /\ Reached(d)
    /\ connected[d] \in {"get_name", "old_password"}
    /\ CloseSocket(d)
    /\ GoOn(d, d)
    /\ UNCHANGED files

(* check_reconnect's candidates for the name n.                             *)
Playing(n) == {c \in char_list \cap Bodies : name[c] = n /\ c \notin switched}
LinkDead(n) == {c \in Playing(n) : desc[c] = NULL}

(* nanny, CON_GET_NAME: load_char_short makes a body for the name, with no *)
(* flags yet; an old player, or one whose body is in the game, is asked    *)
(* for the password.                                                       *)
GetName(d, n) ==
    /\ Input(d)
    /\ connected[d] = "get_name"
    /\ Playing(n) = {} /\ n \notin pfiles =>
           \A e \in Open : character[e] \in Bodies => name[character[e]] # n
    /\ \E c \in Bodies :
           /\ name[c] = NULL
           /\ name' = [name EXCEPT ![c] = n]
           /\ desc' = [desc EXCEPT ![c] = d]
           /\ character' = [character EXCEPT ![d] = c]
           /\ switched' = switched \ {c}
           /\ blank' = IF n \in pfiles THEN blank ELSE blank \cup {c}
    /\ connected' = [connected EXCEPT ![d] =
           IF Playing(n) = {} /\ n \notin pfiles THEN "new" ELSE "old_password"]
    /\ UNCHANGED <<original, char_list, files>>

(* The password is right, and check_reconnect finds the body link-dead:    *)
(* the body made for the dialogue is freed.                                *)
Reconnect(d) ==
    /\ Input(d)
    /\ connected[d] = "old_password"
    /\ \E c \in LinkDead(name[character[d]]) :
           /\ character' = [character EXCEPT ![d] = c]
           /\ desc' = [desc EXCEPT ![character[d]] = NULL, ![c] = d]
    /\ name' = [name EXCEPT ![character[d]] = NULL]
    /\ connected' = [connected EXCEPT ![d] = "playing"]
    /\ blank' = blank \ {character[d]}
    /\ UNCHANGED <<original, char_list, switched, files>>

(* check_playing's test of the connection e; a connection whose body d     *)
(* would take has got past the password.                                   *)
InUseBy(e, d) ==
    /\ e # d /\ character[e] # NULL
    /\ connected[e] \notin {"get_name", "old_password"}
    /\ LET who == IF original[e] # NULL THEN original[e] ELSE character[e]
       IN  who \in Bodies /\ name[who] = name[character[d]]

InUse(d) == {e \in Open : InUseBy(e, d)}

(* check_playing finds the body in use: d takes over what the first such   *)
(* connection plays, in the state it is in, and that connection is closed. *)
TakeOver(d) ==
    /\ at = "input" /\ Reached(d)
    /\ connected[d] = "old_password"
    /\ LinkDead(name[character[d]]) = {}
    /\ \E e \in InUse(d) :
        /\ \A i, j \in DOMAIN descriptor_list :
               descriptor_list[j] = e /\ descriptor_list[i] \in InUse(d) => j <= i
        /\ connected' = [connected EXCEPT ![d] = connected[e], ![e] = "free"]
        /\ character' = [character EXCEPT ![d] = character[e], ![e] = NULL]
        /\ original' = [original EXCEPT ![e] = NULL]
        /\ desc' = [desc EXCEPT ![character[d]] = NULL, ![character[e]] = d]
        /\ descriptor_list' = Without(e)
        /\ GoOn(d, e)
    /\ name' = [name EXCEPT ![character[d]] = NULL]
    /\ blank' = blank \ {character[d]}
    /\ UNCHANGED <<char_list, switched, files>>

(* Nobody has the body: it is loaded in full (load_char_obj), flags and    *)
(* all, into the structure that has just been freed for it; but a body of  *)
(* level 0 or 1 goes on as it is.                                          *)
PasswordOk(d) ==
    /\ Input(d)
    /\ connected[d] = "old_password"
    /\ LinkDead(name[character[d]]) = {} /\ InUse(d) = {}
    /\ connected' = [connected EXCEPT ![d] = "motd"]
    /\ switched' = IF name[character[d]] \in flagged /\ character[d] \notin blank
                   THEN switched \cup {character[d]} ELSE switched
    /\ UNCHANGED <<links, name, char_list, blank, files>>

(* nanny, CON_CONFIRM_NEW_NAME to CON_GET_NEW_SEX.                          *)
NewPlayer(d) ==
    /\ Input(d)
    /\ connected[d] = "new"
    /\ \/ /\ connected' = [connected EXCEPT ![d] = "motd"]
          /\ UNCHANGED <<name, links, blank>>
       \/ /\ connected' = [connected EXCEPT ![d] = "get_name"]
          /\ name' = [name EXCEPT ![character[d]] = NULL]
          /\ desc' = [desc EXCEPT ![character[d]] = NULL]
          /\ character' = [character EXCEPT ![d] = NULL]
          /\ blank' = blank \ {character[d]}
          /\ UNCHANGED original
    /\ UNCHANGED <<char_list, switched, files>>

(* nanny, CON_READ_MOTD: the body enters the game.                          *)
ReadMotd(d) ==
    /\ Input(d)
    /\ connected[d] = "motd"
    /\ connected' = [connected EXCEPT ![d] = "playing"]
    /\ char_list' = char_list \cup {character[d]}
    /\ blank' = blank \ {character[d]}
    /\ UNCHANGED <<links, name, switched, files>>

-----------------------------------------------------------------------------
(* The online editors are entered by a command and left by "done".         *)
Edit(d) ==
    /\ Input(d)
    /\ connected[d] \in InGame /\ character[d] \in Bodies
    /\ connected' = [connected EXCEPT ![d] = IF @ = "playing" THEN "editor" ELSE "playing"]
    /\ UNCHANGED <<links, name, char_list, switched, blank, files>>

(* do_switch: the descriptor leaves its body for a mobile's.               *)
Switch(d, m) ==
    /\ Input(d)
    /\ connected[d] = "playing"
    /\ character[d] \in Bodies /\ name[character[d]] \in Immortals
    /\ original[d] = NULL
    /\ m \in char_list /\ desc[m] = NULL
    /\ switched' = switched \cup {character[d]}
    /\ character' = [character EXCEPT ![d] = m]
    /\ original' = [original EXCEPT ![d] = character[d]]
    /\ desc' = [desc EXCEPT ![m] = d, ![character[d]] = NULL]
    /\ UNCHANGED <<connected, name, char_list, blank, files>>

(* do_return, for the body c; nothing without a body to return to.          *)
Returned(c) ==
    LET d == desc[c]
    IN  /\ switched' = switched \ {original[d]}
        /\ character' = [character EXCEPT ![d] = original[d]]
        /\ desc' = [desc EXCEPT ![original[d]] = d, ![c] = NULL]
        /\ original' = [original EXCEPT ![d] = NULL]

Return(d) ==
    /\ Input(d)
    /\ connected[d] = "playing" /\ original[d] # NULL
    /\ Returned(character[d])
    /\ UNCHANGED <<connected, name, char_list, blank, files>>


(* extract_char of a mobile: an immortal switched into it returns first; a *)
(* connection that has no body to return to is left without one.           *)
ExtractMob(m) ==
    /\ char_list' = char_list \ {m}
    /\ IF desc[m] = NULL THEN UNCHANGED <<links, switched>>
       ELSE IF original[desc[m]] # NULL THEN Returned(m)
       ELSE /\ character' = [character EXCEPT ![desc[m]] = NULL]
            /\ desc' = [desc EXCEPT ![m] = NULL]
            /\ UNCHANGED <<original, switched>>
    /\ UNCHANGED <<connected, name, blank>>

(* do_quit by a connection in a mobile's body.                              *)
QuitAsMob(d) ==
    /\ Input(d)
    /\ connected[d] = "playing" /\ character[d] \in Mobs
    /\ ExtractMob(character[d])
    /\ UNCHANGED files

(* A mobile dies, or a new one is made.                                     *)
MobDies(m) ==
    /\ at = "poll" /\ m \in Mobs \cap char_list
    /\ ExtractMob(m)
    /\ UNCHANGED <<descriptor_list, files, loop>>

MobAppears(m) ==
    /\ at = "poll" /\ m \in Mobs \ char_list
    /\ char_list' = char_list \cup {m}
    /\ UNCHANGED <<descriptor_list, connected, links, name, switched, blank, files, loop>>

(* do_quit of the player's body c: saved, its connection closed             *)
(* (close_socket2), extracted and freed.                                    *)
QuitGame(c) ==
    LET d == desc[c]
    IN  /\ Autosave(c)
        /\ descriptor_list' = Without(d)
        /\ connected' = [e \in Desc |-> IF e = d THEN "free" ELSE connected[e]]
        /\ character' = [e \in Desc |-> IF e = d THEN NULL ELSE character[e]]
        /\ desc' = [desc EXCEPT ![c] = NULL]
        /\ name' = [name EXCEPT ![c] = NULL]
        /\ char_list' = char_list \ {c}
        /\ switched' = switched \ {c}
        /\ UNCHANGED <<original, blank>>

Quit(d) ==
    /\ at = "input" /\ Reached(d)
    /\ connected[d] = "playing" /\ character[d] \in Bodies
    /\ QuitGame(character[d])
    /\ GoOn(d, d)

(* char_update sends do_quit for whoever has been idle too long, with a     *)
(* connection or without.                                                   *)
IdleQuit(c) ==
    /\ at = "poll" /\ c \in Bodies \cap char_list
    /\ name[c] \notin Immortals
    /\ QuitGame(c)
    /\ UNCHANGED loop

(* do_disconnect by an immortal.                                            *)
Disconnect(d, e) ==
    /\ at = "input" /\ Reached(d) /\ e # d
    /\ connected[d] = "playing" /\ character[d] \in Bodies
    /\ name[character[d]] \in Immortals
    /\ e \in Open /\ character[e] # NULL /\ character[e] \in char_list
    /\ CloseSocket(e)
    /\ GoOn(d, e)
    /\ UNCHANGED files

(* do_autosave at a tick, and do_save.                                      *)
Save(c) ==
    /\ at = "poll" /\ c \in Bodies \cap char_list
    /\ Autosave(c)
    /\ UNCHANGED <<world, loop>>

(* The server goes down, by the countdown or by a signal it handles: it     *)
(* saves all players that are worth it, and comes up with nothing else.     *)
Reboot ==
    LET saved(n) == {c \in Bodies \cap char_list : name[c] = n}
    IN  /\ \E f \in SUBSET pfiles :
               /\ \A n \in pfiles : IF saved(n) = {} THEN n \in f <=> n \in flagged
                                    ELSE \E c \in saved(n) : n \in f <=> c \in switched
               /\ flagged' = f
        /\ descriptor_list' = << >>
        /\ connected' = [d \in Desc |-> "free"]
        /\ character' = [d \in Desc |-> NULL] /\ original' = [d \in Desc |-> NULL]
        /\ desc' = [c \in Bodies \cup Mobs |-> NULL]
        /\ name' = [c \in Bodies |-> NULL]
        /\ char_list' = Mobs
        /\ switched' = {} /\ blank' = {}
        /\ at' = "poll" /\ d_next' = NULL /\ unserved' = {}
        /\ UNCHANGED pfiles

-----------------------------------------------------------------------------
Next ==
    \/ \E d \in Desc :
           \/ NewDescriptor(d) \/ Nothing(d) \/ LinkLost(d) \/ TurnedAway(d)
           \/ \E n \in Names : GetName(d, n)
           \/ Reconnect(d) \/ TakeOver(d) \/ PasswordOk(d) \/ NewPlayer(d) \/ ReadMotd(d)
           \/ Edit(d) \/ Return(d) \/ QuitAsMob(d) \/ Quit(d)
           \/ \E m \in Mobs : Switch(d, m)
           \/ \E e \in Desc : Disconnect(d, e)
    \/ \E m \in Mobs : MobDies(m) \/ MobAppears(m)
    \/ \E c \in Bodies : IdleQuit(c) \/ Save(c)
    \/ Walk \/ EndWalk \/ Reboot

Spec == Init /\ [][Next]_vars

-----------------------------------------------------------------------------
(* The game loop never turns to a descriptor that has been closed, though  *)
(* serving one may close the one it has saved (check_playing, do_quit,     *)
(* do_disconnect): close_socket moves d_next on.                           *)
WalkSafe == d_next # NULL => d_next \in Open

(* Nor does it ever leave one out: when a walk ends, every descriptor that *)
(* was open when it began, and still is, has been served.                  *)
EveryoneServed == at # "poll" /\ d_next = NULL => unserved = {}

(* Serving a descriptor may open and close others; the walk of the game    *)
(* loop visits each one that is open, and no other.                        *)
WalkComplete == WalkSafe /\ EveryoneServed

(* Descriptors and bodies point to each other, whoever has been taken over,*)
(* switched, reconnected or closed: write_to_buffer never gets a           *)
(* descriptor that belongs to somebody else or to nobody.                  *)
DescAgrees ==
    /\ \A d \in Desc : character[d] # NULL => desc[character[d]] = d
    /\ \A c \in DOMAIN desc : desc[c] # NULL =>
           desc[c] \in Open /\ character[desc[c]] = c

(* Every player's body is either in the game, reachable from char_list, or *)
(* belongs to exactly one connection that is still logging in, so that     *)
(* close_socket may free it there and must not free it here; and whoever   *)
(* is switched has a body in the game to return to.                        *)
BodiesAccounted ==
    /\ \A c \in Bodies : name[c] # NULL =>
           c \in char_list <=>
               ~\E d \in Open : connected[d] \in Login /\ character[d] = c
    /\ \A d \in Open : connected[d] \in InGame /\ character[d] # NULL =>
           character[d] \in char_list
    /\ \A d \in Open : original[d] # NULL =>
           original[d] \in char_list \cap switched
    /\ \A c \in Bodies : name[c] = NULL => c \notin char_list /\ desc[c] = NULL

(* Connections, bodies and the game's list of characters agree about who   *)
(* is where, after any sequence of logins, takeovers, switches and losses. *)
LinksAgree == DescAgrees /\ BodiesAccounted

(* "Avoid nasty duplication bug": nobody is in the game twice.              *)
OneBody ==
    \A b, c \in Bodies \cap char_list : name[b] = name[c] => b = c
=============================================================================
