---------------------------- MODULE MCEquipment ----------------------------
EXTENDS Equipment, FiniteSets

CONSTANTS pat, mel, o1, o2, o3

Plain == [type |-> "armor", fits |-> <<"finger">>, affects |-> <<>>, heft |-> 1, ac |-> 0,
          flies |-> FALSE, noremove |-> FALSE, anti |-> FALSE]
Sword == [Plain EXCEPT !.type = "weapon", !.fits = <<"wield", "hold">>, !.heft = 3]
Lamp == [Plain EXCEPT !.type = "light", !.fits = <<"wield", "hold">>]

\* A sword that strengthens and weakens whom it lets fly; one that takes
\* a girdle to lift; a girdle of strength; a shield
\* that weakens; a ring that cannot be taken off.
Fickle == [Sword EXCEPT !.affects = <<-1, 1>>, !.flies = TRUE]
Heavy == [Sword EXCEPT !.affects = <<-1>>]
Girdle == [Plain EXCEPT !.fits = <<"body">>, !.affects = <<1>>, !.ac = 1, !.anti = TRUE]
Shield == [Plain EXCEPT !.fits = <<"wield", "hold">>, !.affects = <<-1>>, !.ac = 1]
Cursed == [Plain EXCEPT !.affects = <<-1>>, !.noremove = TRUE]
Wings == [Plain EXCEPT !.ac = 1, !.flies = TRUE]
Belt == [Plain EXCEPT !.fits = <<"body">>, !.affects = <<1, -1>>]
Brand == [Lamp EXCEPT !.affects = <<1>>]

Of(a, b, c) == (o1 :> a) @@ (o2 :> b) @@ (o3 :> c)
MCScenes == {
  [kit |-> Of(Sword, Belt, Shield), players |-> {pat}, magic |-> {"strength", "poison"}, files |-> FALSE],
  [kit |-> Of(Fickle, Girdle, Cursed), players |-> {pat}, magic |-> {"strength", "fly"}, files |-> FALSE],
  [kit |-> Of(Fickle, Wings, Wings), players |-> {pat}, magic |-> {"fly"}, files |-> FALSE],
  [kit |-> Of(Lamp, Brand, Sword), players |-> {pat}, magic |-> {}, files |-> FALSE],
  [kit |-> (o1 :> Lamp) @@ (o2 :> Brand), players |-> {pat, mel}, magic |-> {}, files |-> FALSE],
  [kit |-> (o1 :> Heavy) @@ (o2 :> Girdle), players |-> {pat}, magic |-> {"enchant"}, files |-> TRUE],
  [kit |-> (o1 :> Lamp) @@ (o2 :> Brand), players |-> {pat}, magic |-> {}, files |-> TRUE],
  [kit |-> (o1 :> Fickle) @@ (o2 :> Wings), players |-> {pat}, magic |-> {}, files |-> TRUE] }

\* Where a walk has gone astray the behaviour is not followed further, nor where lamps
\* carried in pairs have made the count of lights wrong by more than one, nor where a
\* second enchantment has been lost.
OnCourse == /\ ~Astray
            /\ \A r \in Rooms : w.light[r] \in -1..2
            /\ \A c \in Chars : w.surplus[c] <= 1 /\ w.file[c].surplus <= 1
=============================================================================
