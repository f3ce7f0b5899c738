----------------------------- MODULE PlayerInfo -----------------------------
(***************************************************************************)
(* What the packet handlers do to one player                               *)
(* (cheshire-server-core/src/game/player_info.rs and handle_player_packet  *)
(* with its helpers in game/mod.rs), as seen by the one client that plays  *)
(* it.  PlayerRuntime treats a PlayerInfo as an opaque set of changes;     *)
(* here it has the contents the chat commands, the dock and the skins are  *)
(* about, and the runtime's lock, load and save are one step each.         *)
(*                                                                         *)
(* The game tables are constants.  Every ship of a player comes from the   *)
(* table, and the order of the table's hash maps is arbitrary.             *)
(***************************************************************************)
EXTENDS Naturals, FiniteSets, SequencesExt

CONSTANTS
    Template,   \* ids in ship_data_template
    Complete,   \* those whose statistics and skin rows exist as well
    Maxed,      \* those with star = star_max >= 5
    Starter,    \* the first ships a client may ask for, in the tables or not
    Second,     \* template 106011, which every new player gets as well
    Skin,       \* ids in ship_skin_template
    Group,      \* Group[x]: the ship group of a template or a skin
    Room,       \* chat rooms a client asks for; 0 stands for the default
    Chunk,      \* ships in one packet: 100
    MaxStories, \* bound: stories a client reports
    MaxCharacter    \* bound: secretaries picked at a time

ASSUME TablesAssumption ==
    /\ IsFiniteSet(Template)
    /\ Complete \subseteq Template /\ Maxed \subseteq Template
    /\ Second \in Complete
    /\ Chunk \in Nat \ {0}
    /\ 0 \notin Skin
    /\ MaxStories \in Nat /\ MaxCharacter \in Nat

NoSkin == 0     \* a ship in its own skin

VARIABLES
    player,     \* the cached PlayerInfo
    row,        \* the PlayerInfo in the players table
    session,    \* where the client is: "offline", "new", "loading", "playing"
    view,       \* what the client shows
    lost,       \* history: the last save failed
    granted,    \* history: the ship command was given
    skinned     \* history: the skin command was given after the last new ship

vars == <<player, row, session, view, lost, granted, skinned>>

\* PlayerInfo::default.  skins counts the entries of each skin in ship_skins,
\* resources those of each kind in resource_list.
DefaultPlayer ==
    [uid |-> 0, ships |-> <<>>, skins |-> [s \in Skin |-> 0], character |-> {},
     room |-> 0, stories |-> 0, resources |-> 0]

\* A player saved by a version that unlocked skins twice.
OldPlayer ==
    [DefaultPlayer EXCEPT !.uid = 1, !.room = 1, !.resources = 1, !.character = {1},
        !.ships = <<[id |-> 1, template |-> Second, skin |-> NoSkin]>>,
        !.skins = [s \in Skin |-> IF Group[s] = Group[Second] THEN 2 ELSE 0]]

NoView == [dock |-> <<>>, skins |-> {}, character |-> {}, room |-> 0]

Init ==
    /\ row \in {DefaultPlayer, OldPlayer}
    /\ player = row
    /\ session = "offline"
    /\ view = NoView
    /\ lost = FALSE /\ granted = FALSE /\ skinned = FALSE

Ids(ships) == {ships[i].id : i \in DOMAIN ships}
Owned(ships) == {ships[i].template : i \in DOMAIN ships}

-----------------------------------------------------------------------------
(* The methods of PlayerInfo *)

\* Mutant of AddShip: the tables are not looked at.
AddShipUnchecked(ships, template) ==
    Append(ships, [id |-> Max(Ids(ships) \cup {0}) + 1,
                   template |-> template, skin |-> NoSkin])

\* add_ship: nothing when the template is missing from any of the tables.
AddShip(ships, template) ==
    IF template \notin Complete THEN ships
    ELSE Append(ships, [id |-> Max(Ids(ships) \cup {0}) + 1,
                        template |-> template, skin |-> NoSkin])

\* The rounds of the loop over the table, in one order of it.
AddShips(ships, order) ==
    LET after[k \in 0..Len(order)] ==
            IF k = 0 THEN ships ELSE AddShip(after[k - 1], order[k])
    IN  after[Len(order)]

\* Mutant of GiveAllShips: ships the player has are given again.
GiveShipsAgain(ships) == {AddShips(ships, order) : order \in SetToSeqs(Maxed)}

\* give_all_ships, for every order of the table.
GiveAllShips(ships) ==
    {AddShips(ships, order) : order \in SetToSeqs(Maxed \ Owned(ships))}

\* Mutant of GiveAllSkins: duplicates are left in the list.
GiveMissingSkins(skins, ships) ==
    [s \in Skin |->
        IF skins[s] = 0 /\ \E t \in Owned(ships) : Group[t] = Group[s] THEN 1 ELSE skins[s]]

\* give_all_skins: add_ship_skin for each ship first drops the duplicates and
\* then adds the skins of the ship's group.
GiveAllSkins(skins, ships) ==
    [s \in Skin |->
        CASE ships = <<>> -> skins[s]
          [] ships # <<>> ->
               IF skins[s] > 0 \/ \E t \in Owned(ships) : Group[t] = Group[s] THEN 1 ELSE 0]

\* Mutant of InitPlayer: map_or(0, ...) for the secretary.
InitWithoutSecretary(p, starter) ==
    LET first == AddShip(p.ships, starter)
    IN [p EXCEPT !.uid = 1, !.room = 1, !.stories = 0,
            !.ships = AddShip(first, Second),
            !.character = {IF first = <<>> THEN 0 ELSE Last(first).id},
            !.resources = @ + 1]

\* init: the ships and resources are added to those that are there; the
\* secretary is the last ship once the first was added, or number 1.
InitPlayer(p, starter) ==
    LET first == AddShip(p.ships, starter)
    IN [p EXCEPT !.uid = 1, !.room = 1, !.stories = 0,
            !.ships = AddShip(first, Second),
            !.character = {IF first = <<>> THEN 1 ELSE Last(first).id},
            !.resources = @ + 1]

\* Mutant of Packets: a last packet that is not full is forgotten.
FullPackets(ships) ==
    [k \in 1..(Len(ships) \div Chunk) |-> SubSeq(ships, (k - 1) * Chunk + 1, k * Chunk)]

\* notify_player_ships_data: one packet even for no ships, more if needed.
Packets(ships) ==
    LET count == Max({1, (Len(ships) + Chunk - 1) \div Chunk})
    IN [k \in 1..count |->
            SubSeq(ships, (k - 1) * Chunk + 1, Min({k * Chunk, Len(ships)}))]

-----------------------------------------------------------------------------
(* The client: it keeps the ships of the packets by their id *)

\* A ship that arrives replaces the one with the same id.
Dock(packets) ==
    [id \in UNION {Ids(packets[k]) : k \in DOMAIN packets} |->
        LET k == Max({j \in DOMAIN packets : id \in Ids(packets[j])})
            i == Max({j \in DOMAIN packets[k] : packets[k][j].id = id})
        IN  [template |-> packets[k][i].template, skin |-> packets[k][i].skin]]

ShownSkins(skins) == {s \in Skin : skins[s] > 0}

-----------------------------------------------------------------------------
(* handle_packet around every handler: a dirty player is saved; after a save *)
(* that fails, or when the answer does not arrive, the connection is over.   *)

Finish(new, dirty, next, shown) ==
    /\ player' = new
    /\ \/ /\ row' = IF dirty THEN new ELSE row
          /\ lost' = (lost /\ ~dirty)
          /\ \/ session' = next /\ view' = shown
             \/ session' = "offline" /\ view' = NoView
       \/ /\ dirty
          /\ lost' = TRUE
          /\ session' = "offline" /\ view' = NoView
          /\ UNCHANGED row

\* Mutant of Login: the uid is taken from the row.
LoginFromRow ==
    /\ session = "offline"
    /\ Finish(player, FALSE, IF row.uid = 0 THEN "new" ELSE "loading", NoView)
    /\ UNCHANGED <<granted, skinned>>

\* Cs10022: the answer carries the player's uid, by which the client knows
\* whether it has to create the player.
Login ==
    /\ session = "offline"
    /\ Finish(player, FALSE, IF player.uid = 0 THEN "new" ELSE "loading", NoView)
    /\ UNCHANGED <<granted, skinned>>

\* Cs10024
Create(starter) ==
    /\ session = "new"
    /\ Finish(InitPlayer(player, starter), TRUE, "loading", NoView)
    /\ granted' = FALSE /\ skinned' = FALSE

\* Cs11001, load_player_data
Load ==
    /\ session = "loading"
    /\ Finish(player, FALSE, "playing",
          [dock |-> Dock(Packets(player.ships)), skins |-> ShownSkins(player.skins),
           character |-> player.character, room |-> player.room])
    /\ UNCHANGED <<granted, skinned>>

\* Cs50102 with "ship": the ships are sent again.
ChatShip ==
    /\ session = "playing"
    /\ \E ships \in GiveAllShips(player.ships) :
          /\ Finish([player EXCEPT !.ships = ships], TRUE, "playing",
                [view EXCEPT !.dock = Dock(Packets(ships))])
          /\ skinned' = (skinned /\ ships = player.ships)
    /\ granted' = TRUE

\* Cs50102 with "skin".  Any other text only gets an answer.
ChatSkin ==
    LET skins == GiveAllSkins(player.skins, player.ships)
    IN /\ session = "playing"
       /\ Finish([player EXCEPT !.skins = skins], TRUE, "playing",
             [view EXCEPT !.skins = ShownSkins(skins)])
       /\ skinned' = TRUE
       /\ UNCHANGED granted

\* Cs12202: the client changes what it shows when it gets the answer, which
\* does not say whether a ship was found.
ChangeSkin(id, skin) ==
    /\ session = "playing"
    /\ id \in DOMAIN view.dock
    /\ skin \in view.skins \cup {NoSkin}
    /\ skin # NoSkin => Group[skin] = Group[view.dock[id].template]
    /\ LET found == {i \in DOMAIN player.ships : player.ships[i].id = id}
           ships == IF found = {} THEN player.ships
                    ELSE [player.ships EXCEPT ![Min(found)].skin = skin]
       IN Finish([player EXCEPT !.ships = ships], TRUE, "playing",
             [view EXCEPT !.dock[id].skin = skin])
    /\ UNCHANGED <<granted, skinned>>

\* Cs11011: the client picks its secretaries from the ships it shows.
SetCharacter(ids) ==
    /\ session = "playing"
    /\ ids \subseteq DOMAIN view.dock /\ Cardinality(ids) \in 1..MaxCharacter
    /\ Finish([player EXCEPT !.character = ids], TRUE, "playing",
          [view EXCEPT !.character = ids])
    /\ UNCHANGED <<granted, skinned>>

\* Mutant of EnterRoom: the rooms are compared after the assignment.
EnterRoomUnsaved(asked) ==
    LET room == IF asked = 0 THEN 1 ELSE asked
    IN /\ session = "playing"
       /\ Finish([player EXCEPT !.room = room], FALSE, "playing",
             [view EXCEPT !.room = room])
       /\ UNCHANGED <<granted, skinned>>

\* Cs11401: only a change is saved; the answer says which room it is.
EnterRoom(asked) ==
    LET room == IF asked = 0 THEN 1 ELSE asked
    IN /\ session = "playing"
       /\ Finish([player EXCEPT !.room = room], player.room # room, "playing",
             [view EXCEPT !.room = room])
       /\ UNCHANGED <<granted, skinned>>

\* Cs11017
PushStory ==
    /\ session = "playing"
    /\ player.stories < MaxStories
    /\ Finish([player EXCEPT !.stories = @ + 1], TRUE, "playing", view)
    /\ UNCHANGED <<granted, skinned>>

\* The server is started again and loads the player from the row.
Restart ==
    /\ player' = row
    /\ session' = "offline" /\ view' = NoView
    /\ lost' = FALSE /\ granted' = FALSE /\ skinned' = FALSE
    /\ UNCHANGED row

Next ==
    \/ Login \/ Load \/ ChatShip \/ ChatSkin \/ PushStory \/ Restart
    \/ \E starter \in Starter : Create(starter)
    \/ \E id \in DOMAIN view.dock, skin \in Skin \cup {NoSkin} : ChangeSkin(id, skin)
    \/ \E ids \in SUBSET DOMAIN view.dock : SetCharacter(ids)
    \/ \E asked \in Room : EnterRoom(asked)

Spec == Init /\ [][Next]_vars

-----------------------------------------------------------------------------
(* Properties *)

Ship == [id : Nat, template : Template, skin : Skin \cup {NoSkin}]

PlayerType(p) ==
    /\ p.uid \in {0, 1}
    /\ p.ships \in Seq(Ship)
    /\ p.skins \in [Skin -> Nat]
    /\ p.character \subseteq Nat
    /\ p.room \in Room \cup {0, 1} /\ p.stories \in 0..MaxStories /\ p.resources \in Nat

TypeOK ==
    /\ PlayerType(player) /\ PlayerType(row)
    /\ session \in {"offline", "new", "loading", "playing"}
    /\ view.skins \subseteq Skin /\ DOMAIN view.dock \subseteq Nat
    /\ {lost, granted, skinned} \subseteq BOOLEAN

\* What the client shows is what the server holds, ship by ship, through any
\* sequence of commands, lost answers and new connections: no ship is left out
\* of the packets, and none hides another one behind the same id.
ViewIsAccount ==
    session = "playing" =>
        /\ Cardinality(DOMAIN view.dock) = Len(player.ships)
        /\ \A i \in DOMAIN player.ships :
              LET s == player.ships[i]
              IN s.id \in DOMAIN view.dock
                    /\ view.dock[s.id] = [template |-> s.template, skin |-> s.skin]
        /\ view.skins = ShownSkins(player.skins)
        /\ view.character = player.character /\ view.room = player.room

\* No handler changes the player without setting `dirty`: unless a save failed,
\* the row is the player.
RowIsAccount == lost \/ row = player

\* A player is created once, however often the answer or the save of the
\* creation gets lost: a second init would double its resources and ships.
CreatedOnce == player.resources = player.uid /\ row.resources = row.uid

\* The secretaries the main screen shows are ships of the player, also when the
\* first ship the client asked for is not in the tables.
SecretaryOwned ==
    player.uid # 0 => player.character # {} /\ player.character \subseteq Ids(player.ships)

\* The ship command given twice adds nothing the second time, whatever came in
\* between, although it meets the table in another order and some templates of
\* the table can never be added.
ShipsGrantedOnce ==
    [][granted /\ granted' =>
          /\ Len(player'.ships) = Len(player.ships)
          /\ Owned(player'.ships) = Owned(player.ships)]_vars

\* After the skin command the skins of all ships are unlocked, once each, also
\* for players that had some of them twice, until another ship is added.
SkinsUnlocked ==
    skinned =>
        /\ \A s \in Skin : player.skins[s] <= 1
        /\ \A s \in Skin, t \in Owned(player.ships) :
              Group[s] = Group[t] => player.skins[s] = 1

=============================================================================
