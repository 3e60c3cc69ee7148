---------------------------- MODULE MatchSettings ----------------------------
(***************************************************************************)
(* The settings of a match: its mods and those of the slots, its map, the  *)
(* map pool and the bans, as the host's packets and the commands of the    *)
(* referees change them.  A player stands for its slot.                    *)
(*                                                                         *)
(* Packets and commands that look for a map or a pick await the database   *)
(* half-way, and go on with the match as it is by then.                    *)
(***************************************************************************)
EXTENDS FiniteSets, NoneValue

CONSTANTS MatchPlayers,
          Mods, SpeedMods,  \* SPEED_CHANGING_MODS belong to the match
          Maps, Pools,
          PickOf,           \* the mods a map of a pool is picked with
          Jobs              \* packets and commands handled at once

ASSUME SettingsAssumption == SpeedMods \subseteq Mods /\ PickOf \in [Maps -> SUBSET Mods]

VARIABLES
    seated,    \* the players in the slots
    host,
    freemods, mods,
    asMade,    \* history: the mods are those of the packet that made the match
    slotMods,  \* Slot.mods of a player's slot
    map,       \* Match.map_id; None for -1, while the host is choosing
    pool,      \* Match.tourney_pool
    bans,      \* Match.bans, by map
    jobs       \* what awaits the database

settingsVars == <<seated, host, freemods, mods, asMade, slotMods, map, pool, bans, jobs>>

NoJob == [at |-> "idle"]
Speed(m) == m \cap SpeedMods
NoSpeed(m) == m \ SpeedMods
OfAllSlots(m) == [p \in MatchPlayers |-> IF p \in seated THEN m ELSE slotMods[p]]

\* MatchCreate: free mods and mods are taken from the packet as they are.
SettingsInit ==
    /\ host \in MatchPlayers /\ seated = {host}
    /\ freemods \in BOOLEAN /\ mods \in SUBSET Mods /\ asMade = TRUE
    /\ slotMods = [p \in MatchPlayers |-> {}]
    /\ map \in Maps \cup {None}
    /\ pool = None /\ bans = {}
    /\ jobs = [k \in Jobs |-> NoJob]

-----------------------------------------------------------------------------
(* Who is there *)

JoinMatch(p) ==
    /\ p \notin seated
    /\ seated' = seated \cup {p}
    /\ UNCHANGED <<host, freemods, mods, asMade, slotMods, map, pool, bans, jobs>>

\* Mutant: the host who leaves stays the host.
LeaveKeepsHost(p) ==
    /\ p \in seated /\ seated # {p}
    /\ seated' = seated \ {p}
    /\ slotMods' = [slotMods EXCEPT ![p] = {}]
    /\ UNCHANGED <<host, freemods, mods, asMade, map, pool, bans, jobs>>

\* leave_match and Slot.reset; the first of the others is host.
LeaveMatch(p) ==
    /\ p \in seated /\ seated # {p}
    /\ seated' = seated \ {p}
    /\ host' \in IF host = p THEN seated' ELSE {host}
    /\ slotMods' = [slotMods EXCEPT ![p] = {}]
    /\ UNCHANGED <<freemods, mods, asMade, map, pool, bans, jobs>>

TransferHost(p) ==
    /\ p \in seated \ {host}
    /\ host' = p
    /\ UNCHANGED <<seated, freemods, mods, asMade, slotMods, map, pool, bans, jobs>>

-----------------------------------------------------------------------------
(* Mods *)

\* MatchChangeMods, and mp_mods of a referee, which asks for no host.
ChangeMods(p, chosen, byCommand) ==
    /\ p \in seated
    /\ IF freemods
       THEN /\ mods' = IF p = host THEN Speed(chosen) ELSE mods
            /\ asMade' = (asMade /\ p # host)
            /\ slotMods' = [slotMods EXCEPT ![p] = NoSpeed(chosen)]
       ELSE /\ p = host \/ byCommand
            /\ mods' = chosen /\ asMade' = FALSE
            /\ UNCHANGED slotMods
    /\ UNCHANGED <<seated, host, freemods, map, pool, bans, jobs>>

\* The match's mods go to the slots.
SpreadMods ==
    /\ freemods' = TRUE
    /\ slotMods' = OfAllSlots(NoSpeed(mods))
    /\ mods' = Speed(mods) /\ asMade' = FALSE

\* Mutant: the slots keep theirs.
GatherOnly ==
    /\ freemods' = FALSE
    /\ mods' = Speed(mods) \cup slotMods[host] /\ asMade' = FALSE
    /\ UNCHANGED slotMods

\* The host's mods become the match's.
GatherMods ==
    /\ freemods' = FALSE
    /\ mods' = Speed(mods) \cup slotMods[host] /\ asMade' = FALSE
    /\ slotMods' = OfAllSlots({})

\* mp_freemods, even of what is already so.
MpFreemods(on) ==
    /\ IF on THEN SpreadMods ELSE GatherMods
    /\ UNCHANGED <<seated, host, map, pool, bans, jobs>>

-----------------------------------------------------------------------------
(* Maps *)

Start(k, job) == jobs[k] = NoJob /\ jobs' = [jobs EXCEPT ![k] = job]
At(k, at) == jobs[k].at = at
End(k) == jobs' = [jobs EXCEPT ![k] = NoJob]
Select(m) == map' = m

\* MatchChangeSettings of the host: the mods, and then the map: None while it is
\* being chosen; one that was chosen is looked for.
ChangeSettings(k, on, chosen) ==
    /\ IF on = freemods THEN UNCHANGED <<freemods, mods, asMade, slotMods>>
       ELSE IF on THEN SpreadMods ELSE GatherMods
    /\ IF chosen = None THEN Select(None) /\ UNCHANGED jobs
       ELSE IF map = None
       THEN Start(k, [at |-> "settings", by |-> host, map |-> chosen]) /\ UNCHANGED map
       ELSE UNCHANGED <<map, jobs>>
    /\ UNCHANGED <<seated, host, pool, bans>>

\* The map is written to the match the player is in by then; who is in none fails.
SetMap(k) ==
    /\ At(k, "settings")
    /\ IF jobs[k].by \in seated THEN Select(jobs[k].map) ELSE UNCHANGED map
    /\ End(k)
    /\ UNCHANGED <<seated, host, freemods, mods, asMade, slotMods, pool, bans>>

MpMap(k, m) ==
    /\ m # map
    /\ Start(k, [at |-> "map", map |-> m])
    /\ UNCHANGED <<seated, host, freemods, mods, asMade, slotMods, map, pool, bans>>

FoundMap(k) ==
    /\ At(k, "map")
    /\ Select(jobs[k].map) \/ UNCHANGED map
    /\ End(k)
    /\ UNCHANGED <<seated, host, freemods, mods, asMade, slotMods, pool, bans>>

-----------------------------------------------------------------------------
(* Map pools *)

LoadPool(k, new) ==
    /\ Start(k, [at |-> "pool", pool |-> new])
    /\ UNCHANGED <<seated, host, freemods, mods, asMade, slotMods, map, pool, bans>>

FoundPool(k) ==
    /\ At(k, "pool")
    /\ pool' \in {pool, jobs[k].pool}
    /\ End(k)
    /\ UNCHANGED <<seated, host, freemods, mods, asMade, slotMods, map, bans>>

UnloadPool ==
    /\ pool # None /\ pool' = None
    /\ UNCHANGED <<seated, host, freemods, mods, asMade, slotMods, map, bans, jobs>>

\* mp_ban, mp_unban and mp_pick look for the pick of the pool there is.
ForPick(k, at, m) ==
    /\ pool # None
    /\ Start(k, [at |-> at, map |-> m])
    /\ UNCHANGED <<seated, host, freemods, mods, asMade, slotMods, map, pool, bans>>

FoundBan(k) ==
    /\ At(k, "ban") \/ At(k, "unban")
    /\ bans' \in {bans, IF At(k, "ban") THEN bans \cup {jobs[k].map} ELSE bans \ {jobs[k].map}}
    /\ End(k)
    /\ UNCHANGED <<seated, host, freemods, mods, asMade, slotMods, map, pool>>

\* mp_pick: a pick that is found and not banned has its map looked for.
FoundPick(k) ==
    /\ At(k, "pick")
    /\ \/ End(k)
       \/ jobs[k].map \notin bans /\ jobs' = [jobs EXCEPT ![k].at = "picked"]
    /\ UNCHANGED <<seated, host, freemods, mods, asMade, slotMods, map, pool, bans>>

\* The map is not found.
NoMapToPick(k) ==
    /\ At(k, "picked")
    /\ End(k)
    /\ UNCHANGED <<seated, host, freemods, mods, asMade, slotMods, map, pool, bans>>

\* Match.reset_scrim: a scrim ends, or its teams change.
ClearBans ==
    /\ bans' = {}
    /\ UNCHANGED <<seated, host, freemods, mods, asMade, slotMods, map, pool, jobs>>

\* Free mods end, and the mods of the pick are the match's.
PickMap(k) ==
    /\ At(k, "picked")
    /\ Select(jobs[k].map)
    /\ freemods' = FALSE
    /\ slotMods' = IF freemods THEN OfAllSlots({}) ELSE slotMods
    /\ mods' = PickOf[jobs[k].map] /\ asMade' = FALSE
    /\ End(k)
    /\ UNCHANGED <<seated, host, pool, bans>>

-----------------------------------------------------------------------------
SettingsNext ==
    \/ \E p \in MatchPlayers :
         \/ JoinMatch(p) \/ LeaveMatch(p) \/ TransferHost(p)
         \/ \E chosen \in SUBSET Mods, byCommand \in BOOLEAN : ChangeMods(p, chosen, byCommand)
    \/ \E on \in BOOLEAN : MpFreemods(on)
    \/ \E k \in Jobs, on \in BOOLEAN, m \in Maps \cup {None} : ChangeSettings(k, on, m)
    \/ \E k \in Jobs, m \in Maps :
         MpMap(k, m) \/ ForPick(k, "ban", m) \/ ForPick(k, "unban", m) \/ ForPick(k, "pick", m)
    \/ \E k \in Jobs, new \in Pools : LoadPool(k, new)
    \/ \E k \in Jobs :
         SetMap(k) \/ FoundMap(k) \/ FoundPool(k) \/ FoundBan(k) \/ FoundPick(k)
         \/ PickMap(k) \/ NoMapToPick(k)
    \/ UnloadPool \/ ClearBans

SettingsSpec == SettingsInit /\ [][SettingsNext]_settingsVars

-----------------------------------------------------------------------------
(* Properties *)

SettingsTypeOK ==
    /\ seated \subseteq MatchPlayers /\ host \in seated
    /\ freemods \in BOOLEAN /\ asMade \in BOOLEAN /\ mods \subseteq Mods
    /\ slotMods \in [MatchPlayers -> SUBSET Mods]
    /\ map \in Maps \cup {None} /\ pool \in Pools \cup {None} /\ bans \subseteq Maps

\* With free mods the match has none but those that change the speed - except the
\* mods it was made with, which nobody checks, until they are first changed - and the
\* slots none of these; without, the slots have none at all - an empty slot never
\* has - whoever toggles, joins, leaves or picks in between.
FreemodsSplit ==
    /\ freemods /\ ~asMade => mods \subseteq SpeedMods
    /\ \A p \in MatchPlayers :
         slotMods[p] \subseteq (IF freemods /\ p \in seated THEN Mods \ SpeedMods ELSE {})
=============================================================================
