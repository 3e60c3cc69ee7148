------------------------------- MODULE MCPlay -------------------------------
(***************************************************************************)
(* Small instances of what a game client meets beside rooms and rounds:    *)
(* channels and spectators, scrims, the settings of a match, the wire      *)
(* format and beatmaps.  A behaviour is about one of them, the "subject":  *)
(* the states are the sum and not the product of theirs.  Beatmaps is the  *)
(* subject twice, of two tasks at once and of a set with two maps.         *)
(***************************************************************************)
EXTENDS Channels, Scrim, MatchSettings, Wire, Beatmaps

CONSTANTS ann, bob, cho,  \* accounts
          p1, p2,         \* players of a match
          k1, k2,         \* what is handled at once
          map1            \* a map of a pool

VARIABLE subject

Init ==
    /\ subject \in {"channels", "scrim", "settings", "wire", "beatmaps", "sets"}
    /\ ChannelsInit /\ ScrimInit /\ SettingsInit /\ WireInit /\ BeatmapsInit
    /\ subject # "scrim" => seat[1] = p1 /\ seat[2] = None
    /\ subject # "settings" => host = p1 /\ ~freemods /\ mods = {} /\ map = None
    /\ subject # "wire" => ~playerRestricted
    /\ subject \notin {"beatmaps", "sets"} => api[1] = Absent
    /\ subject # "sets" => api[2] = Absent

\* Two tasks at once about one map of two versions, or one task after the other about
\* two maps of one, of which the first may have scores.
MapsInScope(ids, versions) ==
    /\ \A id \in Bids : api'[id] # Absent => id \in ids /\ api'[id].version <= versions
    /\ \A k \in Tasks : tasks'[k] # Absent /\ tasks'[k].at \notin {"write", "commit"} =>
          tasks'[k].key[1] \in ids /\ tasks'[k].key[2] <= versions
TwoTasks == MapsInScope({1}, 2) /\ begun' + (IF overlap' THEN 1 ELSE 0) <= 3
              /\ changes' <= 1 /\ checks' <= 1
TwoMaps == MapsInScope({1, 2}, 1) /\ tasks'[k2] = Absent /\ scores' \subseteq {<<1, 1>>}

\* At most one session is in the lobby, and at most one is restricted.
FewInLobby == Cardinality(inLobby') <= 1 /\ Cardinality(restricted') <= 1

Next ==
    /\ UNCHANGED subject
    /\ \/ /\ subject = "channels" /\ ChannelsNext /\ FewInLobby
          /\ UNCHANGED <<scrimVars, settingsVars, wireVars, beatmapsVars>>
       \/ /\ subject = "scrim" /\ ScrimNext
          /\ UNCHANGED <<channelsVars, settingsVars, wireVars, beatmapsVars>>
       \/ /\ subject = "settings" /\ SettingsNext
          /\ UNCHANGED <<channelsVars, scrimVars, wireVars, beatmapsVars>>
       \/ /\ subject = "wire" /\ WireNext
          /\ UNCHANGED <<channelsVars, scrimVars, settingsVars, beatmapsVars>>
       \/ /\ subject \in {"beatmaps", "sets"} /\ BeatmapsNext
          /\ subject = "beatmaps" => TwoTasks
          /\ subject = "sets" => TwoMaps
          /\ UNCHANGED <<channelsVars, scrimVars, settingsVars, wireVars>>

Spec == Init /\ [][Next]_<<subject, channelsVars, scrimVars, settingsVars, wireVars, beatmapsVars>>

\* Every component keeps the types of its state.
TypeOK ==
    CASE subject = "channels" -> ChannelsTypeOK
      [] subject = "scrim" -> ScrimTypeOK
      [] subject = "settings" -> SettingsTypeOK
      [] subject = "wire" -> WireTypeOK
      [] subject \in {"beatmaps", "sets"} -> BeatmapsTypeOK

-----------------------------------------------------------------------------
(* Values of the constants *)

MCMaxLogins == (ann :> 1) @@ (bob :> 2) @@ (cho :> 1)

MCPickOf == map1 :> {"HD", "DT"}

\* Strings, a match and a bundle of replay frames
hi == <<104, 105>>
long == [k \in 1..130 |-> 97]
float == <<0, 0, 128, 63>>
match(freeMods) ==
    [id |-> 300, inProgress |-> 0, mods |-> 64, name |-> hi, passwd |-> hi, mapName |-> hi,
     mapId |-> -1, mapMd5 |-> <<>>,
     slots |-> <<[status |-> 4, team |-> 1, player |-> 1000, mods |-> 16],
                 [status |-> 2, team |-> 2, player |-> 1001, mods |-> 0]>>,
     host |-> 1000, mode |-> 3, winCondition |-> 0, teamType |-> 2, freemods |-> freeMods, seed |-> 7]
bundle(v2) ==
    [extra |-> -1, frames |-> <<<<1, 2, float, float, -16>>, <<0, 0, float, float, 17>>>>, action |-> 0,
     score |-> <<5, 2, 300, 100, 50, 0, 0, 1, 70000, 9, 8, 0, 200, 0, v2>>,
     portions |-> IF v2 = 1 THEN <<float \o float, float \o float>> ELSE <<>>, sequence |-> 65535]

\* What the client sends: a string that needs two bytes for its length, relax with and
\* without a mode of its own, frames with and without the portions of a score, a match with
\* and without free mods, a packet nobody handles and one that has no name.
packet(id, values) == [id |-> id, values |-> values]
MCClientSends ==
    {packet(0, <<2, hi, <<>>, 136, 1, -7>>), packet(0, <<2, hi, <<>>, 136, 3, -7>>),
     packet(1, <<hi, long, <<>>, 3>>), packet(32, <<-70000, hi>>), packet(85, <<<<3, 70000>>>>),
     packet(47, <<hi>>), packet(18, <<bundle(0)>>), packet(18, <<bundle(1)>>),
     packet(68, <<hi>>), packet(5, <<hi>>), packet(31, <<match(0)>>), packet(41, <<match(1)>>)}

\* What the server sends: every type of field, a player with more performance points
\* than two bytes hold, a match with and without its password.
status == [action |-> 1, info |-> hi, md5 |-> <<>>, mods |-> 8, mode |-> 8, map |-> 9]
stats == [pp |-> 70000, rscore |-> 5, acc |-> float, plays |-> 1, tscore |-> 10, rank |-> 1]
MCServerSends ==
    {packet(8, <<>>), packet(7, <<long, hi, <<>>, -3>>),
     packet(65, <<hi, <<>>, 65535>>), packet(72, <<<<3, 70000>>>>), packet(96, <<<<>>>>),
     packet(15, <<WriteBundle(bundle(1))>>), packet(48, bundle(1).score),
     packet(11, StatsValues(3, status, stats)),
     packet(83, PresenceValues(3, hi, -12, 255, 31, 6, <<float, float>>, 2)),
     packet(26, <<match(0), TRUE>>), packet(27, <<match(1), FALSE>>)}
=============================================================================
