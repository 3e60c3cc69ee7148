------------------------------- MODULE Beatmaps -------------------------------
(***************************************************************************)
(* The beatmaps of one set: the osu!api, the tables maps and mapsets, and  *)
(* the caches in memory.  A lookup goes through cache, database and api,   *)
(* fills what it missed, and refreshes a set that was not checked for some *)
(* time; !map changes a status by hand and freezes it; a leaderboard       *)
(* request remembers the maps it could not find.                           *)
(*                                                                         *)
(* The md5 of a map is its id and version.  A Beatmap is a mutable object: *)
(* the cache, a set and a request under way hold references to it.         *)
(***************************************************************************)
EXTENDS Naturals, Sequences, FiniteSets, SequencesExt

CONSTANTS Bids,
          MaxVersion,  \* bound: versions of a map
          Tasks,
          MaxTasks,     \* bound: tasks; that some overlapped counts as one
          MaxChanges,  \* bound: changes and outages of the api, errors of the database, restarts
          MaxChecks    \* bound: times that a cached set is found expired

ASSUME BeatmapsAssumption ==
    /\ Bids \subseteq Nat /\ 0 \notin Bids /\ IsFiniteSet(Bids)
    /\ MaxVersion \in Nat \ {0} /\ MaxTasks \in Nat /\ MaxChanges \in Nat /\ MaxChecks \in Nat

VARIABLES
    api,                       \* what the osu!api has of every map, or None
    up,                        \* it answers, and not with an error
    rows,                      \* the table maps, by id
    mapset,                    \* the set has its row in mapsets
    scores,                    \* the md5s that have scores
    maps,                      \* the Beatmap objects made so far
    sets,                      \* the BeatmapSet objects: the maps of each
    beatmap,                   \* app.state.cache.beatmap: a map by md5 and by id, 0 for none
    beatmapset,                \* app.state.cache.beatmapset: the set, 0 for none
    unsubmitted, needsUpdate,  \* app.state.cache.unsubmitted, needs_update
    tasks,                     \* what is under way
    ruled,                     \* history: the status that the last !map gave a row
    missed,                    \* history: the maps whose object and row a task did not change together
    overlap,                   \* history: two tasks were under way at once
    begun, changes, checks

external == <<api, up, changes>>
tables == <<rows, mapset, scores>>
objects == <<maps, sets>>
caches == <<beatmap, beatmapset>>
forgotten == <<unsubmitted, needsUpdate>>
control == <<begun, overlap>>
beatmapsVars ==
    <<external, tables, objects, caches, forgotten, tasks, ruled, missed, control, checks>>

Statuses == {"pending", "ranked"}
Md5s == Bids \X (1..MaxVersion)
ById(b) == <<b, 0>>     \* the other keys of the cache: the ids
Keys == Bids \X (0..MaxVersion)
Absent == [id |-> 0]
Md5(m) == <<m.id, m.version>>
MapsOf(set) == {maps[i] : i \in sets[set]}

\* A row of the table, an object made of one or of what the api has
Row(m) == [id |-> m.id, version |-> m.version, status |-> m.status, frozen |-> m.frozen]
Object(m, frozen, set) ==
    [id |-> m.id, version |-> m.version, status |-> m.status, frozen |-> frozen, set |-> set]

BeatmapsInit ==
    /\ \E there \in SUBSET Bids :
         api = [b \in Bids |-> IF b \in there THEN [id |-> b, version |-> 1, status |-> "pending"]
                               ELSE Absent]
    /\ up = TRUE
    /\ rows = [b \in Bids |-> Absent] /\ mapset = FALSE /\ scores = {}
    /\ maps = <<>> /\ sets = <<>>
    /\ beatmap = [key \in Keys |-> 0] /\ beatmapset = 0
    /\ unsubmitted = {} /\ needsUpdate = {}
    /\ tasks = [t \in Tasks |-> Absent]
    /\ ruled = [b \in Bids |-> "none"]
    /\ missed = {} /\ overlap = FALSE
    /\ begun = 0 /\ changes = 0 /\ checks = 0

-----------------------------------------------------------------------------
(* The outside *)

Outside ==
    /\ changes < MaxChanges /\ changes' = changes + 1
    /\ UNCHANGED <<tables, objects, caches, forgotten, tasks, ruled, missed, control, checks>>

\* A mapper submits, updates, ranks or deletes a map.
ApiChanges(b) ==
    /\ \/ \E v \in 1..MaxVersion, s \in Statuses :
            /\ api[b].id # 0 => v \in {api[b].version, api[b].version + 1}
            /\ api' = [api EXCEPT ![b] = [id |-> b, version |-> v, status |-> s]]
       \/ api' = [api EXCEPT ![b] = Absent]
    /\ api' # api
    /\ Outside /\ UNCHANGED up

ApiUpDown == up' = ~up /\ Outside /\ UNCHANGED api

\* The server is started again: what is in memory is lost, and with it every task.
Restart ==
    /\ changes < MaxChanges /\ changes' = changes + 1
    /\ maps' = <<>> /\ sets' = <<>>
    /\ beatmap' = [key \in Keys |-> 0] /\ beatmapset' = 0
    /\ unsubmitted' = {} /\ needsUpdate' = {}
    /\ tasks' = [t \in Tasks |-> Absent]
    /\ UNCHANGED <<api, up, tables, ruled, missed, control, checks>>

\* A score is stored for a map that has a row.
ScoreStored(b) ==
    /\ rows[b] # Absent
    /\ scores' = scores \cup {Md5(rows[b])}
    /\ UNCHANGED <<external, rows, mapset, objects, caches, forgotten, tasks, ruled,
                   missed, control, checks>>

-----------------------------------------------------------------------------
(* Tasks *)

Becomes(t, task) == tasks' = [tasks EXCEPT ![t] = task]
Open == {t \in Tasks : tasks[t] # Absent}

Nothing == <<0, 0>>   \* no key
Task == [id |-> 1, do |-> "lookup", at |-> "cached", key |-> Nothing, claim |-> FALSE,
         set |-> 0, found |-> 0, answer |-> <<>>, md5s |-> {}, then |-> "cache",
         last |-> "none", saves |-> <<>>, np |-> 0, status |-> "none", ids |-> {}]

Begin(t, task) ==
    /\ tasks[t] = Absent
    /\ begun + (IF overlap THEN 1 ELSE 0) < MaxTasks
    /\ begun' = begun + 1
    /\ Becomes(t, task)
    /\ overlap' = (overlap \/ Open # {})
    /\ UNCHANGED <<external, tables, objects, caches, forgotten, ruled, missed, checks>>

\* Beatmap.from_md5, with a set id or without
FromMd5(t, md5, claim) == Begin(t, [Task EXCEPT !.key = md5, !.claim = claim])
\* Beatmap.from_bid
FromBid(t, bid) == Begin(t, [Task EXCEPT !.key = ById(bid)])
\* fetch_leaderboard, unless the md5 is remembered as one that is not there
FetchLeaderboard(t, md5, claim) ==
    /\ md5 \notin unsubmitted \cup needsUpdate
    /\ Begin(t, [Task EXCEPT !.do = "leaderboard", !.key = md5, !.claim = claim])

Is(t, at) == tasks[t] # Absent /\ tasks[t].at = at
Goes(t, at) == Becomes(t, [tasks[t] EXCEPT !.at = at])
Tables == UNCHANGED tables
Memory == UNCHANGED <<objects, caches, checks>>
Rest == UNCHANGED <<external, control, missed>>

CachedIds == IF beatmapset = 0 THEN {} ELSE {m.id : m \in MapsOf(beatmapset)}

\* _classify_missing_beatmap, as far as it goes without a query: the filename of a map
\* stays the same in every version of it, and is looked for among the maps of the set.
Ends(t, found, ids) ==
    LET task == tasks[t] IN
    IF task.do # "leaderboard" \/ found # 0
    THEN Becomes(t, Absent) /\ UNCHANGED forgotten
    ELSE IF ~task.claim
    THEN Goes(t, "filename") /\ UNCHANGED forgotten
    ELSE /\ Becomes(t, Absent)
         /\ IF task.key[1] \in ids
            THEN needsUpdate' = needsUpdate \cup {task.key} /\ UNCHANGED unsubmitted
            ELSE unsubmitted' = unsubmitted \cup {task.key} /\ UNCHANGED needsUpdate

\* _map_exists_by_filename
LookForFilename(t) ==
    LET key == tasks[t].key IN
    /\ Is(t, "filename")
    /\ IF rows[key[1]] # Absent
       THEN needsUpdate' = needsUpdate \cup {key} /\ UNCHANGED unsubmitted
       ELSE unsubmitted' = unsubmitted \cup {key} /\ UNCHANGED needsUpdate
    /\ Becomes(t, Absent)
    /\ Tables /\ Memory /\ Rest /\ UNCHANGED ruled

\* BeatmapSet._cache_expired; a set without maps always is.
Expired(members) ==
    \/ members = {} /\ UNCHANGED checks
    \/ members # {} /\ checks < MaxChecks /\ checks' = checks + 1
Fresh(members) == members # {} /\ UNCHANGED checks

\* cache_beatmap_set
Filled(members, of) ==
    [key \in DOMAIN beatmap |->
       LET holds == {i \in members : key \in {ById(of[i].id), Md5(of[i])}} IN
       IF holds = {} THEN beatmap[key] ELSE CHOOSE i \in holds : TRUE]

\* The end of from_bsid, and the second look in the cache.
CacheSet(t, set, members, of) ==
    /\ beatmapset' = set
    /\ beatmap' = Filled(members, of)
    /\ Ends(t, Filled(members, of)[tasks[t].key], {of[i].id : i \in members})

Finish(t) ==
    IF tasks[t].then = "return"
    THEN UNCHANGED caches /\ Ends(t, tasks[t].found, CachedIds)
    ELSE CacheSet(t, tasks[t].set, sets[tasks[t].set], maps)

Updates(t, set, then, found) ==
    /\ Becomes(t, [tasks[t] EXCEPT !.at = "update", !.set = set, !.then = then,
                   !.found = found])
    /\ UNCHANGED forgotten

\* The task ends with an exception.  Objects that nothing refers to are gone with it.
Raises(t) ==
    /\ Becomes(t, Absent)
    /\ IF beatmapset = 0 /\ Open = {t} THEN maps' = <<>> /\ sets' = <<>> ELSE UNCHANGED objects
    /\ UNCHANGED <<caches, forgotten>>

-----------------------------------------------------------------------------
(* Beatmap.from_md5, from_bid *)

\* _from_md5_cache, _from_bid_cache
LookInCache(t) ==
    LET found == beatmap[tasks[t].key]
        set == maps[found].set
    IN
    /\ Is(t, "cached")
    /\ \/ /\ found = 0
          /\ Goes(t, IF tasks[t].claim THEN "set" ELSE "row") /\ UNCHANGED <<forgotten, checks>>
       \/ found # 0 /\ Fresh(sets[set]) /\ Ends(t, found, CachedIds)
       \/ found # 0 /\ Expired(sets[set]) /\ Updates(t, set, "return", found)
    /\ Tables /\ Rest /\ UNCHANGED <<objects, caches, ruled>>

InRows(key) == \E b \in Bids : rows[b] # Absent /\ key \in {ById(b), Md5(rows[b])}
InApi == {b \in Bids : api[b] # Absent}
Listed(key) == \E b \in InApi : key \in {ById(b), Md5(api[b])}

\* maps.fetch_one: whose set is it?
LookInTable(t) ==
    /\ Is(t, "row")
    /\ Goes(t, IF InRows(tasks[t].key) THEN "set" ELSE "ask map")
    /\ Tables /\ Memory /\ Rest /\ UNCHANGED <<forgotten, ruled>>

\* The api has nothing, or an answer that is an error is taken for nothing; where there
\* was no answer at all, the task ends with an exception.
Unanswered(t) ==
    \/ Ends(t, 0, CachedIds)
    \/ ~up /\ Becomes(t, Absent) /\ UNCHANGED forgotten

\* api_get_beatmaps(h = md5) or (b = id)
AskForMap(t) ==
    /\ Is(t, "ask map")
    /\ IF up /\ Listed(tasks[t].key) THEN Goes(t, "set") /\ UNCHANGED forgotten
       ELSE Unanswered(t)
    /\ Tables /\ Memory /\ Rest /\ UNCHANGED ruled

-----------------------------------------------------------------------------
(* BeatmapSet.from_bsid *)

\* _from_bsid_cache
TakeSet(t) ==
    LET set == beatmapset IN
    /\ Is(t, "set")
    /\ \/ set = 0 /\ Goes(t, "mapset row") /\ UNCHANGED <<caches, forgotten, checks>>
       \/ set # 0 /\ Fresh(sets[set]) /\ CacheSet(t, set, sets[set], maps)
       \/ set # 0 /\ Expired(sets[set]) /\ Updates(t, set, "cache", 0) /\ UNCHANGED caches
    /\ Tables /\ Rest /\ UNCHANGED <<objects, ruled>>

\* _from_bsid_sql: the row of the set
LookForSet(t) ==
    /\ Is(t, "mapset row")
    /\ Goes(t, IF mapset THEN "map rows" ELSE "ask set")
    /\ Tables /\ Memory /\ Rest /\ UNCHANGED <<forgotten, ruled>>

\* New objects for the maps in made, an entry of a set for each.
Make(made) ==
    LET ids == SetToSeq(DOMAIN made) IN [k \in 1..Len(ids) |-> made[ids[k]]]
NewMembers(made) == Len(maps) + 1 .. Len(maps) + Cardinality(DOMAIN made)

\* _from_bsid_sql: the rows of its maps
LoadRows(t) ==
    LET set == Len(sets) + 1
        made == [b \in {b \in Bids : rows[b] # Absent} |->
                   Object(rows[b], rows[b].frozen, set)]
        members == NewMembers(made)
    IN
    /\ Is(t, "map rows")
    /\ maps' = maps \o Make(made)
    /\ sets' = Append(sets, members)
    /\ \/ Fresh(members) /\ CacheSet(t, set, members, maps')
       \/ Expired(members) /\ Updates(t, set, "cache", 0) /\ UNCHANGED caches
    /\ Tables /\ Rest /\ UNCHANGED ruled

\* _from_bsid_osuapi
AskForSet(t) ==
    /\ Is(t, "ask set")
    /\ IF up /\ InApi # {}
       THEN /\ Becomes(t, [tasks[t] EXCEPT !.at = "frozen",
                           !.answer = [b \in InApi |-> api[b]]])
            /\ UNCHANGED forgotten
       ELSE Unanswered(t)
    /\ Tables /\ Memory /\ Rest /\ UNCHANGED ruled

\* Mutant: the api decides the status of a frozen map.
ParseAll(m, answer) == [m EXCEPT !.version = answer.version, !.status = answer.status]

\* _parse_from_osuapi_resp
Parse(m, answer) ==
    [m EXCEPT !.version = answer.version,
              !.status = IF m.frozen THEN @ ELSE answer.status]

\* The statuses of the frozen rows are kept, the rest is the api's.
MakeFromApi(t) ==
    LET answer == tasks[t].answer
        frozen(b) == rows[b] # Absent /\ rows[b].frozen
        made == [b \in DOMAIN answer |->
                   Parse(Object(IF frozen(b) THEN rows[b] ELSE answer[b], frozen(b), Len(sets) + 1),
                         answer[b])]
    IN
    /\ Is(t, "frozen")
    /\ maps' = maps \o Make(made)
    /\ sets' = Append(sets, NewMembers(made))
    /\ Becomes(t, [tasks[t] EXCEPT !.at = "replace set", !.set = Len(sets) + 1,
                   !.answer = <<>>])
    /\ Tables /\ Rest /\ UNCHANGED <<caches, forgotten, checks, ruled>>

-----------------------------------------------------------------------------
(* BeatmapSet._update_if_available *)

\* The maps that are gone leave the set, not the cache; the others are changed in place.
\* Without an answer, or with an error for one, nothing is updated; an answer that is no
\* JSON is an exception that nothing catches.
Update(t) ==
    LET set == tasks[t].set
        gone == {i \in sets[set] : maps[i].id \notin InApi}
        new == InApi \ {maps[i].id : i \in sets[set]}
        made == [b \in new |-> Object(api[b], FALSE, set)]
        deleted == {Md5(maps[i]) : i \in IF InApi = {} THEN sets[set] ELSE gone}
        last == IF InApi = {} THEN "delete set" ELSE "replace set"
    IN
    /\ Is(t, "update")
    /\ IF up
       THEN /\ Becomes(t, [tasks[t] EXCEPT !.md5s = deleted, !.last = last,
                           !.at = IF deleted = {} THEN last ELSE "delete maps"])
            /\ IF InApi = {} THEN UNCHANGED objects
               ELSE /\ maps' = [i \in DOMAIN maps |->
                                  IF i \in sets[set] \ gone THEN Parse(maps[i], api[maps[i].id])
                                  ELSE maps[i]]
                               \o Make(made)
                    /\ sets' = [sets EXCEPT ![set] = (@ \ gone) \cup NewMembers(made)]
            /\ UNCHANGED <<caches, forgotten>>
       ELSE (UNCHANGED objects /\ Finish(t)) \/ Raises(t)
    /\ Tables /\ Rest /\ UNCHANGED <<checks, ruled>>

\* A transaction of !map holds the rows it has written.
Unlocked(ids) == \A t \in Open : tasks[t].at = "commit" => tasks[t].ids \cap ids = {}

DeleteMaps(t) ==
    LET gone == {b \in Bids : rows[b] # Absent /\ Md5(rows[b]) \in tasks[t].md5s} IN
    /\ Is(t, "delete maps") /\ Unlocked(gone)
    /\ rows' = [b \in Bids |-> IF b \in gone THEN Absent ELSE rows[b]]
    /\ ruled' = [b \in Bids |-> IF b \in gone THEN "none" ELSE ruled[b]]
    /\ Goes(t, "delete scores")
    /\ Memory /\ Rest /\ UNCHANGED <<mapset, scores, forgotten>>

DeleteScores(t) ==
    /\ Is(t, "delete scores")
    /\ scores' = scores \ tasks[t].md5s
    /\ Becomes(t, [tasks[t] EXCEPT !.at = tasks[t].last, !.md5s = {}])
    /\ Memory /\ Rest /\ UNCHANGED <<rows, mapset, forgotten, ruled>>

DeleteSet(t) ==
    /\ Is(t, "delete set")
    /\ mapset' = FALSE
    /\ Finish(t)
    /\ Rest /\ UNCHANGED <<rows, scores, objects, checks, ruled>>

\* What _save_to_sql will write is read from the objects before it writes the first.
ReplaceSet(t) ==
    LET members == sets[tasks[t].set]
        saves == [b \in {maps[i].id : i \in members} |->
                    Row(maps[CHOOSE i \in members : maps[i].id = b])]
    IN
    /\ Is(t, "replace set")
    /\ mapset' = TRUE
    /\ Becomes(t, [tasks[t] EXCEPT !.at = "save", !.saves = saves])
    /\ Memory /\ Rest /\ UNCHANGED <<rows, scores, forgotten, ruled>>

\* execute_many of _save_to_sql: one statement for every map, committed by itself
SaveMap(t, b) ==
    LET saves == tasks[t].saves IN
    /\ Is(t, "save") /\ b \in DOMAIN saves /\ Unlocked({b})
    /\ rows' = [rows EXCEPT ![b] = saves[b]]
    /\ Becomes(t, [tasks[t] EXCEPT !.saves = [c \in DOMAIN saves \ {b} |-> saves[c]]])
    /\ Memory /\ Rest /\ UNCHANGED <<mapset, scores, forgotten, ruled>>

Saved(t) ==
    /\ Is(t, "save") /\ DOMAIN tasks[t].saves = {}
    /\ Finish(t)
    /\ Tables /\ Rest /\ UNCHANGED <<objects, checks, ruled>>

-----------------------------------------------------------------------------
(* !map *)

\* of a map that was shown by /np, or of its whole set
MapCommand(t, np, scope, status) ==
    /\ IF scope = "map" THEN maps[np].status # status
       ELSE \E m \in MapsOf(maps[np].set) : m.status # status
    /\ Begin(t, [Task EXCEPT !.do = scope, !.at = "write", !.np = np, !.status = status])

\* The transaction is open; the objects change before it is committed.
WriteStatus(t) ==
    LET task == tasks[t]
        np == maps[task.np]
        ids == IF task.do = "map" THEN {np.id} ELSE {m.id : m \in MapsOf(np.set)}
        touched == IF task.do = "map" THEN {beatmap[Md5(np)]} ELSE sets[beatmapset]
    IN
    /\ Is(t, "write") /\ Unlocked(ids)
    /\ maps' = [i \in DOMAIN maps |->
                  IF i \in touched THEN [maps[i] EXCEPT !.status = task.status, !.frozen = TRUE]
                  ELSE maps[i]]
    /\ Becomes(t, [tasks[t] EXCEPT !.at = "commit", !.ids = ids])
    /\ missed' = missed \cup (ids \ {maps[i].id : i \in touched \cap sets[beatmapset]})
    /\ Tables /\ UNCHANGED <<external, control, sets, caches, forgotten, checks, ruled>>

CommitStatus(t) ==
    LET hit == {b \in tasks[t].ids : rows[b] # Absent} IN
    /\ Is(t, "commit")
    /\ rows' = [b \in Bids |->
                  IF b \in hit THEN [rows[b] EXCEPT !.status = tasks[t].status, !.frozen = TRUE]
                  ELSE rows[b]]
    /\ ruled' = [b \in Bids |-> IF b \in hit THEN tasks[t].status ELSE ruled[b]]
    /\ Becomes(t, Absent)
    /\ Memory /\ Rest /\ UNCHANGED <<mapset, scores, forgotten>>

-----------------------------------------------------------------------------
(* Errors of the database *)

Queries == {"row", "filename", "mapset row", "map rows", "frozen", "delete maps",
            "delete scores", "delete set", "replace set", "save", "write", "commit"}

\* The maps that are changed in the set that is cached, and not in the table
Unwritten(t) ==
    LET task == tasks[t] IN
    IF task.at = "commit" THEN task.ids \cup (IF task.do = "set" THEN CachedIds ELSE {})
    ELSE IF beatmapset = 0 \/ task.set # beatmapset \/ task.last # "replace set" THEN {}
    ELSE IF task.at = "save" THEN DOMAIN task.saves
    ELSE CachedIds \cup {md5[1] : md5 \in task.md5s}

\* A query fails, and the task ends there: what it has written stays, but for the
\* transaction of !map, which is rolled back; what it changed in memory stays.
DatabaseFails(t) ==
    /\ changes < MaxChanges /\ changes' = changes + 1
    /\ t \in Open /\ tasks[t].at \in Queries
    /\ missed' = missed \cup Unwritten(t)
    /\ Raises(t)
    /\ Tables /\ UNCHANGED <<api, up, control, checks, ruled>>

-----------------------------------------------------------------------------
Handle(t) ==
    \/ \E md5 \in Md5s, claim \in BOOLEAN :
         FromMd5(t, md5, claim) \/ FetchLeaderboard(t, md5, claim)
    \/ \E bid \in Bids : FromBid(t, bid)
    \/ \E np \in {beatmap[ById(b)] : b \in Bids} \ {0}, scope \in {"map", "set"}, s \in Statuses :
         MapCommand(t, np, scope, s)
    \/ LookInCache(t) \/ LookInTable(t) \/ AskForMap(t) \/ LookForFilename(t)
    \/ TakeSet(t) \/ LookForSet(t) \/ LoadRows(t) \/ AskForSet(t) \/ MakeFromApi(t)
    \/ Update(t) \/ DeleteMaps(t) \/ DeleteScores(t) \/ DeleteSet(t)
    \/ ReplaceSet(t) \/ (\E b \in Bids : SaveMap(t, b)) \/ Saved(t)
    \/ WriteStatus(t) \/ CommitStatus(t)
    \/ DatabaseFails(t)

BeatmapsNext ==
    \/ \E b \in Bids : ApiChanges(b) \/ ScoreStored(b)
    \/ ApiUpDown \/ Restart
    \/ \E t \in Tasks : Handle(t)

BeatmapsSpec == BeatmapsInit /\ [][BeatmapsNext]_beatmapsVars

-----------------------------------------------------------------------------
(* Properties *)

BeatmapsTypeOK ==
    /\ \A b \in Bids : rows[b].id \in {0, b} /\ api[b].id \in {0, b}
    /\ mapset \in BOOLEAN /\ up \in BOOLEAN /\ scores \subseteq Md5s
    /\ \A i \in DOMAIN maps : maps[i].id \in Bids /\ maps[i].set \in DOMAIN sets
    /\ \A k \in DOMAIN sets : sets[k] \subseteq DOMAIN maps
    /\ \A key \in DOMAIN beatmap : beatmap[key] \in {0} \cup DOMAIN maps
    /\ beatmapset \in {0} \cup DOMAIN sets
    /\ unsubmitted \subseteq Md5s /\ needsUpdate \subseteq Md5s

\* While no two tasks were under way at once: between tasks every row of the table is a
\* map of the cached set, in the same version and with the same status, and a map that
\* was given a status by hand has kept it.  It says nothing of the maps that a task has
\* missed: those it had changed in the set when an error of the database kept it from
\* writing their rows, the transaction of !map that was rolled back included; and those
\* that !map changed in the table alone, as it looks up the md5, which is not a key of the
\* cache when the map was updated in place since it was cached, or is the key of the old
\* object of a map that left the set and came back.
SerialMapsAgree ==
    ~overlap /\ Open = {} =>
      \A b \in Bids \ missed : rows[b] # Absent =>
        /\ beatmapset # 0 => \E i \in sets[beatmapset] :
                               Row(maps[i]) = rows[b]
        /\ ruled[b] # "none" => rows[b].status = ruled[b]
=============================================================================
