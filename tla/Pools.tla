-------------------------------- MODULE Pools --------------------------------
(***************************************************************************)
(* The map pools of tournaments: the tables tourney_pools and              *)
(* tourney_pool_maps under the commands !pool create, delete, add, remove  *)
(* and info.  Every statement is awaited, and a command acts on what an    *)
(* earlier statement of it found.                                          *)
(***************************************************************************)
EXTENDS Naturals, FiniteSets

CONSTANTS PoolNames, Maps,
          Picks,           \* a combination of mods and a number
          PageSize,        \* rows that fetch_many returns of a pool (50)
          PoolCommands,    \* commands that are handled at once
          MaxPoolCommands  \* bound: how many are started

ASSUME PoolsAssumption == PageSize \in Nat /\ MaxPoolCommands \in Nat

VARIABLES
    pools,         \* tourney_pools: the name of every pool by its id
    lastPool,      \* the id that was given last
    poolMaps,      \* the rows of tourney_pool_maps
    commands,      \* what is being handled
    poolsBegun,    \* counts it
    poolsOverlap,  \* history: two commands were open at once
    crowded        \* history: a pool had more maps than a page shows

poolsVars == <<pools, lastPool, poolMaps, commands, poolsBegun, poolsOverlap, crowded>>

Nothing == [do |-> "none"]
OpenPoolCommands == {c \in PoolCommands : commands[c] # Nothing}
In(id) == {m \in poolMaps : m.pool = id}

PoolsInit ==
    /\ pools = <<>> /\ lastPool = 0
    /\ poolMaps = {}
    /\ commands = [c \in PoolCommands |-> Nothing]
    /\ poolsBegun = 0
    /\ poolsOverlap = FALSE /\ crowded = FALSE

-----------------------------------------------------------------------------
BeginCommand(c, command) ==
    /\ commands[c] = Nothing
    /\ poolsBegun < MaxPoolCommands /\ poolsBegun' = poolsBegun + 1
    /\ commands' = [commands EXCEPT ![c] = command]
    /\ poolsOverlap' = (poolsOverlap \/ OpenPoolCommands # {})
    /\ UNCHANGED <<pools, lastPool, poolMaps, crowded>>

PoolCreate(c, name) == BeginCommand(c, [do |-> "create", at |-> "name", name |-> name])
PoolDelete(c, name) == BeginCommand(c, [do |-> "delete", at |-> "name", name |-> name, found |-> 0])
PoolAdd(c, name, pick, map) ==
    BeginCommand(c, [do |-> "add", at |-> "name", name |-> name, found |-> 0,
                     pick |-> pick, map |-> map])
PoolRemove(c, name, pick) ==
    BeginCommand(c, [do |-> "remove", at |-> "name", name |-> name, found |-> 0, pick |-> pick])

Goes(c, at) == commands' = [commands EXCEPT ![c].at = at]
GoesWith(c, at, found) == commands' = [commands EXCEPT ![c].at = at, ![c].found = found]
Ends(c) == commands' = [commands EXCEPT ![c] = Nothing]
CommandIs(c, do, at) == commands[c] # Nothing /\ commands[c].do = do /\ commands[c].at = at
Reads == UNCHANGED <<pools, lastPool, poolMaps, poolsBegun, poolsOverlap, crowded>>

\* fetch_by_name: any of the pools, if several have the name.
Called(name) == {id \in DOMAIN pools : pools[id] = name}

\* Mutant: the pool of an add is not looked for.
FetchForAdd(c) ==
    /\ commands[c] # Nothing /\ commands[c].at = "name"
    /\ IF commands[c].do = "create" THEN Goes(c, "insert")
       ELSE \E id \in Called(commands[c].name) \cup {0} : GoesWith(c, "look", id)
    /\ Reads

FetchByName(c) ==
    /\ commands[c] # Nothing /\ commands[c].at = "name"
    /\ IF commands[c].do = "create"
       THEN IF Called(commands[c].name) = {} THEN Goes(c, "insert") ELSE Ends(c)
       ELSE IF Called(commands[c].name) = {} THEN Ends(c)
            ELSE \E id \in Called(commands[c].name) : GoesWith(c, "look", id)
    /\ Reads

\* TourneyPoolsRepository.create
CreatePool(c) ==
    /\ CommandIs(c, "create", "insert")
    /\ lastPool' = lastPool + 1
    /\ pools' = [id \in DOMAIN pools \cup {lastPool'} |->
                   IF id = lastPool' THEN commands[c].name ELSE pools[id]]
    /\ Ends(c)
    /\ UNCHANGED <<poolMaps, poolsBegun, poolsOverlap, crowded>>

\* delete_pool: the pool is fetched again, by its id.
FetchPool(c) ==
    /\ CommandIs(c, "delete", "look")
    /\ IF commands[c].found \in DOMAIN pools THEN Goes(c, "open") ELSE Ends(c)
    /\ Reads

\* The first statement of the transaction decides which rows its queries show.
OpenTransaction(c) ==
    LET id == commands[c].found IN
    /\ CommandIs(c, "delete", "open")
    /\ commands' = [commands EXCEPT ![c].at =
                      IF In(id) = {} THEN "commit pool" ELSE "commit both"]
    /\ Reads

\* Mutant: the maps of the pool are left.
DeletePoolOnly(c) ==
    /\ commands[c] # Nothing /\ commands[c].at \in {"commit pool", "commit both"}
    /\ pools' = [id \in DOMAIN pools \ {commands[c].found} |-> pools[id]]
    /\ Ends(c)
    /\ UNCHANGED <<lastPool, poolMaps, poolsBegun, poolsOverlap, crowded>>

\* delete_by_id, and delete_all_in_pool if it saw a map.
CommitDelete(c) ==
    LET id == commands[c].found IN
    /\ commands[c] # Nothing /\ commands[c].at \in {"commit pool", "commit both"}
    /\ pools' = [p \in DOMAIN pools \ {id} |-> pools[p]]
    /\ poolMaps' = IF commands[c].at = "commit both" THEN poolMaps \ In(id) ELSE poolMaps
    /\ Ends(c)
    /\ UNCHANGED <<lastPool, poolsBegun, poolsOverlap, crowded>>

\* TourneyPoolMapsRepository.fetch_many: one page, in no stated order.
Pages(id) ==
    {page \in SUBSET In(id) :
        \/ Cardinality(page) = PageSize
        \/ Cardinality(page) < PageSize /\ page = In(id)}

\* add_map_to_pool: the pick and the map are looked for.
LookForPick(c) ==
    /\ CommandIs(c, "add", "look")
    /\ \E page \in Pages(commands[c].found) :
         IF \E m \in page : m.pick = commands[c].pick \/ m.map = commands[c].map
         THEN Ends(c) ELSE Goes(c, "insert")
    /\ Reads

\* The primary key is the map and the pool: the insert of a second row raises.
InsertMap(c) ==
    LET id == commands[c].found
        new == [pool |-> id, map |-> commands[c].map, pick |-> commands[c].pick]
    IN
    /\ CommandIs(c, "add", "insert")
    /\ poolMaps' = IF \E m \in In(id) : m.map = new.map THEN poolMaps ELSE poolMaps \cup {new}
    /\ crowded' = (crowded \/ Cardinality({m \in poolMaps' : m.pool = id}) > PageSize)
    /\ Ends(c)
    /\ UNCHANGED <<pools, lastPool, poolsBegun, poolsOverlap>>

\* fetch_by_pool_and_pick
FetchPick(c) ==
    LET picked == {m \in In(commands[c].found) : m.pick = commands[c].pick} IN
    /\ CommandIs(c, "remove", "look")
    /\ IF picked = {} THEN Ends(c)
       ELSE \E m \in picked : commands' = [commands EXCEPT ![c].at = "row", ![c].pick = m]
    /\ Reads

\* delete_map_from_pool
DeleteMap(c) ==
    LET m == commands[c].pick IN
    /\ CommandIs(c, "remove", "row")
    /\ poolMaps' = {r \in poolMaps : r.pool # m.pool \/ r.map # m.map}
    /\ Ends(c)
    /\ UNCHANGED <<pools, lastPool, poolsBegun, poolsOverlap, crowded>>

-----------------------------------------------------------------------------
Handle(c) ==
    \/ \E name \in PoolNames : PoolCreate(c, name) \/ PoolDelete(c, name)
    \/ \E name \in PoolNames, pick \in Picks :
         PoolRemove(c, name, pick) \/ \E map \in Maps : PoolAdd(c, name, pick, map)
    \/ FetchByName(c) \/ CreatePool(c)
    \/ FetchPool(c) \/ OpenTransaction(c) \/ CommitDelete(c)
    \/ LookForPick(c) \/ InsertMap(c)
    \/ FetchPick(c) \/ DeleteMap(c)

PoolsNext == \E c \in PoolCommands : Handle(c)

PoolsSpec == PoolsInit /\ [][PoolsNext]_poolsVars

-----------------------------------------------------------------------------
(* Properties *)

PoolsTypeOK ==
    /\ DOMAIN pools \subseteq 1..lastPool
    /\ \A id \in DOMAIN pools : pools[id] \in PoolNames
    /\ poolMaps \subseteq [pool : 1..lastPool, map : Maps, pick : Picks]
    /\ \A c \in OpenPoolCommands : commands[c].do \in {"create", "delete", "add", "remove"}
    /\ poolsBegun \in 0..MaxPoolCommands
    /\ poolsOverlap \in BOOLEAN /\ crowded \in BOOLEAN

\* While no two commands have overlapped, a name belongs to one pool, every map in
\* the table to a pool there is, and, while no pool had more maps than a page, a
\* pick of a pool names one map.  (An add that overlaps the deletion of its pool
\* leaves a map of no pool; beyond the first page a pick may be taken twice.)
SerialPools ==
    ~poolsOverlap =>
      /\ \A a, b \in DOMAIN pools : pools[a] = pools[b] => a = b
      /\ \A m \in poolMaps : m.pool \in DOMAIN pools
      /\ ~crowded => \A m, n \in poolMaps : m.pool = n.pool /\ m.pick = n.pick => m = n
=============================================================================
