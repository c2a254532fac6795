---------------------------- MODULE ConfigCache ----------------------------
(***************************************************************************)
(* The cache of the system configuration (app/services/config_manager.py). *)
(*                                                                         *)
(* Reads and reloads work on the cache under a lock that they keep while   *)
(* they ask the database. Writes change the database first, without the    *)
(* lock, and put the value into the cache afterwards.                      *)
(***************************************************************************)
EXTENDS Integers

CONSTANTS
  Key,
  Value,
  Missing,     \* the negative entry, and a key that has no row
  Absent,      \* no entry in the cache
  Request      \* threads; each serves one request after the other

ASSUME ConfigAssumption ==
  /\ Missing \notin Value
  /\ Absent \notin Value \cup {Missing}
  /\ Absent \notin Request

VARIABLES
  table,    \* rows of system_configs
  cache,    \* _cache
  loaded,   \* _loaded
  keeper,   \* holder of _lock
  request,  \* a request: its step, key, value and what it has read
  broken    \* history: a request wrote and ended without the reload

configVars == <<table, cache, loaded, keeper, request, broken>>

Nobody == Absent
NoRequest == [at |-> "none", key |-> Absent, value |-> Absent, rows |-> [k \in Key |-> Absent]]
Steps == {"none", "upsert", "put", "lock", "install", "read", "first", "confirm", "delete", "pop", "row"}

ConfigTypeOK ==
  /\ table \in [Key -> Value \cup {Missing}]
  /\ cache \in [Key -> Value \cup {Missing, Absent}]
  /\ loaded \in BOOLEAN
  /\ keeper \in Request \cup {Nobody}
  /\ request \in [Request -> [at : Steps, key : Key \cup {Absent}, value : Value \cup {Absent},
                              rows : [Key -> Value \cup {Missing, Absent}]]]
  /\ broken \in BOOLEAN

ConfigInit ==
  /\ table \in [Key -> Value \cup {Missing}]
  /\ cache = [k \in Key |-> Absent]
  /\ loaded = FALSE
  /\ keeper = Nobody
  /\ request = [r \in Request |-> NoRequest]
  /\ broken = FALSE

At(r, step) == request[r].at = step
Continues(r, step) == request' = [request EXCEPT ![r].at = step]
Returns(r) == request' = [request EXCEPT ![r] = NoRequest]

\* A query: the request goes on with what the table says now.
Copies(r, step) ==
  request' = [request EXCEPT ![r] = [at |-> step, key |-> @.key, value |-> @.value, rows |-> table]]

-----------------------------------------------------------------------------
(* Requests arrive.                                                        *)

\* update_configs, update_config_row, delete_config, get_config.
Arrive(r, k, v, step) ==
  /\ At(r, "none")
  /\ request' = [request EXCEPT ![r] = [at |-> step, key |-> k, value |-> v, rows |-> @.rows]]
  /\ UNCHANGED <<table, cache, loaded, keeper, broken>>

Arrivals(r) ==
  \E k \in Key :
    \/ \E v \in Value : Arrive(r, k, v, "upsert") \/ Arrive(r, k, v, "row")
    \/ Arrive(r, k, Absent, "delete") \/ Arrive(r, k, Absent, "read")

-----------------------------------------------------------------------------
(* set_config within update_configs: row, cache entry, reload at the end.  *)

UpsertRow(r) ==
  /\ At(r, "upsert")
  /\ table' = [table EXCEPT ![request[r].key] = request[r].value]
  /\ Continues(r, "put")
  /\ UNCHANGED <<cache, loaded, keeper, broken>>

PutEntry(r) ==
  /\ At(r, "put")
  /\ keeper = Nobody
  /\ cache' = [cache EXCEPT ![request[r].key] = request[r].value]
  /\ Continues(r, "lock")
  /\ UNCHANGED <<table, loaded, keeper, broken>>

\* A later key of the same request fails, or the reload does.
UpdateFails(r) ==
  /\ At(r, "lock")
  /\ Returns(r)
  /\ broken' = TRUE
  /\ UNCHANGED <<table, cache, loaded, keeper>>

UpdateRowOnly(r) ==
  /\ At(r, "row")
  /\ table' = IF table[request[r].key] = Missing THEN table
              ELSE [table EXCEPT ![request[r].key] = request[r].value]
  /\ Returns(r)
  /\ UNCHANGED <<cache, loaded, keeper, broken>>

\* update_config_row: a row that exists, then the reload.
UpdateRow(r) ==
  /\ At(r, "row")
  /\ IF table[request[r].key] = Missing
     THEN /\ Returns(r)
          /\ UNCHANGED table
     ELSE /\ table' = [table EXCEPT ![request[r].key] = request[r].value]
          /\ Continues(r, "lock")
  /\ UNCHANGED <<cache, loaded, keeper, broken>>

\* _load_configs: all rows are read under the lock, then the cache is replaced.
Load(r) ==
  /\ At(r, "lock")
  /\ keeper = Nobody
  /\ keeper' = r
  /\ Copies(r, "install")
  /\ UNCHANGED <<table, cache, loaded, broken>>

EntriesOf(rows) == [k \in Key |-> IF rows[k] = Missing THEN Absent ELSE rows[k]]

Install(r) ==
  /\ At(r, "install")
  /\ cache' = EntriesOf(request[r].rows)
  /\ loaded' = TRUE
  /\ keeper' = Nobody
  /\ Returns(r)
  /\ UNCHANGED <<table, broken>>

-----------------------------------------------------------------------------
(* delete_config: the row, then the entry.                                 *)

DeleteRow(r) ==
  /\ At(r, "delete")
  /\ IF table[request[r].key] = Missing
     THEN /\ Returns(r)
          /\ UNCHANGED table
     ELSE /\ table' = [table EXCEPT ![request[r].key] = Missing]
          /\ Continues(r, "pop")
  /\ UNCHANGED <<cache, loaded, keeper, broken>>

PopEntry(r) ==
  /\ At(r, "pop")
  /\ keeper = Nobody
  /\ cache' = [cache EXCEPT ![request[r].key] = Absent]
  /\ Returns(r)
  /\ UNCHANGED <<table, loaded, keeper, broken>>

-----------------------------------------------------------------------------
(* get_config: from the cache, else one row, remembered when it is missing *)
(* too. The first read loads everything. It keeps the lock throughout.     *)

ReadEntry(r) ==
  LET k == request[r].key IN
  /\ At(r, "read")
  /\ keeper = Nobody
  /\ IF loaded /\ cache[k] # Absent
     THEN /\ Returns(r)
          /\ UNCHANGED keeper
     ELSE /\ keeper' = r
          /\ Copies(r, IF loaded THEN "confirm" ELSE "first")
  /\ UNCHANGED <<table, cache, loaded, broken>>

\* The rest of the first load, and the query for a key it did not bring.
InstallFirst(r) ==
  LET k == request[r].key IN
  /\ At(r, "first")
  /\ cache' = EntriesOf(request[r].rows)
  /\ loaded' = TRUE
  /\ IF request[r].rows[k] # Missing
     THEN /\ Returns(r)
          /\ keeper' = Nobody
     ELSE /\ Copies(r, "confirm")
          /\ UNCHANGED keeper
  /\ UNCHANGED <<table, broken>>

ConfirmEntry(r) ==
  LET k == request[r].key IN
  /\ At(r, "confirm")
  /\ cache' = [cache EXCEPT ![k] = request[r].rows[k]]
  /\ keeper' = Nobody
  /\ Returns(r)
  /\ UNCHANGED <<table, loaded, broken>>

\* The database fails: without the load one row is asked for, without the row
\* the default is returned.
ReadFails(r) ==
  /\ \/ /\ At(r, "first")
        /\ Copies(r, "confirm")
        /\ UNCHANGED keeper
     \/ /\ At(r, "confirm")
        /\ Returns(r)
        /\ keeper' = Nobody
  /\ UNCHANGED <<table, cache, loaded, broken>>

ConfigNext ==
  \E r \in Request :
    \/ Arrivals(r)
    \/ UpsertRow(r) \/ PutEntry(r) \/ UpdateFails(r) \/ UpdateRow(r)
    \/ Load(r) \/ Install(r)
    \/ DeleteRow(r) \/ PopEntry(r)
    \/ ReadEntry(r) \/ InstallFirst(r) \/ ConfirmEntry(r) \/ ReadFails(r)

ConfigSpec == ConfigInit /\ [][ConfigNext]_configVars

-----------------------------------------------------------------------------
(* Properties.                                                             *)

\* A request that will still bring the entry of a key up to date.
Settles(r, k) ==
  \/ request[r].at \in {"put", "lock"}
  \/ request[r].at = "pop" /\ request[r].key = k
  \/ request[r].at = "install" /\ request[r].rows[k] = table[k]

\* No stale entry outlives the requests that raced: each entry, negative ones
\* included, is what the table says or a request under way corrects it, unless
\* one has failed between its write and its reload.
CacheCoherent ==
  ~broken => \A k \in Key : cache[k] \in {Absent, table[k]} \/ \E r \in Request : Settles(r, k)
=============================================================================
