---------------------------- MODULE SchemaMigration ----------------------------
(* Opening the database of a tenant: init_schema creates what is missing and   *)
(* migrate brings an older file up to date.  Its steps commit one by one, so a *)
(* crash, or a step that fails, leaves the file between two versions, and the  *)
(* next opening starts over.  Once open, memories are ingested and indexed     *)
(* and the text of a session's router is replaced, by the present code.        *)
EXTENDS Integers, Sequences

CONSTANTS
  Id, Session,
  Absent,
  From,                \* versions of the files that are opened
  MaxCrash, MaxOpen    \* bounds

VARIABLES
  version,      \* PRAGMA user_version
  columns,      \* the columns added to memories since the first version
  others,       \* the columns added to the other tables
  rows,         \* [Id -> Row \cup {Absent}]
  fts,          \* ids with a text in fts_memories
  router,       \* sessions with a row in session_router
  routerFts,    \* rows of fts_session_router: <<session, rowid>>
  at,           \* the next step, or "closed" or "open"
  crashes, opened

mvars == <<version, columns, others, rows, fts, router, routerFts, at, crashes, opened>>
content == <<rows, fts, router, routerFts>>
bounds == <<crashes, opened>>

SchemaVersion == 8

Columns == {"content_hash", "turn", "indexed", "recorded_at", "expires_at"}
OtherColumns == {"embedding", "metric", "fact_recorded_at", "card_times"}

\* recorded is 0 for a row that has none; written tells who wrote the row.
Row == [hash : {"none", "old", "new"}, recorded : 0 .. 2, indexed : BOOLEAN, written : {"before", "since"}]

Created == 1   \* created_at_ms of every row
Now == 2       \* recorded_at_ms of a row that was given one

\* The shapes that were shipped: what a file of a version did not have yet.
Lacking(v) ==
  CASE v = 1 -> Columns
    [] v = 3 -> {"content_hash", "indexed", "recorded_at", "expires_at"}
    [] v = 4 -> {"content_hash", "recorded_at", "expires_at"}
    [] v = 6 -> {"expires_at"}
    [] OTHER -> {}

\* A new file, of version 0, has no rows.  Up to version 3 a memory was stored
\* and indexed at once.
Shipped(v) ==
  {r \in Row :
     /\ v > 0
     /\ r.hash = IF "content_hash" \in Lacking(v) THEN "none" ELSE IF v < 5 THEN "old" ELSE "new"
     /\ IF "recorded_at" \in Lacking(v) THEN r.recorded = 0 /\ r.written = "before"
        ELSE r.recorded = Now /\ r.written = "since"
     /\ "indexed" \in Lacking(v) => ~r.indexed}

Init ==
  /\ version \in From
  /\ columns = Columns \ Lacking(version)
  /\ others \in IF version \in {0, SchemaVersion} THEN {OtherColumns} ELSE {{}, OtherColumns}
  /\ rows \in [Id -> {Absent} \cup Shipped(version)]
  /\ \E texts \in SUBSET {i \in Id : rows[i] # Absent} :
       /\ fts = texts
       /\ \A i \in Id : rows[i] # Absent /\ (version < 4 \/ rows[i].indexed) => i \in texts
  /\ router \in IF version = 0 THEN {{}} ELSE SUBSET Session
  /\ routerFts = router \X {IF version = SchemaVersion THEN "hashed" ELSE "legacy"}
  /\ at = "closed" /\ crashes = 0 /\ opened = 0

-----------------------------------------------------------------------------
(* The steps of migrate.                                                     *)

Stored == {i \in Id : rows[i] # Absent}

\* A newer file is refused; tables that are missing are created.
Open ==
  /\ at = "closed" /\ opened < MaxOpen /\ version <= SchemaVersion
  /\ at' = "columns" /\ opened' = opened + 1
  /\ UNCHANGED <<version, columns, others, content, crashes>>

Then(step) == at' = step /\ UNCHANGED bounds

\* ALTER TABLE, a column at a time, in whatever order.
AddColumn(c) ==
  /\ at = "columns" /\ c \notin columns
  /\ columns' = columns \cup {c}
  /\ Then("columns") /\ UNCHANGED <<version, others, content>>

\* Rows without a time of recording take that of their creation.
FillRecorded ==
  /\ at = "columns" /\ columns = Columns
  /\ rows' = [i \in Id |-> IF i \in Stored /\ rows[i].recorded = 0 THEN [rows[i] EXCEPT !.recorded = Created] ELSE rows[i]]
  /\ Then("mark") /\ UNCHANGED <<version, columns, others, fts, router, routerFts>>

MarkIndexed ==
  /\ at = "mark"
  /\ rows' = [i \in Id |-> IF i \in Stored /\ version < 4 THEN [rows[i] EXCEPT !.indexed = TRUE] ELSE rows[i]]
  /\ Then("others") /\ UNCHANGED <<version, columns, others, fts, router, routerFts>>

\* The other tables' columns; the old table of metrics is replaced.
AddOther(c) ==
  /\ at = "others" /\ c \notin others
  /\ others' = others \cup {c}
  /\ Then("others") /\ UNCHANGED <<version, columns, content>>

Rehash ==
  /\ at = "others" /\ others = OtherColumns
  /\ rows' = [i \in Id |-> IF i \in Stored /\ version < 5 THEN [rows[i] EXCEPT !.hash = "new"] ELSE rows[i]]
  /\ Then("fts") /\ UNCHANGED <<version, columns, others, fts, router, routerFts>>

\* "re-ingest to restore"
RebuildFts ==
  /\ at = "fts"
  /\ fts' = IF version < 3 THEN {} ELSE fts
  /\ Then("router") /\ UNCHANGED <<version, columns, others, rows, router, routerFts>>

\* The rows of the router's index under their own rowids, and the version, in
\* one transaction.
NormaliseRouter ==
  /\ at = "router"
  /\ routerFts' = IF version < 8 THEN router \X {"hashed"} ELSE routerFts
  /\ version' = SchemaVersion
  /\ Then("open") /\ UNCHANGED <<columns, others, rows, fts, router>>

\* The process ends, or a step fails and the opening with it.
Crash ==
  /\ at # "closed" /\ crashes < MaxCrash
  /\ at' = "closed" /\ crashes' = crashes + 1
  /\ UNCHANGED <<version, columns, others, content, opened>>

-----------------------------------------------------------------------------
(* The open database.                                                        *)

Ingest(i) ==
  /\ at = "open" /\ i \notin Stored
  /\ rows' = [rows EXCEPT ![i] = [hash |-> "new", recorded |-> Now, indexed |-> FALSE, written |-> "since"]]
  /\ UNCHANGED <<version, columns, others, fts, router, routerFts, at, bounds>>

\* By the ingest, or by the repair that follows a crash.
Index(i) ==
  /\ at = "open" /\ i \in Stored /\ ~rows[i].indexed
  /\ \/ i \notin fts /\ fts' = fts \cup {i} /\ UNCHANGED rows
     \/ i \in fts /\ rows' = [rows EXCEPT ![i].indexed = TRUE] /\ UNCHANGED fts
  /\ UNCHANGED <<version, columns, others, router, routerFts, at, bounds>>

Route(s) ==
  /\ at = "open"
  /\ router' = router \cup {s}
  /\ routerFts' = routerFts \cup {<<s, "hashed">>}
  /\ UNCHANGED <<version, columns, others, rows, fts, at, bounds>>

Next ==
  \/ Open \/ FillRecorded \/ MarkIndexed \/ Rehash \/ RebuildFts \/ NormaliseRouter \/ Crash
  \/ \E c \in Columns : AddColumn(c)
  \/ \E c \in OtherColumns : AddOther(c)
  \/ \E i \in Id : Ingest(i) \/ Index(i)
  \/ \E s \in Session : Route(s)

Spec == Init /\ [][Next]_mvars

-----------------------------------------------------------------------------

\* An open database is that of the present version however often its opening
\* was cut short: a memory has the hash that ingest compares with, the time it
\* was recorded or else created, and no mark of being indexed without a text to
\* be found by; and each session has one row in the index, where updates and
\* deletions look for it.
Migrated ==
  at = "open" =>
    /\ version = SchemaVersion /\ columns = Columns /\ others = OtherColumns
    /\ \A i \in Stored :
         /\ rows[i].hash = "new"
         /\ rows[i].recorded = IF rows[i].written = "before" THEN Created ELSE Now
         /\ rows[i].indexed => i \in fts
    /\ routerFts = router \X {"hashed"}

=============================================================================
