---------------------------- MODULE IngestIndex ----------------------------
(***************************************************************************)
(* How a memory becomes searchable and stops being so.  A memory row, its  *)
(* vector row and the indexed flag change in one SQLite transaction; the   *)
(* full-text row is written by a second transaction and the in-memory      *)
(* vector segment under a lock of its own, so everything between two of    *)
(* these steps may interleave: other requests on the same memory id, the   *)
(* maintenance tick that repairs rows left unindexed, a client that hangs  *)
(* up while the blocking tasks of its request run on, and a crash, which   *)
(* loses the segment and every task but none of the tables.                *)
(*                                                                         *)
(* One entity; a request carries one memory.  Texts stand for the content, *)
(* its hash, its FTS document and its vector.                              *)
(***************************************************************************)
EXTENDS Integers, FiniteSets

CONSTANTS
  Memory,         \* memory ids
  Text,           \* contents
  Unembedded,     \* the texts ingested without a vector
  None,           \* no text
  Request,        \* requests the clients send, each once
  Tick,           \* the maintenance task
  MaxVid,         \* bound on the rowids handed out
  MaxFail,        \* bound on failing index writes
  MaxCrash,       \* bound on crashes
  MayUpdate,      \* clients send another text for a stored memory
  MayDelete,      \* clients delete memories
  MayHangUp,      \* clients drop a request before its answer
  RequestsOverlap,\* a request is sent while another one runs
  TickOverlaps    \* the maintenance tick runs during requests

\* What the constants are: any ids, texts and bounds.
Parameters ==
  /\ None \notin Text \cup Memory
  /\ Unembedded \subseteq Text
  /\ Tick \notin Request
  /\ MaxVid \in Nat /\ MaxFail \in Nat /\ MaxCrash \in Nat
  /\ {MayUpdate, MayDelete, MayHangUp, RequestsOverlap, TickOverlaps}
       \subseteq BOOLEAN

ASSUME IngestIndexAssumption == Parameters

VARIABLES
  rows,     \* memories joined with vector_lookup: text, indexed, vector id
  fts,      \* the text of the memory's row in fts_memories
  segment,  \* the entity's vector segment: vector id -> text embedded there
  loaded,   \* whether the segment has been loaded from vector_lookup
  nextVid,  \* the next rowid of memories (AUTOINCREMENT), 1 to MaxVid
  req,      \* the requests
  repair,   \* a run of reindex_rows, by the tick or inside a request
  fails, crashes

vars == <<rows, fts, segment, loaded, nextVid, req, repair, fails, crashes>>

Vid == 1..MaxVid
NoVid == 0
OrNone(S) == S \cup {None}

Row == [text: Text, indexed: BOOLEAN, vid: Vid]
NoRow == [text |-> None, indexed |-> FALSE, vid |-> NoVid]

Stage == {"idle", "check", "commit", "index", "repair", "repaired",
          "lookup", "erase", "forget", "done", "failed"}
\* A request; fts and vec are the states of its two indexing tasks.
Req == [stage: Stage, live: BOOLEAN, mem: OrNone(Memory), text: OrNone(Text),
        vid: Vid \cup {NoVid}, fts: {"none", "running", "ok", "failed"},
        vec: {"none", "running", "ok", "failed"}]
NewReq == [stage |-> "idle", live |-> TRUE, mem |-> None, text |-> None,
           vid |-> NoVid, fts |-> "none", vec |-> "none"]

Repairer == Request \cup {Tick}
\* The rows a repair read: text and vector id at that time.
Seen == [text: OrNone(Text), vid: Vid \cup {NoVid}]
NothingSeen == [text |-> None, vid |-> NoVid]
Repair == [stage: {"idle", "read", "fts", "vec", "finish"},
           saw: [Memory -> Seen]]
IdleRepair ==
  [stage |-> "idle", saw |-> [m \in Memory |-> NothingSeen]]

Embedded(c) == c \notin Unembedded

TaskRunning(r) == req[r].fts = "running" \/ req[r].vec = "running"
Working(r) ==
  \/ req[r].live /\ req[r].stage \notin {"idle", "done", "failed"}
  \/ req[r].stage \in {"commit", "erase", "forget"}
  \/ TaskRunning(r)
  \/ repair[r].stage # "idle"
Quiet == (\A r \in Request : ~Working(r)) /\ repair[Tick].stage = "idle"

\* The step leaves the tables and the segment alone.
IndexUnchanged == UNCHANGED <<rows, fts, segment, loaded, nextVid>>

Init ==
  /\ rows = [m \in Memory |-> NoRow]
  /\ fts = [m \in Memory |-> None]
  /\ segment = [v \in Vid |-> None]
  /\ loaded = FALSE
  /\ nextVid = 1
  /\ req = [r \in Request |-> NewReq]
  /\ repair = [p \in Repairer |-> IdleRepair]
  /\ fails = 0
  /\ crashes = 0

-----------------------------------------------------------------------------
(* Clients.                                                                *)

MaySend(r) ==
  /\ req[r].stage = "idle"
  /\ RequestsOverlap \/ \A q \in Request : ~Working(q)
  /\ TickOverlaps \/ repair[Tick].stage = "idle"

SendIngest(r, m, c) ==
  /\ MaySend(r)
  /\ MayUpdate \/ \A q \in Request : req[q].mem = m => req[q].text \in {c, None}
  /\ req' = [req EXCEPT ![r] = [NewReq EXCEPT !.stage = "check", !.mem = m,
                                              !.text = c]]
  /\ IndexUnchanged /\ UNCHANGED <<repair, fails, crashes>>

SendDelete(r, m) ==
  /\ MayDelete
  /\ MaySend(r)
  /\ req' = [req EXCEPT ![r] = [NewReq EXCEPT !.stage = "lookup", !.mem = m]]
  /\ IndexUnchanged /\ UNCHANGED <<repair, fails, crashes>>

\* The connection closes and the handler's future is dropped where it awaits.
\* A blocking task that was spawned runs on; what comes after it does not.  The
\* deletion is one blocking task.
NotSpawned(r) ==
  \/ req[r].stage \in {"check", "commit"}
  \/ /\ req[r].stage = "index" /\ req[r].fts = "running"
     /\ req[r].vec = IF Embedded(req[r].text) THEN "running" ELSE "ok"
  \/ req[r].stage = "repair" /\ repair[r].stage = "read"

HangUpBefore(r) ==
  /\ NotSpawned(r)
  /\ req' = [req EXCEPT ![r].stage = "failed", ![r].live = FALSE,
                        ![r].fts = "none", ![r].vec = "none"]
  /\ repair' = [repair EXCEPT ![r] = IdleRepair]

HangUpDuring(r) ==
  /\ req[r].stage \in {"commit", "index", "repair"}
  /\ req' = [req EXCEPT ![r].live = FALSE]
  /\ UNCHANGED repair

HangUp(r) ==
  /\ MayHangUp
  /\ req[r].live
  /\ HangUpBefore(r) \/ HangUpDuring(r)
  /\ IndexUnchanged /\ UNCHANGED <<fails, crashes>>

-----------------------------------------------------------------------------
(* Ingest.                                                                 *)

\* Slips: the filter looks at the content alone; an update keeps the flag; the
\* request marks its memory before its vector is in.
KeepPayloadByContent(m, c) == rows[m].text # c
CommittedRowKeepsFlag(m, c) ==
  [text |-> c, indexed |-> rows[m].indexed,
   vid |-> IF rows[m] = NoRow THEN nextVid ELSE rows[m].vid]
IndexedEarly(r) == req[r].stage = "index" /\ req[r].fts = "ok"

\* should_keep_payload: a memory stored with this content and indexed is left.
KeepPayload(m, c) == rows[m].text # c \/ ~rows[m].indexed

\* The filter reads the stored state; embedding follows, off the tables.
Check(r) ==
  /\ req[r].stage = "check" /\ req[r].live
  /\ req' = [req EXCEPT ![r].stage =
               IF KeepPayload(req[r].mem, req[r].text) THEN "commit" ELSE "done"]
  /\ IndexUnchanged /\ UNCHANGED <<repair, fails, crashes>>

\* Both tasks succeeded, or the repair did.
IndexDone(r) ==
  \/ req[r].stage = "index" /\ req[r].fts = "ok" /\ req[r].vec = "ok"
  \/ req[r].stage = "repaired"

\* insert_observations_tx: an existing row is updated in place and keeps its
\* rowid, which is the vector id; either way it is not indexed any more.
CommittedRow(m, c) ==
  [text |-> c, indexed |-> FALSE,
   vid |-> IF rows[m] = NoRow THEN nextVid ELSE rows[m].vid]

\* commit_ingest; then both indexing tasks are spawned together.  A text
\* without a vector has no vector batch: its task has nothing to do.
Commit(r) ==
  LET m == req[r].mem
      c == req[r].text
  IN  /\ req[r].stage = "commit"
      /\ rows[m] = NoRow => nextVid <= MaxVid
      /\ rows' = [rows EXCEPT ![m] = CommittedRow(m, c)]
      /\ nextVid' = IF rows[m] = NoRow THEN nextVid + 1 ELSE nextVid
      /\ req' = [req EXCEPT ![r] =
           IF @.live
           THEN [@ EXCEPT !.stage = "index", !.vid = rows'[m].vid,
                          !.fts = "running",
                          !.vec = IF Embedded(c) THEN "running" ELSE "ok"]
           ELSE [@ EXCEPT !.stage = "failed"]]
  /\ UNCHANGED <<fts, segment, loaded, repair, fails, crashes>>

\* A transaction of the request fails: nothing of it is stored, and the answer
\* is an error.
TransactionFails(r) ==
  /\ \/ req[r].stage \in {"commit", "erase"}
     \/ req[r].live /\ IndexDone(r)
  /\ fails < MaxFail
  /\ fails' = fails + 1
  /\ req' = [req EXCEPT ![r].stage = "failed"]
  /\ IndexUnchanged /\ UNCHANGED <<repair, crashes>>

\* fts_index_batch: INSERT OR REPLACE, whatever memories now holds.
IndexFts(r) ==
  /\ req[r].fts = "running"
  /\ fts' = [fts EXCEPT ![req[r].mem] = req[r].text]
  /\ req' = [req EXCEPT ![r].fts = "ok"]
  /\ UNCHANGED <<rows, segment, loaded, nextVid, repair, fails, crashes>>

\* insert_batch: a segment that is not loaded is left for its load.
Upserted(new) ==
  [v \in Vid |-> IF loaded /\ new[v] # None THEN new[v] ELSE segment[v]]

IndexVector(r) ==
  /\ req[r].vec = "running"
  /\ segment' = Upserted([v \in Vid |->
                   IF v = req[r].vid THEN req[r].text ELSE None])
  /\ req' = [req EXCEPT ![r].vec = "ok"]
  /\ UNCHANGED <<rows, fts, loaded, nextVid, repair, fails, crashes>>

IndexFails(r) ==
  /\ fails < MaxFail
  /\ fails' = fails + 1
  /\ \/ req[r].fts = "running" /\ req' = [req EXCEPT ![r].fts = "failed"]
     \/ req[r].vec = "running" /\ req' = [req EXCEPT ![r].vec = "failed"]
  /\ IndexUnchanged /\ UNCHANGED <<repair, crashes>>

\* One of the tasks failed: reindex_memory_ids runs before the answer.
StartRepair(r) ==
  /\ req[r].stage = "index" /\ req[r].live
  /\ ~TaskRunning(r)
  /\ "failed" \in {req[r].fts, req[r].vec}
  /\ req' = [req EXCEPT ![r].stage = "repair"]
  /\ repair' = [repair EXCEPT ![r].stage = "read"]
  /\ IndexUnchanged /\ UNCHANGED <<fails, crashes>>

\* mark_indexed: by memory id alone.  The request is acknowledged.
MarkIndexed(r) ==
  /\ req[r].live
  /\ IndexDone(r)
  /\ LET m == req[r].mem
     IN  rows' = IF rows[m] = NoRow THEN rows
                 ELSE [rows EXCEPT ![m].indexed = TRUE]
  /\ req' = [req EXCEPT ![r].stage = "done"]
  /\ UNCHANGED <<fts, segment, loaded, nextVid, repair, fails, crashes>>

-----------------------------------------------------------------------------
(* Repair: reindex_unindexed and reindex_memory_ids.                       *)

\* A slip: an inner join with the vector table.
WantedWithVector(p) ==
  {m \in Memory : rows[m] # NoRow /\ ~rows[m].indexed /\ Embedded(rows[m].text)
                  /\ (p \in Request => m = req[p].mem)}

StartTick ==
  /\ repair[Tick].stage = "idle"
  /\ TickOverlaps \/ \A r \in Request : ~Working(r)
  /\ \E m \in Memory : rows[m] # NoRow /\ ~rows[m].indexed
  /\ repair' = [repair EXCEPT ![Tick].stage = "read"]
  /\ IndexUnchanged /\ UNCHANGED <<req, fails, crashes>>

\* The rows still to be indexed: all of them, or the request's own.
Wanted(p) ==
  {m \in Memory : rows[m] # NoRow /\ ~rows[m].indexed
                  /\ (p \in Request => m = req[p].mem)}

\* Read outside any transaction.  An empty result is a success.
RepairRead(p) ==
  /\ repair[p].stage = "read"
  /\ repair' = [repair EXCEPT ![p] =
       IF Wanted(p) = {} THEN IdleRepair
       ELSE [stage |-> "fts",
             saw |-> [m \in Memory |->
               IF m \in Wanted(p) THEN [text |-> rows[m].text, vid |-> rows[m].vid]
               ELSE NothingSeen]]]
  /\ req' = IF p \in Request /\ Wanted(p) = {}
            THEN [req EXCEPT ![p].stage = "repaired"] ELSE req
  /\ IndexUnchanged /\ UNCHANGED <<fails, crashes>>

RepairFts(p) ==
  /\ repair[p].stage = "fts"
  /\ fts' = [m \in Memory |-> IF repair[p].saw[m].text # None
                              THEN repair[p].saw[m].text ELSE fts[m]]
  /\ repair' = [repair EXCEPT ![p].stage = "vec"]
  /\ UNCHANGED <<rows, segment, loaded, nextVid, req, fails, crashes>>

RepairVector(p) ==
  LET saw == repair[p].saw
      at(v) == {saw[m].text : m \in {n \in Memory : saw[n].vid = v}} \ Unembedded
  IN  /\ repair[p].stage = "vec"
      /\ segment' = Upserted([v \in Vid |->
                      IF at(v) = {} THEN None ELSE CHOOSE c \in at(v) : TRUE])
      /\ repair' = [repair EXCEPT ![p].stage = "finish"]
  /\ UNCHANGED <<rows, fts, loaded, nextVid, req, fails, crashes>>

\* A row with the content that was read is finished, one with another content
\* is scheduled again.
Finished(row, saw) ==
  IF row = NoRow \/ saw.text = None THEN row
  ELSE [row EXCEPT !.indexed = row.text = saw.text]

RepairFinish(p) ==
  /\ repair[p].stage = "finish"
  /\ rows' = [m \in Memory |-> Finished(rows[m], repair[p].saw[m])]
  /\ repair' = [repair EXCEPT ![p] = IdleRepair]
  /\ req' = IF p \in Request THEN [req EXCEPT ![p].stage = "repaired"] ELSE req
  /\ UNCHANGED <<fts, segment, loaded, nextVid, fails, crashes>>

\* An error ends the repair; a request then answers 500, the tick goes on.
RepairFails(p) ==
  /\ repair[p].stage # "idle"
  /\ fails < MaxFail
  /\ fails' = fails + 1
  /\ repair' = [repair EXCEPT ![p] = IdleRepair]
  /\ req' = IF p \in Request THEN [req EXCEPT ![p].stage = "failed"] ELSE req
  /\ IndexUnchanged /\ UNCHANGED crashes

-----------------------------------------------------------------------------
(* Deletion, the segment's load, crashes.                                  *)

\* Slips: the text row or the cached vector survives.
ErasedFtsKept(m) == fts
ForgottenNot(v) == segment

LookUp(r) ==
  /\ req[r].stage = "lookup"
  /\ req' = [req EXCEPT ![r].stage =
               IF rows[req[r].mem] = NoRow THEN "done" ELSE "erase"]
  /\ IndexUnchanged /\ UNCHANGED <<repair, fails, crashes>>

ErasedFts(m) == [fts EXCEPT ![m] = None]
Forgotten(v) == IF v = NoVid THEN segment ELSE [segment EXCEPT ![v] = None]

\* delete_observation, one transaction.
Erase(r) ==
  LET m == req[r].mem
  IN  /\ req[r].stage = "erase"
      /\ rows' = [rows EXCEPT ![m] = NoRow]
      /\ fts' = ErasedFts(m)
      /\ req' = [req EXCEPT ![r].stage = "forget",
           ![r].vid = IF rows[m] # NoRow /\ Embedded(rows[m].text)
                      THEN rows[m].vid ELSE NoVid]
  /\ UNCHANGED <<segment, loaded, nextVid, repair, fails, crashes>>

\* vectors.remove of the vector id the transaction found.
Forget(r) ==
  /\ req[r].stage = "forget"
  /\ segment' = Forgotten(req[r].vid)
  /\ req' = [req EXCEPT ![r].stage = "done"]
  /\ UNCHANGED <<rows, fts, loaded, nextVid, repair, fails, crashes>>

\* A search of the entity loads its segment, under the segment's lock.
Load ==
  /\ ~loaded
  /\ loaded' = TRUE
  /\ segment' = [v \in Vid |->
       IF \E m \in Memory : rows[m].vid = v /\ Embedded(rows[m].text)
       THEN rows[CHOOSE m \in Memory : rows[m].vid = v].text ELSE None]
  /\ UNCHANGED <<rows, fts, nextVid, req, repair, fails, crashes>>

Crash ==
  /\ crashes < MaxCrash
  /\ crashes' = crashes + 1
  /\ loaded' = FALSE
  /\ segment' = [v \in Vid |-> None]
  /\ req' = [r \in Request |->
       IF req[r].stage \in {"idle", "done"} THEN req[r]
       ELSE [req[r] EXCEPT !.stage = "failed", !.live = FALSE,
                           !.fts = "none", !.vec = "none"]]
  /\ repair' = [p \in Repairer |-> IdleRepair]
  /\ UNCHANGED <<rows, fts, nextVid, fails>>

-----------------------------------------------------------------------------

Send(r) ==
  \E m \in Memory : SendDelete(r, m) \/ \E c \in Text : SendIngest(r, m, c)

RepairStep(p) ==
  \/ RepairRead(p) \/ RepairFts(p) \/ RepairVector(p) \/ RepairFinish(p)

Next ==
  \/ \E r \in Request :
       \/ Send(r) \/ HangUp(r)
       \/ Check(r) \/ Commit(r) \/ TransactionFails(r)
       \/ IndexFts(r) \/ IndexVector(r) \/ IndexFails(r)
       \/ StartRepair(r) \/ MarkIndexed(r)
       \/ LookUp(r) \/ Erase(r) \/ Forget(r)
  \/ StartTick
  \/ \E p \in Repairer : RepairStep(p) \/ RepairFails(p)
  \/ Load
  \/ Crash

Spec == Init /\ [][Next]_vars

\* The interval timer keeps starting the tick, and its blocking task runs on.
\* Nothing is assumed of clients, of their requests or of searches.
FairSpec == Spec /\ WF_vars(StartTick) /\ WF_vars(RepairStep(Tick))

-----------------------------------------------------------------------------
(* Properties.                                                             *)

\* The variables have their types; an unloaded segment holds nothing.
TypeOK ==
  /\ rows \in [Memory -> Row \cup {NoRow}]
  /\ fts \in [Memory -> OrNone(Text)]
  /\ segment \in [Vid -> OrNone(Text)]
  /\ loaded \in BOOLEAN
  /\ nextVid \in 1..MaxVid + 1
  /\ req \in [Request -> Req]
  /\ repair \in [Repairer -> Repair]
  /\ fails \in 0..MaxFail
  /\ crashes \in 0..MaxCrash
  /\ ~loaded => \A v \in Vid : segment[v] = None

\* A search finds memory m by text c: the FTS row says c, and so does its
\* vector, or a load of the segment will bring it in.
Searchable(m, c) ==
  /\ rows[m].text = c
  /\ fts[m] = c
  /\ Embedded(c) /\ loaded => segment[rows[m].vid] = c

\* The indexed flag tells the truth, whatever ran, failed or crashed: the
\* repair never looks at a row whose flag is set.  Only where nothing overlaps:
\* mark_indexed names a memory that may have been written anew meanwhile.
IndexedIsSearchable ==
  \A m \in Memory : rows[m].indexed => Searchable(m, rows[m].text)

\* Of memory m clients have sent content c, and neither another one nor a
\* deletion.
OnlySent(m, c) == \A r \in Request : req[r].mem = m => req[r].text = c

\* Whatever overlaps, fails or crashes, the flag tells the truth of a memory
\* that is only sent with one content.
OneContentIsSearchable ==
  \A m \in Memory, c \in Text :
    rows[m].indexed /\ OnlySent(m, c) => Searchable(m, c)

\* A client that is told its ingest succeeded can find what it sent, unless
\* the memory was changed or deleted meanwhile: also when the answer is
\* "already stored" and another request or the tick stored it.
AckedIsSearchable ==
  [][\A r \in Request :
       /\ req'[r].stage = "done" /\ req[r].stage # "done"
       /\ req[r].text # None /\ OnlySent(req[r].mem, req[r].text)
       => Searchable(req[r].mem, req[r].text)']_vars

\* A deleted memory leaves no text in the full-text table.
NoOrphanText ==
  Quiet => \A m \in Memory : rows[m] = NoRow => fts[m] = None

\* The segment is a cache of vector_lookup: each vector it holds belongs to a
\* row, and is that row's vector unless the row waits for its repair.
SegmentMirrorsLookup ==
  Quiet => \A v \in Vid : segment[v] # None =>
    \E m \in Memory :
      /\ rows[m].vid = v
      /\ Embedded(rows[m].text)
      /\ rows[m].indexed => rows[m].text = segment[v]

\* Every stored memory becomes searchable at last or is deleted, even if its
\* client hung up or the process crashed between the commit and the indexing.
Recovered == \A m \in Memory :
  rows[m] # NoRow ~>
    \/ rows[m] = NoRow
    \/ rows[m].indexed /\ Searchable(m, rows[m].text)

-----------------------------------------------------------------------------
(* What the tests say and the code does not keep.                          *)

\* stale_repair_cannot_mark_newer_content_complete: a row that is marked
\* complete is found by its newest content.
NewestContentComplete ==
  Quiet => \A m \in Memory : rows[m].indexed => fts[m] = rows[m].text

=============================================================================
