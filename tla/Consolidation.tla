--------------------------- MODULE Consolidation ---------------------------
(***************************************************************************)
(* The core profile of one entity: its most recent facts, kept as a short  *)
(* list in core_profiles.  An ingest stores a task in consolidation_queue  *)
(* in the transaction that stores the memory; after its answer a blocking  *)
(* task folds the memory into the profile and then deletes the queue row.  *)
(* What a crash, an error or a dropped handler leaves in the queue, the    *)
(* maintenance tick picks up.  Each of these is a transaction of its own.  *)
(***************************************************************************)
EXTENDS Integers, FiniteSets, Sequences, SequencesExt

CONSTANTS
  Memory,        \* memory ids
  Text,          \* contents
  Blank,         \* a content whose excerpt is empty
  Worker,        \* blocking tasks spawned by ingests, one memory each
  Tick,          \* the maintenance task
  MaxTime,       \* event times are 0..MaxTime
  MaxFacts,      \* MAX_PROFILE_FACTS
  MaxIngest, MaxFail, MaxCrash,  \* bounds on commits, errors and crashes
  MayUpdate,     \* a stored memory is ingested with another time or text
  MayDelete,     \* memories are deleted
  DeletesOverlap \* while a blocking task or the tick is at work

Parameters ==
  /\ {MaxTime, MaxIngest, MaxFail, MaxCrash} \subseteq Nat /\ MaxFacts \in Nat \ {0}
  /\ {MayUpdate, MayDelete, DeletesOverlap} \subseteq BOOLEAN

VARIABLES
  stored,   \* the memory rows: a set of facts, one per memory
  queue,    \* consolidation_queue, one row per memory
  profile,  \* the facts of core_profiles, newest first
  proc,     \* the blocking tasks and the tick
  ingests, fails, crashes

vars == <<stored, queue, profile, proc, ingests, fails, crashes>>

Fact == [mem: Memory, ts: 0..MaxTime, text: Text]
Process == Worker \cup {Tick}

\* todo: tasks read and not yet folded in; now: those folded in whose queue
\* row is still to be deleted.
Idle == [todo |-> {}, now |-> {}]
Working(p) == proc[p] # Idle

IdsOf(S) == {f.mem : f \in S}
OfOthers(S, m) == {f \in S : f.mem # m}

\* INSERT OR REPLACE, the memory id being the key.
Replaced(S, f) == OfOthers(S, f.mem) \cup {f}

Init ==
  /\ stored = {}
  /\ queue = {}
  /\ profile = <<>>
  /\ proc = [p \in Process |-> Idle]
  /\ ingests = 0 /\ fails = 0 /\ crashes = 0

-----------------------------------------------------------------------------
(* Ingest and deletion.                                                    *)

\* The filter lets a stored memory through when its content changed, or when
\* it is not indexed yet, which is a retry of the same content.
Ingestable(f) ==
  MayUpdate \/ \A g \in stored : g.mem = f.mem => g = f

\* The commit: INSERT OR REPLACE of the memory's row in both tables.  Then the
\* handler hands the task to a blocking task, unless it failed or was dropped.
Ingest(f) ==
  /\ ingests < MaxIngest
  /\ Ingestable(f)
  /\ stored' = Replaced(stored, f)
  /\ queue' = Replaced(queue, f)
  /\ \/ \E w \in Worker :
          ~Working(w) /\ proc' = [proc EXCEPT ![w].todo = {f}]
     \/ UNCHANGED proc
  /\ ingests' = ingests + 1
  /\ UNCHANGED <<profile, fails, crashes>>

\* p has a fact of m.
Listing(p, m) == \E i \in DOMAIN p : p[i].mem = m

\* The sort by time is stable: f goes behind what is as recent, which comes
\* first in a profile (ListedOnce).
Recent(p, f) == Cardinality({i \in DOMAIN p : p[i].ts >= f.ts})
Placed(p, f) == InsertAt(p, Recent(p, f) + 1, f)
Cut(p) == SubSeq(p, 1, IF Len(p) < MaxFacts THEN Len(p) ELSE MaxFacts)

\* Slips: a deletion that leaves the profile alone; a profile that does not ask
\* whether the memory is in it, keeps everything, or keeps the latest to arrive.
ProfileKept(p, m) == p
FoldedTwice(p, f) == Cut(Placed(p, f))
FoldedWhole(p, f) == IF f.text = Blank \/ Listing(p, f.mem) THEN p ELSE Placed(p, f)
FoldedByArrival(p, f) ==
  IF f.text = Blank \/ Listing(p, f.mem) THEN p ELSE Cut(<<f>> \o p)

\* remove_deleted_from_core_profiles.
ProfileWithout(p, m) ==
  FoldLeft(LAMBDA q, e : IF e.mem = m THEN q ELSE Append(q, e), <<>>, p)

\* delete_observation, as far as the queue and the profile go.
Delete(m) ==
  /\ MayDelete
  /\ DeletesOverlap \/ \A p \in Process : ~Working(p)
  /\ m \in IdsOf(stored)
  /\ stored' = OfOthers(stored, m)
  /\ queue' = OfOthers(queue, m)
  /\ profile' = ProfileWithout(profile, m)
  /\ UNCHANGED <<proc, ingests, fails, crashes>>

-----------------------------------------------------------------------------
(* Consolidation.                                                          *)

\* A fact whose memory is in the profile already, or that has no excerpt,
\* changes nothing; any other takes its place by time, after those of the same
\* time, and the oldest fall off the end.
Folded(p, f) ==
  IF f.text = Blank \/ Listing(p, f.mem) THEN p ELSE Cut(Placed(p, f))

\* A slip: the tick skips tasks that seem done.
PendingNotFolded == {f \in queue : f.mem \notin IdsOf({profile[i] : i \in DOMAIN profile})}

Pending == queue

\* run_pending_consolidations: ORDER BY timestamp_ms, memory_id.
StartTick ==
  /\ ~Working(Tick)
  /\ Pending # {}
  /\ proc' = [proc EXCEPT ![Tick].todo = Pending]
  /\ UNCHANGED <<stored, queue, profile, ingests, fails, crashes>>

Earliest(S) == {f \in S : \A g \in S : f.ts <= g.ts}

\* update_core_profile_heuristic, one immediate transaction.
UpdateProfile(p) ==
  /\ proc[p].now = {}
  /\ \E f \in Earliest(proc[p].todo) :
       /\ profile' = Folded(profile, f)
       /\ proc' = [proc EXCEPT ![p] = [todo |-> @.todo \ {f}, now |-> {f}]]
  /\ UNCHANGED <<stored, queue, ingests, fails, crashes>>

\* complete_consolidation_task: by memory id.
CompleteTask(p) ==
  \E f \in proc[p].now :
    /\ queue' = OfOthers(queue, f.mem)
    /\ proc' = [proc EXCEPT ![p].now = {}]
    /\ UNCHANGED <<stored, profile, ingests, fails, crashes>>

\* An error leaves the rest in the queue: a worker goes on to its next task (it
\* has only one here), the tick ends.
AfterError(p) == Idle
ConsolidationFails(p) ==
  /\ Working(p)
  /\ fails < MaxFail
  /\ fails' = fails + 1
  /\ proc' = [proc EXCEPT ![p] = AfterError(p)]
  /\ UNCHANGED <<stored, queue, profile, ingests, crashes>>

Crash ==
  /\ crashes < MaxCrash
  /\ crashes' = crashes + 1
  /\ proc' = [p \in Process |-> Idle]
  /\ UNCHANGED <<stored, queue, profile, ingests, fails>>

-----------------------------------------------------------------------------

Step(p) == UpdateProfile(p) \/ CompleteTask(p)

Next ==
  \/ \E f \in Fact : Ingest(f)
  \/ \E m \in Memory : Delete(m)
  \/ StartTick
  \/ \E p \in Process : Step(p) \/ ConsolidationFails(p)
  \/ Crash

Spec == Init /\ [][Next]_vars

\* The interval timer keeps starting the tick, and its task runs on.
FairSpec == Spec /\ WF_vars(StartTick) /\ WF_vars(Step(Tick))

-----------------------------------------------------------------------------
(* Properties.                                                             *)

Listed == {profile[i] : i \in DOMAIN profile}

\* The variables have their types, and the tables one row per memory.
TypeOK ==
  /\ stored \in SUBSET Fact /\ queue \in SUBSET Fact
  /\ profile \in Seq(Fact) /\ Len(profile) <= MaxFacts
  /\ proc \in [Process -> [todo: SUBSET Fact, now: SUBSET Fact]]
  /\ \A f, g \in stored : f.mem = g.mem => f = g
  /\ \A f, g \in queue : f.mem = g.mem => f = g
  /\ ingests \in 0..MaxIngest /\ fails \in 0..MaxFail /\ crashes \in 0..MaxCrash

\* A task may be done twice, by its worker and the tick or again after a
\* crash: the profile still lists a memory once, newest first.
ListedOnce ==
  \A i, j \in DOMAIN profile : i < j =>
    /\ profile[i].mem # profile[j].mem
    /\ profile[i].ts >= profile[j].ts

\* Nothing is lost on the way: a stored fact is in the queue, or its memory is
\* in the profile, or MaxFacts facts at least as recent have taken its place.
\* No step but a deletion, which may free a place, takes that from a fact.
AccountedFor(f) ==
  \/ f \in queue \/ f.text = Blank \/ f.mem \in IdsOf(Listed)
  \/ Len(profile) = MaxFacts /\ \A e \in Listed : e.ts >= f.ts
NoFactLost ==
  [][stored \subseteq stored' =>
       \A f \in stored' : (f \in stored => AccountedFor(f)) => AccountedFor(f)']_vars

\* The queue empties: every task is done in the end, in spite of errors,
\* crashes and dropped handlers.
Drained == \A m \in Memory : m \in IdsOf(queue) ~> m \notin IdsOf(queue)

\* deleted_memory_leaves_no_text_anywhere: the profile quotes stored memories.
ProfileOfStored == IdsOf(Listed) \subseteq IdsOf(stored)

\* "Keeps the most recent facts per entity", whatever was deleted: once the
\* queue is empty no stored fact is left out while the profile has room.
KeepsMostRecent ==
  queue = {} /\ (\A p \in Process : ~Working(p)) =>
    \A f \in stored : AccountedFor(f)

=============================================================================
