---------------------------- MODULE VectorCache ----------------------------
(***************************************************************************)
(* The vectors of one entity of one tenant: the rows of vector_lookup, and *)
(* the segments that cache them in memory.  A store opened by the tenant   *)
(* manager has an index of its own; the index keeps one slot per entity,   *)
(* behind a lock, whose segment is loaded from the table on first use.  A  *)
(* writer commits its rows first and changes the segment afterwards, under *)
(* the slot's lock.  The manager forgets the least recently used store     *)
(* when others are opened, while requests still hold it.                   *)
(***************************************************************************)
EXTENDS Integers, FiniteSets

CONSTANTS
  Vid,         \* vector ids
  MaxVersion,  \* the vectors an id may be given are 1..MaxVersion
  Proc,        \* requests and maintenance tasks
  Threshold,   \* flat_threshold
  MaxStore,    \* bound on the stores opened, numbered in order
  MaxSlot,     \* bound on the slots created, numbered in order
  MaxOps,      \* bound on the operations started
  MaxFail,     \* bound on failing loads and upserts that a graph refuses
  MayReset,    \* the tenant is reset
  MayEvict,    \* the tenant's store may be evicted while it is in use
  SharedVectors \* two operations at once may write the same id

VARIABLES
  table,    \* vector_lookup: the version of each id, 0 when it has no row
  current,  \* the store the manager hands out, 0 when it has none open
  stores,   \* the number of stores opened so far
  slotOf,   \* the slot of each store's index, 0 before its first use
  slots,    \* the number of slots created so far
  segment,  \* the segment in each slot
  proc,
  ops, fails

vars == <<table, current, stores, slotOf, slots, segment, proc, ops, fails>>

\* What the constants are: any finite set of ids, any bounds and threshold.
Sizes ==
  /\ IsFiniteSet(Vid)
  /\ {MaxVersion, Threshold, MaxStore, MaxSlot, MaxOps, MaxFail} \subseteq Nat

Store == 1..MaxStore
Slot == 1..MaxSlot
Vectors == [Vid -> 0..MaxVersion]
Empty == [v \in Vid |-> 0]
Present(vs) == {v \in Vid : vs[v] # 0}

\* None until it is loaded.
Kind == {"none", "flat", "hnsw"}
Segment == [kind: Kind, has: Vectors]
NotLoaded == [kind |-> "none", has |-> Empty]

\* A process: what it does, to which ids (todo: the new versions, 0 to remove),
\* with which store and slot.  saw: the rows a load read.
Process ==
  [stage: {"idle", "begin", "slot", "insert", "remove", "clear", "scan", "load"},
   op: {"none", "write", "delete", "search", "reset"},
   todo: [Vid -> -1..MaxVersion], store: 0..MaxStore, slot: 0..MaxSlot, saw: Vectors]
Untouched == [v \in Vid |-> -1]
IdleProc ==
  [stage |-> "idle", op |-> "none", todo |-> Untouched, store |-> 0, slot |-> 0,
   saw |-> Empty]
Touched(todo) == {v \in Vid : todo[v] # -1}

Init ==
  /\ table = Empty
  /\ current = 0 /\ stores = 0
  /\ slotOf = [s \in Store |-> 0]
  /\ slots = 0
  /\ segment = [s \in Slot |-> NotLoaded]
  /\ proc = [p \in Proc |-> IdleProc]
  /\ ops = 0 /\ fails = 0

-----------------------------------------------------------------------------
(* The tenant manager.                                                     *)

\* Slips: a slot is not locked while it loads; the graph comes one vector late.
LockedNever(s) == FALSE
CrossedLate(vs) == Cardinality(Present(vs)) > Threshold + 1

\* A process that loads a segment holds the slot's lock from the read of the
\* rows to the end of the load.
Locked(s) == \E p \in Proc : proc[p].stage = "load" /\ proc[p].slot = s

Crossed(vs) == Cardinality(Present(vs)) > Threshold

\* Stores before the current one live on in the requests that hold them.
Writes(p) == IF proc[p].op \in {"write", "delete", "reset"}
             THEN Touched(proc[p].todo) ELSE {}

\* get_tenant: the open store, or a new one with an empty index.
Start(p, op, todo) ==
  /\ proc[p].stage = "idle"
  /\ ops < MaxOps
  /\ current # 0 \/ stores < MaxStore
  /\ SharedVectors \/ \A q \in Proc : Writes(q) \cap Touched(todo) = {}
  /\ stores' = IF current = 0 THEN stores + 1 ELSE stores
  /\ current' = IF current = 0 THEN stores + 1 ELSE current
  /\ proc' = [proc EXCEPT ![p] =
       [IdleProc EXCEPT !.stage = IF op = "search" THEN "slot" ELSE "begin",
                        !.op = op, !.todo = todo, !.store = current']]
  /\ ops' = ops + 1
  /\ UNCHANGED <<table, slotOf, slots, segment, fails>>

\* A batch of new or replaced vectors, one removal, a search, a reset.
StartAny(p) ==
  \/ \E todo \in [Vid -> {-1} \cup 1..MaxVersion] :
       Touched(todo) # {} /\ Start(p, "write", todo)
  \/ \E v \in Vid : Start(p, "delete", [Untouched EXCEPT ![v] = 0])
  \/ Start(p, "search", Untouched)
  \/ MayReset /\ Start(p, "reset", Empty)

\* Other tenants are opened until this one is the least recently used.
Evict ==
  /\ MayEvict \/ \A p \in Proc : proc[p].stage = "idle"
  /\ current # 0
  /\ current' = 0
  /\ UNCHANGED <<table, stores, slotOf, slots, segment, proc, ops, fails>>

-----------------------------------------------------------------------------
(* Writers.                                                                *)

\* The transaction of an ingest, a deletion or a reset.
Commit(p) ==
  /\ proc[p].stage = "begin"
  /\ table' = [v \in Vid |-> IF proc[p].todo[v] = -1 THEN table[v] ELSE proc[p].todo[v]]
  /\ proc' = [proc EXCEPT ![p].stage =
                IF proc[p].op = "reset" THEN "clear" ELSE "slot"]
  /\ UNCHANGED <<current, stores, slotOf, slots, segment, ops, fails>>

NextStage(op) ==
  CASE op = "write" -> "insert" [] op = "delete" -> "remove" [] op = "search" -> "scan"

\* slot(): the store's slot, or a new one.  It may be cleared away before it is
\* locked.
TakeSlot(p) ==
  LET s == proc[p].store
  IN  /\ proc[p].stage = "slot"
      /\ slotOf[s] = 0 => slots < MaxSlot
      /\ slots' = IF slotOf[s] = 0 THEN slots + 1 ELSE slots
      /\ slotOf' = [slotOf EXCEPT ![s] = IF @ = 0 THEN slots + 1 ELSE @]
      /\ proc' = [proc EXCEPT ![p].slot = slotOf'[s],
                              ![p].stage = NextStage(proc[p].op)]
  /\ UNCHANGED <<table, current, stores, segment, ops, fails>>

\* A slip: vectors go into a segment that is not loaded, too.
InsertedUnloaded(seg, todo) ==
  [seg EXCEPT !.has = [v \in Vid |-> IF todo[v] = -1 THEN @[v] ELSE todo[v]]]

\* insert_batch.  A segment that is not loaded will read the rows when it is; a
\* flat one that grew past the threshold is dropped, to be loaded as a graph.
Inserted(seg, todo) ==
  LET has == [v \in Vid |-> IF todo[v] = -1 THEN seg.has[v] ELSE todo[v]]
  IN  IF seg.kind = "none" \/ (seg.kind = "flat" /\ Crossed(has)) THEN NotLoaded
      ELSE [seg EXCEPT !.has = has]

Insert(p) ==
  /\ proc[p].stage = "insert"
  /\ ~Locked(proc[p].slot)
  /\ segment' = [segment EXCEPT ![proc[p].slot] = Inserted(@, proc[p].todo)]
  /\ proc' = [proc EXCEPT ![p] = IdleProc]
  /\ UNCHANGED <<table, current, stores, slotOf, slots, ops, fails>>

\* The graph replaces vectors one after the other by removing and adding them;
\* it refuses one, which is then in neither place.  The memories stay unindexed
\* and a repair inserts the batch again.
InsertFails(p) ==
  LET s == proc[p].slot
      todo == proc[p].todo
  IN  /\ proc[p].stage = "insert"
      /\ ~Locked(s)
      /\ fails < MaxFail
      /\ segment[s].kind = "hnsw"
      /\ \E done \in SUBSET Touched(todo) : \E v \in Touched(todo) \ done :
           segment' = [segment EXCEPT ![s].has =
             [u \in Vid |-> IF u \in done THEN todo[u] ELSE IF u = v THEN 0 ELSE @[u]]]
      /\ proc' = [proc EXCEPT ![p].stage = "slot"]
      /\ fails' = fails + 1
  /\ UNCHANGED <<table, current, stores, slotOf, slots, ops>>

\* remove: of one id, in whatever kind of segment is loaded.
Remove(p) ==
  LET s == proc[p].slot
  IN  /\ proc[p].stage = "remove"
      /\ ~Locked(s)
      /\ segment' = [segment EXCEPT ![s].has =
           [v \in Vid |-> IF v \in Touched(proc[p].todo) THEN 0 ELSE @[v]]]
      /\ proc' = [proc EXCEPT ![p] = IdleProc]
  /\ UNCHANGED <<table, current, stores, slotOf, slots, ops, fails>>

\* clear(None) forgets the slots; who took one before goes on with it.
Clear(p) ==
  /\ proc[p].stage = "clear"
  /\ slotOf' = [slotOf EXCEPT ![proc[p].store] = 0]
  /\ proc' = [proc EXCEPT ![p] = IdleProc]
  /\ UNCHANGED <<table, current, stores, slots, segment, ops, fails>>

-----------------------------------------------------------------------------
(* Searches: with_segment.                                                 *)

Scan(p) ==
  /\ proc[p].stage = "scan"
  /\ ~Locked(proc[p].slot)
  /\ segment[proc[p].slot].kind # "none"
  /\ proc' = [proc EXCEPT ![p] = IdleProc]
  /\ UNCHANGED <<table, current, stores, slotOf, slots, segment, ops, fails>>

\* The lock is upgraded, then entity_vectors reads the rows.
StartLoad(p) ==
  /\ proc[p].stage = "scan"
  /\ ~Locked(proc[p].slot)
  /\ segment[proc[p].slot].kind = "none"
  /\ proc' = [proc EXCEPT ![p].stage = "load", ![p].saw = table]
  /\ UNCHANGED <<table, current, stores, slotOf, slots, segment, ops, fails>>

\* build_segment; then the lock is downgraded for the scan.
FinishLoad(p) ==
  /\ proc[p].stage = "load"
  /\ segment' = [segment EXCEPT ![proc[p].slot] =
       [kind |-> IF Crossed(proc[p].saw) THEN "hnsw" ELSE "flat",
        has |-> proc[p].saw]]
  /\ proc' = [proc EXCEPT ![p] = IdleProc]
  /\ UNCHANGED <<table, current, stores, slotOf, slots, ops, fails>>

\* The rows cannot be read or built: the search fails, the slot stays as it is.
LoadFails(p) ==
  /\ proc[p].stage = "load"
  /\ fails < MaxFail
  /\ fails' = fails + 1
  /\ proc' = [proc EXCEPT ![p] = IdleProc]
  /\ UNCHANGED <<table, current, stores, slotOf, slots, segment, ops>>

-----------------------------------------------------------------------------

Next ==
  \/ Evict
  \/ \E p \in Proc :
       \/ StartAny(p) \/ Commit(p) \/ TakeSlot(p)
       \/ Insert(p) \/ InsertFails(p) \/ Remove(p) \/ Clear(p)
       \/ Scan(p) \/ StartLoad(p) \/ FinishLoad(p) \/ LoadFails(p)

Spec == Init /\ [][Next]_vars

-----------------------------------------------------------------------------
(* Properties.                                                             *)

TypeOK ==
  /\ table \in Vectors
  /\ current \in 0..MaxStore /\ stores \in 0..MaxStore
  /\ slotOf \in [Store -> 0..MaxSlot]
  /\ slots \in 0..MaxSlot
  /\ segment \in [Slot -> Segment]
  /\ proc \in [Proc -> Process]
  /\ ops \in 0..MaxOps /\ fails \in 0..MaxFail
  /\ \A s \in Slot : segment[s].kind = "none" => segment[s].has = Empty

\* The segment a search of the tenant will use.
CurrentSlot == IF current = 0 THEN 0 ELSE slotOf[current]

\* Process p has committed a change of v that its segment is still to see.
Owed(v) ==
  \E p \in Proc : v \in Writes(p) /\ proc[p].stage \in {"slot", "insert", "remove", "clear"}

\* The index is a cache of vector_lookup: a loaded segment differs from the
\* table only where a writer that has committed is on its way to it, also when
\* it was loaded between the commit and the writer's turn at the lock.
SegmentCoherent ==
  CurrentSlot # 0 /\ segment[CurrentSlot].kind # "none" =>
    \A v \in Vid : segment[CurrentSlot].has[v] # table[v] => Owed(v)

\* No flat segment outgrows the threshold, so no search scans more than that.
FlatIsBounded ==
  \A s \in Slot : segment[s].kind = "flat" =>
    Cardinality(Present(segment[s].has)) <= Threshold

\* "Segments with at most TELLODB_FLAT_THRESHOLD vectors are searched exactly".
SmallIsFlat ==
  \A s \in Slot : segment[s].kind = "hnsw" =>
    Cardinality(Present(segment[s].has)) > Threshold

=============================================================================
