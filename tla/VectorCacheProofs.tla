------------------------- MODULE VectorCacheProofs -------------------------
(***************************************************************************)
(* Theorems about VectorCache for any vectors, processes and bounds: the   *)
(* segments stay a cache of vector_lookup as long as the store is not      *)
(* evicted while requests hold it and no two operations at once write the  *)
(* same id (MayEvict = FALSE, SharedVectors = FALSE).                      *)
(***************************************************************************)
EXTENDS VectorCache, FiniteSetTheorems, TLAPS

-----------------------------------------------------------------------------
(* The inductive invariant.                                                *)

Stages == {"idle", "begin", "slot", "insert", "remove", "clear", "scan", "load"}

\* What an operation knows of its ids, its store and its slot at each stage.
ProcessFits(r) ==
  /\ r.stage = "idle" <=> r.op = "none"
  /\ r.stage = "clear" => r.op = "reset"
  /\ r.stage = "insert" => r.op = "write"
  /\ r.stage = "remove" => r.op = "delete"
  /\ r.stage \in {"scan", "load"} => r.op = "search"
  /\ r.stage = "slot" => r.op \in {"write", "delete", "search"}
  /\ r.stage = "begin" => r.op \in {"write", "delete", "reset"}
  /\ r.op = "delete" => \A v \in Touched(r.todo) : r.todo[v] = 0
  /\ r.op = "reset" => Touched(r.todo) = Vid
  /\ r.op \in {"write", "delete"} => Touched(r.todo) # {}
  /\ r.stage # "idle" => r.store \in Store
  /\ r.stage \in {"insert", "remove", "scan", "load"} => r.slot \in Slot

\* Stores and slots that are still to come are empty.
Fresh ==
  /\ current <= stores
  /\ \A s \in Store : slotOf[s] <= slots /\ (s > stores => slotOf[s] = 0)
  /\ \A s \in Slot : s > slots => segment[s] = NotLoaded

\* Everyone works on the open store: it is not evicted under them.
OneStore ==
  \A p \in Proc : proc[p].stage # "idle" => current # 0 /\ proc[p].store = current

\* Writers have ids of their own.
Disjoint == \A p, q \in Proc : p # q => Writes(p) \cap Writes(q) = {}

\* The rows are committed before the segment changes.
Committed ==
  \A p \in Proc : proc[p].stage \in {"slot", "insert", "remove", "clear"} =>
    \A v \in Writes(p) : table[v] = proc[p].todo[v]

\* A writer has the slot that searches use.  It is not cleared away, because a
\* reset writes every id.
SlotFits ==
  \A p \in Proc :
    /\ proc[p].stage \in {"insert", "remove", "scan", "load"} => proc[p].slot \in 1..slots
    /\ proc[p].stage \in {"insert", "remove"} => proc[p].slot = slotOf[current]

\* The rows a load has read are those of the table, but for what writers are
\* about to change, who wait for the lock.
LoadFits ==
  \A p \in Proc : proc[p].stage = "load" /\ proc[p].slot = CurrentSlot =>
    \A v \in Vid : proc[p].saw[v] # table[v] => Owed(v)

Types == TypeOK /\ \A p \in Proc : ProcessFits(proc[p])

CacheInv ==
  /\ Types
  /\ Fresh /\ OneStore /\ Disjoint /\ Committed /\ SlotFits /\ LoadFits
  /\ SegmentCoherent

-----------------------------------------------------------------------------
(* Types.                                                                  *)

LEMMA Records ==
  ASSUME Sizes
  PROVE  /\ Empty \in Vectors /\ Untouched \in [Vid -> -1..MaxVersion]
         /\ IdleProc \in Process
         /\ NotLoaded \in Segment
<1>1. Empty \in Vectors /\ Untouched \in [Vid -> -1..MaxVersion]
  BY DEF Sizes, Empty, Vectors, Untouched
<1>. QED  BY <1>1 DEF Sizes, IdleProc, Process, NotLoaded, Segment, Kind

\* The updates of a process keep it one.
LEMMA ProcessUpdates ==
  ASSUME NEW r \in Process, NEW st \in Stages, NEW sl \in 0..MaxSlot, NEW vs \in Vectors
  PROVE  /\ [r EXCEPT !.stage = st] \in Process
         /\ [r EXCEPT !.slot = sl, !.stage = st] \in Process
         /\ [r EXCEPT !.stage = st, !.saw = vs] \in Process
BY DEF Process, Stages

\* What a process starts with.
Started(op, todo, store) ==
  [IdleProc EXCEPT !.stage = IF op = "search" THEN "slot" ELSE "begin",
                   !.op = op, !.todo = todo, !.store = store]

LEMMA StartedFields ==
  ASSUME NEW op, NEW todo, NEW store
  PROVE  /\ DOMAIN Started(op, todo, store) = {"stage", "op", "todo", "store", "slot", "saw"}
         /\ Started(op, todo, store).stage = IF op = "search" THEN "slot" ELSE "begin"
         /\ Started(op, todo, store).op = op
         /\ Started(op, todo, store).todo = todo
         /\ Started(op, todo, store).store = store
         /\ Started(op, todo, store).slot = 0
         /\ Started(op, todo, store).saw = Empty
BY DEF Started, IdleProc

\* Each step of a process changes that process.
LEMMA OwnSteps ==
  ASSUME TypeOK, NEW p \in Proc
  PROVE  /\ Commit(p) => proc' = [proc EXCEPT ![p] =
              [proc[p] EXCEPT !.stage = IF proc[p].op = "reset" THEN "clear" ELSE "slot"]]
         /\ TakeSlot(p) => proc' = [proc EXCEPT ![p] =
              [proc[p] EXCEPT !.slot = slotOf'[proc[p].store], !.stage = NextStage(proc[p].op)]]
         /\ Insert(p) \/ Remove(p) \/ Clear(p) \/ Scan(p) \/ FinishLoad(p) \/ LoadFails(p)
              => proc' = [proc EXCEPT ![p] = IdleProc]
         /\ InsertFails(p) => proc' = [proc EXCEPT ![p] = [proc[p] EXCEPT !.stage = "slot"]]
         /\ StartLoad(p) => proc' = [proc EXCEPT ![p] =
              [proc[p] EXCEPT !.stage = "load", !.saw = table]]
<1>2. Commit(p) => proc' = [proc EXCEPT ![p] =
        [proc[p] EXCEPT !.stage = IF proc[p].op = "reset" THEN "clear" ELSE "slot"]]
  BY DEF Commit, TypeOK
<1>3. TakeSlot(p) => proc' = [proc EXCEPT ![p] =
        [proc[p] EXCEPT !.slot = slotOf'[proc[p].store], !.stage = NextStage(proc[p].op)]]
  BY DEF TakeSlot, TypeOK, Process
<1>4. Insert(p) \/ Remove(p) \/ Clear(p) \/ Scan(p) \/ FinishLoad(p) \/ LoadFails(p)
        => proc' = [proc EXCEPT ![p] = IdleProc]
  BY DEF Insert, Remove, Clear, Scan, FinishLoad, LoadFails
<1>5. InsertFails(p) => proc' = [proc EXCEPT ![p] = [proc[p] EXCEPT !.stage = "slot"]]
  BY DEF InsertFails, TypeOK
<1>6. StartLoad(p) => proc' = [proc EXCEPT ![p] =
        [proc[p] EXCEPT !.stage = "load", !.saw = table]]
  BY DEF StartLoad, TypeOK, Process
<1>. QED  BY <1>2, <1>3, <1>4, <1>5, <1>6

LEMMA OwnStart ==
  ASSUME NEW p \in Proc, NEW op, NEW todo, Start(p, op, todo)
  PROVE  proc' = [proc EXCEPT ![p] = Started(op, todo, current')]
BY DEF Start, Started

\* And the others stay as they are.
LEMMA OthersStay ==
  ASSUME TypeOK, NEW p \in Proc, NEW r, proc' = [proc EXCEPT ![p] = r]
  PROVE  /\ proc'[p] = r /\ \A q \in Proc \ {p} : proc'[q] = proc[q]
         /\ r \in Process => proc' \in [Proc -> Process]
BY DEF TypeOK

\* The operations a process may start.
LEMMA Starts ==
  ASSUME Sizes, NEW p \in Proc, StartAny(p)
  PROVE  \E op \in {"write", "delete", "search", "reset"}, todo \in [Vid -> -1..MaxVersion] :
           /\ Start(p, op, todo)
           /\ op = "delete" => \A v \in Touched(todo) : todo[v] = 0
           /\ op = "reset" => Touched(todo) = Vid
           /\ op \in {"write", "delete"} => Touched(todo) # {}
<1>1. ASSUME NEW todo \in [Vid -> {-1} \cup 1..MaxVersion], Touched(todo) # {},
             Start(p, "write", todo)
      PROVE  todo \in [Vid -> -1..MaxVersion]
  BY DEF Sizes
<1>2. ASSUME NEW v \in Vid
      PROVE  LET todo == [Untouched EXCEPT ![v] = 0]
             IN  /\ todo \in [Vid -> -1..MaxVersion]
                 /\ Touched(todo) = {v} /\ todo[v] = 0
  BY DEF Sizes, Untouched, Touched
<1>3. Untouched \in [Vid -> -1..MaxVersion]
  BY Records
<1>4. Empty \in [Vid -> -1..MaxVersion] /\ Touched(Empty) = Vid
  BY DEF Sizes, Empty, Touched
<1>5. CASE \E todo \in [Vid -> {-1} \cup 1..MaxVersion] :
             Touched(todo) # {} /\ Start(p, "write", todo)
  BY <1>1, <1>5
<1>6. CASE \E v \in Vid : Start(p, "delete", [Untouched EXCEPT ![v] = 0])
  <2>1. PICK v \in Vid : Start(p, "delete", [Untouched EXCEPT ![v] = 0])
    BY <1>6
  <2>. DEFINE todo == [Untouched EXCEPT ![v] = 0]
  <2>2. /\ todo \in [Vid -> -1..MaxVersion]
        /\ Touched(todo) = {v} /\ todo[v] = 0
    BY <1>2
  <2>3. Start(p, "delete", todo) BY <2>1
  <2>. HIDE DEF todo
  <2>. QED  BY <2>2, <2>3
<1>7. CASE Start(p, "search", Untouched)
  BY <1>3, <1>7
<1>8. CASE Start(p, "reset", Empty)
  BY <1>4, <1>8
<1>. QED  BY <1>5, <1>6, <1>7, <1>8 DEF StartAny

\* A segment after an insertion.
LEMMA InsertedType ==
  ASSUME NEW seg \in Segment, NEW todo \in [Vid -> -1..MaxVersion], Sizes
  PROVE  /\ Inserted(seg, todo) \in Segment
         /\ Inserted(seg, todo).kind = "none" => Inserted(seg, todo).has = Empty
<1>. DEFINE has == [v \in Vid |-> IF todo[v] = -1 THEN seg.has[v] ELSE todo[v]]
<1>1. has \in Vectors
  BY DEF Vectors, Segment, Sizes
<1>2. Inserted(seg, todo) \in {NotLoaded, [seg EXCEPT !.has = has]}
  BY DEF Inserted
<1>3. seg.kind = "none" => Inserted(seg, todo) = NotLoaded
  BY DEF Inserted
<1>4. [seg EXCEPT !.has = has] \in Segment /\ [seg EXCEPT !.has = has].kind = seg.kind
  BY <1>1 DEF Segment
<1>5. NotLoaded \in Segment /\ NotLoaded.has = Empty
  BY Records DEF NotLoaded
<1>. HIDE DEF has
<1>6. CASE Inserted(seg, todo) = NotLoaded
  BY <1>5, <1>6
<1>7. CASE Inserted(seg, todo) = [seg EXCEPT !.has = has]
  BY <1>3, <1>4, <1>5, <1>7
<1>. QED  BY <1>2, <1>6, <1>7

LEMMA IdleFits == ProcessFits(IdleProc)
BY DEF ProcessFits, IdleProc

LEMMA TypeStep == ASSUME Sizes, Types, [Next]_vars PROVE Types'
<1>0. TypeOK /\ \A p \in Proc : ProcessFits(proc[p])
  BY DEF Types
<1>1. ASSUME NEW p \in Proc, NEW r \in Process, ProcessFits(r), proc' = [proc EXCEPT ![p] = r]
      PROVE  proc' \in [Proc -> Process] /\ \A q \in Proc : ProcessFits(proc'[q])
  BY <1>0, <1>1, OthersStay
<1>2. \A p \in Proc : proc[p] \in Process /\ ProcessFits(proc[p])
  BY <1>0 DEF TypeOK
<1>3. CASE UNCHANGED vars \/ Evict
  BY <1>0, <1>3 DEF vars, Evict, Sizes, TypeOK, Types
<1>4. ASSUME NEW p \in Proc, StartAny(p) PROVE Types'
  <2>1. PICK op \in {"write", "delete", "search", "reset"}, todo \in [Vid -> -1..MaxVersion] :
           /\ Start(p, op, todo)
           /\ op = "delete" => \A v \in Touched(todo) : todo[v] = 0
           /\ op = "reset" => Touched(todo) = Vid
           /\ op \in {"write", "delete"} => Touched(todo) # {}
    BY <1>4, Starts
  <2>2. stores' \in 0..MaxStore /\ current' \in Store /\ ops' \in 0..MaxOps
    BY <1>0, <2>1, SMTT(30) DEF Start, Sizes, TypeOK, Store
  <2>3. Started(op, todo, current') \in Process
    <3>1. 0 \in 0..MaxSlot /\ current' \in 0..MaxStore
      BY <2>2 DEF Sizes, Store
    <3>3. op \in {"none", "write", "delete", "search", "reset"}
      OBVIOUS
    <3>4. (IF op = "search" THEN "slot" ELSE "begin") \in {"slot", "begin"}
      OBVIOUS
    <3>. QED  BY <3>1, <3>3, <3>4, Records DEF Process, Started
  <2>4. ProcessFits(Started(op, todo, current'))
    BY <2>1, <2>2, StartedFields DEF ProcessFits
  <2>5. proc' = [proc EXCEPT ![p] = Started(op, todo, current')]
    BY <2>1, OwnStart
  <2>6. proc' \in [Proc -> Process] /\ \A q \in Proc : ProcessFits(proc'[q])
    BY <1>1, <2>3, <2>4, <2>5
  <2>7. current' \in 0..MaxStore
    BY <2>2 DEF Sizes, Store
  <2>. QED  BY <1>0, <2>1, <2>2, <2>6, <2>7 DEF Start, TypeOK, Types
<1>5. ASSUME NEW p \in Proc, Commit(p) PROVE Types'
  <2>. DEFINE r == [proc[p] EXCEPT !.stage = IF proc[p].op = "reset" THEN "clear" ELSE "slot"]
  <2>1. table' \in Vectors
    BY <1>0, <1>2, <1>5 DEF Commit, Vectors, Process, Sizes, TypeOK
  <2>2. r \in Process /\ ProcessFits(r)
    BY <1>2, <1>5 DEF Commit, ProcessFits, Process
  <2>3. proc' = [proc EXCEPT ![p] = r]
    BY <1>0, <1>5, OwnSteps
  <2>. HIDE DEF r
  <2>. QED  BY <1>0, <1>1, <1>5, <2>1, <2>2, <2>3 DEF Commit, TypeOK, Types
<1>6. ASSUME NEW p \in Proc, TakeSlot(p) PROVE Types'
  <2>. DEFINE r == [proc[p] EXCEPT !.slot = slotOf'[proc[p].store],
                                   !.stage = NextStage(proc[p].op)]
  <2>0. proc[p].store \in Store /\ slotOf[proc[p].store] \in 0..MaxSlot /\ slots \in 0..MaxSlot
    BY <1>0, <1>2, <1>6 DEF TakeSlot, TypeOK, ProcessFits
  <2>. DEFINE new == IF slotOf[proc[p].store] = 0 THEN slots + 1 ELSE slotOf[proc[p].store]
  <2>7. new \in Slot /\ new \in 0..MaxSlot /\ slots' \in 0..MaxSlot
    BY <1>6, <2>0 DEF TakeSlot, Sizes, Slot
  <2>8. slotOf' = [slotOf EXCEPT ![proc[p].store] = new]
    BY <1>0, <1>6, <2>0 DEF TakeSlot, TypeOK
  <2>. HIDE DEF new
  <2>1. slots' \in 0..MaxSlot /\ slotOf' \in [Store -> 0..MaxSlot]
    BY <1>0, <2>7, <2>8 DEF TypeOK
  <2>2. proc[p].store \in Store /\ slotOf'[proc[p].store] \in Slot
    BY <1>0, <2>0, <2>7, <2>8 DEF TypeOK
  <2>3. NextStage(proc[p].op) \in Stages
    BY <1>2, <1>6 DEF TakeSlot, ProcessFits, NextStage, Stages
  <2>4. r \in Process
    <3>1. slotOf'[proc[p].store] \in 0..MaxSlot
      BY <2>2 DEF Slot, Sizes
    <3>2. Empty \in Vectors /\ proc[p] \in Process
      BY <1>2, Records
    <3>. QED  BY <2>3, <3>1, <3>2, ProcessUpdates
  <2>5. ProcessFits(r)
    BY <1>2, <1>6, <2>2 DEF TakeSlot, ProcessFits, NextStage, Process
  <2>6. proc' = [proc EXCEPT ![p] = r]
    BY <1>0, <1>6, OwnSteps
  <2>. HIDE DEF r
  <2>. QED  BY <1>0, <1>1, <1>6, <2>1, <2>4, <2>5, <2>6 DEF TakeSlot, TypeOK, Types
<1>7. ASSUME NEW p \in Proc, proc' = [proc EXCEPT ![p] = IdleProc], segment' \in [Slot -> Segment],
             \A s \in Slot : segment'[s].kind = "none" => segment'[s].has = Empty,
             slotOf' \in [Store -> 0..MaxSlot], fails' \in 0..MaxFail,
             UNCHANGED <<table, current, stores, slots, ops>>
      PROVE  Types'
  <2>. QED  BY <1>0, <1>1, <1>7, Records, IdleFits DEF TypeOK, Types
<1>8. ASSUME NEW p \in Proc, Insert(p) PROVE Types'
  <2>1. proc[p].slot \in Slot /\ proc[p].todo \in [Vid -> -1..MaxVersion]
    BY <1>2, <1>8 DEF Insert, ProcessFits, Process
  <2>2. segment[proc[p].slot] \in Segment
    BY <1>0, <2>1 DEF TypeOK
  <2>3. segment' = [segment EXCEPT ![proc[p].slot] =
                      Inserted(segment[proc[p].slot], proc[p].todo)]
    BY <1>8 DEF Insert
  <2>. DEFINE new == Inserted(segment[proc[p].slot], proc[p].todo)
  <2>4. new \in Segment /\ (new.kind = "none" => new.has = Empty)
    BY <2>1, <2>2, InsertedType
  <2>. HIDE DEF new
  <2>5. segment' = [segment EXCEPT ![proc[p].slot] = new]
    BY <2>3 DEF new
  <2>6. /\ segment' \in [Slot -> Segment]
        /\ \A s \in Slot : segment'[s].kind = "none" => segment'[s].has = Empty
    BY <1>0, <2>1, <2>4, <2>5 DEF TypeOK
  <2>7. proc' = [proc EXCEPT ![p] = IdleProc]
    BY <1>0, <1>8, OwnSteps
  <2>. QED  BY <1>0, <1>7, <1>8, <2>6, <2>7 DEF Insert, TypeOK
<1>9. ASSUME NEW p \in Proc, Remove(p) PROVE Types'
  <2>. DEFINE s == proc[p].slot
              has == [v \in Vid |-> IF v \in Touched(proc[p].todo) THEN 0 ELSE segment[s].has[v]]
  <2>1. s \in Slot
    BY <1>2, <1>9 DEF Remove, ProcessFits
  <2>2. segment[s] \in Segment
    BY <1>0, <2>1 DEF TypeOK
  <2>3. segment' = [segment EXCEPT ![s] = [segment[s] EXCEPT !.has = has]]
    BY <1>0, <1>9, <2>1 DEF Remove, TypeOK, Segment
  <2>4. has \in Vectors /\ (segment[s].has = Empty => has = Empty)
    BY <2>2 DEF Segment, Vectors, Sizes, Empty
  <2>. HIDE DEF s, has
  <2>5. [segment[s] EXCEPT !.has = has] \in Segment
    BY <2>2, <2>4 DEF Segment
  <2>6. segment' \in [Slot -> Segment]
    BY <1>0, <2>3, <2>5 DEF TypeOK
  <2>7. \A t \in Slot : segment'[t].kind = "none" => segment'[t].has = Empty
    BY <1>0, <2>1, <2>2, <2>3, <2>4 DEF TypeOK, Segment
  <2>. QED  BY <1>0, <1>7, <1>9, <2>6, <2>7, OwnSteps DEF Remove, TypeOK
<1>10. ASSUME NEW p \in Proc, Clear(p) \/ Scan(p) \/ LoadFails(p) PROVE Types'
  <2>1. slotOf' \in [Store -> 0..MaxSlot] /\ fails' \in 0..MaxFail
    BY <1>0, <1>10 DEF Clear, Scan, LoadFails, TypeOK, Sizes
  <2>. QED  BY <1>0, <1>7, <1>10, <2>1, OwnSteps, ZenonT(60) DEF Clear, Scan, LoadFails, TypeOK
<1>11. ASSUME NEW p \in Proc, InsertFails(p) PROVE Types'
  <2>. DEFINE s == proc[p].slot
              r == [proc[p] EXCEPT !.stage = "slot"]
  <2>1. s \in Slot /\ proc[p].todo \in [Vid -> -1..MaxVersion]
    BY <1>2, <1>11 DEF InsertFails, ProcessFits, Process
  <2>2. segment[s] \in Segment /\ segment[s].kind = "hnsw"
    BY <1>0, <1>11, <2>1 DEF InsertFails, TypeOK
  <2>3. PICK done \in SUBSET Touched(proc[p].todo) : \E v \in Touched(proc[p].todo) \ done :
          segment' = [segment EXCEPT ![s].has =
            [u \in Vid |-> IF u \in done THEN proc[p].todo[u] ELSE IF u = v THEN 0 ELSE @[u]]]
    BY <1>11 DEF InsertFails
  <2>4. PICK v \in Touched(proc[p].todo) \ done :
          segment' = [segment EXCEPT ![s].has =
            [u \in Vid |-> IF u \in done THEN proc[p].todo[u] ELSE IF u = v THEN 0 ELSE @[u]]]
    BY <2>3
  <2>. DEFINE has == [u \in Vid |-> IF u \in done THEN proc[p].todo[u]
                                    ELSE IF u = v THEN 0 ELSE segment[s].has[u]]
  <2>5. has \in Vectors
    BY <2>1, <2>2 DEF Segment, Vectors, Sizes, Touched
  <2>6. segment' = [segment EXCEPT ![s] = [segment[s] EXCEPT !.has = has]]
    BY <1>0, <2>1, <2>4 DEF TypeOK, Segment
  <2>7. r \in Process /\ ProcessFits(r)
    BY <1>2, <1>11 DEF InsertFails, ProcessFits, Process
  <2>10. proc' = [proc EXCEPT ![p] = r]
    BY <1>0, <1>11, OwnSteps
  <2>8. proc' = [proc EXCEPT ![p] = r] /\ fails' \in 0..MaxFail
    BY <1>0, <1>11, <2>10 DEF InsertFails, Sizes, TypeOK
  <2>. HIDE DEF s, r, has
  <2>9. /\ segment' \in [Slot -> Segment]
        /\ \A t \in Slot : segment'[t].kind = "none" => segment'[t].has = Empty
    BY <1>0, <2>1, <2>2, <2>5, <2>6 DEF TypeOK, Segment
  <2>. QED  BY <1>0, <1>1, <1>11, <2>7, <2>8, <2>9 DEF InsertFails, TypeOK, Types
<1>12. ASSUME NEW p \in Proc, StartLoad(p) PROVE Types'
  <2>. DEFINE r == [proc[p] EXCEPT !.stage = "load", !.saw = table]
  <2>1. r \in Process /\ ProcessFits(r)
    BY <1>0, <1>2, <1>12, ZenonT(60) DEF StartLoad, ProcessFits, Process, TypeOK
  <2>2. proc' = [proc EXCEPT ![p] = r]
    BY <1>0, <1>12, OwnSteps
  <2>. HIDE DEF r
  <2>. QED  BY <1>0, <1>1, <1>12, <2>1, <2>2 DEF StartLoad, TypeOK, Types
<1>13. ASSUME NEW p \in Proc, FinishLoad(p) PROVE Types'
  <2>. DEFINE seg == [kind |-> IF Crossed(proc[p].saw) THEN "hnsw" ELSE "flat",
                      has |-> proc[p].saw]
  <2>1. seg \in Segment /\ seg.kind # "none"
    BY <1>2 DEF Segment, Kind, Process
  <2>2. segment' = [segment EXCEPT ![proc[p].slot] = seg]
    BY <1>13 DEF FinishLoad
  <2>3. proc' = [proc EXCEPT ![p] = IdleProc]
    BY <1>0, <1>13, OwnSteps
  <2>. HIDE DEF seg
  <2>4. /\ segment' \in [Slot -> Segment]
        /\ \A t \in Slot : segment'[t].kind = "none" => segment'[t].has = Empty
    BY <1>0, <2>1, <2>2 DEF TypeOK
  <2>. QED  BY <1>0, <1>7, <1>13, <2>3, <2>4 DEF FinishLoad, TypeOK
<1>. QED
  BY <1>3, <1>4, <1>5, <1>6, <1>8, <1>9, <1>10, <1>11, <1>12, <1>13 DEF Next

LEMMA TypeInit == ASSUME Sizes, Init PROVE Types
BY Records, IdleFits DEF Init, Types, TypeOK, Sizes, Vectors, NotLoaded

\* Every part of the state has its type, and an operation at a stage is one that
\* has it.
THEOREM CacheTypes == Sizes => (Spec => []TypeOK)
<1>. SUFFICES ASSUME Sizes PROVE Spec => []TypeOK
  OBVIOUS
<1>1. Types /\ [Next]_vars => Types'
  BY TypeStep
<1>2. Init => Types
  BY TypeInit
<1>3. Types => TypeOK
  BY DEF Types
<1>. QED  BY <1>1, <1>2, <1>3, PTL DEF Spec

-----------------------------------------------------------------------------
(* What becomes of the segments.                                           *)

\* A writer changes the segment in its slot, at its ids, or drops it.
LEMMA InsertSegment ==
  ASSUME Sizes, Types, NEW p \in Proc, Insert(p)
  PROVE  LET s == proc[p].slot
             todo == proc[p].todo
         IN  /\ s \in Slot /\ \A t \in Slot \ {s} : segment'[t] = segment[t]
             /\ segment'[s].kind # "none" =>
                  /\ segment'[s].kind = segment[s].kind
                  /\ segment'[s].kind = "flat" => ~Crossed(segment'[s].has)
                  /\ \A v \in Vid : segment'[s].has[v] =
                       IF v \in Touched(todo) THEN todo[v] ELSE segment[s].has[v]
<1>. DEFINE s == proc[p].slot
            todo == proc[p].todo
            has == [v \in Vid |-> IF todo[v] = -1 THEN segment[s].has[v] ELSE todo[v]]
<1>1. s \in Slot /\ segment[s] \in Segment /\ segment \in [Slot -> Segment]
  BY DEF Types, TypeOK, ProcessFits, Insert
<1>2. segment' = [segment EXCEPT ![s] = Inserted(segment[s], todo)]
  BY DEF Insert
<1>3. /\ \A t \in Slot \ {s} : segment'[t] = segment[t]
      /\ segment'[s] = Inserted(segment[s], todo)
  BY <1>1, <1>2
<1>4. Inserted(segment[s], todo) =
        IF segment[s].kind = "none" \/ (segment[s].kind = "flat" /\ Crossed(has))
        THEN NotLoaded ELSE [segment[s] EXCEPT !.has = has]
  BY DEF Inserted
<1>5. \A v \in Vid : has[v] = IF v \in Touched(todo) THEN todo[v] ELSE segment[s].has[v]
  BY DEF Touched
<1>. HIDE DEF s, todo, has
<1>6. NotLoaded.kind = "none"
  BY DEF NotLoaded
<1>7. segment'[s].kind # "none" =>
        /\ segment'[s].kind = segment[s].kind
        /\ segment'[s].has = has
        /\ ~(segment[s].kind = "flat" /\ Crossed(has))
  BY <1>1, <1>3, <1>4, <1>6 DEF Segment
<1>. QED  BY <1>1, <1>3, <1>5, <1>7 DEF s, todo

LEMMA RemoveSegment ==
  ASSUME Sizes, Types, NEW p \in Proc, Remove(p)
  PROVE  LET s == proc[p].slot
         IN  /\ s \in Slot /\ \A t \in Slot \ {s} : segment'[t] = segment[t]
             /\ segment'[s].kind = segment[s].kind
             /\ \A v \in Vid : segment'[s].has[v] =
                  IF v \in Touched(proc[p].todo) THEN 0 ELSE segment[s].has[v]
<1>. DEFINE s == proc[p].slot
            has == [v \in Vid |-> IF v \in Touched(proc[p].todo) THEN 0 ELSE segment[s].has[v]]
<1>1. s \in Slot /\ segment[s] \in Segment /\ segment \in [Slot -> Segment]
  BY DEF Types, TypeOK, ProcessFits, Remove
<1>2. segment' = [segment EXCEPT ![s] = [segment[s] EXCEPT !.has = has]]
  BY <1>1 DEF Remove, Segment
<1>3. \A v \in Vid : has[v] = IF v \in Touched(proc[p].todo) THEN 0 ELSE segment[s].has[v]
  OBVIOUS
<1>. HIDE DEF has
<1>. QED  BY <1>1, <1>2, <1>3 DEF Segment

\* A graph that refuses a vector has lost it, and has some of the others.
LEMMA RefusedSegment ==
  ASSUME Sizes, Types, NEW p \in Proc, InsertFails(p)
  PROVE  LET s == proc[p].slot
         IN  /\ s \in Slot /\ \A t \in Slot \ {s} : segment'[t] = segment[t]
             /\ segment[s].kind = "hnsw" /\ segment'[s].kind = "hnsw"
             /\ \A v \in Vid : v \notin Touched(proc[p].todo) =>
                  segment'[s].has[v] = segment[s].has[v]
<1>. DEFINE s == proc[p].slot
            todo == proc[p].todo
<1>1. /\ s \in Slot /\ segment[s] \in Segment /\ segment \in [Slot -> Segment]
      /\ segment[s].kind = "hnsw"
  BY DEF Types, TypeOK, ProcessFits, InsertFails
<1>2. PICK done \in SUBSET Touched(todo) : \E v \in Touched(todo) \ done :
        segment' = [segment EXCEPT ![s].has =
          [u \in Vid |-> IF u \in done THEN todo[u] ELSE IF u = v THEN 0 ELSE @[u]]]
  BY DEF InsertFails
<1>3. PICK w \in Touched(todo) \ done :
        segment' = [segment EXCEPT ![s].has =
          [u \in Vid |-> IF u \in done THEN todo[u] ELSE IF u = w THEN 0 ELSE @[u]]]
  BY <1>2
<1>. DEFINE has == [u \in Vid |-> IF u \in done THEN todo[u]
                                  ELSE IF u = w THEN 0 ELSE segment[s].has[u]]
<1>4. segment' = [segment EXCEPT ![s] = [segment[s] EXCEPT !.has = has]]
  BY <1>1, <1>3 DEF Segment
<1>5. \A v \in Vid : v \notin Touched(todo) => has[v] = segment[s].has[v]
  OBVIOUS
<1>. HIDE DEF has
<1>. QED  BY <1>1, <1>4, <1>5 DEF Segment

LEMMA LoadedSegment ==
  ASSUME Sizes, Types, NEW p \in Proc, FinishLoad(p)
  PROVE  LET s == proc[p].slot
         IN  /\ s \in Slot /\ \A t \in Slot \ {s} : segment'[t] = segment[t]
             /\ segment'[s].has = proc[p].saw
             /\ segment'[s].kind = "flat" => ~Crossed(proc[p].saw)
BY DEF FinishLoad, Types, TypeOK, ProcessFits

-----------------------------------------------------------------------------
(* Flat segments stay within the threshold.                                *)

LEMMA Fewer ==
  ASSUME Sizes, NEW old, NEW new, \A v \in Vid : new[v] # 0 => old[v] # 0,
         Cardinality(Present(old)) <= Threshold
  PROVE  Cardinality(Present(new)) <= Threshold
<1>1. Present(new) \subseteq Present(old) /\ IsFiniteSet(Present(old))
  BY FS_Subset DEF Present, Sizes
<1>2. /\ Cardinality(Present(new)) <= Cardinality(Present(old))
      /\ Cardinality(Present(new)) \in Nat /\ Cardinality(Present(old)) \in Nat
  BY <1>1, FS_Subset, FS_CardinalityType
<1>. QED  BY <1>2 DEF Sizes

LEMMA NotCrossed ==
  ASSUME Sizes, NEW vs, ~Crossed(vs)
  PROVE  Cardinality(Present(vs)) <= Threshold
<1>1. Cardinality(Present(vs)) \in Nat
  BY FS_Subset, FS_CardinalityType DEF Present, Sizes
<1>. QED  BY <1>1 DEF Crossed, Sizes

LEMMA FlatStep ==
  ASSUME Sizes, Types, FlatIsBounded, [Next]_vars
  PROVE  FlatIsBounded'
<1>. USE DEF FlatIsBounded
<1>1. ASSUME UNCHANGED segment PROVE FlatIsBounded'
  BY <1>1
<1>2. CASE UNCHANGED vars \/ Evict
  BY <1>1, <1>2 DEF vars, Evict
<1>3. ASSUME NEW p \in Proc,
             StartAny(p) \/ Commit(p) \/ TakeSlot(p) \/ Clear(p) \/ Scan(p) \/ StartLoad(p)
               \/ LoadFails(p)
      PROVE  FlatIsBounded'
  BY <1>1, <1>3 DEF StartAny, Start, Commit, TakeSlot, Clear, Scan, StartLoad, LoadFails
<1>4. ASSUME NEW p \in Proc, Insert(p) PROVE FlatIsBounded'
  BY <1>4, InsertSegment, NotCrossed
<1>5. ASSUME NEW p \in Proc, InsertFails(p) PROVE FlatIsBounded'
  BY <1>5, RefusedSegment
<1>6. ASSUME NEW p \in Proc, Remove(p) PROVE FlatIsBounded'
  BY <1>6, RemoveSegment, Fewer
<1>7. ASSUME NEW p \in Proc, FinishLoad(p) PROVE FlatIsBounded'
  BY <1>7, LoadedSegment, NotCrossed
<1>. QED  BY <1>2, <1>3, <1>4, <1>5, <1>6, <1>7 DEF Next

\* A flat segment never has more rows than the threshold, so a search never
\* compares with more; whatever stores are evicted and writers share.
THEOREM FlatAlwaysBounded == Sizes => (Spec => []FlatIsBounded)
<1>. SUFFICES ASSUME Sizes PROVE Spec => []FlatIsBounded
  OBVIOUS
<1>1. Types /\ FlatIsBounded /\ [Next]_vars => Types' /\ FlatIsBounded'
  BY TypeStep, FlatStep
<1>2. Init => Types /\ FlatIsBounded
  BY TypeInit DEF Init, FlatIsBounded, NotLoaded
<1>. QED  BY <1>1, <1>2, PTL DEF Spec

-----------------------------------------------------------------------------
(* The segment that searches use is a cache of the table.                  *)

\* A step of p leaves what the others write and owe.
LEMMA OthersOwe ==
  ASSUME Types, NEW p \in Proc, \A q \in Proc \ {p} : proc'[q] = proc[q]
  PROVE  /\ \A q \in Proc \ {p} : Writes(q)' = Writes(q)
         /\ \A v : Owed(v) /\ v \notin Writes(p) => Owed(v)'
<1>1. \A q \in Proc \ {p} : Writes(q)' = Writes(q)
  BY DEF Writes
<1>. QED  BY <1>1 DEF Owed

\* What a step changes of the operation it continues, and that it may end it.
LEMMA Continues ==
  ASSUME Types, NEW p \in Proc, Commit(p) \/ TakeSlot(p) \/ InsertFails(p) \/ StartLoad(p)
  PROVE  /\ \A q \in Proc \ {p} : proc'[q] = proc[q]
         /\ proc'[p].op = proc[p].op /\ proc'[p].todo = proc[p].todo
         /\ proc'[p].store = proc[p].store
         /\ TakeSlot(p) \/ proc'[p].slot = proc[p].slot
         /\ Commit(p) => proc'[p].stage = IF proc[p].op = "reset" THEN "clear" ELSE "slot"
         /\ TakeSlot(p) => /\ proc'[p].stage = NextStage(proc[p].op)
                           /\ proc'[p].slot = slotOf'[proc[p].store]
         /\ InsertFails(p) => proc'[p].stage = "slot"
         /\ StartLoad(p) => proc'[p].stage = "load" /\ proc'[p].saw = table
<1>1. proc[p] \in Process /\ TypeOK
  BY DEF Types, TypeOK
<1>2. /\ Commit(p) => proc[p].stage = "begin"
      /\ TakeSlot(p) => proc[p].stage = "slot"
      /\ InsertFails(p) => proc[p].stage = "insert"
      /\ StartLoad(p) => proc[p].stage = "scan"
  BY DEF Commit, TakeSlot, InsertFails, StartLoad
<1>3. CASE Commit(p)
  <2>1. /\ proc'[p] = [proc[p] EXCEPT !.stage = IF proc[p].op = "reset" THEN "clear" ELSE "slot"]
        /\ \A q \in Proc \ {p} : proc'[q] = proc[q]
    BY <1>1, <1>3, OwnSteps, OthersStay, ZenonT(60)
  <2>. QED  BY <1>1, <1>2, <1>3, <2>1 DEF Process
<1>4. CASE TakeSlot(p)
  <2>1. /\ proc'[p] = [proc[p] EXCEPT !.slot = slotOf'[proc[p].store],
                                      !.stage = NextStage(proc[p].op)]
        /\ \A q \in Proc \ {p} : proc'[q] = proc[q]
    BY <1>1, <1>4, OwnSteps, OthersStay, ZenonT(60)
  <2>. QED  BY <1>1, <1>2, <1>4, <2>1 DEF Process
<1>5. CASE InsertFails(p)
  <2>1. /\ proc'[p] = [proc[p] EXCEPT !.stage = "slot"]
        /\ \A q \in Proc \ {p} : proc'[q] = proc[q]
    BY <1>1, <1>5, OwnSteps, OthersStay, ZenonT(60)
  <2>. QED  BY <1>1, <1>2, <1>5, <2>1 DEF Process
<1>6. CASE StartLoad(p)
  <2>1. /\ proc'[p] = [proc[p] EXCEPT !.stage = "load", !.saw = table]
        /\ \A q \in Proc \ {p} : proc'[q] = proc[q]
    BY <1>1, <1>6, OwnSteps, OthersStay, ZenonT(60)
  <2>. QED  BY <1>1, <1>2, <1>6, <2>1 DEF Process
<1>. QED  BY <1>3, <1>4, <1>5, <1>6

LEMMA Ends ==
  ASSUME Types, NEW p \in Proc,
         Insert(p) \/ Remove(p) \/ Clear(p) \/ Scan(p) \/ FinishLoad(p) \/ LoadFails(p)
  PROVE  /\ \A q \in Proc \ {p} : proc'[q] = proc[q]
         /\ proc'[p].stage = "idle" /\ proc'[p].op = "none"
         /\ Writes(p)' = {}
<1>1. proc'[p] = IdleProc /\ \A q \in Proc \ {p} : proc'[q] = proc[q]
  BY OwnSteps, OthersStay DEF Types
<1>2. IdleProc.stage = "idle" /\ IdleProc.op = "none"
  BY DEF IdleProc
<1>. QED  BY <1>1, <1>2 DEF Writes

\* A step of p that leaves it owing what it owed.
LEMMA StillOwed ==
  ASSUME Types, NEW p \in Proc, \A q \in Proc \ {p} : proc'[q] = proc[q],
         \A v \in Writes(p) : proc[p].stage \in {"slot", "insert", "remove", "clear"} =>
           v \in Writes(p)' /\ proc'[p].stage \in {"slot", "insert", "remove", "clear"}
  PROVE  \A v : Owed(v) => Owed(v)'
BY OthersOwe DEF Owed

\* An operation keeps its ids to itself from its start to its end.
LEMMA DisjointStep ==
  ASSUME ~SharedVectors, Sizes, Types, Disjoint, [Next]_vars
  PROVE  Disjoint'
<1>1. ASSUME NEW p \in Proc, \A q \in Proc \ {p} : proc'[q] = proc[q], Writes(p)' \subseteq Writes(p)
      PROVE  Disjoint'
  BY <1>1, OthersOwe DEF Disjoint
<1>2. CASE UNCHANGED vars \/ Evict
  BY <1>2 DEF vars, Evict, Disjoint, Writes
<1>3. ASSUME NEW p \in Proc, StartAny(p) PROVE Disjoint'
  <2>1. PICK op \in {"write", "delete", "search", "reset"}, todo \in [Vid -> -1..MaxVersion] :
          Start(p, op, todo)
    BY <1>3, Starts
  <2>2. proc'[p] = Started(op, todo, current') /\ \A q \in Proc \ {p} : proc'[q] = proc[q]
    BY <2>1, OwnStart, OthersStay DEF Types
  <2>3. Writes(p)' \subseteq Touched(todo)
    BY <2>2, StartedFields DEF Writes
  <2>4. \A q \in Proc : Writes(q) \cap Touched(todo) = {}
    BY <2>1 DEF Start
  <2>. QED  BY <2>2, <2>3, <2>4, OthersOwe DEF Disjoint
<1>4. ASSUME NEW p \in Proc,
             Commit(p) \/ TakeSlot(p) \/ InsertFails(p) \/ StartLoad(p)
      PROVE  Disjoint'
  BY <1>1, <1>4, Continues DEF Writes
<1>5. ASSUME NEW p \in Proc,
             Insert(p) \/ Remove(p) \/ Clear(p) \/ Scan(p) \/ FinishLoad(p) \/ LoadFails(p)
      PROVE  Disjoint'
  BY <1>1, <1>5, Ends
<1>. QED  BY <1>2, <1>3, <1>4, <1>5 DEF Next

\* Stores and slots come in order, and requests keep to the open store, as
\* nothing closes it under them.
LEMMA OrderStep ==
  ASSUME ~MayEvict, Sizes, Types, Fresh, OneStore, SlotFits, [Next]_vars
  PROVE  Fresh' /\ OneStore'
<1>0. /\ current \in 0..MaxStore /\ stores \in 0..MaxStore /\ slots \in 0..MaxSlot
      /\ slotOf \in [Store -> 0..MaxSlot] /\ segment \in [Slot -> Segment]
      /\ MaxStore \in Nat /\ MaxSlot \in Nat
  BY DEF Types, TypeOK, Sizes
<1>1. ASSUME UNCHANGED <<current, stores, slotOf, slots, segment>> PROVE Fresh'
  BY <1>1 DEF Fresh
<1>2. ASSUME NEW p \in Proc, \A q \in Proc \ {p} : proc'[q] = proc[q], current' = current,
             proc'[p].stage = "idle" \/ (proc[p].stage # "idle" /\ proc'[p].store = proc[p].store)
      PROVE  OneStore'
  BY <1>2 DEF OneStore
<1>3. CASE UNCHANGED vars
  BY <1>3 DEF vars, Fresh, OneStore
<1>4. CASE Evict
  BY <1>0, <1>4 DEF Evict, Fresh, OneStore
<1>5. ASSUME NEW p \in Proc, StartAny(p) PROVE Fresh' /\ OneStore'
  <2>1. PICK op \in {"write", "delete", "search", "reset"}, todo \in [Vid -> -1..MaxVersion] :
          Start(p, op, todo)
    BY <1>5, Starts
  <2>2. proc'[p].store = current' /\ \A q \in Proc \ {p} : proc'[q] = proc[q]
    BY <2>1, OwnStart, OthersStay, StartedFields, SMTT(30) DEF Types
  <2>3. /\ current' = IF current = 0 THEN stores + 1 ELSE current
        /\ stores' = IF current = 0 THEN stores + 1 ELSE stores
        /\ UNCHANGED <<slotOf, slots, segment>>
    BY <2>1 DEF Start
  <2>4. Fresh'
    BY <1>0, <2>3 DEF Fresh, Store
  <2>5. OneStore'
    BY <1>0, <2>2, <2>3 DEF OneStore
  <2>. QED  BY <2>4, <2>5
<1>6. ASSUME NEW p \in Proc, Commit(p) \/ StartLoad(p) PROVE Fresh' /\ OneStore'
  BY <1>1, <1>2, <1>6, Continues DEF Commit, StartLoad
<1>7. ASSUME NEW p \in Proc, TakeSlot(p) PROVE Fresh' /\ OneStore'
  <2>. DEFINE s == proc[p].store
  <2>1. s \in Store /\ s = current /\ s <= stores
    BY <1>7 DEF Types, ProcessFits, OneStore, Fresh, TakeSlot
  <2>2. /\ slots' = IF slotOf[s] = 0 THEN slots + 1 ELSE slots
        /\ slotOf'[s] = IF slotOf[s] = 0 THEN slots + 1 ELSE slotOf[s]
        /\ \A t \in Store \ {s} : slotOf'[t] = slotOf[t]
        /\ UNCHANGED <<current, stores, segment>>
    BY <1>0, <1>7, <2>1 DEF TakeSlot
  <2>. HIDE DEF s
  <2>5. slots <= slots' /\ slots' \in Nat
    BY <1>0, <2>2
  <2>6. \A t \in Store : slotOf'[t] <= slots' /\ (t > stores' => slotOf'[t] = 0)
    <3>1. slotOf'[s] <= slots' /\ ~(s > stores')
      BY <1>0, <2>1, <2>2 DEF Fresh, Store
    <3>2. ASSUME NEW t \in Store \ {s}
          PROVE  slotOf'[t] <= slots' /\ (t > stores' => slotOf'[t] = 0)
      <4>1. slotOf[t] \in Nat /\ slotOf[t] <= slots /\ (t > stores => slotOf[t] = 0)
        BY <1>0 DEF Fresh
      <4>. QED  BY <1>0, <2>2, <2>5, <4>1
    <3>. QED  BY <3>1, <3>2
  <2>7. \A t \in Slot : t > slots' => segment'[t] = NotLoaded
    BY <1>0, <2>2, <2>5 DEF Fresh, Slot
  <2>3. Fresh'
    BY <2>2, <2>6, <2>7 DEF Fresh
  <2>4. OneStore'
    BY <1>2, <1>7, Continues DEF TakeSlot
  <2>. QED  BY <2>3, <2>4
<1>8. ASSUME NEW p \in Proc, Insert(p) \/ Remove(p) \/ FinishLoad(p) \/ InsertFails(p)
      PROVE  Fresh' /\ OneStore'
  <2>1. /\ proc[p].slot \in 1..slots /\ \A t \in Slot \ {proc[p].slot} : segment'[t] = segment[t]
        /\ UNCHANGED <<current, stores, slotOf, slots>>
    <3>1. proc[p].stage \in {"insert", "remove", "load"} /\ UNCHANGED <<current, stores, slotOf, slots>>
      BY <1>8 DEF Insert, Remove, FinishLoad, InsertFails
    <3>2. \A t \in Slot \ {proc[p].slot} : segment'[t] = segment[t]
      BY <1>8, InsertSegment, RemoveSegment, LoadedSegment, RefusedSegment
    <3>. QED  BY <3>1, <3>2 DEF SlotFits
  <2>2. Fresh'
    BY <1>0, <2>1 DEF Fresh, Slot
  <2>3. OneStore'
    <3>1. CASE InsertFails(p)
      BY <1>2, <2>1, <3>1, Continues DEF InsertFails
    <3>2. CASE Insert(p) \/ Remove(p) \/ FinishLoad(p)
      BY <1>2, <2>1, <3>2, Ends
    <3>. QED  BY <1>8, <3>1, <3>2
  <2>. QED  BY <2>2, <2>3
<1>9. ASSUME NEW p \in Proc, Clear(p) PROVE Fresh' /\ OneStore'
  <2>1. proc[p].store \in Store
    BY <1>9 DEF Types, ProcessFits, Clear
  <2>2. /\ \A t \in Store : slotOf'[t] \in {0, slotOf[t]}
        /\ UNCHANGED <<current, stores, slots, segment>>
    BY <1>0, <1>9, <2>1 DEF Clear
  <2>3. Fresh'
    BY <1>0, <2>2 DEF Fresh
  <2>. QED  BY <1>2, <1>9, <2>2, <2>3, Ends
<1>10. ASSUME NEW p \in Proc, Scan(p) \/ LoadFails(p) PROVE Fresh' /\ OneStore'
  BY <1>1, <1>2, <1>10, Ends DEF Scan, LoadFails
<1>. QED  BY <1>3, <1>4, <1>5, <1>6, <1>7, <1>8, <1>9, <1>10 DEF Next

\* What is committed stays committed until its writer is done, since nobody
\* else writes those ids.
LEMMA CommittedStep ==
  ASSUME Sizes, Types, Disjoint, Committed, [Next]_vars
  PROVE  Committed'
<1>1. ASSUME NEW p \in Proc, \A q \in Proc \ {p} : proc'[q] = proc[q], table' = table,
             Writes(p)' = {} \/ proc'[p].stage \notin {"slot", "insert", "remove", "clear"}
               \/ /\ Writes(p)' = Writes(p) /\ proc'[p].todo = proc[p].todo
                  /\ proc[p].stage \in {"slot", "insert", "remove", "clear"}
      PROVE  Committed'
  BY <1>1, OthersOwe DEF Committed
<1>2. CASE UNCHANGED vars \/ Evict
  BY <1>2 DEF vars, Evict, Committed, Writes
<1>3. ASSUME NEW p \in Proc, StartAny(p) PROVE Committed'
  <2>1. PICK op \in {"write", "delete", "search", "reset"}, todo \in [Vid -> -1..MaxVersion] :
          Start(p, op, todo)
    BY <1>3, Starts
  <2>2. proc'[p] = Started(op, todo, current') /\ \A q \in Proc \ {p} : proc'[q] = proc[q]
    BY <2>1, OwnStart, OthersStay DEF Types
  <2>3. Writes(p)' = {} \/ proc'[p].stage = "begin"
    BY <2>2, StartedFields DEF Writes
  <2>. QED  BY <1>1, <2>1, <2>2, <2>3 DEF Start
<1>4. ASSUME NEW p \in Proc, Commit(p) PROVE Committed'
  <2>1. /\ \A q \in Proc \ {p} : proc'[q] = proc[q] /\ Writes(q)' = Writes(q)
        /\ proc'[p].op = proc[p].op /\ proc'[p].todo = proc[p].todo
    BY <1>4, Continues, OthersOwe
  <2>2. Writes(p) = Touched(proc[p].todo) /\ Writes(p)' = Writes(p)
    BY <1>4, <2>1 DEF Commit, Types, ProcessFits, Writes
  <2>3. \A v \in Vid : table'[v] = IF v \in Writes(p) THEN proc[p].todo[v] ELSE table[v]
    BY <1>4, <2>2 DEF Commit, Touched
  <2>4. \A q \in Proc : Writes(q) \subseteq Vid
    BY DEF Writes, Touched
  <2>5. \A v \in Writes(p)' : table'[v] = proc'[p].todo[v]
    BY <2>1, <2>2, <2>3, <2>4
  <2>6. ASSUME NEW q \in Proc \ {p}, proc'[q].stage \in {"slot", "insert", "remove", "clear"},
               NEW v \in Writes(q)'
        PROVE  table'[v] = proc'[q].todo[v]
    BY <2>1, <2>3, <2>4, <2>6 DEF Committed, Disjoint
  <2>. QED  BY <2>5, <2>6 DEF Committed
<1>5. ASSUME NEW p \in Proc, TakeSlot(p) \/ InsertFails(p) \/ StartLoad(p) PROVE Committed'
  <2>1. /\ Writes(p)' = Writes(p) /\ proc'[p].todo = proc[p].todo /\ table' = table
        /\ \A q \in Proc \ {p} : proc'[q] = proc[q]
    BY <1>5, Continues, Zenon DEF Writes, TakeSlot, InsertFails, StartLoad
  <2>2. CASE TakeSlot(p) \/ InsertFails(p)
    BY <1>1, <2>1, <2>2 DEF TakeSlot, InsertFails
  <2>3. CASE StartLoad(p)
    BY <1>1, <2>1, <2>3, Continues
  <2>. QED  BY <1>5, <2>2, <2>3
<1>6. ASSUME NEW p \in Proc,
             Insert(p) \/ Remove(p) \/ Clear(p) \/ Scan(p) \/ FinishLoad(p) \/ LoadFails(p)
      PROVE  Committed'
  BY <1>1, <1>6, Ends DEF Insert, Remove, Clear, Scan, FinishLoad, LoadFails
<1>. QED  BY <1>2, <1>3, <1>4, <1>5, <1>6 DEF Next

\* A writer keeps the slot that searches use: nobody resets the index meanwhile.
LEMMA SlotStep ==
  ASSUME ~MayEvict, Sizes, Types, Fresh, OneStore, Disjoint, SlotFits, [Next]_vars
  PROVE  SlotFits'
<1>0. /\ slots \in Nat /\ slotOf \in [Store -> 0..MaxSlot]
      /\ \A p \in Proc : proc[p].stage # "idle" => proc[p].store = current /\ current \in Store
  BY DEF Types, TypeOK, Sizes, OneStore, ProcessFits
<1>1. ASSUME NEW p \in Proc, \A q \in Proc \ {p} : proc'[q] = proc[q], slots' = slots,
             current # 0 => current' = current /\ slotOf' = slotOf,
             proc'[p].stage \notin {"insert", "remove", "scan", "load"}
      PROVE  SlotFits'
  <2>1. ASSUME NEW q \in Proc \ {p}, proc'[q].stage \in {"insert", "remove", "scan", "load"}
        PROVE  /\ proc'[q].slot \in 1..slots'
               /\ proc'[q].stage \in {"insert", "remove"} => proc'[q].slot = slotOf'[current']
    BY <1>1, <2>1 DEF SlotFits, OneStore
  <2>. QED  BY <1>1, <2>1 DEF SlotFits
<1>2. CASE UNCHANGED vars
  BY <1>2 DEF vars, SlotFits
<1>3. CASE Evict
  BY <1>3 DEF Evict, SlotFits
<1>4. ASSUME NEW p \in Proc, StartAny(p) PROVE SlotFits'
  <2>1. PICK op \in {"write", "delete", "search", "reset"}, todo \in [Vid -> -1..MaxVersion] :
          Start(p, op, todo)
    BY <1>4, Starts
  <2>2. proc'[p].stage \in {"begin", "slot"} /\ \A q \in Proc \ {p} : proc'[q] = proc[q]
    BY <2>1, OwnStart, OthersStay, StartedFields DEF Types
  <2>. QED  BY <1>1, <2>1, <2>2 DEF Start
<1>5. ASSUME NEW p \in Proc, Commit(p) \/ InsertFails(p) PROVE SlotFits'
  <2>1. proc'[p].stage \in {"clear", "slot"} /\ \A q \in Proc \ {p} : proc'[q] = proc[q]
    BY <1>5, Continues
  <2>. QED  BY <1>1, <1>5, <2>1 DEF Commit, InsertFails
<1>6. ASSUME NEW p \in Proc, TakeSlot(p) PROVE SlotFits'
  <2>1. /\ slots' = IF slotOf[current] = 0 THEN slots + 1 ELSE slots
        /\ slotOf'[current] = IF slotOf[current] = 0 THEN slots + 1 ELSE slotOf[current]
        /\ current' = current /\ proc'[p].slot = slotOf'[current]
        /\ \A q \in Proc \ {p} : proc'[q] = proc[q]
    BY <1>0, <1>6, Continues, ZenonT(60) DEF TakeSlot
  <2>2. slotOf[current] \in 0..slots
    BY <1>0, <1>6 DEF TakeSlot, Fresh
  <2>3. proc'[p].slot \in 1..slots'
    BY <1>0, <2>1, <2>2
  <2>4. ASSUME NEW q \in Proc \ {p}, proc[q].stage \in {"insert", "remove", "scan", "load"}
        PROVE  /\ proc[q].slot \in 1..slots'
               /\ proc[q].stage \in {"insert", "remove"} => proc[q].slot = slotOf'[current']
    <3>1. /\ proc[q].slot \in 1..slots
          /\ proc[q].stage \in {"insert", "remove"} => proc[q].slot = slotOf[current]
      BY <2>4 DEF SlotFits
    <3>. QED  BY <1>0, <2>1, <2>2, <3>1
  <2>. QED  BY <2>1, <2>3, <2>4 DEF SlotFits
<1>7. ASSUME NEW p \in Proc, Clear(p) PROVE SlotFits'
  <2>1. Writes(p) = Vid /\ slots' = slots
    BY <1>7 DEF Clear, Types, ProcessFits, Writes
  <2>2. ASSUME NEW q \in Proc \ {p} PROVE proc[q].stage \notin {"insert", "remove"}
    <3>1. Writes(q) \cap Vid = {}
      BY <2>1 DEF Disjoint
    <3>. QED  BY <3>1 DEF Types, ProcessFits, Writes, Touched
  <2>. QED  BY <1>7, <2>1, <2>2, Ends DEF SlotFits
<1>8. ASSUME NEW p \in Proc, Insert(p) \/ Remove(p) \/ Scan(p) \/ FinishLoad(p) \/ LoadFails(p)
      PROVE  SlotFits'
  BY <1>1, <1>8, Ends DEF Insert, Remove, Scan, FinishLoad, LoadFails
<1>9. ASSUME NEW p \in Proc, StartLoad(p) PROVE SlotFits'
  <2>1. proc'[p].stage = "load" /\ proc'[p].slot = proc[p].slot
        /\ \A q \in Proc \ {p} : proc'[q] = proc[q]
    BY <1>9, Continues DEF StartLoad, TakeSlot
  <2>. QED  BY <1>9, <2>1, ZenonT(60) DEF StartLoad, SlotFits
<1>. QED  BY <1>2, <1>3, <1>4, <1>5, <1>6, <1>7, <1>8, <1>9 DEF Next

LEMMA CoherentStep ==
  ASSUME ~MayEvict, Sizes, CacheInv, [Next]_vars
  PROVE  LoadFits' /\ SegmentCoherent'
<1>0. /\ Types /\ Fresh /\ OneStore /\ Disjoint /\ Committed /\ SlotFits /\ LoadFits
      /\ SegmentCoherent /\ Types'
  BY TypeStep DEF CacheInv
<1>1. /\ \A p \in Proc : ProcessFits(proc[p]) /\ proc[p] \in Process
      /\ \A p \in Proc : proc[p].stage # "idle" => proc[p].store = current /\ current \in Store
      /\ slotOf \in [Store -> 0..MaxSlot]
      /\ \A p \in Proc : proc'[p].stage = "load" => proc'[p].slot # 0
  BY <1>0, SMTT(30) DEF Types, TypeOK, OneStore, ProcessFits, Slot
<1>2. ASSUME CurrentSlot' = 0 PROVE LoadFits' /\ SegmentCoherent'
  BY <1>1, <1>2 DEF LoadFits, SegmentCoherent
<1>3. ASSUME NEW p \in Proc, \A q \in Proc \ {p} : proc'[q] = proc[q],
             UNCHANGED <<table, segment>>, CurrentSlot' = CurrentSlot,
             \A v \in Vid : Owed(v) => Owed(v)',
             proc'[p].stage # "load" \/ proc'[p].saw = table
      PROVE  LoadFits' /\ SegmentCoherent'
  <2>1. SegmentCoherent'
    BY <1>0, <1>3 DEF SegmentCoherent
  <2>2. ASSUME NEW q \in Proc, proc'[q].stage = "load", proc'[q].slot = CurrentSlot',
               NEW v \in Vid, proc'[q].saw[v] # table'[v]
        PROVE  Owed(v)'
    BY <1>0, <1>3, <2>2 DEF LoadFits
  <2>. QED  BY <2>1, <2>2 DEF LoadFits
<1>4. CASE UNCHANGED vars
  BY <1>0, <1>4 DEF vars, LoadFits, SegmentCoherent, Owed, Writes, CurrentSlot
<1>5. CASE Evict
  BY <1>2, <1>5 DEF Evict, CurrentSlot
<1>6. ASSUME NEW p \in Proc, StartAny(p) PROVE LoadFits' /\ SegmentCoherent'
  <2>1. PICK op \in {"write", "delete", "search", "reset"}, todo \in [Vid -> -1..MaxVersion] :
          Start(p, op, todo)
    BY <1>6, Starts
  <2>2. /\ proc[p].stage = "idle" /\ proc'[p].stage \in {"begin", "slot"}
        /\ \A q \in Proc \ {p} : proc'[q] = proc[q]
        /\ UNCHANGED <<table, segment, slotOf>>
    <3>1. proc'[p] = Started(op, todo, current') /\ \A q \in Proc \ {p} : proc'[q] = proc[q]
      BY <1>0, <2>1, OwnStart, OthersStay DEF Types
    <3>. QED  BY <2>1, <3>1, StartedFields DEF Start
  <2>3. CASE current = 0
    <3>1. current' = stores + 1 /\ current' \in Store /\ current' > stores
      BY <1>0, <2>1, <2>3, SMTT(30) DEF Start, Types, TypeOK, Store, Sizes
    <3>2. CurrentSlot' = 0
      BY <1>0, <2>2, <3>1 DEF Fresh, CurrentSlot
    <3>. QED  BY <1>2, <3>2
  <2>4. CASE current # 0
    <3>1. CurrentSlot' = CurrentSlot
      BY <2>1, <2>2, <2>4 DEF Start, CurrentSlot
    <3>2. \A v : Owed(v) => Owed(v)'
      BY <1>0, <2>2, StillOwed
    <3>. QED  BY <1>3, <2>2, <3>1, <3>2
  <2>. QED  BY <2>3, <2>4
<1>7. ASSUME NEW p \in Proc, Commit(p) PROVE LoadFits' /\ SegmentCoherent'
  <2>1. /\ \A q \in Proc \ {p} : proc'[q] = proc[q]
        /\ proc'[p].op = proc[p].op /\ proc'[p].todo = proc[p].todo
        /\ proc'[p].stage \in {"slot", "clear"}
        /\ UNCHANGED <<current, slotOf, segment>>
    BY <1>0, <1>7, Continues, ZenonT(60) DEF Commit
  <2>2. Writes(p) = Touched(proc[p].todo) /\ Writes(p)' = Writes(p)
    BY <1>1, <1>7, <2>1 DEF Commit, ProcessFits, Writes
  <2>3. \A v \in Writes(p) : Owed(v)'
    BY <2>1, <2>2 DEF Owed
  <2>4. \A v \in Vid : Owed(v) => Owed(v)'
    BY <1>0, <2>1, <2>3, OthersOwe
  <2>5. \A v \in Vid : table'[v] = table[v] \/ Owed(v)'
    BY <1>7, <2>2, <2>3 DEF Commit, Touched
  <2>6. CurrentSlot' = CurrentSlot
    BY <2>1 DEF CurrentSlot
  <2>7. SegmentCoherent'
    BY <1>0, <2>1, <2>4, <2>5, <2>6 DEF SegmentCoherent
  <2>8. ASSUME NEW q \in Proc, proc'[q].stage = "load", proc'[q].slot = CurrentSlot',
               NEW v \in Vid, proc'[q].saw[v] # table'[v]
        PROVE  Owed(v)'
    BY <1>0, <2>1, <2>4, <2>5, <2>6, <2>8 DEF LoadFits
  <2>. QED  BY <2>7, <2>8 DEF LoadFits
<1>8. ASSUME NEW p \in Proc, TakeSlot(p) PROVE LoadFits' /\ SegmentCoherent'
  <2>1. /\ \A q \in Proc \ {p} : proc'[q] = proc[q]
        /\ proc'[p].op = proc[p].op /\ proc'[p].todo = proc[p].todo
        /\ proc'[p].stage = NextStage(proc[p].op)
        /\ proc[p].stage = "slot" /\ proc[p].op \in {"write", "delete", "search"}
        /\ UNCHANGED <<table, current, segment>>
    BY <1>0, <1>1, <1>8, Continues DEF TakeSlot, ProcessFits
  <2>2. proc'[p].stage # "load" /\ (Writes(p) # {} => proc'[p].stage \in {"insert", "remove"})
    BY <2>1 DEF NextStage, Writes
  <2>3. \A v : Owed(v) => Owed(v)'
    BY <1>0, <2>1, <2>2, StillOwed DEF Writes
  <2>4. current \in Store /\ proc[p].store = current
    BY <1>1, <2>1
  <2>5. CASE slotOf[current] # 0
    <3>1. CurrentSlot' = CurrentSlot
      BY <1>1, <1>8, <2>1, <2>4, <2>5 DEF TakeSlot, CurrentSlot
    <3>. QED  BY <1>3, <2>1, <2>2, <2>3, <3>1
  <2>6. CASE slotOf[current] = 0
    <3>1. CurrentSlot' = slots + 1 /\ slots + 1 \in Slot /\ slots \in Nat
      BY <1>0, <1>1, <1>8, <2>1, <2>4, <2>6, SMTT(30)
      DEF TakeSlot, CurrentSlot, Types, TypeOK, Slot, Sizes, Store
    <3>2. segment'[CurrentSlot'].kind = "none"
      BY <1>0, <2>1, <3>1 DEF Fresh, NotLoaded
    <3>3. \A q \in Proc : proc'[q].stage = "load" => proc'[q].slot # CurrentSlot'
      BY <1>0, <2>1, <2>2, <3>1 DEF SlotFits
    <3>. QED  BY <3>2, <3>3 DEF SegmentCoherent, LoadFits
  <2>. QED  BY <2>5, <2>6
<1>9. ASSUME NEW p \in Proc, Insert(p) \/ Remove(p) \/ InsertFails(p)
      PROVE  LoadFits' /\ SegmentCoherent'
  <2>. DEFINE s == proc[p].slot
  <2>1. /\ proc[p].stage \in {"insert", "remove"} /\ ~Locked(s)
        /\ UNCHANGED <<table, current, slotOf>>
    BY <1>9 DEF Insert, Remove, InsertFails
  <2>2. /\ s = CurrentSlot /\ CurrentSlot' = CurrentSlot /\ s # 0
        /\ Writes(p) = Touched(proc[p].todo)
    BY <1>0, <1>1, <2>1 DEF SlotFits, CurrentSlot, Writes, ProcessFits, Store
  <2>3. \A q \in Proc \ {p} : proc'[q] = proc[q]
    BY <1>0, <1>9, Continues, Ends
  <2>4. \A v \in Vid : Owed(v) /\ v \notin Writes(p) => Owed(v)'
    BY <1>0, <2>3, OthersOwe
  <2>5. proc'[p].stage # "load"
    BY <1>0, <1>9, Continues, Ends
  <2>6. LoadFits'
    BY <2>1, <2>2, <2>3, <2>5 DEF LoadFits, Locked
  <2>7. segment'[s].kind # "none" =>
          /\ segment[s].kind # "none"
          /\ \A v \in Vid : \/ v \notin Writes(p) /\ segment'[s].has[v] = segment[s].has[v]
                            \/ v \in Writes(p) /\ segment'[s].has[v] = table[v]
                            \/ Owed(v)'
    <3>1. \A v \in Writes(p) : v \in Vid /\ proc[p].todo[v] = table[v]
      BY <1>0, <2>1, <2>2 DEF Committed, Touched
    <3>2. CASE Insert(p)
      BY <1>0, <2>2, <3>1, <3>2, InsertSegment
    <3>3. CASE Remove(p)
      <4>1. \A v \in Writes(p) : proc[p].todo[v] = 0
        BY <1>1, <2>2, <3>3 DEF Remove, ProcessFits
      <4>. QED  BY <1>0, <2>2, <3>1, <3>3, <4>1, RemoveSegment
    <3>4. CASE InsertFails(p)
      <4>1. \A v \in Writes(p) : Owed(v)'
        BY <1>0, <1>1, <3>4, Continues DEF InsertFails, Owed, Writes, ProcessFits
      <4>. QED  BY <1>0, <2>2, <3>4, <4>1, RefusedSegment
    <3>. QED  BY <1>9, <3>2, <3>3, <3>4
  <2>8. ASSUME segment'[s].kind # "none", NEW v \in Vid, segment'[s].has[v] # table[v]
        PROVE  Owed(v)'
    <3>1. CASE v \notin Writes(p) /\ segment'[s].has[v] = segment[s].has[v]
      BY <1>0, <2>2, <2>4, <2>7, <2>8, <3>1 DEF SegmentCoherent
    <3>. QED  BY <2>7, <2>8, <3>1
  <2>9. SegmentCoherent'
    BY <2>1, <2>2, <2>8 DEF SegmentCoherent
  <2>. QED  BY <2>6, <2>9
<1>10. ASSUME NEW p \in Proc, Clear(p) PROVE LoadFits' /\ SegmentCoherent'
  BY <1>1, <1>2, <1>10 DEF Clear, CurrentSlot
<1>11. ASSUME NEW p \in Proc, Scan(p) \/ LoadFails(p) PROVE LoadFits' /\ SegmentCoherent'
  <2>1. /\ UNCHANGED <<table, segment, current, slotOf>> /\ proc[p].op = "search"
        /\ \A q \in Proc \ {p} : proc'[q] = proc[q]
        /\ proc'[p].stage = "idle"
    BY <1>0, <1>1, <1>11, Ends DEF Scan, LoadFails, ProcessFits
  <2>2. \A v \in Vid : Owed(v) => Owed(v)'
    BY <1>0, <2>1, StillOwed DEF Writes
  <2>. QED  BY <1>3, <2>1, <2>2 DEF CurrentSlot
<1>12. ASSUME NEW p \in Proc, StartLoad(p) PROVE LoadFits' /\ SegmentCoherent'
  <2>1. /\ UNCHANGED <<table, segment, current, slotOf>> /\ proc[p].op = "search"
        /\ \A q \in Proc \ {p} : proc'[q] = proc[q]
        /\ proc'[p].saw = table
    BY <1>0, <1>1, <1>12, Continues DEF StartLoad, ProcessFits
  <2>2. \A v \in Vid : Owed(v) => Owed(v)'
    BY <1>0, <2>1, StillOwed DEF Writes
  <2>. QED  BY <1>3, <2>1, <2>2 DEF CurrentSlot
<1>13. ASSUME NEW p \in Proc, FinishLoad(p) PROVE LoadFits' /\ SegmentCoherent'
  <2>1. /\ UNCHANGED <<table, current, slotOf>> /\ proc[p].op = "search"
        /\ proc[p].stage = "load"
        /\ \A q \in Proc \ {p} : proc'[q] = proc[q]
        /\ proc'[p].stage = "idle"
    BY <1>0, <1>1, <1>13, Ends DEF FinishLoad, ProcessFits
  <2>2. \A v \in Vid : Owed(v) => Owed(v)'
    BY <1>0, <2>1, StillOwed DEF Writes
  <2>3. CurrentSlot' = CurrentSlot
    BY <2>1 DEF CurrentSlot
  <2>4. LoadFits'
    BY <1>0, <2>1, <2>2, <2>3 DEF LoadFits
  <2>5. CurrentSlot # 0 => CurrentSlot \in Slot
    <3>1. slotOf[current] \in 0..MaxSlot
      BY <1>1, <2>1
    <3>. QED  BY <3>1 DEF CurrentSlot, Slot, Sizes
  <2>6. CASE proc[p].slot = CurrentSlot
    BY <1>0, <1>13, <2>1, <2>2, <2>3, <2>4, <2>6, LoadedSegment DEF SegmentCoherent, LoadFits
  <2>7. CASE proc[p].slot # CurrentSlot
    <3>1. CurrentSlot # 0 => segment'[CurrentSlot] = segment[CurrentSlot]
      BY <1>0, <1>13, <2>5, <2>7, LoadedSegment
    <3>. QED  BY <1>0, <2>1, <2>2, <2>3, <2>4, <3>1 DEF SegmentCoherent
  <2>. QED  BY <2>4, <2>6, <2>7
<1>. QED
  BY <1>4, <1>5, <1>6, <1>7, <1>8, <1>9, <1>10, <1>11, <1>12, <1>13 DEF Next

LEMMA CacheInit == ASSUME Sizes, Init PROVE CacheInv
<1>1. Types
  BY TypeInit
<1>2. \A p \in Proc : proc[p].stage = "idle" /\ Writes(p) = {}
  BY DEF Init, IdleProc, Writes
<1>3. Fresh
  BY DEF Init, Fresh
<1>. QED
  BY <1>1, <1>2, <1>3
  DEF Init, CacheInv, OneStore, Disjoint, Committed, SlotFits, LoadFits, SegmentCoherent, CurrentSlot

LEMMA CacheStep ==
  ASSUME ~MayEvict, ~SharedVectors, Sizes, CacheInv, [Next]_vars PROVE CacheInv'
BY TypeStep, OrderStep, DisjointStep, CommittedStep, SlotStep, CoherentStep DEF CacheInv

\* While the store is open to whoever uses it, and operations at once write ids
\* of their own, a loaded segment differs from vector_lookup only where a
\* committed writer is on its way to it: searches, loads, failing loads and
\* insertions, changes of kind and resets lose no vector and resurrect none.
THEOREM CoherentAlways ==
  ~MayEvict /\ ~SharedVectors /\ Sizes => (Spec => []SegmentCoherent)
<1>. SUFFICES ASSUME ~MayEvict, ~SharedVectors, Sizes PROVE Spec => []SegmentCoherent
  OBVIOUS
<1>1. CacheInv /\ [Next]_vars => CacheInv'
  BY CacheStep
<1>2. CacheInv => SegmentCoherent
  BY DEF CacheInv
<1>. QED  BY <1>1, <1>2, CacheInit, PTL DEF Spec
=============================================================================
