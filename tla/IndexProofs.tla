---------------------------- MODULE IndexProofs ----------------------------
(***************************************************************************)
(* What a tenant's indexes and what a batch prepares hold, for any ids,    *)
(* vectors, turns, predicates, older files and bounds: first the parts     *)
(* that have no proofs of their own, then all of them as MCIndex puts them *)
(* together.                                                               *)
(***************************************************************************)
EXTENDS MCIndex, FiniteSetTheorems, TLAPS

-----------------------------------------------------------------------------
(* A flat segment.                                                         *)

\* The inductive invariant: TypeOK and RowsAligned need each other.
Inv == TypeOK /\ RowsAligned

\* swap_row: the last element takes the place of the one removed, and nothing
\* else moves.
LEMMA SwapRemovedRows ==
  ASSUME NEW Item, NEW s \in Seq(Item), NEW r \in 1..Len(s)
  PROVE  /\ SwapRemoved(s, r) \in Seq(Item)
         /\ Len(SwapRemoved(s, r)) = Len(s) - 1
         /\ \A k \in 1..(Len(s) - 1) :
              SwapRemoved(s, r)[k] = IF k = r THEN s[Len(s)] ELSE s[k]
<1> DEFINE t == [s EXCEPT ![r] = s[Len(s)]]
<1>1. t \in Seq(Item) /\ Len(t) = Len(s)
  OBVIOUS
<1>2. \A k \in 1..Len(s) : t[k] = IF k = r THEN s[Len(s)] ELSE s[k]
  OBVIOUS
<1>3. SwapRemoved(s, r) = SubSeq(t, 1, Len(s) - 1)
  BY DEF SwapRemoved
<1> HIDE DEF t
<1> QED
  BY <1>1, <1>2, <1>3

\* A new segment is empty and aligned.
LEMMA Initial == Init => Inv
BY DEF Init, Inv, TypeOK, RowsAligned, Member

\* upsert of an id with a row writes that row and moves none.
LEMMA OverwriteStep ==
  ASSUME Inv, NEW i \in Id, NEW c \in Code, Overwrite(i, c)
  PROVE  /\ Inv'
         /\ Held' = [Held EXCEPT ![i] = c]
<1> USE DEF Inv, TypeOK, RowsAligned, Member
<1>1. positions[i] \in 1..Len(codes)
  BY DEF Overwrite
<1>2. codes' \in Seq(Code) /\ Len(codes') = Len(codes)
  BY <1>1 DEF Overwrite
<1>3. Inv'
  BY <1>2 DEF Overwrite
<1>4. ASSUME NEW j \in Id
      PROVE  Held'[j] = [Held EXCEPT ![i] = c][j]
  <2>1. CASE j = i
    BY <2>1, <1>1 DEF Overwrite, Held
  <2>2. CASE j # i /\ j \in Member
    <3>1. positions[j] # positions[i] /\ positions[j] \in 1..Len(codes)
      BY <2>2 DEF Overwrite
    <3> QED
      BY <2>2, <3>1, <1>1 DEF Overwrite, Held
  <2>3. CASE j # i /\ j \notin Member
    BY <2>3 DEF Overwrite, Held
  <2> QED
    BY <2>1, <2>2, <2>3
<1> QED
  BY <1>3, <1>4 DEF Held

\* upsert of a new id adds a row behind all others.
LEMMA AppendStep ==
  ASSUME Inv, NEW i \in Id, NEW c \in Code, Append1(i, c)
  PROVE  /\ Inv'
         /\ Held' = [Held EXCEPT ![i] = c]
<1> USE DEF Inv, TypeOK, RowsAligned, Member
<1> DEFINE row == Len(ids) + 1
<1>1. /\ i \notin Member /\ ids' = Append(ids, i)
      /\ positions' = WithPosition(positions, i, row)
      /\ codes' = [Append(codes, Zero) EXCEPT ![row] = c]
  BY DEF Append1
<1>2. /\ codes' \in Seq(Code) /\ Len(codes') = row /\ codes'[row] = c
      /\ \A k \in 1..Len(ids) : codes'[k] = codes[k]
  <2> DEFINE longer == Append(codes, Zero)
  <2>1. /\ longer \in Seq(Code) /\ Len(longer) = row
        /\ \A k \in 1..Len(ids) : longer[k] = codes[k]
    BY FlatSegmentAssumption
  <2>2. codes' = [longer EXCEPT ![row] = c]
    BY <1>1
  <2> HIDE DEF longer
  <2> QED
    BY <2>1, <2>2
<1>3. /\ ids' \in Seq(Id) /\ Len(ids') = row /\ ids'[row] = i
      /\ \A k \in 1..Len(ids) : ids'[k] = ids[k]
  BY <1>1
<1>4. /\ DOMAIN positions' = Member \cup {i} /\ positions'[i] = row
      /\ \A j \in Member : positions'[j] = positions[j]
  BY <1>1 DEF WithPosition
<1>5. TypeOK'
  BY <1>2, <1>3, <1>4
<1>6. RowsAligned'
  BY <1>2, <1>3, <1>4, SMTT(30)
<1>7. ASSUME NEW j \in Id
      PROVE  Held'[j] = [Held EXCEPT ![i] = c][j]
  <2>1. CASE j = i
    BY <2>1, <1>2, <1>4 DEF Held
  <2>2. CASE j # i /\ j \in Member
    BY <2>2, <1>2, <1>4 DEF Held
  <2>3. CASE j # i /\ j \notin Member
    BY <2>3, <1>4 DEF Held
  <2> QED
    BY <2>1, <2>2, <2>3
<1> QED
  BY <1>5, <1>6, <1>7 DEF Held

\* remove moves the last row into the hole and tells positions where it went.
LEMMA RemoveStep ==
  ASSUME Inv, NEW i \in Id, Remove(i)
  PROVE  /\ Inv'
         /\ Held[i] # NoCode
         /\ Held' = [Held EXCEPT ![i] = NoCode]
<1> USE DEF Inv, TypeOK, RowsAligned, Member
<1> DEFINE r == positions[i]
           last == Len(ids)
           mover == ids[last]
<1>1. /\ i \in Member /\ codes' = SwapRemoved(codes, r)
      /\ ids' = SwapRemoved(ids, r) /\ positions' = Moved(positions, i)
  BY DEF Remove
<1>2. r \in 1..last /\ last \in 1..last /\ Len(codes) = last /\ ids[r] = i
      /\ mover \in Member /\ positions[mover] = last
  BY <1>1
<1>3. /\ ids' \in Seq(Id) /\ Len(ids') = last - 1
      /\ \A k \in 1..(last - 1) : ids'[k] = IF k = r THEN mover ELSE ids[k]
  <2>1. ids \in Seq(Id) /\ r \in 1..Len(ids)
    BY <1>2
  <2> HIDE DEF r, Inv
  <2>2. /\ SwapRemoved(ids, r) \in Seq(Id)
        /\ Len(SwapRemoved(ids, r)) = Len(ids) - 1
        /\ \A k \in 1..(Len(ids) - 1) :
             SwapRemoved(ids, r)[k] = IF k = r THEN ids[Len(ids)] ELSE ids[k]
    BY <2>1, SwapRemovedRows
  <2> QED
    BY <1>1, <2>2
<1>4. /\ codes' \in Seq(Code) /\ Len(codes') = last - 1
      /\ \A k \in 1..(last - 1) :
           codes'[k] = IF k = r THEN codes[last] ELSE codes[k]
  <2>1. codes \in Seq(Code) /\ r \in 1..Len(codes)
    BY <1>2
  <2> HIDE DEF r, Inv
  <2>2. /\ SwapRemoved(codes, r) \in Seq(Code)
        /\ Len(SwapRemoved(codes, r)) = Len(codes) - 1
        /\ \A k \in 1..(Len(codes) - 1) :
             SwapRemoved(codes, r)[k] = IF k = r THEN codes[Len(codes)] ELSE codes[k]
    BY <2>1, SwapRemovedRows
  <2> QED
    BY <1>1, <1>2, <2>2
<1>5. /\ DOMAIN positions' = Member \ {i}
      /\ \A j \in Member \ {i} :
           positions'[j] = IF j = mover THEN r ELSE positions[j]
  <2>1. CASE r = last
    <3>1. mover = i
      BY <2>1, <1>2
    <3>2. positions' = WithoutPosition(positions, i)
      BY <1>1, <2>1 DEF Moved
    <3> QED
      BY <3>1, <3>2 DEF WithoutPosition
  <2>2. CASE r # last
    <3>1. mover # i
      BY <2>2, <1>2
    <3>2. positions' = WithPosition(WithoutPosition(positions, i), mover, r)
      BY <1>1, <2>2 DEF Moved
    <3> QED
      BY <3>1, <3>2, <1>2 DEF WithPosition, WithoutPosition
  <2> QED
    BY <2>1, <2>2
<1>6. \A j \in Member \ {i} : j # mover => positions[j] \in 1..(last - 1) /\ positions[j] # r
  BY <1>2
<1>7. mover # i => r \in 1..(last - 1)
  BY <1>2
<1>8. \A j \in Member \ {i} : positions'[j] \in 1..(last - 1)
  BY <1>5, <1>6, <1>7
<1>9. TypeOK'
  BY <1>3, <1>4, <1>5, <1>8
<1>10. RowsAligned'
  <2>1. Len(codes') = Len(ids')
    BY <1>3, <1>4
  <2>2. ASSUME NEW k \in 1..(last - 1)
        PROVE  ids'[k] \in Member \ {i} /\ positions'[ids'[k]] = k
    <3>1. CASE k = r
      <4>1. mover # i
        BY <3>1, <1>2
      <4> QED
        BY <3>1, <4>1, <1>2, <1>3, <1>5
    <3>2. CASE k # r
      <4>1. ids[k] \in Member /\ positions[ids[k]] = k /\ ids[k] # i /\ ids[k] # mover
        BY <3>2, <1>2
      <4> QED
        BY <3>2, <4>1, <1>3, <1>5, SMTT(30)
    <3> QED
      BY <3>1, <3>2
  <2>3. ASSUME NEW j \in Member \ {i}
        PROVE  ids'[positions'[j]] = j
    <3>1. CASE j = mover
      BY <3>1, <1>3, <1>5, <1>7
    <3>2. CASE j # mover
      BY <3>2, <1>3, <1>5, <1>6, SMTT(30)
    <3> QED
      BY <3>1, <3>2
  <2> QED
    BY <2>1, <2>2, <2>3, <1>3, <1>5
<1>11. Held[i] # NoCode
  <2>1. codes[r] \in Code
    BY <1>2
  <2> QED
    BY <2>1, <1>1, FlatSegmentAssumption DEF Held
<1>12. ASSUME NEW j \in Id
       PROVE  Held'[j] = [Held EXCEPT ![i] = NoCode][j]
  <2>1. CASE j = i
    BY <2>1, <1>5 DEF Held
  <2>2. CASE j # i /\ j \in Member
    <3>1. codes'[positions'[j]] = codes[positions[j]]
      <4>1. CASE j = mover
        BY <4>1, <2>2, <1>2, <1>4, <1>5, <1>7, SMTT(30)
      <4>2. CASE j # mover
        BY <4>2, <2>2, <1>4, <1>5, <1>6
      <4> QED
        BY <4>1, <4>2
    <3> QED
      BY <2>2, <3>1, <1>5 DEF Held
  <2>3. CASE j # i /\ j \notin Member
    BY <2>3, <1>5 DEF Held
  <2> QED
    BY <2>1, <2>2, <2>3
<1> QED
  BY <1>9, <1>10, <1>11, <1>12 DEF Held

\* Any step keeps the invariant, and is a step of the map or changes nothing.
LEMMA Steps ==
  ASSUME Inv, [Next]_vars
  PROVE  Inv' /\ [Map!Next]_Held
<1>1. CASE UNCHANGED vars
  BY <1>1 DEF vars, Inv, TypeOK, RowsAligned, Member, Held
<1>2. ASSUME NEW i \in Id, Remove(i)
      PROVE  Inv' /\ [Map!Next]_Held
  BY <1>2, RemoveStep DEF Map!Next, Map!Drop
<1>3. ASSUME NEW i \in Id, NEW c \in Code, Upsert(i, c)
      PROVE  Inv' /\ [Map!Next]_Held
  <2>1. Inv' /\ Held' = [Held EXCEPT ![i] = c]
    BY <1>3, OverwriteStep, AppendStep DEF Upsert
  <2> QED
    BY <2>1 DEF Map!Next, Map!Put
<1> QED
  BY <1>1, <1>2, <1>3 DEF Next

\* flat_segment_remove_keeps_rows_aligned for any sequence of operations: the
\* ids, their rows and the vectors never get out of step.
THEOREM RowsAlwaysAligned == Spec => [](TypeOK /\ RowsAligned)
<1>1. Init => Inv
  BY Initial
<1>2. Inv /\ [Next]_vars => Inv'
  BY Steps
<1> QED
  BY <1>1, <1>2, PTL DEF Spec, Inv

\* A flat segment implements a map from vector ids to vectors: upsert is Put,
\* remove is Drop.
THEOREM SegmentIsMap == Spec => ImplementsMap
<1>1. Init => Map!Init
  BY DEF Init, Map!Init, Held, Member
<1>2. Inv /\ [Next]_vars => [Map!Next]_Held
  BY Steps
<1>3. Spec => []Inv
  BY RowsAlwaysAligned DEF Inv
<1> QED
  BY <1>1, <1>2, <1>3, PTL DEF Spec, ImplementsMap, Map!Spec

-----------------------------------------------------------------------------
(* An older file.                                                          *)

\* The time a memory was recorded, or else created.
Recorded(row) == IF row.written = "before" THEN S!Created ELSE S!Now

\* A row as the file has it, with all that init_schema and migrate have still to do.
RowFits(i) ==
  LET row == oldRows[i]
  IN  /\ version # 0
      /\ version >= 5 => row.hash = "new"
      /\ row.recorded = Recorded(row) \/ (row.recorded = 0 /\ row.written = "before")
      /\ row.indexed \/ version < 4 => i \in oldFts

\* What the steps that were taken since the opening have done to it.
RowReached(i) ==
  /\ at \in {"mark", "others", "fts", "router", "open"} => oldRows[i].recorded # 0
  /\ at \in {"fts", "router", "open"} => oldRows[i].hash = "new"

FileFits ==
  /\ version \in {0} \cup 3..8
  /\ columns \subseteq S!Columns /\ others \subseteq S!OtherColumns
  /\ oldRows \in [OldMemory -> S!Row \cup {Absent}]
  /\ version = 8 => routerFts = router \X {"hashed"}
  /\ at \in {"mark", "others", "fts", "router", "open"} => columns = S!Columns
  /\ at \in {"fts", "router", "open"} => others = S!OtherColumns
  /\ at = "open" => version = 8

MigrationInv == FileFits /\ \A i \in S!Stored : RowFits(i) /\ RowReached(i)

LEMMA MigrationStart == ASSUME S!Init PROVE MigrationInv
<1>1. version \in {0} \cup 3..8 /\ at = "closed"
  BY OlderFiles DEF S!Init
<1>2. columns \subseteq S!Columns /\ others \subseteq S!OtherColumns
  BY DEF S!Init, S!Columns, S!OtherColumns
<1>3. oldRows \in [OldMemory -> S!Row \cup {Absent}]
  BY DEF S!Init, S!Shipped
<1>4. version = 8 => routerFts = router \X {"hashed"}
  BY DEF S!Init, S!SchemaVersion
<1>5. FileFits
  BY <1>1, <1>2, <1>3, <1>4 DEF FileFits
<1>6. ASSUME NEW i \in S!Stored PROVE RowFits(i) /\ RowReached(i)
  <2>1. oldRows[i] \in S!Shipped(version) /\ oldRows[i] # Absent /\ i \in OldMemory
    BY DEF S!Init, S!Stored
  <2>3. "content_hash" \in S!Lacking(version) => version < 5
    <3>1. CASE version \in {0, 3, 4}
      BY <3>1
    <3>2. CASE version = 6
      BY <3>2 DEF S!Lacking
    <3>3. CASE version \in {5, 7, 8}
      BY <3>3 DEF S!Lacking
    <3> QED
      BY <1>1, <3>1, <3>2, <3>3
  <2>4. oldRows[i].indexed \/ version < 4 => i \in oldFts
    BY <2>1 DEF S!Init
  <2>5. version # 0 /\ (version >= 5 => oldRows[i].hash = "new")
    BY <1>1, <2>1, <2>3 DEF S!Shipped
  <2>6. oldRows[i].recorded = Recorded(oldRows[i]) \/ (oldRows[i].recorded = 0 /\ oldRows[i].written = "before")
    BY <2>1 DEF S!Shipped, Recorded
  <2> QED
    BY <1>1, <2>4, <2>5, <2>6 DEF RowFits, RowReached
<1> QED
  BY <1>5, <1>6 DEF MigrationInv

\* Steps that leave the rows alone, or give each at most a field it needs.
LEMMA RowsStay ==
  ASSUME MigrationInv, oldRows' = oldRows
  PROVE  S!Stored' = S!Stored /\ \A i \in S!Stored : RowFits(i) /\ RowReached(i)
BY DEF MigrationInv, S!Stored

LEMMA MigrationStep == ASSUME MigrationInv, S!Next \/ UNCHANGED S!mvars PROVE MigrationInv'
<1> USE DEF MigrationInv
<1>1. CASE S!Open \/ S!Crash \/ \E c \in S!Columns : S!AddColumn(c)
  <2>1. UNCHANGED <<version, others, oldRows, oldFts, router, routerFts>>
    BY <1>1 DEF S!Open, S!Crash, S!AddColumn, S!content
  <2>2. at' \in {"closed", "columns"} /\ columns' \subseteq S!Columns
    BY <1>1 DEF FileFits, S!Open, S!Crash, S!AddColumn, S!Then
  <2>3. FileFits'
    BY <2>1, <2>2 DEF FileFits
  <2>4. \A i \in S!Stored' : RowFits(i)' /\ RowReached(i)'
    BY <2>1, <2>2, RowsStay DEF RowFits, RowReached, Recorded
  <2> QED
    BY <2>3, <2>4
<1>2. CASE S!FillRecorded
  <2>1. /\ UNCHANGED <<version, columns, others, oldFts, router, routerFts>>
        /\ at' = "mark" /\ columns = S!Columns
    BY <1>2 DEF S!FillRecorded, S!Then
  <2>2. ASSUME NEW i \in OldMemory
        PROVE  oldRows'[i] = IF oldRows[i] # Absent /\ oldRows[i].recorded = 0
                             THEN [oldRows[i] EXCEPT !.recorded = S!Created] ELSE oldRows[i]
    BY <1>2 DEF S!FillRecorded, S!Stored
  <2>3. ASSUME NEW i \in OldMemory
        PROVE  /\ oldRows'[i] \in S!Row \cup {Absent}
               /\ oldRows'[i] # Absent => oldRows[i] # Absent
               /\ oldRows[i] # Absent /\ oldRows[i].recorded = 0 =>
                    /\ oldRows'[i].recorded = S!Created
                    /\ oldRows'[i].hash = oldRows[i].hash /\ oldRows'[i].written = oldRows[i].written
                    /\ oldRows'[i].indexed = oldRows[i].indexed
               /\ oldRows[i] = Absent \/ oldRows[i].recorded # 0 => oldRows'[i] = oldRows[i]
    <3>1. CASE oldRows[i] = Absent
      BY <2>2, <3>1
    <3>2. CASE oldRows[i] # Absent /\ oldRows[i].recorded # 0
      BY <2>2, <3>2 DEF FileFits
    <3>3. CASE oldRows[i] # Absent /\ oldRows[i].recorded = 0
      <4>1. oldRows[i] \in S!Row /\ S!Created \in 0 .. 2
        BY <3>3 DEF FileFits, S!Created
      <4>2. oldRows'[i] = [oldRows[i] EXCEPT !.recorded = S!Created]
        BY <2>2, <3>3
      <4> QED
        BY <3>3, <4>1, <4>2 DEF S!Row
    <3> QED
      BY <3>1, <3>2, <3>3
  <2>4. DOMAIN oldRows' = OldMemory /\ oldRows' \in [OldMemory -> S!Row \cup {Absent}]
    BY <1>2, <2>3 DEF S!FillRecorded
  <2>5. FileFits'
    BY <2>1, <2>4 DEF FileFits
  <2>6. ASSUME NEW i \in S!Stored' PROVE RowFits(i)' /\ RowReached(i)'
    <3>1. i \in OldMemory /\ i \in S!Stored
      BY <2>3 DEF S!Stored
    <3>2. RowFits(i)
      BY <3>1
    <3>3. CASE oldRows[i].recorded = 0
      <4>1. oldRows[i] # Absent /\ oldRows[i].written = "before"
        BY <3>1, <3>2, <3>3 DEF RowFits, Recorded, S!Stored, S!Created, S!Now
      <4>2. /\ oldRows'[i].recorded = 1 /\ oldRows'[i].written = "before"
            /\ oldRows'[i].hash = oldRows[i].hash /\ oldRows'[i].indexed = oldRows[i].indexed
        BY <2>3, <3>1, <3>3, <4>1 DEF S!Created
      <4> QED
        BY <2>1, <3>2, <4>2 DEF RowFits, RowReached, Recorded, S!Created
    <3>4. CASE oldRows[i].recorded # 0
      BY <2>1, <2>3, <3>1, <3>2, <3>4 DEF RowFits, RowReached, Recorded
    <3> QED
      BY <3>3, <3>4
  <2> QED
    BY <2>5, <2>6
<1>3. CASE S!MarkIndexed
  <2>1. /\ UNCHANGED <<version, columns, others, oldFts, router, routerFts>>
        /\ at = "mark" /\ at' = "others"
    BY <1>3 DEF S!MarkIndexed, S!Then
  <2>2. ASSUME NEW i \in OldMemory
        PROVE  oldRows'[i] = IF oldRows[i] # Absent /\ version < 4
                             THEN [oldRows[i] EXCEPT !.indexed = TRUE] ELSE oldRows[i]
    BY <1>3 DEF S!MarkIndexed, S!Stored
  <2>3. ASSUME NEW i \in OldMemory
        PROVE  /\ oldRows'[i] \in S!Row \cup {Absent}
               /\ oldRows'[i] # Absent => oldRows[i] # Absent
               /\ oldRows[i] # Absent =>
                    /\ oldRows'[i].recorded = oldRows[i].recorded
                    /\ oldRows'[i].hash = oldRows[i].hash /\ oldRows'[i].written = oldRows[i].written
                    /\ oldRows'[i].indexed => oldRows[i].indexed \/ version < 4
    BY <2>2, ZenonT(60) DEF FileFits, S!Row
  <2>4. oldRows' \in [OldMemory -> S!Row \cup {Absent}]
    BY <1>3, <2>3 DEF S!MarkIndexed
  <2>5. FileFits'
    BY <2>1, <2>4 DEF FileFits
  <2>6. ASSUME NEW i \in S!Stored' PROVE RowFits(i)' /\ RowReached(i)'
    <3>1. i \in OldMemory /\ i \in S!Stored /\ oldRows[i] # Absent
      BY <2>3 DEF S!Stored
    <3>2. RowFits(i) /\ RowReached(i)
      BY <3>1
    <3> QED
      BY <2>1, <2>3, <3>1, <3>2 DEF RowFits, RowReached, Recorded
  <2> QED
    BY <2>5, <2>6
<1>4. CASE \E c \in S!OtherColumns : S!AddOther(c)
  <2>1. /\ UNCHANGED <<version, columns, oldRows, oldFts, router, routerFts>>
        /\ at = "others" /\ at' = "others" /\ others' \subseteq S!OtherColumns
    BY <1>4 DEF S!AddOther, S!Then, S!content, FileFits
  <2>2. FileFits'
    BY <2>1 DEF FileFits
  <2>3. \A i \in S!Stored' : RowFits(i)' /\ RowReached(i)'
    BY <2>1, RowsStay DEF RowFits, RowReached, Recorded
  <2> QED
    BY <2>2, <2>3
<1>5. CASE S!Rehash
  <2>1. /\ UNCHANGED <<version, columns, others, oldFts, router, routerFts>>
        /\ at = "others" /\ at' = "fts" /\ others = S!OtherColumns
    BY <1>5 DEF S!Rehash, S!Then
  <2>2. ASSUME NEW i \in OldMemory
        PROVE  oldRows'[i] = IF oldRows[i] # Absent /\ version < 5
                             THEN [oldRows[i] EXCEPT !.hash = "new"] ELSE oldRows[i]
    BY <1>5 DEF S!Rehash, S!Stored
  <2>3. ASSUME NEW i \in OldMemory
        PROVE  /\ oldRows'[i] \in S!Row \cup {Absent}
               /\ oldRows'[i] # Absent => oldRows[i] # Absent
               /\ oldRows[i] # Absent =>
                    /\ oldRows'[i].recorded = oldRows[i].recorded
                    /\ oldRows'[i].hash = IF version < 5 THEN "new" ELSE oldRows[i].hash
                    /\ oldRows'[i].written = oldRows[i].written
                    /\ oldRows'[i].indexed = oldRows[i].indexed
    BY <2>2, ZenonT(60) DEF FileFits, S!Row
  <2>4. oldRows' \in [OldMemory -> S!Row \cup {Absent}]
    BY <1>5, <2>3 DEF S!Rehash
  <2>5. FileFits'
    BY <2>1, <2>4 DEF FileFits
  <2>6. ASSUME NEW i \in S!Stored' PROVE RowFits(i)' /\ RowReached(i)'
    <3>1. i \in OldMemory /\ i \in S!Stored /\ oldRows[i] # Absent
      BY <2>3 DEF S!Stored
    <3>2. RowFits(i) /\ RowReached(i) /\ version \in Int
      BY <3>1 DEF FileFits
    <3> QED
      BY <2>1, <2>3, <3>1, <3>2 DEF RowFits, RowReached, Recorded
  <2> QED
    BY <2>5, <2>6
<1>6. CASE S!RebuildFts
  <2>1. /\ UNCHANGED <<version, columns, others, oldRows, router, routerFts>>
        /\ at = "fts" /\ at' = "router" /\ (version # 0 => oldFts' = oldFts)
    BY <1>6 DEF S!RebuildFts, S!Then, FileFits
  <2>2. FileFits'
    BY <2>1 DEF FileFits
  <2>3. \A i \in S!Stored' : RowFits(i)' /\ RowReached(i)'
    BY <2>1, RowsStay DEF RowFits, RowReached, Recorded
  <2> QED
    BY <2>2, <2>3
<1>7. CASE S!NormaliseRouter
  <2>1. /\ UNCHANGED <<columns, others, oldRows, oldFts, router>>
        /\ at = "router" /\ at' = "open" /\ version' = 8 /\ routerFts' = router \X {"hashed"}
    BY <1>7 DEF S!NormaliseRouter, S!Then, S!SchemaVersion, FileFits
  <2>2. FileFits'
    BY <2>1 DEF FileFits
  <2>3. \A i \in S!Stored' : RowFits(i)' /\ RowReached(i)'
    BY <2>1, RowsStay DEF RowFits, RowReached, Recorded, FileFits
  <2> QED
    BY <2>2, <2>3
<1>8. CASE \E i \in OldMemory : S!Ingest(i) \/ S!Index(i)
  <2>1. PICK i \in OldMemory : S!Ingest(i) \/ S!Index(i)
    BY <1>8
  <2>2. /\ UNCHANGED <<version, columns, others, router, routerFts, at>>
        /\ at = "open" /\ version = 8
    BY <2>1 DEF S!Ingest, S!Index, FileFits
  <2>3. \A k \in OldMemory \ {i} : oldRows'[k] = oldRows[k]
    BY <2>1 DEF S!Ingest, S!Index, FileFits
  <2>4. oldFts \subseteq oldFts'
    BY <2>1 DEF S!Ingest, S!Index
  <2>5. CASE S!Ingest(i)
    <3>1. oldRows'[i] = [hash |-> "new", recorded |-> S!Now, indexed |-> FALSE, written |-> "since"]
          /\ oldRows' \in [OldMemory -> S!Row \cup {Absent}]
      BY <2>5 DEF S!Ingest, FileFits, S!Row, S!Now
    <3>2. RowFits(i)' /\ RowReached(i)'
      BY <2>2, <3>1 DEF RowFits, RowReached, Recorded, S!Now
    <3>3. ASSUME NEW k \in S!Stored', k # i PROVE RowFits(k)' /\ RowReached(k)'
      <4>1. k \in S!Stored /\ oldRows'[k] = oldRows[k]
        BY <2>3, <3>3 DEF S!Stored
      <4> QED
        BY <2>2, <2>4, <4>1 DEF RowFits, RowReached, Recorded
    <3> QED
      BY <2>2, <3>1, <3>2, <3>3 DEF FileFits
  <2>6. CASE S!Index(i)
    <3>1. i \in S!Stored /\ oldRows[i] \in S!Row
      BY <2>6 DEF S!Index, S!Stored, FileFits
    <3>2. /\ oldRows'[i].hash = oldRows[i].hash /\ oldRows'[i].recorded = oldRows[i].recorded
          /\ oldRows'[i].written = oldRows[i].written /\ i \in oldFts'
          /\ oldRows' \in [OldMemory -> S!Row \cup {Absent}]
      <4>1. CASE i \notin oldFts
        BY <2>6, <4>1 DEF S!Index, FileFits
      <4>2. CASE i \in oldFts
        <5>1. oldRows' = [oldRows EXCEPT ![i].indexed = TRUE] /\ oldFts' = oldFts
          BY <2>6, <4>2 DEF S!Index
        <5>2. oldRows'[i] = [oldRows[i] EXCEPT !.indexed = TRUE]
          BY <5>1 DEF FileFits
        <5>3. /\ oldRows'[i] \in S!Row /\ oldRows'[i].hash = oldRows[i].hash
              /\ oldRows'[i].recorded = oldRows[i].recorded /\ oldRows'[i].written = oldRows[i].written
          BY <3>1, <5>2, ZenonT(60) DEF S!Row
        <5> QED
          BY <4>2, <5>1, <5>3 DEF FileFits
      <4> QED
        BY <4>1, <4>2
    <3>3. RowFits(i)' /\ RowReached(i)'
      BY <2>2, <3>1, <3>2 DEF RowFits, RowReached, Recorded
    <3>4. ASSUME NEW k \in S!Stored', k # i PROVE RowFits(k)' /\ RowReached(k)'
      <4>1. k \in S!Stored /\ oldRows'[k] = oldRows[k]
        BY <2>3, <3>4 DEF S!Stored
      <4> QED
        BY <2>2, <2>4, <4>1 DEF RowFits, RowReached, Recorded
    <3> QED
      BY <2>2, <3>2, <3>3, <3>4 DEF FileFits
  <2> QED
    BY <2>1, <2>5, <2>6
<1>9. CASE \E s \in Session : S!Route(s)
  <2>1. PICK s \in Session : S!Route(s)
    BY <1>9
  <2>2. /\ UNCHANGED <<version, columns, others, oldRows, oldFts, at>>
        /\ at = "open" /\ version = 8
        /\ router' = router \cup {s} /\ routerFts' = routerFts \cup {<<s, "hashed">>}
    BY <2>1 DEF S!Route, FileFits
  <2>3. routerFts' = router' \X {"hashed"}
    BY <2>2 DEF FileFits
  <2>4. FileFits'
    BY <2>2, <2>3 DEF FileFits
  <2>5. \A i \in S!Stored' : RowFits(i)' /\ RowReached(i)'
    BY <2>2, RowsStay DEF RowFits, RowReached, Recorded
  <2> QED
    BY <2>4, <2>5
<1>10. CASE UNCHANGED S!mvars
  <2>1. UNCHANGED <<version, columns, others, oldRows, oldFts, router, routerFts, at>>
    BY <1>10 DEF S!mvars
  <2>2. FileFits'
    BY <2>1 DEF FileFits
  <2>3. \A i \in S!Stored' : RowFits(i)' /\ RowReached(i)'
    BY <2>1, RowsStay DEF RowFits, RowReached, Recorded
  <2> QED
    BY <2>2, <2>3
<1> QED
  BY <1>1, <1>2, <1>3, <1>4, <1>5, <1>6, <1>7, <1>8, <1>9, <1>10 DEF S!Next

LEMMA MigrationShows == ASSUME MigrationInv PROVE S!Migrated
BY DEF MigrationInv, FileFits, RowFits, RowReached, Recorded, S!Migrated, S!SchemaVersion

-----------------------------------------------------------------------------
(* The windows of a session.                                               *)

\* A set of turns has a first and a last.
LEMMA FirstTurn ==
  ASSUME NEW T \in SUBSET Turn, T # {}
  PROVE  W!Min(T) \in T /\ \A t \in T : W!Min(T) <= t
<1>1. \E lo \in T : \A t \in T : lo <= t
  <2>1. T \subseteq Nat
    BY TurnsAssumption
  <2>2. IsWellFoundedOn(OpToRel(<, Nat), Nat)
    BY Zenon, NatLessThanWellFounded
  <2>3. PICK lo \in T : \A t \in T : ~ (<<t, lo>> \in OpToRel(<, Nat))
    BY <2>1, <2>2, WFMin, Zenon
  <2>4. \A t \in T : ~(t < lo)
    BY <2>1, <2>3 DEF OpToRel
  <2> QED
    BY <2>1, <2>4
<1> QED
  BY <1>1 DEF W!Min

LEMMA LastTurn ==
  ASSUME NEW T \in SUBSET Turn, T # {}
  PROVE  W!Max(T) \in T /\ \A t \in T : W!Max(T) >= t
<1>1. T \subseteq Nat /\ IsFiniteSet(T)
  BY TurnsAssumption, FS_Subset
<1> DEFINE above(t) == {u \in T : u > t}
           sets == {above(t) : t \in T}
<1>2. sets \subseteq FiniteSubsetsOf(T) /\ sets # {}
  <2>1. FiniteSubsetsOf(T) = SUBSET T
    BY <1>1, FS_FiniteSubsetsOfFinite
  <2>2. ASSUME NEW s \in sets PROVE s \in SUBSET T
    BY <2>2
  <2>3. PICK t \in T : TRUE
    OBVIOUS
  <2>4. above(t) \in sets
    OBVIOUS
  <2> HIDE DEF sets, above
  <2> QED
    BY <2>1, <2>2, <2>4
<1>3. IsWellFoundedOn(StrictSubsetOrdering(T), FiniteSubsetsOf(T))
  BY FS_StrictSubsetOrderingWellFounded
<1>4. PICK s \in sets : \A u \in sets : ~ (<<u, s>> \in StrictSubsetOrdering(T))
  <2> DEFINE R0 == StrictSubsetOrdering(T)
             S0 == FiniteSubsetsOf(T)
  <2> HIDE DEF sets, R0, S0
  <2>1. IsWellFoundedOn(R0, S0) /\ sets \subseteq S0 /\ sets # {}
    BY <1>2, <1>3 DEF R0, S0
  <2>2. \E s \in sets : \A u \in sets : ~ (<<u, s>> \in R0)
    BY <2>1, WFMin
  <2> QED
    BY <2>2 DEF R0
<1>5. PICK hi \in T : s = above(hi)
  OBVIOUS
<1>6. ASSUME NEW t \in T, t > hi PROVE FALSE
  <2>a. t \in Nat /\ hi \in Nat
    BY <1>1
  <2>b. ASSUME NEW u \in above(t) PROVE u \in above(hi)
    <3>1. u \in T /\ u \in Nat /\ u > t
      BY <1>1, <2>b
    <3> QED
      BY <1>6, <2>a, <3>1
  <2>c. t \in above(hi) /\ t \notin above(t)
    BY <1>6, <2>a
  <2>1. above(t) \subseteq above(hi) /\ t \in above(hi) /\ t \notin above(t)
    BY <2>b, <2>c
  <2>2. <<above(t), above(hi)>> \in StrictSubsetOrdering(T)
    BY <2>1 DEF StrictSubsetOrdering
  <2> QED
    BY <1>4, <1>5, <2>2
<1>7. \A t \in T : hi >= t
  BY <1>1, <1>6
<1> QED
  BY <1>7 DEF W!Max

\* Lines of the session: what some of its turns say.
LEMMA LinesAre ==
  ASSUME NEW f
  PROVE  f \in W!Lines <=> /\ DOMAIN f \in SUBSET Turn
                           /\ f = [t \in DOMAIN f |-> f[t]]
                           /\ \A t \in DOMAIN f : f[t] \in Said
BY DEF W!Lines

LEMMA OverlaidLines ==
  ASSUME NEW f \in W!Lines, NEW g \in W!Lines
  PROVE  /\ W!Overlaid(f, g) \in W!Lines
         /\ DOMAIN W!Overlaid(f, g) = DOMAIN f \cup DOMAIN g
         /\ \A t \in DOMAIN g : W!Overlaid(f, g)[t] = g[t]
         /\ \A t \in DOMAIN f \ DOMAIN g : W!Overlaid(f, g)[t] = f[t]
<1>1. /\ DOMAIN f \in SUBSET Turn /\ DOMAIN g \in SUBSET Turn
      /\ (\A t \in DOMAIN f : f[t] \in Said) /\ \A t \in DOMAIN g : g[t] \in Said
  BY LinesAre
<1>2. /\ DOMAIN W!Overlaid(f, g) = DOMAIN f \cup DOMAIN g
      /\ W!Overlaid(f, g) = [t \in DOMAIN W!Overlaid(f, g) |-> W!Overlaid(f, g)[t]]
      /\ \A t \in DOMAIN g : W!Overlaid(f, g)[t] = g[t]
      /\ \A t \in DOMAIN f \ DOMAIN g : W!Overlaid(f, g)[t] = f[t]
  BY DEF W!Overlaid
<1>3. \A t \in DOMAIN W!Overlaid(f, g) : W!Overlaid(f, g)[t] \in Said
  BY <1>1, <1>2
<1> QED
  BY <1>1, <1>2, <1>3, LinesAre

LEMMA PartOfLines ==
  ASSUME NEW f \in W!Lines, NEW T, T \subseteq DOMAIN f
  PROVE  [t \in T |-> f[t]] \in W!Lines
<1> DEFINE g == [t \in T |-> f[t]]
<1>1. DOMAIN g = T /\ \A t \in T : g[t] = f[t]
  OBVIOUS
<1>2. g = [t \in DOMAIN g |-> g[t]]
  OBVIOUS
<1>3. DOMAIN f \in SUBSET Turn /\ \A t \in DOMAIN f : f[t] \in Said
  BY LinesAre
<1> HIDE DEF g
<1>4. g \in W!Lines
  BY <1>1, <1>2, <1>3, LinesAre
<1> QED
  BY <1>4 DEF g

\* What is stored near a batch has been read for it.
LEMMA Around ==
  ASSUME content \in W!Lines, NEW b \in W!Batch
  PROVE  LET read == W!StoredAround(b)
         IN  /\ read \in W!Lines
             /\ \A t \in DOMAIN read : t \in W!Stored /\ read[t] = content[t]
             /\ \A t \in W!Stored, u \in DOMAIN b :
                  W!Within(t, u, Window) \/ W!Within(u, t, Window) => t \in DOMAIN read
             /\ \A t, n \in W!Stored, u \in DOMAIN b :
                  W!Within(t, u, Window) /\ W!Within(t, n, Window) => n \in DOMAIN read
<1> DEFINE T == DOMAIN b
           read == W!StoredAround(b)
           near == {s \in W!Stored : W!Min(T) - 2 * Window <= s /\ s <= W!Max(T) + 2 * Window}
<1>1. T \in SUBSET Turn /\ T # {} /\ W!Stored \in SUBSET Turn /\ Turn \subseteq Nat /\ Window \in Nat
  BY LinesAre, TurnsAssumption DEF W!Batch, W!Stored
<1>2. /\ W!Min(T) \in Nat /\ W!Max(T) \in Nat
      /\ \A u \in T : W!Min(T) <= u /\ u <= W!Max(T)
  BY <1>1, FirstTurn, LastTurn
<1>3. read = [t \in near |-> content[t]]
  BY DEF W!StoredAround, W!SessionTurns
<1>4. read \in W!Lines
  BY <1>3, PartOfLines DEF W!Stored
<1>5. DOMAIN read = near /\ \A t \in near : read[t] = content[t]
  BY <1>3
<1> HIDE DEF read, T
<1>6. ASSUME NEW t \in W!Stored, NEW u \in T, W!Within(t, u, Window) \/ W!Within(u, t, Window)
      PROVE  t \in near
  <2>1. t \in Nat /\ u \in Nat /\ W!Min(T) <= u /\ u <= W!Max(T)
    BY <1>1, <1>2
  <2>2. u - Window <= t /\ t <= u + Window
    BY <1>1, <1>6, <2>1 DEF W!Within
  <2> QED
    BY <1>1, <1>2, <2>1, <2>2
<1>7. ASSUME NEW t \in W!Stored, NEW n \in W!Stored, NEW u \in T,
             W!Within(t, u, Window), W!Within(t, n, Window)
      PROVE  n \in near
  <2>1. t \in Nat /\ u \in Nat /\ n \in Nat /\ W!Min(T) <= u /\ u <= W!Max(T)
    BY <1>1, <1>2
  <2>2. u - Window <= t /\ t <= u + Window /\ t - Window <= n /\ n <= t + Window
    BY <1>1, <1>7, <2>1 DEF W!Within
  <2> QED
    BY <1>1, <1>2, <2>1, <2>2
<1> HIDE DEF near
<1>8. near \subseteq W!Stored
  BY DEF near
<1> QED
  BY <1>4, <1>5, <1>6, <1>7, <1>8 DEF read, T

\* The window of t as it will be shows each of its turns as it will be.
Shows(text, t, lines) ==
  \A n \in DOMAIN lines : W!Within(t, n, Window) => n \in DOMAIN text /\ text[n] = lines[n]

\* What a request carries from build_embed_texts to its commit fits the store
\* that the commit makes.
Carries(q) ==
  LET after == W!Overlaid(content, q.batch)
  IN  /\ q.batch \in W!Lines
      /\ DOMAIN q.texts = DOMAIN q.batch
      /\ \A t \in DOMAIN q.texts : q.texts[t] \in W!Lines /\ Shows(q.texts[t], t, after)
      /\ DOMAIN q.neighbours \cap DOMAIN q.batch = {}
      /\ \A t \in DOMAIN q.neighbours : q.neighbours[t] \in W!Lines /\ Shows(q.neighbours[t], t, after)
      /\ \A t \in W!Stored \ DOMAIN q.batch, n \in DOMAIN q.batch :
           W!Within(t, n, Window) => t \in DOMAIN q.neighbours

\* A batch is new, or all of it is a re-send.
AllOrNone(b) ==
  \/ \A t \in DOMAIN b : W!Unchanged(t, b[t])
  \/ \A t \in DOMAIN b : ~W!Unchanged(t, b[t])

ClientFits(r) ==
  LET q == request[r]
  IN  \/ q = W!Idle
      \/ q.at = "indexing"
      \/ /\ q.at \in {"built", "embedding"}
         /\ DOMAIN q = {"at", "batch", "texts", "neighbours"}
         /\ Carries(q)
         /\ q.at = "built" => AllOrNone(q.batch)

SessionFits ==
  /\ content \in W!Lines
  /\ DOMAIN vector = W!Stored /\ \A t \in W!Stored : vector[t] \in W!Lines
  /\ pending \subseteq W!Stored
  /\ deletes \in 0 .. MaxDelete

WindowsInv ==
  /\ SessionFits /\ W!WindowsComplete
  /\ request = [r \in Client |-> request[r]]
  /\ \A r, s \in Client : r = s \/ request[r] = W!Idle \/ request[s] = W!Idle
  /\ \A r \in Client : ClientFits(r)

\* The texts of a batch and of the stored turns around it.
LEMMA BuildCarries ==
  ASSUME SessionFits, NEW b \in W!Batch
  PROVE  LET read == W!StoredAround(b)
             lines == W!Overlaid(read, b)
         IN  Carries([at |-> "built", batch |-> b, texts |-> W!BatchTexts(lines, b),
                      neighbours |-> W!NeighbourUpdates(read, lines, b)])
<1> DEFINE read == W!StoredAround(b)
           lines == W!Overlaid(read, b)
           after == W!Overlaid(content, b)
           texts == W!BatchTexts(lines, b)
           neighbours == W!NeighbourUpdates(read, lines, b)
<1>1. /\ read \in W!Lines
      /\ \A t \in DOMAIN read : t \in W!Stored /\ read[t] = content[t]
      /\ \A t \in W!Stored, u \in DOMAIN b :
           W!Within(t, u, Window) \/ W!Within(u, t, Window) => t \in DOMAIN read
      /\ \A t, n \in W!Stored, u \in DOMAIN b :
           W!Within(t, u, Window) /\ W!Within(t, n, Window) => n \in DOMAIN read
  BY Around DEF SessionFits
<1>2. b \in W!Lines /\ content \in W!Lines /\ W!Stored = DOMAIN content
  BY DEF W!Batch, SessionFits, W!Stored
<1>3. /\ lines \in W!Lines /\ DOMAIN lines = DOMAIN read \cup DOMAIN b
      /\ \A t \in DOMAIN b : lines[t] = b[t]
      /\ \A t \in DOMAIN read \ DOMAIN b : lines[t] = content[t]
  <2> HIDE DEF read
  <2>1. /\ lines \in W!Lines /\ DOMAIN lines = DOMAIN read \cup DOMAIN b
        /\ \A t \in DOMAIN b : lines[t] = b[t]
        /\ \A t \in DOMAIN read \ DOMAIN b : lines[t] = read[t]
    BY <1>1, <1>2, OverlaidLines
  <2> QED
    BY <1>1, <2>1
<1>4. /\ DOMAIN after = W!Stored \cup DOMAIN b
      /\ \A t \in DOMAIN b : after[t] = b[t]
      /\ \A t \in W!Stored \ DOMAIN b : after[t] = content[t]
  BY <1>2, OverlaidLines
<1>5. /\ DOMAIN texts = DOMAIN b /\ \A t \in DOMAIN b : texts[t] = W!WindowText(lines, t)
  BY DEF W!BatchTexts
<1>6. /\ DOMAIN neighbours = {s \in DOMAIN read \ DOMAIN b : \E u \in DOMAIN b : W!Within(s, u, Window)}
      /\ \A t \in DOMAIN neighbours : neighbours[t] = W!WindowText(lines, t)
  BY DEF W!NeighbourUpdates
<1> HIDE DEF read, lines, after, texts, neighbours
<1>7. \A t : /\ W!WindowText(lines, t) \in W!Lines
             /\ DOMAIN W!WindowText(lines, t) = {n \in DOMAIN lines : W!Within(t, n, Window)}
             /\ \A n \in DOMAIN lines : W!Within(t, n, Window) => W!WindowText(lines, t)[n] = lines[n]
  BY <1>3, PartOfLines DEF W!WindowText
<1>8. ASSUME NEW t, \A n \in W!Stored : W!Within(t, n, Window) => n \in DOMAIN read
      PROVE  Shows(W!WindowText(lines, t), t, after)
  <2> SUFFICES ASSUME NEW n \in DOMAIN after, W!Within(t, n, Window)
               PROVE  n \in DOMAIN W!WindowText(lines, t) /\ W!WindowText(lines, t)[n] = after[n]
    BY DEF Shows
  <2>1. n \in DOMAIN lines /\ lines[n] = after[n]
    <3>1. CASE n \in DOMAIN b
      BY <1>3, <1>4, <3>1
    <3>2. CASE n \notin DOMAIN b
      <4>1. n \in W!Stored /\ n \in DOMAIN read
        BY <1>4, <1>8, <3>2
      <4> QED
        BY <1>3, <1>4, <3>2, <4>1
    <3> QED
      BY <3>1, <3>2
  <2> QED
    BY <1>7, <2>1
<1>9. ASSUME NEW t \in DOMAIN b PROVE Shows(W!WindowText(lines, t), t, after)
  BY <1>1, <1>8
<1>10. ASSUME NEW t \in DOMAIN neighbours PROVE Shows(W!WindowText(lines, t), t, after)
  BY <1>1, <1>6, <1>8
<1>11. \A t \in W!Stored \ DOMAIN b, n \in DOMAIN b : W!Within(t, n, Window) => t \in DOMAIN neighbours
  BY <1>1, <1>6
<1>12. DOMAIN neighbours \cap DOMAIN b = {}
  BY <1>6
<1> DEFINE q == [at |-> "built", batch |-> b, texts |-> texts, neighbours |-> neighbours]
<1>13. q.batch = b /\ q.texts = texts /\ q.neighbours = neighbours
  OBVIOUS
<1> HIDE DEF q
<1>14. Carries(q)
  BY <1>2, <1>5, <1>6, <1>7, <1>9, <1>10, <1>11, <1>12, <1>13 DEF Carries, after
<1> QED
  BY <1>14 DEF q, read, lines, texts, neighbours

\* One client is busy at most.
LEMMA OneClient ==
  ASSUME NEW r \in Client, SessionFits', W!WindowsComplete', ClientFits(r)',
         request' = [s \in Client |-> request'[s]],
         \A s \in Client \ {r} : request'[s] = W!Idle
  PROVE  WindowsInv'
BY DEF WindowsInv, ClientFits

\* Nothing of the tables changes.
LEMMA TablesStay ==
  ASSUME WindowsInv, content' = content, vector' = vector, deletes' = deletes,
         pending' \subseteq W!Stored
  PROVE  SessionFits' /\ W!WindowsComplete'
BY DEF WindowsInv, SessionFits, W!WindowsComplete, W!Stored

\* What a request carries fits as long as the tables stay.
LEMMA CarriesStays ==
  ASSUME NEW q, content' = content
  PROVE  /\ Carries(q) => Carries(q)'
         /\ pending' = pending /\ AllOrNone(q.batch) => AllOrNone(q.batch)'
<1>1. W!Stored' = W!Stored
  BY DEF W!Stored
<1>2. ASSUME NEW after, after = W!Overlaid(content, q.batch) PROVE after = W!Overlaid(content, q.batch)'
  BY <1>2 DEF W!Overlaid
<1>3. ASSUME Carries(q) PROVE Carries(q)'
  <2>1. PICK after : after = W!Overlaid(content, q.batch)
    OBVIOUS
  <2>2. after = W!Overlaid(content, q.batch)'
    BY <1>2, <2>1
  <2> QED
    BY <1>1, <1>3, <2>1, <2>2, ZenonT(60) DEF Carries, Shows
<1>4. ASSUME pending' = pending, AllOrNone(q.batch) PROVE AllOrNone(q.batch)'
  BY <1>1, <1>4, Zenon DEF AllOrNone, W!Unchanged
<1> QED
  BY <1>3, <1>4

LEMMA WindowsOfBuild ==
  ASSUME WindowsInv, NEW r \in Client, NEW b \in W!Batch, W!Build(r, b)
  PROVE  WindowsInv'
<1> DEFINE read == W!StoredAround(b)
           lines == W!Overlaid(read, b)
<1>a. PICK q : q = [at |-> "built", batch |-> b, texts |-> W!BatchTexts(lines, b),
                    neighbours |-> W!NeighbourUpdates(read, lines, b)]
  OBVIOUS
<1>1. /\ \A s \in Client : request[s] = W!Idle
      /\ request' = [request EXCEPT ![r] = q]
      /\ content' = content /\ vector' = vector /\ pending' = pending /\ deletes' = deletes
      /\ AllOrNone(b)
  BY <1>a DEF W!Build, W!MaySend, AllOrNone
<1>2. Carries(q)
  BY <1>a, BuildCarries DEF WindowsInv
<1>3. q.at = "built" /\ q.batch = b /\ DOMAIN q = {"at", "batch", "texts", "neighbours"}
  BY <1>a
<1>4. /\ request'[r] = q /\ \A s \in Client \ {r} : request'[s] = W!Idle
      /\ request' = [s \in Client |-> request'[s]]
  BY <1>1 DEF WindowsInv
<1>5. Carries(q)' /\ AllOrNone(q.batch)'
  BY <1>1, <1>2, <1>3, CarriesStays
<1>6. ClientFits(r)'
  BY <1>3, <1>4, <1>5 DEF ClientFits
<1>7. SessionFits' /\ W!WindowsComplete'
  BY <1>1, TablesStay DEF WindowsInv, SessionFits
<1> QED
  BY <1>4, <1>6, <1>7, OneClient

\* What lies over the lines and says the same, or nothing, changes nothing.
LEMMA OverlaidSame ==
  ASSUME NEW f \in W!Lines, NEW g \in W!Lines,
         \A t \in DOMAIN g : t \in DOMAIN f /\ f[t] = g[t]
  PROVE  /\ DOMAIN W!Overlaid(f, g) = DOMAIN f
         /\ \A t \in DOMAIN f : W!Overlaid(f, g)[t] = f[t]
BY DEF W!Overlaid

LEMMA WindowsOfFilter ==
  ASSUME WindowsInv, NEW r \in Client, W!Filter(r)
  PROVE  WindowsInv'
<1>1. PICK q : q = request[r]
  OBVIOUS
<1>2. /\ q.at = "built" /\ Carries(q) /\ AllOrNone(q.batch)
      /\ DOMAIN q = {"at", "batch", "texts", "neighbours"}
      /\ \A s \in Client \ {r} : request[s] = W!Idle
      /\ content' = content /\ vector' = vector /\ pending' = pending /\ deletes' = deletes
  BY <1>1 DEF W!Filter, WindowsInv, ClientFits, W!Idle
<1>3. PICK kept : kept = {t \in DOMAIN q.batch : ~W!Unchanged(t, q.batch[t])}
  OBVIOUS
<1>4. PICK p : p = [q EXCEPT !.at = "embedding", !.batch = [t \in kept |-> q.batch[t]],
                             !.texts = [t \in kept |-> q.texts[t]]]
  BY Zenon
<1>5. request' = [request EXCEPT ![r] = p]
  BY <1>1, <1>3, <1>4 DEF W!Filter
<1>6. /\ p.at = "embedding" /\ p.batch = [t \in kept |-> q.batch[t]]
      /\ p.texts = [t \in kept |-> q.texts[t]] /\ p.neighbours = q.neighbours
      /\ DOMAIN p = {"at", "batch", "texts", "neighbours"}
  BY <1>2, <1>4
<1>7. DOMAIN q.texts = DOMAIN q.batch /\ q.batch \in W!Lines /\ kept \subseteq DOMAIN q.batch
  BY <1>2, <1>3 DEF Carries
<1>8. Carries(p)
  <2>1. CASE kept = DOMAIN q.batch
    <3>1. p.batch = q.batch
      BY <1>6, <1>7, <2>1, LinesAre
    <3>2. DOMAIN p.texts = DOMAIN q.batch /\ \A t \in DOMAIN q.batch : p.texts[t] = q.texts[t]
      BY <1>6, <2>1
    <3> QED
      BY <1>2, <1>6, <1>7, <3>1, <3>2 DEF Carries
  <2>2. CASE kept = {}
    <3>a. [t \in kept |-> q.batch[t]] \in W!Lines
      BY <1>7, PartOfLines
    <3>1. p.batch \in W!Lines /\ DOMAIN p.batch = {} /\ DOMAIN p.texts = {}
      BY <1>6, <2>2, <3>a
    <3>2. \A t \in DOMAIN q.batch : t \in W!Stored /\ content[t] = q.batch[t]
      BY <1>3, <2>2 DEF W!Unchanged
    <3>3. /\ content \in W!Lines /\ W!Stored = DOMAIN content
      BY DEF WindowsInv, SessionFits, W!Stored
    <3>4. /\ DOMAIN W!Overlaid(content, q.batch) = W!Stored
          /\ \A t \in W!Stored : W!Overlaid(content, q.batch)[t] = content[t]
      BY <1>7, <3>2, <3>3, OverlaidSame DEF W!Stored
    <3>5. /\ DOMAIN W!Overlaid(content, p.batch) = W!Stored
          /\ \A t \in W!Stored : W!Overlaid(content, p.batch)[t] = content[t]
      BY <3>1, <3>3, OverlaidSame DEF W!Stored
    <3>6. ASSUME NEW t \in DOMAIN q.neighbours
          PROVE  q.neighbours[t] \in W!Lines /\ Shows(q.neighbours[t], t, W!Overlaid(content, p.batch))
      BY <1>2, <3>4, <3>5 DEF Carries, Shows
    <3> QED
      BY <1>6, <3>1, <3>6 DEF Carries
  <2> QED
    BY <1>2, <1>3, <2>1, <2>2 DEF AllOrNone
<1>9. /\ request'[r] = p /\ \A s \in Client \ {r} : request'[s] = W!Idle
      /\ request' = [s \in Client |-> request'[s]]
  BY <1>2, <1>5 DEF WindowsInv
<1>10. ClientFits(r)'
  BY <1>2, <1>6, <1>8, <1>9, CarriesStays DEF ClientFits
<1>11. SessionFits' /\ W!WindowsComplete'
  BY <1>2, TablesStay DEF WindowsInv, SessionFits
<1> QED
  BY <1>9, <1>10, <1>11, OneClient

LEMMA WindowsOfCommit ==
  ASSUME WindowsInv, NEW r \in Client, W!Commit(r)
  PROVE  WindowsInv'
<1>1. PICK q : q = request[r]
  OBVIOUS
<1>2. PICK updated : updated = DOMAIN q.neighbours \cap W!Stored
  OBVIOUS
<1>3. /\ q.at = "embedding" /\ Carries(q) /\ q.batch \in W!Lines
      /\ \A s \in Client \ {r} : request[s] = W!Idle
      /\ content' = W!Overlaid(content, q.batch)
      /\ vector' = W!Overlaid(W!Overlaid(vector, q.texts), [t \in updated |-> q.neighbours[t]])
      /\ pending' = pending \cup DOMAIN q.batch \cup updated
      /\ request' = [request EXCEPT ![r] = [at |-> "indexing", turns |-> DOMAIN q.batch \cup updated]]
      /\ deletes' = deletes
  BY <1>1, <1>2 DEF W!Commit, WindowsInv, ClientFits, W!Idle, Carries
<1>4. content \in W!Lines /\ W!Stored = DOMAIN content /\ DOMAIN vector = W!Stored
  BY DEF WindowsInv, SessionFits, W!Stored
<1>5. /\ content' \in W!Lines /\ W!Stored' = W!Stored \cup DOMAIN q.batch
      /\ \A t \in DOMAIN q.batch : content'[t] = q.batch[t]
      /\ \A t \in W!Stored \ DOMAIN q.batch : content'[t] = content[t]
  BY <1>3, <1>4, OverlaidLines, ZenonT(60) DEF W!Stored
<1>6. DOMAIN q.texts = DOMAIN q.batch /\ updated \cap DOMAIN q.batch = {} /\ updated \subseteq W!Stored
  BY <1>2, <1>3 DEF Carries
<1>7. /\ DOMAIN vector' = W!Stored'
      /\ \A t \in updated : vector'[t] = q.neighbours[t]
      /\ \A t \in DOMAIN q.batch : vector'[t] = q.texts[t]
      /\ \A t \in W!Stored \ (updated \cup DOMAIN q.batch) : vector'[t] = vector[t]
  BY <1>3, <1>4, <1>5, <1>6 DEF W!Overlaid
<1>8. \A t \in updated : vector'[t] \in W!Lines /\ Shows(vector'[t], t, content')
  BY <1>2, <1>3, <1>7 DEF Carries
<1>9. \A t \in DOMAIN q.batch : vector'[t] \in W!Lines /\ Shows(vector'[t], t, content')
  BY <1>3, <1>6, <1>7 DEF Carries
<1>10. ASSUME NEW t \in W!Stored \ (updated \cup DOMAIN q.batch)
       PROVE  vector'[t] \in W!Lines /\ Shows(vector'[t], t, content')
  <2>1. vector[t] \in W!Lines /\ vector'[t] = vector[t]
    BY <1>7 DEF WindowsInv, SessionFits
  <2>2. ASSUME NEW n \in DOMAIN content', W!Within(t, n, Window)
        PROVE  n \in DOMAIN vector[t] /\ vector[t][n] = content'[n]
    <3>1. n \notin DOMAIN q.batch
      BY <1>2, <1>3, <2>2 DEF Carries
    <3>2. n \in W!Stored /\ content'[n] = content[n]
      BY <1>5, <2>2, <3>1 DEF W!Stored
    <3> QED
      BY <2>2, <3>2 DEF WindowsInv, W!WindowsComplete
  <2> QED
    BY <2>1, <2>2 DEF Shows
<1>11. \A t \in W!Stored' : vector'[t] \in W!Lines /\ Shows(vector'[t], t, content')
  BY <1>5, <1>8, <1>9, <1>10
<1>12. W!WindowsComplete'
  BY <1>11 DEF W!WindowsComplete, Shows, W!Stored
<1>13. SessionFits'
  BY <1>3, <1>5, <1>6, <1>7, <1>11 DEF WindowsInv, SessionFits
<1>14. /\ request'[r].at = "indexing" /\ \A s \in Client \ {r} : request'[s] = W!Idle
       /\ request' = [s \in Client |-> request'[s]]
  BY <1>3 DEF WindowsInv
<1> QED
  BY <1>12, <1>13, <1>14, OneClient DEF ClientFits

\* The steps that end a request.
LEMMA WindowsOfEnd ==
  ASSUME WindowsInv, NEW r \in Client, W!Fail(r) \/ W!Indexed(r) \/ W!IndexFails(r)
  PROVE  WindowsInv'
<1>1. /\ request[r].at # "idle" /\ request' = [request EXCEPT ![r] = W!Idle]
      /\ content' = content /\ vector' = vector /\ deletes' = deletes
      /\ pending' \subseteq pending
  BY DEF W!Fail, W!Indexed, W!IndexFails
<1>2. /\ request'[r] = W!Idle /\ \A s \in Client \ {r} : request'[s] = W!Idle
      /\ request' = [s \in Client |-> request'[s]]
  BY <1>1 DEF WindowsInv, W!Idle
<1>3. SessionFits' /\ W!WindowsComplete'
  BY <1>1, TablesStay DEF WindowsInv, SessionFits
<1> QED
  BY <1>2, <1>3, OneClient DEF ClientFits

LEMMA WindowsOfDelete ==
  ASSUME WindowsInv, NEW t \in Turn, W!Delete(t)
  PROVE  WindowsInv'
<1>1. /\ \A r \in Client : request[r] = W!Idle
      /\ request' = request /\ deletes < MaxDelete /\ deletes' = deletes + 1
      /\ content' = [s \in W!Stored \ {t} |-> content[s]]
      /\ vector' = [s \in W!Stored \ {t} |-> vector[s]]
      /\ pending' = pending \ {t}
  BY DEF W!Delete
<1>2. content' \in W!Lines
  BY <1>1, PartOfLines DEF WindowsInv, SessionFits, W!Stored
<1>3. /\ W!Stored' = W!Stored \ {t} /\ DOMAIN vector' = W!Stored \ {t}
      /\ \A s \in W!Stored \ {t} : content'[s] = content[s] /\ vector'[s] = vector[s]
  BY <1>1 DEF W!Stored
<1>4. deletes' \in 0 .. MaxDelete
  BY <1>1, TurnsAssumption DEF WindowsInv, SessionFits
<1>5. SessionFits'
  BY <1>1, <1>2, <1>3, <1>4 DEF WindowsInv, SessionFits
<1>6. W!WindowsComplete'
  BY <1>3 DEF WindowsInv, W!WindowsComplete
<1> QED
  BY <1>1, <1>5, <1>6 DEF WindowsInv, ClientFits

LEMMA WindowsStep == ASSUME WindowsInv, W!Next \/ UNCHANGED W!vars PROVE WindowsInv'
<1>1. ASSUME NEW r \in Client, \E b \in W!Batch : W!Build(r, b) PROVE WindowsInv'
  BY <1>1, WindowsOfBuild
<1>2. ASSUME NEW r \in Client, W!Filter(r) \/ W!Commit(r) \/ W!Fail(r) \/ W!Indexed(r) \/ W!IndexFails(r)
      PROVE  WindowsInv'
  BY <1>2, WindowsOfFilter, WindowsOfCommit, WindowsOfEnd
<1>3. CASE W!Reindex \/ UNCHANGED W!vars
  <2>1. /\ content' = content /\ vector' = vector /\ deletes' = deletes /\ request' = request
        /\ pending' = pending \/ (pending' = {} /\ \A r \in Client : request[r] = W!Idle)
    BY <1>3 DEF W!Reindex, W!vars
  <2>2. SessionFits' /\ W!WindowsComplete'
    BY <2>1, TablesStay DEF WindowsInv, SessionFits
  <2>3. ASSUME NEW r \in Client PROVE ClientFits(r)'
    <3>1. PICK q : q = request[r]
      OBVIOUS
    <3>2. CASE q = W!Idle \/ q.at = "indexing"
      BY <2>1, <3>1, <3>2 DEF ClientFits
    <3>3. CASE ~(q = W!Idle \/ q.at = "indexing")
      BY <2>1, <3>1, <3>3, CarriesStays DEF WindowsInv, ClientFits
    <3> QED
      BY <3>2, <3>3
  <2> QED
    BY <2>1, <2>2, <2>3 DEF WindowsInv
<1>4. CASE \E t \in Turn : W!Delete(t)
  BY <1>4, WindowsOfDelete
<1> QED
  BY <1>1, <1>2, <1>3, <1>4 DEF W!Next

LEMMA WindowsStart == ASSUME W!Init PROVE WindowsInv
<1>1. /\ DOMAIN content = {} /\ DOMAIN vector = {} /\ pending = {} /\ W!Stored = {} /\ deletes = 0
      /\ request = [r \in Client |-> W!Idle] /\ content = [t \in DOMAIN content |-> content[t]]
  BY DEF W!Init, W!Stored
<1>2. content \in W!Lines
  BY <1>1, LinesAre
<1> QED
  BY <1>1, <1>2, TurnsAssumption DEF WindowsInv, SessionFits, ClientFits, W!WindowsComplete

LEMMA WindowsShow == ASSUME WindowsInv PROVE W!TypeOK /\ W!WindowsComplete
BY DEF WindowsInv, SessionFits, ClientFits, W!TypeOK, W!Idle

-----------------------------------------------------------------------------
(* The groups of predicates.                                               *)

GroupsInv ==
  /\ canon \in [P!Predicate -> P!Predicate \cup {None}]
  /\ P!OneChainPerPredicate
  /\ \A f \in facts : f.raw \in P!Predicate /\ canon[f.raw] # None
  /\ model \in Model
  /\ \A r \in Filer : batch[r] = P!Idle \/ (batch[r].raw \subseteq P!Predicate /\ batch[r].model \in Model)
  /\ batch = [r \in Filer |-> batch[r]]

LEMMA PredicateIs ==
  /\ P!Predicate = {Predicates[i] : i \in DOMAIN Predicates}
  /\ None \notin P!Predicate /\ None \notin Model
BY PredicatesAssumption DEF P!Predicate, P!ToSet

LEMMA GroupsStart == ASSUME P!Init PROVE GroupsInv
BY PredicateIs DEF P!Init, GroupsInv, P!OneChainPerPredicate

\* The table that a transaction leaves: what was known stays, and what is new
\* founds a group or joins one that was founded before.
LEMMA TableAfter ==
  ASSUME GroupsInv, NEW raw, NEW m \in Model,
         NEW t \in P!Canonicalized([canon |-> canon, dimension |-> dimension], raw, m)
  PROVE  /\ t.canon \in [P!Predicate -> P!Predicate \cup {None}]
         /\ \A p \in P!Predicate : canon[p] # None => t.canon[p] = canon[p]
         /\ \A p \in P!Predicate \cap raw : t.canon[p] # None
         /\ \A p \in P!Predicate : t.canon[p] # None =>
              /\ t.canon[t.canon[p]] = t.canon[p]
              /\ t.canon[p] # p => Similarity[p][t.canon[p]] >= Tau
              /\ t.dimension[p] # None <=> t.canon[p] = p
<1>1. PICK old : old = [canon |-> canon, dimension |-> dimension]
  OBVIOUS
<1>2. old.canon = canon /\ old.dimension = dimension
  BY <1>1
<1>3. PICK c \in [P!Predicate -> P!Predicate \cup {None}] :
        /\ t = [canon |-> c, dimension |-> [p \in P!Predicate |-> P!Founded(old, c, p, m)]]
        /\ \A i \in DOMAIN Predicates :
             LET p == Predicates[i]
             IN  IF p \notin raw \/ old.canon[p] # None THEN c[p] = old.canon[p]
                 ELSE c[p] \in P!Nearest(P!Before(old, c, i, m), p, m)
  BY <1>1 DEF P!Canonicalized
<1>4. t.canon = c /\ \A p \in P!Predicate : t.dimension[p] = P!Founded(old, c, p, m)
  BY <1>3
<1>5. ASSUME NEW p \in P!Predicate, p \notin raw \/ canon[p] # None PROVE c[p] = canon[p]
  <2>1. PICK i \in DOMAIN Predicates : p = Predicates[i]
    BY PredicateIs
  <2> QED
    BY <1>2, <1>3, <1>5, <2>1
<1>6. ASSUME NEW p \in P!Predicate, p \in raw, canon[p] = None
      PROVE  c[p] = p \/ (c[p] \in P!Predicate /\ Similarity[p][c[p]] >= Tau /\ c[c[p]] = c[p])
  <2>1. PICK i \in DOMAIN Predicates : p = Predicates[i]
    BY PredicateIs
  <2>2. PICK before : before = P!Before(old, c, i, m)
    OBVIOUS
  <2>3. c[p] \in P!Nearest(before, p, m)
    BY <1>2, <1>3, <1>6, <2>1, <2>2
  <2>4. c[p] = p \/ (c[p] \in P!Predicate /\ before.canon[c[p]] = c[p] /\ Similarity[p][c[p]] >= Tau)
    BY <2>3 DEF P!Nearest
  <2>5. ASSUME NEW d \in P!Predicate, before.canon[d] = d PROVE c[d] = d
    <3>1. before.canon[d] = c[d] \/ before.canon[d] = canon[d]
      BY <1>2, <2>2 DEF P!Before
    <3>2. canon[d] = d => c[d] = canon[d]
      BY <1>5, PredicateIs
    <3> QED
      BY <2>5, <3>1, <3>2
  <2> QED
    BY <2>4, <2>5
<1>7. ASSUME NEW p \in P!Predicate, c[p] # None
      PROVE  /\ c[c[p]] = c[p]
             /\ c[p] # p => Similarity[p][c[p]] >= Tau
             /\ P!Founded(old, c, p, m) # None <=> c[p] = p
  <2>1. CASE canon[p] # None
    <3>1. c[p] = canon[p] /\ canon[p] \in P!Predicate
      BY <1>5, <2>1 DEF GroupsInv
    <3>2. canon[canon[p]] = canon[p] /\ (canon[p] # p => Similarity[p][canon[p]] >= Tau)
          /\ (dimension[p] # None <=> canon[p] = p)
      BY <2>1 DEF GroupsInv, P!OneChainPerPredicate
    <3>3. c[canon[p]] = canon[canon[p]]
      BY <1>5, <2>1, <3>1, <3>2
    <3> QED
      BY <1>2, <3>1, <3>2, <3>3 DEF P!Founded
  <2>2. CASE canon[p] = None
    <3>1. p \in raw
      BY <1>5, <1>7, <2>2
    <3>2. c[p] = p \/ (Similarity[p][c[p]] >= Tau /\ c[c[p]] = c[p])
      BY <1>6, <2>2, <3>1
    <3>3. P!Founded(old, c, p, m) = IF c[p] = p THEN m ELSE None
      BY <1>2, <1>7, <2>2 DEF P!Founded
    <3> QED
      BY <3>2, <3>3, PredicateIs
  <2> QED
    BY <2>1, <2>2
<1>8. \A p \in P!Predicate \cap raw : c[p] # None
  BY <1>5, <1>6, PredicateIs
<1> QED
  BY <1>4, <1>5, <1>7, <1>8

LEMMA GroupsOfCommit == ASSUME GroupsInv, NEW r \in Filer, P!Commit(r) PROVE GroupsInv'
<1>1. PICK b : b = batch[r]
  OBVIOUS
<1>2. b # P!Idle /\ b.raw \subseteq P!Predicate /\ b.model \in Model
  BY <1>1 DEF GroupsInv, P!Commit
<1>3. PICK t \in P!Canonicalized([canon |-> canon, dimension |-> dimension], b.raw, b.model) :
        /\ canon' = t.canon /\ dimension' = t.dimension
        /\ facts' = facts \cup {[raw |-> p, key |-> t.canon[p]] : p \in b.raw}
  BY <1>1 DEF P!Commit
<1>4. /\ batch' = [batch EXCEPT ![r] = P!Idle] /\ model' = model
  BY DEF P!Commit
<1>5. /\ canon' \in [P!Predicate -> P!Predicate \cup {None}]
      /\ \A p \in P!Predicate : canon[p] # None => canon'[p] = canon[p]
      /\ \A p \in b.raw : canon'[p] # None
      /\ \A p \in P!Predicate : canon'[p] # None =>
           /\ canon'[canon'[p]] = canon'[p]
           /\ canon'[p] # p => Similarity[p][canon'[p]] >= Tau
           /\ dimension'[p] # None <=> canon'[p] = p
  BY <1>2, <1>3, TableAfter
<1>6. ASSUME NEW f \in facts' PROVE f.raw \in P!Predicate /\ canon'[f.raw] # None /\ f.key = canon'[f.raw]
  <2>1. CASE f \in facts
    BY <1>5, <2>1 DEF GroupsInv, P!OneChainPerPredicate
  <2>2. CASE f \notin facts
    <3>1. PICK p \in b.raw : f = [raw |-> p, key |-> t.canon[p]]
      BY <1>3, <1>6, <2>2
    <3>2. f.raw = p /\ f.key = canon'[p]
      BY <1>3, <3>1
    <3> QED
      BY <1>2, <1>5, <3>2
  <2> QED
    BY <2>1, <2>2
<1>7. P!OneChainPerPredicate'
  BY <1>5, <1>6 DEF P!OneChainPerPredicate
<1>8. \A q \in Filer : batch'[q] = P!Idle \/ batch'[q] = batch[q]
  BY <1>4 DEF GroupsInv
<1>9. batch' = [q \in Filer |-> batch'[q]]
  BY <1>4 DEF GroupsInv
<1> QED
  BY <1>4, <1>5, <1>6, <1>7, <1>8, <1>9 DEF GroupsInv

LEMMA GroupsStep == ASSUME GroupsInv, P!Next \/ UNCHANGED P!cvars PROVE GroupsInv'
<1>1. ASSUME NEW r \in Filer, P!Commit(r) PROVE GroupsInv'
  BY <1>1, GroupsOfCommit
<1>2. ASSUME UNCHANGED <<canon, dimension, facts>>, model' \in Model, batch' = [q \in Filer |-> batch'[q]],
             \A r \in Filer : \/ batch'[r] \in {P!Idle, batch[r]}
                              \/ batch'[r].raw \subseteq P!Predicate /\ batch'[r].model \in Model
      PROVE  GroupsInv'
  BY <1>2 DEF GroupsInv, P!OneChainPerPredicate
<1>3. ASSUME NEW r \in Filer, P!Embed(r) PROVE GroupsInv'
  <2>1. PICK raw \in (SUBSET P!Predicate) \ {{}} : batch' = [batch EXCEPT ![r] = [raw |-> raw, model |-> model]]
    BY <1>3 DEF P!Embed
  <2>2. UNCHANGED <<canon, dimension, facts, model>> /\ model \in Model
    BY <1>3 DEF P!Embed, GroupsInv
  <2>3. batch' = [q \in Filer |-> batch'[q]] /\ \A q \in Filer \ {r} : batch'[q] = batch[q]
    BY <2>1 DEF GroupsInv
  <2>4. batch'[r].raw \subseteq P!Predicate /\ batch'[r].model \in Model
    BY <2>1, <2>2 DEF GroupsInv
  <2> QED
    BY <1>2, <2>2, <2>3, <2>4
<1>4. ASSUME NEW r \in Filer, P!Fail(r) PROVE GroupsInv'
  BY <1>2, <1>4 DEF P!Fail, GroupsInv
<1>5. CASE P!SwitchModel
  BY <1>2, <1>5 DEF P!SwitchModel
<1>6. CASE UNCHANGED P!cvars
  BY <1>2, <1>6 DEF P!cvars, GroupsInv
<1> QED
  BY <1>1, <1>3, <1>4, <1>5, <1>6 DEF P!Next
-----------------------------------------------------------------------------
(* All the parts.  Each keeps an invariant of its own, proved where the part *)
(* is or above; a step moves one of them and leaves the others as they are.  *)

LifeInv == L!IndexInv /\ L!WorkInv /\ L!SegmentFits

CacheHolds == C!CacheInv /\ C!FlatIsBounded

PartsInv ==
  /\ Inv /\ LifeInv /\ CacheHolds
  /\ MigrationInv /\ WindowsInv /\ GroupsInv /\ K!LinksInv

\* The requests of this life follow each other, and every text has its vector.
LEMMA Following == L!Sequential
BY DEF L!Sequential

LEMMA LifeStart == ASSUME L!Init PROVE LifeInv
BY LifeAssumption, L!InitInv, L!WorkStart, L!SegmentStart DEF LifeInv

LEMMA LifeStep == ASSUME LifeInv, L!Next \/ UNCHANGED L!vars PROVE LifeInv'
<1>1. L!IndexInv'
  BY LifeAssumption, L!NextInv DEF LifeInv
<1>2. L!WorkInv'
  BY LifeAssumption, Following, L!WorkStep DEF LifeInv, L!IndexInv
<1>3. L!SegmentFits'
  BY LifeAssumption, L!SegmentStep DEF LifeInv, L!IndexInv
<1> QED
  BY <1>1, <1>2, <1>3 DEF LifeInv

LEMMA LifeShows ==
  ASSUME LifeInv
  PROVE  L!TypeOK /\ L!IndexedIsSearchable /\ L!NoOrphanText /\ L!SegmentMirrorsLookup
BY LifeAssumption, L!WorkShows, L!SegmentShows DEF LifeInv, L!IndexInv

LEMMA CacheStart == ASSUME C!Init PROVE CacheHolds
<1>1. C!CacheInv
  BY SizesAssumption, C!CacheInit
<1>2. C!FlatIsBounded
  BY DEF C!Init, C!FlatIsBounded, C!NotLoaded
<1> QED
  BY <1>1, <1>2 DEF CacheHolds

LEMMA CacheStays == ASSUME CacheHolds, C!Next \/ UNCHANGED C!vars PROVE CacheHolds'
<1>1. C!CacheInv'
  BY SizesAssumption, C!CacheStep DEF CacheHolds
<1>2. C!FlatIsBounded'
  BY SizesAssumption, C!FlatStep DEF CacheHolds, C!CacheInv
<1> QED
  BY <1>1, <1>2 DEF CacheHolds

LEMMA CacheShows ==
  ASSUME CacheHolds PROVE C!TypeOK /\ C!SegmentCoherent /\ C!FlatIsBounded
BY DEF CacheHolds, C!CacheInv, C!Types

\* One part moves.
LEMMA OneMoves ==
  ASSUME [MCNext]_allvars
  PROVE  /\ [Next]_vars
         /\ L!Next \/ UNCHANGED L!vars
         /\ C!Next \/ UNCHANGED C!vars
         /\ S!Next \/ UNCHANGED S!mvars
         /\ W!Next \/ UNCHANGED W!vars
         /\ P!Next \/ UNCHANGED P!cvars
         /\ K!Next \/ UNCHANGED K!lvars
<1>1. CASE UNCHANGED allvars
  BY <1>1 DEF allvars, life, cache, windows, file, predicates, linked,
              L!vars, C!vars, S!mvars, W!vars, P!cvars, K!lvars
<1>2. CASE MCNext
  <2>1. [Next]_vars /\ (L!Next \/ UNCHANGED L!vars) /\ (C!Next \/ UNCHANGED C!vars)
    BY <1>2 DEF MCNext, life, cache, L!vars, C!vars
  <2>2. (S!Next \/ UNCHANGED S!mvars) /\ (W!Next \/ UNCHANGED W!vars)
    BY <1>2 DEF MCNext, file, windows, S!mvars, W!vars
  <2>3. (P!Next \/ UNCHANGED P!cvars) /\ (K!Next \/ UNCHANGED K!lvars)
    BY <1>2 DEF MCNext, predicates, linked, P!cvars, K!lvars
  <2> QED
    BY <2>1, <2>2, <2>3
<1> QED
  BY <1>1, <1>2

LEMMA PartsStart == ASSUME MCInit PROVE PartsInv
BY Initial, LifeStart, CacheStart, MigrationStart, WindowsStart, GroupsStart,
   FamiliesAssumption, K!LinksInit
DEF MCInit, PartsInv

LEMMA PartsStep == ASSUME PartsInv, [MCNext]_allvars PROVE PartsInv'
<1>1. Inv'
  BY OneMoves, Steps DEF PartsInv
<1>2. LifeInv' /\ CacheHolds'
  BY OneMoves, LifeStep, CacheStays DEF PartsInv
<1>3. MigrationInv' /\ WindowsInv' /\ GroupsInv'
  BY OneMoves, MigrationStep, WindowsStep, GroupsStep DEF PartsInv
<1>4. K!LinksInv'
  BY OneMoves, FamiliesAssumption, K!LinksStep DEF PartsInv
<1> QED
  BY <1>1, <1>2, <1>3, <1>4 DEF PartsInv

LEMMA PartsAlways == MCSpec => []PartsInv
<1>1. MCInit => PartsInv
  BY PartsStart
<1>2. PartsInv /\ [MCNext]_allvars => PartsInv'
  BY PartsStep
<1> QED
  BY <1>1, <1>2, PTL DEF MCSpec

\* The variables of a tenant's index and of a batch have their types, whatever
\* the handlers, ticks, failures and crashes do.
THEOREM TypesAlways == MCSpec => []Types
<1>1. PartsInv => Types
  BY LifeShows, CacheShows, WindowsShow DEF PartsInv, Inv, Types
<1> QED
  BY <1>1, PartsAlways, PTL

\* Whatever failed, was repaired, deleted or lost in a crash, the indexes of
\* requests that follow each other hold what the tables hold once
\* mark_indexed or reindex_unindexed is through, and run_migrations leaves an
\* older file in that state, wherever it was cut off before.
THEOREM MirrorsAlways == MCSpec => []IndexesMirrorTables
<1>1. PartsInv => IndexesMirrorTables
  BY LifeShows, MigrationShows DEF PartsInv, IndexesMirrorTables
<1> QED
  BY <1>1, PartsAlways, PTL

\* A segment that searches use differs from vector_lookup only where
\* insert_batch or remove_batch is on its way, and a flat one has at most
\* flat_threshold rows.
THEOREM CacheAlways == MCSpec => []CacheCoherent
<1>1. PartsInv => CacheCoherent
  BY CacheShows DEF PartsInv, CacheCoherent
<1> QED
  BY <1>1, PartsAlways, PTL

\* What a batch works out before its commit fits what is stored after it: the
\* windows that fetch_context_map and the overlay build, the links that
\* link_memories adds, the groups of canonicalize_predicates_tx.
THEOREM PreparedAlways == MCSpec => []PreparedFitsStored
<1>1. GroupsInv => P!OneChainPerPredicate
  BY DEF GroupsInv
<1>2. K!LinksInv => K!LinksHold
  BY FamiliesAssumption, K!LinksShow
<1>3. PartsInv => PreparedFitsStored
  BY <1>1, <1>2, WindowsShow DEF PartsInv, PreparedFitsStored
<1> QED
  BY <1>3, PartsAlways, PTL

=============================================================================
