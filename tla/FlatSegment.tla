---------------------------- MODULE FlatSegment ----------------------------
(***************************************************************************)
(* A flat segment of the vector index: rows of codes laid out one after    *)
(* the other, the id of each row, and a map from ids to rows.  An upsert   *)
(* overwrites the id's row or appends one; a removal moves the last row    *)
(* into the hole, so that three structures have to change in step.         *)
(***************************************************************************)
EXTENDS Integers, Sequences

CONSTANTS
  Id, Code,
  Zero,   \* what a row holds between its appending and its first write
  NoCode

ASSUME FlatSegmentAssumption == Zero \in Code /\ NoCode \notin Code

VARIABLES
  ids,        \* the id of each row
  positions,  \* the row of each id: a function on the ids in the segment
  codes       \* the vector in each row

vars == <<ids, positions, codes>>

Init ==
  /\ ids = <<>>
  /\ positions = [i \in {} |-> 0]
  /\ codes = <<>>

Member == DOMAIN positions

\* positions.insert(i, r), positions.remove(i)
WithPosition(pos, i, r) ==
  [j \in DOMAIN pos \cup {i} |-> IF j = i THEN r ELSE pos[j]]
WithoutPosition(pos, i) == [j \in DOMAIN pos \ {i} |-> pos[j]]

\* Slips: the row that moved is not looked up again; the rows close up, so that
\* all of them move.
MovedNot(pos, i) == WithoutPosition(pos, i)
SwapRemovedShift(s, r) == SubSeq(s, 1, r - 1) \o SubSeq(s, r + 1, Len(s))

\* swap_row and Vec::swap_remove: the last row takes the place of row r.
SwapRemoved(s, r) == SubSeq([s EXCEPT ![r] = s[Len(s)]], 1, Len(s) - 1)

\* The row that moved, if any did, gets its new position.
Moved(pos, i) ==
  LET r == pos[i]
      without == WithoutPosition(pos, i)
  IN  IF r = Len(ids) THEN without
      ELSE WithPosition(without, ids[Len(ids)], r)

\* upsert of an id that has a row.
Overwrite(i, c) ==
  /\ i \in Member
  /\ codes' = [codes EXCEPT ![positions[i]] = c]
  /\ UNCHANGED <<ids, positions>>

\* upsert of a new id: a zero row is appended, then written.
Append1(i, c) ==
  LET row == Len(ids) + 1
  IN  /\ i \notin Member
      /\ ids' = Append(ids, i)
      /\ positions' = WithPosition(positions, i, row)
      /\ codes' = [Append(codes, Zero) EXCEPT ![row] = c]

Upsert(i, c) == Overwrite(i, c) \/ Append1(i, c)

\* remove of an id that has a row; any other leaves the segment as it is.
Remove(i) ==
  /\ i \in Member
  /\ codes' = SwapRemoved(codes, positions[i])
  /\ ids' = SwapRemoved(ids, positions[i])
  /\ positions' = Moved(positions, i)

Next == \E i \in Id : Remove(i) \/ \E c \in Code : Upsert(i, c)

Spec == Init /\ [][Next]_vars

-----------------------------------------------------------------------------
(* Properties.                                                             *)

TypeOK ==
  /\ ids \in Seq(Id)
  /\ codes \in Seq(Code)
  /\ Member \subseteq Id
  /\ \A i \in Member : positions[i] \in 1..Len(ids)

\* scan reads rows and answers with the row's id, upsert and remove go from an
\* id to its row: the two directions are each other's inverse, and every row
\* has a vector.
RowsAligned ==
  /\ Len(codes) = Len(ids)
  /\ \A r \in 1..Len(ids) : ids[r] \in Member /\ positions[ids[r]] = r
  /\ \A i \in Member : ids[positions[i]] = i

\* flat_segment_remove_keeps_rows_aligned, for any sequence of upserts and
\* removals: the segment is a map from ids to vectors.
Held == [i \in Id |-> IF i \in Member THEN codes[positions[i]] ELSE NoCode]

Map == INSTANCE VectorMap WITH held <- Held
ImplementsMap == Map!Spec

=============================================================================
