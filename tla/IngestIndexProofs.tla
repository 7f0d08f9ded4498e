--------------------------- MODULE IngestIndexProofs ---------------------------
(***************************************************************************)
(* A memory that clients only ever send with one content is found by it    *)
(* once it is marked indexed, and once its ingest is acknowledged: for any *)
(* number of requests that overlap each other and the tick, failures,      *)
(* crashes, clients that hang up, and whatever is sent for other memories. *)
(***************************************************************************)
EXTENDS IngestIndex, TLAPS

\* What the assumption says of the constants.
LEMMA Constants ==
  /\ None \notin Text \cup Memory
  /\ Unembedded \subseteq Text
  /\ Tick \notin Request
  /\ MaxVid \in Nat /\ MaxFail \in Nat /\ MaxCrash \in Nat
  /\ {MayUpdate, MayDelete, MayHangUp, RequestsOverlap, TickOverlaps} \subseteq BOOLEAN
BY IngestIndexAssumption DEF Parameters

\* The full-text row of m says c; so does its vector, if it needs one here.
FtsIn(m, c) == fts[m] = c
VecIn(m, c) ==
  /\ rows[m] # NoRow
  /\ Embedded(c) /\ loaded => segment[rows[m].vid] = c

\* What the stage of a request says of the rest of it.
StageFits(r) ==
  /\ req[r].stage = "idle" => req[r] = NewReq
  /\ req[r].stage \in {"lookup", "erase", "forget"} => req[r].mem \in Memory /\ req[r].text = None
  /\ req[r].stage \in {"check", "commit", "index", "repair", "repaired"} =>
       req[r].mem \in Memory /\ req[r].text \in Text
  /\ TaskRunning(r) => req[r].stage = "index"
  /\ repair[r].stage # "idle" => req[r].stage = "repair"
  /\ repair[r].stage \in {"fts", "vec", "finish"} => repair[r].saw[req[r].mem].text # None

StagesFit == \A r \in Request : StageFits(r)

\* A vector id in use belongs to one memory: no row, request or repair knows
\* it of another one.  It is older than those still to be handed out.
VidsFit ==
  /\ \A m \in Memory : rows[m].vid < nextVid
  /\ \A r \in Request : req[r].vid < nextVid
  /\ \A p \in Repairer, n \in Memory : repair[p].saw[n].vid < nextVid
  /\ \A m \in Memory : rows[m] # NoRow =>
       /\ \A n \in Memory : rows[n].vid = rows[m].vid => n = m
       /\ \A r \in Request : req[r].vid = rows[m].vid => req[r].mem = m
       /\ \A p \in Repairer, n \in Memory : repair[p].saw[n].vid = rows[m].vid => n = m

\* What a request has done for memory m, with content c.
RequestFits(r, m, c) ==
  /\ req[r].fts = "ok" => FtsIn(m, c)
  /\ req[r].vec = "ok" => VecIn(m, c)
  /\ req[r].stage = "index" => rows[m] # NoRow /\ req[r].vid = rows[m].vid
  /\ req[r].stage = "repair" => rows[m] # NoRow
  /\ req[r].stage = "repaired" => FtsIn(m, c) /\ VecIn(m, c)

\* What a repair has seen of memory m, and done for it.
RepairFits(p, m, c) ==
  repair[p].saw[m].text # None =>
    /\ rows[m] # NoRow
    /\ repair[p].saw[m] = [text |-> c, vid |-> rows[m].vid]
    /\ repair[p].stage \in {"vec", "finish"} => FtsIn(m, c)
    /\ repair[p].stage = "finish" => VecIn(m, c)

MemoryFits(m, c) ==
  /\ rows[m] # NoRow => rows[m].text = c
  /\ rows[m].indexed => FtsIn(m, c) /\ VecIn(m, c)
  /\ \A r \in Request : req[r].mem = m => RequestFits(r, m, c)
  /\ \A p \in Repairer : RepairFits(p, m, c)

OnlySentFits == \A m \in Memory, c \in Text : OnlySent(m, c) => MemoryFits(m, c)

IndexInv == TypeOK /\ StagesFit /\ VidsFit /\ OnlySentFits

-----------------------------------------------------------------------------
(* Types.                                                                  *)

LEMMA Bounds == MaxVid \in Nat /\ MaxFail \in Nat /\ MaxCrash \in Nat
BY Constants

LEMMA TypeInit == ASSUME Init PROVE TypeOK
<1>1. NewReq \in Req /\ IdleRepair \in Repair
  BY DEF NewReq, Req, Stage, OrNone, NoVid, IdleRepair, Repair, Seen, NothingSeen
<1>2. 1 \in 1..MaxVid + 1 /\ 0 \in 0..MaxFail /\ 0 \in 0..MaxCrash
  BY Bounds
<1> QED
  BY <1>1, <1>2 DEF Init, TypeOK, OrNone

\* What the steps of a request make of its record.
LEMMA ReqTypes ==
  ASSUME NEW q \in Req, NEW stage \in Stage, NEW live \in BOOLEAN
  PROVE  /\ [q EXCEPT !.stage = stage] \in Req
         /\ [q EXCEPT !.live = live] \in Req
         /\ [q EXCEPT !.stage = stage, !.live = live, !.fts = "none", !.vec = "none"] \in Req
         /\ \A x \in {"none", "running", "ok", "failed"} :
              [q EXCEPT !.fts = x] \in Req /\ [q EXCEPT !.vec = x] \in Req
         /\ \A v \in Vid \cup {NoVid} : [q EXCEPT !.stage = stage, !.vid = v] \in Req
BY ZenonT(60) DEF Req

LEMMA SendTypes ==
  ASSUME NEW m \in Memory
  PROVE  /\ \A c \in Text : [NewReq EXCEPT !.stage = "check", !.mem = m, !.text = c] \in Req
         /\ [NewReq EXCEPT !.stage = "lookup", !.mem = m] \in Req
BY DEF NewReq, Req, Stage, OrNone, NoVid

LEMMA RepairTypes ==
  /\ IdleRepair \in Repair /\ NothingSeen \in Seen
  /\ \A p \in Repair : [p EXCEPT !.stage = "read"] \in Repair
                       /\ [p EXCEPT !.stage = "vec"] \in Repair
                       /\ [p EXCEPT !.stage = "finish"] \in Repair
BY DEF IdleRepair, NothingSeen, Repair, Seen, OrNone, NoVid

\* A new record at one place, the rest as it was.
LEMMA OnePlace ==
  ASSUME NEW S, NEW T, NEW f \in [S -> T], NEW x, NEW t \in T
  PROVE  [f EXCEPT ![x] = t] \in [S -> T]
OBVIOUS

\* A step that leaves the tables and the segment alone and keeps the other
\* variables typed.
LEMMA OtherTypes ==
  ASSUME TypeOK, IndexUnchanged, req' \in [Request -> Req], repair' \in [Repairer -> Repair],
         fails' \in 0..MaxFail, crashes' \in 0..MaxCrash
  PROVE  TypeOK'
BY DEF TypeOK, IndexUnchanged

LEMMA OneMore == ASSUME TypeOK, fails < MaxFail PROVE fails + 1 \in 0..MaxFail
BY Bounds DEF TypeOK

LEMMA CrashTypes == ASSUME TypeOK, Crash PROVE TypeOK'
<1>1. crashes' \in 0..MaxCrash
  <2>1. crashes \in 0..MaxCrash /\ crashes < MaxCrash /\ crashes' = crashes + 1
    BY DEF TypeOK, Crash
  <2> QED
    BY <2>1, Bounds
<1>2. \A r \in Request :
        [req[r] EXCEPT !.stage = "failed", !.live = FALSE, !.fts = "none", !.vec = "none"] \in Req
  BY ReqTypes, Zenon DEF TypeOK, Stage
<1>3. req' \in [Request -> Req] /\ repair' \in [Repairer -> Repair]
  BY <1>2, RepairTypes DEF TypeOK, Crash
<1>4. segment' \in [Vid -> OrNone(Text)] /\ loaded' = FALSE /\ \A v \in Vid : segment'[v] = None
  BY DEF Crash, OrNone
<1> QED
  BY <1>1, <1>3, <1>4 DEF TypeOK, Crash

LEMMA RepairStepTypes ==
  ASSUME TypeOK, NEW p \in Repairer, RepairStep(p) PROVE TypeOK'
<1>1. Stage = {"idle", "check", "commit", "index", "repair", "repaired", "lookup", "erase", "forget", "done", "failed"}
  BY DEF Stage
<1>2. p \in Request => [req[p] EXCEPT !.stage = "repaired"] \in Req
  BY <1>1, ReqTypes, Zenon DEF TypeOK
<1>3. CASE RepairRead(p)
  <2>1. [stage |-> "fts",
         saw |-> [m \in Memory |->
               IF m \in Wanted(p) THEN [text |-> rows[m].text, vid |-> rows[m].vid]
               ELSE NothingSeen]] \in Repair
    <3>1. \A m \in Memory : [text |-> rows[m].text, vid |-> rows[m].vid] \in Seen
      BY DEF TypeOK, Seen, Row, NoRow, OrNone
    <3> QED
      BY <3>1, RepairTypes DEF Repair
  <2>2. repair' \in [Repairer -> Repair] /\ req' \in [Request -> Req]
    BY <1>2, <1>3, <2>1, OnePlace, RepairTypes DEF RepairRead, TypeOK
  <2> QED
    BY <1>3, <2>2, OtherTypes DEF RepairRead, TypeOK
<1>4. CASE RepairFts(p)
  <2>1. fts' \in [Memory -> OrNone(Text)]
    BY <1>4 DEF RepairFts, TypeOK, Repair, Seen
  <2>2. repair' \in [Repairer -> Repair]
    BY <1>4, RepairTypes DEF RepairFts, TypeOK
  <2> QED
    BY <1>4, <2>1, <2>2 DEF RepairFts, TypeOK
<1>5. CASE RepairVector(p)
  <2> DEFINE at(v) == {repair[p].saw[m].text : m \in {n \in Memory : repair[p].saw[n].vid = v}} \ Unembedded
             new == [v \in Vid |-> IF at(v) = {} THEN None ELSE CHOOSE c \in at(v) : TRUE]
  <2>1. \A v \in Vid : at(v) \subseteq OrNone(Text)
    BY DEF TypeOK, Repair, Seen
  <2>2. \A v \in Vid : at(v) # {} => (CHOOSE c \in at(v) : TRUE) \in at(v)
    OBVIOUS
  <2>3. \A v \in Vid : new[v] \in OrNone(Text)
    BY <2>1, <2>2 DEF OrNone
  <2>4. segment' = Upserted(new)
    BY <1>5 DEF RepairVector
  <2> HIDE DEF new
  <2>5. segment' \in [Vid -> OrNone(Text)] /\ (~loaded => segment' = segment)
    BY <2>3, <2>4 DEF Upserted, TypeOK
  <2>6. repair' \in [Repairer -> Repair]
    BY <1>5, RepairTypes DEF RepairVector, TypeOK
  <2> QED
    BY <1>5, <2>5, <2>6 DEF RepairVector, TypeOK
<1>6. CASE RepairFinish(p)
  <2>1. \A m \in Memory : Finished(rows[m], repair[p].saw[m]) \in Row \cup {NoRow}
    BY ZenonT(60) DEF Finished, TypeOK, Row
  <2>2. rows' \in [Memory -> Row \cup {NoRow}]
    BY <1>6, <2>1 DEF RepairFinish
  <2>3. repair' \in [Repairer -> Repair] /\ req' \in [Request -> Req]
    BY <1>2, <1>6, RepairTypes DEF RepairFinish, TypeOK
  <2> QED
    BY <1>6, <2>2, <2>3 DEF RepairFinish, TypeOK
<1> QED
  BY <1>3, <1>4, <1>5, <1>6 DEF RepairStep

LEMMA CommitTypes ==
  ASSUME TypeOK, StagesFit, NEW r \in Request, Commit(r) PROVE TypeOK'
<1> DEFINE m == req[r].mem
           c == req[r].text
           row == CommittedRow(m, c)
<1>1. m \in Memory /\ c \in Text
  BY DEF Commit, StagesFit, StageFits
<1>2. row \in Row /\ rows' = [rows EXCEPT ![m] = row]
  <2>1. rows[m] = NoRow => nextVid \in Vid
    <3>1. nextVid \in 1..MaxVid + 1 /\ (rows[m] = NoRow => nextVid <= MaxVid)
      BY DEF Commit, TypeOK
    <3> QED
      BY <3>1, Bounds DEF Vid
  <2>2. rows[m] # NoRow => rows[m].vid \in Vid
    BY <1>1 DEF TypeOK, Row
  <2> QED
    BY <1>1, <2>1, <2>2 DEF Commit, CommittedRow, Row
<1> HIDE DEF row
<1>3. rows' \in [Memory -> Row \cup {NoRow}] /\ rows'[m] \in Row
  BY <1>1, <1>2 DEF TypeOK
<1>4. nextVid' \in 1..MaxVid + 1
  BY Bounds DEF Commit, TypeOK
<1>5. req' \in [Request -> Req]
  <2> DEFINE live == [req[r] EXCEPT !.stage = "index", !.vid = rows'[m].vid, !.fts = "running",
                        !.vec = IF Embedded(c) THEN "running" ELSE "ok"]
             dead == [req[r] EXCEPT !.stage = "failed"]
  <2>1. req' = [req EXCEPT ![r] = IF req[r].live THEN live ELSE dead]
    BY DEF Commit, TypeOK
  <2>2. rows'[m].vid \in Vid
    BY <1>3 DEF Row
  <2>3. live \in Req /\ dead \in Req
    BY <2>2, ZenonT(60) DEF TypeOK, Req, Stage
  <2> HIDE DEF live, dead
  <2> QED
    BY <2>1, <2>3 DEF TypeOK
<1> QED
  BY <1>3, <1>4, <1>5 DEF Commit, TypeOK

LEMMA RowChangeTypes ==
  ASSUME TypeOK, NEW r \in Request, MarkIndexed(r) \/ (StagesFit /\ Erase(r)) PROVE TypeOK'
<1>1. Stage = {"idle", "check", "commit", "index", "repair", "repaired", "lookup", "erase", "forget", "done", "failed"}
  BY DEF Stage
<1>2. CASE MarkIndexed(r)
  <2>1. rows' \in [Memory -> Row \cup {NoRow}]
    <3>1. CASE rows[req[r].mem] = NoRow
      BY <1>2, <3>1 DEF MarkIndexed, TypeOK
    <3>2. CASE rows[req[r].mem] # NoRow
      <4>1. rows' = [rows EXCEPT ![req[r].mem].indexed = TRUE]
        BY <1>2, <3>2 DEF MarkIndexed
      <4>2. req[r].mem \in Memory => [rows[req[r].mem] EXCEPT !.indexed = TRUE] \in Row
        BY <3>2 DEF TypeOK, Row
      <4> QED
        BY <4>1, <4>2 DEF TypeOK
    <3> QED
      BY <3>1, <3>2
  <2>2. req' \in [Request -> Req]
    BY <1>1, <1>2, ReqTypes, Zenon DEF MarkIndexed, TypeOK
  <2> QED
    BY <1>2, <2>1, <2>2 DEF MarkIndexed, TypeOK
<1>3. CASE StagesFit /\ Erase(r)
  <2>1. rows' \in [Memory -> Row \cup {NoRow}] /\ fts' \in [Memory -> OrNone(Text)]
    BY <1>3 DEF Erase, ErasedFts, TypeOK, OrNone
  <2> DEFINE vid == IF rows[req[r].mem] # NoRow /\ Embedded(rows[req[r].mem].text)
                    THEN rows[req[r].mem].vid ELSE NoVid
  <2>2. vid \in Vid \cup {NoVid}
    BY <1>3 DEF Erase, StagesFit, StageFits, TypeOK, Row
  <2>3. req' = [req EXCEPT ![r] = [req[r] EXCEPT !.stage = "forget", !.vid = vid]]
    BY <1>3 DEF Erase, TypeOK
  <2> HIDE DEF vid
  <2>4. req' \in [Request -> Req]
    BY <1>1, <2>2, <2>3, ReqTypes, OnePlace, ZenonT(60) DEF TypeOK
  <2> QED
    BY <1>3, <2>1, <2>4 DEF Erase, TypeOK
<1> QED
  BY <1>2, <1>3

LEMMA LoadTypes == ASSUME TypeOK, Load PROVE TypeOK'
<1>1. \A m \in Memory : rows[m].text \in OrNone(Text)
  BY DEF TypeOK, Row, NoRow, OrNone
<1>2. ASSUME NEW v \in Vid PROVE segment'[v] \in OrNone(Text)
  <2>1. CASE \E m \in Memory : rows[m].vid = v /\ Embedded(rows[m].text)
    <3>1. (CHOOSE m \in Memory : rows[m].vid = v) \in Memory
      BY <2>1
    <3>2. segment'[v] = rows[CHOOSE m \in Memory : rows[m].vid = v].text
      BY <2>1 DEF Load
    <3> QED
      BY <1>1, <3>1, <3>2
  <2>2. CASE ~\E m \in Memory : rows[m].vid = v /\ Embedded(rows[m].text)
    BY <2>2 DEF Load, OrNone
  <2> QED
    BY <2>1, <2>2
<1> QED
  BY <1>2 DEF Load, TypeOK

LEMMA TypeStep ==
  ASSUME TypeOK, StagesFit, [Next]_vars PROVE TypeOK'
<1> USE DEF TypeOK
<1>a. Request \subseteq Repairer /\ Tick \in Repairer
  BY DEF Repairer
<1>b. Stage = {"idle", "check", "commit", "index", "repair", "repaired", "lookup", "erase", "forget", "done", "failed"}
  BY DEF Stage
<1>1. ASSUME NEW r \in Request, NEW m \in Memory, SendDelete(r, m) PROVE TypeOK'
  BY <1>1, SendTypes DEF SendDelete, IndexUnchanged
<1>2. ASSUME NEW r \in Request, NEW m \in Memory, NEW c \in Text, SendIngest(r, m, c) PROVE TypeOK'
  BY <1>2, SendTypes DEF SendIngest, IndexUnchanged
<1>3. ASSUME NEW r \in Request, HangUp(r) PROVE TypeOK'
  <2>1. [req[r] EXCEPT !.stage = "failed", !.live = FALSE, !.fts = "none", !.vec = "none"] \in Req
        /\ [req[r] EXCEPT !.live = FALSE] \in Req
    BY <1>b, ReqTypes, Zenon
  <2>2. req' \in [Request -> Req]
    BY <1>3, <2>1 DEF HangUp, HangUpBefore, HangUpDuring
  <2>3. repair' \in [Repairer -> Repair]
    BY <1>3, <1>a, RepairTypes DEF HangUp, HangUpBefore, HangUpDuring
  <2> QED
    BY <1>3, <2>2, <2>3, OtherTypes DEF HangUp
<1>4. ASSUME NEW r \in Request, Check(r) PROVE TypeOK'
  BY <1>4, <1>b, ReqTypes, Zenon DEF Check, IndexUnchanged
<1>5. ASSUME NEW r \in Request, Commit(r) PROVE TypeOK'
  BY <1>5, CommitTypes
<1>6. ASSUME NEW r \in Request, TransactionFails(r) PROVE TypeOK'
  <2>1. req' \in [Request -> Req]
    BY <1>6, <1>b, ReqTypes, Zenon DEF TransactionFails
  <2>2. fails' \in 0..MaxFail
    BY <1>6, OneMore DEF TransactionFails
  <2> QED
    BY <1>6, <2>1, <2>2, OtherTypes DEF TransactionFails
<1>7. ASSUME NEW r \in Request, IndexFts(r) PROVE TypeOK'
  <2>1. [req[r] EXCEPT !.fts = "ok"] \in Req
    BY <1>b, ReqTypes, Zenon
  <2>2. req[r].text \in OrNone(Text)
    BY DEF Req
  <2> QED
    BY <1>7, <2>1, <2>2 DEF IndexFts
<1>8. ASSUME NEW r \in Request, IndexVector(r) PROVE TypeOK'
  <2>1. [req[r] EXCEPT !.vec = "ok"] \in Req
    BY <1>b, ReqTypes, Zenon
  <2>4. req[r].text \in OrNone(Text)
    BY DEF Req
  <2>2. req' \in [Request -> Req]
    BY <1>8, <2>1 DEF IndexVector
  <2>3. segment' \in [Vid -> OrNone(Text)] /\ (~loaded => segment' = segment)
    BY <1>8, <2>4 DEF IndexVector, Upserted
  <2> QED
    BY <1>8, <2>2, <2>3 DEF IndexVector
<1>9. ASSUME NEW r \in Request, IndexFails(r) PROVE TypeOK'
  <2>1. [req[r] EXCEPT !.fts = "failed"] \in Req /\ [req[r] EXCEPT !.vec = "failed"] \in Req
    BY <1>b, ReqTypes, Zenon
  <2>2. req' \in [Request -> Req]
    BY <1>9, <2>1 DEF IndexFails
  <2>3. fails' \in 0..MaxFail
    BY <1>9, OneMore DEF IndexFails
  <2> QED
    BY <1>9, <2>2, <2>3, OtherTypes DEF IndexFails
<1>10. ASSUME NEW r \in Request, StartRepair(r) PROVE TypeOK'
  BY <1>10, <1>a, <1>b, ReqTypes, RepairTypes, Zenon DEF StartRepair, IndexUnchanged
<1>11. ASSUME NEW r \in Request, MarkIndexed(r) PROVE TypeOK'
  BY <1>11, RowChangeTypes
<1>12. ASSUME NEW r \in Request, LookUp(r) PROVE TypeOK'
  BY <1>12, <1>b, ReqTypes, ZenonT(60) DEF LookUp, IndexUnchanged
<1>13. ASSUME NEW r \in Request, Erase(r) PROVE TypeOK'
  BY <1>13, RowChangeTypes
<1>14. ASSUME NEW r \in Request, Forget(r) PROVE TypeOK'
  <2>1. req' \in [Request -> Req]
    BY <1>14, <1>b, ReqTypes, Zenon DEF Forget
  <2>2. segment' \in [Vid -> OrNone(Text)] /\ (~loaded => \A v \in Vid : segment'[v] = None)
    BY <1>14 DEF Forget, Forgotten, OrNone
  <2> QED
    BY <1>14, <2>1, <2>2 DEF Forget
<1>15. CASE StartTick
  BY <1>15, <1>a, RepairTypes DEF StartTick, IndexUnchanged
<1>16. ASSUME NEW p \in Repairer, RepairStep(p) PROVE TypeOK'
  BY <1>16, RepairStepTypes
<1>17. ASSUME NEW p \in Repairer, RepairFails(p) PROVE TypeOK'
  <2>1. repair' \in [Repairer -> Repair] /\ fails' \in 0..MaxFail
    BY <1>17, RepairTypes, OneMore DEF RepairFails
  <2>2. p \in Request => [req[p] EXCEPT !.stage = "failed"] \in Req
    BY <1>b, ReqTypes, Zenon
  <2>3. req' \in [Request -> Req]
    BY <1>17, <2>2 DEF RepairFails
  <2> QED
    BY <1>17, <2>1, <2>3, OtherTypes DEF RepairFails
<1>18. CASE Load
  BY <1>18, LoadTypes
<1>19. CASE Crash
  BY <1>19, CrashTypes
<1>20. CASE UNCHANGED vars
  BY <1>20 DEF vars
<1> QED
  BY <1>1, <1>2, <1>3, <1>4, <1>5, <1>6, <1>7, <1>8, <1>9, <1>10, <1>11, <1>12, <1>13, <1>14,
     <1>15, <1>16, <1>17, <1>18, <1>19, <1>20 DEF Next, Send

-----------------------------------------------------------------------------
(* Stages.                                                                 *)

\* A step of another request, or of the tick.
LEMMA StageOfOther ==
  ASSUME NEW r, StageFits(r), req'[r] = req[r], repair'[r] = repair[r]
  PROVE  StageFits(r)'
BY DEF StageFits, TaskRunning

\* A step that takes the request from one stage to another.
LEMMA StageMoved ==
  ASSUME NEW r, StageFits(r), NEW stage \in Stage \ {"idle"},
         req'[r].stage = stage, req'[r].mem = req[r].mem, req'[r].text = req[r].text,
         stage \in {"lookup", "erase", "forget"} => req[r].stage \in {"lookup", "erase", "forget"},
         stage \in {"check", "commit", "index", "repair", "repaired"} =>
           req[r].stage \in {"check", "commit", "index", "repair", "repaired"},
         TaskRunning(r)' => stage = "index",
         repair'[r].stage \in {"idle", "read"}, repair'[r].stage = "read" => stage = "repair"
  PROVE  StageFits(r)'
BY DEF StageFits

LEMMA StageOfRepair ==
  ASSUME TypeOK, StagesFit, NEW r \in Request, RepairStep(r) \/ RepairFails(r)
  PROVE  StageFits(r)'
<1> USE DEF StagesFit, StageFits, TaskRunning
<1>a. r \in Repairer
  BY DEF Repairer
<1>1. CASE RepairRead(r)
  <2>1. CASE Wanted(r) = {}
    BY <1>1, <1>a, <2>1 DEF RepairRead, TypeOK, IdleRepair
  <2>2. CASE Wanted(r) # {}
    <3>1. req[r].mem \in Wanted(r) /\ req' = req
      BY <1>1, <2>2 DEF RepairRead, Wanted
    <3>2. rows[req[r].mem].text \in Text /\ None \notin Text
      BY <3>1, Constants DEF Wanted, TypeOK, Row
    <3>3. repair'[r].stage = "fts" /\ repair'[r].saw[req[r].mem].text = rows[req[r].mem].text
      BY <1>1, <1>a, <2>2, <3>1 DEF RepairRead, TypeOK, Wanted
    <3> QED
      BY <1>1, <3>1, <3>2, <3>3 DEF RepairRead
  <2> QED
    BY <2>1, <2>2
<1>2. CASE RepairFts(r) \/ RepairVector(r)
  BY <1>2, <1>a, SMTT(30) DEF RepairFts, RepairVector, TypeOK, Repair
<1>3. CASE RepairFinish(r) \/ RepairFails(r)
  <2>1. /\ repair[r].stage # "idle" /\ repair'[r].stage = "idle"
        /\ req'[r].mem = req[r].mem /\ req'[r].text = req[r].text
        /\ req'[r].fts = req[r].fts /\ req'[r].vec = req[r].vec
        /\ req'[r].stage \in {"repaired", "failed"}
    BY <1>3, <1>a DEF RepairFinish, RepairFails, TypeOK, IdleRepair, Req
  <2> QED
    BY <2>1, StageMoved DEF Stage
<1> QED
  BY <1>1, <1>2, <1>3 DEF RepairStep

LEMMA StagesStep ==
  ASSUME TypeOK, StagesFit, [Next]_vars PROVE StagesFit'
<1> SUFFICES ASSUME NEW r \in Request PROVE StageFits(r)'
  BY DEF StagesFit
<1>a. StageFits(r) /\ r # Tick /\ r \in Repairer /\ Tick \in Repairer
  BY Constants DEF StagesFit, Repairer
<1>b. None \notin Text /\ None \notin Memory
  BY Constants
<1> USE DEF TypeOK
<1>1. ASSUME NEW q \in Request, NEW m \in Memory, SendDelete(q, m) \/ \E c \in Text : SendIngest(q, m, c)
      PROVE  StageFits(r)'
  <2>1. CASE q = r
    <3>1. repair'[r].stage = "idle"
      BY <1>1, <1>a, <2>1 DEF SendDelete, SendIngest, MaySend, StageFits
    <3>2. req'[r].fts = "none" /\ req'[r].vec = "none" /\ req'[r].mem = m
      <4>1. CASE SendDelete(r, m)
        BY <4>1 DEF SendDelete, NewReq
      <4>2. CASE \E c \in Text : SendIngest(r, m, c)
        BY <4>2 DEF SendIngest, NewReq
      <4> QED
        BY <1>1, <2>1, <4>1, <4>2
    <3>3. \/ req'[r].stage = "lookup" /\ req'[r].text = None
          \/ req'[r].stage = "check" /\ req'[r].text \in Text
      <4>1. CASE SendDelete(r, m)
        BY <4>1 DEF SendDelete, NewReq
      <4>2. ASSUME NEW c \in Text, SendIngest(r, m, c) PROVE req'[r].stage = "check" /\ req'[r].text = c
        BY <4>2 DEF SendIngest, NewReq
      <4> QED
        BY <1>1, <2>1, <4>1, <4>2
    <3> QED
      BY <3>1, <3>2, <3>3 DEF StageFits, TaskRunning
  <2>2. CASE q # r
    BY <1>1, <1>a, <2>2, StageOfOther DEF SendDelete, SendIngest
  <2> QED
    BY <2>1, <2>2
<1>2. ASSUME NEW q \in Request, HangUp(q) PROVE StageFits(r)'
  <2>1. CASE q = r /\ HangUpBefore(r)
    <3>1. /\ req'[r].stage = "failed" /\ req'[r].fts = "none" /\ req'[r].vec = "none"
          /\ req'[r].mem = req[r].mem /\ req'[r].text = req[r].text
          /\ repair'[r].stage = "idle"
      BY <2>1, <1>a DEF HangUpBefore, IdleRepair, Req
    <3> QED
      BY <3>1, <1>a, StageMoved DEF TaskRunning, Stage
  <2>2. CASE q = r /\ HangUpDuring(r)
    <3>1. /\ req'[r].stage = req[r].stage /\ req'[r].fts = req[r].fts /\ req'[r].vec = req[r].vec
          /\ req'[r].mem = req[r].mem /\ req'[r].text = req[r].text /\ repair'[r] = repair[r]
          /\ req[r].stage # "idle"
      BY <2>2, <1>a DEF HangUpDuring, Req
    <3> QED
      BY <3>1, <1>a DEF StageFits, TaskRunning
  <2>3. CASE q # r
    BY <1>2, <1>a, <2>3, StageOfOther DEF HangUp, HangUpBefore, HangUpDuring
  <2> QED
    BY <1>2, <2>1, <2>2, <2>3 DEF HangUp
<1>3. ASSUME NEW q \in Request,
             Check(q) \/ TransactionFails(q) \/ LookUp(q) \/ Forget(q) \/ StartRepair(q) \/ MarkIndexed(q)
      PROVE  StageFits(r)'
  <2>1. CASE q = r
    <3>1. /\ req'[r].mem = req[r].mem /\ req'[r].text = req[r].text
          /\ req'[r].fts = req[r].fts /\ req'[r].vec = req[r].vec
      BY <1>3, <2>1 DEF Check, TransactionFails, LookUp, Forget, StartRepair, MarkIndexed, Req
    <3>2. ~TaskRunning(r)
      BY <1>3, <1>a, <2>1 DEF Check, TransactionFails, LookUp, Forget, StartRepair, MarkIndexed,
         IndexDone, StageFits, TaskRunning
    <3>3. repair[r].stage = "idle"
      BY <1>3, <1>a, <2>1 DEF Check, TransactionFails, LookUp, Forget, StartRepair, MarkIndexed,
         IndexDone, StageFits
    <3>4. CASE StartRepair(r)
      <4>1. req[r].stage = "index" /\ req'[r].stage = "repair" /\ repair'[r].stage = "read"
        BY <1>a, <3>4 DEF StartRepair, Repair, Req
      <4> QED
        BY <1>a, <3>1, <3>2, <4>1, StageMoved DEF TaskRunning, Stage
    <3>5. CASE Check(r)
      BY <1>a, <3>1, <3>2, <3>3, <3>5, StageMoved DEF Check, TaskRunning, Stage
    <3>6. CASE TransactionFails(r) \/ Forget(r) \/ MarkIndexed(r)
      <4>1. req'[r].stage \in {"done", "failed"} /\ repair' = repair
        <5>1. CASE TransactionFails(r)
          BY <5>1 DEF TransactionFails
        <5>2. CASE Forget(r)
          BY <5>2 DEF Forget
        <5>3. CASE MarkIndexed(r)
          BY <5>3 DEF MarkIndexed
        <5> QED
          BY <3>6, <5>1, <5>2, <5>3
      <4> QED
        BY <1>a, <3>1, <3>2, <3>3, <4>1, StageMoved DEF TaskRunning, Stage
    <3>7. CASE LookUp(r)
      <4>1. req[r].stage = "lookup" /\ req'[r].stage \in {"done", "erase"} /\ repair' = repair
        BY <3>7 DEF LookUp
      <4> QED
        BY <1>a, <3>1, <3>2, <3>3, <4>1, StageMoved DEF TaskRunning, Stage
    <3> QED
      BY <1>3, <2>1, <3>4, <3>5, <3>6, <3>7
  <2>2. CASE q # r
    BY <1>3, <1>a, <2>2, StageOfOther
       DEF Check, TransactionFails, LookUp, Forget, StartRepair, MarkIndexed
  <2> QED
    BY <2>1, <2>2
<1>4. ASSUME NEW q \in Request, Commit(q) \/ Erase(q) PROVE StageFits(r)'
  <2>1. CASE q = r
    <3>1. /\ req'[r].mem = req[r].mem /\ req'[r].text = req[r].text /\ repair'[r].stage = "idle"
          /\ ~TaskRunning(r)
      <4>1. repair' = repair /\ req[r].stage \in {"commit", "erase"}
        BY <1>4, <2>1 DEF Commit, Erase
      <4>2. req'[r].mem = req[r].mem /\ req'[r].text = req[r].text
        <5>1. CASE Commit(r)
          BY <5>1 DEF Commit, Req
        <5>2. CASE Erase(r)
          BY <5>2 DEF Erase, Req
        <5> QED
          BY <1>4, <2>1, <5>1, <5>2
      <4> QED
        BY <1>a, <4>1, <4>2 DEF StageFits
    <3>2. CASE Commit(r)
      <4>1. req[r].stage = "commit" /\ req'[r].stage \in {"index", "failed"}
        BY <3>2 DEF Commit
      <4>2. req'[r].stage = "failed" => req'[r].fts = req[r].fts /\ req'[r].vec = req[r].vec
        BY <3>2 DEF Commit, Req
      <4> QED
        BY <1>a, <3>1, <4>1, <4>2, StageMoved DEF TaskRunning, Stage
    <3>3. CASE Erase(r)
      <4>1. /\ req[r].stage = "erase" /\ req'[r].stage = "forget"
            /\ req'[r].fts = req[r].fts /\ req'[r].vec = req[r].vec
        BY <3>3 DEF Erase, Req
      <4> QED
        BY <1>a, <3>1, <4>1, StageMoved DEF TaskRunning, Stage
    <3> QED
      BY <1>4, <2>1, <3>2, <3>3
  <2>2. CASE q # r
    BY <1>4, <1>a, <2>2, StageOfOther DEF Commit, Erase
  <2> QED
    BY <2>1, <2>2
<1>5. ASSUME NEW q \in Request, IndexFts(q) \/ IndexVector(q) \/ IndexFails(q) PROVE StageFits(r)'
  <2>1. CASE q = r
    <3>1. TaskRunning(r) /\ repair' = repair
      BY <1>5, <2>1 DEF IndexFts, IndexVector, IndexFails, TaskRunning
    <3>2. /\ req'[r].stage = req[r].stage
          /\ req'[r].mem = req[r].mem /\ req'[r].text = req[r].text
      BY <1>5, <2>1 DEF IndexFts, IndexVector, IndexFails, Req
    <3> QED
      BY <1>a, <3>1, <3>2 DEF StageFits
  <2>2. CASE q # r
    BY <1>5, <1>a, <2>2, StageOfOther DEF IndexFts, IndexVector, IndexFails
  <2> QED
    BY <2>1, <2>2
<1>6. CASE StartTick
  BY <1>6, <1>a, StageOfOther DEF StartTick
<1>7. ASSUME NEW p \in Repairer, RepairStep(p) \/ RepairFails(p) PROVE StageFits(r)'
  <2>1. CASE p = r
    BY <1>7, <2>1, StageOfRepair
  <2>2. CASE p # r
    BY <1>7, <1>a, <2>2, StageOfOther
       DEF RepairStep, RepairRead, RepairFts, RepairVector, RepairFinish, RepairFails
  <2> QED
    BY <2>1, <2>2
<1>8. CASE Load \/ UNCHANGED vars
  BY <1>8, <1>a, StageOfOther DEF Load, vars
<1>9. CASE Crash
  <2>1. repair'[r].stage = "idle"
    BY <1>9, <1>a DEF Crash, IdleRepair
  <2>2. CASE req[r].stage \in {"idle", "done"}
    BY <1>9, <1>a, <2>1, <2>2 DEF Crash, StageFits, TaskRunning
  <2>3. CASE req[r].stage \notin {"idle", "done"}
    <3>1. /\ req'[r].stage = "failed" /\ req'[r].fts = "none" /\ req'[r].vec = "none"
          /\ req'[r].mem = req[r].mem /\ req'[r].text = req[r].text
      BY <1>9, <2>3, ZenonT(60) DEF Crash, Req
    <3> QED
      BY <1>a, <2>1, <3>1, StageMoved DEF TaskRunning, Stage
  <2> QED
    BY <2>2, <2>3
<1> QED
  BY <1>1, <1>2, <1>3, <1>4, <1>5, <1>6, <1>7, <1>8, <1>9 DEF Next, Send

-----------------------------------------------------------------------------
(* Vector ids.                                                             *)

\* Vector id v is none, or the one of memory m's row.
VidOf(v, m) == v = NoVid \/ (m \in Memory /\ rows[m] # NoRow /\ rows[m].vid = v)

\* A step hands out no vector id, and what it writes down are ids of rows.
RowVidsKept == \A m \in Memory : rows'[m] # NoRow => rows[m] # NoRow /\ rows'[m].vid = rows[m].vid
ReqVidKept(r) ==
  \/ req'[r].vid = req[r].vid /\ req'[r].mem = req[r].mem
  \/ VidOf(req'[r].vid, req'[r].mem)
SawVidsKept(p) ==
  \/ repair'[p].saw = repair[p].saw
  \/ \A n \in Memory : VidOf(repair'[p].saw[n].vid, n)

LEMMA VidsKept ==
  ASSUME TypeOK, TypeOK', VidsFit, nextVid' = nextVid, RowVidsKept,
         \A r \in Request : ReqVidKept(r), \A p \in Repairer : SawVidsKept(p)
  PROVE  VidsFit'
<1>1. nextVid \in Int /\ 0 < nextVid
  BY Bounds DEF TypeOK
<1>2. ASSUME NEW m \in Memory, rows'[m] # NoRow
      PROVE  /\ rows[m] # NoRow /\ rows'[m].vid = rows[m].vid
             /\ rows[m].vid \in Int /\ rows[m].vid > 0 /\ rows[m].vid < nextVid
  BY <1>2, Bounds DEF RowVidsKept, TypeOK, VidsFit, Row, Vid
<1>3. ASSUME NEW m \in Memory PROVE rows'[m].vid < nextVid'
  BY <1>1, <1>2 DEF NoRow, NoVid
<1>4. ASSUME NEW r \in Request PROVE req'[r].vid < nextVid'
  BY <1>1 DEF VidsFit, ReqVidKept, VidOf, NoVid
<1>5. ASSUME NEW p \in Repairer, NEW n \in Memory PROVE repair'[p].saw[n].vid < nextVid'
  BY <1>1 DEF VidsFit, SawVidsKept, VidOf, NoVid
<1>6. ASSUME NEW m \in Memory, rows'[m] # NoRow
      PROVE  /\ \A n \in Memory : rows'[n].vid = rows'[m].vid => n = m
             /\ \A r \in Request : req'[r].vid = rows'[m].vid => req'[r].mem = m
             /\ \A p \in Repairer, n \in Memory : repair'[p].saw[n].vid = rows'[m].vid => n = m
  <2>1. rows[m] # NoRow /\ rows'[m].vid = rows[m].vid /\ rows[m].vid # NoVid
    BY <1>2, <1>6 DEF NoVid
  <2>2. \A n \in Memory : rows'[n].vid = rows'[m].vid => n = m
    BY <2>1 DEF VidsFit, RowVidsKept, NoRow
  <2>3. \A r \in Request : req'[r].vid = rows'[m].vid => req'[r].mem = m
    BY <2>1 DEF VidsFit, ReqVidKept, VidOf
  <2>4. \A p \in Repairer, n \in Memory : repair'[p].saw[n].vid = rows'[m].vid => n = m
    BY <2>1 DEF VidsFit, SawVidsKept, VidOf
  <2> QED
    BY <2>2, <2>3, <2>4
<1> QED
  BY <1>3, <1>4, <1>5, <1>6 DEF VidsFit

\* Steps that write down no vector id.
LEMMA VidsSame ==
  ASSUME TypeOK, TypeOK', VidsFit, UNCHANGED <<rows, nextVid>>,
         \A r \in Request : req'[r].vid = req[r].vid /\ req'[r].mem = req[r].mem,
         \A p \in Repairer : repair'[p] = IdleRepair \/ repair'[p].saw = repair[p].saw
  PROVE  VidsFit'
<1>1. \A p \in Repairer : SawVidsKept(p)
  BY DEF SawVidsKept, IdleRepair, NothingSeen, VidOf
<1> QED
  BY <1>1, VidsKept DEF RowVidsKept, ReqVidKept

LEMMA VidsOfCommit ==
  ASSUME TypeOK, TypeOK', StagesFit, VidsFit, NEW r \in Request, Commit(r) PROVE VidsFit'
<1> DEFINE m == req[r].mem
<1>1. m \in Memory
  BY DEF Commit, StagesFit, StageFits
<1>2. /\ rows' = [rows EXCEPT ![m] = CommittedRow(m, req[r].text)] /\ repair' = repair
      /\ \A q \in Request : q # r => req'[q] = req[q]
  BY DEF Commit, TypeOK
<1>3. req'[r].mem = m /\ (req'[r].vid = req[r].vid \/ req'[r].vid = rows'[m].vid)
  <2>1. CASE req[r].live
    BY <2>1 DEF Commit, TypeOK, Req
  <2>2. CASE ~req[r].live
    BY <2>2 DEF Commit, TypeOK, Req
  <2> QED
    BY <2>1, <2>2
<1>4. CASE rows[m] # NoRow
  <2>1. RowVidsKept /\ nextVid' = nextVid /\ rows'[m].vid = rows[m].vid
    BY <1>1, <1>2, <1>4 DEF RowVidsKept, CommittedRow, Commit, TypeOK
  <2>2. \A q \in Request : ReqVidKept(q)
    BY <1>1, <1>2, <1>3, <1>4, <2>1 DEF ReqVidKept, VidOf
  <2> QED
    BY <1>2, <2>1, <2>2, VidsKept DEF SawVidsKept
<1>5. CASE rows[m] = NoRow
  <2>1. /\ nextVid \in Int /\ nextVid > 0 /\ nextVid' = nextVid + 1 /\ rows'[m].vid = nextVid
        /\ \A n \in Memory : n # m => rows'[n] = rows[n]
    BY <1>1, <1>2, <1>5, Bounds DEF Commit, CommittedRow, TypeOK
  <2>2. /\ \A n \in Memory : rows[n].vid \in Int /\ rows[n].vid < nextVid
        /\ \A q \in Request : req[q].vid \in Int /\ req[q].vid < nextVid
        /\ \A p \in Repairer, n \in Memory :
             repair[p].saw[n].vid \in Int /\ repair[p].saw[n].vid < nextVid
    BY Bounds DEF TypeOK, VidsFit, Row, NoRow, NoVid, Vid, Req, Repair, Seen
  <2>3. /\ \A n \in Memory : rows'[n].vid < nextVid'
        /\ \A q \in Request : req'[q].vid < nextVid'
        /\ \A p \in Repairer, n \in Memory : repair'[p].saw[n].vid < nextVid'
    BY <1>2, <1>3, <2>1, <2>2
  <2>4. ASSUME NEW k \in Memory, rows'[k] # NoRow
        PROVE  /\ \A n \in Memory : rows'[n].vid = rows'[k].vid => n = k
               /\ \A q \in Request : req'[q].vid = rows'[k].vid => req'[q].mem = k
               /\ \A p \in Repairer, n \in Memory : repair'[p].saw[n].vid = rows'[k].vid => n = k
    <3>1. CASE k = m
      BY <1>2, <1>3, <2>1, <2>2, <3>1
    <3>2. CASE k # m
      BY <1>2, <1>3, <2>1, <2>2, <2>4, <3>2 DEF VidsFit
    <3> QED
      BY <3>1, <3>2
  <2> QED
    BY <2>3, <2>4 DEF VidsFit
<1> QED
  BY <1>4, <1>5

LEMMA VidsStep ==
  ASSUME TypeOK, TypeOK', StagesFit, VidsFit, [Next]_vars PROVE VidsFit'
<1> USE DEF TypeOK
<1>1. ASSUME NEW r \in Request, NEW m \in Memory, SendDelete(r, m) \/ \E c \in Text : SendIngest(r, m, c)
      PROVE  VidsFit'
  <2>1. req'[r].vid = NoVid /\ \A q \in Request : q # r => req'[q] = req[q]
    <3>1. CASE SendDelete(r, m)
      BY <3>1 DEF SendDelete, NewReq
    <3>2. CASE \E c \in Text : SendIngest(r, m, c)
      BY <3>2 DEF SendIngest, NewReq
    <3> QED
      BY <1>1, <3>1, <3>2
  <2>2. \A q \in Request : ReqVidKept(q)
    BY <2>1 DEF ReqVidKept, VidOf
  <2>3. UNCHANGED <<rows, nextVid, repair>>
    BY <1>1 DEF SendDelete, SendIngest, IndexUnchanged
  <2> QED
    BY <2>2, <2>3, VidsKept DEF RowVidsKept, SawVidsKept
<1>2. ASSUME NEW r \in Request,
             \/ HangUp(r) \/ Check(r) \/ TransactionFails(r) \/ IndexFts(r) \/ IndexVector(r)
             \/ IndexFails(r) \/ StartRepair(r) \/ LookUp(r) \/ Forget(r)
      PROVE  VidsFit'
  <2>1. UNCHANGED <<rows, nextVid>>
    BY <1>2 DEF HangUp, Check, TransactionFails, IndexFts, IndexVector, IndexFails, StartRepair,
       LookUp, Forget, IndexUnchanged
  <2>2. \A q \in Request : req'[q].vid = req[q].vid /\ req'[q].mem = req[q].mem
    BY <1>2, SMTT(30) DEF HangUp, HangUpBefore, HangUpDuring, Check, TransactionFails, IndexFts, IndexVector,
       IndexFails, StartRepair, LookUp, Forget, Req
  <2>3. \A p \in Repairer : repair'[p] = IdleRepair \/ repair'[p].saw = repair[p].saw
    BY <1>2 DEF HangUp, HangUpBefore, HangUpDuring, Check, TransactionFails, IndexFts, IndexVector,
       IndexFails, StartRepair, LookUp, Forget, Repair
  <2> QED
    BY <2>1, <2>2, <2>3, VidsSame
<1>3. ASSUME NEW r \in Request, Commit(r) PROVE VidsFit'
  BY <1>3, VidsOfCommit
<1>4. ASSUME NEW r \in Request, MarkIndexed(r) PROVE VidsFit'
  <2>1. RowVidsKept /\ UNCHANGED <<nextVid, repair>>
    BY <1>4 DEF MarkIndexed, RowVidsKept, Row
  <2>2. \A q \in Request : ReqVidKept(q)
    BY <1>4 DEF MarkIndexed, ReqVidKept, Req
  <2> QED
    BY <2>1, <2>2, VidsKept DEF SawVidsKept
<1>5. ASSUME NEW r \in Request, Erase(r) PROVE VidsFit'
  <2>1. req[r].mem \in Memory
    BY <1>5 DEF Erase, StagesFit, StageFits
  <2>2. RowVidsKept /\ UNCHANGED <<nextVid, repair>>
    BY <1>5, <2>1 DEF Erase, RowVidsKept
  <2>3. req'[r].mem = req[r].mem /\ VidOf(req'[r].vid, req[r].mem)
    BY <1>5, <2>1 DEF Erase, VidOf, Req
  <2>4. \A q \in Request : q # r => req'[q] = req[q]
    BY <1>5 DEF Erase
  <2>5. \A q \in Request : ReqVidKept(q)
    BY <2>3, <2>4 DEF ReqVidKept
  <2> QED
    BY <2>2, <2>5, VidsKept DEF SawVidsKept
<1>6. CASE StartTick
  BY <1>6, VidsSame DEF StartTick, IndexUnchanged, Repair
<1>7. ASSUME NEW p \in Repairer, RepairRead(p) PROVE VidsFit'
  <2>1. \A n \in Memory : VidOf(repair'[p].saw[n].vid, n)
    BY <1>7 DEF RepairRead, Wanted, IdleRepair, NothingSeen, VidOf
  <2>2. \A q \in Repairer : SawVidsKept(q)
    BY <1>7, <2>1 DEF RepairRead, SawVidsKept
  <2>3. UNCHANGED <<rows, nextVid>> /\ \A r \in Request : ReqVidKept(r)
    BY <1>7 DEF RepairRead, IndexUnchanged, ReqVidKept, Req
  <2> QED
    BY <2>2, <2>3, VidsKept DEF RowVidsKept
<1>8. ASSUME NEW p \in Repairer, RepairFts(p) \/ RepairVector(p) \/ RepairFails(p) PROVE VidsFit'
  <2>1. \A r \in Request : req'[r].vid = req[r].vid /\ req'[r].mem = req[r].mem
    BY <1>8 DEF RepairFts, RepairVector, RepairFails, Req
  <2>2. \A q \in Repairer : repair'[q] = IdleRepair \/ repair'[q].saw = repair[q].saw
    BY <1>8, SMTT(30) DEF RepairFts, RepairVector, RepairFails, Repair
  <2> QED
    BY <1>8, <2>1, <2>2, VidsSame DEF RepairFts, RepairVector, RepairFails, IndexUnchanged
<1>9. ASSUME NEW p \in Repairer, RepairFinish(p) PROVE VidsFit'
  <2>1. RowVidsKept /\ nextVid' = nextVid
    BY <1>9 DEF RepairFinish, Finished, RowVidsKept, Row
  <2>2. \A r \in Request : ReqVidKept(r)
    BY <1>9 DEF RepairFinish, ReqVidKept, Req
  <2>3. \A q \in Repairer : SawVidsKept(q)
    BY <1>9 DEF RepairFinish, SawVidsKept, IdleRepair, NothingSeen, VidOf
  <2> QED
    BY <2>1, <2>2, <2>3, VidsKept
<1>10. CASE Load \/ UNCHANGED vars
  BY <1>10, VidsSame DEF Load, vars
<1>11. CASE Crash
  <2>1. \A r \in Request : req'[r].vid = req[r].vid /\ req'[r].mem = req[r].mem
    <3> SUFFICES ASSUME NEW r \in Request PROVE req'[r].vid = req[r].vid /\ req'[r].mem = req[r].mem
      OBVIOUS
    <3>1. CASE req[r].stage \in {"idle", "done"}
      BY <1>11, <3>1 DEF Crash
    <3>2. CASE req[r].stage \notin {"idle", "done"}
      <4>1. req'[r] = [req[r] EXCEPT !.stage = "failed", !.live = FALSE, !.fts = "none", !.vec = "none"]
        BY <1>11, <3>2 DEF Crash
      <4> QED
        BY <4>1 DEF Req
    <3> QED
      BY <3>1, <3>2
  <2> QED
    BY <1>11, <2>1, VidsSame DEF Crash
<1> QED
  BY <1>1, <1>2, <1>3, <1>4, <1>5, <1>6, <1>7, <1>8, <1>9, <1>10, <1>11 DEF Next, Send, RepairStep

-----------------------------------------------------------------------------
(* What a memory sent with one content only is known to have.              *)

LEMMA OnlySentBefore ==
  ASSUME TypeOK, StagesFit, [Next]_vars, NEW m \in Memory, NEW c \in Text, OnlySent(m, c)'
  PROVE  OnlySent(m, c)
<1> SUFFICES ASSUME NEW r \in Request, req[r].mem = m PROVE req[r].text = c
  BY DEF OnlySent
<1>1. req[r].stage # "idle"
  BY Constants DEF StagesFit, StageFits, NewReq
<1>2. req'[r].mem = req[r].mem /\ req'[r].text = req[r].text
  <2> USE DEF TypeOK
  <2>1. ASSUME NEW q \in Request, Send(q) PROVE req'[r] = req[r]
    BY <2>1, <1>1 DEF Send, SendDelete, SendIngest, MaySend
  <2>2. ASSUME NEW q \in Request,
               \/ HangUp(q) \/ Check(q) \/ TransactionFails(q) \/ IndexFts(q) \/ IndexVector(q)
               \/ IndexFails(q) \/ StartRepair(q) \/ LookUp(q) \/ Forget(q) \/ MarkIndexed(q)
        PROVE  req'[r].mem = req[r].mem /\ req'[r].text = req[r].text
    BY <2>2 DEF HangUp, HangUpBefore, HangUpDuring, Check, TransactionFails, IndexFts, IndexVector,
       IndexFails, StartRepair, LookUp, Forget, MarkIndexed, Req
  <2>3. ASSUME NEW q \in Request, Commit(q) PROVE req'[r].mem = req[r].mem /\ req'[r].text = req[r].text
    BY <2>3 DEF Commit, Req
  <2>4. ASSUME NEW q \in Request, Erase(q) PROVE req'[r].mem = req[r].mem /\ req'[r].text = req[r].text
    BY <2>4 DEF Erase, Req
  <2>5. ASSUME NEW p \in Repairer, RepairStep(p) \/ RepairFails(p)
        PROVE  req'[r].mem = req[r].mem /\ req'[r].text = req[r].text
    BY <2>5 DEF RepairStep, RepairRead, RepairFts, RepairVector, RepairFinish, RepairFails, Req
  <2>6. CASE StartTick \/ Load \/ UNCHANGED vars
    BY <2>6 DEF StartTick, Load, vars
  <2>7. CASE Crash
    <3>1. CASE req[r].stage \in {"idle", "done"}
      BY <2>7, <3>1 DEF Crash
    <3>2. CASE req[r].stage \notin {"idle", "done"}
      BY <2>7, <3>2, ZenonT(60) DEF Crash, Req
    <3> QED
      BY <3>1, <3>2
  <2> QED
    BY <2>1, <2>2, <2>3, <2>4, <2>5, <2>6, <2>7 DEF Next
<1> QED
  BY <1>2 DEF OnlySent

\* The row of m stays, with its vector id, and so does what is indexed of it.
Stays(m, c) ==
  /\ rows[m] # NoRow => rows'[m] # NoRow /\ rows'[m].vid = rows[m].vid /\ rows'[m].text = c
  /\ FtsIn(m, c) => FtsIn(m, c)'
  /\ VecIn(m, c) => VecIn(m, c)'

\* What each step uses of the invariant for one memory and its content.
Known(m, c) ==
  /\ TypeOK /\ StagesFit /\ VidsFit
  /\ m \in Memory /\ c \in Text /\ c # None
  /\ OnlySent(m, c) /\ MemoryFits(m, c)

\* Where no segment entry of the row changes, the vector stays in.
LEMMA VecStays ==
  ASSUME NEW m, NEW c,
         rows[m] # NoRow => rows'[m] # NoRow /\ rows'[m].vid = rows[m].vid,
         loaded' => loaded,
         loaded /\ rows[m] # NoRow /\ Embedded(c) /\ segment[rows[m].vid] = c => segment'[rows[m].vid] = c
  PROVE  VecIn(m, c) => VecIn(m, c)'
BY DEF VecIn

LEMMA StaysOfTables ==
  ASSUME NEW m, NEW c, Known(m, c), UNCHANGED <<rows, fts, segment>>, loaded' => loaded
  PROVE  Stays(m, c)
BY DEF Stays, Known, MemoryFits, FtsIn, VecIn

\* The content that is written for memory m is c.
LEMMA OwnText ==
  ASSUME NEW m, NEW c, Known(m, c)
  PROVE  /\ \A r \in Request : req[r].stage \in {"lookup", "erase", "forget"} => req[r].mem # m
         /\ \A r \in Request : req[r].vid = rows[m].vid /\ rows[m] # NoRow =>
              req[r].mem = m /\ req[r].text = c
         /\ \A p \in Repairer, n \in Memory :
              repair[p].saw[n].vid = rows[m].vid /\ rows[m] # NoRow =>
                n = m /\ repair[p].saw[n].text \in {c, None}
BY DEF Known, OnlySent, MemoryFits, RepairFits, StagesFit, StageFits, VidsFit

LEMMA StaysOfRequest ==
  ASSUME NEW m, NEW c, Known(m, c), NEW r \in Request,
         Commit(r) \/ IndexFts(r) \/ IndexVector(r) \/ MarkIndexed(r) \/ Erase(r) \/ Forget(r)
  PROVE  Stays(m, c)
<1> USE DEF Known, TypeOK
<1>1. CASE Commit(r)
  <2>1. rows' = [rows EXCEPT ![req[r].mem] = CommittedRow(req[r].mem, req[r].text)]
        /\ UNCHANGED <<fts, segment, loaded>> /\ req[r].mem \in Memory
    BY <1>1 DEF Commit, StagesFit, StageFits
  <2>2. rows[m] # NoRow => rows'[m] # NoRow /\ rows'[m].vid = rows[m].vid /\ rows'[m].text = c
    BY <2>1 DEF CommittedRow, OnlySent, MemoryFits, NoRow
  <2> QED
    BY <2>1, <2>2, VecStays DEF Stays, FtsIn
<1>2. CASE IndexFts(r)
  <2>1. FtsIn(m, c) => FtsIn(m, c)'
    BY <1>2 DEF IndexFts, FtsIn, OnlySent
  <2>2. UNCHANGED <<rows, segment, loaded>>
    BY <1>2 DEF IndexFts
  <2> QED
    BY <2>1, <2>2 DEF Stays, VecIn, MemoryFits
<1>3. CASE IndexVector(r)
  <2>1. UNCHANGED <<rows, fts, loaded>>
    BY <1>3 DEF IndexVector
  <2>2. rows[m] # NoRow => rows[m].vid \in Vid
    BY DEF Row
  <2>3. rows[m] # NoRow /\ segment[rows[m].vid] = c => segment'[rows[m].vid] = c
    BY <1>3, <2>2, OwnText DEF IndexVector, Upserted
  <2> QED
    BY <2>1, <2>3, VecStays DEF Stays, FtsIn, MemoryFits
<1>4. CASE MarkIndexed(r)
  <2>1. rows[m] # NoRow => rows'[m] # NoRow /\ rows'[m].vid = rows[m].vid /\ rows'[m].text = c
    BY <1>4 DEF MarkIndexed, MemoryFits, Row, NoRow
  <2>2. UNCHANGED <<fts, segment, loaded>>
    BY <1>4 DEF MarkIndexed
  <2> QED
    BY <2>1, <2>2, VecStays DEF Stays, FtsIn
<1>5. CASE Erase(r)
  <2>1. req[r].mem # m
    BY <1>5, OwnText DEF Erase
  <2>2. rows'[m] = rows[m] /\ fts'[m] = fts[m] /\ UNCHANGED <<segment, loaded>>
    BY <1>5, <2>1 DEF Erase, ErasedFts
  <2> QED
    BY <2>2 DEF Stays, FtsIn, VecIn, MemoryFits
<1>6. CASE Forget(r)
  <2>1. rows[m] # NoRow => req[r].vid # rows[m].vid
    BY <1>6, OwnText DEF Forget
  <2>2. rows[m] # NoRow => segment'[rows[m].vid] = segment[rows[m].vid]
    BY <1>6, <2>1 DEF Forget, Forgotten
  <2>3. UNCHANGED <<rows, fts, loaded>>
    BY <1>6 DEF Forget
  <2> QED
    BY <2>2, <2>3, VecStays DEF Stays, FtsIn, MemoryFits
<1> QED
  BY <1>1, <1>2, <1>3, <1>4, <1>5, <1>6

LEMMA StaysOfRepair ==
  ASSUME NEW m, NEW c, Known(m, c), NEW p \in Repairer,
         RepairFts(p) \/ RepairVector(p) \/ RepairFinish(p)
  PROVE  Stays(m, c)
<1> USE DEF Known, TypeOK
<1>1. CASE RepairFts(p)
  <2>1. FtsIn(m, c) => FtsIn(m, c)'
    BY <1>1 DEF RepairFts, FtsIn, MemoryFits, RepairFits
  <2>2. UNCHANGED <<rows, segment, loaded>>
    BY <1>1 DEF RepairFts
  <2> QED
    BY <2>1, <2>2 DEF Stays, VecIn, MemoryFits
<1>2. CASE RepairVector(p)
  <2> DEFINE saw == repair[p].saw
             at(v) == {saw[n].text : n \in {k \in Memory : saw[k].vid = v}} \ Unembedded
             new == [v \in Vid |-> IF at(v) = {} THEN None ELSE CHOOSE x \in at(v) : TRUE]
  <2>1. rows[m] # NoRow => at(rows[m].vid) \subseteq {c, None}
    BY OwnText
  <2>2. \A v \in Vid : at(v) # {} => (CHOOSE x \in at(v) : TRUE) \in at(v)
    OBVIOUS
  <2>3. rows[m] # NoRow => rows[m].vid \in Vid /\ new[rows[m].vid] \in {c, None}
    BY <2>1, <2>2 DEF Row
  <2>4. segment' = Upserted(new)
    BY <1>2 DEF RepairVector
  <2> HIDE DEF new
  <2>5. rows[m] # NoRow /\ segment[rows[m].vid] = c => segment'[rows[m].vid] = c
    BY <2>3, <2>4 DEF Upserted
  <2>6. UNCHANGED <<rows, fts, loaded>>
    BY <1>2 DEF RepairVector
  <2> QED
    BY <2>5, <2>6, VecStays DEF Stays, FtsIn, MemoryFits
<1>3. CASE RepairFinish(p)
  <2>1. rows[m] # NoRow => rows'[m] # NoRow /\ rows'[m].vid = rows[m].vid /\ rows'[m].text = c
    BY <1>3 DEF RepairFinish, Finished, MemoryFits, Row, NoRow
  <2>2. UNCHANGED <<fts, segment, loaded>>
    BY <1>3 DEF RepairFinish
  <2> QED
    BY <2>1, <2>2, VecStays DEF Stays, FtsIn
<1> QED
  BY <1>1, <1>2, <1>3

LEMMA StaysOfLoad ==
  ASSUME NEW m, NEW c, Known(m, c), Load PROVE Stays(m, c)
<1> USE DEF Known, TypeOK
<1>1. UNCHANGED <<rows, fts>>
  BY DEF Load
<1>2. ASSUME rows[m] # NoRow, Embedded(c) PROVE segment'[rows[m].vid] = c
  <2>1. rows[m].vid \in Vid /\ rows[m].text = c
    BY <1>2 DEF Row, MemoryFits
  <2>2. (CHOOSE n \in Memory : rows[n].vid = rows[m].vid) = m
    BY <1>2 DEF VidsFit
  <2> QED
    BY <1>2, <2>1, <2>2 DEF Load
<1> QED
  BY <1>1, <1>2 DEF Stays, FtsIn, VecIn, MemoryFits

\* What the stays of a memory leave to show of a step: what it makes newly true.
LEMMA FitsKept ==
  ASSUME NEW m, NEW c, Known(m, c), Stays(m, c),
         rows'[m] # NoRow => rows'[m].text = c,
         rows'[m].indexed => rows[m].indexed \/ (FtsIn(m, c) /\ VecIn(m, c)),
         \A r \in Request : req'[r].mem = m => RequestFits(r, m, c)',
         \A p \in Repairer : RepairFits(p, m, c)'
  PROVE  MemoryFits(m, c)'
BY DEF Known, MemoryFits, Stays

\* A request of m whose tasks and stage stay, and a repair that stays.
LEMMA RequestStays ==
  ASSUME NEW m, NEW c, Known(m, c), Stays(m, c), NEW r \in Request, req[r].mem = m,
         req'[r].fts = "ok" => req[r].fts = "ok",
         req'[r].vec = "ok" => req[r].vec = "ok",
         req'[r].stage = "index" => req[r].stage = "index" /\ req'[r].vid = req[r].vid,
         req'[r].stage = "repair" => req[r].stage \in {"index", "repair"},
         req'[r].stage = "repaired" => req[r].stage = "repaired" \/ (FtsIn(m, c) /\ VecIn(m, c))
  PROVE  RequestFits(r, m, c)'
BY DEF Known, MemoryFits, Stays, RequestFits

LEMMA RepairStays ==
  ASSUME NEW m, NEW c, Known(m, c), Stays(m, c), NEW p \in Repairer,
         repair'[p] = IdleRepair \/ repair'[p].saw = repair[p].saw,
         repair'[p].stage \in {"vec", "finish"} =>
           repair[p].stage \in {"vec", "finish"} \/ FtsIn(m, c)',
         repair'[p].stage = "finish" => repair[p].stage = "finish" \/ VecIn(m, c)'
  PROVE  RepairFits(p, m, c)'
BY DEF Known, MemoryFits, Stays, RepairFits, IdleRepair, NothingSeen

\* A step that leaves the tables and the segment alone and does not send.
LEMMA FitsOfOthers ==
  ASSUME NEW m, NEW c, Known(m, c), IndexUnchanged,
         \A r \in Request : req[r].mem = m => RequestFits(r, m, c)',
         \A r \in Request : req'[r].mem = req[r].mem,
         \A p \in Repairer : RepairFits(p, m, c)'
  PROVE  MemoryFits(m, c)'
<1>1. Stays(m, c)
  BY StaysOfTables DEF IndexUnchanged
<1> QED
  BY <1>1, FitsKept DEF IndexUnchanged, Known, MemoryFits

LEMMA FitsOfSend ==
  ASSUME NEW m, NEW c, Known(m, c), NEW r \in Request, Send(r)
  PROVE  MemoryFits(m, c)'
<1> USE DEF Known, TypeOK
<1>1. IndexUnchanged /\ repair' = repair /\ \A q \in Request : q # r => req'[q] = req[q]
  BY DEF Send, SendDelete, SendIngest
<1>2. /\ req'[r].fts = "none" /\ req'[r].vec = "none"
      /\ req'[r].stage \in {"check", "lookup"}
  <2>1. ASSUME NEW n \in Memory, SendDelete(r, n)
        PROVE  req'[r].fts = "none" /\ req'[r].vec = "none" /\ req'[r].stage = "lookup"
    BY <2>1 DEF SendDelete, NewReq
  <2>2. ASSUME NEW n \in Memory, NEW x \in Text, SendIngest(r, n, x)
        PROVE  req'[r].fts = "none" /\ req'[r].vec = "none" /\ req'[r].stage = "check"
    BY <2>2 DEF SendIngest, NewReq
  <2> QED
    BY <2>1, <2>2 DEF Send
<1>3. Stays(m, c)
  BY <1>1, StaysOfTables DEF IndexUnchanged
<1>4. \A q \in Request : req'[q].mem = m => RequestFits(q, m, c)'
  <2>1. RequestFits(r, m, c)'
    BY <1>2 DEF RequestFits
  <2>2. ASSUME NEW q \in Request, q # r, req'[q].mem = m PROVE RequestFits(q, m, c)'
    BY <1>1, <1>3, <2>2, RequestStays
  <2> QED
    BY <2>1, <2>2
<1>5. \A p \in Repairer : RepairFits(p, m, c)'
  BY <1>1, <1>3, RepairStays
<1> QED
  BY <1>1, <1>3, <1>4, <1>5, FitsKept DEF IndexUnchanged, MemoryFits

LEMMA FitsOfRequest ==
  ASSUME NEW m, NEW c, Known(m, c), NEW r \in Request,
         \/ HangUp(r) \/ Check(r) \/ TransactionFails(r) \/ IndexFails(r) \/ StartRepair(r) \/ LookUp(r)
  PROVE  MemoryFits(m, c)'
<1> USE DEF Known, TypeOK
<1>1. IndexUnchanged /\ \A q \in Request : q # r => req'[q] = req[q]
  BY DEF HangUp, HangUpBefore, HangUpDuring, Check, TransactionFails, IndexFails, StartRepair, LookUp
<1>2. Stays(m, c)
  BY <1>1, StaysOfTables DEF IndexUnchanged
<1>3. /\ req'[r].mem = req[r].mem /\ req'[r].vid = req[r].vid
      /\ req'[r].fts = "ok" => req[r].fts = "ok"
      /\ req'[r].vec = "ok" => req[r].vec = "ok"
      /\ req'[r].stage = "index" => req[r].stage = "index"
      /\ req'[r].stage = "repair" => req[r].stage \in {"index", "repair"}
      /\ req'[r].stage = "repaired" => req[r].stage = "repaired"
  <2>1. CASE HangUp(r)
    BY <2>1 DEF HangUp, HangUpBefore, HangUpDuring, Req
  <2>2. CASE Check(r) \/ TransactionFails(r) \/ LookUp(r)
    BY <2>2 DEF Check, TransactionFails, LookUp, Req
  <2>3. CASE IndexFails(r) \/ StartRepair(r)
    BY <2>3 DEF IndexFails, StartRepair, Req
  <2> QED
    BY <2>1, <2>2, <2>3
<1>4. ASSUME NEW q \in Request, req[q].mem = m PROVE RequestFits(q, m, c)'
  BY <1>1, <1>2, <1>3, <1>4, RequestStays
<1>5. ASSUME NEW p \in Repairer PROVE RepairFits(p, m, c)'
  <2>1. repair'[p] = IdleRepair \/ repair'[p] = [repair[p] EXCEPT !.stage = "read"] \/ repair'[p] = repair[p]
    BY DEF HangUp, HangUpBefore, HangUpDuring, Check, TransactionFails, IndexFails, StartRepair, LookUp
  <2> QED
    BY <1>2, <2>1, RepairStays, SMTT(60) DEF Repair, IdleRepair
<1>6. \A q \in Request : req'[q].mem = req[q].mem
  BY <1>1, <1>3
<1> QED
  BY <1>1, <1>4, <1>5, <1>6, FitsOfOthers

LEMMA FitsOfIndexing ==
  ASSUME NEW m, NEW c, Known(m, c), NEW r \in Request,
         \/ Commit(r) \/ IndexFts(r) \/ IndexVector(r) \/ MarkIndexed(r) \/ Erase(r) \/ Forget(r)
  PROVE  MemoryFits(m, c)'
<1> USE DEF Known, TypeOK
<1>1. Stays(m, c)
  BY StaysOfRequest
<1>2. /\ repair' = repair /\ \A q \in Request : q # r => req'[q] = req[q]
  BY DEF Commit, IndexFts, IndexVector, MarkIndexed, Erase, Forget
<1>3. \A p \in Repairer : RepairFits(p, m, c)'
  BY <1>1, <1>2, RepairStays
<1>4. ASSUME NEW q \in Request, q # r, req'[q].mem = m PROVE RequestFits(q, m, c)'
  BY <1>1, <1>2, <1>4, RequestStays
<1>5. req'[r].mem = req[r].mem
  <2>1. CASE Commit(r)
    BY <2>1 DEF Commit, Req
  <2>2. CASE Erase(r)
    BY <2>2 DEF Erase, Req
  <2>3. CASE IndexFts(r) \/ IndexVector(r) \/ MarkIndexed(r) \/ Forget(r)
    BY <2>3 DEF IndexFts, IndexVector, MarkIndexed, Forget, Req
  <2> QED
    BY <2>1, <2>2, <2>3
<1>6. CASE Commit(r)
  <2>1. /\ req[r].mem \in Memory
        /\ rows' = [rows EXCEPT ![req[r].mem] = CommittedRow(req[r].mem, req[r].text)]
    BY <1>6 DEF Commit, StagesFit, StageFits
  <2>2. rows'[m] # NoRow => rows'[m].text = c
    BY <2>1 DEF CommittedRow, OnlySent, MemoryFits
  <2>3. rows'[m].indexed => rows[m].indexed
    BY <2>1 DEF CommittedRow
  <2>4. ASSUME req[r].mem = m PROVE RequestFits(r, m, c)'
    <3>1. req[r].text = c /\ rows'[m] # NoRow
      BY <2>1, <2>4 DEF OnlySent, CommittedRow, NoRow
    <3>2. CASE req[r].live
      <4>1. /\ req'[r].stage = "index" /\ req'[r].vid = rows'[m].vid /\ req'[r].fts = "running"
            /\ req'[r].vec = IF Embedded(c) THEN "running" ELSE "ok"
        BY <1>6, <2>4, <3>1, <3>2 DEF Commit, Req
      <4>2. req'[r].vec = "ok" => VecIn(m, c)'
        BY <3>1, <4>1 DEF VecIn
      <4> QED
        BY <3>1, <4>1, <4>2 DEF RequestFits
    <3>3. CASE ~req[r].live
      <4>1. req'[r] = [req[r] EXCEPT !.stage = "failed"]
        BY <1>6, <3>3 DEF Commit
      <4> QED
        BY <1>1, <2>4, <4>1, RequestStays DEF Req
    <3> QED
      BY <3>2, <3>3
  <2> QED
    BY <1>1, <1>3, <1>4, <1>5, <2>2, <2>3, <2>4, FitsKept
<1>7. CASE IndexFts(r)
  <2>1. UNCHANGED rows /\ req'[r] = [req[r] EXCEPT !.fts = "ok"] /\ req[r].stage = "index"
    BY <1>7 DEF IndexFts, StagesFit, StageFits, TaskRunning
  <2>2. ASSUME req[r].mem = m PROVE RequestFits(r, m, c)'
    <3>1. FtsIn(m, c)'
      BY <1>7, <2>2 DEF IndexFts, FtsIn, OnlySent
    <3> QED
      BY <1>1, <2>1, <2>2, <3>1 DEF MemoryFits, RequestFits, Stays, Req
  <2> QED
    BY <1>1, <1>3, <1>4, <1>5, <2>1, <2>2, FitsKept DEF MemoryFits
<1>8. CASE IndexVector(r)
  <2>1. UNCHANGED <<rows, loaded>> /\ req'[r] = [req[r] EXCEPT !.vec = "ok"] /\ req[r].stage = "index"
    BY <1>8 DEF IndexVector, StagesFit, StageFits, TaskRunning
  <2>2. ASSUME req[r].mem = m PROVE RequestFits(r, m, c)'
    <3>1. rows[m] # NoRow /\ req[r].vid = rows[m].vid /\ req[r].text = c
      BY <2>1, <2>2 DEF MemoryFits, RequestFits, OnlySent
    <3>2. loaded => segment'[rows[m].vid] = c
      BY <1>8, <3>1 DEF IndexVector, Upserted, Row
    <3>3. VecIn(m, c)'
      BY <2>1, <3>1, <3>2 DEF VecIn
    <3> QED
      BY <1>1, <2>1, <2>2, <3>3 DEF MemoryFits, RequestFits, Stays, Req
  <2> QED
    BY <1>1, <1>3, <1>4, <1>5, <2>1, <2>2, FitsKept DEF MemoryFits
<1>9. CASE MarkIndexed(r)
  <2>1. rows'[m] # NoRow => rows'[m].text = c
    BY <1>9 DEF MarkIndexed, MemoryFits, Row
  <2>2. rows'[m].indexed => rows[m].indexed \/ (FtsIn(m, c) /\ VecIn(m, c))
    BY <1>9 DEF MarkIndexed, IndexDone, MemoryFits, RequestFits
  <2>3. req[r].mem = m => RequestFits(r, m, c)'
    BY <1>1, <1>9, RequestStays DEF MarkIndexed, Req
  <2> QED
    BY <1>1, <1>3, <1>4, <1>5, <2>1, <2>2, <2>3, FitsKept
<1>10. CASE Erase(r) \/ Forget(r)
  <2>1. req[r].mem # m
    BY <1>10, OwnText DEF Erase, Forget
  <2>2. rows'[m] = rows[m]
    BY <1>10, <2>1 DEF Erase, Forget
  <2> QED
    BY <1>1, <1>3, <1>4, <1>5, <2>1, <2>2, FitsKept DEF MemoryFits
<1> QED
  BY <1>6, <1>7, <1>8, <1>9, <1>10

LEMMA FitsOfRepair ==
  ASSUME NEW m, NEW c, Known(m, c), NEW p \in Repairer, RepairStep(p) \/ RepairFails(p)
  PROVE  MemoryFits(m, c)'
<1> USE DEF Known, TypeOK
<1>1. \A q \in Repairer : q # p => repair'[q] = repair[q]
  BY DEF RepairStep, RepairRead, RepairFts, RepairVector, RepairFinish, RepairFails
<1>2. \A r \in Request : r # p => req'[r] = req[r]
  BY DEF RepairStep, RepairRead, RepairFts, RepairVector, RepairFinish, RepairFails
<1>3. \A r \in Request : req'[r].mem = req[r].mem
  BY DEF RepairStep, RepairRead, RepairFts, RepairVector, RepairFinish, RepairFails, Req
<1>4. ASSUME Stays(m, c), NEW q \in Repairer, q # p PROVE RepairFits(q, m, c)'
  BY <1>1, <1>4, RepairStays
<1>5. ASSUME Stays(m, c), NEW r \in Request, r # p, req[r].mem = m PROVE RequestFits(r, m, c)'
  BY <1>2, <1>5, RequestStays
<1>6. CASE RepairRead(p)
  <2>1. IndexUnchanged /\ Stays(m, c)
    BY <1>6, StaysOfTables DEF RepairRead, IndexUnchanged
  <2>2. RepairFits(p, m, c)'
    <3>1. CASE Wanted(p) = {}
      BY <1>6, <2>1, <3>1, RepairStays DEF RepairRead, IdleRepair
    <3>2. CASE Wanted(p) # {}
      <4>1. /\ repair'[p].stage = "fts"
            /\ repair'[p].saw[m] = IF m \in Wanted(p) THEN [text |-> rows[m].text, vid |-> rows[m].vid]
                                   ELSE NothingSeen
        BY <1>6, <3>2 DEF RepairRead
      <4>2. m \in Wanted(p) => rows[m] # NoRow /\ rows[m].text = c
        BY DEF Wanted, MemoryFits
      <4> QED
        BY <2>1, <4>1, <4>2 DEF RepairFits, NothingSeen, Stays
    <3> QED
      BY <3>1, <3>2
  <2>3. ASSUME p \in Request, req[p].mem = m PROVE RequestFits(p, m, c)'
    <3>1. CASE Wanted(p) # {}
      BY <1>6, <2>1, <2>3, <3>1, RequestStays DEF RepairRead
    <3>2. CASE Wanted(p) = {}
      <4>1. req[p].stage = "repair" /\ req'[p] = [req[p] EXCEPT !.stage = "repaired"]
        BY <1>6, <2>3, <3>2 DEF RepairRead, StagesFit, StageFits
      <4>2. FtsIn(m, c) /\ VecIn(m, c)
        BY <2>3, <3>2, <4>1 DEF Wanted, MemoryFits, RequestFits
      <4> QED
        BY <2>1, <2>3, <4>1, <4>2, RequestStays, ZenonT(60) DEF Req
    <3> QED
      BY <3>1, <3>2
  <2>4. \A r \in Request : req[r].mem = m => RequestFits(r, m, c)'
    BY <1>5, <2>1, <2>3
  <2>5. \A q \in Repairer : RepairFits(q, m, c)'
    BY <1>4, <2>1, <2>2
  <2> QED
    BY <1>3, <2>1, <2>4, <2>5, FitsOfOthers
<1>7. CASE RepairFts(p) \/ RepairVector(p)
  <2>1. Stays(m, c)
    BY <1>7, StaysOfRepair
  <2>2. UNCHANGED <<rows, req>>
    BY <1>7 DEF RepairFts, RepairVector
  <2>3. RepairFits(p, m, c)'
    <3>1. repair'[p].saw = repair[p].saw
      BY <1>7 DEF RepairFts, RepairVector, Repair
    <3>2. CASE repair[p].saw[m].text = None
      BY <3>1, <3>2 DEF RepairFits
    <3>3. CASE repair[p].saw[m].text # None
      <4>1. rows[m] # NoRow /\ repair[p].saw[m] = [text |-> c, vid |-> rows[m].vid]
        BY <3>3 DEF MemoryFits, RepairFits
      <4>2. CASE RepairFts(p)
        <5>1. FtsIn(m, c)' /\ repair'[p].stage = "vec"
          BY <4>1, <4>2, <3>3 DEF RepairFts, FtsIn, Repair
        <5> QED
          BY <3>1, <4>1, <5>1, <2>2 DEF RepairFits
      <4>3. CASE RepairVector(p)
        <5>1. FtsIn(m, c)
          BY <3>3, <4>3 DEF RepairVector, MemoryFits, RepairFits
        <5>2. VecIn(m, c)'
          <6> DEFINE saw == repair[p].saw
                     at(v) == {saw[n].text : n \in {k \in Memory : saw[k].vid = v}} \ Unembedded
                     new == [v \in Vid |-> IF at(v) = {} THEN None ELSE CHOOSE x \in at(v) : TRUE]
          <6>1. Embedded(c) => at(rows[m].vid) = {c}
            <7>1. {k \in Memory : saw[k].vid = rows[m].vid} = {m}
              BY <4>1, OwnText
            <7> QED
              BY <4>1, <7>1 DEF Embedded
          <6>2. rows[m].vid \in Vid /\ (Embedded(c) => new[rows[m].vid] = c)
            BY <4>1, <6>1 DEF Row
          <6>3. segment' = Upserted(new) /\ UNCHANGED loaded
            BY <4>3 DEF RepairVector
          <6> HIDE DEF new
          <6>4. Embedded(c) /\ loaded => segment'[rows[m].vid] = c
            BY <6>2, <6>3 DEF Upserted
          <6> QED
            BY <2>2, <4>1, <6>3, <6>4 DEF VecIn
        <5> QED
          BY <2>1, <2>2, <3>1, <4>1, <5>1, <5>2 DEF RepairFits, Stays
      <4> QED
        BY <1>7, <4>2, <4>3
    <3> QED
      BY <3>2, <3>3
  <2>4. \A q \in Repairer : RepairFits(q, m, c)'
    BY <1>4, <2>1, <2>3
  <2>5. \A r \in Request : req'[r].mem = m => RequestFits(r, m, c)'
    BY <2>1, <2>2, RequestStays
  <2> QED
    BY <2>1, <2>2, <2>4, <2>5, FitsKept DEF MemoryFits
<1>8. CASE RepairFinish(p)
  <2>1. Stays(m, c)
    BY <1>8, StaysOfRepair
  <2>2. repair[p].saw[m].text # None => FtsIn(m, c) /\ VecIn(m, c)
    BY <1>8 DEF RepairFinish, MemoryFits, RepairFits
  <2>3. RepairFits(p, m, c)'
    BY <1>8, <2>1, RepairStays DEF RepairFinish, IdleRepair
  <2>4. \A q \in Repairer : RepairFits(q, m, c)'
    BY <1>4, <2>1, <2>3
  <2>5. ASSUME p \in Request, req[p].mem = m PROVE RequestFits(p, m, c)'
    <3>1. repair[p].saw[m].text # None
      BY <1>8, <2>5 DEF RepairFinish, StagesFit, StageFits
    <3>2. req'[p] = [req[p] EXCEPT !.stage = "repaired"]
      BY <1>8, <2>5 DEF RepairFinish
    <3>3. req'[p].stage = "repaired" /\ req'[p].fts = req[p].fts /\ req'[p].vec = req[p].vec
      BY <2>5, <3>2 DEF Req
    <3> QED
      BY <2>1, <2>2, <2>5, <3>1, <3>3, RequestStays
  <2>6. \A r \in Request : req'[r].mem = m => RequestFits(r, m, c)'
    BY <1>3, <1>5, <2>1, <2>5
  <2>7. rows'[m] # NoRow => rows'[m].text = c
    BY <1>8 DEF RepairFinish, Finished, MemoryFits, Row
  <2>8. rows'[m].indexed => rows[m].indexed \/ (FtsIn(m, c) /\ VecIn(m, c))
    BY <1>8, <2>2 DEF RepairFinish, Finished
  <2> QED
    BY <2>1, <2>4, <2>6, <2>7, <2>8, FitsKept
<1>9. CASE RepairFails(p)
  <2>1. IndexUnchanged /\ Stays(m, c)
    BY <1>9, StaysOfTables DEF RepairFails, IndexUnchanged
  <2>2. RepairFits(p, m, c)'
    BY <1>9, <2>1, RepairStays DEF RepairFails, IdleRepair
  <2>3. ASSUME p \in Request, req[p].mem = m PROVE RequestFits(p, m, c)'
    <3>1. req'[p] = [req[p] EXCEPT !.stage = "failed"]
      BY <1>9, <2>3 DEF RepairFails
    <3> QED
      BY <2>1, <2>3, <3>1, RequestStays, SMTT(60) DEF Req
  <2>4. \A q \in Repairer : RepairFits(q, m, c)'
    BY <1>4, <2>1, <2>2
  <2>5. \A r \in Request : req[r].mem = m => RequestFits(r, m, c)'
    BY <1>5, <2>1, <2>3
  <2> QED
    BY <1>3, <2>1, <2>4, <2>5, FitsOfOthers
<1> QED
  BY <1>6, <1>7, <1>8, <1>9 DEF RepairStep

LEMMA FitsOfCrash ==
  ASSUME NEW m, NEW c, Known(m, c), Crash PROVE MemoryFits(m, c)'
<1> USE DEF Known, TypeOK
<1>1. UNCHANGED <<rows, fts>> /\ loaded' = FALSE
  BY DEF Crash
<1>2. Stays(m, c)
  BY <1>1 DEF Stays, FtsIn, VecIn, MemoryFits
<1>3. ASSUME NEW r \in Request PROVE req'[r].mem = m => RequestFits(r, m, c)'
  <2>1. CASE req[r].stage \in {"idle", "done"}
    <3>1. req'[r] = req[r]
      BY <2>1 DEF Crash
    <3> QED
      BY <1>2, <3>1, RequestStays
  <2>2. CASE req[r].stage \notin {"idle", "done"}
    <3>1. req'[r].stage = "failed" /\ req'[r].fts = "none" /\ req'[r].vec = "none"
      BY <2>2, ZenonT(60) DEF Crash, Req
    <3> QED
      BY <3>1 DEF RequestFits
  <2> QED
    BY <2>1, <2>2
<1>4. \A p \in Repairer : RepairFits(p, m, c)'
  BY <1>2, RepairStays DEF Crash, IdleRepair
<1> QED
  BY <1>1, <1>2, <1>3, <1>4, FitsKept DEF MemoryFits

LEMMA FitsStep ==
  ASSUME IndexInv, [Next]_vars PROVE OnlySentFits'
<1> SUFFICES ASSUME NEW m \in Memory, NEW c \in Text, OnlySent(m, c)' PROVE MemoryFits(m, c)'
  BY DEF OnlySentFits
<1>1. Known(m, c)
  BY OnlySentBefore, Constants DEF IndexInv, OnlySentFits, Known
<1>2. ASSUME NEW r \in Request, Send(r) PROVE MemoryFits(m, c)'
  BY <1>1, <1>2, FitsOfSend
<1>3. ASSUME NEW r \in Request,
             \/ HangUp(r) \/ Check(r) \/ TransactionFails(r) \/ IndexFails(r) \/ StartRepair(r) \/ LookUp(r)
      PROVE  MemoryFits(m, c)'
  BY <1>1, <1>3, FitsOfRequest
<1>4. ASSUME NEW r \in Request,
             \/ Commit(r) \/ IndexFts(r) \/ IndexVector(r) \/ MarkIndexed(r) \/ Erase(r) \/ Forget(r)
      PROVE  MemoryFits(m, c)'
  BY <1>1, <1>4, FitsOfIndexing
<1>5. ASSUME NEW p \in Repairer, RepairStep(p) \/ RepairFails(p) PROVE MemoryFits(m, c)'
  BY <1>1, <1>5, FitsOfRepair
<1>6. CASE StartTick \/ UNCHANGED vars
  <2>1. Stays(m, c) /\ UNCHANGED <<rows, req>>
    BY <1>1, <1>6, StaysOfTables DEF StartTick, IndexUnchanged, vars
  <2>2. ASSUME NEW p \in Repairer PROVE RepairFits(p, m, c)'
    <3>1. repair'[p] = repair[p] \/ repair'[p] = [repair[p] EXCEPT !.stage = "read"]
      BY <1>1, <1>6 DEF StartTick, vars, Known, TypeOK
    <3> QED
      BY <1>1, <2>1, <3>1, RepairStays DEF Known, TypeOK, Repair
  <2> QED
    BY <1>1, <2>1, <2>2, RequestStays, FitsKept DEF Known, MemoryFits
<1>7. CASE Load
  <2>1. Stays(m, c) /\ UNCHANGED <<rows, req, repair>>
    BY <1>1, <1>7, StaysOfLoad DEF Load
  <2> QED
    BY <1>1, <2>1, RequestStays, RepairStays, FitsKept DEF Known, MemoryFits
<1>8. CASE Crash
  BY <1>1, <1>8, FitsOfCrash
<1> QED
  BY <1>2, <1>3, <1>4, <1>5, <1>6, <1>7, <1>8 DEF Next

LEMMA InitInv == ASSUME Init PROVE IndexInv
<1>1. TypeOK
  BY TypeInit
<1>2. StagesFit
  BY Constants DEF Init, StagesFit, StageFits, TaskRunning, NewReq, Repairer, IdleRepair
<1>3. VidsFit
  BY DEF Init, VidsFit, NoRow, NewReq, IdleRepair, NothingSeen, NoVid
<1>4. OnlySentFits
  BY Constants
     DEF Init, OnlySentFits, MemoryFits, RequestFits, RepairFits, NoRow, NewReq, IdleRepair, NothingSeen
<1> QED
  BY <1>1, <1>2, <1>3, <1>4 DEF IndexInv

LEMMA NextInv == ASSUME IndexInv, [Next]_vars PROVE IndexInv'
BY TypeStep, StagesStep, VidsStep, FitsStep DEF IndexInv

LEMMA FitsIsSearchable ==
  ASSUME NEW m, NEW c, MemoryFits(m, c), rows[m] # NoRow, FtsIn(m, c), VecIn(m, c)
  PROVE  Searchable(m, c)
BY DEF MemoryFits, FtsIn, VecIn, Searchable

\* IndexInv is inductive.
THEOREM IndexInvariant == Spec => []IndexInv
<1>1. Init => IndexInv
  BY InitInv
<1>2. IndexInv /\ [Next]_vars => IndexInv'
  BY NextInv
<1> QED
  BY <1>1, <1>2, PTL DEF Spec

\* The variables of the ingest always have their types, whatever the clients
\* send and however their steps interleave.
THEOREM IndexTypes == Spec => []TypeOK
<1>1. IndexInv => TypeOK
  BY DEF IndexInv
<1> QED
  BY <1>1, IndexInvariant, PTL

\* A memory that clients only send with one content is found by that content
\* whenever mark_indexed or a repair has marked it indexed.
THEOREM OneContentAlways == Spec => []OneContentIsSearchable
<1>1. IndexInv => OneContentIsSearchable
  <2> SUFFICES ASSUME IndexInv, NEW m \in Memory, NEW c \in Text, rows[m].indexed, OnlySent(m, c)
               PROVE  Searchable(m, c)
    BY DEF OneContentIsSearchable
  <2>1. MemoryFits(m, c)
    BY DEF IndexInv, OnlySentFits
  <2> QED
    BY <2>1, FitsIsSearchable DEF MemoryFits, VecIn
<1> QED
  BY <1>1, IndexInvariant, PTL

\* An ingest is only acknowledged when what it sent is found, unless another
\* request changes or deletes the memory: mark_indexed runs after both of its
\* tasks or its repair, and should_keep_payload skips only what is indexed.
THEOREM AckedAlways == Spec => AckedIsSearchable
<1> DEFINE Acked ==
      \A r \in Request :
        /\ req'[r].stage = "done" /\ req[r].stage # "done"
        /\ req[r].text # None /\ OnlySent(req[r].mem, req[r].text)
        => Searchable(req[r].mem, req[r].text)'
<1>1. IndexInv /\ [Next]_vars => Acked
  <2> SUFFICES ASSUME IndexInv, [Next]_vars, NEW r \in Request,
                      req'[r].stage = "done", req[r].stage # "done", req[r].text # None,
                      OnlySent(req[r].mem, req[r].text)
               PROVE  Searchable(req[r].mem, req[r].text)'
    OBVIOUS
  <2> DEFINE m == req[r].mem
             c == req[r].text
  <2> USE DEF TypeOK
  <2>1. TypeOK /\ StageFits(r)
    BY DEF IndexInv, StagesFit
  <2>2. Check(r) \/ MarkIndexed(r)
    <3> SUFFICES ASSUME ~Check(r), ~MarkIndexed(r) PROVE FALSE
      OBVIOUS
    <3>1. ASSUME NEW q \in Request,
                 \/ Send(q) \/ HangUp(q) \/ TransactionFails(q) \/ IndexFts(q) \/ IndexVector(q)
                 \/ IndexFails(q) \/ StartRepair(q)
          PROVE  FALSE
      <4>1. CASE Send(q)
        <5>1. ASSUME NEW n \in Memory, SendDelete(q, n) PROVE FALSE
          BY <2>1, <5>1 DEF SendDelete, NewReq
        <5>2. ASSUME NEW n \in Memory, NEW x \in Text, SendIngest(q, n, x) PROVE FALSE
          BY <2>1, <5>2 DEF SendIngest, NewReq
        <5> QED
          BY <4>1, <5>1, <5>2 DEF Send
      <4>2. CASE HangUp(q)
        BY <2>1, <4>2 DEF HangUp, HangUpBefore, HangUpDuring, Req
      <4>3. CASE TransactionFails(q) \/ StartRepair(q)
        BY <2>1, <4>3 DEF TransactionFails, StartRepair, Req
      <4>4. CASE IndexFts(q) \/ IndexVector(q) \/ IndexFails(q)
        <5>1. req'[r].stage = req[r].stage
          BY <2>1, <4>4 DEF IndexFts, IndexVector, IndexFails, Req
        <5> QED
          BY <5>1
      <4> QED
        BY <3>1, <4>1, <4>2, <4>3, <4>4
    <3>2. ASSUME NEW q \in Request, Check(q) \/ MarkIndexed(q) PROVE FALSE
      BY <2>1, <3>2 DEF Check, MarkIndexed
    <3>3. ASSUME NEW q \in Request, Commit(q) PROVE FALSE
      BY <2>1, <3>3 DEF Commit
    <3>4. ASSUME NEW q \in Request, LookUp(q) \/ Erase(q) \/ Forget(q) PROVE FALSE
      BY <2>1, <3>4 DEF LookUp, Erase, Forget, StageFits
    <3>5. ASSUME NEW p \in Repairer, RepairStep(p) \/ RepairFails(p) PROVE FALSE
      <4>1. CASE RepairRead(p)
        BY <2>1, <4>1 DEF RepairRead
      <4>2. CASE RepairFts(p) \/ RepairVector(p)
        BY <4>2 DEF RepairFts, RepairVector
      <4>3. CASE RepairFinish(p)
        BY <2>1, <4>3 DEF RepairFinish
      <4>4. CASE RepairFails(p)
        BY <2>1, <4>4 DEF RepairFails
      <4> QED
        BY <3>5, <4>1, <4>2, <4>3, <4>4 DEF RepairStep
    <3>6. CASE StartTick \/ Load \/ UNCHANGED vars
      BY <3>6 DEF StartTick, Load, vars
    <3>7. CASE Crash
      <4>1. req[r].stage \in {"idle", "done"}
        BY <2>1, <3>7, ZenonT(60) DEF Crash, Req
      <4> QED
        BY <3>7, <4>1 DEF Crash
    <3> QED
      BY <3>1, <3>2, <3>3, <3>4, <3>5, <3>6, <3>7 DEF Next
  <2>7. req'[r].mem = m /\ req'[r].text = c
    <3>1. CASE Check(r)
      BY <2>1, <3>1 DEF Check, Req
    <3>2. CASE MarkIndexed(r)
      BY <2>1, <3>2 DEF MarkIndexed, Req
    <3> QED
      BY <2>2, <3>1, <3>2
  <2>3. m \in Memory /\ c \in Text
    BY <2>1, <2>2 DEF Check, MarkIndexed, IndexDone, StageFits
  <2>4. MemoryFits(m, c)
    BY <2>3 DEF IndexInv, OnlySentFits
  <2>5. CASE Check(r)
    <3>1. ~KeepPayload(m, c) /\ UNCHANGED <<rows, fts, segment, loaded>>
      BY <2>1, <2>5 DEF Check, IndexUnchanged
    <3>2. rows[m].indexed
      BY <3>1 DEF KeepPayload
    <3>3. Searchable(m, c)
      BY <2>4, <3>2, FitsIsSearchable DEF MemoryFits, VecIn
    <3> QED
      BY <2>7, <3>1, <3>3 DEF Searchable
  <2>6. CASE MarkIndexed(r)
    <3>1. FtsIn(m, c) /\ VecIn(m, c)
      BY <2>4, <2>6 DEF MarkIndexed, IndexDone, MemoryFits, RequestFits
    <3>2. Searchable(m, c)
      BY <2>4, <3>1, FitsIsSearchable DEF VecIn
    <3>3. rows'[m].text = rows[m].text /\ rows'[m].vid = rows[m].vid /\ UNCHANGED <<fts, segment, loaded>>
      BY <2>1, <2>3, <2>6 DEF MarkIndexed, Row
    <3> QED
      BY <2>7, <3>2, <3>3 DEF Searchable
  <2> QED
    BY <2>2, <2>5, <2>6
<1> QED
  BY <1>1, IndexInvariant, PTL DEF Spec, AckedIsSearchable

-----------------------------------------------------------------------------
(* Requests and ticks that follow each other, of clients that may hang up.  *)

Sequential == ~RequestsOverlap /\ ~TickOverlaps

\* One request works at a time, or the tick.
OneWorks ==
  /\ \A q, r \in Request : Working(q) /\ Working(r) => q = r
  /\ repair[Tick].stage # "idle" => \A r \in Request : ~Working(r)
  /\ \A r \in Request : req[r].stage = "lookup" => req[r].live

\* Memory m is found by what its row says.
Told(m) == FtsIn(m, rows[m].text) /\ VecIn(m, rows[m].text)

\* What the request that works has done.
WorkFits(r) ==
  LET m == req[r].mem
  IN  Working(r) =>
        /\ req[r].stage = "forget" => rows[m] = NoRow
        /\ req[r].stage \in {"index", "repair", "repaired"} =>
             rows[m] # NoRow /\ rows[m].text = req[r].text
        /\ req[r].stage = "index" =>
             /\ req[r].vid = rows[m].vid
             /\ req[r].fts = "ok" => FtsIn(m, rows[m].text)
             /\ req[r].vec = "ok" => VecIn(m, rows[m].text)
        /\ req[r].stage = "repaired" => Told(m)

\* What the repair that runs has seen, and done.
SawFits(p) ==
  \A m \in Memory :
    repair[p].stage \in {"fts", "vec", "finish"} /\ repair[p].saw[m].text # None =>
      /\ rows[m] # NoRow
      /\ repair[p].saw[m] = [text |-> rows[m].text, vid |-> rows[m].vid]
      /\ repair[p].stage \in {"vec", "finish"} => FtsIn(m, rows[m].text)
      /\ repair[p].stage = "finish" => VecIn(m, rows[m].text)

\* The flag tells the truth, and no text is left of a memory that is gone.
TablesFit ==
  \A m \in Memory :
    /\ rows[m].indexed => Told(m)
    /\ rows[m] = NoRow => fts[m] = None

\* A vector of the segment is that of a row, or of one just deleted.
SegmentFits ==
  \A v \in Vid : segment[v] # None =>
    \/ \E m \in Memory : rows[m] # NoRow /\ rows[m].vid = v
    \/ \E r \in Request : req[r].stage = "forget" /\ req[r].vid = v

WorkInv ==
  /\ OneWorks /\ TablesFit
  /\ \A r \in Request : WorkFits(r)
  /\ \A p \in Repairer : SawFits(p)

\* What request r does by itself, and the repair it runs.
Acts(r) ==
  \/ HangUp(r) \/ Check(r) \/ Commit(r) \/ TransactionFails(r)
  \/ IndexFts(r) \/ IndexVector(r) \/ IndexFails(r) \/ StartRepair(r) \/ MarkIndexed(r)
  \/ LookUp(r) \/ Erase(r) \/ Forget(r)
Repairs(p) == RepairStep(p) \/ RepairFails(p)

\* A step of request r leaves the other requests and repairs alone.
LEMMA OthersStay ==
  ASSUME TypeOK, NEW r \in Request, Send(r) \/ Acts(r) \/ Repairs(r)
  PROVE  /\ \A q \in Request \ {r} : req'[q] = req[q]
         /\ \A p \in Repairer \ {r} : repair'[p] = repair[p]
<1> USE DEF TypeOK
<1>1. CASE Send(r)
  <2>1. ASSUME NEW m \in Memory, SendDelete(r, m) \/ \E c \in Text : SendIngest(r, m, c)
        PROVE  repair' = repair /\ \A q \in Request \ {r} : req'[q] = req[q]
    BY <2>1 DEF SendDelete, SendIngest
  <2> QED
    BY <1>1, <2>1 DEF Send
<1>2. CASE Acts(r)
  <2>1. CASE HangUp(r)
    BY <2>1 DEF HangUp, HangUpBefore, HangUpDuring
  <2>2. CASE Check(r) \/ Commit(r) \/ TransactionFails(r)
    BY <2>2 DEF Check, Commit, TransactionFails
  <2>3. CASE IndexFts(r) \/ IndexVector(r) \/ IndexFails(r)
    BY <2>3 DEF IndexFts, IndexVector, IndexFails
  <2>4. CASE StartRepair(r) \/ MarkIndexed(r)
    BY <2>4 DEF StartRepair, MarkIndexed
  <2>5. CASE LookUp(r) \/ Erase(r) \/ Forget(r)
    BY <2>5 DEF LookUp, Erase, Forget
  <2> QED
    BY <1>2, <2>1, <2>2, <2>3, <2>4, <2>5 DEF Acts
<1>3. CASE Repairs(r)
  BY <1>3 DEF Repairs, RepairStep, RepairRead, RepairFts, RepairVector, RepairFinish, RepairFails
<1> QED
  BY <1>1, <1>2, <1>3

\* Who acts is working.
LEMMA WhoActsWorks ==
  ASSUME TypeOK, StagesFit, OneWorks, NEW r \in Request, Acts(r) \/ Repairs(r)
  PROVE  Working(r)
<1>1. StageFits(r) /\ (req[r].stage = "lookup" => req[r].live)
  BY DEF StagesFit, OneWorks
<1>2. CASE HangUp(r)
  BY <1>2 DEF HangUp, HangUpBefore, HangUpDuring, NotSpawned, Working
<1>3. CASE Check(r) \/ Commit(r) \/ StartRepair(r)
  BY <1>3 DEF Check, Commit, StartRepair, Working
<1>4. CASE TransactionFails(r) \/ MarkIndexed(r)
  BY <1>4 DEF TransactionFails, MarkIndexed, IndexDone, Working
<1>5. CASE IndexFts(r) \/ IndexVector(r) \/ IndexFails(r)
  BY <1>5 DEF IndexFts, IndexVector, IndexFails, TaskRunning, Working
<1>6. CASE LookUp(r) \/ Erase(r) \/ Forget(r)
  BY <1>1, <1>6 DEF LookUp, Erase, Forget, Working
<1>7. CASE Repairs(r)
  BY <1>7 DEF Repairs, RepairStep, RepairRead, RepairFts, RepairVector, RepairFinish, RepairFails, Working
<1> QED
  BY <1>2, <1>3, <1>4, <1>5, <1>6, <1>7 DEF Acts

\* Only a request that was looked up by a client who waits is still looked up.
LEMMA LookUpsLive ==
  ASSUME TypeOK, StagesFit, OneWorks, NEW r \in Request, Send(r) \/ Acts(r) \/ Repairs(r),
         req'[r].stage = "lookup"
  PROVE  req'[r].live
<1> USE DEF TypeOK
<1>1. StageFits(r) /\ (req[r].stage = "lookup" => req[r].live)
  BY DEF StagesFit, OneWorks
<1>2. CASE Send(r)
  <2>1. ASSUME NEW m \in Memory, SendDelete(r, m) \/ \E c \in Text : SendIngest(r, m, c)
        PROVE  req'[r].live
    BY <2>1, ZenonT(60) DEF SendDelete, SendIngest, NewReq
  <2> QED
    BY <1>2, <2>1 DEF Send
<1>3. CASE HangUp(r)
  BY <1>3 DEF HangUp, HangUpBefore, HangUpDuring, Req
<1>4. CASE Check(r) \/ TransactionFails(r) \/ StartRepair(r) \/ MarkIndexed(r)
  BY <1>4 DEF Check, TransactionFails, StartRepair, MarkIndexed, Req
<1>8. CASE Commit(r)
  BY <1>8 DEF Commit, Req
<1>5. CASE IndexFts(r) \/ IndexVector(r) \/ IndexFails(r)
  BY <1>1, <1>5 DEF IndexFts, IndexVector, IndexFails, Req, StageFits, TaskRunning
<1>6. CASE LookUp(r) \/ Erase(r) \/ Forget(r)
  BY <1>6 DEF LookUp, Erase, Forget, Req
<1>7. CASE Repairs(r)
  <2>1. repair[r].stage # "idle"
    BY <1>7 DEF Repairs, RepairStep, RepairRead, RepairFts, RepairVector, RepairFinish, RepairFails
  <2>2. req[r].stage = "repair"
    BY <1>1, <2>1 DEF StageFits
  <2>3. req' = req \/ req' = [req EXCEPT ![r].stage = "repaired"]
                    \/ req' = [req EXCEPT ![r].stage = "failed"]
    BY <1>7 DEF Repairs, RepairStep, RepairRead, RepairFts, RepairVector, RepairFinish, RepairFails
  <2> QED
    BY <2>2, <2>3, SMTT(30) DEF Req
<1> QED
  BY <1>2, <1>3, <1>4, <1>5, <1>6, <1>7, <1>8 DEF Acts

\* A step of the tick is nobody else's.
LEMMA TickStays ==
  ASSUME TypeOK, Repairs(Tick)
  PROVE  /\ req' = req /\ repair[Tick].stage # "idle"
         /\ \A r \in Request : repair'[r] = repair[r]
<1>1. Tick \notin Request /\ Tick \in Repairer
  BY Constants DEF Repairer
<1> QED
  BY <1>1 DEF TypeOK, Repairs, RepairStep, RepairRead, RepairFts, RepairVector, RepairFinish, RepairFails, Repairer

\* After a crash nothing runs.
LEMMA NothingRuns ==
  ASSUME TypeOK, StagesFit, Crash
  PROVE  /\ \A r \in Request : ~Working(r)' /\ req'[r].stage \notin {"lookup", "forget"}
         /\ \A p \in Repairer : repair'[p].stage = "idle"
<1>1. ASSUME NEW p \in Repairer PROVE repair'[p].stage = "idle"
  BY DEF Crash, IdleRepair
<1>2. ASSUME NEW r \in Request
      PROVE  ~Working(r)' /\ req'[r].stage \notin {"lookup", "forget"}
  <2>1. CASE req[r].stage \in {"idle", "done"}
    <3>1. req'[r] = req[r] /\ ~TaskRunning(r)
      BY <2>1 DEF Crash, StagesFit, StageFits
    <3> QED
      BY <1>1, <2>1, <3>1 DEF Working, TaskRunning, Repairer
  <2>2. CASE req[r].stage \notin {"idle", "done"}
    <3>1. req'[r] = [req[r] EXCEPT !.stage = "failed", !.live = FALSE, !.fts = "none", !.vec = "none"]
      BY <2>2 DEF Crash
    <3>2. req'[r].stage = "failed" /\ req'[r].fts = "none" /\ req'[r].vec = "none"
      BY <3>1 DEF TypeOK, Req
    <3> QED
      BY <1>1, <3>2 DEF Working, TaskRunning, Repairer
  <2> QED
    BY <2>1, <2>2
<1> QED
  BY <1>1, <1>2

\* The next request, and the tick, wait for the one that works.
LEMMA OneWorksStep ==
  ASSUME Sequential, TypeOK, StagesFit, OneWorks, [Next]_vars
  PROVE  OneWorks'
<1>a. Tick \notin Request /\ Tick \in Repairer /\ Request \subseteq Repairer
  BY Constants DEF Repairer
<1>1. ASSUME NEW r \in Request, Send(r) \/ Acts(r) \/ Repairs(r) PROVE OneWorks'
  <2>1. /\ \A q \in Request \ {r} : req'[q] = req[q] /\ repair'[q] = repair[q]
        /\ repair'[Tick] = repair[Tick]
    BY <1>1, <1>a, OthersStay
  <2>2. \A q \in Request \ {r} : ~Working(q) /\ repair[Tick].stage = "idle"
    <3>1. CASE Send(r)
      BY <3>1 DEF Send, SendDelete, SendIngest, MaySend, Sequential
    <3>2. CASE Acts(r) \/ Repairs(r)
      BY <3>2, WhoActsWorks DEF OneWorks
    <3> QED
      BY <1>1, <3>1, <3>2
  <2>3. repair[Tick].stage = "idle"
    <3>1. CASE Send(r)
      BY <3>1 DEF Send, SendDelete, SendIngest, MaySend, Sequential
    <3>2. CASE Acts(r) \/ Repairs(r)
      BY <3>2, WhoActsWorks DEF OneWorks
    <3> QED
      BY <1>1, <3>1, <3>2
  <2>4. \A q \in Request \ {r} : ~Working(q)'
    BY <2>1, <2>2 DEF Working, TaskRunning
  <2>5. \A q \in Request : req'[q].stage = "lookup" => req'[q].live
    BY <1>1, <2>1, LookUpsLive DEF OneWorks
  <2> QED
    BY <2>1, <2>3, <2>4, <2>5 DEF OneWorks
<1>2. CASE StartTick
  <2>1. req' = req /\ (\A r \in Request : ~Working(r)) /\ \A r \in Request : repair'[r] = repair[r]
    BY <1>2, <1>a DEF StartTick, Sequential, TypeOK
  <2>2. \A r \in Request : ~Working(r)'
    BY <2>1 DEF Working, TaskRunning
  <2> QED
    BY <2>1, <2>2 DEF OneWorks
<1>3. CASE Repairs(Tick)
  <2>1. /\ req' = req /\ \A r \in Request : repair'[r] = repair[r]
        /\ \A r \in Request : ~Working(r)
    BY <1>3, TickStays DEF OneWorks
  <2>2. \A r \in Request : ~Working(r)'
    BY <2>1 DEF Working, TaskRunning
  <2> QED
    BY <2>1, <2>2 DEF OneWorks
<1>4. CASE Load \/ UNCHANGED vars
  <2>1. UNCHANGED <<req, repair>>
    BY <1>4 DEF Load, vars
  <2> QED
    BY <2>1 DEF OneWorks, Working, TaskRunning
<1>5. CASE Crash
  BY <1>5, <1>a, NothingRuns DEF OneWorks
<1> QED
  BY <1>1, <1>2, <1>3, <1>4, <1>5 DEF Next, Acts, Repairs, Repairer

\* What holds before a step of the request or the tick p that works.
AtWork(p) == TypeOK /\ StagesFit /\ VidsFit /\ WorkInv /\ (p \in Request => Working(p))

\* What has to hold after it.
Done(p) == TablesFit /\ SawFits(p) /\ (p \in Request => WorkFits(p))

\* A row's vector stays where no entry of the segment that it needs changes.
LEMMA TablesSame ==
  ASSUME TablesFit, IndexUnchanged
  PROVE  /\ TablesFit'
         /\ \A m : Told(m)' = Told(m) /\ FtsIn(m, rows[m].text)' = FtsIn(m, rows[m].text)
                   /\ VecIn(m, rows[m].text)' = VecIn(m, rows[m].text)
BY Zenon DEF IndexUnchanged, TablesFit, Told, FtsIn, VecIn

\* A stage at which nothing is claimed.
LEMMA NothingClaimed ==
  ASSUME NEW r \in Request, req'[r].stage \notin {"forget", "index", "repair", "repaired"}
  PROVE  WorkFits(r)'
BY DEF WorkFits

LEMMA NothingSaid ==
  ASSUME NEW p, repair'[p].stage \notin {"fts", "vec", "finish"}
  PROVE  SawFits(p)'
BY DEF SawFits

LEMMA WorkOfRequest ==
  ASSUME NEW r \in Request, TypeOK, StagesFit, VidsFit, WorkInv,
         \/ Send(r) \/ Check(r) \/ TransactionFails(r) \/ LookUp(r)
  PROVE  Done(r)'
<1>1. IndexUnchanged /\ repair' = repair
  <2>1. ASSUME NEW m \in Memory, SendDelete(r, m) \/ \E c \in Text : SendIngest(r, m, c)
        PROVE  IndexUnchanged /\ repair' = repair
    BY <2>1 DEF SendDelete, SendIngest
  <2>2. CASE Send(r)
    BY <2>1, <2>2 DEF Send
  <2>3. CASE Check(r) \/ TransactionFails(r) \/ LookUp(r)
    BY <2>3 DEF Check, TransactionFails, LookUp
  <2> QED
    BY <2>2, <2>3
<1>2. req'[r].stage \in {"check", "lookup", "commit", "done", "failed", "erase"} /\ req[r].stage # "repair"
  <2>1. ASSUME NEW m \in Memory, SendDelete(r, m) \/ \E c \in Text : SendIngest(r, m, c)
        PROVE  req'[r].stage \in {"check", "lookup"} /\ req[r].stage = "idle"
    <3>1. CASE SendDelete(r, m)
      BY <3>1 DEF SendDelete, MaySend, NewReq, TypeOK
    <3>2. ASSUME NEW c \in Text, SendIngest(r, m, c) PROVE req'[r].stage = "check" /\ req[r].stage = "idle"
      BY <3>2 DEF SendIngest, MaySend, NewReq, TypeOK
    <3> QED
      BY <2>1, <3>1, <3>2
  <2>2. CASE Send(r)
    BY <2>1, <2>2 DEF Send
  <2>3. CASE Check(r)
    BY <2>3 DEF Check, TypeOK, Req
  <2>4. CASE TransactionFails(r)
    BY <2>4 DEF TransactionFails, IndexDone, TypeOK, Req
  <2>5. CASE LookUp(r)
    BY <2>5 DEF LookUp, TypeOK, Req
  <2> QED
    BY <2>2, <2>3, <2>4, <2>5
<1>3. repair'[r].stage = "idle"
  BY <1>1, <1>2 DEF StagesFit, StageFits
<1>4. TablesFit'
  BY <1>1, TablesSame DEF WorkInv
<1> QED
  BY <1>2, <1>3, <1>4, NothingClaimed, NothingSaid DEF Done

LEMMA WorkOfHangUp ==
  ASSUME NEW r \in Request, AtWork(r), HangUp(r)
  PROVE  Done(r)'
<1>1. IndexUnchanged
  BY DEF HangUp
<1>2. TablesFit'
  BY <1>1, TablesSame DEF AtWork, WorkInv
<1>3. CASE HangUpBefore(r)
  <2>1. req'[r].stage = "failed" /\ repair'[r].stage = "idle"
    BY <1>3 DEF HangUpBefore, AtWork, TypeOK, Req, IdleRepair, Repairer
  <2> QED
    BY <1>2, <2>1, NothingClaimed, NothingSaid DEF Done
<1>4. CASE HangUpDuring(r)
  <2>1. /\ req'[r].stage = req[r].stage /\ req'[r].mem = req[r].mem /\ req'[r].text = req[r].text
        /\ req'[r].vid = req[r].vid /\ req'[r].fts = req[r].fts /\ req'[r].vec = req[r].vec
        /\ repair' = repair
    BY <1>4 DEF HangUpDuring, AtWork, TypeOK, Req
  <2>2. WorkFits(r)'
    BY <1>1, <2>1, TablesSame DEF WorkFits, AtWork, WorkInv, IndexUnchanged
  <2>3. SawFits(r)'
    BY <1>1, <2>1, TablesSame DEF SawFits, AtWork, WorkInv, IndexUnchanged, Repairer
  <2> QED
    BY <1>2, <2>2, <2>3 DEF Done
<1> QED
  BY <1>3, <1>4 DEF HangUp

LEMMA WorkOfFailing ==
  ASSUME NEW r \in Request, AtWork(r), IndexFails(r) \/ StartRepair(r)
  PROVE  Done(r)'
<1>1. IndexUnchanged
  BY DEF IndexFails, StartRepair
<1>2. TablesFit'
  BY <1>1, TablesSame DEF AtWork, WorkInv
<1>3. req[r].stage = "index" /\ r \in Repairer
  BY DEF IndexFails, StartRepair, AtWork, StagesFit, StageFits, TaskRunning, Repairer
<1>4. CASE IndexFails(r)
  <2>1. /\ req'[r].stage = req[r].stage /\ req'[r].mem = req[r].mem /\ req'[r].text = req[r].text
        /\ req'[r].vid = req[r].vid /\ req'[r].fts \in {req[r].fts, "failed"}
        /\ req'[r].vec \in {req[r].vec, "failed"} /\ repair' = repair
    BY <1>4 DEF IndexFails, AtWork, TypeOK, Req
  <2>2. WorkFits(r)'
    BY <1>1, <1>3, <2>1, TablesSame DEF WorkFits, AtWork, WorkInv, IndexUnchanged
  <2>3. repair'[r].stage = "idle"
    BY <1>3, <2>1 DEF AtWork, StagesFit, StageFits
  <2> QED
    BY <1>2, <2>2, <2>3, NothingSaid DEF Done
<1>5. CASE StartRepair(r)
  <2>1. req'[r].stage = "repair" /\ req'[r].mem = req[r].mem /\ req'[r].text = req[r].text
        /\ repair'[r].stage = "read"
    BY <1>3, <1>5 DEF StartRepair, AtWork, TypeOK, Req, Repair
  <2>2. WorkFits(r)'
    BY <1>1, <1>3, <2>1 DEF WorkFits, AtWork, WorkInv, IndexUnchanged
  <2> QED
    BY <1>2, <2>1, <2>2, NothingSaid DEF Done
<1> QED
  BY <1>4, <1>5

LEMMA WorkOfCommit ==
  ASSUME NEW r \in Request, AtWork(r), Commit(r)
  PROVE  Done(r)'
<1> DEFINE m == req[r].mem
           c == req[r].text
<1>1. m \in Memory /\ c \in Text /\ None \notin Text /\ r \in Repairer
  BY Constants DEF Commit, AtWork, StagesFit, StageFits, Repairer
<1>2. /\ rows' = [rows EXCEPT ![m] = CommittedRow(m, c)]
      /\ UNCHANGED <<fts, segment, loaded, repair>>
  BY DEF Commit
<1>3. rows'[m].text = c /\ rows'[m].indexed = FALSE /\ rows'[m] # NoRow
  BY <1>1, <1>2 DEF AtWork, TypeOK, CommittedRow, NoRow
<1>4. \A n \in Memory : n # m => rows'[n] = rows[n]
  BY <1>1, <1>2 DEF AtWork, TypeOK
<1>5. TablesFit'
  <2> SUFFICES ASSUME NEW n \in Memory
               PROVE  (rows'[n].indexed => Told(n)') /\ (rows'[n] = NoRow => fts'[n] = None)
    BY DEF TablesFit
  <2>1. CASE n = m
    BY <1>3, <2>1
  <2>2. CASE n # m
    BY <1>2, <1>4, <2>2 DEF AtWork, WorkInv, TablesFit, Told, FtsIn, VecIn
  <2> QED
    BY <2>1, <2>2
<1>6. req[r].stage = "commit" /\ repair'[r].stage = "idle"
  BY <1>2 DEF Commit, AtWork, StagesFit, StageFits
<1>7. \/ req'[r].stage = "failed"
      \/ /\ req'[r].stage = "index" /\ req'[r].mem = m /\ req'[r].text = c
         /\ req'[r].vid = rows'[m].vid /\ req'[r].fts = "running"
         /\ req'[r].vec = IF Embedded(c) THEN "running" ELSE "ok"
  <2>1. CASE req[r].live
    BY <2>1 DEF Commit, AtWork, TypeOK, Req
  <2>2. CASE ~req[r].live
    BY <2>2 DEF Commit, AtWork, TypeOK, Req
  <2> QED
    BY <2>1, <2>2
<1>8. WorkFits(r)'
  <2>1. CASE req'[r].stage = "failed"
    BY <2>1, NothingClaimed
  <2>2. CASE req'[r].stage # "failed"
    BY <1>3, <1>7, <2>2 DEF WorkFits, VecIn, Embedded
  <2> QED
    BY <2>1, <2>2
<1> QED
  BY <1>5, <1>6, <1>8, NothingSaid DEF Done

LEMMA WorkOfFts ==
  ASSUME NEW r \in Request, AtWork(r), IndexFts(r)
  PROVE  Done(r)'
<1> DEFINE m == req[r].mem
<1>1. req[r].stage = "index" /\ m \in Memory /\ rows[m] # NoRow /\ rows[m].text = req[r].text
  BY DEF IndexFts, AtWork, StagesFit, StageFits, TaskRunning, WorkInv, WorkFits
<1>2. UNCHANGED <<rows, segment, loaded, repair>> /\ fts' = [fts EXCEPT ![m] = rows[m].text]
  BY <1>1 DEF IndexFts
<1>3. /\ fts' \in [Memory -> OrNone(Text)]
      /\ fts'[m] = rows[m].text /\ \A n \in Memory : n # m => fts'[n] = fts[n]
  <2>1. rows[m].text \in OrNone(Text)
    BY <1>1 DEF AtWork, TypeOK, Row, OrNone
  <2> QED
    BY <1>1, <1>2, <2>1 DEF AtWork, TypeOK
<1>4. TablesFit'
  BY <1>1, <1>2, <1>3 DEF AtWork, WorkInv, TablesFit, Told, FtsIn, VecIn
<1>5. /\ req'[r].stage = "index" /\ req'[r].mem = m /\ req'[r].text = req[r].text
      /\ req'[r].vid = req[r].vid /\ req'[r].vec = req[r].vec
  BY <1>1 DEF IndexFts, AtWork, TypeOK, Req
<1>6. WorkFits(r)'
  BY <1>1, <1>2, <1>3, <1>5 DEF AtWork, WorkInv, WorkFits, FtsIn, VecIn
<1>7. repair'[r].stage = "idle"
  BY <1>1, <1>2 DEF AtWork, StagesFit, StageFits
<1> QED
  BY <1>4, <1>6, <1>7, NothingSaid DEF Done

LEMMA WorkOfVector ==
  ASSUME NEW r \in Request, AtWork(r), IndexVector(r)
  PROVE  Done(r)'
<1> DEFINE m == req[r].mem
<1>1. /\ req[r].stage = "index" /\ m \in Memory /\ rows[m] # NoRow
      /\ rows[m].text = req[r].text /\ rows[m].vid = req[r].vid /\ rows[m].text \in Text
  BY DEF IndexVector, AtWork, TypeOK, Row, StagesFit, StageFits, TaskRunning, WorkInv, WorkFits
<1>2. UNCHANGED <<rows, fts, loaded, repair>>
  BY DEF IndexVector
<1>3. rows[m].text # None /\ rows[m].vid \in Vid
  BY <1>1, Constants DEF AtWork, TypeOK, Row
<1>4. \A v \in Vid : segment'[v] = IF loaded /\ v = rows[m].vid THEN rows[m].text ELSE segment[v]
  BY <1>1, <1>3 DEF IndexVector, Upserted
<1>5. \A n \in Memory : rows[n] # NoRow => rows[n].vid \in Vid /\ (n # m => rows[n].vid # rows[m].vid)
  BY <1>1 DEF AtWork, TypeOK, Row, VidsFit
<1>6. \A n \in Memory : n = m \/ VecIn(n, rows[n].text) => VecIn(n, rows[n].text)'
  <2> SUFFICES ASSUME NEW n \in Memory, n = m \/ VecIn(n, rows[n].text)
               PROVE  VecIn(n, rows[n].text)'
    OBVIOUS
  <2>1. rows' = rows /\ loaded' = loaded
    BY <1>2
  <2>2. CASE n = m
    <3>1. loaded => segment'[rows[n].vid] = rows[n].text
      BY <1>3, <1>4, <2>2
    <3> QED
      BY <1>1, <2>1, <2>2, <3>1 DEF VecIn
  <2>3. CASE n # m
    <3>1. rows[n] # NoRow /\ (Embedded(rows[n].text) /\ loaded => segment[rows[n].vid] = rows[n].text)
      BY <2>3 DEF VecIn
    <3>2. segment'[rows[n].vid] = segment[rows[n].vid]
      BY <1>4, <1>5, <2>3, <3>1
    <3> QED
      BY <2>1, <3>1, <3>2 DEF VecIn
  <2> QED
    BY <2>2, <2>3
<1>7. TablesFit'
  BY <1>2, <1>6 DEF AtWork, WorkInv, TablesFit, Told, FtsIn
<1>8. /\ req'[r].stage = "index" /\ req'[r].mem = m /\ req'[r].text = req[r].text
      /\ req'[r].vid = req[r].vid /\ req'[r].fts = req[r].fts
  BY <1>1 DEF IndexVector, AtWork, TypeOK, Req
<1>9. WorkFits(r)'
  BY <1>1, <1>2, <1>6, <1>8 DEF AtWork, WorkInv, WorkFits, FtsIn
<1>10. repair'[r].stage = "idle"
  BY <1>1, <1>2 DEF AtWork, StagesFit, StageFits
<1> QED
  BY <1>7, <1>9, <1>10, NothingSaid DEF Done

LEMMA WorkOfMark ==
  ASSUME NEW r \in Request, AtWork(r), MarkIndexed(r)
  PROVE  Done(r)'
<1> DEFINE m == req[r].mem
<1>1. m \in Memory /\ Told(m) /\ rows[m] # NoRow /\ req[r].stage \in {"index", "repaired"}
  BY DEF MarkIndexed, IndexDone, AtWork, StagesFit, StageFits, WorkInv, WorkFits, Told
<1>2. rows' = [rows EXCEPT ![m].indexed = TRUE] /\ UNCHANGED <<fts, segment, loaded, repair>>
  BY <1>1 DEF MarkIndexed
<1>3. \A n \in Memory :
        /\ rows'[n].text = rows[n].text /\ rows'[n].vid = rows[n].vid
        /\ rows'[n] = NoRow <=> rows[n] = NoRow
        /\ n # m => rows'[n] = rows[n]
  BY <1>1, <1>2 DEF AtWork, TypeOK, Row, NoRow
<1>4. TablesFit'
  BY <1>1, <1>2, <1>3 DEF AtWork, WorkInv, TablesFit, Told, FtsIn, VecIn
<1>5. req'[r].stage = "done"
  BY DEF MarkIndexed, AtWork, TypeOK
<1>6. repair'[r].stage = "idle"
  BY <1>1, <1>2 DEF AtWork, StagesFit, StageFits
<1> QED
  BY <1>4, <1>5, <1>6, NothingClaimed, NothingSaid DEF Done

LEMMA WorkOfErase ==
  ASSUME NEW r \in Request, AtWork(r), Erase(r)
  PROVE  Done(r)'
<1> DEFINE m == req[r].mem
<1>1. m \in Memory /\ req[r].stage = "erase"
  BY DEF Erase, AtWork, StagesFit, StageFits
<1>2. /\ rows' = [rows EXCEPT ![m] = NoRow] /\ fts' = [fts EXCEPT ![m] = None]
      /\ UNCHANGED <<segment, loaded, repair>>
  BY DEF Erase, ErasedFts
<1>3. /\ rows'[m] = NoRow /\ fts'[m] = None
      /\ \A n \in Memory : n # m => rows'[n] = rows[n] /\ fts'[n] = fts[n]
  BY <1>1, <1>2 DEF AtWork, TypeOK
<1>4. TablesFit'
  <2> SUFFICES ASSUME NEW n \in Memory
               PROVE  (rows'[n].indexed => Told(n)') /\ (rows'[n] = NoRow => fts'[n] = None)
    BY DEF TablesFit
  <2>1. CASE n = m
    BY <1>3, <2>1 DEF NoRow
  <2>2. CASE n # m
    BY <1>2, <1>3, <2>2 DEF AtWork, WorkInv, TablesFit, Told, FtsIn, VecIn
  <2> QED
    BY <2>1, <2>2
<1>5. req'[r].stage = "forget" /\ req'[r].mem = m
  BY DEF Erase, AtWork, TypeOK, Req
<1>6. WorkFits(r)'
  BY <1>3, <1>5 DEF WorkFits
<1>7. repair'[r].stage = "idle"
  BY <1>1, <1>2 DEF AtWork, StagesFit, StageFits
<1> QED
  BY <1>4, <1>6, <1>7, NothingSaid DEF Done

LEMMA WorkOfForget ==
  ASSUME NEW r \in Request, AtWork(r), Forget(r)
  PROVE  Done(r)'
<1>1. req[r].mem \in Memory /\ req[r].stage = "forget" /\ rows[req[r].mem] = NoRow
  BY DEF Forget, AtWork, StagesFit, StageFits, WorkInv, WorkFits
<1>2. UNCHANGED <<rows, fts, loaded, repair>> /\ segment' = Forgotten(req[r].vid)
  BY DEF Forget
<1>3. \A n \in Memory : rows[n] # NoRow => rows[n].vid \in Vid /\ rows[n].vid # req[r].vid
  BY <1>1 DEF AtWork, TypeOK, Row, VidsFit
<1>4. \A n \in Memory : rows[n] # NoRow => segment'[rows[n].vid] = segment[rows[n].vid]
  BY <1>2, <1>3 DEF Forgotten, AtWork, TypeOK
<1>5. TablesFit'
  BY <1>2, <1>4 DEF AtWork, WorkInv, TablesFit, Told, FtsIn, VecIn
<1>6. req'[r].stage = "done"
  BY DEF Forget, AtWork, TypeOK
<1>7. repair'[r].stage = "idle"
  BY <1>1, <1>2 DEF AtWork, StagesFit, StageFits
<1> QED
  BY <1>5, <1>6, <1>7, NothingClaimed, NothingSaid DEF Done

LEMMA WorkOfRead ==
  ASSUME NEW p \in Repairer, AtWork(p), RepairRead(p)
  PROVE  Done(p)'
<1>1. IndexUnchanged /\ repair[p].stage = "read"
  BY DEF RepairRead
<1>2. TablesFit'
  BY <1>1, TablesSame DEF AtWork, WorkInv
<1>3. CASE Wanted(p) = {}
  <2>1. repair'[p].stage = "idle"
    BY <1>3 DEF RepairRead, AtWork, TypeOK, IdleRepair
  <2>2. ASSUME p \in Request PROVE WorkFits(p)'
    <3>1. PICK m \in Memory : m = req[p].mem
      BY <1>1, <2>2 DEF AtWork, StagesFit, StageFits
    <3>2. req[p].stage = "repair" /\ rows[m] # NoRow /\ rows[m].text = req[p].text
      BY <1>1, <2>2, <3>1 DEF AtWork, StagesFit, StageFits, WorkInv, WorkFits
    <3>3. Told(m)
      BY <1>3, <2>2, <3>1, <3>2 DEF Wanted, AtWork, WorkInv, TablesFit
    <3>4. req'[p].stage = "repaired" /\ req'[p].mem = m /\ req'[p].text = req[p].text
      BY <1>3, <2>2, <3>1 DEF RepairRead, AtWork, TypeOK, Req
    <3>5. Told(m)' /\ rows' = rows
      BY <1>1, <3>3 DEF Told, FtsIn, VecIn, IndexUnchanged
    <3> QED
      BY <3>2, <3>4, <3>5 DEF WorkFits
  <2> QED
    BY <1>2, <2>1, <2>2, NothingSaid DEF Done
<1>4. CASE Wanted(p) # {}
  <2>1. req' = req
    BY <1>4 DEF RepairRead
  <2>2. ASSUME p \in Request PROVE WorkFits(p)'
    <3>1. /\ req[p].stage = "repair" /\ rows[req[p].mem] # NoRow /\ rows[req[p].mem].text = req[p].text
      BY <1>1, <2>2 DEF AtWork, StagesFit, StageFits, WorkInv, WorkFits
    <3> QED
      BY <1>1, <2>1, <3>1 DEF WorkFits, IndexUnchanged
  <2>3. repair'[p] = [stage |-> "fts",
                      saw |-> [m \in Memory |->
                        IF m \in Wanted(p) THEN [text |-> rows[m].text, vid |-> rows[m].vid]
                        ELSE NothingSeen]]
    BY <1>4 DEF RepairRead, AtWork, TypeOK
  <2>4. ASSUME NEW m \in Memory, repair'[p].saw[m].text # None
        PROVE  /\ rows[m] # NoRow
               /\ repair'[p].saw[m] = [text |-> rows[m].text, vid |-> rows[m].vid]
    <3>1. m \in Wanted(p)
      BY <2>3, <2>4 DEF NothingSeen
    <3> QED
      BY <2>3, <3>1 DEF Wanted
  <2>5. SawFits(p)'
    BY <1>1, <2>3, <2>4 DEF SawFits, IndexUnchanged
  <2> QED
    BY <1>2, <2>2, <2>5 DEF Done
<1> QED
  BY <1>3, <1>4

LEMMA WorkOfRepairFts ==
  ASSUME NEW p \in Repairer, AtWork(p), RepairFts(p)
  PROVE  Done(p)'
<1> DEFINE saw == repair[p].saw
<1>1. /\ repair[p].stage = "fts" /\ repair'[p].stage = "vec" /\ repair'[p].saw = saw
      /\ UNCHANGED <<rows, segment, loaded, req>>
  BY DEF RepairFts, AtWork, TypeOK, Repair
<1>2. \A m \in Memory : saw[m].text # None =>
        /\ rows[m] # NoRow /\ saw[m] = [text |-> rows[m].text, vid |-> rows[m].vid]
        /\ saw[m].text = rows[m].text
  BY <1>1 DEF AtWork, WorkInv, SawFits
<1>3. \A m \in Memory : fts'[m] = IF saw[m].text # None THEN rows[m].text ELSE fts[m]
  <2>1. ASSUME NEW m \in Memory PROVE fts'[m] = IF saw[m].text # None THEN saw[m].text ELSE fts[m]
    BY DEF RepairFts
  <2>2. \A m \in Memory : saw[m].text # None => saw[m].text = rows[m].text
    BY <1>2
  <2> QED
    BY <2>1, <2>2
<1> HIDE DEF saw
<1>4. TablesFit'
  BY <1>1, <1>2, <1>3, ZenonT(60) DEF AtWork, WorkInv, TablesFit, Told, FtsIn, VecIn
<1>5. SawFits(p)'
  BY <1>1, <1>2, <1>3 DEF SawFits, FtsIn, VecIn
<1>6. ASSUME p \in Request PROVE WorkFits(p)'
  <2>1. req[p].stage = "repair" /\ rows[req[p].mem] # NoRow /\ rows[req[p].mem].text = req[p].text
    BY <1>1, <1>6 DEF AtWork, StagesFit, StageFits, WorkInv, WorkFits
  <2> QED
    BY <1>1, <2>1 DEF WorkFits
<1> QED
  BY <1>4, <1>5, <1>6 DEF Done

LEMMA WorkOfRepairVector ==
  ASSUME NEW p \in Repairer, AtWork(p), RepairVector(p)
  PROVE  Done(p)'
<1> DEFINE saw == repair[p].saw
           at(v) == {saw[m].text : m \in {n \in Memory : saw[n].vid = v}} \ Unembedded
           new == [v \in Vid |-> IF at(v) = {} THEN None ELSE CHOOSE c \in at(v) : TRUE]
<1>1. /\ repair[p].stage = "vec" /\ repair'[p].stage = "finish" /\ repair'[p].saw = saw
      /\ UNCHANGED <<rows, fts, loaded, req>> /\ segment' = Upserted(new)
  BY DEF RepairVector, AtWork, TypeOK, Repair
<1>2. \A m \in Memory : saw[m].text # None =>
        /\ rows[m] # NoRow /\ saw[m] = [text |-> rows[m].text, vid |-> rows[m].vid]
        /\ saw[m].text = rows[m].text /\ saw[m].vid = rows[m].vid
        /\ FtsIn(m, rows[m].text)
  BY <1>1 DEF AtWork, WorkInv, SawFits
<1>3. ASSUME NEW n \in Memory, rows[n] # NoRow
      PROVE  /\ rows[n].vid \in Vid /\ rows[n].text # None
             /\ new[rows[n].vid] \in {None, rows[n].text}
             /\ saw[n].text # None /\ Embedded(rows[n].text) => new[rows[n].vid] = rows[n].text
  <2>1. rows[n].vid \in Vid /\ rows[n].text # None
    BY <1>3, Constants DEF AtWork, TypeOK, Row
  <2>2. \A m \in Memory : saw[m].vid = rows[n].vid => m = n
    BY <1>3 DEF AtWork, VidsFit
  <2>3. saw[n].text \in {None, rows[n].text}
    BY <1>2
  <2>4. at(rows[n].vid) \subseteq {None, rows[n].text}
    BY <2>2, <2>3
  <2>5. saw[n].text # None /\ Embedded(rows[n].text) => saw[n].text \in at(rows[n].vid)
    BY <1>2 DEF Embedded
  <2>6. saw[n].text # None => at(rows[n].vid) \subseteq {rows[n].text}
    BY <2>2, <2>3
  <2>7. at(rows[n].vid) # {} => (CHOOSE c \in at(rows[n].vid) : TRUE) \in at(rows[n].vid)
    OBVIOUS
  <2> HIDE DEF at, saw
  <2>8. new[rows[n].vid] = IF at(rows[n].vid) = {} THEN None ELSE CHOOSE c \in at(rows[n].vid) : TRUE
    BY <2>1
  <2>9. new[rows[n].vid] \in {None, rows[n].text}
    BY <2>4, <2>7, <2>8
  <2>10. ASSUME saw[n].text # None, Embedded(rows[n].text) PROVE new[rows[n].vid] = rows[n].text
    BY <2>5, <2>6, <2>7, <2>8, <2>10
  <2> QED
    BY <2>1, <2>9, <2>10
<1> HIDE DEF new, saw
<1>4. ASSUME NEW n \in Memory, rows[n] # NoRow
      PROVE  /\ VecIn(n, rows[n].text) => VecIn(n, rows[n].text)'
             /\ saw[n].text # None => VecIn(n, rows[n].text)'
  <2>1. segment'[rows[n].vid] = IF loaded /\ new[rows[n].vid] # None THEN new[rows[n].vid]
                                ELSE segment[rows[n].vid]
    BY <1>1, <1>3, <1>4 DEF Upserted
  <2> QED
    BY <1>1, <1>3, <1>4, <2>1, Zenon DEF VecIn
<1>5. TablesFit'
  BY <1>1, <1>4 DEF AtWork, WorkInv, TablesFit, Told, FtsIn, VecIn
<1>6. SawFits(p)'
  BY <1>1, <1>2, <1>4 DEF SawFits, FtsIn
<1>7. ASSUME p \in Request PROVE WorkFits(p)'
  <2>1. req[p].stage = "repair" /\ rows[req[p].mem] # NoRow /\ rows[req[p].mem].text = req[p].text
    BY <1>1, <1>7 DEF AtWork, StagesFit, StageFits, WorkInv, WorkFits
  <2> QED
    BY <1>1, <2>1 DEF WorkFits
<1> QED
  BY <1>5, <1>6, <1>7 DEF Done

LEMMA WorkOfFinish ==
  ASSUME NEW p \in Repairer, AtWork(p), RepairFinish(p)
  PROVE  Done(p)'
<1> DEFINE saw == repair[p].saw
<1>1. /\ repair[p].stage = "finish" /\ repair'[p].stage = "idle"
      /\ UNCHANGED <<fts, segment, loaded>>
  BY DEF RepairFinish, AtWork, TypeOK, IdleRepair
<1>2. \A m \in Memory : saw[m].text # None => rows[m] # NoRow /\ Told(m)
  BY <1>1 DEF AtWork, WorkInv, SawFits, Told
<1>3. ASSUME NEW n \in Memory
      PROVE  /\ rows'[n].text = rows[n].text /\ rows'[n].vid = rows[n].vid
             /\ rows'[n] = NoRow <=> rows[n] = NoRow
             /\ rows'[n].indexed => rows[n].indexed \/ saw[n].text # None
  <2>1. rows'[n] = Finished(rows[n], saw[n])
    BY DEF RepairFinish
  <2>2. CASE rows[n] = NoRow \/ saw[n].text = None
    BY <2>1, <2>2 DEF Finished
  <2>3. CASE rows[n] # NoRow /\ saw[n].text # None
    <3>1. rows[n] \in Row
      BY <2>3 DEF AtWork, TypeOK
    <3>2. rows'[n] = [rows[n] EXCEPT !.indexed = rows[n].text = saw[n].text]
      BY <2>1, <2>3 DEF Finished
    <3>3. rows'[n].text = rows[n].text /\ rows'[n].vid = rows[n].vid
      BY <3>1, <3>2 DEF Row
    <3>4. rows'[n] # NoRow
      BY <3>1, <3>3, Constants DEF Row, NoRow
    <3> QED
      BY <2>3, <3>3, <3>4
  <2> QED
    BY <2>2, <2>3
<1> HIDE DEF saw
<1>4. \A n \in Memory : Told(n) => Told(n)'
  BY <1>1, <1>3 DEF Told, FtsIn, VecIn
<1>5. TablesFit'
  BY <1>1, <1>2, <1>3, <1>4 DEF AtWork, WorkInv, TablesFit
<1>6. ASSUME p \in Request PROVE WorkFits(p)'
  <2>1. PICK m \in Memory : m = req[p].mem
    BY <1>1, <1>6 DEF AtWork, StagesFit, StageFits
  <2>2. req[p].stage = "repair" /\ saw[m].text # None /\ rows[m].text = req[p].text
    BY <1>1, <1>6, <2>1 DEF saw, AtWork, StagesFit, StageFits, WorkInv, WorkFits
  <2>3. req'[p].stage = "repaired" /\ req'[p].mem = m /\ req'[p].text = req[p].text
    BY <1>6, <2>1 DEF RepairFinish, AtWork, TypeOK, Req
  <2>4. rows'[m].text = req[p].text /\ rows'[m] # NoRow /\ Told(m)'
    BY <1>2, <1>3, <1>4, <2>2
  <2> QED
    BY <2>3, <2>4 DEF WorkFits
<1> QED
  BY <1>1, <1>5, <1>6, NothingSaid DEF Done

LEMMA WorkOfRepairFails ==
  ASSUME NEW p \in Repairer, AtWork(p), RepairFails(p)
  PROVE  Done(p)'
<1>1. IndexUnchanged /\ repair'[p].stage = "idle"
  BY DEF RepairFails, AtWork, TypeOK, IdleRepair
<1>2. TablesFit'
  BY <1>1, TablesSame DEF AtWork, WorkInv
<1>3. ASSUME p \in Request PROVE req'[p].stage = "failed"
  BY <1>3 DEF RepairFails, AtWork, TypeOK
<1> QED
  BY <1>1, <1>2, <1>3, NothingClaimed, NothingSaid DEF Done

\* A load brings the vector of every row.
LEMMA WorkOfLoad ==
  ASSUME TypeOK, StagesFit, VidsFit, WorkInv, Load
  PROVE  /\ TablesFit'
         /\ \A r \in Request : WorkFits(r)'
         /\ \A p \in Repairer : SawFits(p)'
<1>1. UNCHANGED <<rows, fts, req, repair>>
  BY DEF Load
<1>2. ASSUME NEW m \in Memory, rows[m] # NoRow PROVE VecIn(m, rows[m].text)'
  <2>1. rows[m].vid \in Vid
    BY <1>2 DEF TypeOK, Row
  <2>2. (CHOOSE n \in Memory : rows[n].vid = rows[m].vid) = m
    BY <1>2 DEF VidsFit
  <2>3. Embedded(rows[m].text) => segment'[rows[m].vid] = rows[m].text
    BY <2>1, <2>2 DEF Load
  <2> QED
    BY <1>1, <1>2, <2>3 DEF VecIn
<1>3. \A m \in Memory : rows[m].indexed => rows[m] # NoRow
  BY DEF NoRow
<1>4. TablesFit'
  BY <1>1, <1>2, <1>3 DEF WorkInv, TablesFit, Told, FtsIn
<1>5. ASSUME NEW r \in Request PROVE WorkFits(r)'
  <2>1. req[r].stage \in {"index", "repair", "repaired"} => req[r].mem \in Memory
    BY DEF StagesFit, StageFits
  <2>2. WorkFits(r) /\ (Working(r)' <=> Working(r))
    BY <1>1 DEF WorkInv, Working, TaskRunning
  <2> QED
    BY <1>1, <1>2, <2>1, <2>2 DEF WorkFits, Told, FtsIn
<1>6. \A p \in Repairer : SawFits(p)'
  BY <1>1, <1>2 DEF WorkInv, SawFits, FtsIn
<1> QED
  BY <1>4, <1>5, <1>6

\* After a crash nothing is loaded, so nothing is missing from the segment.
LEMMA WorkOfCrash ==
  ASSUME TypeOK, StagesFit, WorkInv, Crash
  PROVE  /\ TablesFit'
         /\ \A r \in Request : WorkFits(r)'
         /\ \A p \in Repairer : SawFits(p)'
<1>1. TablesFit'
  BY DEF Crash, WorkInv, TablesFit, Told, FtsIn, VecIn
<1> QED
  BY <1>1, NothingRuns, NothingSaid DEF WorkFits

\* What a step leaves alone stays true of the requests that do not work.
LEMMA OthersFit ==
  ASSUME NEW q \in Request, ~Working(q), req'[q] = req[q], repair'[q] = repair[q]
  PROVE  WorkFits(q)' /\ SawFits(q)'
<1>1. ~Working(q)' /\ repair'[q].stage = "idle"
  BY DEF Working, TaskRunning
<1> QED
  BY <1>1, NothingSaid DEF WorkFits

LEMMA WorkOfOne ==
  ASSUME NEW r \in Request, TypeOK, StagesFit, VidsFit, WorkInv, Send(r) \/ Acts(r) \/ Repairs(r)
  PROVE  Done(r)'
<1>1. r \in Repairer
  BY DEF Repairer
<1>2. Acts(r) \/ Repairs(r) => AtWork(r)
  BY WhoActsWorks DEF AtWork, WorkInv
<1>3. CASE Send(r) \/ Check(r) \/ TransactionFails(r) \/ LookUp(r)
  BY <1>3, WorkOfRequest
<1>4. CASE HangUp(r)
  BY <1>2, <1>4, WorkOfHangUp DEF Acts
<1>5. CASE IndexFails(r) \/ StartRepair(r)
  BY <1>2, <1>5, WorkOfFailing DEF Acts
<1>6. CASE Commit(r)
  BY <1>2, <1>6, WorkOfCommit DEF Acts
<1>7. CASE IndexFts(r)
  BY <1>2, <1>7, WorkOfFts DEF Acts
<1>8. CASE IndexVector(r)
  BY <1>2, <1>8, WorkOfVector DEF Acts
<1>9. CASE MarkIndexed(r)
  BY <1>2, <1>9, WorkOfMark DEF Acts
<1>10. CASE Erase(r)
  BY <1>2, <1>10, WorkOfErase DEF Acts
<1>11. CASE Forget(r)
  BY <1>2, <1>11, WorkOfForget DEF Acts
<1>12. CASE Repairs(r)
  BY <1>1, <1>2, <1>12, WorkOfRead, WorkOfRepairFts, WorkOfRepairVector, WorkOfFinish,
     WorkOfRepairFails DEF Repairs, RepairStep
<1> QED
  BY <1>3, <1>4, <1>5, <1>6, <1>7, <1>8, <1>9, <1>10, <1>11, <1>12 DEF Acts

LEMMA WorkStep ==
  ASSUME Sequential, TypeOK, StagesFit, VidsFit, WorkInv, [Next]_vars
  PROVE  WorkInv'
<1>a. Tick \notin Request /\ Tick \in Repairer /\ Repairer = Request \cup {Tick}
  BY Constants DEF Repairer
<1>b. OneWorks' /\ OneWorks
  BY OneWorksStep DEF WorkInv
<1>1. ASSUME NEW r \in Request, Send(r) \/ Acts(r) \/ Repairs(r) PROVE WorkInv'
  <2>1. /\ \A q \in Request \ {r} : req'[q] = req[q] /\ repair'[q] = repair[q]
        /\ repair'[Tick] = repair[Tick]
    BY <1>1, <1>a, OthersStay
  <2>2. (\A q \in Request \ {r} : ~Working(q)) /\ repair[Tick].stage = "idle"
    <3>1. CASE Send(r)
      BY <3>1 DEF Send, SendDelete, SendIngest, MaySend, Sequential
    <3>2. CASE Acts(r) \/ Repairs(r)
      BY <1>b, <3>2, WhoActsWorks DEF OneWorks
    <3> QED
      BY <1>1, <3>1, <3>2
  <2>3. \A q \in Request \ {r} : WorkFits(q)' /\ SawFits(q)'
    BY <2>1, <2>2, OthersFit
  <2>4. SawFits(Tick)'
    BY <1>a, <2>1, <2>2, NothingSaid
  <2>5. TablesFit' /\ SawFits(r)' /\ WorkFits(r)'
    BY <1>1, WorkOfOne DEF Done
  <2> QED
    BY <1>a, <1>b, <2>3, <2>4, <2>5 DEF WorkInv
<1>2. CASE StartTick
  <2>1. /\ req' = req /\ (\A r \in Request : ~Working(r)) /\ \A r \in Request : repair'[r] = repair[r]
        /\ IndexUnchanged /\ repair'[Tick].stage = "read"
    BY <1>2, <1>a DEF StartTick, Sequential, TypeOK, Repair
  <2>2. \A r \in Request : WorkFits(r)' /\ SawFits(r)'
    BY <2>1, OthersFit
  <2>3. SawFits(Tick)'
    BY <1>a, <2>1, NothingSaid
  <2>4. TablesFit'
    BY <2>1, TablesSame DEF WorkInv
  <2> QED
    BY <1>a, <1>b, <2>2, <2>3, <2>4 DEF WorkInv
<1>3. CASE Repairs(Tick)
  <2>1. /\ req' = req /\ \A r \in Request : repair'[r] = repair[r]
        /\ \A r \in Request : ~Working(r)
    BY <1>3, <1>b, TickStays DEF OneWorks
  <2>2. \A r \in Request : WorkFits(r)' /\ SawFits(r)'
    BY <2>1, OthersFit
  <2>3. AtWork(Tick)
    BY <1>a DEF AtWork
  <2>4. Done(Tick)'
    BY <1>3, <1>a, <2>3, WorkOfRead, WorkOfRepairFts, WorkOfRepairVector, WorkOfFinish,
       WorkOfRepairFails DEF Repairs, RepairStep
  <2> QED
    BY <1>a, <1>b, <2>2, <2>4 DEF WorkInv, Done
<1>4. CASE Load
  BY <1>4, <1>b, WorkOfLoad DEF WorkInv
<1>5. CASE Crash
  BY <1>5, <1>b, WorkOfCrash DEF WorkInv
<1>6. CASE UNCHANGED vars
  <2>1. UNCHANGED <<rows, fts, segment, loaded, req, repair>>
    BY <1>6 DEF vars
  <2>2. \A r \in Request : WorkFits(r)'
    BY <2>1 DEF WorkInv, WorkFits, Working, TaskRunning, Told, FtsIn, VecIn
  <2>3. TablesFit' /\ \A p \in Repairer : SawFits(p)'
    BY <2>1 DEF WorkInv, SawFits, TablesFit, Told, FtsIn, VecIn
  <2> QED
    BY <1>b, <2>2, <2>3 DEF WorkInv
<1> QED
  BY <1>1, <1>2, <1>3, <1>4, <1>5, <1>6, <1>a DEF Next, Acts, Repairs

LEMMA WorkStart == ASSUME Init PROVE WorkInv
<1>1. \A r \in Request : ~Working(r) /\ req[r].stage = "idle"
  BY DEF Init, NewReq, IdleRepair, Working, TaskRunning, Repairer
<1>2. \A p \in Repairer : repair[p].stage = "idle"
  BY DEF Init, IdleRepair
<1>3. OneWorks
  BY <1>1, <1>2, Constants DEF OneWorks, Repairer
<1>4. TablesFit
  BY DEF Init, TablesFit, NoRow
<1> QED
  BY <1>1, <1>2, <1>3, <1>4 DEF WorkInv, WorkFits, SawFits

\* Where it holds, the flag tells the truth and no text is left over.
LEMMA WorkShows ==
  ASSUME TypeOK, WorkInv
  PROVE  IndexedIsSearchable /\ NoOrphanText
<1>1. ASSUME NEW m \in Memory, rows[m].indexed PROVE Searchable(m, rows[m].text)
  BY <1>1 DEF WorkInv, TablesFit, Told, FtsIn, VecIn, Searchable
<1> QED
  BY <1>1 DEF IndexedIsSearchable, NoOrphanText, WorkInv, TablesFit

-----------------------------------------------------------------------------
(* The segment, where every text has its vector.                           *)

\* A vector is a row's, or one that a deletion has still to forget.
Owned(v) ==
  \/ \E m \in Memory : rows[m] # NoRow /\ rows[m].vid = v
  \/ \E r \in Request : req[r].stage = "forget" /\ req[r].vid = v

\* New vectors are those of rows, and what is owned stays so.
LEMMA OwnersStay ==
  ASSUME SegmentFits,
         \A v \in Vid : segment'[v] # None =>
           segment[v] # None \/ \E m \in Memory : rows[m] # NoRow /\ rows[m].vid = v,
         \A m \in Memory : rows[m] # NoRow => rows'[m] # NoRow /\ rows'[m].vid = rows[m].vid,
         \A r \in Request : req[r].stage = "forget" =>
           req'[r].stage = "forget" /\ req'[r].vid = req[r].vid
  PROVE  SegmentFits'
<1>1. ASSUME NEW v \in Vid, segment'[v] # None PROVE Owned(v)
  BY <1>1 DEF SegmentFits, Owned
<1>2. ASSUME NEW v \in Vid, Owned(v) PROVE Owned(v)'
  BY <1>2 DEF Owned
<1> QED
  BY <1>1, <1>2 DEF SegmentFits, Owned

\* What request r does next to the others, who are not at it.
LEMMA ForgetStays ==
  ASSUME TypeOK, NEW r \in Request, Send(r) \/ Acts(r) \/ Repairs(r), req[r].stage # "forget",
         NEW q \in Request, req[q].stage = "forget"
  PROVE  req'[q].stage = "forget" /\ req'[q].vid = req[q].vid
BY OthersStay

\* The steps of a request that leave the segment alone, and every row's vid.
LEMMA SegmentOfQuiet ==
  ASSUME NEW r \in Request, TypeOK, StagesFit, SegmentFits,
         \/ Send(r) \/ HangUp(r) \/ Check(r) \/ TransactionFails(r) \/ IndexFts(r) \/ IndexFails(r)
         \/ StartRepair(r) \/ LookUp(r) \/ Commit(r) \/ MarkIndexed(r)
  PROVE  SegmentFits'
<1>1. StageFits(r)
  BY DEF StagesFit
<1>2. CASE Send(r) \/ Check(r) \/ TransactionFails(r) \/ LookUp(r)
  <2>1. UNCHANGED <<segment, rows>> /\ req[r].stage # "forget"
    <3>1. ASSUME NEW m \in Memory, SendDelete(r, m) \/ \E c \in Text : SendIngest(r, m, c)
          PROVE  IndexUnchanged /\ req[r].stage # "forget"
      BY <3>1 DEF SendDelete, SendIngest, MaySend
    <3>2. CASE Send(r)
      BY <3>1, <3>2 DEF Send, IndexUnchanged
    <3>3. CASE Check(r) \/ TransactionFails(r) \/ LookUp(r)
      BY <3>3 DEF Check, TransactionFails, LookUp, IndexDone, IndexUnchanged
    <3> QED
      BY <1>2, <3>2, <3>3
  <2>2. \A q \in Request : req[q].stage = "forget" => req'[q].stage = "forget" /\ req'[q].vid = req[q].vid
    BY <1>2, <2>1, ForgetStays DEF Acts
  <2> QED
    BY <2>1, <2>2, OwnersStay
<1>3. CASE HangUp(r) \/ IndexFts(r) \/ IndexFails(r) \/ StartRepair(r)
  <2>1. UNCHANGED <<segment, rows>> /\ req[r].stage # "forget"
    <3>1. CASE HangUp(r)
      BY <3>1 DEF HangUp, HangUpBefore, HangUpDuring, NotSpawned, IndexUnchanged
    <3>2. CASE IndexFts(r) \/ IndexFails(r) \/ StartRepair(r)
      BY <1>1, <3>2 DEF IndexFts, IndexFails, StartRepair, IndexUnchanged, StageFits, TaskRunning
    <3> QED
      BY <1>3, <3>1, <3>2
  <2>2. \A q \in Request : req[q].stage = "forget" => req'[q].stage = "forget" /\ req'[q].vid = req[q].vid
    BY <1>3, <2>1, ForgetStays DEF Acts
  <2> QED
    BY <2>1, <2>2, OwnersStay
<1>4. CASE Commit(r) \/ MarkIndexed(r)
  <2>1. segment' = segment /\ req[r].stage # "forget" /\ req[r].mem \in Memory
    BY <1>1, <1>4 DEF Commit, MarkIndexed, IndexDone, StageFits
  <2>2. \A q \in Request : req[q].stage = "forget" => req'[q].stage = "forget" /\ req'[q].vid = req[q].vid
    BY <1>4, <2>1, ForgetStays DEF Acts
  <2>3. ASSUME NEW m \in Memory, rows[m] # NoRow PROVE rows'[m] # NoRow /\ rows'[m].vid = rows[m].vid
    <3>1. CASE Commit(r)
      <4>1. rows' = [rows EXCEPT ![req[r].mem] = CommittedRow(req[r].mem, req[r].text)]
            /\ req[r].text \in Text /\ None \notin Text
        BY <1>1, <3>1, Constants DEF Commit, StageFits
      <4> QED
        BY <2>1, <2>3, <4>1 DEF TypeOK, CommittedRow, NoRow
    <3>2. CASE MarkIndexed(r)
      BY <2>1, <2>3, <3>2, Constants DEF MarkIndexed, TypeOK, Row, NoRow
    <3> QED
      BY <1>4, <3>1, <3>2
  <2> QED
    BY <2>1, <2>2, <2>3, OwnersStay
<1> QED
  BY <1>2, <1>3, <1>4

\* A deletion takes the row, and keeps its vector id until it is forgotten.
LEMMA SegmentOfDelete ==
  ASSUME NEW r \in Request, Unembedded = {}, TypeOK, StagesFit, SegmentFits, Erase(r) \/ Forget(r)
  PROVE  SegmentFits'
<1>1. req[r].mem \in Memory /\ req[r].stage \in {"erase", "forget"}
  BY DEF Erase, Forget, StagesFit, StageFits
<1>2. \A q \in Request : q # r => req'[q] = req[q]
  BY OthersStay DEF Acts
<1>3. CASE Erase(r)
  <2>1. /\ segment' = segment /\ rows' = [rows EXCEPT ![req[r].mem] = NoRow]
        /\ req[r].stage = "erase"
    BY <1>3 DEF Erase
  <2>2. /\ req'[r].stage = "forget"
        /\ rows[req[r].mem] # NoRow => req'[r].vid = rows[req[r].mem].vid
    BY <1>3 DEF Erase, TypeOK, Req, Embedded
  <2>3. ASSUME NEW v \in Vid, Owned(v) PROVE Owned(v)'
    <3>1. CASE \E m \in Memory : rows[m] # NoRow /\ rows[m].vid = v
      <4>1. PICK m \in Memory : rows[m] # NoRow /\ rows[m].vid = v
        BY <3>1
      <4>2. CASE m = req[r].mem
        BY <2>2, <4>1, <4>2 DEF Owned
      <4>3. CASE m # req[r].mem
        <5>1. rows'[m] = rows[m]
          BY <2>1, <4>3 DEF TypeOK
        <5> QED
          BY <4>1, <5>1 DEF Owned
      <4> QED
        BY <4>2, <4>3
    <3>2. CASE \E q \in Request : req[q].stage = "forget" /\ req[q].vid = v
      BY <1>2, <2>1, <3>2 DEF Owned
    <3> QED
      BY <2>3, <3>1, <3>2 DEF Owned
  <2> QED
    BY <2>1, <2>3 DEF SegmentFits, Owned
<1>4. CASE Forget(r)
  <2>1. segment' = Forgotten(req[r].vid) /\ rows' = rows
    BY <1>4 DEF Forget
  <2>2. ASSUME NEW v \in Vid, segment'[v] # None PROVE segment[v] # None /\ v # req[r].vid
    <3>1. CASE req[r].vid = NoVid
      BY <2>1, <2>2, <3>1, Bounds DEF Forgotten, NoVid, Vid
    <3>2. CASE req[r].vid # NoVid
      BY <2>1, <2>2, <3>2 DEF Forgotten, TypeOK
    <3> QED
      BY <3>1, <3>2
  <2>3. ASSUME NEW v \in Vid, Owned(v), v # req[r].vid PROVE Owned(v)'
    BY <1>2, <2>1, <2>3 DEF Owned
  <2> QED
    BY <2>2, <2>3 DEF SegmentFits, Owned
<1> QED
  BY <1>3, <1>4

\* What is upserted is the vector of a row.
LEMMA SegmentOfUpsert ==
  ASSUME NEW r \in Request, TypeOK, StagesFit, WorkInv, SegmentFits, IndexVector(r)
  PROVE  SegmentFits'
<1>1. /\ req[r].stage = "index" /\ req[r].mem \in Memory /\ Working(r)
      /\ rows[req[r].mem] # NoRow /\ rows[req[r].mem].vid = req[r].vid
  BY DEF IndexVector, StagesFit, StageFits, TaskRunning, WorkInv, WorkFits, Working
<1>2. rows' = rows
  BY DEF IndexVector
<1>3. \A v \in Vid : segment'[v] # None =>
        segment[v] # None \/ \E m \in Memory : rows[m] # NoRow /\ rows[m].vid = v
  BY <1>1 DEF IndexVector, Upserted
<1>4. \A q \in Request : req[q].stage = "forget" => req'[q].stage = "forget" /\ req'[q].vid = req[q].vid
  BY <1>1, ForgetStays DEF Acts
<1> QED
  BY <1>2, <1>3, <1>4, OwnersStay

LEMMA SegmentOfRepair ==
  ASSUME NEW p \in Repairer, TypeOK, StagesFit, WorkInv, SegmentFits, Repairs(p)
  PROVE  SegmentFits'
<1>1. \A q \in Request : req[q].stage = "forget" => req'[q].stage = "forget" /\ req'[q].vid = req[q].vid
  <2>1. CASE p \in Request
    <3>1. repair[p].stage # "idle"
      BY DEF Repairs, RepairStep, RepairRead, RepairFts, RepairVector, RepairFinish, RepairFails
    <3>2. req[p].stage = "repair"
      BY <2>1, <3>1 DEF StagesFit, StageFits
    <3> QED
      BY <2>1, <3>2, ForgetStays
  <2>2. CASE p = Tick
    BY <2>2, TickStays
  <2> QED
    BY <2>1, <2>2 DEF Repairer
<1>2. CASE RepairVector(p)
  <2>1. rows' = rows
    BY <1>2 DEF RepairVector
  <2>2. ASSUME NEW v \in Vid, segment'[v] # None, segment[v] = None
        PROVE  \E m \in Memory : rows[m] # NoRow /\ rows[m].vid = v
    <3>1. PICK m \in Memory : repair[p].saw[m].vid = v /\ repair[p].saw[m].text # None
      <4> DEFINE at == {repair[p].saw[m].text : m \in {n \in Memory : repair[p].saw[n].vid = v}} \ Unembedded
      <4>1. segment'[v] = IF loaded /\ (IF at = {} THEN None ELSE CHOOSE c \in at : TRUE) # None
                          THEN (IF at = {} THEN None ELSE CHOOSE c \in at : TRUE) ELSE segment[v]
        BY <1>2 DEF RepairVector, Upserted
      <4>2. at # {} /\ (CHOOSE c \in at : TRUE) # None
        BY <2>2, <4>1
      <4>3. (CHOOSE c \in at : TRUE) \in at
        BY <4>2
      <4>4. PICK c \in at : c # None
        BY <4>2, <4>3
      <4> QED
        BY <4>4
    <3>2. repair[p].stage = "vec"
      BY <1>2 DEF RepairVector
    <3>3. rows[m] # NoRow /\ repair[p].saw[m] = [text |-> rows[m].text, vid |-> rows[m].vid]
      BY <3>1, <3>2 DEF WorkInv, SawFits
    <3> QED
      BY <3>1, <3>3
  <2> QED
    BY <1>1, <2>1, <2>2, OwnersStay
<1>3. CASE RepairRead(p) \/ RepairFts(p) \/ RepairFails(p)
  <2>1. UNCHANGED <<rows, segment>>
    BY <1>3 DEF RepairRead, RepairFts, RepairFails, IndexUnchanged
  <2> QED
    BY <1>1, <2>1, OwnersStay
<1>4. CASE RepairFinish(p)
  <2>1. segment' = segment /\ \A m \in Memory : rows'[m] = Finished(rows[m], repair[p].saw[m])
    BY <1>4 DEF RepairFinish
  <2>2. ASSUME NEW m \in Memory, rows[m] # NoRow PROVE rows'[m] # NoRow /\ rows'[m].vid = rows[m].vid
    <3>1. rows[m] \in Row
      BY <2>2 DEF TypeOK
    <3>2. rows'[m].text = rows[m].text /\ rows'[m].vid = rows[m].vid
      BY <2>1, <3>1 DEF Finished, Row
    <3> QED
      BY <3>1, <3>2, Constants DEF Row, NoRow
  <2> QED
    BY <1>1, <2>1, <2>2, OwnersStay
<1> QED
  BY <1>2, <1>3, <1>4 DEF Repairs, RepairStep

LEMMA SegmentStep ==
  ASSUME Unembedded = {}, TypeOK, StagesFit, WorkInv, SegmentFits, [Next]_vars
  PROVE  SegmentFits'
<1>1. ASSUME NEW r \in Request, Send(r) \/ Acts(r) PROVE SegmentFits'
  BY <1>1, SegmentOfQuiet, SegmentOfDelete, SegmentOfUpsert DEF Acts
<1>2. ASSUME NEW p \in Repairer, Repairs(p) PROVE SegmentFits'
  BY <1>2, SegmentOfRepair
<1>3. CASE StartTick \/ UNCHANGED vars
  <2>1. UNCHANGED <<rows, segment, req>>
    BY <1>3 DEF StartTick, IndexUnchanged, vars
  <2> QED
    BY <2>1 DEF SegmentFits
<1>4. CASE Load
  <2>1. UNCHANGED <<rows, req>>
    BY <1>4 DEF Load
  <2>2. ASSUME NEW v \in Vid, segment'[v] # None PROVE \E m \in Memory : rows[m] # NoRow /\ rows[m].vid = v
    <3>1. PICK m \in Memory : rows[m].vid = v
      BY <1>4, <2>2 DEF Load
    <3>2. rows[m] # NoRow
      BY <3>1, Bounds DEF NoRow, NoVid, Vid
    <3> QED
      BY <3>1, <3>2
  <2> QED
    BY <2>1, <2>2 DEF SegmentFits
<1>5. CASE Crash
  BY <1>5 DEF Crash, SegmentFits
<1> QED
  BY <1>1, <1>2, <1>3, <1>4, <1>5 DEF Next, Acts, Repairs

LEMMA SegmentStart == ASSUME Init PROVE SegmentFits
BY DEF Init, SegmentFits

LEMMA SegmentShows ==
  ASSUME Unembedded = {}, TypeOK, WorkInv, SegmentFits
  PROVE  SegmentMirrorsLookup
<1> SUFFICES ASSUME Quiet, NEW v \in Vid, segment[v] # None
             PROVE  \E m \in Memory : /\ rows[m].vid = v
                                      /\ Embedded(rows[m].text)
                                      /\ rows[m].indexed => rows[m].text = segment[v]
  BY DEF SegmentMirrorsLookup
<1>1. \A r \in Request : req[r].stage # "forget"
  BY DEF Quiet, Working
<1>2. PICK m \in Memory : rows[m] # NoRow /\ rows[m].vid = v
  BY <1>1 DEF SegmentFits
<1>3. loaded
  BY DEF TypeOK
<1>4. rows[m].indexed => rows[m].text = segment[v]
  BY <1>2, <1>3 DEF WorkInv, TablesFit, Told, VecIn, Embedded
<1> QED
  BY <1>2, <1>4 DEF Embedded

-----------------------------------------------------------------------------

\* Where requests and ticks follow each other, the indexed flag of every memory
\* tells the truth, and no deleted memory leaves its text behind: whatever is
\* updated and deleted, fails or crashes, and however clients hang up.
THEOREM SequentialIndexAlways ==
  ASSUME Sequential
  PROVE  Spec => [](IndexedIsSearchable /\ NoOrphanText)
<1> DEFINE I == IndexInv /\ WorkInv
<1>1. Init => I
  BY InitInv, WorkStart
<1>2. I /\ [Next]_vars => I'
  BY NextInv, WorkStep DEF IndexInv
<1>3. I => IndexedIsSearchable /\ NoOrphanText
  BY WorkShows DEF IndexInv
<1> QED
  BY <1>1, <1>2, <1>3, PTL DEF Spec

\* And where every text has its vector, the segment holds nothing but the
\* vectors of rows: load_segment and insert_batch put in no others, and a
\* deletion forgets the one its transaction found.
THEOREM SegmentMirrorsAlways ==
  ASSUME Sequential, Unembedded = {}
  PROVE  Spec => []SegmentMirrorsLookup
<1> DEFINE I == IndexInv /\ WorkInv /\ SegmentFits
<1>1. Init => I
  BY InitInv, WorkStart, SegmentStart
<1>2. I /\ [Next]_vars => I'
  BY NextInv, WorkStep, SegmentStep DEF IndexInv
<1>3. I => SegmentMirrorsLookup
  BY SegmentShows DEF IndexInv
<1> QED
  BY <1>1, <1>2, <1>3, PTL DEF Spec

=============================================================================
