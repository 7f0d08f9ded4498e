--------------------------- MODULE MCMaintenance ---------------------------
(* What comes in and what goes, on small instances: the batch on its way to  *)
(* the tables and the deletion of what it stored, the core profile of an     *)
(* entity with its queue, and the expiry of memories with the router that    *)
(* quotes them.  They share no state here: one of them moves.                *)
EXTENDS Retention

CONSTANTS
  \* the profile
  Entry,       \* its memories
  Places,      \* the facts it has room for
  Worker, Tick, Blank, Said, MaxTime, MaxIngest, MaxError, MaxCrash, DeletesOverlap,
  \* the batch
  Messages, InSession, MayDeleteSplit,
  Parts  \* the parts that may move

VARIABLES
  stored, queue, profile, proc, ingests, errors, crashes,
  memories, fts, cards, facts, metrics, links, known, last,
  part   \* the part that moves

consolidation == <<stored, queue, profile, proc, ingests, errors, crashes>>
batch == <<memories, fts, cards, facts, metrics, links, known, last>>
allvars == <<vars, consolidation, batch, part>>

-----------------------------------------------------------------------------
(* Expiry: a conversation with a lesson and a fact derived from it, and a    *)
(* memory that is inferred.                                                  *)

Inferred == [Plain EXCEPT !.kind = "lesson", !.inferred = TRUE]
Stated == [Plain EXCEPT !.kind = "fact"]

MCSource == {1, 3}
MCDerived == [m \in 1..3 |-> IF m = 1 THEN {2} ELSE {}]
MCSays ==
  [m \in 1..3 |->
     CASE m = 1 -> {[signals |-> Plain, quote |-> [parts |-> {"walk"}, focus |-> "trip"]]}
       [] m = 2 -> {[signals |-> x, quote |-> [parts |-> {"walk", "shoes"}, focus |-> "none"]] :
                      x \in {Inferred, Stated}}
       [] m = 3 -> {[signals |-> Inferred, quote |-> [parts |-> P, focus |-> "home"]] : P \in {{"shoes"}, {}}}]

-----------------------------------------------------------------------------
(* The profile: more memories than it has places.                            *)

C == INSTANCE Consolidation WITH
  Memory <- Entry, Text <- Said, MaxFacts <- Places, MaxFail <- MaxError,
  MayUpdate <- FALSE, MayDelete <- TRUE, fails <- errors

ASSUME ProfileAssumption == C!Parameters

-----------------------------------------------------------------------------
(* The batch: a long text of two pieces, one of one piece, and a fact, with  *)
(* facts among what is derived that say what others say.                     *)

Sentences ==
  {[text |-> "long", kind |-> "conversational"], [text |-> "walk", kind |-> "conversational"],
   [text |-> "likes tea", kind |-> "fact"]}
PiecesOf ==
  [t \in {"long", "walk", "likes tea"} |-> IF t = "long" THEN <<"drank tea", "ran 5 km">> ELSE <<t>>]
MinedOf ==
  LET mined(of, n, text) == [of |-> of, n |-> n, text |-> text]
  IN  [t \in {"drank tea", "ran 5 km", "walk", "likes tea"} |->
         CASE t = "drank tea" -> <<mined("gist", 0, "gist tea"), mined("kw", 0, "tea"),
                                   mined("fact", 0, "maybe"), mined("fact", 1, "drinks tea")>>
           [] t = "ran 5 km" -> <<mined("liking", 0, "likes running"), mined("event", 0, "run"),
                                  mined("rel", 0, "relation run")>>
           [] t = "walk" -> <<mined("fact", 0, "drinks green tea"), mined("card", 0, "walks")>>
           [] t = "likes tea" -> <<>>]
Vectors ==
  {"likes tea", "drinks tea", "drinks green tea", "walks", "maybe", "likes running", "run",
   "gist tea", "long", "walk", "drank tea", "ran 5 km"}
Near == {{"drinks tea", "drinks green tea"}, {"likes tea", "drinks tea"}}

B == INSTANCE BatchPreparation WITH
  Source <- Messages, Sayable <- Sentences, Pieces <- PiecesOf, Mined <- MinedOf,
  Similar <- {p \in Vectors \X Vectors : p[1] = p[2] \/ {p[1], p[2]} \in Near},
  FirstTurn <- {0}, Slight <- {"maybe"}, Keyed <- {"likes tea", "drinks tea"},
  Numbers <- {"long"}, Disabled <- {}, MayUpdate <- FALSE

-----------------------------------------------------------------------------

MCInit == Init /\ C!Init /\ B!Init /\ part \in Parts

OfExpiry(A) == part = "expiry" /\ A /\ UNCHANGED <<consolidation, batch, part>>
OfProfile(A) == part = "profile" /\ A /\ UNCHANGED <<vars, batch, part>>
OfBatch(A) == part = "batch" /\ A /\ UNCHANGED <<vars, consolidation, part>>

MCNext == OfExpiry(Next) \/ OfProfile(C!Next) \/ OfBatch(B!Next)

\* The fairness of the parts.
MCSpec ==
  /\ MCInit /\ [][MCNext]_allvars
  /\ WF_allvars(OfExpiry(StartTick \/ PurgeList \/ PurgeOne))
  /\ WF_allvars(OfExpiry(Repair))
  /\ WF_allvars(OfProfile(C!StartTick))
  /\ WF_allvars(OfProfile(C!Step(Tick)))

-----------------------------------------------------------------------------

\* The variables of the parts have their types.
Types == TypeOK /\ C!TypeOK

\* The profile quotes no memory that is gone, and lists each once, newest
\* first, though a task may be done by its worker and by the tick, or again
\* after a crash.
ProfileOfStored == C!ProfileOfStored /\ C!ListedOnce

\* A stored fact is in the queue, in the profile, or older than all the
\* profile has room for, after every error and crash.
NoFactLost == C!NoFactLost

\* The router quotes what is stored, all of it and nothing else, in the record
\* and in both of its full-text documents.
RouterOfTheStored == RouterOfStored /\ RouterDocsAgree

\* Every task of the queue is done in the end, and what has expired is erased,
\* whatever the limit, errors and crashes.
WorkIsDone == C!Drained /\ ErasedAtLast

\* The vectors of a batch belong to their texts, and what is deleted leaves
\* nothing in any table.
BatchIsSound == B!VectorsOfOwnText /\ B!DeletedIsGone

\* A client's deletion leaves nothing in any table: no chunk, no derived
\* record, no card, no link, no version, no number.
DeletedIsGone == B!DeletedIsGone

\* What a request was answered for is stored, unless it is a fact that the
\* entity has a record of.
SaidIsKept == B!SaidIsKept

=============================================================================
