--------------------------- MODULE MemoryLinksProofs ---------------------------
(* Links between memories, for any memories, searches and scores: a link has  *)
(* its way back, leads to something earlier, and has both its ends unless one *)
(* was deleted while its request was under way.                               *)
EXTENDS MemoryLinks, TLAPS

\* What a request holds is no more than what it has seen or brings: a hit was
\* stored when it was looked up, and has been deleted since or is stored still.
Seen == stored \cup meanwhile

LinkOf(l, ends, all) ==
  /\ [from |-> l.to, to |-> l.from, kind |-> l.kind, back |-> ~l.back] \in all
  /\ l.back \in BOOLEAN
  /\ ~l.back => l.from # l.to /\ (l.kind # "derived" => Time[l.to] < Time[l.from])
  /\ {l.from, l.to} \subseteq ends

RequestOK ==
  /\ request = [pc |-> request.pc, batch |-> request.batch, of |-> request.of,
                found |-> request.found, hits |-> request.hits, links |-> request.links]
  /\ request.batch \subseteq Memory /\ request.of \subseteq request.batch
  /\ \A m \in request.batch : Parent[m] \in request.batch
  /\ request.pc \in {"texts found", "vector", "vectors found", "name"} => request.of # {}
  /\ \A m \in Memory : m \notin Seen => request.hits[m] = 0
  /\ \A l \in request.links : LinkOf(l, Seen \cup request.batch, request.links)

LinksInv == RequestOK /\ \A l \in links : LinkOf(l, stored \cup excused, links)

-----------------------------------------------------------------------------

\* A link and its way back are one another's.
LEMMA BothWays ==
  ASSUME NEW a, NEW b, NEW kind, NEW ends, NEW all, Both(a, b, kind) \subseteq all,
         a \in ends, b \in ends, a # b, kind # "derived" => Time[b] < Time[a],
         NEW l \in Both(a, b, kind)
  PROVE  LinkOf(l, ends, all)
<1> DEFINE there == [from |-> a, to |-> b, kind |-> kind, back |-> FALSE]
           home == [from |-> b, to |-> a, kind |-> kind, back |-> TRUE]
<1>1. Both(a, b, kind) = {there, home}
  BY DEF Both
<1>2. CASE l = there
  <2>1. [from |-> l.to, to |-> l.from, kind |-> l.kind, back |-> ~l.back] = home
    BY <1>2
  <2> QED
    BY <1>1, <1>2, <2>1 DEF LinkOf
<1>3. CASE l = home
  <2>1. [from |-> l.to, to |-> l.from, kind |-> l.kind, back |-> ~l.back] = there
    BY <1>3
  <2> QED
    BY <1>1, <1>3, <2>1 DEF LinkOf
<1> QED
  BY <1>1, <1>2, <1>3

\* More ends and more links leave a link what it is.
LEMMA LinkOfMore ==
  ASSUME NEW l, NEW ends, NEW all, LinkOf(l, ends, all),
         NEW ends2, NEW all2, ends \subseteq ends2, all \subseteq all2
  PROVE  LinkOf(l, ends2, all2)
BY DEF LinkOf

\* Of the targets it is known that they were seen and are earlier.
LEMMA TargetsSeen ==
  ASSUME RequestOK, NEW m \in Targets
  PROVE  m \in Memory /\ m \in Seen /\ Time[m] < Time[Current]
<1>1. m \in Memory /\ request.hits[m] > 0 /\ Time[m] < Time[Current]
  BY DEF Targets
<1>2. CASE request.hits[m] = 0
  BY <1>1, <1>2
<1> QED
  BY <1>1, <1>2 DEF RequestOK

LEMMA CurrentLeft == ASSUME request.of # {} PROVE Current \in request.of
BY DEF Current

LEMMA LinksInit == ASSUME Init PROVE LinksInv
BY DEF Init, LinksInv, RequestOK, Idle


\* The links to the source, which comes with what is derived from it.
LEMMA PrepareKeeps ==
  ASSUME Families, LinksInv, NEW m \in Memory, Parent[m] = m, NEW rest \in SUBSET Memory,
         \A d \in rest : Parent[d] = m, Prepare(rest \cup {m})
  PROVE  LinksInv'
<1> DEFINE batch == rest \cup {m}
           derived == {d \in batch : Parent[d] # d}
           new == UNION {Both(d, Parent[d], "derived") : d \in derived}
<1>1. request' = [pc |-> "text", batch |-> batch, of |-> batch \cap Recalls, found |-> <<>>,
                  hits |-> [n \in Memory |-> 0], links |-> new]
  BY DEF Prepare, Idle
<1>2. UNCHANGED <<stored, links, excused>>
  BY DEF Prepare
<1>3. \A l \in new : LinkOf(l, Seen' \cup batch, new)
  <2> SUFFICES ASSUME NEW l \in new PROVE LinkOf(l, Seen' \cup batch, new)
    OBVIOUS
  <2>1. PICK d \in derived : l \in Both(d, Parent[d], "derived")
    OBVIOUS
  <2>2. Both(d, Parent[d], "derived") \subseteq new
    OBVIOUS
  <2>3. d \in batch /\ Parent[d] \in batch /\ d # Parent[d]
    OBVIOUS
  <2> HIDE DEF new, batch, derived
  <2> QED
    BY <2>1, <2>2, <2>3, BothWays
<1>4. RequestOK'
  <2> HIDE DEF new
  <2> QED
    BY <1>1, <1>3 DEF RequestOK
<1> QED
  BY <1>2, <1>4 DEF LinksInv

\* A search and a lookup change no link and count nothing unseen.
LEMMA FoundKeeps ==
  ASSUME LinksInv, NEW pc, NEW found, request.of # {},
         request' = [request EXCEPT !.pc = pc, !.found = found],
         UNCHANGED <<stored, links, deletes, marks>>
  PROVE  LinksInv'
<1>1. request' = [pc |-> pc, batch |-> request.batch, of |-> request.of,
                  found |-> found, hits |-> request.hits, links |-> request.links]
  BY DEF LinksInv, RequestOK
<1>2. UNCHANGED <<stored, meanwhile, excused, links>>
  BY DEF marks
<1>3. RequestOK'
  BY <1>1, <1>2 DEF LinksInv, RequestOK, Seen
<1> QED
  BY <1>2, <1>3 DEF LinksInv

LEMMA SearchKeeps ==
  ASSUME LinksInv, SearchTexts \/ SearchVectors PROVE LinksInv'
<1>1. request.of # {} /\ UNCHANGED <<stored, links, deletes, marks>>
  BY DEF SearchTexts, SearchVectors, LinksInv, RequestOK
<1>2. CASE SearchTexts
  <2>1. PICK found : request' = [request EXCEPT !.pc = "texts found", !.found = found]
    BY <1>2 DEF SearchTexts
  <2> QED
    BY <1>1, <2>1, FoundKeeps
<1>3. CASE SearchVectors
  <2>1. PICK found : request' = [request EXCEPT !.pc = "vectors found", !.found = found]
    BY <1>3 DEF SearchVectors
  <2> QED
    BY <1>1, <2>1, FoundKeeps
<1> QED
  BY <1>2, <1>3

LEMMA NothingAdded == ASSUME NEW a, NEW b, a = 0, b = 0 PROVE a + b = 0
OBVIOUS

LEMMA LookUpKeeps ==
  ASSUME LinksInv, NEW at, NEW kind, NEW then, LookUp(at, kind, then),
         at \in {"texts found", "vectors found"}, then \in {"vector", "name"}
  PROVE  LinksInv'
<1> DEFINE gain(m) == IF m \in (ToSet(request.found) \cap stored) \ {Current, Parent[Current]}
                      THEN Score[kind][CHOOSE k \in DOMAIN request.found : request.found[k] = m] ELSE 0
           hits == [m \in Memory |-> request.hits[m] + gain(m)]
<1>1. UNCHANGED <<stored, links, deletes, marks>>
  BY DEF LookUp
<1>2. request' = [pc |-> then, batch |-> request.batch, of |-> request.of,
                  found |-> <<>>, hits |-> hits, links |-> request.links]
  BY DEF LookUp, LinksInv, RequestOK
<1>3. request.of # {}
  BY DEF LookUp, LinksInv, RequestOK
<1>4. ASSUME NEW m \in Memory, m \notin Seen PROVE hits[m] = 0
  <2>1. request.hits[m] = 0
    BY <1>4 DEF LinksInv, RequestOK
  <2>2. gain(m) = 0
    BY <1>4 DEF Seen
  <2>3. hits[m] = request.hits[m] + gain(m)
    BY Zenon
  <2> QED
    BY <2>1, <2>2, <2>3, NothingAdded
<1> HIDE DEF hits
<1> QED
  BY <1>1, <1>2, <1>3, <1>4 DEF LinksInv, RequestOK, marks, Seen

\* The new link leads from the source of what recalls to something seen and
\* earlier, so not to itself.
LEMMA NameKeeps ==
  ASSUME Families, LinksInv, Name PROVE LinksInv'
<1>1. PICK read \in SUBSET stored :
        request' = [request EXCEPT !.pc = "text", !.of = @ \ {Current}, !.hits = Idle.hits,
          !.links = @ \cup UNION {Both(Parent[Current], m, IF m \in read THEN Kind[Current][m] ELSE Lost) : m \in Targets}]
  BY DEF Name
<1> DEFINE kind(m) == IF m \in read THEN Kind[Current][m] ELSE Lost
           new == UNION {Both(Parent[Current], m, kind(m)) : m \in Targets}
           all == request.links \cup new
<1>2. request' = [pc |-> "text", batch |-> request.batch, of |-> request.of \ {Current}, found |-> request.found,
                  hits |-> [m \in Memory |-> 0], links |-> all]
  BY <1>1 DEF LinksInv, RequestOK, Idle
<1>3. UNCHANGED <<stored, links, deletes, marks>>
  BY DEF Name
<1>4. Current \in request.batch /\ Current \in Memory /\ Parent[Current] \in request.batch
  BY CurrentLeft DEF Name, LinksInv, RequestOK
<1>5. \A l \in request.links : LinkOf(l, Seen \cup request.batch, all)
  <2> HIDE DEF new
  <2> QED
    BY LinkOfMore DEF LinksInv, RequestOK
<1>6. \A l \in new : LinkOf(l, Seen \cup request.batch, all)
  <2> SUFFICES ASSUME NEW l \in new PROVE LinkOf(l, Seen \cup request.batch, all)
    OBVIOUS
  <2>1. PICK m \in Targets : l \in Both(Parent[Current], m, kind(m))
    OBVIOUS
  <2>2. Both(Parent[Current], m, kind(m)) \subseteq all
    OBVIOUS
  <2>3. m \in Memory /\ m \in Seen /\ Time[m] < Time[Current]
    BY TargetsSeen DEF LinksInv
  <2>4. Time[m] < Time[Parent[Current]] /\ Parent[Current] # m
    BY <1>4, <2>3 DEF Families
  <2> HIDE DEF all, new, kind
  <2> QED
    BY <1>4, <2>1, <2>2, <2>3, <2>4, BothWays
<1>7. RequestOK'
  <2>1. \A l \in all : LinkOf(l, Seen \cup request.batch, all)
    BY <1>5, <1>6
  <2> HIDE DEF all
  <2> QED
    BY <1>2, <1>3, <2>1 DEF LinksInv, RequestOK, marks, Seen
<1> QED
  BY <1>3, <1>7 DEF LinksInv, marks

\* What the request saw is stored, or was deleted during it.
LEMMA CommitKeeps ==
  ASSUME LinksInv, Commit PROVE LinksInv'
<1>1. links' = links \cup request.links /\ stored' = stored \cup request.batch
      /\ excused' = excused \cup meanwhile /\ request' = Idle
  BY DEF Commit
<1>2. \A l \in links : LinkOf(l, stored' \cup excused', links')
  BY <1>1, LinkOfMore DEF LinksInv
<1>3. ASSUME NEW l \in request.links PROVE LinkOf(l, stored' \cup excused', links')
  <2>1. LinkOf(l, Seen \cup request.batch, request.links)
    BY DEF LinksInv, RequestOK
  <2>2. Seen \cup request.batch \subseteq stored' \cup excused' /\ request.links \subseteq links'
    BY <1>1 DEF Seen
  <2> QED
    BY <2>1, <2>2, LinkOfMore
<1> QED
  BY <1>1, <1>2, <1>3 DEF LinksInv, RequestOK, Idle

LEMMA FailKeeps ==
  ASSUME LinksInv, Fail PROVE LinksInv'
BY DEF Fail, Idle, LinksInv, RequestOK, marks

\* A deletion takes a link and its way back, and is noted for the request.
LEMMA DeleteKeeps ==
  ASSUME LinksInv, NEW m \in Memory, Delete(m) PROVE LinksInv'
<1> DEFINE gone == {d \in Memory : Parent[d] = m}
<1>1. /\ stored' = stored \ gone /\ meanwhile' = meanwhile \cup gone
      /\ links' = {l \in links : l.from \notin gone /\ l.to \notin gone}
      /\ request' = request /\ excused' = excused
  BY DEF Delete
<1> HIDE DEF gone
<1>2. Seen \subseteq Seen'
  BY <1>1 DEF Seen
<1>3. RequestOK'
  <2>1. \A l \in request.links : LinkOf(l, Seen' \cup request.batch, request.links)
    BY <1>2, LinkOfMore DEF LinksInv, RequestOK
  <2> QED
    BY <1>1, <1>2, <2>1 DEF LinksInv, RequestOK
<1>4. ASSUME NEW l \in links' PROVE LinkOf(l, stored' \cup excused', links')
  <2>1. LinkOf(l, stored \cup excused, links) /\ l.from \notin gone /\ l.to \notin gone
    BY <1>1 DEF LinksInv
  <2> DEFINE home == [from |-> l.to, to |-> l.from, kind |-> l.kind, back |-> ~l.back]
  <2>2. home \in links'
    BY <1>1, <2>1 DEF LinkOf
  <2> QED
    BY <1>1, <2>1, <2>2 DEF LinkOf
<1> QED
  BY <1>3, <1>4 DEF LinksInv

-----------------------------------------------------------------------------

LEMMA LinksStep == ASSUME Families, LinksInv, [Next]_lvars PROVE LinksInv'
<1>1. ASSUME NEW m \in Memory, NEW rest \in SUBSET Memory, Parent[m] = m,
             \A d \in rest : Parent[d] = m, Prepare(rest \cup {m})
      PROVE  LinksInv'
  BY <1>1, PrepareKeeps
<1>2. CASE SearchTexts \/ SearchVectors
  BY <1>2, SearchKeeps
<1>3. CASE LookUpTexts
  BY <1>3, LookUpKeeps DEF LookUpTexts
<1>4. CASE LookUpVectors
  BY <1>4, LookUpKeeps DEF LookUpVectors
<1>5. CASE Name
  BY <1>5, NameKeeps
<1>6. CASE Commit
  BY <1>6, CommitKeeps
<1>7. CASE Fail
  BY <1>7, FailKeeps
<1>8. ASSUME NEW m \in Memory, Delete(m) PROVE LinksInv'
  BY <1>8, DeleteKeeps
<1>9. CASE UNCHANGED lvars
  BY <1>9 DEF lvars, LinksInv, RequestOK, Seen
<1> QED
  BY <1>1, <1>2, <1>3, <1>4, <1>5, <1>6, <1>7, <1>8, <1>9 DEF Next

LEMMA LinksShow == ASSUME LinksInv PROVE LinksHold
BY DEF LinksInv, LinksHold, LinkOf

\* Links hold for any memories, searches, scores and deletions: every link has
\* its way back, recalls something earlier, and has both ends unless one was
\* deleted while the request that wrote it was under way.
THEOREM LinksAlwaysHold == ASSUME Families PROVE Spec => []LinksHold
<1>1. LinksInv /\ [Next]_lvars => LinksInv'
  BY LinksStep
<1>2. Init => LinksInv
  BY LinksInit
<1>3. LinksInv => LinksHold
  BY LinksShow
<1> QED
  BY <1>1, <1>2, <1>3, PTL DEF Spec

=============================================================================
