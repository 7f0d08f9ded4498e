------------------------------ MODULE MemoryLinks ------------------------------
(* Links between memories.  A memory that recalls something earlier is linked  *)
(* to what it recalls: the request searches the texts and the vectors of the   *)
(* entity, looks up what it found, takes the best one that is earlier, reads   *)
(* its text to name the link, and commits the link both ways with the memory,  *)
(* and links from what is derived to its source.  Each read is one of its own, *)
(* and deletions come in between.  No text is split into chunks here.          *)
EXTENDS Integers, SequencesExt

CONSTANTS
  Memory,      \* the memories that are sent; a memory stands for its id
  Time,        \* [Memory -> Nat]
  Parent,      \* [Memory -> Memory]: the source of a derived one, or itself
  Lexical,     \* [Memory -> sequence]: whom its reference finds by text, best first
  Nearby,      \* [Memory -> sequence]: by vector
  Score,       \* [kind -> [rank -> score]]: what a hit of a rank adds
  Threshold,   \* 0.55
  Recalls,     \* memories with a reference to something earlier
  Kind,        \* [Memory -> [Memory -> kind of link]]
  Lost,        \* the kind of a link to a text that cannot be read
  MaxDelete

VARIABLES
  stored, links,
  request,     \* [pc, batch, of (those that recall and are left), found, hits, links]
  deletes,
  meanwhile,   \* history: what was deleted since the request began
  excused      \* history: what was deleted during a request that committed

lvars == <<stored, links, request, deletes, meanwhile, excused>>
marks == <<meanwhile, excused>>

\* What is derived is derived at once and of the same time.
Families == Parent \in [Memory -> Memory] /\ Time \in [Memory -> Nat] /\
            \A m \in Memory : Parent[Parent[m]] = Parent[m] /\ Time[Parent[m]] = Time[m]

Idle == [pc |-> "idle", batch |-> {}, of |-> {}, found |-> <<>>, hits |-> [m \in Memory |-> 0], links |-> {}]

\* Both ways, each with its own name.
Both(a, b, kind) == {[from |-> a, to |-> b, kind |-> kind, back |-> FALSE],
                     [from |-> b, to |-> a, kind |-> kind, back |-> TRUE]}

Init == stored = {} /\ links = {} /\ request = Idle /\ deletes = 0 /\ meanwhile = {} /\ excused = {}

\* build_artifacts: links to the source, and the memories that recall.
Prepare(batch) ==
  /\ request.pc = "idle"
  /\ request' = [Idle EXCEPT !.pc = "text", !.batch = batch, !.of = batch \cap Recalls,
       !.links = UNION {Both(m, Parent[m], "derived") : m \in {d \in batch : Parent[d] # d}}]
  /\ meanwhile' = {} /\ UNCHANGED <<stored, links, deletes, excused>>

Current == CHOOSE m \in request.of : TRUE

\* fts_search; one that fails finds nothing.
SearchTexts ==
  /\ request.pc = "text" /\ request.of # {}
  /\ \E found \in {SelectSeq(Lexical[Current], LAMBDA m : m \in stored), <<>>} :
       request' = [request EXCEPT !.pc = "texts found", !.found = found]
  /\ UNCHANGED <<stored, links, deletes, marks>>

\* A hit counts by its rank if it can still be looked up and is neither the
\* memory itself nor its source.
LookUp(at, kind, then) ==
  /\ request.pc = at
  /\ request' = [request EXCEPT !.pc = then, !.found = <<>>,
       !.hits = [m \in Memory |-> @[m] +
         (IF m \in (ToSet(request.found) \cap stored) \ {Current, Parent[Current]}
          THEN Score[kind][CHOOSE k \in DOMAIN request.found : request.found[k] = m] ELSE 0)]]
  /\ UNCHANGED <<stored, links, deletes, marks>>

LookUpTexts == LookUp("texts found", "text", "vector")

SearchVectors ==
  /\ request.pc = "vector"
  /\ request' = [request EXCEPT !.pc = "vectors found", !.found = SelectSeq(Nearby[Current], LAMBDA m : m \in stored)]
  /\ UNCHANGED <<stored, links, deletes, marks>>

LookUpVectors == LookUp("vectors found", "vector", "name")

\* The best of those that are earlier, if it is good enough; of equals the
\* first by its id.
Targets ==
  LET earlier == {m \in Memory : request.hits[m] > 0 /\ Time[m] < Time[Current]}
      Before(m, n) == request.hits[m] > request.hits[n] \/ (request.hits[m] = request.hits[n] /\ m < n)
  IN  {m \in earlier : request.hits[m] >= Threshold /\ \A n \in earlier \ {m} : Before(m, n)}

\* classify_retrospective_link on both texts; one that is gone, or cannot be
\* read, counts as empty.
Name ==
  /\ request.pc = "name"
  /\ \E read \in SUBSET stored :
       request' = [request EXCEPT !.pc = "text", !.of = @ \ {Current}, !.hits = Idle.hits,
         !.links = @ \cup UNION {Both(Parent[Current], m, IF m \in read THEN Kind[Current][m] ELSE Lost) : m \in Targets}]
  /\ UNCHANGED <<stored, links, deletes, marks>>

\* The memories and their links in one transaction.
Commit ==
  /\ request.pc = "text" /\ request.of = {}
  /\ stored' = stored \cup request.batch /\ links' = links \cup request.links
  /\ excused' = excused \cup meanwhile
  /\ request' = Idle /\ UNCHANGED <<deletes, meanwhile>>

\* An error before the commit.
Fail ==
  /\ request.pc # "idle"
  /\ request' = Idle /\ UNCHANGED <<stored, links, deletes, marks>>

\* delete_observation, with what is derived from the memory.
Delete(m) ==
  /\ Parent[m] = m /\ m \in stored /\ deletes < MaxDelete
  /\ LET gone == {d \in Memory : Parent[d] = m}
     IN  /\ stored' = stored \ gone
         /\ links' = {l \in links : l.from \notin gone /\ l.to \notin gone}
         /\ meanwhile' = meanwhile \cup gone
  /\ deletes' = deletes + 1 /\ UNCHANGED <<request, excused>>

Next ==
  \/ \E m \in Memory, rest \in SUBSET Memory :
       /\ Parent[m] = m /\ m \notin stored /\ \A d \in rest : Parent[d] = m
       /\ Prepare(rest \cup {m})
  \/ SearchTexts \/ LookUpTexts \/ SearchVectors \/ LookUpVectors \/ Name \/ Commit \/ Fail
  \/ \E m \in Memory : Delete(m)

Spec == Init /\ [][Next]_lvars

-----------------------------------------------------------------------------

\* Every link has its way back; what recalls is linked to something earlier
\* and nothing to itself; and both ends of a link are stored, unless one was
\* deleted while the request that wrote the link was under way.
LinksHold ==
  \A l \in links :
    /\ [from |-> l.to, to |-> l.from, kind |-> l.kind, back |-> ~l.back] \in links
    /\ ~l.back => l.from # l.to /\ (l.kind # "derived" => Time[l.to] < Time[l.from])
    /\ {l.from, l.to} \subseteq stored \cup excused

=============================================================================
