---------------------------- MODULE UsageWriter -----------------------------
(***************************************************************************)
(* The background writer of the platform database (api/mod.rs): handlers   *)
(* send usage and profile texts into a bounded channel and never wait; one *)
(* task collects them and writes them when enough are pending or on its    *)
(* ticker.  A flush takes everything pending and writes it one statement   *)
(* or transaction at a time; what fails is logged and dropped.             *)
(***************************************************************************)
EXTENDS Integers, Sequences, FiniteSets, SequencesExt, Functions

CONSTANTS
  User, Endpoint,
  Texts,      \* what queries say: sequences of first-person sentences
  Capacity,   \* of the channel
  FlushAt,    \* pending entries that cause a flush
  MaxFacts,   \* MAX_STABLE_FACTS
  MaxSent,    \* bound on what is sent
  MayFail,    \* writes may fail
  MayStop     \* the process may be shut down

VARIABLES
  channel,
  pending,    \* pending_usage and pending_profiles
  flushing,   \* what the running flush has still to write
  usage,      \* the table: user |-> endpoint |-> count
  profile,    \* stable_facts of each user
  open,       \* the senders are there
  running,    \* the writer is there
  sent,       \* history: what was sent, per user and endpoint
  lost,       \* history: what was refused or dropped
  told        \* history: the facts written for each user, in order

vars == <<channel, pending, flushing, usage, profile, open, running, sent, lost, told>>

Counter == User \X Endpoint
None == [c \in Counter |-> 0]
Nothing == [usage |-> None, profiles |-> <<>>]
Plus(f, g) == [c \in Counter |-> f[c] + g[c]]
One(c) == [None EXCEPT ![c] = 1]
Sum(f) == FoldFunction(+, 0, f)
Used(f) == {c \in Counter : f[c] > 0}
IsEmpty(batch) == Used(batch.usage) = {} /\ batch.profiles = <<>>

\* The usage among the operations of a channel.
UsageIn(ops) ==
  [c \in Counter |-> Cardinality({i \in DOMAIN ops : ops[i].op = "usage" /\ ops[i].of = c})]

Init ==
  /\ channel = <<>> /\ pending = Nothing /\ flushing = Nothing
  /\ usage = None /\ profile = [u \in User |-> <<>>]
  /\ open = TRUE /\ running = TRUE
  /\ sent = None /\ lost = None /\ told = [u \in User |-> <<>>]

-----------------------------------------------------------------------------
\* try_send: a full channel refuses.
Sent(op) == channel' = IF Len(channel) < Capacity THEN Append(channel, op) ELSE channel

\* record_usage_for_principal.
SendUsage(c) ==
  /\ open /\ Sum(sent) < MaxSent
  /\ Sent([op |-> "usage", of |-> c])
  /\ sent' = Plus(sent, One(c))
  /\ lost' = IF channel' = channel THEN Plus(lost, One(c)) ELSE lost
  /\ UNCHANGED <<pending, flushing, usage, profile, open, running, told>>

\* The query handler's profile text.  What the ingest handler sends never
\* arrives: it drops the future of send without awaiting it.
SendProfile(u, text) ==
  /\ open /\ ~\E i \in DOMAIN channel : channel[i].op = "profile"
  /\ Sum([v \in User |-> Len(told[v])]) + Len(pending.profiles) < MaxSent
  /\ Sent([op |-> "profile", of |-> u, text |-> text])
  /\ UNCHANGED <<pending, flushing, usage, profile, open, running, sent, lost, told>>

\* The receiving arm of start_platform_writer.
Collected(op) ==
  IF op.op = "usage" THEN [pending EXCEPT !.usage = Plus(@, One(op.of))]
  ELSE [pending EXCEPT !.profiles = Append(@, op)]

Full(batch) == Cardinality(Used(batch.usage)) + Len(batch.profiles) >= FlushAt

\* As if a flush left the pending entries where they are.
TakenCopied(batch) == flushing' = batch /\ pending' = batch

\* flush_platform_writes begins: it takes what is pending.
Taken(batch) == flushing' = batch /\ pending' = Nothing

Receive ==
  /\ running /\ IsEmpty(flushing) /\ channel # <<>>
  /\ channel' = Tail(channel)
  /\ LET batch == Collected(Head(channel)) IN
     IF Full(batch) THEN Taken(batch) ELSE pending' = batch /\ UNCHANGED flushing
  /\ UNCHANGED <<usage, profile, open, running, sent, lost, told>>

\* The ticker's arm.
Flush ==
  /\ running /\ IsEmpty(flushing) /\ ~IsEmpty(pending)
  /\ Taken(pending)
  /\ UNCHANGED <<channel, usage, profile, open, running, sent, lost, told>>

\* record_usage_n: the pending count of one user and endpoint.
WriteUsage(c) ==
  /\ running /\ c \in Used(flushing.usage)
  /\ flushing' = [flushing EXCEPT !.usage[c] = 0]
  /\ \/ /\ usage' = [usage EXCEPT ![c] = @ + flushing.usage[c]]
        /\ UNCHANGED lost
     \/ /\ MayFail
        /\ lost' = [lost EXCEPT ![c] = @ + flushing.usage[c]]
        /\ UNCHANGED usage
  /\ UNCHANGED <<channel, pending, profile, open, running, sent, told>>

\* As if a fact that is there already stayed where it is.
InsertKept(items, fact) ==
  IF Contains(items, fact) THEN items
  ELSE SubSeq(<<fact>> \o items, 1, IF Len(items) < MaxFacts THEN Len(items) + 1 ELSE MaxFacts)

\* insert_unique_front.
InsertUniqueFront(items, fact) ==
  LET rest == RemoveFirst(items, fact)
  IN  SubSeq(<<fact>> \o rest, 1, IF Len(rest) < MaxFacts THEN Len(rest) + 1 ELSE MaxFacts)

Inserted(items, facts) == FoldLeft(InsertUniqueFront, items, facts)

\* extract_profile_stable_facts: the facts of the sentences, the last first.
Extracted(text) == Inserted(<<>>, text)

\* update_profile_from_text, one transaction, once the counters are written.
WriteProfile ==
  /\ running /\ Used(flushing.usage) = {} /\ flushing.profiles # <<>>
  /\ LET op == Head(flushing.profiles)
         facts == Extracted(op.text)
     IN  \/ /\ profile' = [profile EXCEPT ![op.of] = Inserted(@, facts)]
            /\ told' = [told EXCEPT ![op.of] = @ \o facts]
         \/ MayFail /\ UNCHANGED <<profile, told>>
  /\ flushing' = [flushing EXCEPT !.profiles = Tail(@)]
  /\ UNCHANGED <<channel, pending, usage, open, running, sent, lost>>

\* The server is shut down: the senders go, and the writer drains the channel.
Close ==
  /\ MayStop /\ open /\ open' = FALSE
  /\ UNCHANGED <<channel, pending, flushing, usage, profile, running, sent, lost, told>>

\* The process exits, which does not wait for the writer.
Exit ==
  /\ MayStop /\ ~open /\ running /\ running' = FALSE
  /\ lost' = Plus(lost, Plus(UsageIn(channel), Plus(pending.usage, flushing.usage)))
  /\ channel' = <<>> /\ pending' = Nothing /\ flushing' = Nothing
  /\ UNCHANGED <<usage, profile, open, sent, told>>

Writer == Receive \/ Flush \/ WriteProfile \/ \E c \in Counter : WriteUsage(c)

Next ==
  \/ \E c \in Counter : SendUsage(c)
  \/ \E u \in User, text \in Texts : SendProfile(u, text)
  \/ Writer \/ Close \/ Exit

Spec == Init /\ [][Next]_vars

-----------------------------------------------------------------------------
\* Every accepted request is counted once: it is in the table, on its way, or
\* was dropped by a full channel, a failed write or the end of the process.
UsageConserved ==
  \A c \in Counter :
    sent[c] = UsageIn(channel)[c] + pending.usage[c] + flushing.usage[c] + usage[c] + lost[c]

\* A fact at i of the list was told, and those told since are the ones before it.
InItsPlace(list, facts, i) ==
  LET before == {list[j] : j \in 1..(i - 1)}
  IN  /\ list[i] \notin before
      /\ \E k \in DOMAIN facts :
           facts[k] = list[i] /\ {facts[j] : j \in (k + 1)..Len(facts)} = before

\* The distinct facts that were told last, the latest first, as many as fit.
ShowsLatest(list, facts) ==
  /\ Len(list) <= MaxFacts
  /\ Len(list) < MaxFacts => ToSet(facts) \subseteq ToSet(list)
  /\ \A i \in DOMAIN list : InItsPlace(list, facts, i)

\* A profile holds the facts stated latest: cutting the list at every step
\* never loses one that is still among the latest.
ProfileIsLatest == \A u \in User : ShowsLatest(profile[u], told[u])

=============================================================================
