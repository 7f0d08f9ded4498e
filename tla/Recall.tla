------------------------------- MODULE Recall -------------------------------
(* What a query promises while the store changes under it: each memory it   *)
(* answers with was stored, in the scope asked for and within the bounds on *)
(* time, at some moment between the question and the answer; and so was the *)
(* text it is shown with, though not always at the same moment.             *)
EXTENDS Naturals, FiniteSets

CONSTANTS
  Memory,  \* ids of memories
  Entity,  \* whom they are about
  Owner,   \* [Memory -> Entity]
  Source,  \* [Memory -> Memory]: the memory a card restates, itself for a turn
  Limit,   \* results asked for
  None

VARIABLES
  store,     \* the rows there are: [Memory -> Row \cup {None}]
  question,  \* what is asked, None between queries
  seen,      \* the rows stored at some moment since the question
  answer     \* the memories answered with

vars == <<store, question, seen, answer>>

Stored(rows) == {<<m, rows[m]>> : m \in {x \in Memory : rows[x] # None}}

\* A row within the bounds of a question about an earlier time.
InBounds(row, q) ==
  /\ q.pit # None => row.created <= q.pit
  /\ q.known # None => row.recorded <= q.known

InScope(m, q) == q.scope # None => Owner[m] = q.scope

\* <<m, text>> may be answered to q.
Answerable(m, text, q) ==
  \E d \in Memory :
    /\ Source[d] = m
    /\ InScope(d, q)
    /\ \E s \in seen : s[1] = d /\ InBounds(s[2], q)
    /\ \E s \in seen : s[1] \in {m, d} /\ s[2].text = text

Init == question = None /\ seen = {} /\ answer = {}

Ask ==
  /\ question = None
  /\ question' # None
  /\ seen' = Stored(store)
  /\ answer' = {}
  /\ UNCHANGED store

\* Whatever is written or deleted meanwhile.
Change ==
  /\ seen' = IF question = None THEN seen ELSE seen \cup Stored(store')
  /\ UNCHANGED <<question, answer>>

Answer ==
  /\ question # None
  /\ \A a \in answer' : Answerable(a[1], a[2], question)
  /\ Cardinality(answer') <= Limit
  /\ question' = None
  /\ UNCHANGED <<store, seen>>

Next == Ask \/ Change \/ Answer

Spec == Init /\ [][Next]_vars

=============================================================================
