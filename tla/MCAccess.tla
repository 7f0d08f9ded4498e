------------------------------ MODULE MCAccess ------------------------------
(* What stands before and behind a handler, on small instances: the token    *)
(* buckets, with one connection address whose requests may forge another and *)
(* clients that make up keys; the accounts whose sessions and keys are       *)
(* checked; and the writer of what requests leave in the platform database.  *)
(* They share no state here: one of them moves.                              *)
EXTENDS RateLimiter, TLC

CONSTANTS
  a1, a2, k1, k2, k3, k4,
  \* the accounts
  Name, AdminKey, Request, TTL, Interval, MaxUser, MaxSession, MaxKey, MaxTime, MaxOps,
  \* the writer
  User, Endpoint, s1, s2, s3, Capacity, FlushAt, MaxFacts, MaxSent

\* Sessions end some ticks after they begin, the operator does not guess the ids
\* and secrets of keys still to be minted, and a profile has room for a fact.
ASSUME AccessAssumption ==
  /\ TTL \in Nat /\ MaxKey \in Nat
  /\ AdminKey \cap 1..MaxKey = {}
  /\ MaxFacts \in Nat \ {0}

VARIABLES
  time, users, sessions, apiKeys, touched, minted, proc, ops, granted, revoked, failed,
  channel, pending, flushing, usage, profile, open, running, sent, lost, told,
  part  \* the part that moves

accounts == <<time, users, sessions, apiKeys, touched, minted, proc, ops, granted, revoked, failed>>
writer == <<channel, pending, flushing, usage, profile, open, running, sent, lost, told>>
allvars == <<vars, accounts, writer, part>>

A == INSTANCE Accounts WITH Proc <- Request

W == INSTANCE UsageWriter WITH
  Texts <- {<<s1>>, <<s2, s3>>, <<s3, s1>>}, MayFail <- TRUE, MayStop <- TRUE

Symmetry == Permutations(Key) \cup Permutations(Client)

MCInit == Init /\ A!Init /\ W!Init /\ part \in {"limiter", "accounts", "writer"}

MCNext ==
  \/ part = "limiter" /\ Next /\ UNCHANGED <<accounts, writer, part>>
  \/ part = "accounts" /\ A!Next /\ UNCHANGED <<vars, writer, part>>
  \/ part = "writer" /\ W!Next /\ UNCHANGED <<vars, accounts, part>>

MCSpec == MCInit /\ [][MCNext]_allvars

-----------------------------------------------------------------------------

\* A session opens the account of its user from the login until the logout or
\* the end of its time, whatever is purged in between.
SessionsUntilExpiry == A!SessionsUntilExpiry

\* No request gets through with a secret that was revoked before it came, and
\* one secret opens the keys of one user only, injected again or not.
RevokedStaysOut == A!RevokedStaysOut /\ A!OneKeyPerSecret

\* What a request leaves in the platform database gets there. A key that the
\* map in memory takes for written is written, about to be, or has been
\* replaced, but for a write that failed; usage that was sent is on its way,
\* written once, or was refused or dropped; and a profile shows what was said
\* last, through full channels, failed writes and a shutdown.
UseIsWritten == A!TouchedIsWritten /\ W!UsageConserved /\ W!ProfileIsLatest

=============================================================================
