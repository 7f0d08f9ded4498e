---------------------------- MODULE TokenBuckets ----------------------------
(***************************************************************************)
(* What rate limiting promises: every bucket there could ever be holds a   *)
(* level that rises with time up to its burst, and a request is accepted   *)
(* when it finds one token in each bucket it is charged to, in order.      *)
(***************************************************************************)
EXTENDS Integers, Sequences

CONSTANTS
  Bucket,   \* the names a bucket can have
  Burst,    \* the capacity of each, in fractions of a token
  Rate,     \* what one unit of time adds to each
  Token,    \* the fractions in a token
  Client,   \* requests in flight at once
  Charges   \* the buckets a request can be charged to, in order

VARIABLES level, asking

Least(a, b) == IF a <= b THEN a ELSE b

Idle == [todo |-> <<>>, verdict |-> "none"]

Init ==
  /\ level = Burst
  /\ asking = [c \in Client |-> Idle]

Ask(c, todo) ==
  /\ asking[c].todo = <<>>
  /\ asking' = [asking EXCEPT ![c] =
       [todo |-> todo, verdict |-> IF todo = <<>> THEN "accepted" ELSE "none"]]
  /\ UNCHANGED level

Take(c) ==
  /\ asking[c].todo # <<>>
  /\ LET b == Head(asking[c].todo)
         rest == Tail(asking[c].todo)
     IN  /\ level[b] >= Token
         /\ level' = [level EXCEPT ![b] = @ - Token]
         /\ asking' = [asking EXCEPT ![c] =
              [todo |-> rest, verdict |-> IF rest = <<>> THEN "accepted" ELSE "none"]]

Refuse(c) ==
  /\ asking[c].todo # <<>>
  /\ level[Head(asking[c].todo)] < Token
  /\ asking' = [asking EXCEPT ![c] = [todo |-> <<>>, verdict |-> "refused"]]
  /\ UNCHANGED level

Refill ==
  /\ level' = [b \in Bucket |-> Least(Burst[b], level[b] + Rate[b])]
  /\ UNCHANGED asking

Next ==
  \/ \E c \in Client : (\E todo \in Charges : Ask(c, todo)) \/ Take(c) \/ Refuse(c)
  \/ Refill

Spec == Init /\ [][Next]_<<level, asking>>

=============================================================================
