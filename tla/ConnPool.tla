------------------------------ MODULE ConnPool ------------------------------
(***************************************************************************)
(* The connection pools of one instance, and the calls that share them: a  *)
(* primary pool, and one for the reads when a replica is configured; else  *)
(* the reads share the primary's.  A request acquires a connection for     *)
(* each of its database calls and gives it back when the call is over;     *)
(* when there is none it waits, first come first served.                   *)
(*                                                                         *)
(* The context of a handler has no deadline: a call that hangs keeps its   *)
(* connection until shutdown cancels the contexts.  Only the readiness     *)
(* probe brings a deadline of its own, for the wait and the ping together. *)
(* At shutdown the pools close once every connection is back.              *)
(***************************************************************************)
EXTENDS Integers, Sequences, FiniteSets

CONSTANTS
    Requests,      \* slots of concurrent requests
    Setting,       \* DB_MAX_CONNS, any integer
    Half,          \* half the range of an int32, 2^31
    DefaultSize,   \* pgxpool's own MaxConns
    NoKind,
    MaxHangs       \* bound: calls that hang between a start and a shutdown

ASSUME PoolAssumptions ==
    /\ IsFiniteSet(Requests)
    /\ Setting \in Int
    /\ Half \in Nat \ {0}
    /\ DefaultSize \in Nat \ {0}
    /\ MaxHangs \in Nat

Pools == {"primary", "replica"}
Kinds == {"submit", "lookup", "scan", "write", "probe"}

ASSUME NoKindIsNone == NoKind \notin Kinds

Int32(n) == ((n + Half) % (2 * Half)) - Half

(* A MaxConns that is not positive leaves pgxpool its default. *)
PoolSize == IF Int32(Setting) > 0 THEN Int32(Setting) ELSE DefaultSize

VARIABLES
    phase,         \* the process: down, serving or draining
    reads,         \* DB.Replica: the pool that the reads use
    free,          \* connections of each pool that nobody holds
    queue,         \* who waits for one, in order
    kind, step,    \* what each request is, and whether it asks, waits or holds
    calls,         \* the pools of the database calls it still has to make
    hung           \* requests whose call does not come back

vars == <<phase, reads, free, queue, kind, step, calls, hung>>

(* The calls of each kind of request; a lookup writes a missing code back. *)
Plans(k, readPool) ==
    CASE k = "submit" -> {<<"primary", "primary">>}
      [] k = "lookup" -> {<<readPool>>, <<readPool, "primary">>}
      [] k = "scan"   -> {<<readPool>>}
      [] OTHER        -> {<<"primary">>}

Target(r) == calls[r][1]
Holders(p) == {r \in Requests : step[r] = "hold" /\ Target(r) = p}
Open == IF phase = "down" THEN {} ELSE {"primary", reads}

TypeOK ==
    /\ phase \in {"down", "serving", "draining"}
    /\ reads \in Pools
    /\ free \in [Pools -> 0..PoolSize]
    /\ queue \in [Pools -> Seq(Requests)]
    /\ kind \in [Requests -> Kinds \cup {NoKind}]
    /\ step \in [Requests -> {"idle", "ask", "wait", "hold"}]
    /\ calls \in [Requests -> Seq(Pools)]
    /\ \A r \in Requests : step[r] # "idle" => calls[r] # <<>>
    /\ hung \subseteq {r \in Requests : step[r] = "hold"}

Init ==
    /\ phase = "down"
    /\ reads = "primary"
    /\ free = [p \in Pools |-> 0]
    /\ queue = [p \in Pools |-> <<>>]
    /\ kind = [r \in Requests |-> NoKind]
    /\ step = [r \in Requests |-> "idle"]
    /\ calls = [r \in Requests |-> <<>>]
    /\ hung = {}
-----------------------------------------------------------------------------
(* Both pools are opened with the same options. *)
Connect ==
    /\ phase = "down"
    /\ phase' = "serving"
    /\ reads' \in Pools
    /\ free' = [p \in Pools |-> IF p \in {"primary", reads'} THEN PoolSize ELSE 0]
    /\ UNCHANGED <<queue, kind, step, calls, hung>>

Arrive(r) ==
    /\ phase = "serving" /\ step[r] = "idle"
    /\ \E k \in Kinds : \E plan \in Plans(k, reads) :
          /\ kind' = [kind EXCEPT ![r] = k]
          /\ calls' = [calls EXCEPT ![r] = plan]
    /\ step' = [step EXCEPT ![r] = "ask"]
    /\ UNCHANGED <<phase, reads, free, queue, hung>>

(* Acquire: a free connection, unless others already wait for one. *)
Acquire(r) ==
    /\ phase = "serving" /\ step[r] = "ask"
    /\ LET p == Target(r) IN
          IF free[p] > 0 /\ queue[p] = <<>>
          THEN /\ free' = [free EXCEPT ![p] = @ - 1]
               /\ step' = [step EXCEPT ![r] = "hold"]
               /\ UNCHANGED queue
          ELSE /\ queue' = [queue EXCEPT ![p] = Append(@, r)]
               /\ step' = [step EXCEPT ![r] = "wait"]
               /\ UNCHANGED free
    /\ UNCHANGED <<phase, reads, kind, calls, hung>>

(* A connection of p comes back, while its holder goes on as steps says: it *)
(* is the first waiter's, or free.                                          *)
Release(p, steps) ==
    IF queue[p] = <<>>
    THEN /\ free' = [free EXCEPT ![p] = @ + 1]
         /\ step' = steps
         /\ UNCHANGED queue
    ELSE /\ queue' = [queue EXCEPT ![p] = Tail(@)]
         /\ step' = [steps EXCEPT ![Head(queue[p])] = "hold"]
         /\ UNCHANGED free

(* r has no further call to make. *)
Finish(r) ==
    /\ kind' = [kind EXCEPT ![r] = NoKind]
    /\ calls' = [calls EXCEPT ![r] = <<>>]

(* Mutant of Return: a lookup keeps its row open while it writes the code.  *)
ReturnKeepsRow(r) ==
    /\ step[r] = "hold" /\ r \notin hung
    /\ calls' = [calls EXCEPT ![r] = Tail(@)]
    /\ IF Len(calls[r]) = 1
       THEN Release(Target(r), [step EXCEPT ![r] = "idle"])
       ELSE step' = [step EXCEPT ![r] = "ask"] /\ UNCHANGED <<free, queue>>
    /\ kind' = [kind EXCEPT ![r] = IF Len(calls[r]) = 1 THEN NoKind ELSE @]
    /\ UNCHANGED <<phase, reads, hung>>

(* The call is over, its connection is given back by Scan or by Exec, and   *)
(* the request goes on to its next call, if it has one.                     *)
Return(r) ==
    /\ step[r] = "hold" /\ r \notin hung
    /\ IF Len(calls[r]) = 1
       THEN Release(Target(r), [step EXCEPT ![r] = "idle"]) /\ Finish(r)
       ELSE /\ Release(Target(r), [step EXCEPT ![r] = "ask"])
            /\ calls' = [calls EXCEPT ![r] = Tail(@)]
            /\ UNCHANGED kind
    /\ UNCHANGED <<phase, reads, hung>>

(* Mutant of Fail: the error path returns without giving back. *)
FailLeaks(r) ==
    /\ step[r] = "hold" /\ r \notin hung
    /\ step' = [step EXCEPT ![r] = "idle"] /\ Finish(r)
    /\ UNCHANGED <<phase, reads, free, queue, hung>>

(* The call fails, or finds no row: the request ends here, whatever calls   *)
(* it had before it; a failed write of the code is its last one anyway.     *)
Fail(r) ==
    /\ step[r] = "hold" /\ r \notin hung
    /\ Release(Target(r), [step EXCEPT ![r] = "idle"]) /\ Finish(r)
    /\ UNCHANGED <<phase, reads, hung>>

Hang(r) ==
    /\ step[r] = "hold" /\ Cardinality(hung) < MaxHangs
    /\ hung' = hung \cup {r}
    /\ UNCHANGED <<phase, reads, free, queue, kind, step, calls>>

(* The place of r in a queue, which closes behind it. *)
Place(q, r) == CHOOSE n \in 1..Len(q) : q[n] = r
Without(q, r) == [n \in 1..Len(q) - 1 |-> IF n < Place(q, r) THEN q[n] ELSE q[n + 1]]

(* Mutant of Abandon: it gives back also what it has not got yet. *)
AbandonUnheld(r) ==
    /\ step[r] # "idle"
    /\ Release(Target(r), [step EXCEPT ![r] = "idle"])
    /\ Finish(r)
    /\ hung' = hung \ {r}
    /\ UNCHANGED <<phase, reads>>

(* The context of r ends: it leaves the queue, or its call is abandoned and *)
(* the connection with it, and the pool may open another in its place.      *)
Abandon(r) ==
    /\ \/ /\ step[r] = "ask"
          /\ step' = [step EXCEPT ![r] = "idle"]
          /\ UNCHANGED <<free, queue>>
       \/ /\ step[r] = "wait"
          /\ queue' = [queue EXCEPT ![Target(r)] = Without(@, r)]
          /\ step' = [step EXCEPT ![r] = "idle"]
          /\ UNCHANGED free
       \/ /\ step[r] = "hold"
          /\ Release(Target(r), [step EXCEPT ![r] = "idle"])
    /\ Finish(r)
    /\ hung' = hung \ {r}
    /\ UNCHANGED <<phase, reads>>

(* Mutant of Timeout: the deadline bounds the ping, not the wait for a      *)
(* connection.                                                              *)
TimeoutOfPing(r) == kind[r] = "probe" /\ step[r] = "hold" /\ Abandon(r)

(* The two seconds of the readiness probe are over. *)
Timeout(r) == kind[r] = "probe" /\ Abandon(r)

Drain ==
    /\ phase = "serving"
    /\ phase' = "draining"
    /\ UNCHANGED <<reads, free, queue, kind, step, calls, hung>>

(* Mutant of Cancel: only those that hold a connection notice. *)
CancelHolders(r) == phase = "draining" /\ step[r] = "hold" /\ Abandon(r)

(* The drain has ended every request's context. *)
Cancel(r) == phase = "draining" /\ Abandon(r)

(* DB.Close, once the server has let its requests go: each pool waits for   *)
(* its connections.                                                         *)
Close ==
    /\ phase = "draining"
    /\ \A r \in Requests : step[r] = "idle"
    /\ \A p \in Open : free[p] = PoolSize
    /\ phase' = "down"
    /\ free' = [p \in Pools |-> 0]
    /\ UNCHANGED <<reads, queue, kind, step, calls, hung>>

(* The process is killed, or exits by force, and its connections with it. *)
Kill ==
    /\ phase # "down"
    /\ phase' = "down"
    /\ free' = [p \in Pools |-> 0]
    /\ queue' = [p \in Pools |-> <<>>]
    /\ kind' = [r \in Requests |-> NoKind]
    /\ step' = [r \in Requests |-> "idle"]
    /\ calls' = [r \in Requests |-> <<>>]
    /\ hung' = {}
    /\ UNCHANGED reads

Next ==
    \/ Connect \/ Drain \/ Close \/ Kill
    \/ \E r \in Requests :
          \/ Arrive(r) \/ Acquire(r) \/ Return(r) \/ Fail(r) \/ Hang(r)
          \/ Timeout(r) \/ Cancel(r)

Spec == Init /\ [][Next]_vars

(* Goroutines run, calls that do not hang come back, deadlines pass and a   *)
(* drain cancels; nobody is obliged to call, to fail, to hang or to stop.   *)
FairSpec ==
    /\ Spec
    /\ WF_vars(Close)
    /\ \A r \in Requests :
          WF_vars(Acquire(r)) /\ WF_vars(Return(r)) /\ WF_vars(Timeout(r)) /\ WF_vars(Cancel(r))
-----------------------------------------------------------------------------
(* Properties.                                                              *)

(* Whichever way requests end, at whichever step, no connection is lost or  *)
(* counted twice.                                                           *)
NothingLeaks == \A p \in Open : free[p] + Cardinality(Holders(p)) = PoolSize

(* A pool all of whose connections, one at least, are held by hung calls. *)
Blocked(p) ==
    LET stuck == hung \cap Holders(p) IN
        stuck # {} /\ Cardinality(stuck) = PoolSize

(* Requests never wait for each other in a circle, whatever size the        *)
(* setting leaves the pools: whoever does not hang is answered again and    *)
(* again, unless hung calls take every connection of a pool.                *)
Answered ==
    \A r \in Requests :
        []<>(step[r] = "idle" \/ r \in hung \/ \E p \in Open : Blocked(p))

(* The readiness probe is answered even when every connection hangs. *)
ProbeAnswered == \A r \in Requests : []<>(kind[r] # "probe")

(* A drain ends, even over calls that hang: the pools close. *)
PoolsClose == []<>(phase # "draining")
=============================================================================
