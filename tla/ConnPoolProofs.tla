--------------------------- MODULE ConnPoolProofs ---------------------------
(***************************************************************************)
(* Theorems about ConnPool, for any number of requests, any setting and    *)
(* any number of hung calls.  That connections are neither lost nor        *)
(* counted twice rests on the queues: whoever is in one waits for that     *)
(* pool, once, so that a connection which is handed over goes to a request *)
(* that did not have one.                                                  *)
(***************************************************************************)
EXTENDS ConnPool, SequenceTheorems, FiniteSetTheorems, TLAPS

(* Who is in a queue waits for its pool, and is in it once. *)
QueueOf(p) ==
    /\ \A n \in 1..Len(queue[p]) : step[queue[p][n]] = "wait" /\ Target(queue[p][n]) = p
    /\ \A m, n \in 1..Len(queue[p]) : queue[p][m] = queue[p][n] => m = n

Queues == \A p \in Pools : QueueOf(p)

(* Who waits is in the queue. *)
Queued ==
    \A r \in Requests : step[r] = "wait" =>
        \E n \in 1..Len(queue[Target(r)]) : queue[Target(r)][n] = r

(* Calls go to the pools that are open. *)
Routed == \A r \in Requests : \A n \in 1..Len(calls[r]) : calls[r][n] \in {"primary", reads}

Quiet == phase = "down" => \A r \in Requests : step[r] = "idle"

(* Nothing is left of a request that has ended. *)
Rest == \A r \in Requests : step[r] = "idle" => calls[r] = <<>>

(* Nobody waits beside a free connection. *)
NobodyWaitsInVain == \A p \in Open : queue[p] # <<>> => free[p] = 0

Waits == Queues /\ Queued
Counts == NothingLeaks /\ NobodyWaitsInVain

Inv == TypeOK /\ Waits /\ Routed /\ Quiet /\ Rest /\ Counts

(* No setting, however large or small, leaves a pool without connections.   *)
THEOREM PoolNeverEmpty == PoolSize \in Nat \ {0}
  <1>1. Int32(Setting) \in Int
    BY PoolAssumptions DEF Int32
  <1> QED
    BY <1>1, PoolAssumptions DEF PoolSize

(* The pool of the next call. *)
LEMMA TargetType ==
    ASSUME TypeOK, NEW r \in Requests, step[r] # "idle"
    PROVE  Target(r) \in Pools /\ 1 \in 1..Len(calls[r])
  <1>1. calls[r] \in Seq(Pools) /\ calls[r] # <<>>
    BY DEF TypeOK
  <1> QED
    BY <1>1 DEF Target

(* What leaving a queue does to it. *)
LEMMA WithoutFacts ==
    ASSUME NEW q \in Seq(Requests), NEW r, \E n \in 1..Len(q) : q[n] = r,
           \A m, n \in 1..Len(q) : q[m] = q[n] => m = n
    PROVE  /\ Without(q, r) \in Seq(Requests)
           /\ Len(Without(q, r)) = Len(q) - 1
           /\ \A n \in 1..Len(q) - 1 :
                 \E k \in 1..Len(q) : Without(q, r)[n] = q[k] /\ q[k] # r
           /\ \A m, n \in 1..Len(q) - 1 : Without(q, r)[m] = Without(q, r)[n] => m = n
           /\ \A k \in 1..Len(q) : q[k] # r =>
                 \E n \in 1..Len(q) - 1 : Without(q, r)[n] = q[k]
  <1> DEFINE at == Place(q, r)
             w == Without(q, r)
  <1>1. at \in 1..Len(q) /\ q[at] = r /\ Len(q) \in Nat
    BY DEF Place
  <1>2. \A n \in 1..Len(q) - 1 : w[n] = IF n < at THEN q[n] ELSE q[n + 1]
    BY DEF Without
  <1>3. w \in [1..Len(q) - 1 -> Requests] /\ Len(q) - 1 \in Nat
    <2>1. \A n \in 1..Len(q) - 1 : n \in 1..Len(q) /\ n + 1 \in 1..Len(q)
      BY <1>1
    <2>2. \A n \in 1..Len(q) : q[n] \in Requests
      BY ElementOfSeq
    <2> QED
      BY <1>1, <2>1, <2>2 DEF Without
  <1>4. w \in Seq(Requests) /\ Len(w) = Len(q) - 1
    BY <1>3, SeqDef
  <1> HIDE DEF at, w
  <1>5. ASSUME NEW n \in 1..Len(q) - 1
        PROVE  \E k \in 1..Len(q) : w[n] = q[k] /\ q[k] # r
    <2>1. CASE n < at
      BY <1>1, <1>2, <2>1
    <2>2. CASE ~(n < at)
      BY <1>1, <1>2, <2>2
    <2> QED
      BY <2>1, <2>2
  <1>6. ASSUME NEW m \in 1..Len(q) - 1, NEW n \in 1..Len(q) - 1, w[m] = w[n]
        PROVE  m = n
    <2> DEFINE Was(k) == IF k < at THEN k ELSE k + 1
    <2>1. Was(m) \in 1..Len(q) /\ Was(n) \in 1..Len(q) /\ w[m] = q[Was(m)] /\ w[n] = q[Was(n)]
      BY <1>1, <1>2
    <2>2. Was(m) = Was(n)
      BY <1>6, <2>1
    <2> QED
      BY <1>1, <2>2
  <1>7. ASSUME NEW k \in 1..Len(q), q[k] # r
        PROVE  \E n \in 1..Len(q) - 1 : w[n] = q[k]
    <2>1. CASE k < at
      BY <1>1, <1>2, <2>1
    <2>2. CASE ~(k < at)
      <3>1. k - 1 \in 1..Len(q) - 1 /\ ~(k - 1 < at)
        BY <1>1, <1>7, <2>2
      <3>2. (k - 1) + 1 = k
        OBVIOUS
      <3>3. w[k - 1] = q[k]
        BY <1>2, <3>1, <3>2
      <3> QED
        BY <3>1, <3>3
    <2> QED
      BY <2>1, <2>2
  <1> QED
    BY <1>4, <1>5, <1>6, <1>7 DEF w
-----------------------------------------------------------------------------
(* A connection given back leaves every count as it was: it is free, or the *)
(* first waiter's.                                                          *)
LEMMA ReleaseKeeps ==
    ASSUME Inv, NEW r \in Requests, step[r] = "hold", NEW x \in {"idle", "ask"},
           Release(Target(r), [step EXCEPT ![r] = x]),
           UNCHANGED <<phase, reads>>,
           \A q \in Requests \ {r} : calls'[q] = calls[q]
    PROVE  /\ free' \in [Pools -> 0..PoolSize]
           /\ queue' \in [Pools -> Seq(Requests)]
           /\ step' \in [Requests -> {"idle", "ask", "wait", "hold"}]
           /\ \A q \in Requests \ {r} : step[q] # "wait" => step'[q] = step[q]
           /\ \A q \in Requests \ {r} : step'[q] = "idle" <=> step[q] = "idle"
           /\ step'[r] = x
           /\ Waits' /\ Counts'
  <1>0. PICK p \in Pools : p = Target(r)
    BY TargetType DEF Inv
  <1>1. p \in Open /\ Open' = Open /\ Open \subseteq Pools
    <2>1. 1 \in 1..Len(calls[r])
      BY TargetType DEF Inv
    <2>2. p \in {"primary", reads}
      BY <1>0, <2>1 DEF Inv, Routed, Target
    <2> QED
      BY <2>1, <2>2 DEF Open, Inv, Quiet, TypeOK, Pools
  <1>2. \A q \in Requests \ {r} : Target(q)' = Target(q)
    BY DEF Target
  <1>3. r \in Holders(p) /\ \A o \in Pools : IsFiniteSet(Holders(o)) /\ Cardinality(Holders(o)) \in Nat
    BY <1>0, PoolAssumptions, FS_Subset, FS_CardinalityType DEF Holders
  <1>4. \A o \in Open : Cardinality(Holders(o)) = PoolSize - free[o] /\ free[o] \in 0..PoolSize
    BY <1>1, <1>3 DEF Inv, Counts, NothingLeaks, TypeOK
  <1>5. CASE queue[p] = <<>>
    <2>1. /\ free' = [free EXCEPT ![p] = @ + 1] /\ queue' = queue
          /\ step' = [step EXCEPT ![r] = x]
      BY <1>0, <1>5 DEF Release
    <2>0. step' \in [Requests -> {"idle", "ask", "wait", "hold"}]
          /\ step'[r] = x /\ \A q \in Requests \ {r} : step'[q] = step[q]
      BY <2>1 DEF Inv, TypeOK
    <2>2. Holders(p)' = Holders(p) \ {r} /\ \A o \in Pools \ {p} : Holders(o)' = Holders(o)
      BY <1>0, <1>2, <2>0 DEF Holders
    <2>3. Cardinality(Holders(p)') = Cardinality(Holders(p)) - 1
      BY <1>3, <2>2, FS_RemoveElement
    <2>4. NothingLeaks' /\ free' \in [Pools -> 0..PoolSize]
      <3>1. free[p] + 1 \in 0..PoolSize
        <4>1. Cardinality(Holders(p)) \in Nat \ {0}
          BY <1>3, FS_EmptySet
        <4>2. Cardinality(Holders(p)) = PoolSize - free[p] /\ free[p] \in 0..PoolSize
          BY <1>1, <1>4
        <4> HIDE DEF PoolSize
        <4> QED
          BY <4>1, <4>2, PoolNeverEmpty
      <3>2. free' \in [Pools -> 0..PoolSize] /\ free'[p] = free[p] + 1
        BY <1>1, <2>1, <3>1 DEF Inv, TypeOK
      <3>3. \A o \in Open' : free'[o] + Cardinality(Holders(o)') = PoolSize
        <4> SUFFICES ASSUME NEW o \in Open PROVE free'[o] + Cardinality(Holders(o)') = PoolSize
          BY <1>1
        <4>0. free[o] + Cardinality(Holders(o)) = PoolSize /\ o \in Pools /\ free[o] \in Nat
              /\ Cardinality(Holders(o)) \in Nat
          BY <1>1, <1>3 DEF Inv, TypeOK, Counts, NothingLeaks
        <4>1. CASE o = p
          BY <2>3, <3>2, <4>0, <4>1
        <4>2. CASE o # p
          <5>1. Holders(o)' = Holders(o) /\ free'[o] = free[o]
            BY <2>1, <2>2, <4>0, <4>2 DEF Inv, TypeOK
          <5> QED
            BY <4>0, <5>1
        <4> QED
          BY <4>1, <4>2
      <3> QED
        BY <3>2, <3>3 DEF NothingLeaks
    <2>5. NobodyWaitsInVain'
      BY <1>1, <1>5, <2>1 DEF NobodyWaitsInVain, Inv, Counts, TypeOK
    <2>6. Waits'
      <3>1. \A o \in Pools : QueueOf(o)'
        <4> SUFFICES ASSUME NEW o \in Pools PROVE QueueOf(o)'
          OBVIOUS
        <4>1. QueueOf(o) /\ queue[o] \in Seq(Requests)
          BY DEF Inv, Waits, Queues, TypeOK
        <4>2. \A n \in 1..Len(queue[o]) : queue[o][n] \in Requests \ {r}
          BY <4>1 DEF QueueOf
        <4> QED
          BY <1>2, <2>0, <2>1, <4>1, <4>2 DEF QueueOf
      <3>2. Queued'
        BY <1>2, <2>0, <2>1 DEF Inv, Waits, Queued
      <3> QED
        BY <3>1, <3>2 DEF Waits, Queues
    <2> QED
      BY <2>0, <2>1, <2>4, <2>5, <2>6 DEF Counts, Inv, TypeOK
  <1>6. CASE queue[p] # <<>>
    <2>0. PICK h : h = Head(queue[p])
      OBVIOUS
    <2>1. /\ queue' = [queue EXCEPT ![p] = Tail(@)] /\ free' = free
          /\ step' = [[step EXCEPT ![r] = x] EXCEPT ![h] = "hold"]
      BY <1>0, <1>6, <2>0 DEF Release
    <2>2. /\ queue[p] \in Seq(Requests) /\ h = queue[p][1] /\ h \in Requests
          /\ Len(queue[p]) \in Nat \ {0}
      BY <1>6, <2>0 DEF Inv, TypeOK
    <2>3. step[h] = "wait" /\ Target(h) = p /\ h # r
      BY <1>1, <2>2 DEF Inv, Waits, Queues, QueueOf
    <2>4. /\ Tail(queue[p]) \in Seq(Requests) /\ Len(Tail(queue[p])) = Len(queue[p]) - 1
          /\ \A n \in 1..Len(queue[p]) - 1 : Tail(queue[p])[n] = queue[p][n + 1]
      BY <1>6, <2>2, HeadTailProperties
    <2>5. /\ step' \in [Requests -> {"idle", "ask", "wait", "hold"}]
          /\ step'[r] = x /\ step'[h] = "hold"
          /\ \A q \in Requests \ {r, h} : step'[q] = step[q]
      <3>1. step \in [Requests -> {"idle", "ask", "wait", "hold"}]
        BY DEF Inv, TypeOK
      <3> QED
        BY <2>1, <2>2, <2>3, <3>1
    <2>6. /\ Holders(p)' = (Holders(p) \ {r}) \cup {h} /\ h \notin Holders(p)
          /\ \A o \in Pools \ {p} : Holders(o)' = Holders(o)
      <3>1. h \notin Holders(p)
        BY <2>3 DEF Holders
      <3>2. Target(h)' = p /\ step'[r] # "hold"
        BY <1>2, <2>2, <2>3, <2>5
      <3>3. \A o \in Pools : \A q \in Requests \ {r, h} : q \in Holders(o)' <=> q \in Holders(o)
        BY <1>2, <2>5 DEF Holders
      <3>4. \A o \in Pools : r \notin Holders(o)' /\ (h \in Holders(o)' <=> o = p)
        BY <2>2, <2>5, <3>2 DEF Holders
      <3>5. \A o \in Pools \ {p} : r \notin Holders(o) /\ h \notin Holders(o)
        BY <1>0, <2>3 DEF Holders
      <3>6. \A o \in Pools : Holders(o) \subseteq Requests /\ Holders(o)' \subseteq Requests
        BY DEF Holders
      <3>7. ASSUME NEW o \in Pools, o # p PROVE Holders(o)' = Holders(o)
        <4>1. \A q \in Requests : q \in Holders(o)' <=> q \in Holders(o)
          BY <3>3, <3>4, <3>5, <3>7
        <4> QED
          BY <3>6, <4>1
      <3>8. Holders(p)' = (Holders(p) \ {r}) \cup {h}
        <4>1. \A q \in Requests : q \in Holders(p)' <=> q \in (Holders(p) \ {r}) \cup {h}
          BY <2>3, <3>3, <3>4
        <4>2. Holders(p) \subseteq Requests /\ Holders(p)' \subseteq Requests /\ h \in Requests
          BY <2>2, <3>6
        <4> QED
          BY <4>1, <4>2
      <3> QED
        BY <3>1, <3>7, <3>8
    <2>7. Cardinality(Holders(p)') = Cardinality(Holders(p))
      <3>1. IsFiniteSet(Holders(p)) /\ r \in Holders(p) /\ Cardinality(Holders(p)) \in Nat
        BY <1>3
      <3>2. /\ IsFiniteSet(Holders(p) \ {r})
            /\ Cardinality(Holders(p) \ {r}) = Cardinality(Holders(p)) - 1
        BY <3>1, FS_RemoveElement
      <3>3. Cardinality((Holders(p) \ {r}) \cup {h}) = Cardinality(Holders(p) \ {r}) + 1
        BY <2>6, <3>2, FS_AddElement
      <3> QED
        BY <2>6, <3>1, <3>2, <3>3
    <2>8. NothingLeaks'
      BY <1>1, <2>1, <2>6, <2>7 DEF NothingLeaks, Inv, Counts
    <2>9. NobodyWaitsInVain'
      BY <1>1, <1>6, <2>1 DEF NobodyWaitsInVain, Inv, Counts, TypeOK
    <2>10. /\ queue' \in [Pools -> Seq(Requests)] /\ queue'[p] = Tail(queue[p])
           /\ \A o \in Pools \ {p} : queue'[o] = queue[o]
      BY <1>1, <2>1, <2>4 DEF Inv, TypeOK
    <2>11. Queues'
      <3> SUFFICES ASSUME NEW o \in Pools PROVE QueueOf(o)'
        BY DEF Queues
      <3>1. QueueOf(o) /\ QueueOf(p) /\ queue[o] \in Seq(Requests)
        BY <1>1 DEF Inv, Waits, Queues, TypeOK
      <3>2. CASE o = p
        <4>1. \A n \in 1..Len(queue[p]) - 1 :
                  n + 1 \in 1..Len(queue[p]) /\ queue[p][n + 1] \in Requests \ {r, h}
          <5>1. SUFFICES ASSUME NEW n \in 1..Len(queue[p]) - 1
                PROVE n + 1 \in 1..Len(queue[p]) /\ queue[p][n + 1] \in Requests \ {r, h}
            OBVIOUS
          <5>2. n + 1 \in 1..Len(queue[p]) /\ 1 \in 1..Len(queue[p]) /\ n + 1 # 1
            BY <2>2
          <5>3. queue[p][n + 1] \in Requests
            BY <2>2, <5>2, ElementOfSeq
          <5>4. queue[p][n + 1] # h /\ step[queue[p][n + 1]] = "wait"
            BY <2>2, <3>1, <5>2 DEF QueueOf
          <5> QED
            BY <5>2, <5>3, <5>4
        <4>2. \A n \in 1..Len(queue'[p]) :
                  step'[queue'[p][n]] = "wait" /\ calls'[queue'[p][n]][1] = p
          <5> SUFFICES ASSUME NEW n \in 1..Len(queue'[p])
                       PROVE  step'[queue'[p][n]] = "wait" /\ calls'[queue'[p][n]][1] = p
            OBVIOUS
          <5>1. n \in 1..Len(queue[p]) - 1 /\ queue'[p][n] = queue[p][n + 1]
            BY <2>4, <2>10
          <5>2. step[queue[p][n + 1]] = "wait" /\ Target(queue[p][n + 1]) = p
            BY <3>1, <4>1, <5>1 DEF QueueOf
          <5>3. PICK q \in Requests \ {r, h} : q = queue[p][n + 1]
            BY <4>1, <5>1
          <5>4. Target(q)' = Target(q) /\ step'[q] = step[q]
            BY <1>2, <2>5, <5>3
          <5>5. calls'[q] = calls[q]
            BY <5>3
          <5>6. step'[q] = "wait" /\ calls'[q][1] = p /\ queue'[p][n] = q
            BY <5>1, <5>2, <5>3, <5>4, <5>5 DEF Target
          <5> QED
            BY <5>6
        <4>3. \A m, n \in 1..Len(queue'[p]) : queue'[p][m] = queue'[p][n] => m = n
          <5> SUFFICES ASSUME NEW m \in 1..Len(queue'[p]), NEW n \in 1..Len(queue'[p]),
                              queue'[p][m] = queue'[p][n]
                       PROVE  m = n
            OBVIOUS
          <5>1. /\ m \in 1..Len(queue[p]) - 1 /\ n \in 1..Len(queue[p]) - 1
                /\ queue[p][m + 1] = queue[p][n + 1]
            BY <2>4, <2>10
          <5>2. m + 1 = n + 1
            BY <3>1, <4>1, <5>1 DEF QueueOf
          <5> QED
            BY <5>1, <5>2
        <4> QED
          BY <3>2, <4>2, <4>3 DEF QueueOf, Target
      <3>3. CASE o # p
        <4>1. \A n \in 1..Len(queue[o]) : queue[o][n] \in Requests \ {r, h}
          BY <2>3, <3>1, <3>3, ElementOfSeq DEF QueueOf
        <4>2. queue'[o] = queue[o]
          BY <2>10, <3>3
        <4>3. \A n \in 1..Len(queue[o]) :
                  step'[queue[o][n]] = "wait" /\ calls'[queue[o][n]][1] = o
          BY <2>5, <3>1, <4>1 DEF QueueOf, Target
        <4> QED
          BY <3>1, <4>2, <4>3 DEF QueueOf, Target
      <3> QED
        BY <3>2, <3>3
    <2>12. Queued'
      <3> SUFFICES ASSUME NEW q \in Requests, step'[q] = "wait"
                   PROVE  \E n \in 1..Len(queue'[Target(q)']) : queue'[Target(q)'][n] = q
        BY DEF Queued
      <3>1. q # r /\ q # h /\ step[q] = "wait" /\ Target(q)' = Target(q) /\ Target(q) \in Pools
        BY <1>2, <2>5, TargetType DEF Inv, TypeOK
      <3>2. PICK n \in 1..Len(queue[Target(q)]) : queue[Target(q)][n] = q
        BY <3>1 DEF Inv, Waits, Queued
      <3>3. CASE Target(q) = p
        <4>1. n # 1 /\ n - 1 \in 1..Len(queue[p]) - 1 /\ (n - 1) + 1 = n
          BY <2>2, <3>1, <3>2, <3>3
        <4>2. Tail(queue[p])[n - 1] = q
          BY <2>4, <3>2, <3>3, <4>1
        <4>3. n - 1 \in 1..Len(queue'[p]) /\ queue'[p][n - 1] = q
          BY <2>4, <2>10, <4>1, <4>2
        <4>4. Target(q)' = p
          BY <3>1, <3>3
        <4> QED
          BY <4>3, <4>4
      <3>4. CASE Target(q) # p
        BY <2>10, <3>1, <3>2, <3>4
      <3> QED
        BY <3>3, <3>4
    <2> QED
      BY <2>1, <2>2, <2>3, <2>5, <2>8, <2>9, <2>10, <2>11, <2>12 DEF Waits, Counts, Inv, TypeOK
  <1> QED
    BY <1>5, <1>6

(* What moves no request into or out of a queue or a connection keeps both. *)
LEMMA StillKeeps ==
    ASSUME Inv, UNCHANGED <<free, queue>>, Open' = Open,
           \A q \in Requests :
              \/ step'[q] = step[q] /\ calls'[q] = calls[q]
              \/ step[q] \notin {"wait", "hold"} /\ step'[q] \notin {"wait", "hold"}
    PROVE  Waits' /\ Counts'
  <1>1. \A o \in Pools : Holders(o)' = Holders(o)
    <2> SUFFICES ASSUME NEW o \in Pools PROVE Holders(o)' = Holders(o)
      OBVIOUS
    <2>1. \A q \in Requests : q \in Holders(o)' <=> q \in Holders(o)
      BY DEF Holders, Target
    <2> QED
      BY <2>1 DEF Holders
  <1>2. Open \subseteq Pools
    BY DEF Open, Inv, TypeOK, Pools
  <1>3. Counts'
    BY <1>1, <1>2 DEF Inv, Counts, NothingLeaks, NobodyWaitsInVain
  <1>4. ASSUME NEW o \in Pools PROVE QueueOf(o)'
    <2>1. QueueOf(o) /\ queue[o] \in Seq(Requests)
      BY DEF Inv, TypeOK, Waits, Queues
    <2>2. \A n \in 1..Len(queue[o]) : step'[queue[o][n]] = "wait" /\ calls'[queue[o][n]][1] = o
      BY <2>1, ElementOfSeq DEF QueueOf, Target
    <2> QED
      BY <2>1, <2>2 DEF QueueOf, Target
  <1>5. Queued'
    BY DEF Inv, Waits, Queued, Target
  <1> QED
    BY <1>3, <1>4, <1>5 DEF Waits, Queues

(* A request that asks holds a connection next, or is last in the queue. *)
LEMMA AcquireKeeps ==
    ASSUME Inv, NEW r \in Requests, Acquire(r)
    PROVE  /\ free' \in [Pools -> 0..PoolSize]
           /\ queue' \in [Pools -> Seq(Requests)]
           /\ \E x \in {"wait", "hold"} : step' = [step EXCEPT ![r] = x]
           /\ Waits' /\ Counts'
  <1>0. PICK p \in Pools : p = Target(r)
    BY TargetType DEF Inv, Acquire
  <1>1. /\ step[r] = "ask" /\ Open' = Open /\ Open \subseteq Pools /\ p \in Open
        /\ calls' = calls /\ step \in [Requests -> {"idle", "ask", "wait", "hold"}]
    <2>1. 1 \in 1..Len(calls[r])
      BY TargetType DEF Inv, Acquire
    <2>2. p \in {"primary", reads}
      BY <1>0, <2>1 DEF Inv, Routed, Target
    <2> QED
      BY <2>2 DEF Acquire, Open, Inv, TypeOK, Pools
  <1>2. /\ free[p] \in 0..PoolSize /\ queue[p] \in Seq(Requests) /\ QueueOf(p)
        /\ free[p] + Cardinality(Holders(p)) = PoolSize
        /\ IsFiniteSet(Holders(p)) /\ Cardinality(Holders(p)) \in Nat
    <2>1. IsFiniteSet(Holders(p))
      BY PoolAssumptions, FS_Subset DEF Holders
    <2> QED
      BY <1>1, <2>1, FS_CardinalityType DEF Inv, TypeOK, Waits, Queues, Counts, NothingLeaks
  <1>3. \A o \in Pools : \A n \in 1..Len(queue[o]) : queue[o][n] \in Requests \ {r}
    BY <1>1, ElementOfSeq DEF Inv, TypeOK, Waits, Queues, QueueOf
  <1>4. ASSUME NEW x \in {"wait", "hold"}, step' = [step EXCEPT ![r] = x]
        PROVE  /\ \A o \in Pools \ {p} : Holders(o)' = Holders(o)
               /\ Holders(p)' = IF x = "hold" THEN Holders(p) \cup {r} ELSE Holders(p)
               /\ r \notin Holders(p)
    BY <1>0, <1>1, <1>4 DEF Holders, Target
  <1>5. ASSUME NEW x \in {"wait", "hold"}, step' = [step EXCEPT ![r] = x],
               NEW o \in Pools, queue'[o] = queue[o]
        PROVE  QueueOf(o)'
    <2>1. QueueOf(o)
      BY DEF Inv, Waits, Queues
    <2>2. \A n \in 1..Len(queue[o]) : step'[queue[o][n]] = "wait" /\ calls'[queue[o][n]][1] = o
      BY <1>1, <1>3, <1>5, <2>1 DEF QueueOf, Target
    <2> QED
      BY <1>5, <2>1, <2>2 DEF QueueOf, Target
  <1>6. CASE free[p] > 0 /\ queue[p] = <<>>
    <2>1. free' = [free EXCEPT ![p] = @ - 1] /\ queue' = queue /\ step' = [step EXCEPT ![r] = "hold"]
      BY <1>0, <1>6 DEF Acquire
    <2>2. free' \in [Pools -> 0..PoolSize] /\ free'[p] = free[p] - 1
      <3>1. free[p] - 1 \in 0..PoolSize
        <4> HIDE DEF PoolSize
        <4> QED
          BY <1>2, <1>6, PoolNeverEmpty
      <3> QED
        BY <2>1, <3>1 DEF Inv, TypeOK
    <2>3. Cardinality(Holders(p)') = Cardinality(Holders(p)) + 1
      BY <1>2, <1>4, <2>1, FS_AddElement
    <2>4. NothingLeaks'
      <3> SUFFICES ASSUME NEW o \in Open PROVE (free[o] + Cardinality(Holders(o)) = PoolSize)'
        BY <1>1 DEF NothingLeaks
      <3>1. CASE o = p
        BY <1>2, <2>2, <2>3, <3>1
      <3>2. CASE o # p
        <4>1. free'[o] = free[o] /\ Holders(o)' = Holders(o)
          BY <1>1, <1>4, <2>1, <3>2 DEF Inv, TypeOK
        <4>2. free[o] + Cardinality(Holders(o)) = PoolSize
          BY DEF Inv, Counts, NothingLeaks
        <4> QED
          BY <4>1, <4>2
      <3> QED
        BY <3>1, <3>2
    <2>5. NobodyWaitsInVain'
      BY <1>1, <1>6, <2>1 DEF NobodyWaitsInVain, Inv, Counts, TypeOK
    <2>6. Queues'
      BY <1>5, <2>1 DEF Queues
    <2>7. Queued'
      BY <1>1, <2>1 DEF Queued, Target, Inv, Waits
    <2> QED
      BY <2>1, <2>2, <2>4, <2>5, <2>6, <2>7 DEF Inv, TypeOK, Waits, Counts
  <1>7. CASE ~(free[p] > 0 /\ queue[p] = <<>>)
    <2>1. free' = free /\ queue' = [queue EXCEPT ![p] = Append(@, r)] /\ step' = [step EXCEPT ![r] = "wait"]
      BY <1>0, <1>7 DEF Acquire
    <2>2. /\ queue'[p] = Append(queue[p], r) /\ queue' \in [Pools -> Seq(Requests)]
          /\ \A o \in Pools \ {p} : queue'[o] = queue[o]
      BY <1>2, <2>1 DEF Inv, TypeOK
    <2>3. /\ Len(queue'[p]) = Len(queue[p]) + 1 /\ Len(queue[p]) \in Nat
          /\ queue'[p][Len(queue[p]) + 1] = r
          /\ \A n \in 1..Len(queue[p]) : queue'[p][n] = queue[p][n]
      BY <1>2, <2>2, AppendProperties
    <2>4. \A o \in Pools : Holders(o)' = Holders(o)
      BY <1>4, <2>1
    <2>5. NothingLeaks'
      BY <1>1, <2>1, <2>4 DEF NothingLeaks, Inv, Counts
    <2>6. NobodyWaitsInVain'
      <3>1. free[p] = 0
        <4>1. queue[p] # <<>> => free[p] = 0
          BY <1>1 DEF Inv, Counts, NobodyWaitsInVain
        <4>2. free[p] \in Nat
          BY <1>2
        <4> QED
          BY <1>7, <4>1, <4>2
      <3> QED
        BY <1>1, <2>1, <2>2, <3>1 DEF NobodyWaitsInVain, Inv, Counts
    <2>7. QueueOf(p)'
      <3>1. ASSUME NEW n \in 1..Len(queue'[p])
            PROVE  step'[queue'[p][n]] = "wait" /\ calls'[queue'[p][n]][1] = p
        <4>1. CASE n = Len(queue[p]) + 1
          <5>1. queue'[p][n] = r
            BY <2>3, <4>1
          <5>2. step'[r] = "wait"
            BY <2>1 DEF Inv, TypeOK
          <5>3. calls'[r][1] = p
            BY <1>0, <1>1 DEF Target
          <5> QED
            BY <5>1, <5>2, <5>3
        <4>2. CASE n # Len(queue[p]) + 1
          <5>1. n \in 1..Len(queue[p]) /\ queue'[p][n] = queue[p][n]
            BY <2>3, <4>2
          <5>2. queue[p][n] \in Requests \ {r} /\ step[queue[p][n]] = "wait" /\ calls[queue[p][n]][1] = p
            BY <1>2, <1>3, <5>1 DEF QueueOf, Target
          <5> QED
            BY <1>1, <2>1, <5>1, <5>2
        <4> QED
          BY <4>1, <4>2
      <3>2. ASSUME NEW m \in 1..Len(queue'[p]), NEW n \in 1..Len(queue'[p]), queue'[p][m] = queue'[p][n]
            PROVE  m = n
        <4>1. \A k \in 1..Len(queue'[p]) : k # Len(queue[p]) + 1 =>
                  k \in 1..Len(queue[p]) /\ queue'[p][k] = queue[p][k] /\ queue[p][k] # r
          BY <1>3, <2>3
        <4>2. \A k, l \in 1..Len(queue[p]) : queue[p][k] = queue[p][l] => k = l
          BY <1>2 DEF QueueOf
        <4> QED
          BY <2>3, <3>2, <4>1, <4>2
      <3> QED
        BY <3>1, <3>2 DEF QueueOf, Target
    <2>8. Queues'
      BY <1>5, <2>1, <2>2, <2>7 DEF Queues
    <2>9. Queued'
      <3> SUFFICES ASSUME NEW q \in Requests, step'[q] = "wait"
                   PROVE  \E n \in 1..Len(queue'[Target(q)]) : queue'[Target(q)][n] = q
        BY <1>1 DEF Queued, Target
      <3>1. CASE q = r
        <4>1. Len(queue[p]) + 1 \in 1..Len(queue'[p])
          BY <2>3
        <4> QED
          BY <1>0, <2>3, <3>1, <4>1
      <3>2. CASE q # r
        <4>1. step[q] = "wait" /\ Target(q) \in Pools
          BY <1>1, <2>1, <3>2, TargetType DEF Inv
        <4>2. PICK n \in 1..Len(queue[Target(q)]) : queue[Target(q)][n] = q
          BY <4>1 DEF Inv, Waits, Queued
        <4>3. CASE Target(q) = p
          <5>1. n \in 1..Len(queue'[p]) /\ queue'[p][n] = q
            BY <2>3, <4>2, <4>3
          <5> QED
            BY <4>3, <5>1
        <4>4. CASE Target(q) # p
          BY <2>2, <4>1, <4>2, <4>4
        <4> QED
          BY <4>3, <4>4
      <3> QED
        BY <3>1, <3>2
    <2> QED
      BY <2>1, <2>2, <2>5, <2>6, <2>8, <2>9 DEF Inv, TypeOK, Waits, Counts
  <1> QED
    BY <1>6, <1>7

(* A request that waits may leave its queue, which closes behind it. *)
LEMMA LeaveKeeps ==
    ASSUME Inv, NEW r \in Requests, step[r] = "wait",
           queue' = [queue EXCEPT ![Target(r)] = Without(@, r)],
           step' = [step EXCEPT ![r] = "idle"],
           UNCHANGED <<phase, reads, free>>, Finish(r)
    PROVE  queue' \in [Pools -> Seq(Requests)] /\ Waits' /\ Counts'
  <1>0. PICK p \in Pools : p = Target(r)
    BY TargetType DEF Inv
  <1>1. /\ Open' = Open /\ Open \subseteq Pools
        /\ \A q \in Requests \ {r} : step'[q] = step[q] /\ calls'[q] = calls[q]
        /\ step'[r] = "idle"
    BY DEF Open, Inv, TypeOK, Pools, Finish
  <1>2. queue[p] \in Seq(Requests) /\ QueueOf(p) /\ \E n \in 1..Len(queue[p]) : queue[p][n] = r
    BY <1>0 DEF Inv, TypeOK, Waits, Queues, Queued
  <1> DEFINE w == Without(queue[p], r)
  <1>3. /\ w \in Seq(Requests) /\ Len(w) = Len(queue[p]) - 1
        /\ \A n \in 1..Len(queue[p]) - 1 : \E k \in 1..Len(queue[p]) : w[n] = queue[p][k] /\ queue[p][k] # r
        /\ \A m, n \in 1..Len(queue[p]) - 1 : w[m] = w[n] => m = n
        /\ \A k \in 1..Len(queue[p]) : queue[p][k] # r =>
              \E n \in 1..Len(queue[p]) - 1 : w[n] = queue[p][k]
    <2>1. \A m, n \in 1..Len(queue[p]) : queue[p][m] = queue[p][n] => m = n
      BY <1>2 DEF QueueOf
    <2> DEFINE q == queue[p]
    <2>2. q \in Seq(Requests) /\ \E n \in 1..Len(q) : q[n] = r
      BY <1>2
    <2>3. \A m, n \in 1..Len(q) : q[m] = q[n] => m = n
      BY <2>1
    <2> HIDE DEF q
    <2>4. /\ Without(q, r) \in Seq(Requests)
          /\ Len(Without(q, r)) = Len(q) - 1
          /\ \A n \in 1..Len(q) - 1 :
                \E k \in 1..Len(q) : Without(q, r)[n] = q[k] /\ q[k] # r
          /\ \A m, n \in 1..Len(q) - 1 : Without(q, r)[m] = Without(q, r)[n] => m = n
          /\ \A k \in 1..Len(q) : q[k] # r =>
                \E n \in 1..Len(q) - 1 : Without(q, r)[n] = q[k]
      BY <2>2, <2>3, WithoutFacts
    <2> QED
      BY <2>4 DEF q
  <1> HIDE DEF w
  <1>4. /\ queue' \in [Pools -> Seq(Requests)] /\ queue'[p] = w
        /\ \A o \in Pools \ {p} : queue'[o] = queue[o]
    <2>1. queue' = [queue EXCEPT ![p] = w]
      BY <1>0 DEF w
    <2>2. queue \in [Pools -> Seq(Requests)]
      BY DEF Inv, TypeOK
    <2> QED
      BY <1>3, <2>1, <2>2
  <1>5. \A o \in Pools : Holders(o)' = Holders(o)
    <2> SUFFICES ASSUME NEW o \in Pools PROVE Holders(o)' = Holders(o)
      OBVIOUS
    <2>1. \A q \in Requests : q \in Holders(o)' <=> q \in Holders(o)
      BY <1>1 DEF Holders, Target
    <2> QED
      BY <2>1 DEF Holders
  <1>6. Counts'
    <2>1. \A o \in Open : queue'[o] # <<>> => queue[o] # <<>>
      <3> SUFFICES ASSUME NEW o \in Open, queue'[o] # <<>>, queue[o] = <<>> PROVE FALSE
        OBVIOUS
      <3>1. o # p
        BY <1>2
      <3> QED
        BY <1>1, <1>4, <3>1
    <2> QED
      BY <1>1, <1>5, <2>1 DEF Inv, Counts, NothingLeaks, NobodyWaitsInVain
  <1>7. QueueOf(p)'
    <2>1. ASSUME NEW n \in 1..Len(w) PROVE step'[w[n]] = "wait" /\ calls'[w[n]][1] = p
      <3>1. PICK k \in 1..Len(queue[p]) : w[n] = queue[p][k] /\ queue[p][k] # r
        BY <1>3, <2>1
      <3>2. queue[p][k] \in Requests \ {r} /\ step[queue[p][k]] = "wait" /\ calls[queue[p][k]][1] = p
        BY <1>2, <3>1, ElementOfSeq DEF QueueOf, Target
      <3> QED
        BY <1>1, <3>1, <3>2
    <2> QED
      <3>1. \A n \in 1..Len(w) : step'[w[n]] = "wait" /\ calls'[w[n]][1] = p
        BY <2>1
      <3>2. \A m, n \in 1..Len(w) : w[m] = w[n] => m = n
        <4>1. Len(w) = Len(queue[p]) - 1
          BY <1>3
        <4> QED
          BY <1>3, <4>1
      <3>3. queue'[p] = w
        BY <1>4
      <3>4. \A n \in 1..Len(queue'[p]) : step'[queue'[p][n]] = "wait" /\ calls'[queue'[p][n]][1] = p
        BY <3>1, <3>3
      <3>5. \A m, n \in 1..Len(queue'[p]) : queue'[p][m] = queue'[p][n] => m = n
        BY <3>2, <3>3
      <3> QED
        BY <3>4, <3>5 DEF QueueOf, Target
  <1>8. ASSUME NEW o \in Pools, o # p PROVE QueueOf(o)'
    <2>1. QueueOf(o) /\ queue[o] \in Seq(Requests) /\ queue'[o] = queue[o]
      BY <1>4, <1>8 DEF Inv, TypeOK, Waits, Queues
    <2>2. \A n \in 1..Len(queue[o]) : queue[o][n] \in Requests \ {r}
      BY <1>0, <1>8, <2>1, ElementOfSeq DEF QueueOf
    <2>3. \A n \in 1..Len(queue[o]) : step'[queue[o][n]] = "wait" /\ calls'[queue[o][n]][1] = o
      BY <1>1, <2>1, <2>2 DEF QueueOf, Target
    <2>4. \A m, n \in 1..Len(queue[o]) : queue[o][m] = queue[o][n] => m = n
      BY <2>1 DEF QueueOf
    <2> QED
      BY <2>1, <2>3, <2>4 DEF QueueOf, Target
  <1>9. Queued'
    <2> SUFFICES ASSUME NEW q \in Requests, step'[q] = "wait"
                 PROVE  \E n \in 1..Len(queue'[calls'[q][1]]) : queue'[calls'[q][1]][n] = q
      BY DEF Queued, Target
    <2>1. q # r /\ step[q] = "wait" /\ calls'[q] = calls[q] /\ Target(q) \in Pools
      BY <1>1, TargetType DEF Inv
    <2>2. PICK k \in 1..Len(queue[Target(q)]) : queue[Target(q)][k] = q
      BY <2>1 DEF Inv, Waits, Queued
    <2>3. CASE Target(q) = p
      <3>0. k \in 1..Len(queue[p]) /\ queue[p][k] = q /\ queue[p][k] # r
        BY <2>1, <2>2, <2>3
      <3>1. PICK n \in 1..Len(queue[p]) - 1 : w[n] = q
        BY <1>3, <3>0
      <3> QED
        BY <1>3, <1>4, <2>1, <2>3, <3>1 DEF Target
    <2>4. CASE Target(q) # p
      BY <1>4, <2>1, <2>2, <2>4 DEF Target
    <2> QED
      BY <2>3, <2>4
  <1> QED
    BY <1>4, <1>6, <1>7, <1>8, <1>9 DEF Waits, Queues

(* A request may end while it holds a connection. *)
LEMMA EndKeeps ==
    ASSUME Inv, NEW r \in Requests, step[r] = "hold",
           Release(Target(r), [step EXCEPT ![r] = "idle"]), Finish(r),
           hung' = hung \ {r}, UNCHANGED <<phase, reads>>
    PROVE  Inv'
  <1>1. \A q \in Requests \ {r} : calls'[q] = calls[q]
    BY DEF Finish, Inv, TypeOK
  <1>2. /\ free' \in [Pools -> 0..PoolSize]
        /\ queue' \in [Pools -> Seq(Requests)]
        /\ step' \in [Requests -> {"idle", "ask", "wait", "hold"}]
        /\ \A q \in Requests \ {r} : step[q] # "wait" => step'[q] = step[q]
        /\ \A q \in Requests \ {r} : step'[q] = "idle" <=> step[q] = "idle"
        /\ step'[r] = "idle"
        /\ Waits' /\ Counts'
    BY <1>1, ReleaseKeeps
  <1>3. calls'[r] = <<>> /\ calls' \in [Requests -> Seq(Pools)] /\ kind' \in [Requests -> Kinds \cup {NoKind}]
    BY DEF Finish, Inv, TypeOK
  <1>4. TypeOK'
    <2>1. hung' \subseteq {q \in Requests : step'[q] = "hold"}
      BY <1>2 DEF Inv, TypeOK
    <2>2. \A q \in Requests : step'[q] # "idle" => calls'[q] # <<>>
      BY <1>1, <1>2 DEF Inv, TypeOK
    <2>3. phase' \in {"down", "serving", "draining"} /\ reads' \in Pools
      BY DEF Inv, TypeOK
    <2> QED
      BY <1>2, <1>3, <2>1, <2>2, <2>3 DEF TypeOK
  <1>5. Routed'
    <2>1. Len(calls'[r]) = 0
      BY <1>3
    <2> QED
      BY <1>1, <2>1 DEF Inv, Routed
  <1>6. Quiet' /\ Rest'
    BY <1>1, <1>2, <1>3 DEF Inv, Quiet, Rest
  <1> QED
    BY <1>2, <1>4, <1>5, <1>6 DEF Inv
-----------------------------------------------------------------------------
(* The steps that move a request without ending it. *)

LEMMA ConnectStep == ASSUME Inv, Connect PROVE Inv'
  <1>1. /\ phase' = "serving" /\ reads' \in Pools
        /\ free' = [o \in Pools |-> IF o \in {"primary", reads'} THEN PoolSize ELSE 0]
        /\ UNCHANGED <<queue, kind, step, calls, hung>>
        /\ \A r \in Requests : step[r] = "idle" /\ calls[r] = <<>>
    BY DEF Connect, Inv, Quiet, Rest
  <1>2. PoolSize \in Nat /\ 0 \in 0..PoolSize /\ PoolSize \in 0..PoolSize
    <2> HIDE DEF PoolSize
    <2> QED
      BY PoolNeverEmpty
  <1>3. free' \in [Pools -> 0..PoolSize]
    BY <1>1, <1>2
  <1>4. TypeOK'
    BY <1>1, <1>3 DEF Inv, TypeOK
  <1>5. \A o \in Pools : Len(queue[o]) = 0 /\ queue[o] = <<>>
    <2> SUFFICES ASSUME NEW o \in Pools PROVE Len(queue[o]) = 0 /\ queue[o] = <<>>
      OBVIOUS
    <2>1. queue[o] \in Seq(Requests)
      BY DEF Inv, TypeOK
    <2>2. \A n \in 1..Len(queue[o]) : queue[o][n] \in Requests /\ step[queue[o][n]] = "wait"
      BY <2>1, ElementOfSeq DEF Inv, Waits, Queues, QueueOf
    <2>3. 1 \notin 1..Len(queue[o])
      BY <1>1, <2>2
    <2> QED
      BY <2>1, <2>3
  <1>6. Waits'
    BY <1>1, <1>5 DEF Waits, Queues, QueueOf, Queued
  <1>7. Counts'
    <2>1. Open' = {"primary", reads'} /\ Open' \subseteq Pools
      BY <1>1 DEF Open, Pools
    <2>2. \A o \in Pools : Holders(o)' = {}
      BY <1>1 DEF Holders
    <2>3. \A o \in Open' : free'[o] = PoolSize /\ Cardinality(Holders(o)') = 0
      BY <1>1, <2>1, <2>2, FS_EmptySet
    <2>4. NothingLeaks'
      BY <1>2, <2>3 DEF NothingLeaks
    <2>5. NobodyWaitsInVain'
      BY <1>1, <1>5, <2>1 DEF NobodyWaitsInVain
    <2> QED
      BY <2>4, <2>5 DEF Counts
  <1>8. Routed' /\ Quiet' /\ Rest'
    BY <1>1 DEF Routed, Quiet, Rest
  <1> QED
    BY <1>4, <1>6, <1>7, <1>8 DEF Inv

LEMMA ArriveStep == ASSUME Inv, NEW r \in Requests, Arrive(r) PROVE Inv'
  <1>0. PICK k \in Kinds : \E plan \in Plans(k, reads) :
            kind' = [kind EXCEPT ![r] = k] /\ calls' = [calls EXCEPT ![r] = plan]
    BY DEF Arrive
  <1>1. PICK plan \in Plans(k, reads) :
            kind' = [kind EXCEPT ![r] = k] /\ calls' = [calls EXCEPT ![r] = plan]
    BY <1>0
  <1>2. /\ plan \in Seq(Pools) /\ plan # <<>>
        /\ \A n \in 1..Len(plan) : plan[n] \in {"primary", reads}
    <2>1. reads \in Pools
      BY DEF Inv, TypeOK
    <2>2. plan \in {<<reads>>, <<"primary">>, <<reads, "primary">>, <<"primary", "primary">>}
      BY <1>1 DEF Plans, Kinds
    <2>3. ASSUME NEW o \in {"primary", reads}, plan = <<o>>
          PROVE  plan \in Seq(Pools) /\ plan # <<>> /\ \A n \in 1..Len(plan) : plan[n] \in {"primary", reads}
      <3>1. o \in Pools
        BY <2>1 DEF Pools
      <3> QED
        BY <2>3, <3>1
    <2>4. CASE plan = <<reads, "primary">>
      BY <2>1, <2>4 DEF Pools
    <2>5. CASE plan = <<"primary", "primary">>
      BY <2>5 DEF Pools
    <2> QED
      BY <2>2, <2>3, <2>4, <2>5
  <1>3. /\ step[r] = "idle" /\ step' = [step EXCEPT ![r] = "ask"]
        /\ UNCHANGED <<phase, reads, free, queue, hung>> /\ phase = "serving"
    BY DEF Arrive
  <1>4. /\ step'[r] = "ask" /\ calls'[r] = plan
        /\ \A q \in Requests \ {r} : step'[q] = step[q] /\ calls'[q] = calls[q]
    BY <1>1, <1>3 DEF Inv, TypeOK
  <1>5. TypeOK'
    <2>1. hung' \subseteq {q \in Requests : step'[q] = "hold"}
      BY <1>3, <1>4 DEF Inv, TypeOK
    <2>2. \A q \in Requests : step'[q] # "idle" => calls'[q] # <<>>
      BY <1>2, <1>4 DEF Inv, TypeOK
    <2> QED
      BY <1>1, <1>2, <1>3, <2>1, <2>2 DEF Inv, TypeOK
  <1>6. Open' = Open
    BY <1>3 DEF Open
  <1>7. Waits' /\ Counts'
    BY <1>3, <1>4, <1>6, StillKeeps
  <1>8. Routed'
    BY <1>2, <1>3, <1>4 DEF Routed, Inv
  <1>9. Quiet' /\ Rest'
    BY <1>3, <1>4 DEF Quiet, Rest, Inv
  <1> QED
    BY <1>5, <1>7, <1>8, <1>9 DEF Inv

LEMMA AcquireStep == ASSUME Inv, NEW r \in Requests, Acquire(r) PROVE Inv'
  <1>1. PICK x \in {"wait", "hold"} : step' = [step EXCEPT ![r] = x]
    BY AcquireKeeps
  <1>2. step[r] = "ask" /\ UNCHANGED <<phase, reads, kind, calls, hung>> /\ phase = "serving"
    BY DEF Acquire
  <1>3. step'[r] = x /\ \A q \in Requests \ {r} : step'[q] = step[q]
    BY <1>1 DEF Inv, TypeOK
  <1>4. hung' \subseteq {q \in Requests : step'[q] = "hold"}
    BY <1>2, <1>3 DEF Inv, TypeOK
  <1>5. \A q \in Requests : step'[q] # "idle" => calls'[q] # <<>>
    BY <1>2, <1>3 DEF Inv, TypeOK
  <1>6. TypeOK'
    BY <1>1, <1>2, <1>4, <1>5, AcquireKeeps DEF Inv, TypeOK
  <1>7. Routed' /\ Quiet' /\ Rest'
    BY <1>2, <1>3 DEF Routed, Quiet, Rest, Inv
  <1> QED
    BY <1>6, <1>7, AcquireKeeps DEF Inv

LEMMA ReturnStep == ASSUME Inv, NEW r \in Requests, Return(r) PROVE Inv'
  <1>1. CASE Len(calls[r]) = 1
    <2>1. hung' = hung \ {r}
      BY DEF Return
    <2> QED
      BY <1>1, <2>1, EndKeeps DEF Return
  <1>2. CASE Len(calls[r]) # 1
    <2>1. /\ step[r] = "hold" /\ Release(Target(r), [step EXCEPT ![r] = "ask"])
          /\ calls' = [calls EXCEPT ![r] = Tail(@)]
          /\ UNCHANGED <<phase, reads, kind, hung>> /\ r \notin hung
      BY <1>2 DEF Return
    <2>2. \A q \in Requests \ {r} : calls'[q] = calls[q]
      BY <2>1 DEF Inv, TypeOK
    <2>3. calls[r] \in Seq(Pools) /\ calls[r] # <<>> /\ calls'[r] = Tail(calls[r])
      BY <2>1 DEF Inv, TypeOK
    <2>4. /\ Tail(calls[r]) \in Seq(Pools) /\ Len(Tail(calls[r])) = Len(calls[r]) - 1
          /\ Len(calls[r]) \in Nat
          /\ \A n \in 1..Len(calls[r]) - 1 : Tail(calls[r])[n] = calls[r][n + 1]
      BY <2>3, HeadTailProperties
    <2>5. Tail(calls[r]) # <<>>
      <3>1. Len(calls[r]) # 0
        BY <2>3, EmptySeq
      <3>2. Len(Tail(calls[r])) # 0
        BY <1>2, <2>4, <3>1
      <3>3. \A s \in Seq(Pools) : Len(s) # 0 => s # <<>>
        OBVIOUS
      <3> QED
        BY <2>4, <3>2, <3>3
    <2>6. /\ free' \in [Pools -> 0..PoolSize]
          /\ queue' \in [Pools -> Seq(Requests)]
          /\ step' \in [Requests -> {"idle", "ask", "wait", "hold"}]
          /\ \A q \in Requests \ {r} : step[q] # "wait" => step'[q] = step[q]
          /\ \A q \in Requests \ {r} : step'[q] = "idle" <=> step[q] = "idle"
          /\ step'[r] = "ask"
          /\ Waits' /\ Counts'
      BY <2>1, <2>2, ReleaseKeeps
    <2>7. TypeOK'
      <3>1. hung' \subseteq {q \in Requests : step'[q] = "hold"}
        BY <2>1, <2>6 DEF Inv, TypeOK
      <3>2. \A q \in Requests : step'[q] # "idle" => calls'[q] # <<>>
        BY <2>2, <2>3, <2>5, <2>6 DEF Inv, TypeOK
      <3>3. calls' \in [Requests -> Seq(Pools)]
        BY <2>1, <2>4 DEF Inv, TypeOK
      <3>4. phase' \in {"down", "serving", "draining"} /\ reads' \in Pools
            /\ kind' \in [Requests -> Kinds \cup {NoKind}]
        BY <2>1 DEF Inv, TypeOK
      <3> QED
        BY <2>6, <3>1, <3>2, <3>3, <3>4 DEF TypeOK
    <2>8. Routed'
      <3>1. ASSUME NEW n \in 1..Len(calls'[r]) PROVE calls'[r][n] \in {"primary", reads}
        <4>1. n + 1 \in 1..Len(calls[r]) /\ calls'[r][n] = calls[r][n + 1]
          BY <2>3, <2>4
        <4> QED
          BY <4>1 DEF Inv, Routed
      <3> QED
        BY <2>1, <2>2, <3>1 DEF Inv, Routed
    <2>9. Quiet' /\ Rest'
      BY <2>1, <2>2, <2>6 DEF Inv, Quiet, Rest
    <2> QED
      BY <2>6, <2>7, <2>8, <2>9 DEF Inv
  <1> QED
    BY <1>1, <1>2

LEMMA AbandonStep == ASSUME Inv, NEW r \in Requests, Abandon(r) PROVE Inv'
  <1>1. Finish(r) /\ hung' = hung \ {r} /\ UNCHANGED <<phase, reads>>
    BY DEF Abandon
  <1>2. CASE step[r] = "hold" /\ Release(Target(r), [step EXCEPT ![r] = "idle"])
    BY <1>1, <1>2, EndKeeps
  <1>3. CASE /\ step[r] \in {"ask", "wait"}
             /\ step' = [step EXCEPT ![r] = "idle"] /\ free' = free
             /\ queue' \in [Pools -> Seq(Requests)] /\ Waits' /\ Counts'
    <2>1. /\ step'[r] = "idle" /\ calls'[r] = <<>> /\ Len(calls'[r]) = 0
          /\ \A q \in Requests \ {r} : step'[q] = step[q] /\ calls'[q] = calls[q]
      BY <1>1, <1>3 DEF Inv, TypeOK, Finish
    <2>2. TypeOK'
      <3>1. hung' \subseteq {q \in Requests : step'[q] = "hold"}
        BY <1>1, <1>3, <2>1 DEF Inv, TypeOK
      <3>2. \A q \in Requests : step'[q] # "idle" => calls'[q] # <<>>
        BY <2>1 DEF Inv, TypeOK
      <3>3. calls' \in [Requests -> Seq(Pools)] /\ kind' \in [Requests -> Kinds \cup {NoKind}]
        BY <1>1 DEF Inv, TypeOK, Finish
      <3> QED
        BY <1>1, <1>3, <3>1, <3>2, <3>3 DEF Inv, TypeOK
    <2>3. Routed'
      BY <1>1, <2>1 DEF Inv, Routed
    <2>4. Quiet' /\ Rest'
      BY <1>1, <2>1 DEF Inv, Quiet, Rest
    <2> QED
      BY <1>3, <2>2, <2>3, <2>4 DEF Inv
  <1>4. CASE step[r] = "ask" /\ step' = [step EXCEPT ![r] = "idle"] /\ UNCHANGED <<free, queue>>
    <2>1. Open' = Open
      BY <1>1 DEF Open
    <2>2. \A q \in Requests :
              \/ step'[q] = step[q] /\ calls'[q] = calls[q]
              \/ step[q] \notin {"wait", "hold"} /\ step'[q] \notin {"wait", "hold"}
      BY <1>1, <1>4 DEF Inv, TypeOK, Finish
    <2>3. Waits' /\ Counts'
      BY <1>4, <2>1, <2>2, StillKeeps
    <2>4. queue' \in [Pools -> Seq(Requests)]
      BY <1>4 DEF Inv, TypeOK
    <2> QED
      BY <1>3, <1>4, <2>3, <2>4
  <1>5. CASE /\ step[r] = "wait" /\ step' = [step EXCEPT ![r] = "idle"] /\ UNCHANGED free
             /\ queue' = [queue EXCEPT ![Target(r)] = Without(@, r)]
    <2>1. queue' \in [Pools -> Seq(Requests)] /\ Waits' /\ Counts'
      BY <1>1, <1>5, LeaveKeeps
    <2> QED
      BY <1>3, <1>5, <2>1
  <1> QED
    BY <1>2, <1>4, <1>5 DEF Abandon

(* Steps that touch neither requests nor pools, and the ends of the process. *)
LEMMA HangStep == ASSUME Inv, NEW r \in Requests, Hang(r) PROVE Inv'
  <1>1. TypeOK'
    BY DEF Hang, Inv, TypeOK
  <1>2. Open' = Open
    BY DEF Hang, Open
  <1>3. Waits' /\ Counts'
    BY <1>2, StillKeeps DEF Hang
  <1>4. Routed' /\ Quiet' /\ Rest'
    BY DEF Hang, Inv, Routed, Quiet, Rest
  <1> QED
    BY <1>1, <1>3, <1>4 DEF Inv

LEMMA DrainStep == ASSUME Inv, Drain PROVE Inv'
  <1>1. TypeOK'
    BY DEF Drain, Inv, TypeOK
  <1>2. Open' = Open
    BY DEF Drain, Open
  <1>3. Waits' /\ Counts'
    BY <1>2, StillKeeps DEF Drain
  <1>4. Routed' /\ Quiet' /\ Rest'
    BY DEF Drain, Inv, Routed, Quiet, Rest
  <1> QED
    BY <1>1, <1>3, <1>4 DEF Inv

LEMMA DownStep ==
    ASSUME Inv, Close \/ Kill
    PROVE  Inv'
  <1>1. 0 \in 0..PoolSize
    <2> HIDE DEF PoolSize
    <2> QED
      BY PoolNeverEmpty
  <1>2. /\ phase' = "down" /\ reads' = reads /\ free' = [o \in Pools |-> 0]
        /\ Open' = {}
    BY DEF Close, Kill, Open
  <1>3. Counts'
    BY <1>2 DEF Counts, NothingLeaks, NobodyWaitsInVain
  <1>4. CASE Close
    <2>1. UNCHANGED <<queue, kind, step, calls, hung>> /\ \A r \in Requests : step[r] = "idle"
      BY <1>4 DEF Close
    <2>2. TypeOK'
      BY <1>1, <1>2, <2>1 DEF Inv, TypeOK
    <2>3. Waits' /\ Routed' /\ Quiet' /\ Rest'
      BY <1>2, <2>1 DEF Inv, Waits, Queues, QueueOf, Queued, Target, Routed, Quiet, Rest
    <2> QED
      BY <1>3, <2>2, <2>3 DEF Inv
  <1>5. CASE Kill
    <2>1. /\ queue' = [o \in Pools |-> <<>>] /\ kind' = [r \in Requests |-> NoKind]
          /\ step' = [r \in Requests |-> "idle"] /\ calls' = [r \in Requests |-> <<>>]
          /\ hung' = {}
      BY <1>5 DEF Kill
    <2>2. TypeOK'
      BY <1>1, <1>2, <2>1 DEF Inv, TypeOK
    <2>3. \A o \in Pools : Len(queue'[o]) = 0
      BY <2>1
    <2>4. Waits'
      BY <2>1, <2>3 DEF Waits, Queues, QueueOf, Queued
    <2>5. Routed' /\ Quiet' /\ Rest'
      BY <2>1 DEF Routed, Quiet, Rest
    <2> QED
      BY <1>3, <2>2, <2>4, <2>5 DEF Inv
  <1> QED
    BY <1>4, <1>5
-----------------------------------------------------------------------------
LEMMA InvInit == Init => Inv
  <1> SUFFICES ASSUME Init PROVE Inv
    OBVIOUS
  <1>1. 0 \in 0..PoolSize
    <2> HIDE DEF PoolSize
    <2> QED
      BY PoolNeverEmpty
  <1>2. TypeOK
    BY <1>1 DEF Init, TypeOK, Pools
  <1>3. Waits
    BY DEF Init, Waits, Queues, QueueOf, Queued
  <1>4. Routed /\ Quiet /\ Rest
    BY DEF Init, Routed, Quiet, Rest
  <1>5. Counts
    BY DEF Init, Counts, NothingLeaks, NobodyWaitsInVain, Open
  <1> QED
    BY <1>2, <1>3, <1>4, <1>5 DEF Inv

LEMMA InvNext == Inv /\ [Next]_vars => Inv'
  <1> SUFFICES ASSUME Inv, [Next]_vars PROVE Inv'
    OBVIOUS
  <1>1. CASE Connect
    BY <1>1, ConnectStep
  <1>2. CASE Drain
    BY <1>2, DrainStep
  <1>3. CASE Close \/ Kill
    BY <1>3, DownStep
  <1>4. ASSUME NEW r \in Requests, Arrive(r) PROVE Inv'
    BY <1>4, ArriveStep
  <1>5. ASSUME NEW r \in Requests, Acquire(r) PROVE Inv'
    BY <1>5, AcquireStep
  <1>6. ASSUME NEW r \in Requests, Return(r) PROVE Inv'
    BY <1>6, ReturnStep
  <1>7. ASSUME NEW r \in Requests, Fail(r) PROVE Inv'
    <2>1. hung' = hung \ {r}
      BY <1>7 DEF Fail
    <2> QED
      BY <1>7, <2>1, EndKeeps DEF Fail
  <1>8. ASSUME NEW r \in Requests, Hang(r) PROVE Inv'
    BY <1>8, HangStep
  <1>9. ASSUME NEW r \in Requests, Timeout(r) \/ Cancel(r) PROVE Inv'
    BY <1>9, AbandonStep DEF Timeout, Cancel
  <1>10. CASE UNCHANGED vars
    <2>1. UNCHANGED <<phase, reads, free, queue, kind, step, calls, hung>>
      BY <1>10 DEF vars
    <2>2. Open' = Open
      BY <2>1 DEF Open
    <2>3. Waits' /\ Counts'
      BY <2>1, <2>2, StillKeeps
    <2> QED
      BY <2>1, <2>3 DEF Inv, TypeOK, Routed, Quiet, Rest
  <1> QED
    BY <1>1, <1>2, <1>3, <1>4, <1>5, <1>6, <1>7, <1>8, <1>9, <1>10 DEF Next

(* Every state of the pools and their requests is of its type. *)
THEOREM TypeCorrect == Spec => []TypeOK
  <1>1. Inv => TypeOK
    BY DEF Inv
  <1> QED
    BY InvInit, InvNext, <1>1, PTL DEF Spec

(* Whichever way calls end - with a result, an error, a deadline, a drain - *)
(* an open pool's connections are free or held by one request each.         *)
THEOREM NoConnectionLost == Spec => []NothingLeaks
  <1>1. Inv => NothingLeaks
    BY DEF Inv, Counts
  <1> QED
    BY InvInit, InvNext, <1>1, PTL DEF Spec
=============================================================================
