-------------------------- MODULE RateLimiterProofs --------------------------
(***************************************************************************)
(* Theorems about RateLimiter: types and earned refusals for every fleet,  *)
(* and the budgets of a window and of any stretch as long for every fleet  *)
(* in which at most one instance is on Redis, whose limiters are shown to  *)
(* be fixed windows that count and judge in one step.  All this rests on   *)
(* the mutex: at most one request has a cell in hand, and the item in its  *)
(* hand, or else in the store, is what its window has let pass.            *)
(***************************************************************************)
EXTENDS RateLimiter, TLAPS

(* The mutexes cover the counters: at most one instance is on Redis. *)
Alone == \A i, j \in connected : i = j

OneHand ==
    \A q, r \in Requests :
        pc[q] = "held" /\ pc[r] = "held" /\ Cell(q) = Cell(r) => q = r

(* What is counted towards a window has been written down. *)
CountedHand ==
    faults = 0 => \A r \in Requests : pc[r] = "held" =>
        /\ open[Cell(r)] = hand[r].left
        /\ spent[Cell(r)] <= hand[r].hits

CountedStore ==
    faults = 0 => \A c \in Cells : ~InHand(c) =>
        /\ store[c] = NoItem => open[c] = 0
        /\ store[c] # NoItem => /\ open[c] = store[c].left
                                /\ store[c].left <= store[c].ttl
                                /\ spent[c] <= store[c].hits

Inv == TypeOK /\ OneHand /\ CountedHand /\ CountedStore /\ WindowBudget

(* A request that waits for a limiter, or has its item, is at a cell. *)
LEMMA CellType ==
    ASSUME TypeOK, NEW r \in Requests, pc[r] \in {"limit", "held"}
    PROVE  Limit(r) \in Limits /\ Cell(r) \in Cells /\ Cell(r)[2] = Limit(r)
  <1>1. route[r] \in Routes /\ at[r] \in Instances /\ stage[r] \in DOMAIN Chain(route[r])
    BY DEF TypeOK
  <1>2. Limit(r) \in Limits
    BY <1>1 DEF Limit, Chain, Routes, Limits
  <1>3. Home(at[r]) \in Homes
    BY <1>1 DEF Home, Homes
  <1> QED
    BY <1>2, <1>3 DEF Cell, Cells

(* What Charged makes of an item that has its type. *)
LEMMA ChargedType ==
    ASSUME NEW l \in Limits, NEW item \in Item(l) \cup {NoItem}
    PROVE  Charged(item, l) \in Held(l)
  <1> USE LimiterAssumptions, NoItemIsNone
  <1>1. Budget[l] \in Nat \ {0}
    OBVIOUS
  <1>2. CASE item = NoItem \/ item.left = 0
    BY <1>1, <1>2 DEF Charged, Held, Counts
  <1>3. CASE ~(item = NoItem \/ item.left = 0)
    <2>1. item \in Item(l)
      BY <1>3
    <2>2. item.hits \in 0..Budget[l] + 1 /\ item.left \in 0..Window
      BY <2>1 DEF Item, Counts
    <2> QED
      BY <1>1, <1>3, <2>2 DEF Charged, Held, Counts
  <1> QED
    BY <1>2, <1>3

(* The stage that a request enters is one of its chain, or the handler.     *)
LEMMA EnterStage ==
    ASSUME NEW ro \in Routes, NEW k \in Nat, k = 1 \/ k - 1 \in DOMAIN Chain(ro)
    PROVE  k \in 1..3 /\ DOMAIN Chain(ro) \subseteq 1..2
  BY DEF Chain, Routes

(* Time only takes away from what is left. *)
LEMMA LessRange == \A n \in 0..Window : Less(n) \in 0..Window
  BY LimiterAssumptions DEF Less

(* Types, and that each request is where its chain has a limiter.          *)
LEMMA TypeStep == TypeOK /\ [Next]_vars => TypeOK'
  <1> SUFFICES ASSUME TypeOK, [Next]_vars
               PROVE  TypeOK'
    OBVIOUS
  <1> USE LimiterAssumptions, NoItemIsNone
  <1>1. CASE UNCHANGED vars
    BY <1>1 DEF vars, TypeOK, Limit
  <1>2. ASSUME NEW r \in Requests, Arrive(r) PROVE TypeOK'
    <2>1. PICK i \in Instances, ro \in Traffic :
              at' = [at EXCEPT ![r] = i] /\ route' = [route EXCEPT ![r] = ro] /\ Enter(r, ro, 1)
      BY <1>2 DEF Arrive
    <2>2. ro \in Routes /\ DOMAIN Chain(ro) \subseteq 1..2
      BY EnterStage
    <2>3. /\ pc' \in [Requests -> {"idle", "limit", "held", "through", "refused"}]
          /\ at' \in [Requests -> Instances] /\ route' \in [Requests -> Routes]
          /\ stage' \in [Requests -> 1..3]
      BY <2>1, <2>2 DEF TypeOK, Enter
    <2>4. ASSUME NEW q \in Requests
          PROVE  /\ pc'[q] \in {"limit", "held"} => stage'[q] \in DOMAIN Chain(route'[q])
                 /\ pc'[q] = "held" => hand'[q] \in Held(Limit(q)')
      <3>1. CASE q = r
        BY <1>2, <2>1, <2>2, <3>1 DEF TypeOK, Enter, Limit
      <3>2. CASE q # r
        BY <1>2, <2>1, <3>2 DEF TypeOK, Enter, Limit, Arrive
      <3> QED
        BY <3>1, <3>2
    <2> QED
      BY <1>2, <2>3, <2>4 DEF TypeOK, Arrive
  <1>3. ASSUME NEW r \in Requests, Get(r) \/ GetFails(r) PROVE TypeOK'
    <2>0. pc[r] = "limit" /\ Limit(r) \in Limits /\ Cell(r) \in Cells /\ Cell(r)[2] = Limit(r)
      BY <1>3, CellType DEF Get, GetFails
    <2>1. PICK item \in Held(Limit(r)) : Take(r, item)
      <3>1. CASE Get(r)
        <4>1. store[Cell(r)] \in Item(Limit(r)) \cup {NoItem}
          BY <2>0 DEF TypeOK
        <4> QED
          BY <2>0, <3>1, <4>1, ChargedType DEF Get
      <3>2. CASE GetFails(r)
        BY <2>0, <3>2, ChargedType DEF GetFails
      <3> QED
        BY <1>3, <3>1, <3>2
    <2>2. faults' \in 0..MaxFaults
      BY <1>3 DEF Get, GetFails, Fault, TypeOK
    <2>3. /\ recent' \in [Cells -> [1..Window -> Nat]]
          /\ open' \in [Cells -> 0..Window] /\ spent' \in [Cells -> Nat]
      <3> DEFINE n == IF Passes(item, Limit(r)) THEN 1 ELSE 0
      <3>1. n \in Nat /\ recent' = [recent EXCEPT ![Cell(r)] = Added(@, n)]
        BY <2>1 DEF Take, Record
      <3>2. recent' \in [Cells -> [1..Window -> Nat]]
        <4>1. recent[Cell(r)] \in [1..Window -> Nat] /\ 1 \in 1..Window
          BY <2>0 DEF TypeOK
        <4>2. Added(recent[Cell(r)], n) \in [1..Window -> Nat]
          BY <3>1, <4>1 DEF Added
        <4> HIDE DEF n
        <4> QED
          BY <2>0, <3>1, <4>2 DEF TypeOK
      <3>3. open' \in [Cells -> 0..Window] /\ spent' \in [Cells -> Nat]
        BY <2>0, <2>1 DEF TypeOK, Take, Record
      <3> QED
        BY <3>2, <3>3
    <2>4. pc' = [pc EXCEPT ![r] = "held"] /\ hand' = [hand EXCEPT ![r] = item]
          /\ UNCHANGED <<connected, store, at, route, stage>>
      BY <2>1 DEF Take
    <2>5. ASSUME NEW q \in Requests
          PROVE  /\ pc'[q] \in {"limit", "held"} => stage'[q] \in DOMAIN Chain(route'[q])
                 /\ pc'[q] = "held" => hand'[q] \in Held(Limit(q)')
      <3>2. CASE q = r
        BY <2>0, <2>4, <3>2 DEF TypeOK, Limit
      <3>3. CASE q # r
        BY <2>4, <3>3 DEF TypeOK, Limit
      <3> QED
        BY <3>2, <3>3
    <2> QED
      BY <2>2, <2>3, <2>4, <2>5 DEF TypeOK
  <1>4. ASSUME NEW r \in Requests, Set(r) \/ SetFails(r) PROVE TypeOK'
    <2>0. /\ pc[r] = "held" /\ Limit(r) \in Limits /\ Cell(r) \in Cells /\ Cell(r)[2] = Limit(r)
          /\ hand[r] \in Held(Limit(r)) /\ stage[r] \in DOMAIN Chain(route[r]) /\ stage[r] \in Nat
          /\ route[r] \in Routes
      <3>1. pc[r] = "held"
        BY <1>4 DEF Set, SetFails
      <3>2. Limit(r) \in Limits /\ Cell(r) \in Cells /\ Cell(r)[2] = Limit(r)
        BY <3>1, CellType
      <3>3. hand[r] \in Held(Limit(r)) /\ stage[r] \in DOMAIN Chain(route[r])
        BY <3>1 DEF TypeOK
      <3>4. stage[r] \in 1..3 /\ route[r] \in Routes
        BY DEF TypeOK
      <3>5. stage[r] \in Nat
        BY <3>4
      <3> QED
        BY <3>1, <3>2, <3>3, <3>4, <3>5
    <2>1. Verdict(r)
      BY <1>4 DEF Set, SetFails
    <2>2. DOMAIN store' = Cells /\ \A c \in Cells : store'[c] \in Item(c[2]) \cup {NoItem}
      <3>1. [hits |-> hand[r].hits, left |-> hand[r].left, ttl |-> Window] \in Item(Limit(r))
        BY <2>0 DEF Item, Held
      <3> QED
        BY <1>4, <2>0, <3>1 DEF Set, SetFails, TypeOK
    <2>3. faults' \in 0..MaxFaults
      BY <1>4 DEF Set, SetFails, Fault, TypeOK
    <2>4. stage[r] + 1 \in 1..3
      BY <2>0, EnterStage
    <2>5. /\ pc' \in [Requests -> {"idle", "limit", "held", "through", "refused"}]
          /\ stage' \in [Requests -> 1..3] /\ DOMAIN hand' = Requests
      <3>1. /\ \E step \in {"limit", "through", "refused"} : pc' = [pc EXCEPT ![r] = step]
            /\ stage' = stage \/ stage' = [stage EXCEPT ![r] = stage[r] + 1]
            /\ hand' = [hand EXCEPT ![r] = NoItem]
        BY <2>1 DEF Verdict, Enter
      <3>2. pc' \in [Requests -> {"idle", "limit", "held", "through", "refused"}]
        BY <3>1 DEF TypeOK
      <3>3. stage' \in [Requests -> 1..3]
        BY <2>4, <3>1 DEF TypeOK
      <3> QED
        BY <3>1, <3>2, <3>3 DEF TypeOK
    <2>6. ASSUME NEW q \in Requests
          PROVE  /\ pc'[q] \in {"limit", "held"} => stage'[q] \in DOMAIN Chain(route'[q])
                 /\ pc'[q] = "held" => hand'[q] \in Held(Limit(q)')
      <3>1. CASE q = r
        BY <2>0, <2>1, <2>4, <3>1 DEF TypeOK, Limit, Verdict, Enter
      <3>2. CASE q # r
        BY <2>1, <3>2 DEF TypeOK, Limit, Verdict, Enter
      <3> QED
        BY <3>1, <3>2
    <2> QED
      BY <2>1, <2>2, <2>3, <2>5, <2>6 DEF TypeOK, Verdict
  <1>5. ASSUME NEW r \in Requests, Done(r) PROVE TypeOK'
    BY <1>5 DEF Done, TypeOK, Limit
  <1>6. ASSUME NEW i \in Instances, Crash(i) PROVE TypeOK'
    <2>1. DOMAIN store' = Cells /\ \A c \in Cells : store'[c] \in Item(c[2]) \cup {NoItem}
      BY <1>6 DEF Crash, TypeOK
    <2>2. \A q \in Requests : pc'[q] # "idle" => pc'[q] = pc[q] /\ hand'[q] = hand[q]
      BY <1>6 DEF Crash
    <2>3. /\ pc' \in [Requests -> {"idle", "limit", "held", "through", "refused"}]
          /\ DOMAIN hand' = Requests /\ faults' \in 0..MaxFaults
      BY <1>6 DEF Crash, TypeOK, Fault
    <2> QED
      BY <1>6, <2>1, <2>2, <2>3 DEF Crash, TypeOK, Limit
  <1>7. ASSUME NEW c \in Cells, Evict(c) PROVE TypeOK'
    BY <1>7 DEF Evict, TypeOK, Fault, Limit
  <1>8. CASE Tick
    <2>1. /\ DOMAIN store' = Cells
          /\ \A c \in Cells : store'[c] \in Item(c[2]) \cup {NoItem}
      <3> SUFFICES ASSUME NEW c \in Cells
                   PROVE  store'[c] \in Item(c[2]) \cup {NoItem}
        BY <1>8 DEF Tick
      <3>1. store'[c] = IF store[c] = NoItem \/ store[c].ttl = 1 THEN NoItem
                        ELSE [store[c] EXCEPT !.left = Less(@), !.ttl = @ - 1]
        BY <1>8 DEF Tick
      <3>2. CASE store[c] \in Item(c[2]) /\ store[c].ttl # 1
        <4> DEFINE i == store[c]
        <4>1. /\ i = [hits |-> i.hits, left |-> i.left, ttl |-> i.ttl]
              /\ i.hits \in Counts(c[2]) /\ i.left \in 0..Window /\ i.ttl \in 1..Window
          BY <3>2 DEF Item
        <4>2. i # NoItem
          BY <3>2 DEF Cells
        <4>3. store'[c] = [hits |-> i.hits, left |-> Less(i.left), ttl |-> i.ttl - 1]
          BY <3>1, <3>2, <4>1, <4>2
        <4>4. Less(i.left) \in 0..Window /\ i.ttl - 1 \in 1..Window
          BY <3>2, <4>1, LessRange
        <4> QED
          BY <4>1, <4>3, <4>4 DEF Item
      <3> QED
        BY <3>1, <3>2 DEF TypeOK
    <2>2. DOMAIN hand' = Requests
      BY <1>8 DEF Tick
    <2>3. ASSUME NEW q \in Requests, pc'[q] = "held"
          PROVE  hand'[q] \in Held(Limit(q)')
      <3>1. hand[q] \in Held(Limit(q)) /\ hand'[q] = [hand[q] EXCEPT !.left = Less(@)]
        BY <1>8, <2>3 DEF Tick, TypeOK
      <3>2. Limit(q)' = Limit(q)
        BY <1>8 DEF Tick, Limit
      <3> QED
        BY <3>1, <3>2, LessRange DEF Held
    <2>4. recent' \in [Cells -> [1..Window -> Nat]]
      <3>1. ASSUME NEW c \in Cells, NEW age \in 1..Window
            PROVE  (IF age = 1 THEN 0 ELSE recent[c][age - 1]) \in Nat
        <4>1. recent[c] \in [1..Window -> Nat]
          BY DEF TypeOK
        <4>2. age # 1 => age - 1 \in 1..Window
          OBVIOUS
        <4> QED
          BY <4>1, <4>2
      <3> QED
        BY <1>8, <3>1 DEF Tick, Aged
    <2>5. open' \in [Cells -> 0..Window] /\ spent' \in [Cells -> Nat]
      <3>1. \A c \in Cells : open[c] \in 0..Window /\ spent[c] \in Nat
        BY DEF TypeOK
      <3> QED
        BY <1>8, <3>1, LessRange DEF Tick
    <2> QED
      BY <1>8, <2>1, <2>2, <2>3, <2>4, <2>5 DEF Tick, TypeOK, Limit
  <1> QED
    BY <1>1, <1>2, <1>3, <1>4, <1>5, <1>6, <1>7, <1>8 DEF Next, Serve

(* Types hold, with faults and however many instances share a counter.     *)
THEOREM TypeCorrect == Spec => []TypeOK
  <1>1. Init => TypeOK
    BY LimiterAssumptions DEF Init, TypeOK, Routes
  <1> QED
    BY <1>1, TypeStep, PTL DEF Spec
-----------------------------------------------------------------------------
(* Where counters are not shared, a cell is one limiter of one process.     *)
LEMMA SameCell ==
    ASSUME Alone, TypeOK, NEW q \in Requests, NEW r \in Requests, Cell(q) = Cell(r)
    PROVE  at[q] = at[r] /\ Limit(q) = Limit(r)
  BY LimiterAssumptions DEF Alone, TypeOK, Cell, Home

(* A request takes a cell in hand only when nobody has it.                  *)
LEMMA CellFree ==
    ASSUME Alone, TypeOK, NEW r \in Requests, pc[r] = "limit", MutexFree(r)
    PROVE  ~InHand(Cell(r))
  <1> SUFFICES ASSUME NEW q \in Requests, pc[q] = "held", Cell(q) = Cell(r)
               PROVE  FALSE
    BY DEF InHand
  <1>1. q # r
    OBVIOUS
  <1> QED
    BY <1>1, SameCell DEF MutexFree

(* What a step does to the requests that have something in hand.            *)
LEMMA HandStep ==
    ASSUME Alone, TypeOK, OneHand, [Next]_vars
    PROVE  OneHand'
  <1> SUFFICES ASSUME NEW q \in Requests, NEW r \in Requests,
                      pc'[q] = "held", pc'[r] = "held", Cell(q)' = Cell(r)'
               PROVE  q = r
    BY DEF OneHand
  <1>1. ASSUME NEW p \in Requests, Get(p) \/ GetFails(p)
        PROVE  q = r
    <2>1. ~InHand(Cell(p))
      BY <1>1, CellFree DEF Get, GetFails
    <2>2. pc' = [pc EXCEPT ![p] = "held"] /\ UNCHANGED <<connected, at, route, stage>>
      BY <1>1 DEF Get, GetFails, Take
    <2>3. \A o \in Requests : Cell(o)' = Cell(o)
      BY <2>2 DEF Cell, Home, Limit
    <2> QED
      BY <2>1, <2>2, <2>3 DEF OneHand, InHand, TypeOK
  <1>2. ASSUME NEW p \in Requests, Set(p) \/ SetFails(p)
        PROVE  q = r
    <2>1. /\ \A o \in Requests : pc'[o] = "held" => pc[o] = "held" /\ o # p
          /\ \A o \in Requests \ {p} : stage'[o] = stage[o]
          /\ UNCHANGED <<connected, at, route>>
      BY <1>2 DEF Set, SetFails, Verdict, Enter, TypeOK
    <2> QED
      BY <2>1 DEF OneHand, Cell, Home, Limit
  <1>3. ASSUME NEW p \in Requests, Arrive(p) \/ Done(p)
        PROVE  q = r
    <2>1. \A o \in Requests :
              pc'[o] = "held" => /\ pc[o] = "held"
                                 /\ at'[o] = at[o] /\ route'[o] = route[o] /\ stage'[o] = stage[o]
      <3>1. /\ \A o \in Requests \ {p} : /\ pc'[o] = pc[o] /\ at'[o] = at[o]
                                         /\ route'[o] = route[o] /\ stage'[o] = stage[o]
            /\ pc'[p] # "held"
        <4>1. CASE Arrive(p)
          <5>1. PICK i \in Instances, ro \in Traffic :
                    /\ at' = [at EXCEPT ![p] = i] /\ route' = [route EXCEPT ![p] = ro]
                    /\ Enter(p, ro, 1)
            BY <4>1 DEF Arrive
          <5> QED
            BY <5>1 DEF Enter, TypeOK
        <4> QED
          BY <1>3, <4>1 DEF Done, TypeOK
      <3> QED
        BY <3>1
    <2>2. connected' = connected
      BY <1>3 DEF Arrive, Done
    <2> QED
      BY <2>1, <2>2 DEF OneHand, Cell, Home, Limit
  <1>4. CASE (\E i \in Instances : Crash(i)) \/ (\E c \in Cells : Evict(c)) \/ Tick \/ UNCHANGED vars
    <2>1. \A o \in Requests : pc'[o] = "held" => pc[o] = "held"
      <3>1. CASE \E i \in Instances : Crash(i)
        BY <3>1 DEF Crash
      <3>2. CASE (\E c \in Cells : Evict(c)) \/ Tick \/ UNCHANGED vars
        BY <3>2 DEF Evict, Tick, vars
      <3> QED
        BY <1>4, <3>1, <3>2
    <2>2. UNCHANGED <<connected, at, route, stage>>
      BY <1>4 DEF Crash, Evict, Tick, vars
    <2> QED
      BY <2>1, <2>2 DEF OneHand, Cell, Home, Limit
  <1> QED
    BY <1>1, <1>2, <1>3, <1>4 DEF Next, Serve

(* While nothing has failed, what is in hand or in the store is what has    *)
(* been let pass in the window.                                             *)
LEMMA BudgetStep ==
    ASSUME Alone, Inv, [Next]_vars
    PROVE  CountedHand' /\ CountedStore' /\ WindowBudget'
  <1> USE LimiterAssumptions, NoItemIsNone
  <1>0. TypeOK' /\ OneHand'
    BY TypeStep, HandStep DEF Inv
  <1>1. ASSUME NEW r \in Requests, Get(r), faults = 0
        PROVE  CountedHand' /\ CountedStore' /\ WindowBudget'
    <2> DEFINE c == Cell(r)
               l == Limit(r)
               item == store[c]
               n == IF Passes(hand'[r], l) THEN 1 ELSE 0
    <2>1. /\ l \in Limits /\ c \in Cells /\ c[2] = l /\ Budget[l] \in Nat \ {0}
          /\ ~InHand(c) /\ item \in Item(l) \cup {NoItem}
      BY <1>1, CellType, CellFree DEF Get, Inv, TypeOK
    <2>2. /\ hand' = [hand EXCEPT ![r] = Charged(item, l)] /\ pc' = [pc EXCEPT ![r] = "held"]
          /\ UNCHANGED <<connected, store, at, route, stage, faults>>
      BY <1>1 DEF Get, Take
    <2>3. /\ hand'[r] = Charged(item, l) /\ DOMAIN hand = Requests
          /\ \A q \in Requests : Cell(q)' = Cell(q)
          /\ \A q \in Requests \ {r} : pc'[q] = pc[q] /\ hand'[q] = hand[q]
      BY <2>2 DEF Inv, TypeOK, Cell, Home, Limit
    <2>4. /\ open' = [open EXCEPT ![c] = IF @ = 0 THEN Window ELSE @]
          /\ spent' = [spent EXCEPT ![c] = IF open[c] = 0 THEN n ELSE @ + n]
      BY <1>1, <2>3 DEF Get, Take, Record
    <2>5. /\ open[c] \in 0..Window /\ spent[c] \in Nat /\ spent[c] <= Budget[l]
          /\ item = NoItem => open[c] = 0
          /\ item # NoItem => open[c] = item.left /\ spent[c] <= item.hits
      BY <1>1, <2>1 DEF Inv, TypeOK, CountedStore, WindowBudget
    <2>6. /\ open'[c] = hand'[r].left /\ spent'[c] <= hand'[r].hits /\ spent'[c] <= Budget[l]
      <3>1. open'[c] = (IF open[c] = 0 THEN Window ELSE open[c])
            /\ spent'[c] = IF open[c] = 0 THEN n ELSE spent[c] + n
        BY <2>1, <2>4 DEF Inv, TypeOK
      <3>2. CASE item = NoItem \/ item.left = 0
        <4>1. Charged(item, l) = [hits |-> 1, left |-> Window] /\ open[c] = 0
          BY <2>5, <3>2 DEF Charged
        <4>2. n = 1
          BY <2>1, <2>3, <4>1 DEF Passes
        <4> QED
          BY <2>1, <2>3, <3>1, <4>1, <4>2
      <3>3. CASE ~(item = NoItem \/ item.left = 0)
        <4>1. open[c] = item.left /\ open[c] # 0 /\ item.hits \in Nat
          BY <2>1, <2>5, <3>3 DEF Item, Counts
        <4>2. /\ hand'[r].left = item.left
              /\ hand'[r].hits = IF item.hits > Budget[l] THEN item.hits ELSE item.hits + 1
          BY <2>3, <3>3 DEF Charged
        <4>3. n = IF hand'[r].hits <= Budget[l] THEN 1 ELSE 0
          BY DEF Passes
        <4> HIDE DEF n, item, c, l
        <4> QED
          BY <2>1, <2>5, <3>1, <3>3, <4>1, <4>2, <4>3
      <3> QED
        BY <3>2, <3>3
    <2>7. \A d \in Cells \ {c} :
              open'[d] = open[d] /\ spent'[d] = spent[d] /\ (InHand(d)' <=> InHand(d))
      <3>1. \A d \in Cells \ {c} : open'[d] = open[d] /\ spent'[d] = spent[d]
        BY <2>4 DEF Inv, TypeOK
      <3>2. \A d \in Cells \ {c} : InHand(d)' <=> InHand(d)
        BY <2>3 DEF InHand
      <3> QED
        BY <3>1, <3>2
    <2>8. CountedHand'
      <3> SUFFICES ASSUME NEW q \in Requests, pc'[q] = "held"
                   PROVE  open'[Cell(q)'] = hand'[q].left /\ spent'[Cell(q)'] <= hand'[q].hits
        BY DEF CountedHand
      <3>1. CASE q = r
        BY <2>3, <2>6, <3>1
      <3>2. CASE q # r
        <4>1. pc[q] = "held" /\ Cell(q) \in Cells /\ Cell(q) # c
          BY <2>1, <2>3, <3>2, CellType DEF Inv, InHand
        <4> QED
          BY <1>1, <2>3, <2>7, <3>2, <4>1 DEF Inv, CountedHand
      <3> QED
        BY <3>1, <3>2
    <2>9. CountedStore'
      <3>1. pc'[r] = "held" /\ Cell(r)' = c
        BY <2>2, <2>3 DEF Inv, TypeOK
      <3>2. \A d \in Cells : ~InHand(d)' => d # c
        BY <3>1 DEF InHand
      <3> QED
        BY <1>1, <2>2, <2>7, <3>2 DEF Inv, CountedStore
    <2>10. WindowBudget'
      BY <1>1, <2>1, <2>6, <2>7 DEF Inv, WindowBudget
    <2> QED
      BY <2>8, <2>9, <2>10
  <1>2. ASSUME NEW r \in Requests, Set(r), faults = 0
        PROVE  CountedHand' /\ CountedStore' /\ WindowBudget'
    <2> DEFINE c == Cell(r)
               item == [hits |-> hand[r].hits, left |-> hand[r].left, ttl |-> Window]
    <2>1. /\ pc[r] = "held" /\ c \in Cells /\ hand[r] \in Held(Limit(r))
          /\ open[c] = hand[r].left /\ spent[c] <= hand[r].hits
      BY <1>2, CellType DEF Set, Inv, TypeOK, CountedHand
    <2>2. /\ store' = [store EXCEPT ![c] = item]
          /\ UNCHANGED <<connected, at, route, open, spent, faults>>
      BY <1>2 DEF Set, Verdict
    <2>3. /\ pc'[r] # "held"
          /\ \A q \in Requests \ {r} : pc'[q] = pc[q] /\ hand'[q] = hand[q] /\ Cell(q)' = Cell(q)
      BY <1>2 DEF Set, Verdict, Enter, Inv, TypeOK, Cell, Home, Limit
    <2>4. CountedHand'
      BY <1>2, <2>2, <2>3 DEF Inv, CountedHand
    <2>5. ASSUME NEW d \in Cells, ~InHand(d)'
          PROVE  /\ store'[d] = NoItem => open'[d] = 0
                 /\ store'[d] # NoItem => /\ open'[d] = store'[d].left
                                         /\ store'[d].left <= store'[d].ttl
                                         /\ spent'[d] <= store'[d].hits
      <3>1. CASE d = c
        <4>1. store'[d] = item
          BY <2>1, <2>2, <3>1 DEF Inv, TypeOK
        <4>2. item # NoItem
          <5>1. item \in Item(Limit(r)) /\ Limit(r) \in Limits
            BY <2>1, CellType DEF Item, Held, Inv
          <5> QED
            BY <5>1
        <4>3. hand[r].left \in 0..Window
          BY <2>1 DEF Held
        <4>4. item.left = hand[r].left /\ item.ttl = Window /\ item.hits = hand[r].hits
          OBVIOUS
        <4> HIDE DEF item, c
        <4> QED
          BY <2>1, <2>2, <3>1, <4>1, <4>2, <4>3, <4>4
      <3>2. CASE d # c
        <4>1. ~InHand(d)
          BY <2>1, <2>3, <2>5, <3>2 DEF InHand
        <4>2. store'[d] = store[d]
          BY <2>2, <3>2 DEF Inv, TypeOK
        <4> QED
          BY <1>2, <2>2, <4>1, <4>2 DEF Inv, CountedStore
      <3> QED
        BY <3>1, <3>2
    <2>6. CountedStore'
      BY <2>5 DEF CountedStore
    <2>7. WindowBudget'
      BY <2>2 DEF Inv, WindowBudget
    <2> QED
      BY <2>4, <2>6, <2>7
  <1>3. ASSUME NEW r \in Requests, Arrive(r) \/ Done(r)
        PROVE  CountedHand' /\ CountedStore' /\ WindowBudget'
    <2>1. UNCHANGED <<store, hand, open, spent, faults>>
      BY <1>3 DEF Arrive, Done
    <2>2. pc[r] # "held" /\ pc'[r] # "held"
          /\ \A q \in Requests \ {r} : pc'[q] = pc[q] /\ Cell(q)' = Cell(q)
      <3>1. CASE Arrive(r)
        <4>1. PICK i \in Instances, ro \in Traffic :
                  /\ at' = [at EXCEPT ![r] = i] /\ route' = [route EXCEPT ![r] = ro]
                  /\ Enter(r, ro, 1)
          BY <3>1 DEF Arrive
        <4> QED
          BY <3>1, <4>1 DEF Arrive, Enter, Inv, TypeOK, Cell, Home, Limit
      <3>2. CASE Done(r)
        BY <3>2 DEF Done, Inv, TypeOK, Cell, Home, Limit
      <3> QED
        BY <1>3, <3>1, <3>2
    <2>3. CountedHand'
      BY <2>1, <2>2 DEF Inv, CountedHand
    <2>4. \A d \in Cells : InHand(d)' <=> InHand(d)
      BY <2>2 DEF InHand
    <2>5. CountedStore'
      BY <2>1, <2>4 DEF Inv, CountedStore
    <2> QED
      BY <2>1, <2>3, <2>5 DEF Inv, WindowBudget
  <1>4. CASE Tick /\ faults = 0
    <2>1. /\ UNCHANGED <<connected, pc, at, route, stage, faults>>
          /\ \A q \in Requests : Cell(q)' = Cell(q)
      BY <1>4 DEF Tick, Cell, Home, Limit
    <2>2. \A d \in Cells : InHand(d)' <=> InHand(d)
      BY <2>1 DEF InHand
    <2>3. ASSUME NEW d \in Cells
          PROVE  /\ open[d] \in Nat /\ spent[d] \in Nat /\ Budget[d[2]] \in Nat
                 /\ open'[d] = Less(open[d])
                 /\ spent'[d] \in Nat /\ spent'[d] <= spent[d]
                 /\ open[d] <= 1 => spent'[d] = 0
      <3>1. open[d] \in Nat /\ spent[d] \in Nat
        BY DEF Inv, TypeOK
      <3>2. open'[d] = Less(open[d]) /\ spent'[d] = IF open[d] <= 1 THEN 0 ELSE spent[d]
        BY <1>4 DEF Tick
      <3>3. Budget[d[2]] \in Nat
        BY DEF Cells
      <3> QED
        BY <3>1, <3>2, <3>3
    <2>4. CountedHand'
      <3> SUFFICES ASSUME NEW q \in Requests, pc[q] = "held"
                   PROVE  open'[Cell(q)] = hand'[q].left /\ spent'[Cell(q)] <= hand'[q].hits
        BY <1>4, <2>1 DEF CountedHand
      <3>1. Cell(q) \in Cells /\ hand[q] \in Held(Limit(q)) /\ Limit(q) \in Limits
        BY CellType DEF Inv, TypeOK
      <3>2. open[Cell(q)] = hand[q].left /\ spent[Cell(q)] <= hand[q].hits
        BY <1>4 DEF Inv, CountedHand
      <3>3. hand'[q] = [hand[q] EXCEPT !.left = Less(@)]
        BY <1>4 DEF Tick
      <3>4. hand[q] = [hits |-> hand[q].hits, left |-> hand[q].left] /\ hand[q].hits \in Nat
        <4>1. Budget[Limit(q)] \in Nat
          BY <3>1
        <4> QED
          BY <3>1, <4>1 DEF Held, Counts
      <3>5. hand'[q].left = Less(hand[q].left) /\ hand'[q].hits = hand[q].hits
        BY <3>3, <3>4
      <3>6. spent'[Cell(q)] <= hand[q].hits
        BY <2>3, <3>1, <3>2, <3>4
      <3> QED
        BY <2>3, <3>1, <3>2, <3>5, <3>6
    <2>5. ASSUME NEW d \in Cells, ~InHand(d)
          PROVE  /\ store'[d] = NoItem => open'[d] = 0
                 /\ store'[d] # NoItem => /\ open'[d] = store'[d].left
                                         /\ store'[d].left <= store'[d].ttl
                                         /\ spent'[d] <= store'[d].hits
      <3> DEFINE i == store[d]
      <3>1. /\ i \in Item(d[2]) \cup {NoItem}
            /\ i = NoItem => open[d] = 0
            /\ i # NoItem => open[d] = i.left /\ i.left <= i.ttl /\ spent[d] <= i.hits
        BY <1>4, <2>5 DEF Inv, TypeOK, CountedStore
      <3>2. store'[d] = IF i = NoItem \/ i.ttl = 1 THEN NoItem
                        ELSE [i EXCEPT !.left = Less(@), !.ttl = @ - 1]
        BY <1>4 DEF Tick
      <3>3. CASE i = NoItem
        <4>1. open[d] = 0 /\ store'[d] = NoItem
          BY <3>1, <3>2, <3>3
        <4> QED
          BY <2>3, <4>1 DEF Less
      <3>4. CASE i # NoItem
        <4>1. /\ i = [hits |-> i.hits, left |-> i.left, ttl |-> i.ttl]
              /\ i.hits \in Nat /\ i.left \in Nat /\ i.ttl \in Nat \ {0}
          <5>1. Budget[d[2]] \in Nat
            BY <2>3
          <5> QED
            BY <3>1, <3>4, <5>1 DEF Item, Counts
        <4>2. open[d] = i.left /\ i.left <= i.ttl /\ spent[d] <= i.hits
          BY <3>1, <3>4
        <4>3. CASE i.ttl = 1
          <5>1. open[d] = 0 \/ open[d] = 1
            BY <4>1, <4>2, <4>3
          <5>2. store'[d] = NoItem
            BY <3>2, <4>3
          <5>3. open'[d] = 0
            BY <2>3, <5>1 DEF Less
          <5> QED
            BY <5>2, <5>3
        <4>4. CASE i.ttl # 1
          <5>1. store'[d] = [hits |-> i.hits, left |-> Less(i.left), ttl |-> i.ttl - 1]
            BY <3>2, <3>4, <4>1, <4>4
          <5>2. Less(i.left) <= i.ttl - 1
            BY <4>1, <4>2, <4>4 DEF Less
          <5>3. spent'[d] <= i.hits /\ open'[d] = Less(i.left)
            BY <2>3, <4>1, <4>2
          <5>4. store'[d] # NoItem
            <6>1. Less(i.left) \in 0..Window /\ i.ttl - 1 \in 1..Window
              BY <3>1, <3>4, <4>1, <4>4, LessRange DEF Item
            <6>2. store'[d] \in Item(d[2])
              BY <3>1, <3>4, <5>1, <6>1 DEF Item
            <6> QED
              BY <6>2 DEF Cells
          <5>5. /\ store'[d].hits = i.hits /\ store'[d].left = Less(i.left)
                /\ store'[d].ttl = i.ttl - 1
            BY <5>1
          <5> HIDE DEF i
          <5> QED
            BY <5>2, <5>3, <5>4, <5>5
        <4> QED
          BY <4>3, <4>4
      <3> QED
        BY <3>3, <3>4
    <2>6. CountedStore'
      BY <2>2, <2>5 DEF CountedStore
    <2>7. WindowBudget'
      <3>1. \A d \in Cells : spent[d] <= Budget[d[2]]
        BY <1>4 DEF Inv, WindowBudget
      <3>2. \A d \in Cells : spent'[d] <= Budget[d[2]]
        BY <2>3, <3>1
      <3> QED
        BY <3>2 DEF WindowBudget
    <2> QED
      BY <2>4, <2>6, <2>7
  <1>5. CASE UNCHANGED vars
    BY <1>5 DEF vars, Inv, CountedHand, CountedStore, InHand, WindowBudget, Cell, Home, Limit
  <1>6. CASE faults' # 0
    BY <1>6 DEF CountedHand, CountedStore, WindowBudget
  <1>7. faults' = 0 => faults = 0 /\ \/ UNCHANGED vars \/ Tick
                                     \/ \E r \in Requests : Arrive(r) \/ Get(r) \/ Set(r) \/ Done(r)
    <2>1. ASSUME Fault PROVE faults' # 0
      BY <2>1 DEF Fault, Inv, TypeOK
    <2>2. ASSUME faults' = 0
          PROVE  \/ UNCHANGED vars \/ Tick
                 \/ \E r \in Requests : Arrive(r) \/ Get(r) \/ Set(r) \/ Done(r)
      BY <2>1, <2>2 DEF Next, Serve, GetFails, SetFails, Crash, Evict
    <2>3. ASSUME faults' = 0 PROVE faults = faults'
      BY <2>2, <2>3 DEF Arrive, Get, Set, Done, Tick, vars
    <2> QED
      BY <2>2, <2>3
  <1> QED
    BY <1>1, <1>2, <1>3, <1>4, <1>5, <1>6, <1>7

(* With no failure, a window lets at most its budget pass, whatever the     *)
(* number of requests that race, wherever each mutex covers its counters.   *)
THEOREM BudgetKept == Alone /\ Spec => []WindowBudget
  <1>1. Init => Inv
    <2>1. ASSUME Init PROVE TypeOK
      BY <2>1, LimiterAssumptions DEF Init, TypeOK, Routes
    <2>2. ASSUME Init PROVE OneHand /\ CountedHand /\ CountedStore /\ WindowBudget
      BY <2>2, LimiterAssumptions
      DEF Init, OneHand, CountedHand, CountedStore, WindowBudget, Cells
    <2> QED
      BY <2>1, <2>2 DEF Inv
  <1>2. Alone /\ Inv /\ [Next]_vars => (Alone /\ Inv)'
    <2>1. [Next]_vars => connected' = connected
      BY DEF Next, Serve, Arrive, Get, GetFails, Take, Set, SetFails, Verdict, Done,
             Crash, Evict, Tick, vars
    <2> QED
      BY <2>1, TypeStep, HandStep, BudgetStep DEF Inv, Alone
  <1>3. Inv => WindowBudget
    BY DEF Inv
  <1> QED
    BY <1>1, <1>2, <1>3, PTL DEF Spec
-----------------------------------------------------------------------------
(* Any stretch of a window's length.  An item stands for the requests that  *)
(* were let pass since its window opened, and for as many of the budget.    *)
Begin(item) == IF Closed(item) THEN 1 ELSE Window - item.left + 1

(* At most: beyond what the item stands for, one budget before its window   *)
(* and k that no item stands for.  At least: all it stands for was let pass.*)
AtMost(f, item, l, k) ==
    /\ f[Begin(item)] <= Cost(item, l) + k
    /\ f[Window] <= Budget[l] + Cost(item, l) + k
AtLeast(f, item, l) == Cost(item, l) <= f[Begin(item)]

Countable(item, l) == item = NoItem \/ (item.hits \in Counts(l) /\ item.left \in 0..Window)
Growing(f) == f \in [1..Window -> Nat] /\ \A m, n \in 1..Window : m <= n => f[m] <= f[n]

(* The item a tick later: gone with its window, or with less of it left.    *)
TickedTo(item, new) ==
    \/ item = NoItem /\ new = NoItem
    \/ item # NoItem /\ item.left <= 1 /\ new = NoItem
    \/ item # NoItem /\ new # NoItem /\ new.hits = item.hits /\ new.left = Less(item.left)

LEMMA CostRange ==
    ASSUME NEW l \in Limits, NEW item, Countable(item, l)
    PROVE  /\ Begin(item) \in 1..Window /\ Cost(item, l) \in 0..Budget[l]
           /\ Budget[l] \in Nat \ {0} /\ Window \in Nat \ {0}
  <1>1. Budget[l] \in Nat \ {0} /\ Window \in Nat \ {0}
    BY LimiterAssumptions
  <1>2. Begin(item) \in 1..Window
    BY <1>1 DEF Countable, Begin, Closed
  <1>3. Cost(item, l) \in 0..Budget[l]
    BY <1>1 DEF Countable, Counts, Cost, Closed
  <1> QED
    BY <1>1, <1>2, <1>3

LEMMA AddedGrows ==
    ASSUME NEW f, Growing(f), NEW k \in Nat
    PROVE  Growing(Added(f, k)) /\ \A n \in 1..Window : Added(f, k)[n] = f[n] + k
  BY DEF Growing, Added

LEMMA AgedGrows ==
    ASSUME NEW f, Growing(f)
    PROVE  /\ Growing(Aged(f)) /\ Aged(f)[1] = 0
           /\ \A n \in 1..Window : n > 1 => Aged(f)[n] = f[n - 1]
  <1>1. Window \in Nat \ {0}
    BY LimiterAssumptions
  <1>2. \A n \in 1..Window : Aged(f)[n] = (IF n = 1 THEN 0 ELSE f[n - 1])
    BY DEF Aged
  <1>3. \A n \in 1..Window : n > 1 => n - 1 \in 1..Window
    BY <1>1
  <1>4. Aged(f) \in [1..Window -> Nat]
    BY <1>3 DEF Growing, Aged
  <1>5. ASSUME NEW m \in 1..Window, NEW n \in 1..Window, m <= n
        PROVE  Aged(f)[m] <= Aged(f)[n]
    <2>1. CASE m = 1
      BY <1>2, <1>4, <2>1
    <2>2. CASE m # 1
      <3>1. m - 1 \in 1..Window /\ n - 1 \in 1..Window /\ m - 1 <= n - 1 /\ n # 1
        BY <1>1, <1>5, <2>2
      <3>2. f[m - 1] <= f[n - 1]
        BY <3>1 DEF Growing
      <3> QED
        BY <1>2, <2>2, <3>1, <3>2
    <2> QED
      BY <2>1, <2>2
  <1> QED
    BY <1>1, <1>2, <1>4, <1>5 DEF Growing

(* No item stands for nothing. *)
LEMMA NoneBacked ==
    ASSUME NEW l, NEW f, Growing(f)
    PROVE  Countable(NoItem, l) /\ AtLeast(f, NoItem, l)
  <1>1. Begin(NoItem) = 1 /\ Cost(NoItem, l) = 0
    BY DEF Begin, Cost, Closed
  <1>2. 1 \in 1..Window
    BY LimiterAssumptions
  <1>3. f[1] \in Nat
    BY <1>2 DEF Growing
  <1> QED
    BY <1>1, <1>3 DEF Countable, AtLeast

(* The item is lost: what it stood for costs one more budget.               *)
LEMMA Lost ==
    ASSUME NEW l \in Limits, NEW item, Countable(item, l), NEW f, Growing(f), NEW k \in Nat,
           AtMost(f, item, l, k)
    PROVE  AtMost(f, NoItem, l, k + Budget[l])
  <1>1. Begin(item) \in 1..Window /\ Cost(item, l) \in 0..Budget[l] /\ Budget[l] \in Nat
        /\ Window \in Nat \ {0}
    BY CostRange
  <1>2. f[1] <= f[Begin(item)] /\ f[1] \in Nat /\ f[Begin(item)] \in Nat /\ f[Window] \in Nat
    BY <1>1 DEF Growing
  <1>3. Begin(NoItem) = 1 /\ Cost(NoItem, l) = 0
    BY DEF Begin, Cost, Closed
  <1> QED
    BY <1>1, <1>2, <1>3 DEF AtMost

(* One more request is let pass, or none, that the item does not stand for. *)
LEMMA Beside ==
    ASSUME NEW l \in Limits, NEW item, Countable(item, l), NEW f, Growing(f), NEW n \in {0, 1},
           NEW k \in Nat
    PROVE  /\ AtMost(f, item, l, k) => AtMost(Added(f, n), item, l, k + 1)
           /\ AtLeast(f, item, l) => AtLeast(Added(f, n), item, l)
  <1>1. Begin(item) \in 1..Window /\ Cost(item, l) \in Nat /\ Budget[l] \in Nat
        /\ Window \in 1..Window
    BY CostRange
  <1>2. /\ Added(f, n)[Begin(item)] = f[Begin(item)] + n
        /\ Added(f, n)[Window] = f[Window] + n
    BY <1>1 DEF Added
  <1>3. f[Begin(item)] \in Nat /\ f[Window] \in Nat
    BY <1>1 DEF Growing
  <1> QED
    BY <1>1, <1>2, <1>3 DEF AtMost, AtLeast

(* A request is counted, and let pass if the count allows it. *)
LEMMA Counted ==
    ASSUME NEW l \in Limits, NEW item, Countable(item, l), NEW f, Growing(f), NEW k \in Nat,
           NEW n, n = IF Passes(Charged(item, l), l) THEN 1 ELSE 0
    PROVE  /\ n \in {0, 1} /\ Countable(Charged(item, l), l)
           /\ AtMost(f, item, l, k) => AtMost(Added(f, n), Charged(item, l), l, k)
           /\ AtLeast(f, item, l) => AtLeast(Added(f, n), Charged(item, l), l)
  <1> DEFINE new == Charged(item, l)
  <1>1. /\ Begin(item) \in 1..Window /\ Cost(item, l) \in 0..Budget[l]
        /\ Budget[l] \in Nat \ {0} /\ Window \in Nat \ {0}
    BY CostRange
  <1>2. n \in {0, 1}
    OBVIOUS
  <1>3. Countable(new, l) /\ Begin(new) = Begin(item) /\ Cost(new, l) = Cost(item, l) + n
    <2>1. CASE Closed(item)
      <3>1. new = [hits |-> 1, left |-> Window]
        BY <2>1 DEF Charged, Closed
      <3>2. new \in Held(l) /\ new # NoItem
        BY <1>1, <3>1, NoItemIsNone DEF Held, Counts
      <3>3. new.hits = 1 /\ new.left = Window
        BY <3>1
      <3>4. n = 1
        BY <1>1, <3>3 DEF Passes
      <3>5. Begin(item) = 1 /\ Cost(item, l) = 0
        BY <2>1 DEF Begin, Cost
      <3> HIDE DEF new
      <3> QED
        BY <1>1, <3>2, <3>3, <3>4, <3>5 DEF Begin, Cost, Closed, Countable, Counts
    <2>2. CASE ~Closed(item)
      <3>1. new = [hits |-> IF item.hits > Budget[l] THEN item.hits ELSE item.hits + 1, left |-> item.left]
        BY <2>2 DEF Charged, Closed
      <3>2. item.hits \in Counts(l) /\ item.left \in 1..Window /\ item # NoItem
        BY <1>1, <2>2 DEF Closed, Countable
      <3>3. /\ new.hits = (IF item.hits > Budget[l] THEN item.hits ELSE item.hits + 1)
            /\ new.left = item.left
        BY <3>1
      <3>4. new.hits \in Counts(l)
        BY <1>1, <3>2, <3>3 DEF Counts
      <3>5. new # NoItem
        <4>1. new \in Held(l)
          BY <3>1, <3>2, <3>3, <3>4 DEF Held
        <4> QED
          BY <4>1, NoItemIsNone
      <3>6. n = IF new.hits <= Budget[l] THEN 1 ELSE 0
        BY DEF Passes
      <3> HIDE DEF new
      <3>7. Begin(new) = Begin(item)
        BY <3>2, <3>3, <3>5 DEF Begin, Closed
      <3>8. Cost(new, l) = Cost(item, l) + n
        BY <1>1, <3>2, <3>3, <3>5, <3>6 DEF Cost, Closed, Counts
      <3> QED
        BY <3>2, <3>3, <3>4, <3>7, <3>8 DEF Countable
    <2> QED
      BY <2>1, <2>2
  <1>4. /\ Added(f, n)[Begin(item)] = f[Begin(item)] + n /\ Added(f, n)[Window] = f[Window] + n
        /\ f[Begin(item)] \in Nat /\ f[Window] \in Nat
    <2>1. Window \in 1..Window
      BY <1>1
    <2>2. Added(f, n)[Begin(item)] = f[Begin(item)] + n /\ Added(f, n)[Window] = f[Window] + n
      BY <1>1, <2>1 DEF Added
    <2> QED
      BY <1>1, <2>1, <2>2 DEF Growing
  <1> HIDE DEF new
  <1>5. /\ AtMost(f, item, l, k) => AtMost(Added(f, n), new, l, k)
        /\ AtLeast(f, item, l) => AtLeast(Added(f, n), new, l)
    BY <1>1, <1>2, <1>3, <1>4 DEF AtMost, AtLeast
  <1> QED
    BY <1>2, <1>3, <1>5 DEF new

(* A tick passes. *)
LEMMA Ticked ==
    ASSUME NEW l \in Limits, NEW item, Countable(item, l), NEW new, Countable(new, l),
           TickedTo(item, new), NEW f, Growing(f), NEW k \in Nat
    PROVE  /\ AtMost(f, item, l, k) => AtMost(Aged(f), new, l, k)
           /\ AtLeast(f, item, l) => AtLeast(Aged(f), new, l)
  <1>1. /\ Begin(item) \in 1..Window /\ Cost(item, l) \in 0..Budget[l]
        /\ Begin(new) \in 1..Window /\ Cost(new, l) \in 0..Budget[l]
        /\ Budget[l] \in Nat \ {0} /\ Window \in Nat \ {0}
    BY CostRange
  <1>2. /\ \A n \in 1..Window : f[n] \in Nat /\ f[n] <= f[Window]
        /\ Aged(f)[1] = 0 /\ \A n \in 1..Window : n > 1 => Aged(f)[n] = f[n - 1]
    <2>1. Window \in 1..Window /\ \A n \in 1..Window : n <= Window
      BY <1>1
    <2>2. \A n \in 1..Window : f[n] \in Nat /\ f[n] <= f[Window]
      BY <2>1 DEF Growing
    <2> QED
      BY <2>2, AgedGrows
  <1>3. Aged(f)[Window] \in Nat /\ Aged(f)[Window] <= f[Window]
    <2>1. CASE Window = 1
      BY <1>1, <1>2, <2>1
    <2>2. CASE Window # 1
      <3>1. Window - 1 \in 1..Window /\ Window > 1 /\ Window \in 1..Window
        BY <1>1, <2>2
      <3> QED
        BY <1>2, <3>1
    <2> QED
      BY <2>1, <2>2
  <1>4. CASE Closed(new)
    <2>1. Begin(new) = 1 /\ Cost(new, l) = 0
      BY <1>4 DEF Begin, Cost
    <2>2. CASE Closed(item)
      <3>1. Cost(item, l) = 0
        BY <2>2 DEF Cost
      <3> QED
        BY <1>1, <1>2, <1>3, <2>1, <3>1 DEF AtMost, AtLeast
    <2>3. CASE ~Closed(item)
      <3>1. item # NoItem /\ item.left \in 1..Window /\ item.left <= 1
        BY <1>1, <1>4, <2>3 DEF Closed, Countable, TickedTo, Less
      <3>2. Begin(item) = Window
        BY <1>1, <2>3, <3>1 DEF Begin
      <3>3. f[Window] \in Nat
        BY <1>1, <1>2, <3>2
      <3> QED
        BY <1>1, <1>2, <1>3, <2>1, <3>2, <3>3 DEF AtMost, AtLeast
    <2> QED
      BY <2>2, <2>3
  <1>5. CASE ~Closed(new)
    <2>1. /\ item # NoItem /\ new # NoItem /\ new.hits = item.hits /\ new.left = Less(item.left)
          /\ item.left \in 0..Window /\ new.left # 0
      BY <1>5 DEF Closed, TickedTo, Countable
    <2>2. item.left > 1 /\ new.left = item.left - 1
      BY <1>1, <2>1 DEF Less
    <2>3. ~Closed(item)
      BY <2>1, <2>2 DEF Closed
    <2>4. Begin(new) = Begin(item) + 1 /\ Cost(new, l) = Cost(item, l)
      BY <1>1, <1>5, <2>1, <2>2, <2>3 DEF Begin, Cost
    <2>5. Aged(f)[Begin(new)] = f[Begin(item)]
      BY <1>1, <1>2, <2>4
    <2>6. f[Begin(item)] \in Nat /\ f[Window] \in Nat
      BY <1>1, <1>2
    <2> QED
      BY <1>1, <1>3, <2>4, <2>5, <2>6 DEF AtMost, AtLeast
  <1> QED
    BY <1>4, <1>5
-----------------------------------------------------------------------------
(* What the steps do to the items and to the history of a cell.             *)

Allowance(k, l) == k * Budget[l]

Grown == \A c \in Cells : Growing(recent[c])

Outlive == \A c \in Cells : store[c] # NoItem => store[c].left <= store[c].ttl

Backed ==
    /\ \A c \in Cells : AtLeast(recent[c], store[c], c[2])
    /\ \A r \in Requests : pc[r] = "held" => AtLeast(recent[Cell(r)], hand[r], Limit(r))

Within ==
    /\ \A c \in Cells :
          AtMost(recent[c], store[c], c[2], Allowance(faults, c[2]) + IF InHand(c) THEN 1 ELSE 0)
    /\ \A r \in Requests : pc[r] = "held" =>
          AtMost(recent[Cell(r)], hand[r], Limit(r), Allowance(faults, Limit(r)))

History == TypeOK /\ Grown /\ Outlive /\ Backed

LEMMA ItemsCountable ==
    ASSUME TypeOK
    PROVE  /\ \A c \in Cells : Countable(store[c], c[2]) /\ c[2] \in Limits
           /\ \A r \in Requests : pc[r] = "held" =>
                 /\ Countable(hand[r], Limit(r)) /\ hand[r] # NoItem
                 /\ Limit(r) \in Limits /\ Cell(r) \in Cells /\ Cell(r)[2] = Limit(r)
  <1>1. ASSUME NEW c \in Cells
        PROVE  Countable(store[c], c[2]) /\ c[2] \in Limits
    BY DEF TypeOK, Cells, Item, Countable
  <1>2. ASSUME NEW r \in Requests, pc[r] = "held"
        PROVE  /\ Countable(hand[r], Limit(r)) /\ hand[r] # NoItem
               /\ Limit(r) \in Limits /\ Cell(r) \in Cells /\ Cell(r)[2] = Limit(r)
    <2>1. Limit(r) \in Limits /\ Cell(r) \in Cells /\ Cell(r)[2] = Limit(r)
      BY <1>2, CellType
    <2>2. hand[r] \in Held(Limit(r))
      BY <1>2 DEF TypeOK
    <2> QED
      BY <2>1, <2>2, NoItemIsNone DEF Held, Countable
  <1> QED
    BY <1>1, <1>2

LEMMA TakeEffect ==
    ASSUME TypeOK, NEW r \in Requests, Get(r) \/ GetFails(r)
    PROVE  /\ Cell(r) \in Cells /\ Limit(r) \in Limits /\ Cell(r)[2] = Limit(r)
           /\ \/ Get(r) /\ hand'[r] = Charged(store[Cell(r)], Limit(r)) /\ faults' = faults
              \/ GetFails(r) /\ hand'[r] = Charged(NoItem, Limit(r)) /\ faults' = faults + 1
           /\ recent'[Cell(r)] =
                 Added(recent[Cell(r)], IF Passes(hand'[r], Limit(r)) THEN 1 ELSE 0)
           /\ \A d \in Cells \ {Cell(r)} : recent'[d] = recent[d]
           /\ store' = store /\ pc'[r] = "held"
           /\ \A q \in Requests \ {r} : pc'[q] = pc[q] /\ hand'[q] = hand[q]
           /\ \A q \in Requests : Cell(q)' = Cell(q) /\ Limit(q)' = Limit(q)
  <1>1. pc[r] = "limit"
    BY DEF Get, GetFails
  <1>2. Cell(r) \in Cells /\ Limit(r) \in Limits /\ Cell(r)[2] = Limit(r)
    BY <1>1, CellType
  <1>3. PICK item :
            /\ Take(r, item)
            /\ \/ Get(r) /\ item = Charged(store[Cell(r)], Limit(r)) /\ faults' = faults
               \/ GetFails(r) /\ item = Charged(NoItem, Limit(r)) /\ faults' = faults + 1
    BY DEF Get, GetFails, Fault
  <1>4. /\ pc' = [pc EXCEPT ![r] = "held"] /\ hand' = [hand EXCEPT ![r] = item]
        /\ Record(Cell(r), Passes(item, Limit(r)))
        /\ UNCHANGED <<connected, store, at, route, stage>>
    BY <1>3 DEF Take
  <1>5. /\ pc'[r] = "held" /\ hand'[r] = item
        /\ \A q \in Requests \ {r} : pc'[q] = pc[q] /\ hand'[q] = hand[q]
    BY <1>4 DEF TypeOK
  <1>6. recent' = [recent EXCEPT ![Cell(r)] = Added(@, IF Passes(item, Limit(r)) THEN 1 ELSE 0)]
    BY <1>4 DEF Record
  <1>7. /\ recent'[Cell(r)] = Added(recent[Cell(r)], IF Passes(item, Limit(r)) THEN 1 ELSE 0)
        /\ \A d \in Cells \ {Cell(r)} : recent'[d] = recent[d]
    BY <1>2, <1>6 DEF TypeOK
  <1>8. \A q \in Requests : Cell(q)' = Cell(q) /\ Limit(q)' = Limit(q)
    BY <1>4 DEF Cell, Home, Limit
  <1> QED
    BY <1>2, <1>3, <1>4, <1>5, <1>7, <1>8

LEMMA TickEffect ==
    ASSUME TypeOK, Outlive, Tick
    PROVE  /\ \A c \in Cells : TickedTo(store[c], store'[c]) /\ recent'[c] = Aged(recent[c])
           /\ \A c \in Cells : store'[c] # NoItem => store'[c].left <= store'[c].ttl
           /\ \A r \in Requests : pc[r] = "held" => TickedTo(hand[r], hand'[r])
           /\ \A r \in Requests : Cell(r)' = Cell(r) /\ Limit(r)' = Limit(r)
           /\ pc' = pc /\ faults' = faults
  <1>0. TypeOK'
    BY TypeStep DEF Next
  <1>1. ASSUME NEW c \in Cells
        PROVE  /\ TickedTo(store[c], store'[c])
               /\ store'[c] # NoItem => store'[c].left <= store'[c].ttl
    <2> DEFINE i == store[c]
    <2>1. store'[c] = IF i = NoItem \/ i.ttl = 1 THEN NoItem
                      ELSE [i EXCEPT !.left = Less(@), !.ttl = @ - 1]
      BY DEF Tick
    <2>2. CASE i = NoItem
      BY <2>1, <2>2 DEF TickedTo
    <2>3. CASE i # NoItem /\ i.ttl = 1
      BY <2>1, <2>3 DEF TickedTo, Outlive
    <2>4. CASE i # NoItem /\ i.ttl # 1
      <3>1. /\ i \in Item(c[2]) /\ i.left <= i.ttl
        BY <2>4 DEF TypeOK, Outlive
      <3>2. /\ i = [hits |-> i.hits, left |-> i.left, ttl |-> i.ttl]
            /\ i.left \in 0..Window /\ i.ttl \in 1..Window /\ i.hits \in Counts(c[2])
        BY <3>1 DEF Item
      <3>3. store'[c] = [hits |-> i.hits, left |-> Less(i.left), ttl |-> i.ttl - 1]
        BY <2>1, <2>4, <3>2
      <3>4. Less(i.left) \in 0..Window /\ i.ttl - 1 \in 1..Window /\ Less(i.left) <= i.ttl - 1
        BY <2>4, <3>1, <3>2, LimiterAssumptions DEF Less
      <3>5. store'[c] \in Item(c[2]) /\ c[2] \in Limits
        BY <3>2, <3>3, <3>4 DEF Item, Cells
      <3>6. store'[c] # NoItem
        BY <3>5, NoItemIsNone
      <3>7. store'[c].hits = i.hits /\ store'[c].left = Less(i.left) /\ store'[c].ttl = i.ttl - 1
        BY <3>3
      <3> QED
        BY <2>4, <3>4, <3>6, <3>7 DEF TickedTo
    <2> QED
      BY <2>2, <2>3, <2>4
  <1>2. ASSUME NEW r \in Requests, pc[r] = "held"
        PROVE  TickedTo(hand[r], hand'[r])
    <2>1. hand[r] \in Held(Limit(r)) /\ hand[r] # NoItem
      BY <1>2, ItemsCountable DEF TypeOK
    <2>2. hand'[r] = [hand[r] EXCEPT !.left = Less(@)] /\ pc'[r] = "held"
      BY <1>2 DEF Tick
    <2>3. hand'[r] # NoItem
      <3>1. Limit(r)' = Limit(r) /\ Limit(r) \in Limits
        BY <1>2, CellType DEF Tick, Limit
      <3>2. hand'[r] \in Held(Limit(r))
        BY <1>0, <2>2, <3>1 DEF TypeOK
      <3> QED
        BY <3>1, <3>2, NoItemIsNone
    <2>4. hand'[r].hits = hand[r].hits /\ hand'[r].left = Less(hand[r].left)
      BY <2>1, <2>2 DEF Held
    <2> QED
      BY <2>1, <2>3, <2>4 DEF TickedTo
  <1>3. \A r \in Requests : Cell(r)' = Cell(r) /\ Limit(r)' = Limit(r)
    BY DEF Tick, Cell, Home, Limit
  <1> QED
    BY <1>1, <1>2, <1>3 DEF Tick

LEMMA TickedCountable ==
    ASSUME NEW l, NEW item, NEW new, Countable(item, l), TickedTo(item, new)
    PROVE  Countable(new, l)
  BY LimiterAssumptions DEF Countable, TickedTo, Less

(* No other step lets a request pass.  An item stays, is lost to a fault, or *)
(* becomes the one that a request had in hand, and a hand that lets go of   *)
(* its item without writing it is a fault.                                  *)
Written(c) ==
    \E r \in Requests :
        /\ pc[r] = "held" /\ Cell(r) = c
        /\ store'[c] = [hits |-> hand[r].hits, left |-> hand[r].left, ttl |-> Window]

LEMMA OtherEffect ==
    ASSUME TypeOK, [Next]_vars, ~Tick, \A r \in Requests : ~Get(r) /\ ~GetFails(r)
    PROVE  /\ recent' = recent /\ faults' \in {faults, faults + 1}
           /\ \A q \in Requests : pc'[q] = "held" =>
                 /\ pc[q] = "held" /\ hand'[q] = hand[q]
                 /\ Cell(q)' = Cell(q) /\ Limit(q)' = Limit(q)
           /\ \A c \in Cells :
                 \/ store'[c] = store[c]
                 \/ store'[c] = NoItem /\ faults' = faults + 1
                 \/ Written(c)
           /\ \A q \in Requests :
                 pc[q] = "held" => pc'[q] = "held" \/ Written(Cell(q)) \/ faults' = faults + 1
  <1>1. ASSUME NEW r \in Requests, Arrive(r) \/ Done(r)
        PROVE  /\ UNCHANGED <<recent, faults, store, hand>>
               /\ pc[r] # "held" /\ pc'[r] # "held"
               /\ \A q \in Requests \ {r} :
                     pc'[q] = pc[q] /\ Cell(q)' = Cell(q) /\ Limit(q)' = Limit(q)
    <2>1. CASE Arrive(r)
      <3>1. PICK i \in Instances, ro \in Traffic :
                /\ at' = [at EXCEPT ![r] = i] /\ route' = [route EXCEPT ![r] = ro]
                /\ Enter(r, ro, 1)
        BY <2>1 DEF Arrive
      <3> QED
        BY <2>1, <3>1 DEF Arrive, Enter, TypeOK, Cell, Home, Limit
    <2>2. CASE Done(r)
      BY <2>2 DEF Done, TypeOK, Cell, Home, Limit
    <2> QED
      BY <1>1, <2>1, <2>2
  <1>2. ASSUME NEW r \in Requests, Set(r) \/ SetFails(r)
        PROVE  /\ recent' = recent /\ pc[r] = "held" /\ pc'[r] # "held"
               /\ \A q \in Requests \ {r} :
                     /\ pc'[q] = pc[q] /\ hand'[q] = hand[q]
                     /\ Cell(q)' = Cell(q) /\ Limit(q)' = Limit(q)
               /\ \A c \in Cells : c # Cell(r) => store'[c] = store[c]
               /\ \/ Written(Cell(r)) /\ faults' = faults
                  \/ store' = store /\ faults' = faults + 1
    <2>1. pc[r] = "held" /\ Verdict(r)
      BY <1>2 DEF Set, SetFails
    <2>2. /\ recent' = recent /\ pc'[r] # "held" /\ UNCHANGED <<connected, at, route>>
          /\ \A q \in Requests \ {r} :
                pc'[q] = pc[q] /\ hand'[q] = hand[q] /\ stage'[q] = stage[q]
      BY <2>1 DEF Verdict, Enter, TypeOK
    <2>3. \A q \in Requests \ {r} : Cell(q)' = Cell(q) /\ Limit(q)' = Limit(q)
      BY <2>2 DEF Cell, Home, Limit
    <2>4. Cell(r) \in Cells
      BY <2>1, CellType
    <2>5. CASE Set(r)
      <3>1. /\ store' = [store EXCEPT ![Cell(r)] =
                 [hits |-> hand[r].hits, left |-> hand[r].left, ttl |-> Window]]
            /\ faults' = faults
        BY <2>5 DEF Set
      <3>2. Written(Cell(r))
        BY <2>1, <2>4, <3>1 DEF TypeOK, Written
      <3>3. \A c \in Cells : c # Cell(r) => store'[c] = store[c]
        BY <3>1 DEF TypeOK
      <3> QED
        BY <2>1, <2>2, <2>3, <3>1, <3>2, <3>3
    <2>6. CASE SetFails(r)
      BY <2>1, <2>2, <2>3, <2>6 DEF SetFails, Fault
    <2> QED
      BY <1>2, <2>5, <2>6
  <1>3. ASSUME NEW i \in Instances, Crash(i)
        PROVE  /\ recent' = recent /\ faults' = faults + 1
               /\ \A q \in Requests : pc'[q] = "held" =>
                     /\ pc[q] = "held" /\ hand'[q] = hand[q]
                     /\ Cell(q)' = Cell(q) /\ Limit(q)' = Limit(q)
               /\ \A c \in Cells : store'[c] \in {store[c], NoItem}
    <2>1. \A q \in Requests : Cell(q)' = Cell(q) /\ Limit(q)' = Limit(q)
      BY <1>3 DEF Crash, Cell, Home, Limit
    <2> QED
      BY <1>3, <2>1 DEF Crash, Fault
  <1>4. ASSUME NEW d \in Cells, Evict(d)
        PROVE  /\ recent' = recent /\ faults' = faults + 1 /\ pc' = pc /\ hand' = hand
               /\ \A q \in Requests : Cell(q)' = Cell(q) /\ Limit(q)' = Limit(q)
               /\ \A c \in Cells : store'[c] \in {store[c], NoItem}
    BY <1>4 DEF Evict, Fault, TypeOK, Cell, Home, Limit
  <1>5. CASE UNCHANGED vars
    BY <1>5 DEF vars, Cell, Home, Limit
  <1>6. ASSUME NEW r \in Requests, Arrive(r) \/ Done(r) \/ Set(r) \/ SetFails(r)
        PROVE  /\ recent' = recent /\ faults' \in {faults, faults + 1}
               /\ \A q \in Requests : pc'[q] = "held" =>
                     /\ pc[q] = "held" /\ hand'[q] = hand[q]
                     /\ Cell(q)' = Cell(q) /\ Limit(q)' = Limit(q)
               /\ \A c \in Cells : store'[c] = store[c] \/ Written(c)
               /\ \A q \in Requests :
                     pc[q] = "held" => pc'[q] = "held" \/ Written(Cell(q)) \/ faults' = faults + 1
    BY <1>1, <1>2, <1>6
  <1>7. \/ UNCHANGED vars
        \/ \E i \in Instances : Crash(i)
        \/ \E c \in Cells : Evict(c)
        \/ \E r \in Requests : Arrive(r) \/ Done(r) \/ Set(r) \/ SetFails(r)
    BY DEF Next, Serve
  <1>8. CASE \E i \in Instances : Crash(i)
    BY <1>3, <1>8
  <1>9. CASE \E c \in Cells : Evict(c)
    BY <1>4, <1>9
  <1>10. CASE \E r \in Requests : Arrive(r) \/ Done(r) \/ Set(r) \/ SetFails(r)
    BY <1>6, <1>10
  <1> QED
    BY <1>5, <1>7, <1>8, <1>9, <1>10

(* What is written is what was in hand. *)
LEMMA WrittenCounts ==
    ASSUME TypeOK, NEW c \in Cells, Written(c)
    PROVE  \E r \in Requests :
              /\ pc[r] = "held" /\ Cell(r) = c /\ Limit(r) = c[2]
              /\ Begin(store'[c]) = Begin(hand[r])
              /\ Cost(store'[c], c[2]) = Cost(hand[r], c[2])
              /\ store'[c].left <= store'[c].ttl
  <1>1. PICK r \in Requests :
            /\ pc[r] = "held" /\ Cell(r) = c
            /\ store'[c] = [hits |-> hand[r].hits, left |-> hand[r].left, ttl |-> Window]
    BY DEF Written
  <1>2. /\ hand[r] # NoItem /\ hand[r] \in Held(Limit(r)) /\ Limit(r) = c[2] /\ Limit(r) \in Limits
    BY <1>1, ItemsCountable DEF TypeOK
  <1>3. hand[r].hits \in Counts(Limit(r)) /\ hand[r].left \in 0..Window /\ Window \in Nat \ {0}
    BY <1>2, LimiterAssumptions DEF Held
  <1>4. store'[c] \in Item(Limit(r))
    BY <1>1, <1>3 DEF Item
  <1>5. store'[c] # NoItem
    BY <1>2, <1>4, NoItemIsNone
  <1>6. store'[c].hits = hand[r].hits /\ store'[c].left = hand[r].left /\ store'[c].ttl = Window
    BY <1>1
  <1>7. Begin(store'[c]) = Begin(hand[r]) /\ Cost(store'[c], c[2]) = Cost(hand[r], c[2])
    BY <1>2, <1>5, <1>6 DEF Begin, Cost, Closed
  <1>8. store'[c].left <= store'[c].ttl
    BY <1>3, <1>6
  <1> QED
    BY <1>1, <1>2, <1>7, <1>8

(* Every item stands for requests that were let pass, in every fleet.       *)
LEMMA HistoryStep == ASSUME History, [Next]_vars PROVE History'
  <1>0. TypeOK /\ TypeOK' /\ Grown /\ Outlive /\ Backed
    BY TypeStep DEF History
  <1>1. ASSUME NEW r \in Requests, Get(r) \/ GetFails(r)
        PROVE  Grown' /\ Outlive' /\ Backed'
    <2> DEFINE c == Cell(r)
               l == Limit(r)
               n == IF Passes(hand'[r], l) THEN 1 ELSE 0
    <2>1. /\ c \in Cells /\ l \in Limits /\ c[2] = l /\ recent'[c] = Added(recent[c], n)
          /\ hand'[r] = Charged(store[c], l) \/ hand'[r] = Charged(NoItem, l)
          /\ \A d \in Cells \ {c} : recent'[d] = recent[d]
          /\ store' = store /\ pc'[r] = "held"
          /\ \A q \in Requests \ {r} : pc'[q] = pc[q] /\ hand'[q] = hand[q]
          /\ \A q \in Requests : Cell(q)' = Cell(q) /\ Limit(q)' = Limit(q)
      BY <1>0, <1>1, TakeEffect
    <2>2. n \in {0, 1} /\ n \in Nat /\ Growing(recent[c])
      BY <1>0, <2>1 DEF Grown
    <2> HIDE DEF c, l
    <2>3. Grown'
      BY <1>0, <2>1, <2>2, AddedGrows DEF Grown
    <2>4. Outlive'
      BY <1>0, <2>1 DEF Outlive
    <2>5. ASSUME NEW d \in Cells PROVE AtLeast(recent'[d], store'[d], d[2])
      <3>1. Countable(store[d], d[2]) /\ d[2] \in Limits /\ AtLeast(recent[d], store[d], d[2])
        BY <1>0, ItemsCountable DEF Backed
      <3> HIDE DEF n
      <3>2. CASE d = c
        BY <2>1, <2>2, <3>1, <3>2, Beside
      <3>3. CASE d # c
        BY <2>1, <3>1, <3>3
      <3> QED
        BY <3>2, <3>3
    <2>6. AtLeast(recent'[c], hand'[r], l)
      <3>1. Countable(store[c], l) /\ AtLeast(recent[c], store[c], l)
        BY <1>0, <2>1, ItemsCountable DEF Backed
      <3>2. Countable(NoItem, l) /\ AtLeast(recent[c], NoItem, l)
        BY <2>2, NoneBacked
      <3>3. PICK item \in {store[c], NoItem} : hand'[r] = Charged(item, l)
        BY <2>1
      <3>4. Countable(item, l) /\ AtLeast(recent[c], item, l) /\ n = IF Passes(Charged(item, l), l) THEN 1 ELSE 0
        BY <3>1, <3>2, <3>3
      <3> HIDE DEF n
      <3> QED
        BY <2>1, <2>2, <3>3, <3>4, Counted
    <2>7. ASSUME NEW q \in Requests, pc'[q] = "held"
          PROVE  AtLeast(recent'[Cell(q)'], hand'[q], Limit(q)')
      <3> HIDE DEF n
      <3>1. CASE q = r
        BY <2>1, <2>6, <3>1 DEF c, l
      <3>2. CASE q # r
        <4>1. /\ pc[q] = "held" /\ hand'[q] = hand[q] /\ Cell(q)' = Cell(q) /\ Limit(q)' = Limit(q)
          BY <2>1, <2>7, <3>2
        <4>2. /\ Countable(hand[q], Limit(q)) /\ Limit(q) \in Limits /\ Cell(q) \in Cells
              /\ AtLeast(recent[Cell(q)], hand[q], Limit(q))
          BY <1>0, <4>1, ItemsCountable DEF Backed
        <4>3. AtLeast(recent'[Cell(q)], hand[q], Limit(q))
          <5>1. CASE Cell(q) = c
            BY <2>1, <2>2, <4>2, <5>1, Beside
          <5>2. CASE Cell(q) # c
            BY <2>1, <4>2, <5>2
          <5> QED
            BY <5>1, <5>2
        <4> QED
          BY <4>1, <4>3
      <3> QED
        BY <3>1, <3>2
    <2> QED
      BY <2>3, <2>4, <2>5, <2>7 DEF Backed
  <1>2. CASE Tick
    <2>1. /\ \A c \in Cells : TickedTo(store[c], store'[c]) /\ recent'[c] = Aged(recent[c])
          /\ \A c \in Cells : store'[c] # NoItem => store'[c].left <= store'[c].ttl
          /\ \A r \in Requests : pc[r] = "held" => TickedTo(hand[r], hand'[r])
          /\ \A r \in Requests : Cell(r)' = Cell(r) /\ Limit(r)' = Limit(r)
          /\ pc' = pc
      BY <1>0, <1>2, TickEffect
    <2>2. Grown'
      BY <1>0, <2>1, AgedGrows DEF Grown
    <2>3. ASSUME NEW c \in Cells PROVE AtLeast(recent'[c], store'[c], c[2])
      <3>1. /\ Countable(store[c], c[2]) /\ c[2] \in Limits /\ Growing(recent[c])
            /\ AtLeast(recent[c], store[c], c[2])
        BY <1>0, ItemsCountable DEF Backed, Grown
      <3>2. Countable(store'[c], c[2])
        BY <2>1, <3>1, TickedCountable
      <3> QED
        BY <2>1, <3>1, <3>2, Ticked
    <2>4. ASSUME NEW r \in Requests, pc[r] = "held"
          PROVE  AtLeast(recent'[Cell(r)], hand'[r], Limit(r))
      <3>1. /\ Countable(hand[r], Limit(r)) /\ Limit(r) \in Limits /\ Cell(r) \in Cells
            /\ Growing(recent[Cell(r)]) /\ AtLeast(recent[Cell(r)], hand[r], Limit(r))
        BY <1>0, <2>4, ItemsCountable DEF Backed, Grown
      <3>2. Countable(hand'[r], Limit(r)) /\ TickedTo(hand[r], hand'[r])
        BY <2>1, <2>4, <3>1, TickedCountable
      <3> QED
        BY <2>1, <3>1, <3>2, Ticked
    <2>5. Outlive' /\ Backed'
      BY <2>1, <2>3, <2>4 DEF Outlive, Backed
    <2> QED
      BY <1>0, <2>2, <2>5 DEF History
  <1>3. CASE ~Tick /\ \A r \in Requests : ~Get(r) /\ ~GetFails(r)
    <2>1. /\ recent' = recent
          /\ \A q \in Requests : pc'[q] = "held" =>
                /\ pc[q] = "held" /\ hand'[q] = hand[q]
                /\ Cell(q)' = Cell(q) /\ Limit(q)' = Limit(q)
          /\ \A c \in Cells : store'[c] = store[c] \/ store'[c] = NoItem \/ Written(c)
      BY <1>0, <1>3, OtherEffect
    <2>2. ASSUME NEW c \in Cells
          PROVE  /\ AtLeast(recent[c], store'[c], c[2])
                 /\ store'[c] # NoItem => store'[c].left <= store'[c].ttl
      <3>1. CASE store'[c] = store[c]
        BY <1>0, <3>1 DEF Backed, Outlive
      <3>2. CASE store'[c] = NoItem
        <4>1. Growing(recent[c])
          BY <1>0 DEF Grown
        <4> QED
          BY <3>2, <4>1, NoneBacked
      <3>3. CASE Written(c)
        <4>1. PICK r \in Requests :
                  /\ pc[r] = "held" /\ Cell(r) = c /\ Limit(r) = c[2]
                  /\ Begin(store'[c]) = Begin(hand[r])
                  /\ Cost(store'[c], c[2]) = Cost(hand[r], c[2])
                  /\ store'[c].left <= store'[c].ttl
          BY <1>0, <3>3, WrittenCounts
        <4> QED
          BY <1>0, <4>1 DEF Backed, AtLeast
      <3> QED
        BY <2>1, <3>1, <3>2, <3>3
    <2>3. Grown' /\ Outlive' /\ Backed'
      BY <1>0, <2>1, <2>2 DEF Grown, Outlive, Backed
    <2> QED
      BY <1>0, <2>3 DEF History
  <1> QED
    BY <1>0, <1>1, <1>2, <1>3 DEF History

(* At the start no item stands for anything. *)
LEMMA HistoryInit == ASSUME Init PROVE History
  <1>1. TypeOK
    BY LimiterAssumptions DEF Init, TypeOK, Routes
  <1>2. \A c \in Cells : store[c] = NoItem /\ recent[c] = [n \in 1..Window |-> 0]
    BY DEF Init
  <1>3. Grown /\ Outlive
    <2>1. Growing([n \in 1..Window |-> 0])
      BY DEF Growing
    <2> QED
      BY <1>2, <2>1 DEF Grown, Outlive
  <1>4. Backed
    <2>1. \A r \in Requests : pc[r] = "idle"
      BY DEF Init
    <2>2. \A c \in Cells : AtLeast(recent[c], store[c], c[2])
      BY <1>2, <1>3, NoneBacked DEF Grown
    <2> QED
      BY <2>1, <2>2 DEF Backed
  <1> QED
    BY <1>1, <1>3, <1>4 DEF History

(* Nobody is refused who has not had the whole budget in the last Window    *)
(* ticks, in any fleet, whatever fails and whoever shares the counters.     *)
THEOREM RefusalsAreEarned == Spec => RefusalsEarned
  <1>1. Init => History
    BY HistoryInit
  <1>2. ASSUME History, [Next]_vars, NEW r \in Requests,
               pc[r] = "limit", pc'[r] = "held", ~Passes(hand'[r], Limit(r))
        PROVE  LetPass(Cell(r)) >= Budget[Limit(r)]
    <2>0. TypeOK /\ Grown /\ Backed
      BY <1>2 DEF History
    <2>1. Get(r) \/ GetFails(r)
      <3>1. ~Tick
        BY <1>2 DEF Tick
      <3>2. \A q \in Requests \ {r} : ~Get(q) /\ ~GetFails(q)
        BY <1>2, <2>0, TakeEffect
      <3> QED
        BY <1>2, <2>0, <3>1, <3>2, OtherEffect
    <2> DEFINE c == Cell(r)
               l == Limit(r)
    <2>2. c \in Cells /\ l \in Limits /\ c[2] = l
      BY <2>0, <2>1, TakeEffect
    <2>3. PICK item \in {store[c], NoItem} : hand'[r] = Charged(item, l)
      BY <2>0, <2>1, TakeEffect
    <2>4. Budget[l] \in Nat \ {0} /\ Window \in 1..Window
      BY <2>2, LimiterAssumptions
    <2>5. ~Closed(item)
      <3>1. Closed(item) => Charged(item, l).hits = 1
        BY DEF Charged, Closed
      <3> QED
        BY <1>2, <2>3, <2>4, <3>1 DEF Passes
    <2>6. item = store[c] /\ Countable(item, l) /\ AtLeast(recent[c], item, l) /\ Growing(recent[c])
      BY <2>0, <2>2, <2>3, <2>5, ItemsCountable DEF Closed, Backed, Grown
    <2>7. Charged(item, l).hits = IF item.hits > Budget[l] THEN item.hits ELSE item.hits + 1
      BY <2>5 DEF Charged, Closed
    <2>8. item.hits \in Nat /\ item.hits >= Budget[l]
      BY <1>2, <2>3, <2>4, <2>5, <2>6, <2>7 DEF Passes, Countable, Counts, Closed
    <2>9. Cost(item, l) = Budget[l]
      BY <2>4, <2>5, <2>8 DEF Cost
    <2>10. Begin(item) \in 1..Window /\ Begin(item) <= Window
      BY <2>2, <2>6, CostRange
    <2>11. recent[c][Begin(item)] <= recent[c][Window] /\ recent[c][Window] \in Nat
           /\ recent[c][Begin(item)] \in Nat
      BY <2>4, <2>6, <2>10 DEF Growing
    <2> QED
      BY <2>4, <2>6, <2>9, <2>11 DEF AtLeast, LetPass
  <1>3. History /\ [Next]_vars => History'
    BY HistoryStep
  <1>4. History /\ [Next]_vars =>
            [\A r \in Requests :
                pc[r] = "limit" /\ pc'[r] = "held" /\ ~Passes(hand'[r], Limit(r))
                    => LetPass(Cell(r)) >= Budget[Limit(r)]]_vars
    BY <1>2
  <1> QED
    BY <1>1, <1>3, <1>4, PTL DEF Spec, RefusalsEarned
-----------------------------------------------------------------------------
(* One budget before the window, one in it, and one more per fault.         *)

LEMMA Weaker ==
    ASSUME NEW l \in Limits, NEW item, Countable(item, l), NEW f, Growing(f),
           NEW k \in Nat, NEW m \in Nat, k <= m, AtMost(f, item, l, k)
    PROVE  AtMost(f, item, l, m)
  <1>1. Begin(item) \in 1..Window /\ Cost(item, l) \in Nat /\ Budget[l] \in Nat
        /\ Window \in 1..Window
    BY CostRange
  <1>2. f[Begin(item)] \in Nat /\ f[Window] \in Nat
    BY <1>1 DEF Growing
  <1> QED
    BY <1>1, <1>2 DEF AtMost

LEMMA AllowanceStep ==
    ASSUME NEW l \in Limits, NEW k \in Nat
    PROVE  /\ Budget[l] \in Nat \ {0} /\ Allowance(k, l) \in Nat
           /\ Allowance(k + 1, l) = Allowance(k, l) + Budget[l]
  <1>1. Budget[l] \in Nat \ {0}
    BY LimiterAssumptions
  <1>2. \A b \in Nat : k * b \in Nat /\ (k + 1) * b = k * b + b
    OBVIOUS
  <1> QED
    BY <1>1, <1>2 DEF Allowance

LEMMA WithinStep ==
    ASSUME Alone, History, OneHand, Within, [Next]_vars
    PROVE  Within'
  <1>0. TypeOK /\ Grown /\ Outlive /\ faults \in Nat
    BY DEF History, TypeOK
  <1>1. ASSUME NEW c \in Cells
        PROVE  /\ c[2] \in Limits /\ Countable(store[c], c[2]) /\ Growing(recent[c])
               /\ Budget[c[2]] \in Nat \ {0} /\ Allowance(faults, c[2]) \in Nat
               /\ faults' = faults => Allowance(faults', c[2]) = Allowance(faults, c[2])
               /\ faults' = faults + 1 => Allowance(faults', c[2]) = Allowance(faults, c[2]) + Budget[c[2]]
               /\ InHand(c) => AtMost(recent[c], store[c], c[2], Allowance(faults, c[2]) + 1)
               /\ ~InHand(c) => AtMost(recent[c], store[c], c[2], Allowance(faults, c[2]))
    <2>1. c[2] \in Limits /\ Countable(store[c], c[2]) /\ Growing(recent[c])
      BY <1>0, ItemsCountable DEF Grown
    <2>2. /\ Budget[c[2]] \in Nat \ {0} /\ Allowance(faults, c[2]) \in Nat
          /\ faults' = faults => Allowance(faults', c[2]) = Allowance(faults, c[2])
          /\ faults' = faults + 1 => Allowance(faults', c[2]) = Allowance(faults, c[2]) + Budget[c[2]]
      BY <1>0, <2>1, AllowanceStep
    <2>3. AtMost(recent[c], store[c], c[2], Allowance(faults, c[2]) + IF InHand(c) THEN 1 ELSE 0)
      BY DEF Within
    <2>4. Allowance(faults, c[2]) + 0 = Allowance(faults, c[2])
      BY <2>2
    <2> QED
      BY <2>1, <2>2, <2>3, <2>4
  <1>2. ASSUME NEW q \in Requests, pc[q] = "held"
        PROVE  /\ Countable(hand[q], Limit(q)) /\ Limit(q) \in Limits /\ Cell(q) \in Cells
               /\ Cell(q)[2] = Limit(q) /\ Growing(recent[Cell(q)])
               /\ AtMost(recent[Cell(q)], hand[q], Limit(q), Allowance(faults, Limit(q)))
    BY <1>0, <1>2, ItemsCountable DEF Within, Grown
  <1>3. ASSUME NEW r \in Requests, Get(r) \/ GetFails(r)
        PROVE  Within'
    <2> DEFINE c == Cell(r)
               l == Limit(r)
               n == IF Passes(hand'[r], l) THEN 1 ELSE 0
    <2>1. /\ c \in Cells /\ l \in Limits /\ c[2] = l /\ recent'[c] = Added(recent[c], n)
          /\ \/ hand'[r] = Charged(store[c], l) /\ faults' = faults
             \/ hand'[r] = Charged(NoItem, l) /\ faults' = faults + 1
          /\ \A d \in Cells \ {c} : recent'[d] = recent[d]
          /\ store' = store /\ pc'[r] = "held"
          /\ \A q \in Requests \ {r} : pc'[q] = pc[q] /\ hand'[q] = hand[q]
          /\ \A q \in Requests : Cell(q)' = Cell(q) /\ Limit(q)' = Limit(q)
      BY <1>0, <1>3, TakeEffect
    <2>2. ~InHand(c)
      BY <1>0, <1>3, CellFree DEF Get, GetFails
    <2>3. n \in {0, 1}
      OBVIOUS
    <2>4. InHand(c)' /\ \A d \in Cells \ {c} : InHand(d)' <=> InHand(d)
      BY <2>1 DEF InHand
    <2> DEFINE k == Allowance(faults, l)
               j == Allowance(faults', l)
    <2>5. /\ k \in Nat /\ j \in Nat /\ k <= j /\ Growing(recent[c])
          /\ faults' = faults => j = k
          /\ faults' = faults + 1 => j = k + Budget[l]
          /\ Countable(store[c], l) /\ Countable(NoItem, l)
          /\ AtMost(recent[c], store[c], l, k)
      BY <1>1, <2>1, <2>2 DEF Countable
    <2>6. AtMost(recent'[c], hand'[r], l, j)
      <3>1. CASE hand'[r] = Charged(store[c], l) /\ faults' = faults
        <4>1. n = IF Passes(Charged(store[c], l), l) THEN 1 ELSE 0
          BY <3>1
        <4> HIDE DEF c, l, n, k, j
        <4> QED
          BY <2>1, <2>5, <3>1, <4>1, Counted
      <3>2. CASE hand'[r] = Charged(NoItem, l) /\ faults' = faults + 1
        <4>1. n = IF Passes(Charged(NoItem, l), l) THEN 1 ELSE 0
          BY <3>2
        <4> HIDE DEF c, l, n, k, j
        <4>2. AtMost(recent[c], NoItem, l, j)
          BY <2>1, <2>5, <3>2, Lost
        <4> QED
          BY <2>1, <2>5, <3>2, <4>1, <4>2, Counted
      <3> QED
        BY <2>1, <3>1, <3>2
    <2>7. AtMost(recent'[c], store'[c], l, j + 1)
      <3> HIDE DEF c, l, n, k, j
      <3>1. AtMost(recent[c], store[c], l, j)
        BY <2>1, <2>5, Weaker
      <3> QED
        BY <2>1, <2>3, <2>5, <3>1, Beside
    <2>8. ASSUME NEW d \in Cells
          PROVE  AtMost(recent'[d], store'[d], d[2],
                        Allowance(faults', d[2]) + IF InHand(d)' THEN 1 ELSE 0)
      <3>1. CASE d = c
        BY <2>1, <2>4, <2>7, <3>1
      <3>2. CASE d # c
        <4> HIDE DEF c, l, n, k, j
        <4> DEFINE h == IF InHand(d) THEN 1 ELSE 0
        <4>1. h \in {0, 1} /\ AtMost(recent[d], store[d], d[2], Allowance(faults, d[2]) + h)
          BY DEF Within
        <4>2. /\ Allowance(faults, d[2]) + h \in Nat /\ Allowance(faults', d[2]) + h \in Nat
              /\ Allowance(faults, d[2]) + h <= Allowance(faults', d[2]) + h
          <5> HIDE DEF h
          <5> QED
            BY <1>1, <2>1, <4>1
        <4>3. AtMost(recent[d], store[d], d[2], Allowance(faults', d[2]) + h)
          <5> HIDE DEF h
          <5> QED
            BY <1>1, <4>1, <4>2, Weaker
        <4> QED
          BY <2>1, <2>4, <3>2, <4>3
      <3> QED
        BY <3>1, <3>2
    <2>9. ASSUME NEW q \in Requests, pc'[q] = "held"
          PROVE  AtMost(recent'[Cell(q)'], hand'[q], Limit(q)', Allowance(faults', Limit(q)'))
      <3>1. CASE q = r
        BY <2>1, <2>6, <3>1
      <3>2. CASE q # r
        <4>1. /\ pc[q] = "held" /\ hand'[q] = hand[q] /\ Cell(q)' = Cell(q)
              /\ Limit(q)' = Limit(q) /\ Cell(q) # c
          BY <2>1, <2>2, <2>9, <3>2 DEF InHand
        <4> QED
          BY <1>1, <1>2, <2>1, <4>1, Weaker
      <3> QED
        BY <3>1, <3>2
    <2> QED
      BY <2>8, <2>9 DEF Within
  <1>4. CASE Tick
    <2>1. /\ \A c \in Cells : TickedTo(store[c], store'[c]) /\ recent'[c] = Aged(recent[c])
          /\ \A r \in Requests : pc[r] = "held" => TickedTo(hand[r], hand'[r])
          /\ \A r \in Requests : Cell(r)' = Cell(r) /\ Limit(r)' = Limit(r)
          /\ pc' = pc /\ faults' = faults
      BY <1>0, <1>4, TickEffect
    <2>2. \A c \in Cells : InHand(c)' <=> InHand(c)
      BY <2>1 DEF InHand
    <2>3. ASSUME NEW c \in Cells
          PROVE  AtMost(recent'[c], store'[c], c[2],
                        Allowance(faults', c[2]) + IF InHand(c)' THEN 1 ELSE 0)
      <3> DEFINE h == IF InHand(c) THEN 1 ELSE 0
      <3>1. /\ h \in {0, 1} /\ AtMost(recent[c], store[c], c[2], Allowance(faults, c[2]) + h)
        BY DEF Within
      <3>2. (IF InHand(c)' THEN 1 ELSE 0) = h
        BY <2>2
      <3> HIDE DEF h
      <3>3. Allowance(faults, c[2]) + h \in Nat
        BY <1>1, <3>1
      <3>4. Countable(store'[c], c[2])
        BY <1>1, <2>1, TickedCountable
      <3>5. AtMost(Aged(recent[c]), store'[c], c[2], Allowance(faults, c[2]) + h)
        BY <1>1, <2>1, <3>1, <3>3, <3>4, Ticked
      <3>6. Allowance(faults', c[2]) = Allowance(faults, c[2])
        BY <1>1, <2>1
      <3> QED
        BY <2>1, <3>2, <3>5, <3>6
    <2>4. ASSUME NEW q \in Requests, pc[q] = "held"
          PROVE  AtMost(recent'[Cell(q)], hand'[q], Limit(q), Allowance(faults, Limit(q)))
      <3>1. Allowance(faults, Limit(q)) \in Nat
        BY <1>1, <1>2, <2>4
      <3>2. Countable(hand'[q], Limit(q))
        BY <1>2, <2>1, <2>4, TickedCountable
      <3> QED
        BY <1>2, <2>1, <2>4, <3>1, <3>2, Ticked
    <2> QED
      BY <2>1, <2>3, <2>4 DEF Within
  <1>5. CASE ~Tick /\ \A r \in Requests : ~Get(r) /\ ~GetFails(r)
    <2>1. /\ recent' = recent /\ faults' \in {faults, faults + 1}
          /\ \A q \in Requests : pc'[q] = "held" =>
                /\ pc[q] = "held" /\ hand'[q] = hand[q]
                /\ Cell(q)' = Cell(q) /\ Limit(q)' = Limit(q)
          /\ \A c \in Cells :
                \/ store'[c] = store[c]
                \/ store'[c] = NoItem /\ faults' = faults + 1
                \/ Written(c)
          /\ \A q \in Requests :
                pc[q] = "held" => pc'[q] = "held" \/ Written(Cell(q)) \/ faults' = faults + 1
      BY <1>0, <1>5, OtherEffect
    <2>2. ASSUME NEW c \in Cells
          PROVE  AtMost(recent[c], store'[c], c[2],
                        Allowance(faults', c[2]) + IF InHand(c)' THEN 1 ELSE 0)
      <3> DEFINE l == c[2]
                 k == Allowance(faults, l)
                 j == Allowance(faults', l)
                 h == IF InHand(c)' THEN 1 ELSE 0
      <3>1. /\ l \in Limits /\ Countable(store[c], l) /\ Growing(recent[c])
            /\ Budget[l] \in Nat \ {0} /\ k \in Nat
            /\ faults' = faults => j = k
            /\ faults' = faults + 1 => j = k + Budget[l]
            /\ InHand(c) => AtMost(recent[c], store[c], l, k + 1)
            /\ ~InHand(c) => AtMost(recent[c], store[c], l, k)
        BY <1>1
      <3>2. h \in {0, 1} /\ (InHand(c)' => h = 1)
        OBVIOUS
      <3>3. InHand(c) => InHand(c)' \/ Written(c) \/ faults' = faults + 1
        BY <2>1 DEF InHand
      <3> HIDE DEF l, k, j, h
      <3>4. j \in Nat /\ k <= j
        BY <2>1, <3>1
      <3>5. CASE Written(c)
        <4>1. PICK q \in Requests :
                  /\ pc[q] = "held" /\ Cell(q) = c /\ Limit(q) = c[2]
                  /\ Begin(store'[c]) = Begin(hand[q])
                  /\ Cost(store'[c], c[2]) = Cost(hand[q], c[2])
          BY <1>0, <3>5, WrittenCounts
        <4>2. Countable(hand[q], l) /\ AtMost(recent[c], hand[q], l, k)
          BY <1>2, <4>1 DEF l, k
        <4>3. j + h \in Nat /\ k <= j + h
          BY <3>1, <3>2, <3>4
        <4>4. AtMost(recent[c], hand[q], l, j + h)
          BY <3>1, <4>2, <4>3, Weaker
        <4>5. AtMost(recent[c], store'[c], l, j + h)
          BY <4>1, <4>4 DEF AtMost, l
        <4> QED
          BY <4>5 DEF l, j, h
      <3>6. CASE store'[c] = store[c] /\ ~Written(c)
        <4>1. CASE ~InHand(c)
          <5>1. j + h \in Nat /\ k <= j + h
            BY <3>1, <3>2, <3>4
          <5>2. AtMost(recent[c], store[c], l, j + h)
            BY <3>1, <4>1, <5>1, Weaker
          <5> QED
            BY <3>6, <5>2 DEF l, j, h
        <4>2. CASE InHand(c)
          <5>1. j + h \in Nat /\ k + 1 \in Nat /\ k + 1 <= j + h
            BY <2>1, <3>1, <3>2, <3>3, <3>4, <3>6, <4>2
          <5>2. AtMost(recent[c], store[c], l, j + h)
            BY <3>1, <4>2, <5>1, Weaker
          <5> QED
            BY <3>6, <5>2 DEF l, j, h
        <4> QED
          BY <4>1, <4>2
      <3>7. CASE store'[c] = NoItem /\ faults' = faults + 1
        <4>1. Countable(NoItem, l) /\ j = k + Budget[l]
          BY <3>1, <3>7 DEF Countable
        <4>2. ~InHand(c) => AtMost(recent[c], NoItem, l, j)
          BY <3>1, <4>1, Lost
        <4>3. ASSUME InHand(c) PROVE AtMost(recent[c], NoItem, l, j)
          <5>1. PICK q \in Requests : pc[q] = "held" /\ Cell(q) = c
            BY <4>3 DEF InHand
          <5>2. Countable(hand[q], l) /\ AtMost(recent[c], hand[q], l, k)
            BY <1>2, <5>1 DEF l, k
          <5> QED
            BY <3>1, <4>1, <5>2, Lost
        <4>4. j + h \in Nat /\ j <= j + h
          BY <3>2, <3>4
        <4>5. AtMost(recent[c], NoItem, l, j + h)
          BY <3>1, <3>4, <4>1, <4>2, <4>3, <4>4, Weaker
        <4> QED
          BY <3>7, <4>5 DEF l, j, h
      <3> QED
        BY <2>1, <3>5, <3>6, <3>7
    <2>3. ASSUME NEW q \in Requests, pc'[q] = "held"
          PROVE  AtMost(recent[Cell(q)'], hand'[q], Limit(q)', Allowance(faults', Limit(q)'))
      <3>1. /\ pc[q] = "held" /\ hand'[q] = hand[q]
            /\ Cell(q)' = Cell(q) /\ Limit(q)' = Limit(q)
        BY <2>1, <2>3
      <3> DEFINE k == Allowance(faults, Limit(q))
                 j == Allowance(faults', Limit(q))
      <3>2. /\ Countable(hand[q], Limit(q)) /\ Limit(q) \in Limits /\ Growing(recent[Cell(q)])
            /\ AtMost(recent[Cell(q)], hand[q], Limit(q), k)
        BY <1>2, <3>1
      <3>3. k \in Nat /\ j \in Nat /\ k <= j
        <4>1. Cell(q) \in Cells /\ Cell(q)[2] = Limit(q)
          BY <1>2, <3>1
        <4> QED
          BY <1>1, <2>1, <4>1
      <3> HIDE DEF k, j
      <3>4. AtMost(recent[Cell(q)], hand[q], Limit(q), j)
        BY <3>2, <3>3, Weaker
      <3> QED
        BY <3>1, <3>4 DEF j
    <2> QED
      BY <2>1, <2>2, <2>3 DEF Within
  <1> QED
    BY <1>3, <1>4, <1>5

(* Any stretch of a window's length lets at most two budgets pass, and one  *)
(* more for each fault, wherever each mutex covers its counters.            *)
THEOREM SlidingKept == Alone /\ Spec => []SlidingBudget
  <1> DEFINE All == History /\ OneHand /\ Within
  <1>1. Init => All
    <2> SUFFICES ASSUME Init PROVE All
      OBVIOUS
    <2>1. History
      BY HistoryInit
    <2>2. OneHand /\ \A r \in Requests : pc[r] # "held"
      BY DEF Init, OneHand
    <2>3. ASSUME NEW c \in Cells
          PROVE  AtMost(recent[c], store[c], c[2],
                        Allowance(faults, c[2]) + IF InHand(c) THEN 1 ELSE 0)
      <3>1. c[2] \in Limits /\ store[c] = NoItem /\ faults = 0 /\ ~InHand(c)
            /\ \A n \in 1..Window : recent[c][n] = 0
        BY <2>2 DEF Init, Cells, InHand
      <3>2. Budget[c[2]] \in Nat \ {0} /\ 1 \in 1..Window /\ Window \in 1..Window
        BY <3>1, LimiterAssumptions
      <3>3. Allowance(faults, c[2]) = 0
        BY <3>1, <3>2 DEF Allowance
      <3>4. Begin(NoItem) = 1 /\ Cost(NoItem, c[2]) = 0
        BY DEF Begin, Cost, Closed
      <3> QED
        BY <3>1, <3>2, <3>3, <3>4 DEF AtMost
    <2> QED
      BY <2>1, <2>2, <2>3 DEF Within
  <1>2. Alone /\ All /\ [Next]_vars => (Alone /\ All)'
    <2> SUFFICES ASSUME Alone, All, [Next]_vars PROVE (Alone /\ All)'
      OBVIOUS
    <2>1. connected' = connected
      BY DEF Next, Serve, Arrive, Get, GetFails, Take, Set, SetFails, Verdict, Done,
             Crash, Evict, Tick, vars
    <2>2. History' /\ Within'
      BY HistoryStep, WithinStep
    <2>3. OneHand'
      BY HandStep DEF History
    <2> QED
      BY <2>1, <2>2, <2>3 DEF Alone
  <1>3. All => SlidingBudget
    <2> SUFFICES ASSUME All, NEW c \in Cells
                 PROVE  LetPass(c) <= (2 + faults) * Budget[c[2]]
      BY DEF SlidingBudget
    <2> DEFINE l == c[2]
               k == Allowance(faults, l)
    <2>1. /\ l \in Limits /\ Growing(recent[c]) /\ Countable(store[c], l)
          /\ faults \in Nat /\ Budget[l] \in Nat
      BY ItemsCountable, LimiterAssumptions DEF History, Grown, TypeOK
    <2>2. PICK item : Countable(item, l) /\ AtMost(recent[c], item, l, k)
      <3>1. CASE InHand(c)
        <4>1. PICK q \in Requests : pc[q] = "held" /\ Cell(q) = c
          BY <3>1 DEF InHand
        <4>2. Limit(q) = l /\ Countable(hand[q], l)
          BY <4>1, ItemsCountable DEF History
        <4> QED
          BY <4>1, <4>2 DEF Within
      <3>2. CASE ~InHand(c)
        <4>1. AtMost(recent[c], store[c], l, k + 0)
          BY <3>2 DEF Within
        <4>2. k + 0 = k
          BY <2>1, AllowanceStep
        <4> QED
          BY <2>1, <4>1, <4>2
      <3> QED
        BY <3>1, <3>2
    <2>3. k \in Nat /\ (2 + faults) * Budget[l] = Budget[l] + Budget[l] + k
      <3>1. \A b, f \in Nat : f * b \in Nat /\ (2 + f) * b = b + b + f * b
        OBVIOUS
      <3> QED
        BY <2>1, <3>1 DEF Allowance
    <2>4. Cost(item, l) \in 0..Budget[l] /\ Window \in 1..Window
      BY <2>1, <2>2, CostRange
    <2>5. recent[c][Window] \in Nat /\ recent[c][Window] <= Budget[l] + Cost(item, l) + k
      BY <2>1, <2>2, <2>4 DEF Growing, AtMost
    <2> HIDE DEF k
    <2> QED
      BY <2>1, <2>3, <2>4, <2>5 DEF LetPass
  <1> HIDE DEF All
  <1> QED
    BY <1>1, <1>2, <1>3, PTL DEF Spec
-----------------------------------------------------------------------------
(* The limiters behave as fixed windows: Get is where the window counts and *)
(* judges a request, Set changes nothing that can be told from outside, and *)
(* whatever else may happen to an item costs a fault.                       *)

(* The stored item never has more left of its window than the one in hand,  *)
(* so that a hand that is lost prolongs no window.                          *)
Behind == \A r \in Requests : pc[r] = "held" => Left(store[Cell(r)]) <= hand[r].left

Ready == History /\ OneHand /\ Behind

LEMMA LeftRange ==
    ASSUME NEW l \in Limits, NEW item, Countable(item, l)
    PROVE  /\ Left(item) \in 0..Window /\ Cost(item, l) \in 0..Budget[l]
           /\ Left(item) = 0 <=> Closed(item)
           /\ Closed(item) => Cost(item, l) = 0
           /\ Budget[l] \in Nat \ {0} /\ Window \in Nat \ {0}
  BY CostRange DEF Left, Closed, Countable, Cost

(* What the refinement mapping reads off a cell. *)
CountersRead ==
    \A c \in Cells :
        /\ c[2] \in Limits /\ Countable(Current(c), c[2])
        /\ ~InHand(c) => Current(c) = store[c]
        /\ \A r \in Requests : pc[r] = "held" /\ Cell(r) = c => Current(c) = hand[r]

LEMMA ReadCounters == TypeOK /\ OneHand => CountersRead
  <1> SUFFICES ASSUME TypeOK, OneHand, NEW c \in Cells
               PROVE  /\ c[2] \in Limits /\ Countable(Current(c), c[2])
                      /\ ~InHand(c) => Current(c) = store[c]
                      /\ \A r \in Requests :
                            pc[r] = "held" /\ Cell(r) = c => Current(c) = hand[r]
    BY DEF CountersRead
  <1>1. CASE ~InHand(c)
    BY <1>1, ItemsCountable DEF Current, InHand
  <1>2. ASSUME NEW r \in Requests, pc[r] = "held", Cell(r) = c
        PROVE  Current(c) = hand[r] /\ c[2] \in Limits /\ Countable(hand[r], c[2])
    <2>1. Holder(c) = r
      BY <1>2 DEF Holder, OneHand
    <2>2. Current(c) = hand[r]
      BY <1>2, <2>1 DEF Current, InHand
    <2> QED
      BY <1>2, <2>2, ItemsCountable
  <1> QED
    BY <1>1, <1>2 DEF InHand

LEMMA ReadCountersNext == TypeOK' /\ OneHand' => CountersRead'
  BY ReadCounters, PTL

(* Less is left of an item's window a tick later, and of what it stands for *)
(* nothing once the window has closed.                                      *)
LEMMA TickedRead ==
    ASSUME NEW l \in Limits, NEW item, Countable(item, l), NEW new, TickedTo(item, new)
    PROVE  /\ Left(new) = IF Left(item) = 0 THEN 0 ELSE Left(item) - 1
           /\ Cost(new, l) = IF Left(item) <= 1 THEN 0 ELSE Cost(item, l)
  <1>1. CASE item = NoItem
    BY <1>1 DEF TickedTo, Left, Closed, Cost
  <1>2. CASE item # NoItem /\ new = NoItem
    BY <1>2 DEF TickedTo, Left, Closed, Cost, Countable
  <1>3. CASE item # NoItem /\ new # NoItem
    <2>1. /\ new.hits = item.hits /\ item.left \in 0..Window
          /\ new.left = IF item.left = 0 THEN 0 ELSE item.left - 1
      BY <1>3 DEF TickedTo, Less, Countable
    <2>2. Closed(new) <=> item.left <= 1
      BY <1>3, <2>1, LimiterAssumptions DEF Closed
    <2>3. Left(item) = item.left /\ (Closed(item) <=> item.left = 0)
      BY <1>3 DEF Left, Closed
    <2> QED
      BY <2>1, <2>2, <2>3, LimiterAssumptions DEF Left, Cost
  <1> QED
    BY <1>1, <1>2, <1>3

(* What is written down reads as what was in hand. *)
LEMMA WrittenRead ==
    ASSUME TypeOK, OneHand, NEW c \in Cells, Written(c)
    PROVE  /\ Left(store'[c]) = Left(Current(c))
           /\ Cost(store'[c], c[2]) = Cost(Current(c), c[2])
           /\ InHand(c)
  <1>1. PICK r \in Requests :
            /\ pc[r] = "held" /\ Cell(r) = c
            /\ store'[c] = [hits |-> hand[r].hits, left |-> hand[r].left, ttl |-> Window]
    BY DEF Written
  <1>2. /\ hand[r] # NoItem /\ hand[r] \in Held(Limit(r)) /\ Limit(r) = c[2] /\ Limit(r) \in Limits
    BY <1>1, ItemsCountable DEF TypeOK
  <1>3. hand[r].hits \in Counts(Limit(r)) /\ hand[r].left \in 0..Window /\ Window \in Nat \ {0}
    BY <1>2, LimiterAssumptions DEF Held
  <1>4. store'[c] \in Item(Limit(r))
    BY <1>1, <1>3 DEF Item
  <1>5. store'[c] # NoItem
    BY <1>2, <1>4, NoItemIsNone
  <1>6. store'[c].hits = hand[r].hits /\ store'[c].left = hand[r].left
    BY <1>1
  <1>7. Current(c) = hand[r]
    BY <1>1, ReadCounters DEF CountersRead
  <1> QED
    BY <1>1, <1>2, <1>5, <1>6, <1>7 DEF Left, Closed, Cost, InHand

LEMMA BehindStep ==
    ASSUME Ready, [Next]_vars
    PROVE  Behind'
  <1> SUFFICES ASSUME NEW q \in Requests, pc'[q] = "held"
               PROVE  Left(store'[Cell(q)']) <= hand'[q].left
    BY DEF Behind
  <1>1. TypeOK /\ Outlive /\ OneHand /\ Behind
    BY DEF Ready, History
  <1>2. ASSUME pc[q] = "held", Cell(q)' = Cell(q), hand'[q] = hand[q],
               store'[Cell(q)] = store[Cell(q)] \/ store'[Cell(q)] = NoItem
        PROVE  Left(store'[Cell(q)']) <= hand'[q].left
    <2>1. Left(store[Cell(q)]) <= hand[q].left
      BY <1>1, <1>2 DEF Behind
    <2>2. Left(NoItem) = 0 /\ hand[q].left \in 0..Window
      BY <1>1, <1>2, CellType DEF Left, Closed, TypeOK, Held
    <2> QED
      BY <1>2, <2>1, <2>2, LimiterAssumptions
  <1>3. ASSUME NEW r \in Requests, Get(r) \/ GetFails(r)
        PROVE  Left(store'[Cell(q)']) <= hand'[q].left
    <2>1. CASE q # r
      BY <1>1, <1>2, <1>3, <2>1, TakeEffect
    <2>2. CASE q = r
      <3> DEFINE item == store[Cell(r)]
                 l == Limit(r)
      <3>1. /\ Cell(r) \in Cells /\ l \in Limits /\ Cell(r)[2] = l
            /\ hand'[r] = Charged(item, l) \/ hand'[r] = Charged(NoItem, l)
            /\ store' = store /\ Cell(r)' = Cell(r)
        BY <1>1, <1>3, TakeEffect
      <3>2. Countable(item, l)
        BY <1>1, <3>1, ItemsCountable
      <3>3. Left(item) \in 0..Window /\ Window \in Nat
        BY <3>1, <3>2, LeftRange
      <3>4. Charged(NoItem, l).left = Window
        BY DEF Charged
      <3>5. Charged(item, l).left = IF Closed(item) THEN Window ELSE Left(item)
        BY DEF Charged, Closed, Left
      <3> QED
        BY <2>2, <3>1, <3>3, <3>4, <3>5
    <2> QED
      BY <2>1, <2>2
  <1>4. CASE Tick
    <2>1. /\ Cell(q)' = Cell(q) /\ pc[q] = "held" /\ Cell(q) \in Cells /\ Cell(q)[2] \in Limits
          /\ TickedTo(store[Cell(q)], store'[Cell(q)]) /\ Countable(store[Cell(q)], Cell(q)[2])
      BY <1>1, <1>4, TickEffect, CellType, ItemsCountable
    <2>2. hand[q].left \in 0..Window /\ hand'[q].left = Less(hand[q].left)
      <3>1. hand[q] \in Held(Limit(q)) /\ hand'[q] = [hand[q] EXCEPT !.left = Less(@)]
        BY <1>1, <1>4, <2>1 DEF Tick, TypeOK
      <3> QED
        BY <3>1 DEF Held
    <2>3. Left(store'[Cell(q)]) =
              IF Left(store[Cell(q)]) = 0 THEN 0 ELSE Left(store[Cell(q)]) - 1
      BY <2>1, TickedRead
    <2>4. Left(store[Cell(q)]) <= hand[q].left /\ Left(store[Cell(q)]) \in 0..Window
      BY <1>1, <2>1, LeftRange DEF Behind
    <2> QED
      BY <2>1, <2>2, <2>3, <2>4, LimiterAssumptions DEF Less
  <1>5. CASE ~Tick /\ \A r \in Requests : ~Get(r) /\ ~GetFails(r)
    <2>1. /\ pc[q] = "held" /\ hand'[q] = hand[q] /\ Cell(q)' = Cell(q) /\ Cell(q) \in Cells
          /\ \/ store'[Cell(q)] \in {store[Cell(q)], NoItem}
             \/ Written(Cell(q))
      BY <1>1, <1>5, OtherEffect, CellType
    <2>2. CASE Written(Cell(q))
      <3>1. Left(store'[Cell(q)]) = Left(Current(Cell(q))) /\ Current(Cell(q)) = hand[q]
        BY <1>1, <2>1, <2>2, WrittenRead, ReadCounters DEF CountersRead
      <3>2. Left(hand[q]) = hand[q].left /\ hand[q].left \in 0..Window
        <4>1. hand[q] # NoItem /\ hand[q] \in Held(Limit(q))
          BY <1>1, <2>1, ItemsCountable DEF TypeOK
        <4> QED
          BY <4>1, LimiterAssumptions DEF Left, Closed, Held
      <3> QED
        BY <2>1, <3>1, <3>2, LimiterAssumptions
    <2> QED
      BY <1>2, <2>1, <2>2
  <1> QED
    BY <1>3, <1>4, <1>5

LEMMA ReadyStep ==
    ASSUME Alone, Ready, [Next]_vars
    PROVE  Ready' /\ Alone'
  <1>1. connected' = connected
    BY DEF Next, Serve, Arrive, Get, GetFails, Take, Set, SetFails, Verdict, Done,
           Crash, Evict, Tick, vars
  <1> QED
    BY <1>1, HistoryStep, HandStep, BehindStep DEF Ready, History, Alone

(* What an item reads as when it has been charged. *)
LEMMA ChargedRead ==
    ASSUME NEW l \in Limits, NEW item, Countable(item, l)
    PROVE  /\ Closed(item) => /\ Left(Charged(item, l)) = Window /\ Cost(Charged(item, l), l) = 1
                              /\ Passes(Charged(item, l), l)
           /\ ~Closed(item) => Left(Charged(item, l)) = Left(item)
           /\ ~Closed(item) /\ Cost(item, l) < Budget[l] =>
                  /\ Cost(Charged(item, l), l) = Cost(item, l) + 1
                  /\ Passes(Charged(item, l), l)
           /\ ~Closed(item) /\ ~(Cost(item, l) < Budget[l]) =>
                  /\ Cost(item, l) = Budget[l] /\ Cost(Charged(item, l), l) = Budget[l]
                  /\ ~Passes(Charged(item, l), l)
  <1>1. Budget[l] \in Nat \ {0} /\ Window \in Nat \ {0}
    BY LimiterAssumptions
  <1>2. CASE Closed(item)
    <2>1. Charged(item, l) = [hits |-> 1, left |-> Window]
      BY <1>2 DEF Closed, Charged
    <2>2. Charged(item, l) \in Held(l)
      BY <1>1, <2>1 DEF Held, Counts
    <2>3. Charged(item, l) # NoItem
      BY <2>2, NoItemIsNone
    <2> QED
      BY <1>1, <1>2, <2>1, <2>3 DEF Closed, Left, Cost, Passes
  <1>3. CASE ~Closed(item)
    <2> DEFINE hits == IF item.hits > Budget[l] THEN item.hits ELSE item.hits + 1
    <2>1. item # NoItem /\ item.hits \in 0..(Budget[l] + 1) /\ item.left \in 1..Window
      BY <1>1, <1>3 DEF Closed, Countable, Counts
    <2>2. Charged(item, l) = [hits |-> hits, left |-> item.left]
      BY <2>1 DEF Charged
    <2>3. hits \in Counts(l)
      BY <1>1, <2>1 DEF Counts
    <2>4. Charged(item, l) \in Held(l)
      BY <1>1, <2>1, <2>2, <2>3 DEF Held
    <2>5. Charged(item, l) # NoItem /\ Charged(item, l).hits = hits
          /\ Charged(item, l).left = item.left
      BY <2>2, <2>4, NoItemIsNone
    <2>6. ~Closed(Charged(item, l)) /\ Left(Charged(item, l)) = Left(item)
      BY <2>1, <2>5 DEF Closed, Left
    <2>7. /\ Cost(item, l) = IF item.hits <= Budget[l] THEN item.hits ELSE Budget[l]
          /\ Cost(Charged(item, l), l) = IF hits <= Budget[l] THEN hits ELSE Budget[l]
          /\ Passes(Charged(item, l), l) <=> hits <= Budget[l]
      BY <1>3, <2>5, <2>6 DEF Cost, Passes
    <2> QED
      BY <1>1, <1>3, <2>1, <2>6, <2>7
  <1> QED
    BY <1>2, <1>3

(* A request that takes an item is judged by the window of its cell.        *)
LEMMA CountStep ==
    ASSUME Alone, Ready, Ready', NEW r \in Requests, Get(r) \/ GetFails(r)
    PROVE  Fixed!Next
  <1>1. TypeOK /\ OneHand /\ CountersRead /\ CountersRead'
    BY ReadCounters, ReadCountersNext DEF Ready, History
  <1>2. PICK c \in Cells : c = Cell(r)
    BY <1>1, TakeEffect
  <1> DEFINE l == c[2]
             item == store[c]
             new == hand'[r]
  <1>3. /\ l \in Limits /\ l = Limit(r) /\ store' = store
        /\ \/ Get(r) /\ new = Charged(item, l) /\ faults' = faults
           \/ GetFails(r) /\ new = Charged(NoItem, l) /\ faults' = faults + 1
        /\ pc'[r] = "held" /\ Cell(r)' = c /\ Limit(r)' = l
        /\ \A q \in Requests \ {r} : /\ pc'[q] = pc[q] /\ hand'[q] = hand[q]
                                     /\ Cell(q)' = Cell(q) /\ Limit(q)' = Limit(q)
    BY <1>1, <1>2, TakeEffect
  <1>4. pc[r] = "limit" /\ ~InHand(c)
    BY <1>1, <1>2, CellFree DEF Get, GetFails
  <1>5. Current(c) = item /\ Current(c)' = new /\ Countable(item, l)
    BY <1>1, <1>3, <1>4 DEF CountersRead
  <1>6. ASSUME NEW d \in Cells \ {c}
        PROVE  Current(d)' = Current(d)
    <2>1. ASSUME NEW q \in Requests, pc[q] = "held", Cell(q) = d
          PROVE  Current(d)' = Current(d)
      <3>1. q # r /\ pc'[q] = "held" /\ hand'[q] = hand[q] /\ Cell(q)' = d
        BY <1>3, <1>4, <2>1
      <3> QED
        BY <1>1, <2>1, <3>1 DEF CountersRead
    <2>2. CASE ~InHand(d)
      <3>1. ~InHand(d)'
        BY <1>3, <2>2 DEF InHand
      <3> QED
        BY <1>1, <1>3, <2>2, <3>1 DEF CountersRead
    <2> QED
      BY <2>1, <2>2 DEF InHand
  <1> DEFINE verdict == <<IF Passes(new, l) THEN "pass" ELSE "refuse", c>>
  <1>7. /\ LeftOf' = [LeftOf EXCEPT ![c] = Left(new)]
        /\ UsedOf' = [UsedOf EXCEPT ![c] = Cost(new, l)]
        /\ LeftOf[c] = Left(item) /\ UsedOf[c] = Cost(item, l) /\ BudgetOf[c] = Budget[l]
    BY <1>5, <1>6 DEF LeftOf, UsedOf, BudgetOf
  <1>8. VerdictOf' = [VerdictOf EXCEPT ![r] = verdict] /\ VerdictOf[r] = <<>> /\ verdict # <<>>
    <2>1. \A q \in Requests \ {r} : VerdictOf'[q] = VerdictOf[q]
      BY <1>3 DEF VerdictOf
    <2>2. VerdictOf'[r] = verdict /\ VerdictOf[r] = <<>>
      BY <1>3, <1>4 DEF VerdictOf
    <2>3. VerdictOf = [q \in Requests |-> VerdictOf[q]] /\ VerdictOf' = [q \in Requests |-> VerdictOf'[q]]
      BY DEF VerdictOf
    <2>4. verdict # <<>>
      OBVIOUS
    <2> HIDE DEF verdict
    <2> QED
      BY <2>1, <2>2, <2>3, <2>4
  <1>9. VerdictOf'[r] # <<>>
    BY <1>8 DEF VerdictOf
  <1> SUFFICES Fixed!Admit(r, c) \/ Fixed!Refuse(r, c)
    BY <1>8, <1>9 DEF Fixed!Next, Fixed!Judge, Fixed!None
  <1> DEFINE fails == new = Charged(NoItem, l) /\ faults' = faults + 1
             counts == new = Charged(item, l) /\ faults' = faults
  <1>10. CASE fails \/ (counts /\ Closed(item))
    <2>1. Left(new) = Window /\ Cost(new, l) = 1 /\ Passes(new, l)
      <3>1. Countable(NoItem, l) /\ Closed(NoItem)
        BY DEF Countable, Closed
      <3>2. CASE fails
        BY <1>3, <3>1, <3>2, ChargedRead
      <3>3. CASE counts /\ Closed(item)
        BY <1>3, <1>5, <3>3, ChargedRead
      <3> QED
        BY <1>10, <3>2, <3>3
    <2>2. Fixed!CountAfresh(c)
      BY <1>7, <2>1 DEF Fixed!CountAfresh
    <2>3. Fixed!Told(r, <<"pass", c>>)
      BY <1>8, <2>1 DEF Fixed!Told
    <2>4. faults' = faults + 1 \/ (Closed(item) /\ faults' = faults)
      BY <1>10
    <2>5. Closed(item) => LeftOf[c] = 0
      BY <1>7 DEF Left
    <2> QED
      BY <2>2, <2>3, <2>4, <2>5 DEF Fixed!Admit, Fixed!Count
  <1>11. CASE counts /\ ~Closed(item)
    <2>1. new = Charged(item, l) /\ faults' = faults
      BY <1>11
    <2>2. Left(new) = Left(item) /\ Left(item) \in 1..Window
      BY <1>3, <1>5, <1>11, <2>1, ChargedRead, LeftRange
    <2>3. LeftOf' = LeftOf
      BY <1>7, <2>2 DEF LeftOf
    <2>4. CASE Cost(item, l) < Budget[l]
      <3>1. Cost(new, l) = Cost(item, l) + 1 /\ Passes(new, l)
        BY <1>3, <1>5, <1>11, <2>1, <2>4, ChargedRead
      <3>2. Fixed!Told(r, <<"pass", c>>)
        BY <1>8, <3>1 DEF Fixed!Told
      <3> QED
        BY <1>7, <2>1, <2>2, <2>3, <2>4, <3>1, <3>2 DEF Fixed!Admit, Fixed!Count
    <2>5. CASE ~(Cost(item, l) < Budget[l])
      <3>1. Cost(item, l) = Budget[l] /\ Cost(new, l) = Budget[l] /\ ~Passes(new, l)
        BY <1>3, <1>5, <1>11, <2>1, <2>5, ChargedRead
      <3>2. Fixed!Told(r, <<"refuse", c>>)
        BY <1>8, <3>1 DEF Fixed!Told
      <3>3. UsedOf' = UsedOf
        BY <1>7, <3>1 DEF UsedOf
      <3> QED
        BY <1>7, <2>1, <2>2, <2>3, <3>1, <3>2, <3>3 DEF Fixed!Refuse
    <2> QED
      BY <2>4, <2>5
  <1> QED
    BY <1>3, <1>10, <1>11

(* A tick is one for each window.                                           *)
LEMMA TickStep ==
    ASSUME Ready, Ready', Tick
    PROVE  Fixed!Tick
  <1>1. TypeOK /\ Outlive /\ CountersRead /\ CountersRead'
    BY ReadCounters, ReadCountersNext DEF Ready, History
  <1>2. /\ pc' = pc /\ faults' = faults
        /\ \A r \in Requests : Cell(r)' = Cell(r) /\ Limit(r)' = Limit(r)
        /\ \A c \in Cells : TickedTo(store[c], store'[c])
        /\ \A r \in Requests : pc[r] = "held" => TickedTo(hand[r], hand'[r])
    BY <1>1, TickEffect
  <1>3. ASSUME NEW c \in Cells
        PROVE  /\ LeftOf'[c] = IF LeftOf[c] = 0 THEN 0 ELSE LeftOf[c] - 1
               /\ UsedOf'[c] = IF LeftOf[c] <= 1 THEN 0 ELSE UsedOf[c]
    <2>1. TickedTo(Current(c), Current(c)')
      <3>1. ASSUME NEW r \in Requests, pc[r] = "held", Cell(r) = c
            PROVE  TickedTo(Current(c), Current(c)')
        <4>1. pc'[r] = "held" /\ Cell(r)' = c
          BY <1>2, <3>1
        <4> QED
          BY <1>1, <1>2, <3>1, <4>1 DEF CountersRead
      <3>2. CASE ~InHand(c)
        <4>1. ~InHand(c)'
          BY <1>2, <3>2 DEF InHand
        <4> QED
          BY <1>1, <1>2, <3>2, <4>1 DEF CountersRead
      <3> QED
        BY <3>1, <3>2 DEF InHand
    <2>2. c[2] \in Limits /\ Countable(Current(c), c[2])
      BY <1>1 DEF CountersRead
    <2>3. /\ LeftOf[c] = Left(Current(c)) /\ LeftOf'[c] = Left(Current(c)')
          /\ UsedOf[c] = Cost(Current(c), c[2]) /\ UsedOf'[c] = Cost(Current(c)', c[2])
      BY DEF LeftOf, UsedOf
    <2> QED
      BY <2>1, <2>2, <2>3, TickedRead
  <1>4. VerdictOf' = VerdictOf
    <2>1. ASSUME NEW r \in Requests, pc[r] = "held"
          PROVE  Passes(hand'[r], Limit(r)) <=> Passes(hand[r], Limit(r))
      <3>1. hand'[r] = [hand[r] EXCEPT !.left = Less(@)] /\ hand[r] \in Held(Limit(r))
        BY <1>1, <2>1 DEF Tick, TypeOK
      <3> QED
        BY <3>1 DEF Held, Passes
    <2> QED
      BY <1>2, <2>1 DEF VerdictOf
  <1> QED
    BY <1>2, <1>3, <1>4 DEF Fixed!Tick, LeftOf, UsedOf

(* No other step counts: a window stays as it is, or a fault cuts it short. *)
LEMMA OtherCounters ==
    ASSUME Ready, Ready', [Next]_vars, ~Tick,
           \A r \in Requests : ~Get(r) /\ ~GetFails(r), NEW c \in Cells
    PROVE  /\ Left(Current(c)') <= Left(Current(c))
           /\ faults' = faults => /\ Left(Current(c)') = Left(Current(c))
                                  /\ Cost(Current(c)', c[2]) = Cost(Current(c), c[2])
  <1>1. TypeOK /\ OneHand /\ Behind /\ CountersRead /\ CountersRead'
    BY ReadCounters, ReadCountersNext DEF Ready, History
  <1>2. /\ faults \in Nat
        /\ \A q \in Requests : pc'[q] = "held" =>
              pc[q] = "held" /\ hand'[q] = hand[q] /\ Cell(q)' = Cell(q)
        /\ \/ store'[c] = store[c]
           \/ store'[c] = NoItem /\ faults' = faults + 1
           \/ Written(c)
        /\ \A q \in Requests :
              pc[q] = "held" => pc'[q] = "held" \/ Written(Cell(q)) \/ faults' = faults + 1
    BY <1>1, OtherEffect DEF TypeOK
  <1>3. /\ Left(Current(c)) \in 0..Window /\ Left(Current(c)') \in 0..Window
        /\ Window \in Nat /\ Left(NoItem) = 0
    <2>1. /\ c[2] \in Limits /\ Countable(Current(c), c[2]) /\ Countable(Current(c)', c[2])
      BY <1>1 DEF CountersRead
    <2> QED
      BY <2>1, LeftRange DEF Left, Closed
  <1>4. CASE InHand(c)'
    <2>1. PICK q \in Requests : pc'[q] = "held" /\ Cell(q)' = c
      BY <1>4 DEF InHand
    <2>2. Current(c)' = hand'[q] /\ Current(c) = hand[q] /\ hand'[q] = hand[q]
      BY <1>1, <1>2, <2>1 DEF CountersRead
    <2> QED
      BY <1>3, <2>2
  <1>5. CASE ~InHand(c)' /\ ~InHand(c)
    <2>1. Current(c)' = store'[c] /\ Current(c) = store[c]
      BY <1>1, <1>5 DEF CountersRead
    <2>2. ~Written(c)
      BY <1>5 DEF Written, InHand
    <2> QED
      BY <1>2, <1>3, <2>1, <2>2
  <1>6. CASE ~InHand(c)' /\ InHand(c)
    <2>1. PICK q \in Requests : pc[q] = "held" /\ Cell(q) = c
      BY <1>6 DEF InHand
    <2>2. Current(c)' = store'[c] /\ Current(c) = hand[q]
      BY <1>1, <1>6, <2>1 DEF CountersRead
    <2>3. CASE Written(c)
      <3>1. /\ Left(store'[c]) = Left(Current(c))
            /\ Cost(store'[c], c[2]) = Cost(Current(c), c[2])
        BY <1>1, <2>3, WrittenRead
      <3> QED
        BY <1>3, <2>2, <3>1
    <2>4. CASE ~Written(c)
      <3>1. pc'[q] # "held"
        BY <1>2, <1>6, <2>1 DEF InHand
      <3>2. faults' = faults + 1 /\ (store'[c] = store[c] \/ store'[c] = NoItem)
        BY <1>2, <2>1, <2>4, <3>1
      <3>3. Left(store[c]) <= Left(hand[q])
        <4>1. hand[q] # NoItem /\ hand[q] \in Held(Limit(q))
          BY <1>1, <2>1, ItemsCountable DEF TypeOK
        <4>2. Left(hand[q]) = hand[q].left
          BY <4>1, LimiterAssumptions DEF Left, Closed, Held
        <4> QED
          BY <1>1, <2>1, <4>2 DEF Behind
      <3> QED
        BY <1>2, <1>3, <2>2, <3>2, <3>3
    <2> QED
      BY <2>3, <2>4
  <1> QED
    BY <1>4, <1>5, <1>6

(* Nor does any other step judge: what a request was told stands until the  *)
(* request goes on, one at a time unless a fault takes several with it.     *)
LEMMA OtherVerdicts ==
    ASSUME TypeOK, [Next]_vars, ~Tick, \A r \in Requests : ~Get(r) /\ ~GetFails(r)
    PROVE  /\ \A q \in Requests : VerdictOf'[q] \in {VerdictOf[q], <<>>}
           /\ \/ faults' = faults + 1
              \/ faults' = faults /\ VerdictOf' = VerdictOf
              \/ /\ faults' = faults
                 /\ \E r \in Requests : VerdictOf' = [VerdictOf EXCEPT ![r] = <<>>]
  <1>1. ASSUME NEW q \in Requests, pc'[q] = pc[q], hand'[q] = hand[q],
               Cell(q)' = Cell(q), Limit(q)' = Limit(q)
        PROVE  VerdictOf'[q] = VerdictOf[q]
    BY <1>1 DEF VerdictOf
  <1>2. \A q \in Requests : pc'[q] \notin {"held", "refused"} => VerdictOf'[q] = <<>>
    BY DEF VerdictOf
  <1>3. ASSUME NEW r \in Requests, VerdictOf'[r] \in {VerdictOf[r], <<>>},
               \A q \in Requests \ {r} : VerdictOf'[q] = VerdictOf[q]
        PROVE  VerdictOf' = VerdictOf \/ VerdictOf' = [VerdictOf EXCEPT ![r] = <<>>]
    <2>1. /\ VerdictOf = [q \in Requests |-> VerdictOf[q]]
          /\ VerdictOf' = [q \in Requests |-> VerdictOf'[q]]
      BY DEF VerdictOf
    <2> QED
      BY <1>3, <2>1
  <1>4. ASSUME NEW r \in Requests, Arrive(r) \/ Done(r)
        PROVE  /\ faults' = faults /\ VerdictOf'[r] = <<>>
               /\ \A q \in Requests \ {r} : VerdictOf'[q] = VerdictOf[q]
    <2>1. CASE Arrive(r)
      <3>1. PICK i \in Instances, ro \in Traffic :
                /\ at' = [at EXCEPT ![r] = i] /\ route' = [route EXCEPT ![r] = ro]
                /\ Enter(r, ro, 1)
        BY <2>1 DEF Arrive
      <3>2. pc'[r] \in {"limit", "through"}
        BY <3>1 DEF Enter, TypeOK
      <3>3. /\ faults' = faults
            /\ \A q \in Requests \ {r} : /\ pc'[q] = pc[q] /\ hand'[q] = hand[q]
                                         /\ Cell(q)' = Cell(q) /\ Limit(q)' = Limit(q)
        BY <2>1, <3>1 DEF Arrive, Enter, TypeOK, Cell, Home, Limit
      <3> QED
        BY <1>1, <1>2, <3>2, <3>3
    <2>2. CASE Done(r)
      <3>1. /\ faults' = faults /\ pc'[r] = "idle"
            /\ \A q \in Requests \ {r} : /\ pc'[q] = pc[q] /\ hand'[q] = hand[q]
                                         /\ Cell(q)' = Cell(q) /\ Limit(q)' = Limit(q)
        BY <2>2 DEF Done, TypeOK, Cell, Home, Limit
      <3> QED
        BY <1>1, <1>2, <3>1
    <2> QED
      BY <1>4, <2>1, <2>2
  <1>5. ASSUME NEW r \in Requests, Set(r) \/ SetFails(r)
        PROVE  /\ faults' \in {faults, faults + 1} /\ VerdictOf'[r] \in {VerdictOf[r], <<>>}
               /\ \A q \in Requests \ {r} : VerdictOf'[q] = VerdictOf[q]
    <2>1. pc[r] = "held" /\ Verdict(r) /\ faults' \in {faults, faults + 1}
      BY <1>5 DEF Set, SetFails, Fault
    <2>2. \A q \in Requests \ {r} : /\ pc'[q] = pc[q] /\ hand'[q] = hand[q]
                                    /\ Cell(q)' = Cell(q) /\ Limit(q)' = Limit(q)
      BY <2>1 DEF Verdict, Enter, TypeOK, Cell, Home, Limit
    <2>3. CASE Passes(hand[r], Limit(r))
      <3>1. pc'[r] \in {"limit", "through"}
        BY <2>1, <2>3 DEF Verdict, Enter, TypeOK
      <3> QED
        BY <1>1, <1>2, <2>1, <2>2, <3>1
    <2>4. CASE ~Passes(hand[r], Limit(r))
      <3>1. pc'[r] = "refused" /\ Cell(r)' = Cell(r)
        BY <2>1, <2>4 DEF Verdict, TypeOK, Cell, Home, Limit
      <3>2. VerdictOf'[r] = VerdictOf[r]
        BY <2>1, <2>4, <3>1 DEF VerdictOf
      <3> QED
        BY <1>1, <2>1, <2>2, <3>2
    <2> QED
      BY <2>3, <2>4
  <1>6. ASSUME NEW i \in Instances, Crash(i)
        PROVE  faults' = faults + 1 /\ \A q \in Requests : VerdictOf'[q] \in {VerdictOf[q], <<>>}
    <2>1. \A q \in Requests : /\ Cell(q)' = Cell(q) /\ Limit(q)' = Limit(q)
                              /\ \/ pc'[q] = "idle"
                                 \/ pc'[q] = pc[q] /\ hand'[q] = hand[q]
      BY <1>6 DEF Crash, Cell, Home, Limit
    <2> QED
      BY <1>1, <1>2, <1>6, <2>1 DEF Crash, Fault
  <1>7. ASSUME NEW c \in Cells, Evict(c)
        PROVE  faults' = faults + 1 /\ \A q \in Requests : VerdictOf'[q] \in {VerdictOf[q], <<>>}
    BY <1>1, <1>7 DEF Evict, Fault, Cell, Home, Limit
  <1>8. CASE UNCHANGED vars
    BY <1>8 DEF vars, VerdictOf, Cell, Home, Limit
  <1>9. CASE \E r \in Requests : Arrive(r) \/ Done(r) \/ Set(r) \/ SetFails(r)
    <2>1. PICK r \in Requests : Arrive(r) \/ Done(r) \/ Set(r) \/ SetFails(r)
      BY <1>9
    <2>2. /\ faults' \in {faults, faults + 1} /\ VerdictOf'[r] \in {VerdictOf[r], <<>>}
          /\ \A q \in Requests \ {r} : VerdictOf'[q] = VerdictOf[q]
      BY <1>4, <1>5, <2>1
    <2> QED
      BY <1>3, <2>2
  <1> QED
    BY <1>6, <1>7, <1>8, <1>9 DEF Next, Serve

LEMMA OtherStep ==
    ASSUME Ready, Ready', [Next]_vars, ~Tick, \A r \in Requests : ~Get(r) /\ ~GetFails(r)
    PROVE  [Fixed!Next]_(Fixed!vars)
  <1>1. TypeOK /\ CountersRead /\ CountersRead'
    BY ReadCounters, ReadCountersNext DEF Ready, History
  <1>2. /\ \A q \in Requests : VerdictOf'[q] \in {VerdictOf[q], <<>>}
        /\ \/ faults' = faults + 1
           \/ faults' = faults /\ VerdictOf' = VerdictOf
           \/ /\ faults' = faults
              /\ \E r \in Requests : VerdictOf' = [VerdictOf EXCEPT ![r] = <<>>]
    BY <1>1, OtherVerdicts
  <1>3. CASE faults' = faults
    <2>1. LeftOf' = LeftOf /\ UsedOf' = UsedOf
      BY <1>3, OtherCounters DEF LeftOf, UsedOf
    <2>2. CASE VerdictOf' = VerdictOf
      BY <1>3, <2>1, <2>2 DEF Fixed!vars
    <2>3. ASSUME NEW r \in Requests, VerdictOf' = [VerdictOf EXCEPT ![r] = <<>>]
          PROVE  Fixed!Leave(r)
      BY <1>3, <2>1, <2>3 DEF Fixed!Leave, Fixed!Told, Fixed!None
    <2>4. faults \in Nat
      BY <1>1 DEF TypeOK
    <2> QED
      BY <1>2, <1>3, <2>2, <2>3, <2>4 DEF Fixed!Next
  <1>4. CASE faults' = faults + 1
    <2>1. ASSUME NEW c \in Cells
          PROVE  /\ LeftOf'[c] \in 0..Window /\ LeftOf'[c] <= LeftOf[c]
                 /\ UsedOf'[c] \in Nat /\ UsedOf'[c] <= BudgetOf[c]
                 /\ LeftOf'[c] = 0 => UsedOf'[c] = 0
      <3>1. /\ LeftOf[c] = Left(Current(c)) /\ LeftOf'[c] = Left(Current(c)')
            /\ UsedOf'[c] = Cost(Current(c)', c[2]) /\ BudgetOf[c] = Budget[c[2]]
        BY DEF LeftOf, UsedOf, BudgetOf
      <3>2. c[2] \in Limits /\ Countable(Current(c)', c[2])
        BY <1>1 DEF CountersRead
      <3>3. /\ Left(Current(c)') \in 0..Window /\ Cost(Current(c)', c[2]) \in 0..Budget[c[2]]
            /\ Left(Current(c)') = 0 => Cost(Current(c)', c[2]) = 0
            /\ Budget[c[2]] \in Nat
        BY <3>2, LeftRange
      <3>4. Left(Current(c)') <= Left(Current(c))
        BY OtherCounters
      <3> QED
        BY <3>1, <3>3, <3>4
    <2>2. LeftOf' \in [Cells -> 0..Window] /\ UsedOf' \in [Cells -> Nat]
      BY <2>1 DEF LeftOf, UsedOf
    <2>3. \E lost \in SUBSET Requests :
              VerdictOf' = [r \in Requests |-> IF r \in lost THEN <<>> ELSE VerdictOf[r]]
      <3> DEFINE lost == {r \in Requests : VerdictOf'[r] = <<>>}
      <3>1. VerdictOf' = [r \in Requests |-> VerdictOf'[r]]
        BY DEF VerdictOf
      <3>2. VerdictOf' = [r \in Requests |-> IF r \in lost THEN <<>> ELSE VerdictOf[r]]
        BY <1>2, <3>1
      <3> QED
        BY <3>2
    <2>4. Fixed!Lapse
      BY <1>4, <2>1, <2>2, <2>3 DEF Fixed!Lapse, Fixed!None
    <2> QED
      BY <2>4 DEF Fixed!Next
  <1> QED
    BY <1>2, <1>3, <1>4

(* The read, the count and the write-back of an item behave as one step:    *)
(* while a mutex spans all that share a Storage, every behaviour of the     *)
(* limiters is one of a fixed window that counts and judges at once.        *)
THEOREM WindowsAreFixed == Alone /\ Spec => ImplementsFixedWindow
  <1>1. Init => Fixed!Init /\ Ready
    <2> SUFFICES ASSUME Init PROVE Fixed!Init /\ Ready
      OBVIOUS
    <2>1. History /\ OneHand /\ Behind
      BY HistoryInit DEF Init, OneHand, Behind
    <2>2. ASSUME NEW c \in Cells
          PROVE  Left(Current(c)) = 0 /\ Cost(Current(c), c[2]) = 0
      <3>1. Current(c) = NoItem
        BY <2>2 DEF Init, Current, InHand
      <3> QED
        BY <3>1 DEF Left, Cost, Closed
    <2>3. VerdictOf = [r \in Requests |-> <<>>]
      BY DEF VerdictOf, Init
    <2> QED
      BY <2>1, <2>2, <2>3 DEF Ready, Init, Fixed!Init, Fixed!None, LeftOf, UsedOf
  <1>2. Alone /\ Ready /\ [Next]_vars => (Alone /\ Ready)'
    BY ReadyStep
  <1>3. Alone /\ Ready /\ Ready' /\ [Next]_vars => [Fixed!Next]_(Fixed!vars)
    <2> SUFFICES ASSUME Alone, Ready, Ready', [Next]_vars
                 PROVE  [Fixed!Next]_(Fixed!vars)
      OBVIOUS
    <2>1. CASE Tick
      BY <2>1, TickStep DEF Fixed!Next
    <2>2. ASSUME NEW r \in Requests, Get(r) \/ GetFails(r)
          PROVE  Fixed!Next
      BY <2>2, CountStep
    <2>3. CASE ~Tick /\ \A r \in Requests : ~Get(r) /\ ~GetFails(r)
      BY <2>3, OtherStep
    <2> QED
      BY <2>1, <2>2, <2>3
  <1> QED
    BY <1>1, <1>2, <1>3, PTL DEF Spec, ImplementsFixedWindow, Fixed!Spec
=============================================================================
