---------------------------- MODULE RateLimiter ----------------------------
(***************************************************************************)
(* The rate limiters: one for every route and a tighter one on the writes  *)
(* and the lookups, all of them Fiber's fixed window over a Storage.  With *)
(* REDIS_URL the Storage is Redis, one for all the instances; without it   *)
(* each instance has its own memory.  A limiter reads its item, counts the *)
(* request and writes the item back under a mutex of its own process: no   *)
(* mutex spans two instances.  A deployment may have some instances with   *)
(* it and some without.  The module follows one client address.            *)
(* Time is in ticks of the limiter's clock; an item is kept with the ticks *)
(* left of its window and of its life in the Storage instead of instants.  *)
(***************************************************************************)
EXTENDS Naturals, Sequences

CONSTANTS
    Instances,     \* processes behind the load balancer
    Requests,      \* concurrent request slots of the client
    Traffic,       \* the routes that the client uses
    Budget,        \* RATE_LIMIT_..._PER_MIN of each limiter
    Window,        \* the limiter's Expiration, in ticks
    NoItem,
    MaxFaults      \* bound: failed Storage calls and crashes in a behaviour

Limits == {"general", "submit", "lookup"}
Routes == {"probe", "read", "submit", "lookup"}

ASSUME LimiterAssumptions ==
    /\ Traffic \subseteq Routes
    /\ Budget \in [Limits -> Nat \ {0}]
    /\ Window \in Nat \ {0}
    /\ MaxFaults \in Nat
    /\ Instances # {} /\ "redis" \notin Instances

Homes == Instances \cup {"redis"}
Cells == Homes \X Limits

(* The limiters on a route, in the order in which a request meets them.    *)
(* "submit" is one limiter for applications, contact and newsletter.       *)
Chain(route) ==
    CASE route = "probe" -> <<>>
      [] route = "read" -> <<"general">>
      [] OTHER -> <<"general", route>>

VARIABLES
    connected,     \* the instances that were started with REDIS_URL
    store,         \* the item of each cell
    pc, at, route, \* what each request does, where, on which route
    stage,         \* how far along its chain
    hand,          \* the item it holds between Get and Set
    recent,        \* history: requests let pass in the last n ticks, n <= Window
    open, spent,   \* history: a window of Window ticks, those let pass in it
    faults

vars == <<connected, store, pc, at, route, stage, hand, recent, open, spent, faults>>

Counts(l) == 0..Budget[l] + 1   \* the code counts on; it only compares with Max
Item(l) == [hits : Counts(l), left : 0..Window, ttl : 1..Window]
Held(l) == [hits : Counts(l), left : 0..Window]

ASSUME NoItemIsNone == \A l \in Limits : NoItem \notin Item(l) \cup Held(l)

Home(i) == IF i \in connected THEN "redis" ELSE i
Limit(r) == Chain(route[r])[stage[r]]
Cell(r) == <<Home(at[r]), Limit(r)>>

TypeOK ==
    /\ connected \subseteq Instances
    /\ DOMAIN store = Cells
    /\ \A c \in Cells : store[c] \in Item(c[2]) \cup {NoItem}
    /\ pc \in [Requests -> {"idle", "limit", "held", "through", "refused"}]
    /\ at \in [Requests -> Instances]
    /\ route \in [Requests -> Routes]
    /\ stage \in [Requests -> 1..3]
    /\ DOMAIN hand = Requests
    /\ \A r \in Requests :
          /\ pc[r] \in {"limit", "held"} => stage[r] \in DOMAIN Chain(route[r])
          /\ pc[r] = "held" => hand[r] \in Held(Limit(r))
    /\ recent \in [Cells -> [1..Window -> Nat]]
    /\ open \in [Cells -> 0..Window]
    /\ spent \in [Cells -> Nat]
    /\ faults \in 0..MaxFaults

Init ==
    /\ connected \in SUBSET Instances
    /\ store = [c \in Cells |-> NoItem]
    /\ pc = [r \in Requests |-> "idle"]
    /\ at \in {[r \in Requests |-> i] : i \in Instances}
    /\ route = [r \in Requests |-> "probe"]
    /\ stage = [r \in Requests |-> 1]
    /\ hand = [r \in Requests |-> NoItem]
    /\ recent = [c \in Cells |-> [n \in 1..Window |-> 0]]
    /\ open = [c \in Cells |-> 0]
    /\ spent = [c \in Cells |-> 0]
    /\ faults = 0

Fault == faults < MaxFaults /\ faults' = faults + 1

(* On to the next limiter of the chain, or to the handler. *)
Enter(r, ro, k) ==
    /\ stage' = [stage EXCEPT ![r] = k]
    /\ pc' = [pc EXCEPT ![r] = IF k \in DOMAIN Chain(ro) THEN "limit" ELSE "through"]

Arrive(r) ==
    /\ pc[r] = "idle"
    /\ \E i \in Instances, ro \in Traffic :
          /\ at' = [at EXCEPT ![r] = i]
          /\ route' = [route EXCEPT ![r] = ro]
          /\ Enter(r, ro, 1)
    /\ UNCHANGED <<connected, store, hand, recent, open, spent, faults>>

(* Mutant of MutexFree: no lock. *)
MutexIgnored(r) == r \in Requests

(* mux.Lock() *)
MutexFree(r) ==
    \A q \in Requests \ {r} :
        ~(pc[q] = "held" /\ at[q] = at[r] /\ Limit(q) = Limit(r))

(* Mutants of Charged: the window restarts with every request; one request  *)
(* too many; the window closes a tick late.                                 *)
ChargedSliding(item, l) ==
    IF item = NoItem \/ item.left = 0
    THEN [hits |-> 1, left |-> Window]
    ELSE [hits |-> IF item.hits > Budget[l] THEN item.hits ELSE item.hits + 1, left |-> Window]
ChargedFree(item, l) ==
    IF item = NoItem \/ item.left = 0
    THEN [hits |-> 0, left |-> Window]
    ELSE [hits |-> IF item.hits > Budget[l] THEN item.hits ELSE item.hits + 1, left |-> item.left]
ChargedLate(item, l) ==
    IF item = NoItem
    THEN [hits |-> 1, left |-> Window]
    ELSE [hits |-> IF item.hits > Budget[l] THEN item.hits ELSE item.hits + 1, left |-> item.left]

(* The item with one more hit; a closed window is opened anew. *)
Charged(item, l) ==
    IF item = NoItem \/ item.left = 0
    THEN [hits |-> 1, left |-> Window]
    ELSE [hits |-> IF item.hits > Budget[l] THEN item.hits ELSE item.hits + 1, left |-> item.left]

Passes(item, l) == item.hits <= Budget[l]

(* What the last n ticks let pass, when k more pass, and a tick later. *)
Added(f, k) == [n \in 1..Window |-> f[n] + k]
Aged(f) == [n \in 1..Window |-> IF n = 1 THEN 0 ELSE f[n - 1]]

(* History, on the instant at which the limiter reads its clock. *)
Record(c, passes) ==
    LET n == IF passes THEN 1 ELSE 0
    IN  /\ recent' = [recent EXCEPT ![c] = Added(@, n)]
        /\ open' = [open EXCEPT ![c] = IF @ = 0 THEN Window ELSE @]
        /\ spent' = [spent EXCEPT ![c] = IF open[c] = 0 THEN n ELSE @ + n]

Take(r, item) ==
    /\ pc' = [pc EXCEPT ![r] = "held"]
    /\ hand' = [hand EXCEPT ![r] = item]
    /\ Record(Cell(r), Passes(item, Limit(r)))
    /\ UNCHANGED <<connected, store, at, route, stage>>

Get(r) ==
    /\ pc[r] = "limit" /\ MutexFree(r)
    /\ Take(r, Charged(store[Cell(r)], Limit(r)))
    /\ UNCHANGED faults

(* Redis is out of reach: the limiter drops the error of Get and counts on  *)
(* an empty item.                                                           *)
GetFails(r) ==
    /\ at[r] \in connected /\ pc[r] = "limit" /\ MutexFree(r) /\ Fault
    /\ Take(r, Charged(NoItem, Limit(r)))

(* mux.Unlock(), and the verdict on what was counted. *)
Verdict(r) ==
    /\ IF Passes(hand[r], Limit(r))
       THEN Enter(r, route[r], stage[r] + 1)
       ELSE pc' = [pc EXCEPT ![r] = "refused"] /\ UNCHANGED stage
    /\ hand' = [hand EXCEPT ![r] = NoItem]
    /\ UNCHANGED <<connected, at, route, recent, open, spent>>

(* Mutant of Set: the item lives as long as its window has left. *)
SetRemaining(r) ==
    /\ pc[r] = "held"
    /\ store' = [store EXCEPT ![Cell(r)] =
                    [hits |-> hand[r].hits, left |-> hand[r].left, ttl |-> hand[r].left]]
    /\ Verdict(r)
    /\ UNCHANGED faults

(* The whole life again, whatever is left of the window. *)
Set(r) ==
    /\ pc[r] = "held"
    /\ store' = [store EXCEPT ![Cell(r)] =
                    [hits |-> hand[r].hits, left |-> hand[r].left, ttl |-> Window]]
    /\ Verdict(r)
    /\ UNCHANGED faults

SetFails(r) ==
    /\ at[r] \in connected /\ pc[r] = "held" /\ Fault
    /\ Verdict(r)
    /\ UNCHANGED store

(* The handler, or the 429, has been answered. *)
Done(r) ==
    /\ pc[r] \in {"through", "refused"}
    /\ pc' = [pc EXCEPT ![r] = "idle"]
    /\ UNCHANGED <<connected, store, at, route, stage, hand, recent, open, spent, faults>>

(* An instance goes down with its requests, and with its memory. *)
Crash(i) ==
    /\ Fault
    /\ pc' = [r \in Requests |-> IF at[r] = i THEN "idle" ELSE pc[r]]
    /\ hand' = [r \in Requests |-> IF at[r] = i THEN NoItem ELSE hand[r]]
    /\ store' = [c \in Cells |-> IF c[1] = i THEN NoItem ELSE store[c]]
    /\ UNCHANGED <<connected, at, route, stage, recent, open, spent>>

(* Redis drops a key when its memory is full (allkeys-lru). *)
Evict(c) ==
    /\ c[1] = "redis" /\ store[c] # NoItem /\ Fault
    /\ store' = [store EXCEPT ![c] = NoItem]
    /\ UNCHANGED <<connected, pc, at, route, stage, hand, recent, open, spent>>

Less(n) == IF n = 0 THEN 0 ELSE n - 1

Tick ==
    /\ store' = [c \in Cells |->
                    IF store[c] = NoItem \/ store[c].ttl = 1 THEN NoItem
                    ELSE [store[c] EXCEPT !.left = Less(@), !.ttl = @ - 1]]
    /\ hand' = [r \in Requests |->
                    IF pc[r] = "held" THEN [hand[r] EXCEPT !.left = Less(@)] ELSE NoItem]
    /\ recent' = [c \in Cells |-> Aged(recent[c])]
    /\ open' = [c \in Cells |-> Less(open[c])]
    /\ spent' = [c \in Cells |-> IF open[c] <= 1 THEN 0 ELSE spent[c]]
    /\ UNCHANGED <<connected, pc, at, route, stage, faults>>

Serve(r) == Get(r) \/ GetFails(r) \/ Set(r) \/ SetFails(r) \/ Done(r)

Next ==
    \/ \E r \in Requests : Arrive(r) \/ Serve(r)
    \/ \E i \in Instances : Crash(i)
    \/ \E c \in Cells : Evict(c)
    \/ Tick

Spec == Init /\ [][Next]_vars

(* Time passes, the server serves and the client keeps coming. *)
LiveSpec ==
    /\ Spec
    /\ WF_vars(Tick)
    /\ \A r \in Requests : WF_vars(Arrive(r)) /\ WF_vars(Get(r) \/ Set(r) \/ Done(r))
-----------------------------------------------------------------------------
(* Properties.                                                              *)

LetPass(c) == recent[c][Window]

(* While no call has failed, a window of Window ticks that opens with a     *)
(* request lets at most the budget pass, however its requests interleave.   *)
WindowBudget == \A c \in Cells : faults = 0 => spent[c] <= Budget[c[2]]

(* The limiter fails open, yet within limits: any Window ticks, wherever    *)
(* they begin, let pass at most twice the budget and once more per failure. *)
SlidingBudget == \A c \in Cells : LetPass(c) <= (2 + faults) * Budget[c[2]]

(* Nobody is refused who has not had the whole budget in the last Window    *)
(* ticks: neither failures nor refused requests count against a client.     *)
RefusalsEarned ==
    [][\A r \in Requests :
          pc[r] = "limit" /\ pc'[r] = "held" /\ ~Passes(hand'[r], Limit(r))
              => LetPass(Cell(r)) >= Budget[Limit(r)]]_vars

(* A client that never stops asking, and is counted for each refusal, still *)
(* gets through again and again.                                            *)
AdmittedAgain == []<>(\E r \in Requests : pc[r] = "through")

(* No second sees more requests pass than the budget of a minute, whichever *)
(* instances they reach.                                                    *)
FleetBudget == \A c \in Cells : recent[c][1] <= Budget[c[2]]
-----------------------------------------------------------------------------
(* What a limiter promises, without mutex and Storage: the item of a cell   *)
(* is the one a request has in hand, or else the stored one.                *)

InHand(c) == \E r \in Requests : pc[r] = "held" /\ Cell(r) = c
Holder(c) == CHOOSE r \in Requests : pc[r] = "held" /\ Cell(r) = c
Current(c) == IF InHand(c) THEN hand[Holder(c)] ELSE store[c]

(* What is left of an item's window, and what the window has let pass. *)
Closed(item) == item = NoItem \/ item.left = 0
Left(item) == IF Closed(item) THEN 0 ELSE item.left
Cost(item, l) ==
    IF Closed(item) THEN 0 ELSE IF item.hits <= Budget[l] THEN item.hits ELSE Budget[l]

LeftOf == [c \in Cells |-> Left(Current(c))]
UsedOf == [c \in Cells |-> Cost(Current(c), c[2])]
BudgetOf == [c \in Cells |-> Budget[c[2]]]

VerdictOf ==
    [r \in Requests |->
        IF pc[r] = "refused" \/ (pc[r] = "held" /\ ~Passes(hand[r], Limit(r)))
        THEN <<"refuse", Cell(r)>>
        ELSE IF pc[r] = "held" THEN <<"pass", Cell(r)>> ELSE <<>>]

Fixed == INSTANCE FixedWindow WITH
    Counters <- Cells,
    Budget   <- BudgetOf,
    left     <- LeftOf,
    used     <- UsedOf,
    verdict  <- VerdictOf

(* The read, the count and the write-back of an item behave as one step:    *)
(* every behaviour of the limiters is one of the fixed window.              *)
ImplementsFixedWindow == Fixed!Spec
=============================================================================
