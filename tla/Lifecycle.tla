----------------------------- MODULE Lifecycle -----------------------------
(***************************************************************************)
(* The life of the server processes: main connects the database, applies   *)
(* the migrations, connects Redis, listens, waits for a signal and drains. *)
(* Around it are the databases and Redis, which come and go, the           *)
(* orchestrator, which starts and signals instances, and the load          *)
(* balancer, which routes by what its last probe of an instance said.      *)
(***************************************************************************)
EXTENDS Naturals, FiniteSets

CONSTANTS
    Instances,
    Requests,      \* slots of requests in flight, reads and writes alike
    Files,         \* number of embedded migration files
    AutoMigrate, HasReplica, HasRedis,
    Probes,        \* what the balancer may probe: "live", /healthz; "ready", /readyz
    Nowhere,
    MaxFaults,     \* bound: outages, failed runs and drains out of time
    MaxSignals     \* bound: SIGTERMs in a behaviour

ASSUME LifecycleAssumptions ==
    /\ Files \in Nat
    /\ {AutoMigrate, HasReplica, HasRedis} \subseteq BOOLEAN
    /\ Probes \subseteq {"live", "ready"} /\ Probes # {}
    /\ Nowhere \notin Instances
    /\ MaxFaults \in Nat /\ MaxSignals \in Nat

VARIABLES
    up,            \* the backing services that answer
    applied,       \* the migration files that the primary has
    phase,         \* where main is, for each instance
    listener,      \* the goroutine that main starts to listen, for each instance
    next,          \* the file that its Migrate is at
    raced,         \* instances whose file another one has just applied
    routed,        \* the balancer's view: the instances it sends to
    at, step,      \* where each request is, and what it does there
    failed,        \* history: how requests have failed
    faults, signals

env == <<up, applied, faults>>
process == <<phase, listener, next, raced>>
vars == <<up, applied, phase, listener, next, raced, routed, at, step, failed, faults, signals>>

Services == {"primary", "replica", "redis"}

TypeOK ==
    /\ up \subseteq Services
    /\ applied \subseteq 1..Files
    /\ phase \in [Instances -> {"down", "connect", "migrate", "redis",
                               "listening", "serving", "draining"}]
    /\ listener \in [Instances -> {"closed", "open", "broken"}]
    /\ next \in [Instances -> 1..Files + 1]
    /\ raced \subseteq Instances
    /\ routed \subseteq Instances
    /\ at \in [Requests -> Instances \cup {Nowhere}]
    /\ step \in [Requests -> {"none", "check", "read", "write"}]
    /\ failed \subseteq {"refused", "error", "killed", "cut"}
    /\ faults \in 0..MaxFaults
    /\ signals \in 0..MaxSignals

Init ==
    /\ up = Services
    /\ applied = {}
    /\ phase = [i \in Instances |-> "down"]
    /\ listener = [i \in Instances |-> "closed"]
    /\ next = [i \in Instances |-> 1]
    /\ raced = {}
    /\ routed = {}
    /\ at = [r \in Requests |-> Nowhere]
    /\ step = [r \in Requests |-> "none"]
    /\ failed = {}
    /\ faults = 0 /\ signals = 0

Fault == faults < MaxFaults /\ faults' = faults + 1

Enter(i, p) == phase' = [phase EXCEPT ![i] = p]

Accepts(i) == phase[i] \in {"listening", "serving"} /\ listener[i] = "open"
Alive(i) == phase[i] \in {"listening", "serving", "draining"}
InFlight(i) == {r \in Requests : at[r] = i}

Leave(r) ==
    /\ at' = [at EXCEPT ![r] = Nowhere]
    /\ step' = [step EXCEPT ![r] = "none"]

(* The process ends, and with it the requests it may have in flight.        *)
Exit(i, how) ==
    /\ Enter(i, "down")
    /\ listener' = [listener EXCEPT ![i] = "closed"]
    /\ next' = [next EXCEPT ![i] = 1]
    /\ raced' = raced \ {i}
    /\ at' = [r \in Requests |-> IF at[r] = i THEN Nowhere ELSE at[r]]
    /\ step' = [r \in Requests |-> IF at[r] = i THEN "none" ELSE step[r]]
    /\ failed' = IF InFlight(i) = {} THEN failed ELSE failed \cup {how}

-----------------------------------------------------------------------------
(* Startup.  Whatever main cannot connect or apply is fatal.                *)

Start(i) ==
    /\ phase[i] = "down"
    /\ Enter(i, "connect")
    /\ UNCHANGED <<env, listener, next, raced, routed, at, step, failed, signals>>

Reachable == "primary" \in up /\ (HasReplica => "replica" \in up)

ConnectDatabase(i) ==
    /\ phase[i] = "connect"
    /\ IF Reachable
       THEN /\ Enter(i, IF AutoMigrate THEN "migrate" ELSE "redis")
            /\ UNCHANGED <<listener, next, raced, at, step, failed>>
       ELSE Exit(i, "cut")
    /\ UNCHANGED <<env, routed, signals>>

(* Mutants of ApplyFile: one file too many; a file is only good for a       *)
(* schema that does not have it yet.                                        *)
ApplyFilePast(i) ==
    /\ phase[i] = "migrate" /\ next[i] <= Files + 1 /\ "primary" \in up
    /\ applied' = applied \cup {next[i]}
    /\ next' = [next EXCEPT ![i] = @ + 1]
    /\ UNCHANGED <<up, phase, listener, raced, routed, at, step, failed, faults, signals>>

ApplyFileOnce(i) ==
    /\ phase[i] = "migrate" /\ next[i] <= Files /\ "primary" \in up
    /\ IF next[i] \in applied
       THEN Exit(i, "cut") /\ UNCHANGED applied
       ELSE /\ applied' = applied \cup {next[i]}
            /\ next' = [next EXCEPT ![i] = @ + 1]
            /\ UNCHANGED <<phase, listener, raced, at, step, failed>>
    /\ UNCHANGED <<up, routed, faults, signals>>

(* One file, all of its statements or none; a file that is there already    *)
(* changes nothing.  An instance that is in the same file may have looked   *)
(* before this commit.                                                      *)
ApplyFile(i) ==
    /\ phase[i] = "migrate" /\ next[i] <= Files /\ "primary" \in up
    /\ applied' = applied \cup {next[i]}
    /\ raced' = (raced \ {i}) \cup
          {j \in Instances \ {i} : /\ next[i] \notin applied
                                   /\ phase[j] = "migrate" /\ next[j] = next[i]}
    /\ next' = [next EXCEPT ![i] = @ + 1]
    /\ UNCHANGED <<up, phase, listener, routed, at, step, failed, faults, signals>>

(* Mutant of ApplyFails: the error is logged, and the next file tried. *)
ApplyFailsOnward(i) ==
    /\ phase[i] = "migrate" /\ next[i] <= Files
    /\ \/ (i \in raced \/ "primary" \notin up) /\ UNCHANGED faults
       \/ Fault
    /\ next' = [next EXCEPT ![i] = @ + 1]
    /\ raced' = raced \ {i}
    /\ UNCHANGED <<up, applied, phase, listener, routed, at, step, failed, signals>>

(* CREATE ... IF NOT EXISTS of two sessions at once ends in a duplicate key *)
(* for one of them; or the primary goes away, or the call times out.        *)
ApplyFails(i) ==
    /\ phase[i] = "migrate" /\ next[i] <= Files
    /\ \/ (i \in raced \/ "primary" \notin up) /\ UNCHANGED faults
       \/ Fault
    /\ Exit(i, "cut")
    /\ UNCHANGED <<up, applied, routed, signals>>

Migrated(i) ==
    /\ phase[i] = "migrate" /\ next[i] > Files
    /\ Enter(i, "redis")
    /\ UNCHANGED <<env, listener, next, raced, routed, at, step, failed, signals>>

(* Mutant of ConnectRedis: it listens without the schema. *)
ConnectRedisFirst(i) ==
    /\ phase[i] \in {"connect", "migrate", "redis"}
    /\ HasRedis => "redis" \in up
    /\ Enter(i, "listening")
    /\ UNCHANGED <<env, listener, next, raced, routed, at, step, failed, signals>>

ConnectRedis(i) ==
    /\ phase[i] = "redis"
    /\ IF HasRedis => "redis" \in up
       THEN Enter(i, "listening") /\ UNCHANGED <<listener, next, raced, at, step, failed>>
       ELSE Exit(i, "cut")
    /\ UNCHANGED <<env, routed, signals>>

(* main has started the goroutine, which opens the port in its own time.    *)
Listen(i) ==
    /\ phase[i] \in {"listening", "serving"} /\ listener[i] = "closed"
    /\ listener' = [listener EXCEPT ![i] = "open"]
    /\ UNCHANGED <<env, phase, next, raced, routed, at, step, failed, signals>>

(* The port cannot be opened, or the accept loop ends.                      *)
ListenFails(i) ==
    /\ phase[i] \in {"listening", "serving"} /\ listener[i] # "broken" /\ Fault
    /\ listener' = [listener EXCEPT ![i] = "broken"]
    /\ UNCHANGED <<up, applied, phase, next, raced, routed, at, step, failed, signals>>

(* signal.Notify, whatever the goroutine has come to.                       *)
Notify(i) ==
    /\ phase[i] = "listening"
    /\ Enter(i, "serving")
    /\ UNCHANGED <<env, listener, next, raced, routed, at, step, failed, signals>>

(* main selects: only now does it see what became of the listener.          *)
ServerError(i) ==
    /\ phase[i] = "serving" /\ listener[i] = "broken"
    /\ Exit(i, "cut")
    /\ UNCHANGED <<env, routed, signals>>

-----------------------------------------------------------------------------
(* Shutdown.                                                                *)

(* The handler of the signal, once there is one, closes the listener and    *)
(* cancels the context of every request; before, the signal just kills.     *)
Sigterm(i) ==
    /\ phase[i] \notin {"down", "draining"} /\ signals < MaxSignals
    /\ signals' = signals + 1
    /\ IF phase[i] = "serving"
       THEN Enter(i, "draining") /\ UNCHANGED <<listener, next, raced, at, step, failed>>
       ELSE Exit(i, "killed")
    /\ UNCHANGED <<env, routed>>

(* Mutant of Drained: main does not wait for its requests.                 *)
DrainedAtOnce(i) ==
    /\ phase[i] = "draining"
    /\ Exit(i, "cut")
    /\ UNCHANGED <<env, routed, signals>>

Drained(i) ==
    /\ phase[i] = "draining" /\ InFlight(i) = {}
    /\ Exit(i, "cut")
    /\ UNCHANGED <<env, routed, signals>>

(* SHUTDOWN_TIMEOUT_SECONDS are over. *)
ForceExit(i) ==
    /\ phase[i] = "draining" /\ InFlight(i) # {} /\ Fault
    /\ Exit(i, "cut")
    /\ UNCHANGED <<up, applied, routed, signals>>

-----------------------------------------------------------------------------
(* Probes and requests.                                                     *)

(* Mutant of Live: it is answered from the start of main. *)
LiveEarly(i) == phase[i] # "down"

Live(i) == Accepts(i)

Ready(i) == Live(i) /\ "primary" \in up /\ (HasRedis => "redis" \in up)

Answers(path, i) == IF path = "live" THEN Live(i) ELSE Ready(i)

Probe(i) ==
    /\ \E path \in Probes :
          routed' = IF Answers(path, i) THEN routed \cup {i} ELSE routed \ {i}
    /\ UNCHANGED <<env, process, at, step, failed, signals>>

Arrive(r, i) ==
    /\ at[r] = Nowhere /\ i \in routed
    /\ IF Accepts(i)
       THEN /\ at' = [at EXCEPT ![r] = i] /\ step' = [step EXCEPT ![r] = "check"]
            /\ UNCHANGED failed
       ELSE failed' = failed \cup {"refused"} /\ UNCHANGED <<at, step>>
    /\ UNCHANGED <<env, process, routed, signals>>

(* A body that does not parse, does not pass the bot check or is not valid  *)
(* is answered 4xx without a call: the visitor's failure, not the fleet's.  *)
Refuse(r) ==
    /\ step[r] = "check"
    /\ Leave(r)
    /\ UNCHANGED <<env, process, routed, failed, signals>>

(* Parsed, screened and validated: the handler calls the repository. *)
Query(r) ==
    /\ step[r] = "check"
    /\ \E kind \in {"read", "write"} : step' = [step EXCEPT ![r] = kind]
    /\ UNCHANGED <<env, process, routed, at, failed, signals>>

Backend(r) == IF step[r] = "read" /\ HasReplica THEN "replica" ELSE "primary"

(* The call is done, before its context ends if that is what happens. *)
QueryReturns(r) ==
    /\ step[r] \in {"read", "write"} /\ Backend(r) \in up
    /\ Leave(r)
    /\ UNCHANGED <<env, process, routed, failed, signals>>

(* The database is away, or fasthttp has ended the context to drain: the    *)
(* bot check or the call returns the error, and the visitor is told so.     *)
QueryFails(r) ==
    /\ \/ step[r] # "none" /\ phase[at[r]] = "draining"
       \/ step[r] \in {"read", "write"} /\ Backend(r) \notin up
    /\ Leave(r)
    /\ failed' = failed \cup {"error"}
    /\ UNCHANGED <<env, process, routed, signals>>

-----------------------------------------------------------------------------
(* The services.                                                            *)

Outage(s) ==
    /\ s \in up /\ Fault
    /\ up' = up \ {s}
    /\ UNCHANGED <<applied, process, routed, at, step, failed, signals>>

Restore(s) ==
    /\ s \in Services \ up
    /\ up' = up \cup {s}
    /\ UNCHANGED <<applied, process, routed, at, step, failed, faults, signals>>

Main(i) ==
    \/ Start(i) \/ ConnectDatabase(i) \/ ApplyFile(i) \/ Migrated(i) \/ ConnectRedis(i)
    \/ Notify(i) \/ ServerError(i) \/ Drained(i)

Handle(r) == Refuse(r) \/ Query(r) \/ QueryReturns(r) \/ QueryFails(r)

Next ==
    \/ \E i \in Instances :
          \/ Main(i) \/ ApplyFails(i) \/ Listen(i) \/ ListenFails(i)
          \/ Sigterm(i) \/ ForceExit(i) \/ Probe(i)
    \/ \E r \in Requests : Handle(r) \/ \E i \in Instances : Arrive(r, i)
    \/ \E s \in Services : Outage(s) \/ Restore(s)

Spec == Init /\ [][Next]_vars

(* Processes run and are started again, ports are opened, requests are worked on, probes      *)
(* repeat and outages end.  A migration that meets an outage returns with   *)
(* an error; nothing else is obliged to fail, or to be signalled.           *)
FairSpec ==
    /\ Spec
    /\ \A i \in Instances : WF_vars(Main(i)) /\ WF_vars(Listen(i)) /\ WF_vars(Probe(i))
    /\ \A r \in Requests : WF_vars(Handle(r))
    /\ \A s \in Services : WF_vars(Restore(s))
-----------------------------------------------------------------------------
(* Properties.                                                              *)

(* However instances race, restart and fail in Migrate, a file is never     *)
(* applied to a schema that lacks an earlier one.                           *)
AppliedInOrder == \A k \in applied : 1..k \subseteq applied

(* No instance takes requests before the schema it needs is there.          *)
ServesOnSchema ==
    AutoMigrate => \A i \in Instances : Alive(i) => applied = 1..Files

(* A process may end at any stage: a start that loses a race or meets an    *)
(* outage, a broken listener, a signal, the end of a drain.  As long as     *)
(* nothing has failed, none of these ends takes an unanswered request with  *)
(* it but a SIGTERM between app.Listen and signal.Notify: nobody is served  *)
(* while a start can still be lost, and a drain waits for the last answer.  *)
ExitsAreClean == faults = 0 => "cut" \notin failed

(* As long as no service, migration or drain has failed and nobody has been *)
(* told to stop, no request fails: starting and racing cost nothing.        *)
QuietServes == faults = 0 /\ signals = 0 => failed = {}

(* Once faults and signals are over the whole fleet serves, and receives    *)
(* requests, for good.                                                      *)
FleetComesUp == <>[](\A i \in Instances : phase[i] = "serving" /\ i \in routed)

(* With every service up, a request that an instance had accepted before    *)
(* the signal is not answered with an error.                                *)
DrainServes == faults = 0 => "error" \notin failed
=============================================================================
