--------------------------- MODULE LifecycleProofs ---------------------------
(***************************************************************************)
(* Theorems about Lifecycle, for any fleet, any number of migration files, *)
(* requests, outages and signals.                                          *)
(***************************************************************************)
EXTENDS Lifecycle, TLAPS

(* How far an instance is tells what the schema has. *)
Progress ==
    \A i \in Instances :
        /\ phase[i] \in {"down", "connect"} => next[i] = 1
        /\ phase[i] = "migrate" => 1..(next[i] - 1) \subseteq applied
        /\ AutoMigrate /\ phase[i] \in {"redis", "listening", "serving", "draining"}
              => applied = 1..Files

(* A request is somewhere exactly as long as it has a step to take. *)
Placed == \A r \in Requests : at[r] = Nowhere <=> step[r] = "none"

(* Every request in flight has a live process behind it: a start that fails *)
(* has taken none yet.                                                      *)
Hosted == \A r \in Requests : at[r] # Nowhere => Alive(at[r])

(* Without a fault no listener breaks, so that no process ends for one.     *)
Clean == ExitsAreClean /\ (faults = 0 => \A i \in Instances : listener[i] # "broken")

(* In a fleet that nothing has disturbed, what is routed to accepts. *)
Quiet ==
    faults = 0 /\ signals = 0 =>
        /\ up = Services /\ failed = {}
        /\ \A i \in Instances : phase[i] # "draining" /\ (i \in routed => Accepts(i))

Inv == TypeOK /\ AppliedInOrder /\ Progress /\ Placed /\ Hosted /\ Clean /\ Quiet

(* What the end of a process leaves behind is well-typed. *)
LEMMA ExitTypes ==
    ASSUME TypeOK, NEW i \in Instances, NEW how \in {"cut", "killed"}, Exit(i, how)
    PROVE  /\ phase' = [phase EXCEPT ![i] = "down"]
           /\ listener' = [listener EXCEPT ![i] = "closed"]
           /\ next' \in [Instances -> 1..Files + 1] /\ next'[i] = 1
           /\ \A j \in Instances \ {i} : next'[j] = next[j]
           /\ raced' \subseteq Instances
           /\ at' \in [Requests -> Instances \cup {Nowhere}]
           /\ step' \in [Requests -> {"none", "check", "read", "write"}]
           /\ failed' \subseteq {"refused", "error", "killed", "cut"}
  <1>1. next' = [next EXCEPT ![i] = 1] /\ 1 \in 1..Files + 1
    BY LifecycleAssumptions DEF Exit
  <1> QED
    BY <1>1 DEF Exit, Enter, TypeOK

(* Every step keeps the types. *)
LEMMA TypeStep == TypeOK /\ [Next]_vars => TypeOK'
  <1> SUFFICES ASSUME TypeOK, [Next]_vars
               PROVE  TypeOK'
    OBVIOUS
  <1> USE LifecycleAssumptions DEF TypeOK, Services, Enter, Leave, Fault, env, process
  <1>1. CASE UNCHANGED vars
    BY <1>1 DEF vars
  <1>2. ASSUME NEW i \in Instances, NEW how \in {"cut", "killed"}, Exit(i, how),
               UNCHANGED <<up, routed>>, applied' \subseteq 1..Files,
               faults' \in 0..MaxFaults, signals' \in 0..MaxSignals
        PROVE  TypeOK'
    BY <1>2, ExitTypes
  <1>3. ASSUME NEW i \in Instances, Main(i) \/ Listen(i) PROVE TypeOK'
    <2>1. CASE Start(i) \/ Migrated(i) \/ Notify(i) \/ Listen(i)
      BY <2>1 DEF Start, Migrated, Notify, Listen
    <2>2. CASE ConnectDatabase(i)
      BY <1>2, <2>2 DEF ConnectDatabase
    <2>3. CASE ConnectRedis(i)
      BY <1>2, <2>3 DEF ConnectRedis
    <2>4. CASE ServerError(i) \/ Drained(i)
      BY <1>2, <2>4 DEF ServerError, Drained
    <2>5. CASE ApplyFile(i)
      <3>1. next[i] \in 1..Files /\ next[i] + 1 \in 1..Files + 1
        BY <2>5 DEF ApplyFile
      <3>2. applied' \subseteq 1..Files /\ raced' \subseteq Instances
            /\ next' \in [Instances -> 1..Files + 1]
        BY <2>5, <3>1 DEF ApplyFile
      <3> QED
        BY <2>5, <3>2 DEF ApplyFile
    <2> QED
      BY <1>3, <2>1, <2>2, <2>3, <2>4, <2>5 DEF Main
  <1>4. ASSUME NEW i \in Instances, Probe(i) PROVE TypeOK'
    BY <1>4 DEF Probe
  <1>5. ASSUME NEW i \in Instances, ListenFails(i) PROVE TypeOK'
    <2>1. faults' \in 0..MaxFaults /\ listener' \in [Instances -> {"closed", "open", "broken"}]
      BY <1>5 DEF ListenFails
    <2> QED
      BY <1>5, <2>1 DEF ListenFails
  <1>6. ASSUME NEW i \in Instances, ApplyFails(i) \/ ForceExit(i) PROVE TypeOK'
    <2>1. faults' \in 0..MaxFaults /\ applied' = applied /\ signals' = signals
      BY <1>6 DEF ApplyFails, ForceExit
    <2> QED
      BY <1>2, <1>6, <2>1 DEF ApplyFails, ForceExit
  <1>7. ASSUME NEW i \in Instances, Sigterm(i) PROVE TypeOK'
    <2>1. faults' = faults /\ applied' = applied /\ signals' \in 0..MaxSignals
      BY <1>7 DEF Sigterm
    <2>2. CASE phase[i] = "serving"
      BY <1>7, <2>1, <2>2 DEF Sigterm
    <2>3. CASE phase[i] # "serving"
      BY <1>2, <1>7, <2>1, <2>3 DEF Sigterm
    <2> QED
      BY <2>2, <2>3
  <1>8. ASSUME NEW r \in Requests, Handle(r) \/ \E i \in Instances : Arrive(r, i)
        PROVE  TypeOK'
    <2>1. CASE Query(r)
      <3>1. step' \in [Requests -> {"none", "check", "read", "write"}]
        BY <2>1 DEF Query
      <3> QED
        BY <2>1, <3>1 DEF Query
    <2>2. CASE Refuse(r)
      BY <2>2 DEF Refuse
    <2>3. CASE QueryReturns(r)
      BY <2>3 DEF QueryReturns
    <2>4. CASE QueryFails(r)
      <3>1. failed' \subseteq {"refused", "error", "killed", "cut"}
        BY <2>4 DEF QueryFails
      <3> QED
        BY <2>4, <3>1 DEF QueryFails
    <2>5. ASSUME NEW i \in Instances, Arrive(r, i) PROVE TypeOK'
      <3>1. failed' \subseteq {"refused", "error", "killed", "cut"}
        BY <2>5 DEF Arrive
      <3> QED
        BY <2>5, <3>1 DEF Arrive
    <2> QED
      BY <1>8, <2>1, <2>2, <2>3, <2>4, <2>5 DEF Handle
  <1>9. ASSUME NEW s \in Services, Outage(s) \/ Restore(s) PROVE TypeOK'
    <2>1. CASE Outage(s)
      <3>1. faults' \in 0..MaxFaults
        BY <2>1 DEF Outage
      <3> QED
        BY <2>1, <3>1 DEF Outage
    <2>2. CASE Restore(s)
      BY <2>2 DEF Restore
    <2> QED
      BY <1>9, <2>1, <2>2
  <1> QED
    BY <1>1, <1>3, <1>4, <1>5, <1>6, <1>7, <1>8, <1>9 DEF Next

(* The moves of main, but for the files it applies. *)
Moves(j) ==
    \/ phase'[j] = phase[j] /\ next'[j] = next[j]
    \/ phase'[j] = "down" /\ next'[j] = 1
    \/ phase[j] = "down" /\ phase'[j] = "connect" /\ next'[j] = next[j]
    \/ phase[j] = "connect" /\ phase'[j] = "migrate" /\ next'[j] = next[j] /\ AutoMigrate
    \/ phase[j] = "connect" /\ phase'[j] = "redis" /\ ~AutoMigrate
    \/ phase[j] = "migrate" /\ phase'[j] = "redis" /\ next[j] = Files + 1
    \/ phase[j] = "redis" /\ phase'[j] = "listening"
    \/ phase[j] = "listening" /\ phase'[j] = "serving"
    \/ phase[j] = "serving" /\ phase'[j] = "draining"

(* An instance that applies no file makes one of these moves, or none. *)
LEMMA MoveStep ==
    ASSUME TypeOK, [Next]_vars, ~(\E i \in Instances : ApplyFile(i)), NEW j \in Instances
    PROVE  Moves(j)
  <1> USE LifecycleAssumptions DEF TypeOK, Enter, process
  <1>1. ASSUME NEW i \in Instances, NEW how \in {"cut", "killed"}, Exit(i, how)
        PROVE  Moves(j)
    BY <1>1, ExitTypes DEF Moves
  <1>2. ASSUME NEW i \in Instances, Main(i), ~ApplyFile(i)
        PROVE  Moves(j)
    <2>1. CASE Start(i) \/ Migrated(i) \/ Notify(i)
      BY <2>1 DEF Start, Migrated, Notify, Moves
    <2>2. CASE ConnectDatabase(i) \/ ConnectRedis(i)
      BY <1>1, <2>2 DEF ConnectDatabase, ConnectRedis, Moves
    <2>3. CASE ServerError(i) \/ Drained(i)
      BY <1>1, <2>3 DEF ServerError, Drained
    <2> QED
      BY <1>2, <2>1, <2>2, <2>3 DEF Main
  <1>3. ASSUME NEW i \in Instances, ApplyFails(i) \/ ForceExit(i) \/ Sigterm(i)
        PROVE  Moves(j)
    BY <1>1, <1>3 DEF ApplyFails, ForceExit, Sigterm, Moves
  <1>4. ASSUME \/ \E i \in Instances : Listen(i) \/ ListenFails(i) \/ Probe(i)
               \/ \E r \in Requests : Handle(r) \/ \E i \in Instances : Arrive(r, i)
               \/ \E s \in Services : Outage(s) \/ Restore(s)
               \/ UNCHANGED vars
        PROVE  Moves(j)
    BY <1>4
    DEF Listen, ListenFails, Probe, Handle, Refuse, Query, QueryReturns, QueryFails, Arrive,
        Outage, Restore, vars, Moves
  <1> QED
    BY <1>2, <1>3, <1>4 DEF Next

(* The schema and the progress of the migrations.  A step of Migrate adds   *)
(* the file after those that are there.                                     *)
LEMMA SchemaStep ==
    ASSUME TypeOK, AppliedInOrder, Progress, [Next]_vars
    PROVE  AppliedInOrder' /\ Progress'
  <1> USE LifecycleAssumptions DEF TypeOK, Enter, env
  <1>1. CASE \E i \in Instances : ApplyFile(i)
    <2>1. PICK i \in Instances : ApplyFile(i)
      BY <1>1
    <2>2. /\ next[i] \in 1..Files /\ 1..(next[i] - 1) \subseteq applied /\ phase' = phase
          /\ applied' = applied \cup {next[i]} /\ next' = [next EXCEPT ![i] = @ + 1]
      BY <2>1 DEF ApplyFile, Progress
    <2>3. AppliedInOrder'
      BY <2>2 DEF AppliedInOrder
    <2>4. ASSUME NEW j \in Instances, phase'[j] = "migrate"
          PROVE  1..(next'[j] - 1) \subseteq applied'
      <3>1. 1..(next[j] - 1) \subseteq applied
        BY <2>2, <2>4 DEF Progress
      <3>2. CASE j = i
        <4>1. next'[j] - 1 = next[i]
          BY <2>2, <3>2
        <4>2. ASSUME NEW k \in 1..next[i] PROVE k \in applied \cup {next[i]}
          BY <2>2
        <4> QED
          BY <2>2, <4>1, <4>2
      <3>3. CASE j # i
        BY <2>2, <3>1, <3>3
      <3> QED
        BY <3>2, <3>3
    <2>5. ASSUME NEW j \in Instances, AutoMigrate,
                 phase'[j] \in {"redis", "listening", "serving", "draining"}
          PROVE  applied' = 1..Files
      BY <2>2, <2>5 DEF Progress
    <2>6. ASSUME NEW j \in Instances, phase'[j] \in {"down", "connect"}
          PROVE  next'[j] = 1
      BY <2>1, <2>2, <2>6 DEF Progress, ApplyFile
    <2> QED
      BY <2>3, <2>4, <2>5, <2>6 DEF Progress
  <1>2. CASE ~(\E i \in Instances : ApplyFile(i))
    <2>1. applied' = applied
      BY <1>2
      DEF Next, vars, Main, Start, ConnectDatabase, Migrated, ConnectRedis, Notify, ServerError,
          Drained, ApplyFails, Listen, ListenFails, Sigterm, ForceExit, Probe, Handle, Refuse,
          Query, QueryReturns, QueryFails, Arrive, Outage, Restore
    <2>2. ASSUME NEW j \in Instances
          PROVE  Moves(j)
      BY <1>2, MoveStep
    <2>3. ASSUME NEW j \in Instances, phase'[j] \in {"down", "connect"}
          PROVE  next'[j] = 1
      BY <2>2, <2>3 DEF Progress, Moves
    <2>4. ASSUME NEW j \in Instances, phase'[j] = "migrate"
          PROVE  1..(next'[j] - 1) \subseteq applied'
      <3>1. next'[j] = next[j] /\ (phase[j] = "migrate" \/ next[j] = 1)
        BY <2>2, <2>4 DEF Progress, Moves
      <3> QED
        BY <2>1, <3>1 DEF Progress
    <2>5. ASSUME NEW j \in Instances, AutoMigrate,
                 phase'[j] \in {"redis", "listening", "serving", "draining"}
          PROVE  applied' = 1..Files
      <3>1. \/ phase[j] \in {"redis", "listening", "serving", "draining"}
            \/ phase[j] = "migrate" /\ next[j] - 1 = Files
        BY <2>2, <2>5 DEF Moves
      <3> QED
        BY <2>1, <2>5, <3>1 DEF Progress
    <2> QED
      BY <2>1, <2>3, <2>4, <2>5 DEF AppliedInOrder, Progress
  <1> QED
    BY <1>1, <1>2

(* A request stays with a process that lives: a process leaves its loop     *)
(* when it has no requests, or takes them with it.                          *)
LEMMA HostStep ==
    ASSUME TypeOK, Placed, Hosted, [Next]_vars
    PROVE  Placed' /\ Hosted'
  <1> USE LifecycleAssumptions DEF TypeOK, Enter, Placed, Hosted, Alive, process
  <1>1. CASE UNCHANGED vars
    BY <1>1 DEF vars
  <1>2. ASSUME NEW i \in Instances, NEW how \in {"cut", "killed"}, Exit(i, how)
        PROVE  Placed' /\ Hosted'
    <2>1. Placed'
      BY <1>2 DEF Exit
    <2>2. ASSUME NEW r \in Requests, at'[r] # Nowhere
          PROVE  Alive(at[r])'
      <3>1. at[r] # i /\ at'[r] = at[r] /\ at[r] \in Instances
        BY <1>2, <2>2 DEF Exit
      <3> QED
        BY <1>2, <2>2, <3>1, ExitTypes
    <2> QED
      BY <2>1, <2>2
  <1>3. ASSUME NEW i \in Instances, Main(i)
        PROVE  Placed' /\ Hosted'
    <2>1. CASE Start(i) \/ ApplyFile(i) \/ Migrated(i) \/ Notify(i)
      <3>1. at' = at /\ step' = step
        BY <2>1 DEF Start, ApplyFile, Migrated, Notify
      <3>2. ASSUME NEW j \in Instances, Alive(j) PROVE Alive(j)'
        BY <2>1, <3>2 DEF Start, ApplyFile, Migrated, Notify
      <3> QED
        BY <3>1, <3>2
    <2>2. CASE ConnectDatabase(i)
      BY <1>2, <2>2 DEF ConnectDatabase
    <2>3. CASE ConnectRedis(i)
      BY <1>2, <2>3 DEF ConnectRedis
    <2>4. CASE ServerError(i) \/ Drained(i)
      BY <1>2, <2>4 DEF ServerError, Drained
    <2> QED
      BY <1>3, <2>1, <2>2, <2>3, <2>4 DEF Main
  <1>4. ASSUME NEW i \in Instances, Listen(i) \/ ListenFails(i) \/ Probe(i)
        PROVE  Placed' /\ Hosted'
    BY <1>4 DEF Listen, ListenFails, Probe
  <1>5. ASSUME NEW i \in Instances, ApplyFails(i) \/ ForceExit(i)
        PROVE  Placed' /\ Hosted'
    BY <1>2, <1>5 DEF ApplyFails, ForceExit
  <1>6. ASSUME NEW i \in Instances, Sigterm(i)
        PROVE  Placed' /\ Hosted'
    <2>1. CASE phase[i] = "serving"
      BY <1>6, <2>1 DEF Sigterm
    <2>2. CASE phase[i] # "serving"
      BY <1>2, <1>6, <2>2 DEF Sigterm
    <2> QED
      BY <2>1, <2>2
  <1>7. ASSUME NEW r \in Requests, Handle(r) \/ \E i \in Instances : Arrive(r, i)
        PROVE  Placed' /\ Hosted'
    <2>1. CASE Query(r)
      BY <2>1 DEF Query
    <2>2. CASE Refuse(r) \/ QueryReturns(r) \/ QueryFails(r)
      BY <2>2 DEF Refuse, QueryReturns, QueryFails, Leave
    <2>3. ASSUME NEW i \in Instances, Arrive(r, i) PROVE Placed' /\ Hosted'
      BY <2>3 DEF Arrive, Accepts
    <2> QED
      BY <1>7, <2>1, <2>2, <2>3 DEF Handle
  <1>8. ASSUME NEW s \in Services, Outage(s) \/ Restore(s)
        PROVE  Placed' /\ Hosted'
    BY <1>8 DEF Outage, Restore
  <1> QED
    BY <1>1, <1>3, <1>4, <1>5, <1>6, <1>7, <1>8 DEF Next

(* No end of a process takes requests with it while nothing has failed: a   *)
(* start that fails has none, a drain waits, and a listener breaks only by  *)
(* a fault.                                                                 *)
LEMMA CleanStep ==
    ASSUME TypeOK, Hosted, Clean, [Next]_vars
    PROVE  Clean'
  <1> SUFFICES ASSUME faults' = 0
               PROVE  "cut" \notin failed' /\ \A j \in Instances : listener'[j] # "broken"
    BY DEF Clean, ExitsAreClean
  <1> USE LifecycleAssumptions DEF TypeOK, Enter, env, process
  <1> DEFINE Unhurt == "cut" \notin failed' /\ \A j \in Instances : listener'[j] # "broken"
  <1>1. ~Fault
    BY DEF Fault
  <1>2. ASSUME faults' = faults
        PROVE  faults = 0 /\ "cut" \notin failed /\ \A j \in Instances : listener[j] # "broken"
    BY <1>2 DEF Clean, ExitsAreClean
  <1>3. ASSUME NEW i \in Instances, NEW how \in {"cut", "killed"}, Exit(i, how), faults' = faults,
               how = "cut" => InFlight(i) = {}
        PROVE  Unhurt
    <2>1. "cut" \notin failed'
      BY <1>2, <1>3 DEF Exit
    <2> QED
      BY <1>2, <1>3, <2>1, ExitTypes
  <1>4. ASSUME NEW i \in Instances, ~Alive(i)
        PROVE  InFlight(i) = {}
    BY <1>4 DEF Hosted, InFlight
  <1>5. ASSUME NEW i \in Instances, Main(i)
        PROVE  Unhurt
    <2>1. CASE Start(i) \/ Migrated(i) \/ Notify(i) \/ ApplyFile(i)
      BY <1>2, <2>1 DEF Start, Migrated, Notify, ApplyFile
    <2>2. CASE ConnectDatabase(i)
      <3>1. InFlight(i) = {} /\ faults' = faults
        BY <1>4, <2>2 DEF ConnectDatabase, Alive
      <3> QED
        BY <1>2, <1>3, <2>2, <3>1 DEF ConnectDatabase
    <2>3. CASE ConnectRedis(i)
      <3>1. InFlight(i) = {} /\ faults' = faults
        BY <1>4, <2>3 DEF ConnectRedis, Alive
      <3> QED
        BY <1>2, <1>3, <2>3, <3>1 DEF ConnectRedis
    <2>4. CASE Drained(i)
      BY <1>3, <2>4 DEF Drained
    <2>5. ~ServerError(i)
      BY <1>2 DEF ServerError
    <2> QED
      BY <1>5, <2>1, <2>2, <2>3, <2>4, <2>5 DEF Main
  <1>6. ASSUME NEW i \in Instances, ApplyFails(i)
        PROVE  Unhurt
    <2>1. InFlight(i) = {} /\ faults' = faults
      BY <1>1, <1>4, <1>6 DEF ApplyFails, Alive
    <2> QED
      BY <1>3, <1>6, <2>1 DEF ApplyFails
  <1>7. ASSUME NEW i \in Instances, Sigterm(i)
        PROVE  Unhurt
    <2>1. faults' = faults
      BY <1>7 DEF Sigterm
    <2> QED
      BY <1>2, <1>3, <1>7, <2>1 DEF Sigterm
  <1>8. ASSUME NEW i \in Instances
        PROVE  ~ListenFails(i) /\ ~ForceExit(i)
    BY <1>1 DEF ListenFails, ForceExit
  <1>9. ASSUME NEW i \in Instances, Listen(i) \/ Probe(i)
        PROVE  Unhurt
    BY <1>2, <1>9 DEF Listen, Probe
  <1>10. ASSUME NEW r \in Requests, Handle(r) \/ \E i \in Instances : Arrive(r, i)
         PROVE  Unhurt
    BY <1>2, <1>10 DEF Handle, Refuse, Query, QueryReturns, QueryFails, Arrive
  <1>11. ASSUME NEW s \in Services, Outage(s) \/ Restore(s)
         PROVE  Unhurt
    BY <1>1, <1>2, <1>11 DEF Outage, Restore
  <1>12. CASE UNCHANGED vars
    BY <1>2, <1>12 DEF vars
  <1> QED
    BY <1>5, <1>6, <1>7, <1>8, <1>9, <1>10, <1>11, <1>12 DEF Next

(* While nothing fails and nobody is signalled, no listening instance stops *)
(* and no request meets a service that is away.                             *)
LEMMA QuietStep ==
    ASSUME TypeOK, Placed, Hosted, Clean, Quiet, [Next]_vars
    PROVE  Quiet'
  <1> SUFFICES ASSUME faults' = 0, signals' = 0
               PROVE  /\ up' = Services /\ failed' = {}
                      /\ \A j \in Instances : /\ phase'[j] # "draining"
                                              /\ j \in routed' => Accepts(j)'
    BY DEF Quiet
  <1> USE LifecycleAssumptions DEF TypeOK, Enter, env, process
  <1> DEFINE Calm == /\ up' = Services /\ failed' = {}
                     /\ \A j \in Instances : /\ phase'[j] # "draining"
                                             /\ j \in routed' => Accepts(j)'
  <1>1. /\ faults = 0 /\ signals = 0 /\ ~Fault
        /\ \A i \in Instances : ~Sigterm(i) /\ ~ListenFails(i) /\ ~ForceExit(i)
        /\ \A s \in Services : ~Outage(s)
    <2>1. ~Fault
      BY DEF Fault
    <2>2. \A i \in Instances : ~Sigterm(i)
      BY DEF Sigterm
    <2>3. \A i \in Instances : ~ListenFails(i) /\ ~ForceExit(i)
      BY <2>1 DEF ListenFails, ForceExit
    <2>4. \A s \in Services : ~Outage(s)
      BY <2>1 DEF Outage
    <2>5. faults = 0 /\ signals = 0
      <3>1. ASSUME NEW i \in Instances, Main(i) \/ ApplyFails(i) \/ Listen(i) \/ Probe(i)
            PROVE  faults = 0 /\ signals = 0
        <4>1. CASE Main(i)
          BY <4>1 DEF Main, Start, ConnectDatabase, ApplyFile, Migrated, ConnectRedis, Notify,
                      ServerError, Drained
        <4>2. CASE ApplyFails(i) \/ Listen(i) \/ Probe(i)
          BY <4>2, <2>1 DEF ApplyFails, Listen, Probe
        <4> QED
          BY <3>1, <4>1, <4>2
      <3>2. ASSUME NEW r \in Requests, Handle(r) \/ \E i \in Instances : Arrive(r, i)
            PROVE  faults = 0 /\ signals = 0
        BY <3>2 DEF Handle, Refuse, Query, QueryReturns, QueryFails, Arrive
      <3>3. ASSUME NEW s \in Services, Restore(s)
            PROVE  faults = 0 /\ signals = 0
        BY <3>3 DEF Restore
      <3>4. CASE UNCHANGED vars
        BY <3>4 DEF vars
      <3> QED
        BY <2>2, <2>3, <2>4, <3>1, <3>2, <3>3, <3>4 DEF Next
    <2> QED
      BY <2>1, <2>2, <2>3, <2>4, <2>5
  <1>2. /\ up = Services /\ failed = {}
        /\ \A j \in Instances : phase[j] # "draining" /\ (j \in routed => Accepts(j))
    BY <1>1 DEF Quiet
  <1>3. ASSUME NEW i \in Instances, Main(i) \/ ApplyFails(i)
        PROVE  Calm
    <2>1. up' = up /\ routed' = routed
      BY <1>3
      DEF Main, Start, ConnectDatabase, ApplyFile, Migrated, ConnectRedis, Notify, ServerError,
          Drained, ApplyFails
    <2>2. ASSUME NEW how \in {"cut", "killed"}, Exit(i, how), ~Alive(i)
          PROVE  Calm
      <3>1. failed' = failed
        BY <2>2 DEF Exit, Hosted, InFlight
      <3>2. ASSUME NEW j \in Instances
            PROVE  phase'[j] # "draining" /\ (j \in routed' => Accepts(j)')
        BY <1>2, <2>1, <2>2, ExitTypes DEF Accepts, Alive
      <3> QED
        BY <1>2, <2>1, <3>1, <3>2
    <2>3. CASE Start(i) \/ ApplyFile(i) \/ Migrated(i) \/ Notify(i)
      <3>1. failed' = failed
        BY <2>3 DEF Start, ApplyFile, Migrated, Notify
      <3>2. ASSUME NEW j \in Instances
            PROVE  phase'[j] # "draining" /\ (Accepts(j) => Accepts(j)')
        BY <1>2, <2>3 DEF Start, ApplyFile, Migrated, Notify, Accepts
      <3> QED
        BY <1>2, <2>1, <3>1, <3>2
    <2>4. CASE ConnectDatabase(i) \/ ConnectRedis(i)
      <3>1. ~Alive(i)
        BY <2>4 DEF ConnectDatabase, ConnectRedis, Alive
      <3>2. ASSUME phase'[i] # "draining", phase' = [phase EXCEPT ![i] = phase'[i]],
                   listener' = listener, failed' = failed
            PROVE  Calm
        BY <1>2, <2>1, <3>1, <3>2 DEF Accepts, Alive
      <3> QED
        BY <2>2, <2>4, <3>1, <3>2 DEF ConnectDatabase, ConnectRedis
    <2>5. CASE ApplyFails(i)
      BY <2>2, <2>5 DEF ApplyFails, Alive
    <2>6. ~Drained(i) /\ ~ServerError(i)
      BY <1>1, <1>2 DEF Drained, ServerError, Clean
    <2> QED
      BY <1>3, <2>3, <2>4, <2>5, <2>6 DEF Main
  <1>4. ASSUME NEW i \in Instances, Probe(i)
        PROVE  Calm
    BY <1>2, <1>4 DEF Probe, Answers, Ready, Live, Accepts
  <1>9. ASSUME NEW i \in Instances, Listen(i)
        PROVE  Calm
    <2>1. \A j \in Instances : Accepts(j) => Accepts(j)'
      BY <1>9 DEF Listen, Accepts
    <2> QED
      BY <1>2, <1>9, <2>1 DEF Listen
  <1>5. ASSUME NEW r \in Requests, NEW i \in Instances, Arrive(r, i)
        PROVE  Calm
    BY <1>2, <1>5 DEF Arrive, Accepts
  <1>6. ASSUME NEW r \in Requests, Handle(r)
        PROVE  Calm
    <2>1. CASE Refuse(r) \/ Query(r) \/ QueryReturns(r)
      BY <1>2, <2>1 DEF Refuse, Query, QueryReturns, Accepts
    <2>2. ~QueryFails(r)
      <3>1. Backend(r) \in up
        BY <1>2 DEF Backend, Services
      <3>2. step[r] # "none" => phase[at[r]] # "draining"
        BY <1>2 DEF Placed
      <3> QED
        BY <3>1, <3>2 DEF QueryFails
    <2> QED
      BY <1>6, <2>1, <2>2 DEF Handle
  <1>7. ASSUME NEW s \in Services, Restore(s)
        PROVE  Calm
    BY <1>2, <1>7 DEF Restore
  <1>8. CASE UNCHANGED vars
    BY <1>2, <1>8 DEF vars, Accepts
  <1> QED
    BY <1>1, <1>3, <1>4, <1>5, <1>6, <1>7, <1>8, <1>9 DEF Next

(* The invariant of every behaviour. *)
THEOREM Invariance == Spec => []Inv
  <1>1. Init => Inv
    BY LifecycleAssumptions
    DEF Init, Inv, TypeOK, Services, AppliedInOrder, Progress, Placed, Hosted, Clean,
        ExitsAreClean, Quiet, Accepts
  <1>2. Inv /\ [Next]_vars => Inv'
    BY TypeStep, SchemaStep, HostStep, CleanStep, QuietStep DEF Inv
  <1> QED
    BY <1>1, <1>2, PTL DEF Spec

(* Every variable stays within its type: the phases, the files, the view.   *)
THEOREM TypeCorrect == Spec => []TypeOK
  <1>1. Inv => TypeOK
    BY DEF Inv
  <1> QED
    BY <1>1, Invariance, PTL

(* Migrate, run by any number of instances that race and fail, never leaves *)
(* a gap in the schema.                                                     *)
THEOREM MigrationsInOrder == Spec => []AppliedInOrder
  <1>1. Inv => AppliedInOrder
    BY DEF Inv
  <1> QED
    BY <1>1, Invariance, PTL

(* main listens after Migrate has returned, so a request finds the schema.  *)
THEOREM SchemaBeforeService == Spec => []ServesOnSchema
  <1>1. Inv => ServesOnSchema
    BY DEF Inv, TypeOK, Progress, ServesOnSchema, Alive
  <1> QED
    BY <1>1, Invariance, PTL

(* While nothing has failed, no process ends under a request but by a       *)
(* SIGTERM before signal.Notify.                                            *)
THEOREM NobodyIsCut == Spec => []ExitsAreClean
  <1>1. Inv => ExitsAreClean
    BY DEF Inv, Clean
  <1> QED
    BY <1>1, Invariance, PTL

(* Without a fault or a signal no request fails, while any number of        *)
(* instances start and race.                                                *)
THEOREM QuietFleetServes == Spec => []QuietServes
  <1>1. Inv => QuietServes
    BY DEF Inv, Quiet, QuietServes
  <1> QED
    BY <1>1, Invariance, PTL
=============================================================================
