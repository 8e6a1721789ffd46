# Verification of the DYD admissions API

TLA+ specifications of the Go program in `src/`, the TLC instances that check
them, and theorems about them that TLAPS proves. Paths below are relative to
`src/`, and line numbers are those of the commit this development describes.

1. [The system](#1-the-system)
2. [Inventory](#2-inventory)
3. [The modules and the code](#3-the-modules-and-the-code)
4. [The runs](#4-the-runs)
5. [Fairness](#5-fairness)
6. [What is proved](#6-what-is-proved)
7. [Where the code and its documents differ](#7-where-the-code-and-its-documents-differ)
8. [What is not modelled, and why](#8-what-is-not-modelled-and-why)
9. [Plan](#9-plan)
10. [Working with it](#10-working-with-it)

## 1. The system

The repository is one program, `cmd/api`, run as any number of identical
instances behind a reverse proxy (Caddy, or a platform's balancer). Applicants
file an admission application, look up their admit card by phone and date of
birth, and anybody may verify the code printed on a card; visitors may write a
contact message or subscribe to a newsletter.

    client -> balancer -> instance -> middleware (recover, request id, access log,
                                      headers, CORS, rate limiters)
                                   -> handler -> bot check (Turnstile)
                                              -> validation
                                              -> repository -> pools -> primary / replica
                                   limiters  <-> Redis, or the instance's memory

An instance keeps no application state. What lasts is in PostgreSQL (a primary
and optionally a read replica, which serves admit-card lookups and code scans);
the limiter's counters are in Redis when `REDIS_URL` is set and in the memory of
each instance otherwise. So everything concurrent happens between database calls,
between Storage calls, and around the start and the end of a process, and these
are the steps of the modules. What an instance does keep is its configuration,
read once: two instances may run on different keys.

## 2. Inventory

| Component | State | Operations | Hard behaviour | What makes it correct |
|---|---|---|---|---|
| applications, cards, codes (`internal/repository`, `internal/handlers`) | table `applications`, its replica | CreateApplication, LookupAdmitCard, VerifyDocument | racing INSERTs, lost answers, a crash between the INSERT and the UPDATE that seeds the code, a backfill decided on a stale read, replica lag | nothing acknowledged is lost, one row per phone key, a card is the visitor's own, a shown code resolves to nobody else, missing codes are repaired |
| identity rules (`internal/validate`, `internal/crypto`) | none | bdphone, datestr, normalizeDate, BlindIndex.Hash | several writings of one phone and one day | all accepted writings of one thing have one key, different things have different keys |
| contact and newsletter | `contact_messages`, `newsletter_subscribers` | CreateContact, Subscribe | retries after a lost answer, racing repeats | an acknowledged message is stored, repeats of an address are absorbed |
| rate limiting (`internal/middleware`, `internal/redisstore`) | a counter per limiter and client | the fixed window of Fiber over Get and Set | read-count-write, Redis failing, restarts, the edge of a window, several instances | budgets hold, nobody is refused unearned or for ever |
| process lifecycle and probes (`cmd/api`, `internal/handlers/health.go`) | phase of main, connections | connect, migrate, listen, signal, drain; /healthz, /readyz | outages at start, SIGTERM at any point, drain time-out, the balancer's stale view | nobody serves without the schema, the fleet recovers, only a fault or an early SIGTERM ends a process under a request |
| schema migrations (`internal/database/migrate.go`, `migrations/`) | the schema | Migrate | instances racing in one file, a start that ends half way | no gap in the schema, a repeat is harmless |
| connection pools (`internal/database/database.go`) | two pools, or one for both uses; who waits | Connect, Ping, Close, and every database call | more requests than connections, calls that hang, waiters whose context ends, a second call of one request, a wrapped DB_MAX_CONNS | no connection is lost, no circle of waiting, the probe is answered, a drain ends |
| configuration (`internal/config`) | the settings, one copy per instance | Load, decodeKey, validate | lost, placeholder and garbled values, edits between two starts, a rotated key | production refuses to start insecure; rows stay readable; stored codes stay |
| bot check (`internal/turnstile`) | none here; tokens at Cloudflare | Verify | a cancelled or failing call, no secret | fails closed |
| middleware stack | none | recover, ids, headers, CORS, log | a panic in a handler | the process survives |
| geography, logger | none | pure | - | - |

The components interact through calls only: `main` wires them once
(`cmd/api/main.go:85-112`), handlers call the repository with the request's
context (`c.Context()`), the limiters call the Storage, the readiness probe pings
the primary and Redis. There are no callbacks and no shared variables between
requests, apart from the limiter's mutex and counters.

## 3. The modules and the code

| Module | Models |
|---|---|
| `Identity` | how phones, dates and e-mail addresses are recognised and turned into blind indexes |
| `PhoneRegister` | abstract: each phone key enters a register at most once, and what a client is told follows from it |
| `Admissions` (EXTENDS `Identity`) | the application, card and code paths over primary and replica; implements `PhoneRegister` |
| `Outreach` (EXTENDS `Identity`) | contact messages and newsletter |
| `FixedWindow` | abstract: a limiter that reads, counts and judges in one step |
| `RateLimiter` | the limiters, over Redis or memory; with one mutex for each Storage they implement `FixedWindow` |
| `ConnPool` | the pools of one instance and the requests that share them |
| `Settings` | what `config.Load` makes of an environment |
| `Vault` (EXTENDS `Settings`) | instances that hold keys, and the rows and codes made with them |
| `Lifecycle` | main, Migrate, probes, drain, with the orchestrator, the balancer and the backing services |
| `MC*` | values of the constants for TLC |
| `*Proofs`, `AdmissionsRefinement` | theorems |

Operators whose comment calls them mutants are bugs the code might have had.
No action uses them. Each of them, put in the place of the definition it follows,
makes TLC refute the property PROJECT.json pairs it with; that is how we know the
properties can fail.

### Identity

A text is reduced to the choices of its writer: a phone is a subscriber number
behind a prefix, perhaps split by blanks or dashes; a date is a day in a layout;
an address is a mailbox, perhaps with capitals, which `normalize`
(`internal/crypto/crypto.go:112`) lowers, or with the characters that it drops. HMAC-SHA256 under one key is taken to be
injective, so a blind index *is* the normalised text. What matters is kept:
`normalize` drops `+` but not the dialling prefix, `normalizeDate` maps each
accepted layout to one, and the normalisation meant for phones is applied to
e-mail addresses as well.

### Admissions

There are no instances in it, since they have no state of their own; there are
slots, each serving one request at a time. An action is one database call, or the
work between two calls.

| Variable | Code |
|---|---|
| `primary`, `replica` | table `applications` on `db.Primary` and `db.Replica`: phone, date of birth, `verify_code` (`NoCode` is the empty string) |
| `wal` | commits the replica has not replayed; the replica replays in order |
| `pc`, `form`, `hand`, `card`, `reply` | of one request: the call it makes next, its body, the id it holds, the code it shows or asks about, its answer |
| `faults` | history: failed calls and killed requests |

| Action | Code |
|---|---|
| `Arrive`, `ArriveScan` | BodyParser; the bounds of VerifyDocument on the code |
| `BotCheckFails`, `Screen` | Turnstile, then the validator, in the order of the handlers |
| `Insert`, `InsertDuplicate`, `InsertFails` | the INSERT of CreateApplication: stored, refused by `ux_applications_phone_bidx`, or failed; a failed one may have committed |
| `Seed`, `SeedFails` | the UPDATE that sets `verify_code`, whose error is swallowed |
| `ReadCard`, `Backfill`, `BackfillFails` | FindAdmitCard: the SELECT on the replica, then the conditional UPDATE on the primary, whose result is not looked at |
| `ReadScan`, `ReadFails` | FindByVerifyCode; a failed SELECT |
| `Respond`, `Kill`, `Reuse` | the answer, the death of the instance, another request in the slot |
| `Replicate` | external: PostgreSQL's streaming replication |

### Outreach

Per message the number of stored copies, per address whether it is stored, and
one write per request. `delivered` is history: how many senders of a message have
had a 201. A message is a model value, `INSERT ... ON CONFLICT DO NOTHING` is
`AddSubscriber`. `WriteFails` covers both a call that failed and one whose commit
was not heard of.

### RateLimiter

It follows one client address. A cell is a limiter of a Storage (of Redis, or of
one instance). A request goes through the chain of its route
(`internal/server/server.go:69-99`): every limiter locks its process's mutex,
reads the item, counts (`Get`), writes it back and judges (`Set`). Time is
in ticks, and an item carries what is left of its window and of its life instead of
two instants. `redisstore.Get` returns an error that Fiber drops, so a failed
call counts on an empty item (`GetFails`); a failed write leaves the old one
(`SetFails`). `Crash` ends an instance, its requests and its memory; `Evict` is
`allkeys-lru` of `docker-compose.yml:36`. `connected` are the instances that were
started with `REDIS_URL`; a run begins with every choice of them. `recent`, `open` and `spent` are
history: what passed in the last n ticks for each n up to a window, and in the client's
current window.

Fiber's limiter (v2.52.5) and the expiry of keys are external and modelled from how
`middleware.RateLimiter` configures them.

### Lifecycle

| Variable | Code |
|---|---|
| `phase` | where `main` is: connecting (39-51), migrating (57-64), at Redis (67-75), past the start of the listener but without a signal handler (116-123), in its select (126-131), draining |
| `listener` | the goroutine of line 116: it has not opened the port yet, accepts, or has ended with an error |
| `next`, `applied`, `raced` | the file Migrate is at; the files the primary has; instances whose file another has just committed, which PostgreSQL may answer with a duplicate key |
| `up` | external: which of primary, replica, Redis answer |
| `routed` | external: the instances the balancer sends to, by its last probe |
| `at`, `step` | requests in flight and what they do |
| `failed` | history: `refused` (no listener), `error` (a 500 or 403 from a failed or cancelled call), `killed` (a SIGTERM before `signal.Notify`), `cut` (the process ended in any other way) |

`Exit` ends a process, whatever is in flight in it, and says what that cost: it does not
wait, `Drained` does. `Listen` and `Notify` come in either order, and a listener that fails
(`ListenFails`) is seen only by the select (`ServerError`). `Refuse` is the 4xx of a handler
that makes no call. `Sigterm` drains a serving instance and kills any other, because `signal.Notify`
comes last. While draining, the contexts of the requests are cancelled
(`QueryFails`), which is what fasthttp 1.51 does as its Shutdown begins; a call may
still return first (`QueryReturns`). `ForceExit` is the end of
`SHUTDOWN_TIMEOUT_SECONDS`. A migration file is all or nothing: it is sent in one
simple-protocol message, which PostgreSQL runs as one transaction.

### ConnPool

| Variable | Code |
|---|---|
| `phase`, `reads` | the process; whether `DB.Replica` is a pool of its own or the primary's (`database.go:45-49`) |
| `free`, `queue` | external: of `pgxpool`, the connections nobody holds, and its waiters in order |
| `kind`, `calls`, `step` | which handler a request is in, the pools of the calls it has left, and whether it asks, waits or holds |
| `hung` | calls that do not come back |

A handler holds a connection during a call only: `QueryRow(...).Scan` and `Exec` give
it back, whatever their outcome (`Return`, `Fail`), and FindAdmitCard asks again for
its backfill, on the primary. `Acquire`, `Release`, `Abandon` are the contract of
`pgxpool` with its first-come queue: a waiter whose context ends leaves the queue
from the middle, and a call that is abandoned takes its connection with it.
`Timeout` is the two seconds of /readyz (`health.go:42`), the only deadline there is;
`Cancel` is the shutdown. `Close` waits for all the connections, as `pgxpool` does.
`Int32` and `PoolSize` are the conversion of DB_MAX_CONNS (`config.go:74`) and the
test that follows it (`database.go:60`).

### Settings and Vault

In `Settings` a variable of the environment holds one of the things its writer may have
put there: nothing, the placeholder of `.env.example`, a text that is not base64,
one that is not 32 bytes, or a key. `GetEnv`, `GetBool`, `SplitCSV`, `DecodeKey`,
`Config`, `Valid` and `Loads` are the functions of `config.go` on them.

| Variable of `Vault` | Code |
|---|---|
| `env`, `edits` | external: what operators have put in the environment of the next start |
| `conf` | the `Config` that each running instance loaded |
| `rows` | `applications`: under which key a row is sealed, indexed, and its code made |
| `writes` | UPDATEs of `verify_code` sent and not executed yet; they may outlive their instance |
| `shown` | codes that admit cards carried |
| `seeding` | submissions between the answer to their INSERT and the sending of their seed (`repository.go:112-117`) |
| `unwritten`, `mixed`, `unguarded`, `waived` | history: lost UPDATEs; two verification keys at work at once; a start outside production without a data key; an environment that switched the bot check off |

`Admissions` has every call and one key; `Vault` has the keys and, of the calls, only
those that could mix them: `Submit` is the INSERT, `Seed` sends the UPDATE that follows
it, unless the answer was lost or the instance has died in between; `Lookup`
shows the row's code or sends the backfill, `Land` and `Lose` are the ends of an
UPDATE. Only the seed overwrites (`repository.go:118`, against `:165`).

## 4. The runs

| Run | Instance | Shows |
|---|---|---|
| `core` | two submissions and one lookup racing, five bodies, two ids with one code, one fault, no replica | acknowledged applications are stored, one row per phone key, one row per code although the two collide, rows only ever gain their code, an acknowledged applicant is found by number and birthday in every writing that dials alike, and the register is implemented |
| `replica` | a submission, a lookup and a scan with good and bad bodies over a lagging replica, one fault, fairness | cards are the visitor's own, a code resolves to whom it was shown to, an acknowledged applicant is found once the replica has replayed the row; without a fault every shown code is stored, and a scan finds it once the replica has replayed its row; backfills stop and every request ends |
| `two_writings` | two submissions of one number as 01... and +8801... | violation: the number enters twice |
| `lagging_scan` | submission, lookup and scan, a replica, no fault | violation: a code just shown is declared invalid |
| `outreach` | two contact and two newsletter slots, two messages, two mailboxes with and without capitals, one fault | copies of a message are accounted for from both sides; a 201 to a subscriber means one stored row however repeats race |
| `stripped_address` | two newsletter slots, no fault | violation: "Subscribed." to an address that is not stored |
| `limiter` | one instance, with Redis or without, two racing requests that never pause, routes behind one and two limiters, one fault | a window passes its budget at most, any stretch of a window's length twice that and once more per fault, also when a crash loses the counters; a refusal is always earned, the client is let through again and again, and Get and Set are one step of `FixedWindow` |
| `fleet` | two instances on one Redis, budget 1 | violation: two requests pass in one tick |
| `lifecycle` | two instances, one request, two files, two faults, two signals, either probe | no gap in the schema, no service without it, without a fault only an early SIGTERM ends a process under a request, a quiet fleet serves, the fleet comes up |
| `drain` | one SIGTERM, every service up | violation: an accepted request is answered with an error |
| `pool` | three requests of every kind on pools of two connections, with a replica or without, two hung calls, drains and kills | no connection is lost, nobody waits in a circle, the probe is answered while everything hangs, a drain closes the pools |
| `rotation` | two instances, one applicant, two rows, three edits of the environment, two UPDATEs under way | nothing insecure starts in production, garbled keys never split the data, stored codes stay and printed codes scan under one key, and under two a code is overwritten once at most, by its own seed |

### The bounds, and why they are enough

* **Slots.** The properties of Admissions and Outreach relate two requests at most,
  and every race in the code is over one row or one key; two slots that race, and
  can be reused for ever, show each of them. A third party is there wherever
  one can interfere: `core` has a lookup beside two submissions, `replica` a
  lookup and a scan beside a submission. `lifecycle` has one request, because requests
  share nothing there but `failed`, to which each only adds; the theorems are for any
  number.
* **Ids.** Two rows: with one phone key each, and for the code index, two is the
  least at which rows could be confused. In `core` both ids have one code, the
  collision of the 40 bits; in `replica` each has its own. When the ids are used up an INSERT waits,
  which no property can tell from a slow one.
* **Faults.** Each run with `MaxFaults = 1` puts the one fault at every call;
  properties that count faults are stated with `faults` in them, and the theorems
  hold for every bound. `lifecycle` has two, so that an outage can meet a retry.
* **Bodies.** `MCForms` has two writings of one key, one of the same number with another
  prefix, two layouts of a day and another day; `MCOddForms` a body refused at each stage.
* **The window** is two ticks, the least with an inside and an edge; the budgets, one
  and two, make the general and the narrow limiter differ as in the configuration.
  Hits are counted to one over the budget: the code counts on, but only ever
  compares with it. The client uses a route behind the general limiter and one behind
  two; requests for /healthz and /readyz (`"probe"`) meet no limiter, and are left to
  the theorems, which hold for every `Traffic`.
* **MaxSends** bounds the copies in `contact_messages`: three sends are two visitors
  and one retry.
* **Files.** Two of the three migrations: a predecessor and a successor.
* **Connections.** A pool of two, so that a waiter can have another in front of it
  and requests can be more than connections; it comes from a setting of 8 in
  integers of eight values (`WrappedSetting`, `Half`), so that the conversion wraps
  to zero and the pools fall back on their default of two; without the test of
  `database.go:60` they would have none, and `Answered` would fail. `MaxHangs` is two, as many as a pool has.
* **Edits.** Three: break, start, repair, or rotate and roll back. They start from
  the production environment of `.env.example` and contain every kind of slip
  (`MCEdits`). Two UPDATEs under way (`MaxWrites`) are a seed and a backfill of one row.

Symmetry is used only in runs without liveness, and only over slots, instances, ids,
messages and mailboxes that no definition tells apart.

Clients may always come again, so no run has a state without successors, and deadlock
is checked in all of them but `rotation`: there the last edit may leave an
environment that Load refuses, and then nothing runs any more, as it should.

## 5. Fairness

* `Admissions!FairSpec`: weak fairness of `Serve(r)` for each slot and of
  `Replicate`. A handler is a goroutine that the Go scheduler runs, each database
  call is assumed to return, and streaming replication goes on. The code gives no bound
  for the calls: a handler's context has no deadline before a shutdown ends it. So what
  `ServiceSettles` shows, it shows for a database that answers or fails;
  `ConnPool` drops the assumption and says what is left without it. Nothing obliges a
  client to send or an instance to fail. `Serve` includes the failing variants, but
  their number is bounded by `MaxFaults`, so fairness is not used to avoid them:
  it says that failures end.
  `ServiceSettles` (backfills stop, every request ends) is checked under it in `replica`.
* `ConnPool!FairSpec`: a request that can go on does, a call that does not hang
  comes back, the probe's deadline passes, a drain cancels and then closes. Nothing
  obliges a hung call to come back, a request to fail, or anybody to stop; `Answered`
  therefore excepts a request that hangs, and a pool all of whose connections do.
* `RateLimiter!LiveSpec`: time passes, the server serves, and for `AdmittedAgain`
  only, the client keeps coming; that is the premise of the property.
* `Lifecycle!FairSpec`: processes run, open their port and are restarted (`restart: unless-stopped`),
  requests are worked on, probes repeat (`deploy/Caddyfile:31`) and outages end.
  There is no fairness on `ApplyFails`: when the primary is away during a migration
  the instance may wait until the primary is back, and nothing else has to fail.

## 6. What is proved

All theorems are for every value of the constants that satisfies the ASSUMEs of the
module: any number of slots, instances, ids, forms, files, ticks and faults.
Most of them follow from one inductive invariant per module, which is needed since
hardly any of the properties is inductive by itself.

**Admissions** (`AdmissionsProofs`). `Inv == TypeOK /\ Flow /\ Tables /\ Hands`.
`Flow` says which kind of request can be at which call and that nothing is answered
before its time. `Tables` says that a row carries no code or that of its id, that
the replica and every logged commit are a version of the row on the primary (the
row itself, or the row before its code), and that phone keys are unique. `Hands`
says what a request knows: a submission at `seed` or told 201 holds its own row, a
lookup at `backfill` or told 200 holds a row with its key and that row's code, a
scan told "valid" a row with its code. A stale read is harmless because rows only
gain a code: that is the invariant's `Version`. From it:
`AcknowledgedIsStored`, `PhonesAreUnique`, `ConflictsAreReal`, `CardsAreOwn`,
`ScansAreTruthful`, `RowsNeverChange`, `TypeCorrect`; `StoredCodesDiffer`, which needs
no assumption on DocCode; `ScansResolve` and `CleanCardsAreStored` if DocCode gives
different ids different codes.

*How far behind the replica may be.* `Tables` does not exclude a replica that never
gets a commit. `Synced` does: of each row the replica has the primary's version, or the
last commit of the row in the log is that version (`ReplicaFollows`; its steps are
`SyncedWrite`, a commit goes to the end of the log, and `SyncedReplay`, a replayed
commit was the first). With it, "not found" is right up to the lag, with a replica or
without: `ApplicationsAreFound` (a lookup by the number and the birthday of an applicant
who was told 201 misses only if one of the two writings has the country code and the other does not, the
divergence of section 7, or while `Lagging`, that is, while the log still has a commit of
the row; `KeysAgree` says that all other writings have one key) and
`GenuineCodesAreFound` (a shown code is declared invalid only after a fault or while
`Lagging`). The run `lagging_scan` shows that the exception is needed.

*What the validator keeps out.* `Screened`: whoever is past it has an accepted phone and
date, and so has every row (`OnlyScreenedIsStored`). Only then are keys as good as what
they stand for (`KeysTellApart`, `StoredPrefixes`): an accepted number reaches the
index in two writings, hence `TwoWritingsAtMost`, the bound on what `two_writings` shows, and a key of phone and day tells
visitors apart, hence `CardsAreOfVisitors`: who is shown a card gave the number and the
birthday of its application, not just something with the same hash.

**The refinement** (`AdmissionsRefinement`, `PhoneRegister`). The register is
mapped to the keys of the rows on the primary, a client's question to the key of a
parsed body, and its outcome to what is settled: the commit of the INSERT is
`Accept`, though the answer comes two calls later; a lost answer is a `Fail` that
took the key; everything about lookups, codes and the replica is a stutter.
`Refinement` proves that initial states map to initial states and each step to a
step or a stutter; `RegisterHolds` proves the register's promise, and `AcceptedOnce`
carries it over: no two applicants are told 201 for one key.

**Outreach** (`OutreachProofs`). The inductive invariant has the types, the flow and
the address properties; `TypeCorrect`, `AddressKeysAreUnique`, `SignupsAreStoredOnce`,
and `SubscribersRemain` follow. The two counting theorems, `AcknowledgedMessagesKept` and
`CopiesAreAccounted`, rest on lemmas on how a step changes the *cardinality* of
the set of requests that are about to acknowledge a message, and need the set of
slots to be finite.

**RateLimiter** (`RateLimiterProofs`). `BudgetKept` proves
`Alone /\ Spec => []WindowBudget`, where `Alone` says that at most one
instance uses Redis (the others have their own memory); `fleet` shows that this premise cannot be dropped. The
invariant: the mutex lets one request hold a cell (`OneHand`); what has passed in
the client's window is at most the hits in the held item, or in the stored item when
none is held; that item's window is the client's; and it does not die
before its window (`CountedHand`, `CountedStore`).
`SlidingKept` and `RefusalsAreEarned` read an item as a claim about the history: it
stands for `Cost` requests let pass since `Begin`, the tick at which its window
opened. `AtLeast` (all it stands for was let pass) holds of every item, in hand or
stored, whoever shares the counter, and a refused request finds an item that stands for
the whole budget. `AtMost(k)` (beyond it, one budget before its window and k more)
needs `Alone`: k is one budget for each fault so far (`Lost`: a lost item stands for
at most one), and 1 for a stored item while another is in hand. The lemmas
`Counted`, `Ticked`, `Lost` and `Beside` say what the four things that happen to an
item do to both claims; `TakeEffect`, `TickEffect` and `OtherEffect` that nothing
else happens. `recent` counts whole stretches and not single ticks so that no sum
over a function is needed, whose laws would need induction over data.

`WindowsAreFixed` proves that under `Alone` the limiters implement `FixedWindow`, in
which a counter is read, raised and judged at once. The mapping reads a counter off
the item that a request has in hand, or else off the stored one (`Current`): `Get` is
where the window counts and judges (`CountStep`), `Set` changes nothing that can be seen
(`OtherCounters`, `OtherVerdicts`), `Tick` is a tick (`TickStep`), and a failed write,
a crash or an eviction is a `Lapse`, which may lose count and requests and never leaves
a window more ticks than it had. That last part needs an invariant of its own, `Behind`:
the stored item never has more left of its window than the one in hand. So for a
fleet under `Alone` the whole read-count-write protocol may be forgotten;
what `FixedWindow` does not say, the windows that meet at an edge, is in `SlidingKept`.

**Lifecycle** (`LifecycleProofs`). The invariant adds to the properties `Progress` (an
instance at file n finds the n - 1 before it, and past Migrate finds all),
`Placed` (a request is at an instance exactly while it has a step to take) and
`Quiet` (without a fault or a signal all services are up and whatever is routed to
accepts). `MoveStep` lists the moves of `main`, so that the schema's lemma need not
look at every action. From it: `MigrationsInOrder`, `SchemaBeforeService`,
`NobodyIsCut`, `QuietFleetServes`.

**ConnPool** (`ConnPoolProofs`), for any DB_MAX_CONNS, any number of requests and of
hung calls. `PoolNeverEmpty`: no setting wraps to a pool without connections.
`Inv == TypeOK /\ Waits /\ Routed /\ Quiet /\ Rest /\ Counts`: who is in a queue waits
for that pool and is in it once, who waits is in its queue, calls go to open
pools, nothing is left of a request that has ended, and
`NothingLeaks` and, as a part of the invariant only since it is pgxpool's promise and
not this program's, `NobodyWaitsInVain`. The queue part is needed because a connection
that comes back is handed to the head of the queue: only if the head was really
waiting, and for this pool, does the number of holders stay right. `WithoutFacts`
says what leaving the middle of a queue does. From it: `TypeCorrect`,
`NoConnectionLost`.

**Settings and Vault** (`VaultProofs`). `LoadFailsFast` and `AlwaysSecured` need no
invariant of the steps beyond the fact that each running configuration came from
Load, and `WaivedKnown`, that an environment with the check off has been noticed. `CodesInv` has three
parts that carry `CodesStay` and `PrintedCodesScan`: `OneKey`, the keys at work are all
one unless `mixed`, and `Pending` and `Promised`, an UPDATE under way or about to be sent
carries the code its row has or will have. `Sowing`, that a row has one seed at most,
waiting or under way, gives `OverwrittenOnce`, which needs no condition on the keys. `SlipsAreHarmless` is about
`RowsOpen` and assumes `OnlySlips`: of the two data keys, an edit writes a key that
was there at first, or no key; rotating them is a migration the program does not
have (`SECURITY.md`, `render.yaml:56-57`).

**Only model-checked:** the liveness properties `ServiceSettles`,
`AdmittedAgain`, `FleetComesUp`, `Answered`, `ProbeAnswered` and `PoolsClose`, since fairness and ENABLED are beyond TLAPS.

**Taken as given:** HMAC-SHA256 is injective on what is hashed; PostgreSQL's unique
indexes and single statements are atomic; the replica replays commits in order;
pgxpool hands connections over in the order of the waiters.

Some theorems state properties that no run checks, since a run's property implies
them or nearly restates the query (`ConflictsAreReal` and `AcceptedOnce`, implied by
`ImplementsRegister`; `AddressKeysAreUnique`, implied by `SubscribedOnce` for keys that
were acknowledged; `ScansAreTruthful`; `SubscribersRemain`), or since they say what the proofs of the
others found necessary: `ReplicaFollows`, `OnlyScreenedIsStored`, `TwoWritingsAtMost`,
`CardsAreOfVisitors`.

## 7. Where the code and its documents differ

Five disagreements are shown by a run:

* **One phone, two keys** (`two_writings`, `internal/crypto/crypto.go:116`). The rule
  accepts 01..., 8801... and +8801..., and the blind index keeps the prefix, so the
  "one application per phone number" of `migrations/0001_init.sql:48` holds per
  writing. A lookup in the other writing answers 404. There can be two applications
  of a number, never three (`TwoWritingsAtMost`).
* **A genuine code declared invalid** (`lagging_scan`, `internal/repository/repository.go:222`).
  Scans read the replica, which may lag behind the code that was just shown; that
  and a fault are the only ways (`GenuineCodesAreFound`).
* **A subscriber dropped** (`stripped_address`, `internal/crypto/crypto.go:116`). `a+b@x` and
  `ab@x` have one key; the second is told "Subscribed." and is not stored.
* **Budgets per fleet** (`fleet`, `internal/middleware/middleware.go:123`). The mutex is
  per process and the Storage has no increment, so two instances overwrite each
  other's counts (`SECURITY.md:29`).
* **The drain cancels** (`drain`, `internal/server/server.go:115`). Requests in flight
  have their context cancelled as the shutdown begins (`README.md:16`).

Observations that have no run of their own:

* The pattern of `bdphone` is preceded by a comment that lists 00880 among the
  accepted prefixes (`internal/validate/validate.go:18`); the pattern refuses it.
  `Identity!BdPhone` follows the pattern.
* DocCode keeps 40 bits. If two ids share a code, the unique index refuses it to
  the second row: its UPDATE fails silently, each of its lookups shows the
  code again, and a scan of it resolves to the first row. The table itself stays
  sound (`CodesAreUnique`, checked with colliding ids and proved); `ScansResolve` and
  `CleanCardsAreStored` assume that codes differ.
* With a fault, a backfill that failed leaves a card with a code no row
  carries, until the next lookup; `CleanRunStoresCards` says `faults = 0`.
* /readyz pings the primary and Redis, not the replica (`database.go:86`), so an
  instance is "ready" while all its lookups fail.
* `internal/crypto/crypto.go:150` promises that the same id always yields the same code and a
  printed QR never goes stale, and `SECURITY.md:51` asks for keys to be rotated. The
  seed's UPDATE has no `AND verify_code = ''` (`repository.go:118`). While two
  verification keys are at work, in a rolling restart, or when an UPDATE of a
  stopped instance lands late, it can replace a code that another instance has
  backfilled and shown. `StoredCodesStay` and `CardsScan` say `~mixed`
  for that reason; without it TLC finds the replacement in nine states. It is the only
  way a stored code changes, and it happens once to a row at most
  (`OnlyTheSeedOverwrites`, with any keys at work). Stopping
  all instances before the new key starts does not suffice if a statement is still
  under way. Likewise, a backfill that was lost before a rotation leaves a card whose
  code will never be stored.
* `SECURITY.md:44` keeps the derived keys to development; any APP_ENV other than
  `production`, the `staging` of `.env.example:8` included, accepts missing keys and
  placeholders. `RowsOpen` says `~unguarded` for that reason. `SECURITY.md:26` has the
  bot check off in development only; `Config.validate` lets production start with
  TURNSTILE_ENABLED=false. What holds, and what `StartsSecured` says, is that it takes that
  very setting: a production instance without the check means that somebody wrote so,
  and no garbled text has that effect.
* `.env.example:43` says that an empty secret disables the bot check. In production it is
  refused at the start, and elsewhere every form is answered 403.
* The list of layers at `internal/middleware/middleware.go:3` has a time-out that does not
  exist: a handler's database call may hang until the shutdown, and once as many hang
  as a pool has connections, nobody behind them is answered (the exception in
  `Answered`).

## 8. What is not modelled, and why

* **Encryption** of the personal fields: a pure function, and an error of it ends
  in the same 500 as a failed call.
* **Field rules** other than phone and date, and the division/district table: one bit
  of a body (`rest`), as nothing depends on which rule refused.
* **Batch, status, timestamps, wording, logs, headers, CORS, request ids:** they are
  output, and no later decision reads them.
* **The recovery of a panic:** the model's handlers have no panics; a panic would be
  a 500 like a failed call.
* **The clock** of the limiter: ticks advance for Redis, the limiter and the client
  together; clock skew between instances and the coarse clock of Fiber are left out.
* **The plain numbers and durations of the configuration**, except DB_MAX_CONNS: each is
  read with a default for what does not parse, and nothing is refused.
* **The Redis ping of /readyz** in `ConnPool`: it comes after the pool's ping under the same
  deadline (`health.go:56`) and holds no connection; `Lifecycle!Ready` has it.
* **A listener that opens after the drain has begun:** a SIGTERM between the start of the
  goroutine and its opening of the port is a drain of nothing; that the port might still open
  for the microseconds before `main` returns is left out.
* **Idle and lifetime limits of pgxpool:** a connection that is replaced while nobody
  holds it cannot be told from one that was kept.
* **The logger and the constants of the geography table:** output, and data.

## 9. Plan

Done, in this order, the most important behaviour first: Identity, PhoneRegister,
Admissions with its theorems and the refinement, Outreach, RateLimiter, Lifecycle,
ConnPool, Settings and Vault.

What could follow:

1. **A deployment**: Lifecycle's instances with the memory Storage of RateLimiter, to
   bound what a rolling restart gives away, and with the pools of ConnPool behind
   the query steps.
2. **Bot check**: tokens that Cloudflare accepts once, so that a retry after a lost
   answer meets 403 until the form is loaded again.
3. **Proofs**: that the waiters of a pool are served in the order in which they came,
   from `ConnPoolProofs!Waits`; that a budget per window follows from `FixedWindow`
   alone; an abstract lifecycle (an instance serves only what it can serve).

Larger instances are preferred to more runs: new questions should join
an existing run where the instance fits.

## 10. Working with it

    tlc -workers 2 -config core.cfg MCAdmissions.tla
    tlapm AdmissionsProofs.tla

`replica` and `limiter` are the longest runs, about three minutes each, then
`core` and `lifecycle` with one to two; `rotation` and `outreach` take about one minute,
the others seconds. `PROJECT.json` lists the components, runs, mutants,
hazards and theorems, and maps each definition to the lines it stands for.
