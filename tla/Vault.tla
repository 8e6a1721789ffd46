------------------------------- MODULE Vault --------------------------------
(***************************************************************************)
(* The keys of the rows.  Operators edit one environment; every instance   *)
(* reads it once, when it starts, and keeps its keys until it stops, so a  *)
(* deployment runs instances of two environments side by side.  A row is   *)
(* sealed and indexed under the keys of the instance that took it, and its *)
(* verification code is written by an UPDATE of its own: the seed that a   *)
(* submission sends after its INSERT, which overwrites, or the backfill of *)
(* a lookup, which does not.  Either may outlive the instance that sent    *)
(* it, and a seed that was not sent yet dies with its instance.            *)
(*                                                                         *)
(* HMAC under a key is taken to be injective: a code is the key it was     *)
(* made with, an index entry the key and the applicant.                    *)
(***************************************************************************)
EXTENDS Settings, Naturals

CONSTANTS
    Instances, Applicants,
    Ids,            \* ids of rows; a bound
    FirstEnv,       \* the environment of the first start
    Edits,          \* what operators may write, <<variable, text>>
    NoConf, NoRow, NoCode, Gone,
    MaxEdits,       \* bound
    MaxWrites       \* bound: UPDATEs under way

Codes == Keys \cup {DevKey}
Rows == [who : Applicants, pii : Codes, index : Codes, code : Codes \cup {NoCode}]

(* An UPDATE of verify_code: a backfill leaves a code that is there. *)
Writes == [by : Instances \cup {Gone}, id : Ids, code : Codes, backfill : BOOLEAN]

ASSUME VaultAssumptions ==
    /\ FirstEnv \in Environments
    /\ \A x \in Environments : \A e \in Edits : [x EXCEPT ![e[1]] = e[2]] \in Environments
    /\ NoConf \notin Configs /\ NoRow \notin Rows /\ NoCode \notin Codes /\ Gone \notin Instances
    /\ MaxEdits \in Nat /\ MaxWrites \in Nat

VARIABLES
    env, edits,     \* the environment, and how often it was edited
    conf,           \* the configuration that each running instance loaded
    rows,           \* the table
    seeding,        \* submissions whose seed is not sent yet, <<instance, id>>
    writes,         \* UPDATEs sent and not executed yet
    shown,          \* codes that admit cards carried, <<id, code>>
    unwritten,      \* history: ids an UPDATE of which was lost
    mixed,          \* history: two verification keys were at work at once
    unguarded,      \* history: an instance began outside production without a data key
    waived          \* history: somebody wrote that forms need no check

vars == <<env, edits, conf, rows, seeding, writes, shown, unwritten, mixed, unguarded, waived>>

Live == {i \in Instances : conf[i] # NoConf}
Taken == {d \in Ids : rows[d] # NoRow}

(* Verification keys at work. *)
AtWork == {conf[i].code : i \in Live} \cup {w.code : w \in writes}

TypeOK ==
    /\ env \in Environments /\ edits \in 0..MaxEdits
    /\ conf \in [Instances -> Configs \cup {NoConf}]
    /\ rows \in [Ids -> Rows \cup {NoRow}]
    /\ writes \subseteq Writes
    /\ shown \subseteq Ids \X Codes
    /\ seeding \subseteq Instances \X Taken
    /\ unwritten \subseteq Ids
    /\ mixed \in BOOLEAN /\ unguarded \in BOOLEAN /\ waived \in BOOLEAN

Init ==
    /\ env = FirstEnv /\ edits = 0
    /\ conf = [i \in Instances |-> NoConf]
    /\ rows = [d \in Ids |-> NoRow]
    /\ seeding = {} /\ writes = {} /\ shown = {} /\ unwritten = {}
    /\ mixed = FALSE /\ unguarded = FALSE /\ waived = (FirstEnv.turnstile = "false")
-----------------------------------------------------------------------------
Edit ==
    /\ edits < MaxEdits
    /\ \E e \in Edits : env' = [env EXCEPT ![e[1]] = e[2]]
    /\ edits' = edits + 1
    /\ waived' = (waived \/ env'.turnstile = "false")
    /\ UNCHANGED <<conf, rows, seeding, writes, shown, unwritten, mixed, unguarded>>

(* main: without a configuration there is no start. *)
Start(i) ==
    /\ conf[i] = NoConf
    /\ Loads(env)
    /\ conf' = [conf EXCEPT ![i] = Config(env)]
    /\ mixed' = (mixed \/ \E k \in AtWork : k # Config(env).code)
    /\ unguarded' =
          (unguarded \/ (env.app # "production" /\ (Missing(env.pii) \/ Missing(env.index))))
    /\ UNCHANGED <<env, edits, rows, seeding, writes, shown, unwritten, waived>>

(* The instance stops or is killed; what it has sent may still arrive, the  *)
(* seeds that it has not sent yet never will.                               *)
Stop(i) ==
    /\ i \in Live
    /\ conf' = [conf EXCEPT ![i] = NoConf]
    /\ seeding' = {s \in seeding : s[1] # i}
    /\ writes' = {IF w.by = i THEN [w EXCEPT !.by = Gone] ELSE w : w \in writes}
    /\ UNCHANGED <<env, edits, rows, shown, unwritten, mixed, unguarded, waived>>

(* The bot check can pass: with an empty secret Cloudflare refuses. *)
Checked(c) == c.turnstile => c.secret # ""

(* The blind index, as instance i computes it, leads from a to the row d. *)
Found(i, a, d) == d \in Taken /\ rows[d].who = a /\ rows[d].index = conf[i].index

(* Decrypt succeeds. *)
Opens(i, d) == rows[d].pii = conf[i].pii

(* The INSERT of CreateApplication: an unknown applicant gets a row.  If    *)
(* its answer is lost, nobody goes on to the seed.                          *)
Submit(i, a) ==
    /\ i \in Live /\ Checked(conf[i])
    /\ \A d \in Ids : ~Found(i, a, d)
    /\ \E d \in Ids \ Taken :
          /\ rows' = [rows EXCEPT ![d] =
                [who |-> a, pii |-> conf[i].pii, index |-> conf[i].index, code |-> NoCode]]
          /\ seeding' \in {seeding, seeding \cup {<<i, d>>}}
    /\ UNCHANGED <<env, edits, conf, writes, shown, unwritten, mixed, unguarded, waived>>

(* The answer gave the id: the code is made of it, and its UPDATE is sent.  *)
Seed(i, d) ==
    /\ <<i, d>> \in seeding
    /\ Cardinality(writes) < MaxWrites
    /\ writes' = writes \cup {[by |-> i, id |-> d, code |-> conf[i].code, backfill |-> FALSE]}
    /\ seeding' = seeding \ {<<i, d>>}
    /\ UNCHANGED <<env, edits, conf, rows, shown, unwritten, mixed, unguarded, waived>>

(* Mutant of Lookup: the card carries the code that the key of today gives. *)
LookupRecomputes(i, a, d) ==
    /\ i \in Live /\ Checked(conf[i]) /\ Found(i, a, d)
    /\ shown' = shown \cup {<<d, conf[i].code>>}
    /\ UNCHANGED <<env, edits, conf, rows, seeding, writes, unwritten, mixed, unguarded, waived>>

(* Mutant of Lookup: the code is brought up to date with the key of today.  *)
LookupRewrites(i, a, d) ==
    /\ i \in Live /\ Checked(conf[i]) /\ Found(i, a, d)
    /\ Cardinality(writes) < MaxWrites
    /\ writes' = writes \cup {[by |-> i, id |-> d, code |-> conf[i].code, backfill |-> FALSE]}
    /\ UNCHANGED <<env, edits, conf, rows, seeding, shown, unwritten, mixed, unguarded, waived>>

(* FindAdmitCard: the card carries the row's code; a row without one is     *)
(* given the code of today first, and the card waits for that.              *)
Lookup(i, a, d) ==
    /\ i \in Live /\ Checked(conf[i]) /\ Found(i, a, d)
    /\ \/ /\ rows[d].code # NoCode
          /\ shown' = shown \cup {<<d, rows[d].code>>}
          /\ UNCHANGED writes
       \/ /\ rows[d].code = NoCode
          /\ Cardinality(writes) < MaxWrites
          /\ writes' = writes \cup {[by |-> i, id |-> d, code |-> conf[i].code, backfill |-> TRUE]}
          /\ UNCHANGED shown
    /\ UNCHANGED <<env, edits, conf, rows, seeding, unwritten, mixed, unguarded, waived>>

(* The answer to w: a backfill goes on to show the card with its own code,  *)
(* whatever the UPDATE did.                                                 *)
Answer(w) ==
    /\ writes' = writes \ {w}
    /\ shown' = IF w.backfill /\ w.by # Gone THEN shown \cup {<<w.id, w.code>>} ELSE shown

(* Mutant of Land: the backfill has lost its condition. *)
LandOverwrites(w) ==
    /\ rows' = [rows EXCEPT ![w.id].code = w.code]
    /\ Answer(w)
    /\ UNCHANGED <<env, edits, conf, seeding, unwritten, mixed, unguarded, waived>>

(* The UPDATE is executed: the seed overwrites, AND verify_code = '' does not. *)
Land(w) ==
    /\ rows' = IF w.backfill /\ rows[w.id].code # NoCode THEN rows
               ELSE [rows EXCEPT ![w.id].code = w.code]
    /\ Answer(w)
    /\ UNCHANGED <<env, edits, conf, seeding, unwritten, mixed, unguarded, waived>>

(* The UPDATE fails, and nobody is told. *)
Lose(w) ==
    /\ unwritten' = unwritten \cup {w.id}
    /\ Answer(w)
    /\ UNCHANGED <<env, edits, conf, rows, seeding, mixed, unguarded, waived>>

Next ==
    \/ Edit
    \/ \E i \in Instances :
          \/ Start(i) \/ Stop(i)
          \/ \E a \in Applicants : Submit(i, a) \/ \E d \in Ids : Lookup(i, a, d)
          \/ \E d \in Ids : Seed(i, d)
    \/ \E w \in writes : Land(w) \/ Lose(w)

Spec == Init /\ [][Next]_vars
-----------------------------------------------------------------------------
(* Properties.                                                              *)

(* Whatever operators wrote and in which order, an instance in production   *)
(* runs on real keys, behind its origins, with a secret if it checks forms; *)
(* and it checks them unless somebody has written, literally, that it need  *)
(* not: a switch that is left out or garbled counts as on.                  *)
StartsSecured ==
    \A i \in Live : conf[i].prod => Secured(conf[i]) /\ (conf[i].turnstile \/ waived)

(* Keys lost, half-written or garbled on the way stop a start and never     *)
(* split the data: every instance finds and opens every row, as long as no  *)
(* instance began outside production without a data key.                    *)
RowsOpen ==
    ~unguarded => \A i \in Live : \A d \in Taken : Found(i, rows[d].who, d) /\ Opens(i, d)

(* A rotated verification key leaves the codes that are stored alone, also  *)
(* under statements of instances that have stopped, unless two keys were at *)
(* work at once.                                                            *)
StoredCodesStay ==
    [][~mixed => \A d \in Taken : rows[d].code # NoCode => rows'[d].code = rows[d].code]_vars

(* Nothing under way, and nothing about to be sent, is a seed of row d. *)
Sown(d) ==
    /\ \A w \in writes : w.id = d => w.backfill
    /\ \A s \in seeding : s[2] # d

(* However many keys are at work, a stored code is overwritten by the late  *)
(* seed of its own row and by nothing else, and after that never again.     *)
OnlyTheSeedOverwrites ==
    [][\A d \in Taken : rows[d].code # NoCode /\ rows'[d].code # rows[d].code =>
           /\ \E w \in writes : w.id = d /\ ~w.backfill /\ w.code = rows'[d].code
           /\ Sown(d)']_vars

(* So a printed code keeps scanning, if no UPDATE of its row was lost.      *)
CardsScan ==
    ~mixed => \A card \in shown : card[1] \in unwritten \/ rows[card[1]].code = card[2]
=============================================================================
