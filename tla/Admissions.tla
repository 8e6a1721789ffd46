----------------------------- MODULE Admissions -----------------------------
(***************************************************************************)
(* Applications, admit cards and verification codes: the handlers          *)
(* CreateApplication, LookupAdmitCard and VerifyDocument with the          *)
(* repository methods behind them, over a primary PostgreSQL database and, *)
(* when one is configured, a read replica that replays the primary's       *)
(* commits late but in order.                                              *)
(*                                                                         *)
(* The API instances keep no state of their own, so the model has no       *)
(* instances: it has slots, each serving one request at a time, on         *)
(* whatever instance.  One action is one database call, which is where     *)
(* requests interleave.  A call may fail, an INSERT may also fail after it *)
(* committed, and an instance may die under a request.  A client may send  *)
(* another request in a slot whose request is over.                        *)
(*                                                                         *)
(* Operators marked "Mutant" are bugs this code might have had; no action  *)
(* uses them, and each one breaks a property below.                        *)
(***************************************************************************)
EXTENDS Identity, Naturals, Sequences

CONSTANTS
    Submits,           \* slots of POST /v1/applications
    Lookups,           \* slots of POST /v1/admit-card/lookup
    Scans,             \* slots of GET /v1/verify
    Forms,             \* the bodies clients send to the first two
    Ids,               \* the ids gen_random_uuid mints
    Codes,             \* the codes DocCode renders
    DocCode,           \* Signer.DocCode("AC", id) under the configured key
    NoRow, NoId, NoForm,
    NoCode,            \* the empty string
    Overlong,          \* a code of more than 64 characters
    HasReplica,        \* DATABASE_REPLICA_URL is set
    TurnstileEnabled,
    MaxFaults          \* bound: failed calls and killed requests in a behaviour

Requests == Submits \cup Lookups \cup Scans

Form == [parsed : BOOLEAN,    \* BodyParser accepts the body
         phone : Phone, dob : Date,
         rest : BOOLEAN]      \* the other fields and the division/district pair are valid

Row == [phone : Phone, dob : Date, code : Codes \cup {NoCode}]

ASSUME SlotsDisjoint ==
    /\ Submits \cap Lookups = {}
    /\ Submits \cap Scans = {}
    /\ Lookups \cap Scans = {}

ASSUME FormsAssumption == Forms \subseteq Form

ASSUME DocCodeAssumption == DocCode \in [Ids -> Codes]

ASSUME Markers ==
    /\ NoRow \notin Row /\ NoForm \notin Form /\ NoId \notin Ids
    /\ NoCode \notin Codes /\ Overlong \notin Codes

ASSUME SwitchesAssumption == HasReplica \in BOOLEAN /\ TurnstileEnabled \in BOOLEAN

ASSUME MaxFaultsAssumption == MaxFaults \in Nat

VARIABLES
    primary,   \* applications on the primary: row of each id, or NoRow
    replica,   \* the same table on the replica
    wal,       \* row versions committed on the primary, not replayed yet
    pc,        \* pc[r]: the call the request in slot r is about to make
    form,      \* form[r]: its parsed body
    hand,      \* hand[r]: the id of the row it holds
    card,      \* card[r]: the code a lookup shows, or a scan asks about
    reply,     \* reply[r]: its answer, once decided
    faults

dbVars == <<primary, replica, wal>>
vars == <<primary, replica, wal, pc, form, hand, card, reply, faults>>

Replies == {"none", "400", "403", "422", "500",   \* refused or failed
            "201", "409",                          \* CreateApplication
            "200", "404",                          \* LookupAdmitCard
            "valid", "invalid"}                    \* VerifyDocument

TypeOK ==
    /\ primary \in [Ids -> Row \cup {NoRow}]
    /\ replica \in [Ids -> Row \cup {NoRow}]
    /\ wal \in Seq(Ids \X Row)
    /\ pc \in [Requests -> {"idle", "check", "insert", "seed", "read", "backfill",
                            "respond", "done", "dead"}]
    /\ form \in [Requests -> Form \cup {NoForm}]
    /\ hand \in [Requests -> Ids \cup {NoId}]
    /\ card \in [Requests -> Codes \cup {NoCode, Overlong}]
    /\ reply \in [Requests -> Replies]
    /\ faults \in 0..MaxFaults

Init ==
    /\ primary = [i \in Ids |-> NoRow]
    /\ replica = [i \in Ids |-> NoRow]
    /\ wal = <<>>
    /\ pc = [r \in Requests |-> "idle"]
    /\ form = [r \in Requests |-> NoForm]
    /\ hand = [r \in Requests |-> NoId]
    /\ card = [r \in Requests |-> NoCode]
    /\ reply = [r \in Requests |-> "none"]
    /\ faults = 0
-----------------------------------------------------------------------------
(* The tables.  A write commits on the primary and is sent to the replica.  *)

Stored(table) == {i \in Ids : table[i] # NoRow}

Write(i, row) ==
    /\ primary' = [primary EXCEPT ![i] = row]
    /\ wal' = IF HasReplica THEN Append(wal, <<i, row>>) ELSE wal
    /\ UNCHANGED replica

(* db.Replica is the primary pool when no replica is configured. *)
View == IF HasReplica THEN replica ELSE primary

(* Mutant of PhoneTaken: the index is on the number as written. *)
PhoneTakenAsWritten(phone) == \E i \in Stored(primary) : primary[i].phone = phone

(* ux_applications_phone_bidx *)
PhoneTaken(phone) ==
    \E i \in Stored(primary) : PhoneKey(primary[i].phone) = PhoneKey(phone)

(* Mutant of CodeFree: the index is left out. *)
CodeNotLooked(i, code) == i \in Ids /\ code \in Codes

(* ux_applications_verify_code: may row i carry this code? *)
CodeFree(i, code) == \A j \in Stored(primary) \ {i} : primary[j].code # code

ColumnCode(i) == [primary[i] EXCEPT !.code = DocCode[i]]

(* Mutants of CardsOf: by the day alone; the day without normalizeDate;     *)
(* only rows that have their code.                                          *)
CardsOfPhone(f) == {i \in Stored(View) : PhoneKey(View[i].phone) = PhoneKey(f.phone)}
CardsOfDay(f) == {i \in Stored(View) : View[i].dob = f.dob}
CardsOfRawDate(f) == CardsOfPhone(f) \cap CardsOfDay(f)
CardsWithCode(f) == {i \in CardsOfRawDate(f) : View[i].code # NoCode}

(* Mutant of RowsWithCode: a row whose code is still empty matches any code. *)
RowsWithAnyCode(code) == {i \in Stored(View) : View[i].code \in {code, NoCode}}

(* WHERE phone_dob_bidx = $1, WHERE verify_code = $1 *)
CardsOf(f) ==
    {i \in Stored(View) : PhoneDobKey(View[i].phone, View[i].dob) = PhoneDobKey(f.phone, f.dob)}

RowsWithCode(code) == {i \in Stored(View) : View[i].code = code}

Replicate ==
    /\ wal # <<>>
    /\ replica' = [replica EXCEPT ![Head(wal)[1]] = Head(wal)[2]]
    /\ wal' = Tail(wal)
    /\ UNCHANGED <<primary, pc, form, hand, card, reply, faults>>
-----------------------------------------------------------------------------
(* Steps of a request.                                                      *)

Goto(r, step) == pc' = [pc EXCEPT ![r] = step]

Answer(r, status) ==
    /\ Goto(r, "respond")
    /\ reply' = [reply EXCEPT ![r] = status]

Fault == faults < MaxFaults /\ faults' = faults + 1

(* BodyParser, or the bounds VerifyDocument puts on its query parameter. *)
Arrive(r) ==
    /\ r \in Submits \cup Lookups /\ pc[r] = "idle"
    /\ \E f \in Forms :
          /\ form' = [form EXCEPT ![r] = f]
          /\ IF f.parsed THEN Goto(r, "check") /\ UNCHANGED reply ELSE Answer(r, "400")
    /\ UNCHANGED <<dbVars, hand, card, faults>>

ArriveScan(r) ==
    /\ r \in Scans /\ pc[r] = "idle"
    /\ \E code \in Codes \cup {NoCode, Overlong} :
          /\ card' = [card EXCEPT ![r] = code]
          /\ \/ code = NoCode /\ Answer(r, "400")
             \/ code = Overlong /\ Answer(r, "invalid")
             \/ code \in Codes /\ Goto(r, "read") /\ UNCHANGED reply
    /\ UNCHANGED <<dbVars, form, hand, faults>>

Valid(r) ==
    /\ BdPhone(form[r].phone)
    /\ DateStr(form[r].dob)
    /\ r \in Submits => form[r].rest

BotCheckFails(r) ==
    /\ pc[r] = "check" /\ TurnstileEnabled
    /\ Answer(r, "403")
    /\ UNCHANGED <<dbVars, form, hand, card, faults>>

Screen(r) ==
    /\ pc[r] = "check"
    /\ IF Valid(r)
       THEN Goto(r, IF r \in Submits THEN "insert" ELSE "read") /\ UNCHANGED reply
       ELSE Answer(r, "422")
    /\ UNCHANGED <<dbVars, form, hand, card, faults>>

(* Mutant of NewRow: the column is NULL until the code is written. *)
NullCodeRow(f) == [phone |-> f.phone, dob |-> f.dob, code |-> NoId]

(* INSERT INTO applications ... RETURNING id; verify_code defaults to ''. *)
NewRow(f) == [phone |-> f.phone, dob |-> f.dob, code |-> NoCode]

(* Mutant of Insert: ON CONFLICT (phone_bidx) DO UPDATE. *)
Upsert(r) ==
    /\ pc[r] = "insert"
    /\ \E i \in Ids :
          /\ IF PhoneTaken(form[r].phone)
             THEN i \in Stored(primary) /\ PhoneKey(primary[i].phone) = PhoneKey(form[r].phone)
             ELSE i \notin Stored(primary)
          /\ Write(i, NewRow(form[r]))
          /\ hand' = [hand EXCEPT ![r] = i]
    /\ Goto(r, "seed")
    /\ UNCHANGED <<form, card, reply, faults>>

Insert(r) ==
    /\ pc[r] = "insert" /\ ~PhoneTaken(form[r].phone)
    /\ \E i \in Ids \ Stored(primary) :
          /\ Write(i, NewRow(form[r]))
          /\ hand' = [hand EXCEPT ![r] = i]
    /\ Goto(r, "seed")
    /\ UNCHANGED <<form, card, reply, faults>>

(* Mutants of InsertDuplicate: told accepted, or tried again for ever. *)
DuplicateAccepted(r) ==
    /\ pc[r] = "insert" /\ PhoneTaken(form[r].phone)
    /\ Answer(r, "201")
    /\ UNCHANGED <<dbVars, form, hand, card, faults>>

DuplicateRetried(r) ==
    /\ pc[r] = "insert" /\ PhoneTaken(form[r].phone)
    /\ UNCHANGED vars

InsertDuplicate(r) ==
    /\ pc[r] = "insert" /\ PhoneTaken(form[r].phone)
    /\ Answer(r, "409")
    /\ UNCHANGED <<dbVars, form, hand, card, faults>>

(* Mutant of InsertFails: the error is dropped. *)
InsertErrorDropped(r) ==
    /\ pc[r] = "insert" /\ Fault
    /\ Answer(r, "201")
    /\ UNCHANGED <<dbVars, form, hand, card>>

(* The call fails before the commit, or its outcome is lost after it. *)
InsertFails(r) ==
    /\ pc[r] = "insert" /\ Fault
    /\ \/ UNCHANGED dbVars
       \/ /\ ~PhoneTaken(form[r].phone)
          /\ \E i \in Ids \ Stored(primary) : Write(i, NewRow(form[r]))
    /\ Answer(r, "500")
    /\ UNCHANGED <<form, hand, card>>

(* UPDATE ... SET verify_code = $1 WHERE id = $2: an error is swallowed. *)
Seed(r) ==
    /\ pc[r] = "seed"
    /\ IF CodeFree(hand[r], DocCode[hand[r]])
       THEN Write(hand[r], ColumnCode(hand[r]))
       ELSE UNCHANGED dbVars
    /\ Answer(r, "201")
    /\ UNCHANGED <<form, hand, card, faults>>

SeedFails(r) ==
    /\ pc[r] = "seed" /\ Fault
    /\ Answer(r, "201")
    /\ UNCHANGED <<dbVars, form, hand, card>>

(* SELECT ... FROM applications WHERE phone_dob_bidx = $1 LIMIT 1 *)
ReadCard(r) ==
    /\ r \in Lookups /\ pc[r] = "read"
    /\ \/ /\ CardsOf(form[r]) = {}
          /\ Answer(r, "404")
          /\ UNCHANGED <<hand, card>>
       \/ \E i \in CardsOf(form[r]) :
             /\ hand' = [hand EXCEPT ![r] = i]
             /\ \/ /\ View[i].code # NoCode
                   /\ card' = [card EXCEPT ![r] = View[i].code]
                   /\ Answer(r, "200")
                \/ /\ View[i].code = NoCode
                   /\ card' = [card EXCEPT ![r] = DocCode[i]]
                   /\ Goto(r, "backfill")
                   /\ UNCHANGED reply
    /\ UNCHANGED <<dbVars, form, faults>>

(* Mutant of Backfill: the UPDATE is sent to the read-only replica. *)
BackfillReplica(r) ==
    /\ pc[r] = "backfill"
    /\ Answer(r, "200")
    /\ UNCHANGED <<dbVars, form, hand, card, faults>>

(* UPDATE ... WHERE id = $2 AND verify_code = '': its result is not looked at. *)
Backfill(r) ==
    /\ pc[r] = "backfill"
    /\ IF primary[hand[r]].code = NoCode /\ CodeFree(hand[r], card[r])
       THEN Write(hand[r], [primary[hand[r]] EXCEPT !.code = card[r]])
       ELSE UNCHANGED dbVars
    /\ Answer(r, "200")
    /\ UNCHANGED <<form, hand, card, faults>>

BackfillFails(r) ==
    /\ pc[r] = "backfill" /\ Fault
    /\ Answer(r, "200")
    /\ UNCHANGED <<dbVars, form, hand, card>>

(* SELECT ... WHERE verify_code = $1 LIMIT 1 *)
ReadScan(r) ==
    /\ r \in Scans /\ pc[r] = "read"
    /\ \/ /\ RowsWithCode(card[r]) = {}
          /\ Answer(r, "invalid")
          /\ UNCHANGED hand
       \/ \E i \in RowsWithCode(card[r]) :
             /\ hand' = [hand EXCEPT ![r] = i]
             /\ Answer(r, "valid")
    /\ UNCHANGED <<dbVars, form, card, faults>>

ReadFails(r) ==
    /\ pc[r] = "read" /\ Fault
    /\ Answer(r, "500")
    /\ UNCHANGED <<dbVars, form, hand, card>>

Respond(r) ==
    /\ pc[r] = "respond"
    /\ Goto(r, "done")
    /\ UNCHANGED <<dbVars, form, hand, card, reply, faults>>

(* The instance dies, or is forced to exit, with the request in flight. *)
Kill(r) ==
    /\ pc[r] \notin {"idle", "done", "dead"} /\ Fault
    /\ Goto(r, "dead")
    /\ reply' = [reply EXCEPT ![r] = "none"]
    /\ UNCHANGED <<dbVars, form, hand, card>>

(* The client is through with the answer, or gave up: the slot is free. *)
Reuse(r) ==
    /\ pc[r] \in {"done", "dead"}
    /\ Goto(r, "idle")
    /\ form' = [form EXCEPT ![r] = NoForm]
    /\ hand' = [hand EXCEPT ![r] = NoId]
    /\ card' = [card EXCEPT ![r] = NoCode]
    /\ reply' = [reply EXCEPT ![r] = "none"]
    /\ UNCHANGED <<dbVars, faults>>

Serve(r) ==
    \/ BotCheckFails(r) \/ Screen(r)
    \/ Insert(r) \/ InsertDuplicate(r) \/ InsertFails(r)
    \/ Seed(r) \/ SeedFails(r)
    \/ ReadCard(r) \/ Backfill(r) \/ BackfillFails(r)
    \/ ReadScan(r) \/ ReadFails(r)
    \/ Respond(r)

Next ==
    \/ \E r \in Requests : Arrive(r) \/ ArriveScan(r) \/ Serve(r) \/ Kill(r) \/ Reuse(r)
    \/ Replicate

Spec == Init /\ [][Next]_vars

(* Instances go on serving what they accepted and the replica goes on       *)
(* replaying; nothing obliges clients to send anything.                     *)
FairSpec ==
    /\ Spec
    /\ \A r \in Requests : WF_vars(Serve(r))
    /\ WF_vars(Replicate)
-----------------------------------------------------------------------------
(* Properties.                                                              *)

(* An application that is acknowledged with 201 is on the primary, under    *)
(* the id the applicant was given and with the applicant's own phone and    *)
(* date of birth (CreateApplication replies after the INSERT returned).     *)
AckedIsStored ==
    \A r \in Submits : reply[r] = "201" =>
        /\ hand[r] \in Stored(primary)
        /\ primary[hand[r]].phone = form[r].phone
        /\ primary[hand[r]].dob = form[r].dob

(* However submissions, retries and lost answers interleave, no two rows    *)
(* have the same normalised phone number.                                   *)
OneRowPerPhone ==
    \A i, j \in Stored(primary) :
        PhoneKey(primary[i].phone) = PhoneKey(primary[j].phone) => i = j

(* A 409 is never a mistake: an application under that phone key exists.    *)
ConflictIsReal ==
    \A r \in Submits : reply[r] = "409" => PhoneTaken(form[r].phone)

(* Rows are never dropped or overwritten; the one change a row may see is   *)
(* that its missing code becomes the code of its id.                        *)
RowsOnlyGainCode ==
    [][\A i \in Stored(primary) :
          \/ primary'[i] = primary[i]
          \/ primary[i].code = NoCode /\ primary'[i] = ColumnCode(i)]_primary

(* The card a lookup shows belongs to an application filed under the phone  *)
(* and the date of birth the visitor gave, and carries the code of its id:  *)
(* also when the lookup read a stale replica.                               *)
CardIsOwn ==
    \A l \in Lookups : reply[l] = "200" =>
        /\ hand[l] \in Stored(primary)
        /\ PhoneDobKey(primary[hand[l]].phone, primary[hand[l]].dob)
               = PhoneDobKey(form[l].phone, form[l].dob)
        /\ card[l] = DocCode[hand[l]]

(* The replica has yet to learn of a commit of row i. *)
Lagging(i) == HasReplica /\ \E k \in 1..Len(wal) : wal[k][1] = i

(* Written with the country code, as the validator allows, or without it.   *)
Dialled(phone) == phone.prefix \in {"880", "+880"}

(* An applicant who has been told 201 is found again by subscriber number   *)
(* and birthday, with the number split or not, with a "+" or not and the    *)
(* date in any accepted layout, but for two cases: the lookup and the       *)
(* application were not written alike with the country code, 01... against  *)
(* +8801..., which the blind index keeps apart; or the replica that is      *)
(* asked has yet to replay a commit of that application.                    *)
ReadYourApplication ==
    [][\A l \in Lookups, s \in Submits :
          /\ pc[l] = "read" /\ reply'[l] = "404" /\ reply[s] = "201"
          /\ form[l].phone.number = form[s].phone.number
          /\ form[l].dob.day = form[s].dob.day
          => \/ Dialled(form[l].phone) # Dialled(form[s].phone)
             \/ Lagging(hand[s])]_vars

(* A scan that is told "valid" was about a code the primary really holds.   *)
ScanIsTruthful ==
    \A s \in Scans : reply[s] = "valid" =>
        /\ hand[s] \in Stored(primary)
        /\ primary[hand[s]].code = card[s]

(* The code printed on somebody's card never resolves to another record.    *)
ScanResolvesToIssuer ==
    \A s \in Scans, l \in Lookups :
        reply[s] = "valid" /\ reply[l] = "200" /\ card[s] = card[l] => hand[s] = hand[l]

(* Even when the codes of two ids collide in their 40 bits, and whichever   *)
(* of seed and backfill comes first, no two rows ever carry one code: a     *)
(* scan resolves to one row or to none.                                     *)
CodesAreUnique ==
    \A i, j \in Stored(primary) :
        primary[i].code = primary[j].code /\ primary[i].code # NoCode => i = j

(* As long as no call has failed, every code a lookup has shown is stored   *)
(* on the primary, whoever wrote it and however stale the lookup's read was.*)
CleanRunStoresCards ==
    faults = 0 => \A l \in Lookups : reply[l] = "200" => primary[hand[l]].code = card[l]

(* A code that a lookup has already shown is never declared invalid.        *)
GenuineNeverInvalid ==
    [][\A s \in Scans, l \in Lookups :
          pc[s] = "read" /\ reply'[s] = "invalid" => ~(reply[l] = "200" /\ card[l] = card[s])]_vars

(* While no call has failed, a genuine code is declared invalid only as     *)
(* long as the replica lags behind the row that carries it.                 *)
GenuineOnceReplayed ==
    [][\A s \in Scans, l \in Lookups :
          pc[s] = "read" /\ reply'[s] = "invalid" /\ reply[l] = "200" /\ card[l] = card[s]
              => faults > 0 \/ Lagging(hand[l])]_vars

(* A subscriber number has at most one application.                         *)
OneApplicationPerNumber ==
    \A i, j \in Stored(primary) :
        primary[i].phone.number = primary[j].phone.number => i = j

(* Every request that arrives is answered or dies with its instance, and    *)
(* lookups stop having to write a missing code: with finitely many failures *)
(* each row gets its code and the replica learns of it.                     *)
ServiceSettles ==
    /\ \A r \in Requests : []<>(pc[r] \in {"idle", "done", "dead"})
    /\ <>[](\A l \in Lookups : pc[l] # "backfill")
-----------------------------------------------------------------------------
(* What the application path promises, without its database.                *)

AskOf(r) == IF form[r] = NoForm THEN NoForm
            ELSE IF form[r].parsed THEN PhoneKey(form[r].phone) ELSE NoForm

OutcomeOf(r) ==
    CASE pc[r] = "dead" -> "failed"
      [] pc[r] = "seed" -> "accepted"
      [] OTHER          -> CASE reply[r] = "none" -> "open"
                             [] reply[r] = "201"  -> "accepted"
                             [] reply[r] = "409"  -> "conflict"
                             [] OTHER             -> "failed"

Taken    == {PhoneKey(primary[i].phone) : i \in Stored(primary)}
Asks     == [r \in Submits |-> AskOf(r)]
Outcomes == [r \in Submits |-> OutcomeOf(r)]

Register == INSTANCE PhoneRegister WITH
    Clients <- Submits,
    Keys    <- Prefixes \X Numbers,
    NoKey   <- NoForm,
    taken   <- Taken,
    ask     <- Asks,
    outcome <- Outcomes

(* Every behaviour of the API and its database is one of the register.      *)
ImplementsRegister == Register!Spec

(* What the register guarantees, read off the API's own state.              *)
OneAcceptancePerKey == Register!OneAcceptancePerKey
=============================================================================
