------------------------ MODULE AdmissionsRefinement ------------------------
(***************************************************************************)
(* Admissions implements PhoneRegister.  An INSERT is the register's       *)
(* Accept, its unique violation is Conflict, every other answer and every  *)
(* killed request is Fail, and a client that comes back is Forget.  What   *)
(* follows the INSERT (the code, the backfill, the replica) is a stutter.  *)
(***************************************************************************)
EXTENDS AdmissionsProofs

(* The register holds the phone keys of the stored rows, so it changes with *)
(* new applications only.                                                   *)
LEMMA TakenKept ==
    ASSUME Inv, UNCHANGED dbVars \/ CodeWritten
    PROVE  Taken' = Taken
  <1>1. CASE UNCHANGED dbVars
    BY <1>1 DEF dbVars, Taken, Stored
  <1>2. CASE CodeWritten
    <2> PICK i \in Stored(primary) : Write(i, ColumnCode(i))
      BY <1>2 DEF CodeWritten
    <2>1. primary[i] \in Row /\ ColumnCode(i) \in Row /\ i \in Ids
      BY RowTypes DEF Inv, Stored
    <2>2. primary' = [primary EXCEPT ![i] = ColumnCode(i)]
      BY DEF Write
    <2>3. Stored(primary') = Stored(primary)
      BY <2>1, <2>2, Markers DEF Inv, TypeOK, Stored
    <2>4. ColumnCode(i).phone = primary[i].phone
      BY <2>1 DEF ColumnCode, Row
    <2>5. \A j \in Stored(primary) : primary'[j].phone = primary[j].phone
      BY <2>1, <2>2, <2>4 DEF Inv, TypeOK, Stored
    <2> QED
      BY <2>3, <2>5 DEF Taken
  <1> QED
    BY <1>1, <1>2

LEMMA TakenGrows ==
    ASSUME Inv, NEW f \in Form, NEW i \in Ids \ Stored(primary), Write(i, NewRow(f))
    PROVE  Taken' = Taken \cup {PhoneKey(f.phone)}
  <1>1. primary' = [primary EXCEPT ![i] = NewRow(f)] /\ NewRow(f) # NoRow
    BY RowTypes, Markers DEF Write
  <1>2. Stored(primary') = Stored(primary) \cup {i}
    BY <1>1 DEF Inv, TypeOK, Stored
  <1>3. /\ primary'[i].phone = f.phone
        /\ \A j \in Stored(primary) : primary'[j].phone = primary[j].phone
    BY <1>1 DEF NewRow, Inv, TypeOK, Stored
  <1> QED
    BY <1>2, <1>3 DEF Taken

(* What the register sees of a request is settled by pc, form and reply. *)
LEMMA SeenUnmoved ==
    ASSUME NEW r \in Submits, Unmoved(r)
    PROVE  AskOf(r)' = AskOf(r) /\ OutcomeOf(r)' = OutcomeOf(r)
  BY DEF Unmoved, AskOf, OutcomeOf

(* A phone key is one of the register's keys. *)
LEMMA KeyTypes == \A f \in Form : PhoneKey(f.phone) \in Prefixes \X Numbers
  BY DEF Form, Phone, PhoneKey, Prefixes

(* A step of a submission, seen through the mapping, from the change in its *)
(* own question and outcome and the change in the register.                 *)
LEMMA SeenStep ==
    ASSUME Inv, NEW r \in Submits,
           Arrive(r) \/ ArriveScan(r) \/ Serve(r) \/ Kill(r) \/ Reuse(r)
    PROVE  /\ Asks' = [Asks EXCEPT ![r] = AskOf(r)']
           /\ Outcomes' = [Outcomes EXCEPT ![r] = OutcomeOf(r)']
           /\ Asks[r] = AskOf(r) /\ Outcomes[r] = OutcomeOf(r)
  <1>1. \A q \in Submits \ {r} : AskOf(q)' = AskOf(q) /\ OutcomeOf(q)' = OutcomeOf(q)
    BY OthersUnmoved, SeenUnmoved DEF Inv, Requests
  <1> QED
    BY <1>1 DEF Asks, Outcomes

(* A step of a lookup or a scan is no step of the register. *)
LEMMA OthersUnseen ==
    ASSUME Inv, NEW r \in Requests \ Submits,
           Arrive(r) \/ ArriveScan(r) \/ Serve(r) \/ Kill(r) \/ Reuse(r)
    PROVE  UNCHANGED Register!vars
  <1>1. \A q \in Submits : AskOf(q)' = AskOf(q) /\ OutcomeOf(q)' = OutcomeOf(q)
    BY OthersUnmoved, SeenUnmoved DEF Inv, Requests
  <1>2. UNCHANGED dbVars \/ CodeWritten
    <2>1. CASE Backfill(r)
      <3>1. hand[r] \in Stored(primary) /\ card[r] = DocCode[hand[r]]
        BY <2>1 DEF Backfill, Inv, Flow, Hands, HandsOf, HoldsCard
      <3> QED
        BY <2>1, <3>1 DEF Backfill, CodeWritten, ColumnCode
    <2>2. ~(Insert(r) \/ InsertFails(r) \/ Seed(r))
      BY DEF Insert, InsertFails, Seed, Inv, Flow
    <2> QED
      BY <2>1, <2>2
      DEF Arrive, ArriveScan, Serve, BotCheckFails, Screen, InsertDuplicate, SeedFails,
          ReadCard, BackfillFails, ReadScan, ReadFails, Respond, Kill, Reuse
  <1>3. Taken' = Taken
    BY <1>2, TakenKept
  <1> QED
    BY <1>1, <1>3 DEF Register!vars, Asks, Outcomes

(* Every step of a submission is a step of its client, or a stutter. *)
LEMMA SubmitStep ==
    ASSUME Inv, NEW r \in Submits,
           Arrive(r) \/ ArriveScan(r) \/ Serve(r) \/ Kill(r) \/ Reuse(r)
    PROVE  [Register!Next]_(Register!vars)
  <1> DEFINE ClientStep ==
        \/ Register!Ask(r) \/ Register!Accept(r) \/ Register!Conflict(r)
        \/ Register!Fail(r) \/ Register!Forget(r)
  <1> SUFFICES ClientStep \/ UNCHANGED Register!vars
    BY DEF Register!Next
  <1>1. /\ Asks' = [Asks EXCEPT ![r] = AskOf(r)']
        /\ Outcomes' = [Outcomes EXCEPT ![r] = OutcomeOf(r)']
        /\ Asks[r] = AskOf(r) /\ Outcomes[r] = OutcomeOf(r)
    BY SeenStep
  <1>2. Asks = [Asks EXCEPT ![r] = Asks[r]] /\ Outcomes = [Outcomes EXCEPT ![r] = Outcomes[r]]
    BY DEF Asks, Outcomes
  <1>3. r \in Requests /\ r \notin Lookups /\ r \notin Scans
    BY SlotsDisjoint DEF Requests
  <1>4. CASE Arrive(r)
    <2>1. AskOf(r) = NoForm /\ OutcomeOf(r) = "open"
      BY <1>3, <1>4 DEF Arrive, Inv, Flow, AskOf, OutcomeOf
    <2>2. Taken' = Taken
      BY <1>4, TakenKept DEF Arrive
    <2>3. PICK f \in Forms :
              /\ form' = [form EXCEPT ![r] = f]
              /\ IF f.parsed THEN Goto(r, "check") /\ UNCHANGED reply ELSE Answer(r, "400")
      BY <1>4 DEF Arrive
    <2>4. f \in Form /\ form'[r] = f
      BY <1>3, <2>3, FormsAssumption DEF Inv, TypeOK
    <2>5. CASE f.parsed
      <3>1. AskOf(r)' = PhoneKey(f.phone) /\ PhoneKey(f.phone) \in Prefixes \X Numbers
        BY <2>4, <2>5, KeyTypes, Markers DEF AskOf
      <3>2. pc'[r] = "check" /\ reply'[r] = "none"
        BY <1>3, <1>4, <2>3, <2>5 DEF Arrive, Goto, Inv, TypeOK, Flow
      <3>3. OutcomeOf(r)' = "open"
        BY <3>2 DEF OutcomeOf
      <3> QED
        BY <1>1, <1>2, <2>1, <2>2, <3>1, <3>3 DEF Register!Ask
    <2>6. CASE ~f.parsed
      <3>1. AskOf(r)' = NoForm
        BY <2>4, <2>6 DEF AskOf
      <3>2. pc'[r] = "respond" /\ reply'[r] = "400"
        BY <1>3, <2>3, <2>6 DEF Answer, Goto, Inv, TypeOK
      <3>3. OutcomeOf(r)' = "failed"
        BY <3>2 DEF OutcomeOf
      <3> QED
        BY <1>1, <1>2, <2>1, <2>2, <3>1, <3>3 DEF Register!Fail, Register!Settle
    <2> QED
      BY <2>5, <2>6
  <1>5. ASSUME NEW status, Answer(r, status), status \notin {"none", "201", "409"},
               form' = form, Taken' = Taken
        PROVE  ClientStep
    <2>1. AskOf(r)' = AskOf(r)
      BY <1>5 DEF AskOf
    <2>2. pc'[r] = "respond" /\ reply'[r] = status
      BY <1>3, <1>5 DEF Answer, Goto, Inv, TypeOK
    <2>3. OutcomeOf(r)' = "failed"
      BY <1>5, <2>2 DEF OutcomeOf
    <2> QED
      BY <1>1, <1>2, <1>5, <2>1, <2>3 DEF Register!Fail, Register!Settle
  <1>6. CASE BotCheckFails(r)
    BY <1>5, <1>6, TakenKept DEF BotCheckFails
  <1>7. CASE Screen(r)
    <2>1. CASE Valid(r)
      <3>1. pc'[r] = "insert" /\ reply' = reply /\ form' = form /\ reply[r] = "none"
        BY <1>3, <1>7, <2>1 DEF Screen, Goto, Inv, TypeOK, Flow
      <3>2. AskOf(r)' = AskOf(r) /\ OutcomeOf(r)' = OutcomeOf(r)
        BY <1>7, <3>1 DEF Screen, AskOf, OutcomeOf
      <3>3. Taken' = Taken
        BY <1>7, TakenKept DEF Screen
      <3> QED
        BY <1>1, <1>2, <3>2, <3>3 DEF Register!vars
    <2>2. CASE ~Valid(r)
      BY <1>5, <1>7, <2>2, TakenKept DEF Screen
    <2> QED
      BY <2>1, <2>2
  <1>8. ASSUME pc[r] = "insert", form' = form
        PROVE  /\ form[r] \in Form /\ AskOf(r)' = AskOf(r)
               /\ AskOf(r) = PhoneKey(form[r].phone) /\ AskOf(r) \in Prefixes \X Numbers
               /\ OutcomeOf(r) = "open"
               /\ PhoneTaken(form[r].phone) <=> AskOf(r) \in Taken
    <2>1. form[r] \in Form /\ form[r].parsed /\ reply[r] = "none"
      BY <1>3, <1>8 DEF Inv, Flow
    <2>2. AskOf(r)' = AskOf(r) /\ AskOf(r) = PhoneKey(form[r].phone)
      BY <1>8, <2>1, Markers DEF AskOf
    <2>3. OutcomeOf(r) = "open"
      BY <1>8, <2>1 DEF OutcomeOf
    <2> QED
      BY <2>1, <2>2, <2>3, KeyTypes DEF PhoneTaken, Taken
  <1>9. CASE Insert(r)
    <2> PICK i \in Ids \ Stored(primary) : Write(i, NewRow(form[r]))
      BY <1>9 DEF Insert
    <2>1. Taken' = Taken \cup {AskOf(r)} /\ AskOf(r) \notin Taken
      BY <1>8, <1>9, TakenGrows DEF Insert
    <2>2. pc'[r] = "seed"
      BY <1>3, <1>9 DEF Insert, Goto, Inv, TypeOK
    <2>3. OutcomeOf(r)' = "accepted"
      BY <2>2 DEF OutcomeOf
    <2> QED
      BY <1>1, <1>2, <1>8, <1>9, <2>1, <2>3 DEF Insert, Register!Accept, Register!Settle
  <1>10. CASE InsertDuplicate(r)
    <2>1. Taken' = Taken
      BY <1>10, TakenKept DEF InsertDuplicate
    <2>2. pc'[r] = "respond" /\ reply'[r] = "409"
      BY <1>3, <1>10 DEF InsertDuplicate, Answer, Goto, Inv, TypeOK
    <2>3. OutcomeOf(r)' = "conflict"
      BY <2>2 DEF OutcomeOf
    <2> QED
      BY <1>1, <1>2, <1>8, <1>10, <2>1, <2>3 DEF InsertDuplicate, Register!Conflict, Register!Settle
  <1>11. CASE InsertFails(r)
    <2>1. CASE UNCHANGED dbVars
      BY <1>5, <1>11, <2>1, TakenKept DEF InsertFails
    <2>2. CASE \E i \in Ids \ Stored(primary) : Write(i, NewRow(form[r]))
      <3> PICK i \in Ids \ Stored(primary) : Write(i, NewRow(form[r]))
        BY <2>2
      <3>1. Taken' = Taken \cup {AskOf(r)}
        BY <1>8, <1>11, TakenGrows DEF InsertFails
      <3>2. pc'[r] = "respond" /\ reply'[r] = "500"
        BY <1>3, <1>11 DEF InsertFails, Answer, Goto, Inv, TypeOK
      <3>3. OutcomeOf(r)' = "failed"
        BY <3>2 DEF OutcomeOf
      <3> QED
        BY <1>1, <1>2, <1>8, <1>11, <3>1, <3>3 DEF InsertFails, Register!Fail, Register!Settle
    <2> QED
      BY <1>11, <2>1, <2>2 DEF InsertFails
  <1>12. CASE Seed(r) \/ SeedFails(r)
    <2>1. UNCHANGED dbVars \/ CodeWritten
      <3>1. hand[r] \in Stored(primary)
        BY <1>3, <1>12 DEF Seed, SeedFails, Inv, Hands, HandsOf, HoldsOwn
      <3> QED
        BY <1>12, <3>1 DEF Seed, SeedFails, CodeWritten
    <2>2. pc'[r] = "respond" /\ reply'[r] = "201" /\ form' = form
      BY <1>3, <1>12 DEF Seed, SeedFails, Answer, Goto, Inv, TypeOK
    <2>3. AskOf(r)' = AskOf(r) /\ OutcomeOf(r)' = OutcomeOf(r)
      BY <1>12, <2>2 DEF Seed, SeedFails, AskOf, OutcomeOf
    <2> QED
      BY <1>1, <1>2, <2>1, <2>3, TakenKept DEF Register!vars
  <1>13. ~(ReadCard(r) \/ ReadScan(r) \/ Backfill(r) \/ BackfillFails(r) \/ ReadFails(r) \/ ArriveScan(r))
    BY <1>3
    DEF ReadCard, ReadScan, Backfill, BackfillFails, ReadFails, ArriveScan, Inv, Flow
  <1>14. CASE Respond(r)
    <2>1. Taken' = Taken
      BY <1>14, TakenKept DEF Respond
    <2>2. AskOf(r)' = AskOf(r) /\ OutcomeOf(r)' = OutcomeOf(r)
      BY <1>3, <1>14 DEF Respond, Goto, AskOf, OutcomeOf, Inv, TypeOK
    <2> QED
      BY <1>1, <1>2, <2>1, <2>2 DEF Register!vars
  <1>15. CASE Kill(r)
    <2>1. Taken' = Taken /\ AskOf(r)' = AskOf(r)
      BY <1>15, TakenKept DEF Kill, AskOf
    <2>2. OutcomeOf(r)' = "failed"
      BY <1>3, <1>15 DEF Kill, Goto, OutcomeOf, Inv, TypeOK
    <2> QED
      BY <1>1, <1>2, <2>1, <2>2 DEF Register!Fail, Register!Settle
  <1>16. CASE Reuse(r)
    <2>1. Taken' = Taken
      BY <1>16, TakenKept DEF Reuse
    <2>2. pc'[r] = "idle" /\ form'[r] = NoForm /\ reply'[r] = "none"
      BY <1>3, <1>16 DEF Reuse, Goto, Inv, TypeOK
    <2>3. AskOf(r)' = NoForm /\ OutcomeOf(r)' = "open"
      BY <2>2 DEF AskOf, OutcomeOf
    <2> QED
      BY <1>1, <2>1, <2>3 DEF Register!Forget
  <1> QED
    BY <1>4, <1>6, <1>7, <1>9, <1>10, <1>11, <1>12, <1>13, <1>14, <1>15, <1>16 DEF Serve

(* Every behaviour of handlers, repository and databases is a behaviour of  *)
(* the register: the code promises what PhoneRegister promises.             *)
THEOREM Refinement == Spec => ImplementsRegister
  <1>1. Init => Register!Init
    BY DEF Init, Register!Init, Taken, Stored, Asks, AskOf, Outcomes, OutcomeOf, Requests
  <1>2. Inv /\ [Next]_vars => [Register!Next]_(Register!vars)
    <2> SUFFICES ASSUME Inv, [Next]_vars
                 PROVE  [Register!Next]_(Register!vars)
      OBVIOUS
    <2>1. CASE UNCHANGED vars \/ Replicate
      <3>1. primary' = primary /\ pc' = pc /\ form' = form /\ reply' = reply
        BY <2>1 DEF vars, Replicate
      <3> QED
        BY <3>1 DEF Register!vars, Taken, Stored, Asks, AskOf, Outcomes, OutcomeOf
    <2>2. ASSUME NEW r \in Requests,
                 Arrive(r) \/ ArriveScan(r) \/ Serve(r) \/ Kill(r) \/ Reuse(r)
          PROVE  [Register!Next]_(Register!vars)
      BY <2>2, SubmitStep, OthersUnseen
    <2> QED
      BY <2>1, <2>2 DEF Next
  <1> QED
    BY <1>1, <1>2, InvHolds, PTL DEF Spec, ImplementsRegister, Register!Spec

(* No two applicants are told 201 for one phone key, and nobody is refused  *)
(* over a key that is not there: what the register guarantees, the API does.*)
THEOREM AcceptedOnce == Spec => []OneAcceptancePerKey
  <1>1. Register!Spec => [](Register!TypeOK /\ Register!OneAcceptancePerKey)
    BY Register!RegisterHolds
  <1> QED
    BY <1>1, Refinement, PTL DEF ImplementsRegister, OneAcceptancePerKey
=============================================================================
