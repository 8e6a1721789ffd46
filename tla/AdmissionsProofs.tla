-------------------------- MODULE AdmissionsProofs --------------------------
(***************************************************************************)
(* Theorems about Admissions, for any number of slots, applicants, ids and *)
(* codes, with or without a replica, and for any number of faults.         *)
(*                                                                         *)
(* None of the safety properties is inductive by itself: a card is its     *)
(* owner's only because what the replica holds, and what is still on its   *)
(* way there, are earlier versions of rows that never change but for a     *)
(* missing code.  Inv says so, and says what a request in mid-flight has   *)
(* in hand.                                                                *)
(***************************************************************************)
EXTENDS Admissions, TLAPS

(* The values that TypeOK gives pc. *)
Steps == {"idle", "check", "insert", "seed", "read", "backfill", "respond", "done", "dead"}

(* Which requests reach which step, and what they have read by then. *)
Flow ==
    \A r \in Requests :
        /\ pc[r] = "check" => r \in Submits \cup Lookups
        /\ pc[r] \in {"insert", "seed"} => r \in Submits
        /\ pc[r] = "read" => r \in Lookups \cup Scans
        /\ pc[r] = "backfill" => r \in Lookups
        /\ pc[r] \in {"check", "insert", "seed", "read", "backfill"} /\ r \notin Scans
               => form[r] \in Form /\ form[r].parsed
        /\ pc[r] = "idle" => form[r] = NoForm
        /\ pc[r] = "read" /\ r \in Scans => card[r] \in Codes
        /\ pc[r] \notin {"respond", "done"} => reply[r] = "none"

(* row is the row of id i in the table, or was before it got its code. *)
Version(table, i, row) ==
    /\ i \in Stored(table)
    /\ row.phone = table[i].phone
    /\ row.dob = table[i].dob
    /\ row.code \in {NoCode, table[i].code}

Tables ==
    /\ \A i \in Stored(primary) : primary[i].code \in {NoCode, DocCode[i]}
    /\ \A i \in Stored(replica) : Version(primary, i, replica[i])
    /\ \A k \in 1..Len(wal) : Version(primary, wal[k][1], wal[k][2])
    /\ OneRowPerPhone

(* r holds the id of a row filed with the phone and date of its form. *)
HoldsOwn(r) ==
    /\ hand[r] \in Stored(primary)
    /\ primary[hand[r]].phone = form[r].phone
    /\ primary[hand[r]].dob = form[r].dob

(* r holds the id of a row whose lookup key is that of its form. *)
HoldsCard(r) ==
    /\ hand[r] \in Stored(primary)
    /\ PhoneDobKey(primary[hand[r]].phone, primary[hand[r]].dob)
           = PhoneDobKey(form[r].phone, form[r].dob)
    /\ card[r] = DocCode[hand[r]]

HoldsScan(r) ==
    /\ hand[r] \in Stored(primary)
    /\ card[r] \in Codes
    /\ primary[hand[r]].code = card[r]

(* What r has in hand while it writes and once it has answered. *)
HandsOf(r) ==
    /\ r \in Submits => /\ pc[r] = "seed" \/ reply[r] = "201" => HoldsOwn(r)
                        /\ reply[r] = "409" => PhoneTaken(form[r].phone)
    /\ r \in Lookups /\ (pc[r] = "backfill" \/ reply[r] = "200") => HoldsCard(r)
    /\ r \in Scans /\ reply[r] = "valid" => HoldsScan(r)

Hands == \A r \in Requests : HandsOf(r)

Inv == TypeOK /\ Flow /\ Tables /\ Hands
-----------------------------------------------------------------------------
(* Types.                                                                    *)

(* A row of a form is a row, and stays one when it gets its code. *)
LEMMA RowTypes ==
    /\ \A f \in Form : NewRow(f) \in Row
    /\ TypeOK => \A i \in Stored(primary) : primary[i] \in Row /\ ColumnCode(i) \in Row
    /\ TypeOK => \A i \in Stored(View) : View[i] \in Row
  BY DocCodeAssumption DEF NewRow, ColumnCode, Form, Row, Stored, TypeOK, View

(* A write keeps the tables and the log well-typed. *)
LEMMA WriteTypes ==
    ASSUME TypeOK, NEW i \in Ids, NEW row \in Row, Write(i, row)
    PROVE  /\ primary' \in [Ids -> Row \cup {NoRow}]
           /\ replica' \in [Ids -> Row \cup {NoRow}]
           /\ wal' \in Seq(Ids \X Row)
  <1>1. primary' \in [Ids -> Row \cup {NoRow}]
    BY DEF Write, TypeOK
  <1>2. replica' \in [Ids -> Row \cup {NoRow}]
    BY DEF Write, TypeOK
  <1>3. <<i, row>> \in Ids \X Row
    OBVIOUS
  <1>4. wal' \in Seq(Ids \X Row)
    BY <1>3 DEF Write, TypeOK
  <1> QED
    BY <1>1, <1>2, <1>4

(* The bound on faults is kept. *)
LEMMA FaultTypes == TypeOK /\ Fault => faults' \in 0..MaxFaults
  BY MaxFaultsAssumption DEF TypeOK, Fault

(* Every step of the API and its databases keeps the types. *)
LEMMA TypeStep == Inv /\ [Next]_vars => TypeOK'
  <1> SUFFICES ASSUME Inv, [Next]_vars
               PROVE  TypeOK'
    OBVIOUS
  <1> USE DEF Inv
  <1>1. CASE UNCHANGED vars
    BY <1>1 DEF vars, TypeOK
  <1>2. CASE Replicate
    <2>1. Head(wal) \in Ids \X Row /\ Tail(wal) \in Seq(Ids \X Row)
      BY <1>2 DEF Replicate, TypeOK
    <2> QED
      BY <2>1, <1>2 DEF Replicate, TypeOK
  <1>3. ASSUME NEW r \in Requests,
               Arrive(r) \/ ArriveScan(r) \/ Serve(r) \/ Kill(r) \/ Reuse(r)
        PROVE  TypeOK'
    <2>1. CASE Arrive(r)
      BY <2>1, FormsAssumption DEF Arrive, Answer, Goto, dbVars, TypeOK, Steps, Replies
    <2>2. CASE ArriveScan(r)
      <3>1. /\ UNCHANGED <<dbVars, form, hand, faults>>
            /\ \E code \in Codes \cup {NoCode, Overlong} : card' = [card EXCEPT ![r] = code]
            /\ \E step \in {"read", "respond"} : Goto(r, step)
            /\ \E status \in Replies : reply' = [reply EXCEPT ![r] = status] \/ reply' = reply
        BY <2>2 DEF ArriveScan, Answer, Replies
      <3>2. card' \in [Requests -> Codes \cup {NoCode, Overlong}]
        BY <3>1 DEF TypeOK
      <3>3. pc' \in [Requests -> Steps]
        BY <3>1 DEF TypeOK, Goto, Steps
      <3>4. reply' \in [Requests -> Replies]
        BY <3>1 DEF TypeOK
      <3> QED
        BY <3>1, <3>2, <3>3, <3>4 DEF TypeOK, Steps, dbVars
    <2>3. CASE BotCheckFails(r) \/ Screen(r)
      BY <2>3 DEF BotCheckFails, Screen, Answer, Goto, dbVars, TypeOK, Steps, Replies
    <2>4. CASE Insert(r)
      <3>1. form[r] \in Form
        BY <2>4, SlotsDisjoint DEF Insert, Flow
      <3> PICK i \in Ids \ Stored(primary) :
              Write(i, NewRow(form[r])) /\ hand' = [hand EXCEPT ![r] = i]
        BY <2>4 DEF Insert
      <3>2. NewRow(form[r]) \in Row
        BY <3>1, RowTypes
      <3> QED
        BY <3>2, <2>4, WriteTypes DEF Insert, Goto, TypeOK, Steps
    <2>5. CASE InsertDuplicate(r)
      BY <2>5 DEF InsertDuplicate, Answer, Goto, dbVars, TypeOK, Steps, Replies
    <2>6. CASE InsertFails(r)
      <3>1. faults' \in 0..MaxFaults
        BY <2>6, FaultTypes DEF InsertFails
      <3>2. pc' \in [Requests -> Steps] /\ reply' \in [Requests -> Replies]
        BY <2>6 DEF InsertFails, Answer, Goto, TypeOK, Steps, Replies
      <3>3. form' = form /\ hand' = hand /\ card' = card
        BY <2>6 DEF InsertFails
      <3>4. CASE UNCHANGED dbVars
        BY <3>1, <3>2, <3>3, <3>4 DEF dbVars, TypeOK, Steps
      <3>5. CASE \E i \in Ids \ Stored(primary) : Write(i, NewRow(form[r]))
        <4> PICK i \in Ids \ Stored(primary) : Write(i, NewRow(form[r]))
          BY <3>5
        <4>1. form[r] \in Form
          BY <2>6, SlotsDisjoint DEF InsertFails, Flow
        <4> QED
          BY <4>1, <3>1, <3>2, <3>3, RowTypes, WriteTypes DEF TypeOK, Steps
      <3> QED
        BY <2>6, <3>4, <3>5 DEF InsertFails
    <2>7. CASE Seed(r)
      <3>1. hand[r] \in Stored(primary)
        BY <2>7 DEF Seed, Flow, Hands, HandsOf, HoldsOwn
      <3>2. CASE Write(hand[r], ColumnCode(hand[r]))
        <4>1. hand[r] \in Ids /\ ColumnCode(hand[r]) \in Row
          BY <3>1, RowTypes DEF Stored
        <4> QED
          BY <2>7, <3>2, <4>1, WriteTypes DEF Seed, Answer, Goto, TypeOK, Steps, Replies
      <3>3. CASE UNCHANGED dbVars
        BY <2>7, <3>3 DEF Seed, Answer, Goto, dbVars, TypeOK, Steps, Replies
      <3> QED
        BY <2>7, <3>2, <3>3 DEF Seed
    <2>8. CASE SeedFails(r) \/ BackfillFails(r) \/ ReadFails(r)
      <3>1. faults' \in 0..MaxFaults
        BY <2>8, FaultTypes DEF SeedFails, BackfillFails, ReadFails
      <3> QED
        BY <2>8, <3>1
        DEF SeedFails, BackfillFails, ReadFails, Answer, Goto, dbVars, TypeOK, Steps, Replies
    <2>9. CASE ReadCard(r)
      <3>1. \A i \in Stored(View) : View[i].code \in Codes \cup {NoCode} /\ DocCode[i] \in Codes
        BY RowTypes, DocCodeAssumption DEF Row, Stored
      <3> QED
        BY <2>9, <3>1 DEF ReadCard, CardsOf, Stored, Answer, Goto, dbVars, TypeOK, Steps, Replies
    <2>10. CASE Backfill(r)
      <3>1. hand[r] \in Stored(primary) /\ card[r] = DocCode[hand[r]]
        BY <2>10 DEF Backfill, Flow, Hands, HandsOf, HoldsCard
      <3>2. CASE Write(hand[r], [primary[hand[r]] EXCEPT !.code = card[r]])
        <4>1. hand[r] \in Ids /\ ColumnCode(hand[r]) \in Row
          BY <3>1, RowTypes DEF Stored
        <4>2. Write(hand[r], ColumnCode(hand[r]))
          BY <3>1, <3>2 DEF ColumnCode
        <4> QED
          BY <2>10, <4>1, <4>2, WriteTypes DEF Backfill, Answer, Goto, TypeOK, Steps, Replies
      <3>3. CASE UNCHANGED dbVars
        BY <2>10, <3>3 DEF Backfill, Answer, Goto, dbVars, TypeOK, Steps, Replies
      <3> QED
        BY <2>10, <3>2, <3>3 DEF Backfill
    <2>11. CASE ReadScan(r)
      <3>1. /\ UNCHANGED <<dbVars, form, card, faults>>
            /\ pc' = [pc EXCEPT ![r] = "respond"]
            /\ \E status \in Replies : reply' = [reply EXCEPT ![r] = status]
            /\ hand' = hand \/ \E i \in Ids : hand' = [hand EXCEPT ![r] = i]
        BY <2>11 DEF ReadScan, RowsWithCode, Stored, Answer, Goto, Replies
      <3>2. hand' \in [Requests -> Ids \cup {NoId}]
        BY <3>1 DEF TypeOK
      <3>3. pc' \in [Requests -> Steps] /\ reply' \in [Requests -> Replies]
        BY <3>1 DEF TypeOK, Steps
      <3> QED
        BY <3>1, <3>2, <3>3 DEF TypeOK, dbVars
    <2>12. CASE Respond(r) \/ Kill(r) \/ Reuse(r)
      <3>1. faults' \in 0..MaxFaults
        BY <2>12, FaultTypes DEF Respond, Kill, Reuse, TypeOK
      <3> QED
        BY <2>12, <3>1 DEF Respond, Kill, Reuse, Goto, dbVars, TypeOK, Steps, Replies
    <2> QED
      BY <1>3, <2>1, <2>2, <2>3, <2>4, <2>5, <2>6, <2>7, <2>8, <2>9, <2>10, <2>11, <2>12
      DEF Serve
  <1> QED
    BY <1>1, <1>2, <1>3 DEF Next
-----------------------------------------------------------------------------
(* Flow.                                                                     *)

(* No step takes a request where it does not belong. *)
LEMMA FlowStep == Inv /\ [Next]_vars => Flow'
  <1> SUFFICES ASSUME Inv, [Next]_vars
               PROVE  Flow'
    OBVIOUS
  <1> USE DEF Inv
  <1>1. CASE UNCHANGED vars
    BY <1>1 DEF vars, Flow
  <1>2. CASE Replicate
    BY <1>2 DEF Replicate, Flow
  <1>3. ASSUME NEW r \in Requests,
               Arrive(r) \/ ArriveScan(r) \/ Serve(r) \/ Kill(r) \/ Reuse(r)
        PROVE  Flow'
    <2> USE SlotsDisjoint DEF Goto, Answer, TypeOK, Flow
    <2>1. CASE Arrive(r)
      BY <2>1, FormsAssumption DEF Arrive
    <2>2. CASE ArriveScan(r)
      BY <2>2 DEF ArriveScan
    <2>3. CASE BotCheckFails(r)
      BY <2>3 DEF BotCheckFails
    <2>4. CASE Screen(r)
      <3>1. /\ r \in Submits \cup Lookups /\ r \notin Scans /\ reply[r] = "none"
            /\ form[r] \in Form /\ form[r].parsed
        BY <2>4 DEF Screen
      <3>2. form' = form /\ card' = card
        BY <2>4 DEF Screen
      <3>3. \A q \in Requests \ {r} : pc'[q] = pc[q] /\ reply'[q] = reply[q]
        BY <2>4 DEF Screen
      <3>4. \/ pc'[r] = "respond"
            \/ /\ pc'[r] = IF r \in Submits THEN "insert" ELSE "read"
               /\ reply'[r] = "none"
        BY <2>4, <3>1 DEF Screen
      <3> QED
        BY <3>1, <3>2, <3>3, <3>4
    <2>5. CASE Insert(r)
      BY <2>5 DEF Insert
    <2>6. CASE InsertDuplicate(r)
      BY <2>6 DEF InsertDuplicate
    <2>7. CASE InsertFails(r)
      BY <2>7 DEF InsertFails
    <2>8. CASE Seed(r)
      BY <2>8 DEF Seed
    <2>9. CASE SeedFails(r)
      BY <2>9 DEF SeedFails
    <2>10. CASE ReadCard(r)
      <3>1. r \in Lookups /\ form[r] \in Form /\ form[r].parsed /\ form' = form
        BY <2>10 DEF ReadCard
      <3>2. \A q \in Requests \ {r} :
                pc'[q] = pc[q] /\ reply'[q] = reply[q] /\ card'[q] = card[q]
        BY <2>10 DEF ReadCard
      <3>3. pc'[r] = "respond" \/ (pc'[r] = "backfill" /\ reply'[r] = "none")
        BY <2>10 DEF ReadCard
      <3> QED
        BY <3>1, <3>2, <3>3
    <2>11. CASE Backfill(r)
      BY <2>11 DEF Backfill
    <2>12. CASE BackfillFails(r)
      BY <2>12 DEF BackfillFails
    <2>13. CASE ReadScan(r)
      BY <2>13 DEF ReadScan
    <2>14. CASE ReadFails(r)
      BY <2>14 DEF ReadFails
    <2>15. CASE Respond(r)
      BY <2>15 DEF Respond
    <2>16. CASE Kill(r)
      BY <2>16 DEF Kill
    <2>17. CASE Reuse(r)
      BY <2>17 DEF Reuse
    <2> QED
      BY <1>3, <2>1, <2>2, <2>3, <2>4, <2>5, <2>6, <2>7, <2>8, <2>9, <2>10, <2>11,
         <2>12, <2>13, <2>14, <2>15, <2>16, <2>17
      DEF Serve
  <1> QED
    BY <1>1, <1>2, <1>3 DEF Next
-----------------------------------------------------------------------------
(* The tables.                                                               *)

(* An accepted application, the only way a row comes into being. *)
NewApplication ==
    \E r \in Submits, i \in Ids \ Stored(primary) :
        /\ pc[r] = "insert"
        /\ ~PhoneTaken(form[r].phone)
        /\ Write(i, NewRow(form[r]))

(* A row is given the code of its id, which it may have already and which   *)
(* no other row has.                                                        *)
CodeWritten ==
    \E i \in Stored(primary) : CodeFree(i, DocCode[i]) /\ Write(i, ColumnCode(i))

(* What any step does to the databases. *)
LEMMA TableSteps ==
    Inv /\ [Next]_vars => UNCHANGED dbVars \/ Replicate \/ NewApplication \/ CodeWritten
  <1> SUFFICES ASSUME Inv, NEW r \in Requests,
                      Arrive(r) \/ ArriveScan(r) \/ Serve(r) \/ Kill(r) \/ Reuse(r)
               PROVE  UNCHANGED dbVars \/ NewApplication \/ CodeWritten
    BY DEF Next, vars, dbVars
  <1>1. CASE Insert(r) \/ InsertFails(r)
    <2>1. r \in Submits
      BY <1>1 DEF Insert, InsertFails, Inv, Flow
    <2> QED
      BY <1>1, <2>1 DEF Insert, InsertFails, NewApplication
  <1>2. CASE Seed(r)
    <2>1. hand[r] \in Stored(primary)
      BY <1>2 DEF Seed, Inv, Flow, Hands, HandsOf, HoldsOwn
    <2> QED
      BY <1>2, <2>1 DEF Seed, CodeWritten
  <1>3. CASE Backfill(r)
    <2>1. hand[r] \in Stored(primary) /\ card[r] = DocCode[hand[r]]
      BY <1>3 DEF Backfill, Inv, Flow, Hands, HandsOf, HoldsCard
    <2> QED
      BY <1>3, <2>1 DEF Backfill, CodeWritten, ColumnCode
  <1> QED
    BY <1>1, <1>2, <1>3
    DEF Arrive, ArriveScan, Serve, BotCheckFails, Screen, InsertDuplicate, SeedFails,
        ReadCard, BackfillFails, ReadScan, ReadFails, Respond, Kill, Reuse

(* What a row may become in one step. *)
Advance ==
    \A i \in Stored(primary) :
        \/ primary'[i] = primary[i]
        \/ primary[i].code = NoCode /\ primary'[i] = ColumnCode(i)

(* Rows only ever gain their own code. *)
LEMMA AdvanceStep == Inv /\ [Next]_vars => Advance
  <1> SUFFICES ASSUME Inv, [Next]_vars
               PROVE  Advance
    OBVIOUS
  <1>1. CASE UNCHANGED dbVars \/ Replicate
    BY <1>1 DEF dbVars, Replicate, Advance
  <1>2. CASE NewApplication
    BY <1>2 DEF NewApplication, Write, Advance, Inv, TypeOK
  <1>3. CASE CodeWritten
    <2> PICK i \in Stored(primary) : Write(i, ColumnCode(i))
      BY <1>3 DEF CodeWritten
    <2>1. primary[i] \in Row /\ primary[i].code \in {NoCode, DocCode[i]}
      BY RowTypes DEF Inv, Tables
    <2>2. primary[i].code = DocCode[i] => ColumnCode(i) = primary[i]
      BY <2>1 DEF ColumnCode, Row
    <2> QED
      BY <2>1, <2>2 DEF Write, Advance, Inv, TypeOK, Stored
  <1> QED
    BY <1>1, <1>2, <1>3, TableSteps

(* Stored rows stay stored, with their phone and date of birth, and a code  *)
(* they have they keep.                                                     *)
LEMMA AdvanceKeeps ==
    ASSUME Inv, Advance, TypeOK', NEW i \in Stored(primary)
    PROVE  /\ i \in Stored(primary)'
           /\ primary'[i].phone = primary[i].phone
           /\ primary'[i].dob = primary[i].dob
           /\ primary[i].code # NoCode => primary'[i].code = primary[i].code
  <1>1. primary[i] \in Row /\ ColumnCode(i) \in Row /\ i \in Ids
    BY RowTypes DEF Inv, Stored
  <1>2. ColumnCode(i).phone = primary[i].phone /\ ColumnCode(i).dob = primary[i].dob
    BY <1>1 DEF ColumnCode, Row
  <1>3. primary'[i] \in {primary[i], ColumnCode(i)}
        /\ (primary[i].code # NoCode => primary'[i] = primary[i])
    BY DEF Advance
  <1> QED
    BY <1>1, <1>2, <1>3, Markers DEF Stored

(* An earlier version of a row remains one. *)
LEMMA VersionKept ==
    ASSUME Inv, Advance, TypeOK', NEW i \in Ids, NEW row \in Row, Version(primary, i, row)
    PROVE  Version(primary', i, row)
  BY AdvanceKeeps DEF Version

(* The written row is a version of itself, and so is every one before it in *)
(* the log.                                                                 *)
LEMMA LogKept ==
    ASSUME Inv, Advance, TypeOK', NEW i \in Ids, NEW row \in Row, Write(i, row)
    PROVE  \A k \in 1..Len(wal') : Version(primary', wal'[k][1], wal'[k][2])
  <1> SUFFICES ASSUME NEW k \in 1..Len(wal')
               PROVE  Version(primary', wal'[k][1], wal'[k][2])
    OBVIOUS
  <1>1. primary'[i] = row /\ row # NoRow
    BY Markers DEF Write, Inv, TypeOK
  <1>2. CASE wal' = wal
    <2>1. wal[k] \in Ids \X Row /\ Version(primary, wal[k][1], wal[k][2])
      BY <1>2 DEF Inv, TypeOK, Tables
    <2> QED
      BY <1>2, <2>1, VersionKept
  <1>3. CASE wal' = Append(wal, <<i, row>>)
    <2>1. CASE k \in 1..Len(wal)
      <3>1. wal'[k] = wal[k]
        BY <1>3, <2>1 DEF Inv, TypeOK
      <3>2. wal[k] \in Ids \X Row /\ Version(primary, wal[k][1], wal[k][2])
        BY <2>1 DEF Inv, TypeOK, Tables
      <3> QED
        BY <3>1, <3>2, VersionKept
    <2>2. CASE k = Len(wal) + 1
      <3>1. wal'[k] = <<i, row>>
        BY <1>3, <2>2 DEF Inv, TypeOK
      <3>2. Version(primary', i, row)
        BY <1>1 DEF Version, Stored
      <3> QED
        BY <3>1, <3>2
    <2> QED
      BY <1>3, <2>1, <2>2 DEF Inv, TypeOK
  <1> QED
    BY <1>2, <1>3 DEF Write

(* Every step keeps the codes, the copies and the uniqueness of phones. *)
LEMMA TablesStep == Inv /\ [Next]_vars => Tables'
  <1> SUFFICES ASSUME Inv, [Next]_vars
               PROVE  Tables'
    OBVIOUS
  <1>1. TypeOK' /\ Advance
    BY TypeStep, AdvanceStep
  <1>2. \A i \in Stored(replica) : i \in Ids /\ replica[i] \in Row /\ Version(primary', i, replica[i])
    BY <1>1, VersionKept DEF Inv, Tables, TypeOK, Stored
  <1>3. CASE UNCHANGED dbVars
    BY <1>3 DEF dbVars, Inv, Tables, Stored, Version, OneRowPerPhone
  <1>4. CASE Replicate
    <2>1. wal # <<>> /\ wal \in Seq(Ids \X Row)
      BY <1>4 DEF Replicate, Inv, TypeOK
    <2>2. \A k \in 1..Len(wal) : wal[k] \in Ids \X Row /\ Version(primary', wal[k][1], wal[k][2])
      BY <1>1, <2>1, VersionKept DEF Inv, Tables
    <2>3. \A i \in Stored(replica') : Version(primary', i, replica'[i])
      <3>1. 1 \in 1..Len(wal) /\ Head(wal) = wal[1]
        BY <2>1
      <3> QED
        BY <1>2, <1>4, <2>2, <3>1 DEF Replicate, Inv, TypeOK, Stored
    <2>4. \A k \in 1..Len(wal') : Version(primary', wal'[k][1], wal'[k][2])
      <3> SUFFICES ASSUME NEW k \in 1..Len(wal')
                   PROVE  Version(primary', wal'[k][1], wal'[k][2])
        OBVIOUS
      <3>1. wal'[k] = wal[k + 1] /\ k + 1 \in 1..Len(wal)
        BY <1>4, <2>1 DEF Replicate
      <3> QED
        BY <2>2, <3>1
    <2>5. primary' = primary
      BY <1>4 DEF Replicate
    <2> QED
      BY <2>3, <2>4, <2>5 DEF Inv, Tables, Stored, OneRowPerPhone
  <1>5. CASE NewApplication
    <2> PICK r \in Submits, i \in Ids \ Stored(primary) :
            pc[r] = "insert" /\ ~PhoneTaken(form[r].phone) /\ Write(i, NewRow(form[r]))
      BY <1>5 DEF NewApplication
    <2>1. form[r] \in Form
      BY SlotsDisjoint DEF Inv, Flow, Requests
    <2>2. NewRow(form[r]) \in Row
      BY <2>1, RowTypes
    <2>3. /\ primary' = [primary EXCEPT ![i] = NewRow(form[r])]
          /\ replica' = replica
      BY DEF Write
    <2>4. primary'[i] = NewRow(form[r]) /\ Stored(primary)' = Stored(primary) \cup {i}
      BY <2>2, <2>3, Markers DEF Inv, TypeOK, Stored
    <2>5. \A j \in Stored(primary) : primary'[j] = primary[j]
      BY <2>3 DEF Inv, TypeOK, Stored
    <2>6. (\A j \in Stored(primary) : primary[j].code \in {NoCode, DocCode[j]})'
      BY <2>4, <2>5 DEF NewRow, Inv, Tables
    <2>7. OneRowPerPhone'
      <3>1. \A j \in Stored(primary) : PhoneKey(primary'[j].phone) # PhoneKey(primary'[i].phone)
        BY <2>4, <2>5 DEF PhoneTaken, NewRow
      <3> QED
        BY <2>4, <2>5, <3>1 DEF OneRowPerPhone, Inv, Tables
    <2>8. \A j \in Stored(replica') : Version(primary', j, replica'[j])
      BY <1>2, <2>3 DEF Stored
    <2> QED
      BY <1>1, <2>2, <2>6, <2>7, <2>8, LogKept DEF Tables
  <1>6. CASE CodeWritten
    <2> PICK i \in Stored(primary) : Write(i, ColumnCode(i))
      BY <1>6 DEF CodeWritten
    <2>1. primary[i] \in Row /\ ColumnCode(i) \in Row /\ i \in Ids
      BY RowTypes DEF Inv, Stored
    <2>2. /\ primary' = [primary EXCEPT ![i] = ColumnCode(i)]
          /\ replica' = replica
      BY DEF Write
    <2>3. Stored(primary)' = Stored(primary)
      BY <2>1, <2>2, Markers DEF Inv, TypeOK, Stored
    <2>4. ColumnCode(i).code = DocCode[i]
      BY <2>1 DEF ColumnCode, Row
    <2>5. (\A j \in Stored(primary) : primary[j].code \in {NoCode, DocCode[j]})'
      BY <2>1, <2>2, <2>3, <2>4 DEF Inv, TypeOK, Tables, Stored
    <2>6. \A j \in Stored(primary) : primary'[j].phone = primary[j].phone
      BY <1>1, AdvanceKeeps
    <2>7. OneRowPerPhone'
      BY <2>3, <2>6 DEF OneRowPerPhone, Inv, Tables
    <2>8. \A j \in Stored(replica') : Version(primary', j, replica'[j])
      BY <1>2, <2>2 DEF Stored
    <2> QED
      BY <1>1, <2>1, <2>5, <2>7, <2>8, LogKept DEF Tables
  <1> QED
    BY <1>3, <1>4, <1>5, <1>6, TableSteps
-----------------------------------------------------------------------------
(* What the replica still has to learn.                                      *)

(* The replica has row i as the primary has it, or the last commit of row i *)
(* in the log is that version.                                              *)
RowSynced(i) ==
    \/ replica[i] = primary[i] /\ \A k \in 1..Len(wal) : wal[k][1] # i
    \/ \E k \in 1..Len(wal) : /\ wal[k] = <<i, primary[i]>>
                              /\ \A m \in (k + 1)..Len(wal) : wal[m][1] # i

Synced == HasReplica => \A i \in Ids : RowSynced(i)

(* A write leaves its own version at the end of the log. *)
LEMMA SyncedWrite ==
    ASSUME TypeOK, HasReplica, NEW j \in Ids, NEW row \in Row, Write(j, row),
           NEW i \in Ids, RowSynced(i)
    PROVE  RowSynced(i)'
  <1>1. /\ Len(wal') = Len(wal) + 1 /\ Len(wal) \in Nat
        /\ wal'[Len(wal) + 1] = <<j, row>>
        /\ \A k \in 1..Len(wal) : wal'[k] = wal[k]
    BY DEF Write, TypeOK
  <1>2. replica' = replica /\ primary' = [primary EXCEPT ![j] = row]
    BY DEF Write
  <1>3. CASE i = j
    <2>1. wal'[Len(wal) + 1] = <<i, primary'[i]>>
      BY <1>1, <1>2, <1>3 DEF TypeOK
    <2> QED
      BY <1>1, <2>1 DEF RowSynced
  <1>4. CASE i # j
    <2>1. primary'[i] = primary[i] /\ wal'[Len(wal) + 1][1] # i
      BY <1>1, <1>2, <1>4 DEF TypeOK
    <2>2. CASE \A k \in 1..Len(wal) : wal[k][1] # i
      <3>1. \A k \in 1..Len(wal') : wal'[k][1] # i
        BY <1>1, <2>1, <2>2
      <3> QED
        BY <1>2, <2>1, <2>2, <3>1 DEF RowSynced
    <2>3. ASSUME NEW k \in 1..Len(wal), wal[k] = <<i, primary[i]>>,
                 \A m \in (k + 1)..Len(wal) : wal[m][1] # i
          PROVE  RowSynced(i)'
      <3>1. k \in 1..Len(wal') /\ wal'[k] = <<i, primary'[i]>>
        BY <1>1, <2>1, <2>3
      <3>2. \A m \in (k + 1)..Len(wal') : wal'[m][1] # i
        BY <1>1, <2>1, <2>3
      <3> QED
        BY <3>1, <3>2 DEF RowSynced
    <2> QED
      BY <2>2, <2>3 DEF RowSynced
  <1> QED
    BY <1>3, <1>4

(* Replaying the oldest commit loses none. *)
LEMMA SyncedReplay ==
    ASSUME TypeOK, Replicate, NEW i \in Ids, RowSynced(i)
    PROVE  RowSynced(i)'
  <1>1. /\ wal \in Seq(Ids \X Row) /\ Len(wal) \in Nat \ {0}
        /\ Len(wal') = Len(wal) - 1
        /\ \A k \in 1..Len(wal') : wal'[k] = wal[k + 1] /\ k + 1 \in 1..Len(wal)
    BY DEF Replicate, TypeOK
  <1>2. /\ replica' = [replica EXCEPT ![wal[1][1]] = wal[1][2]]
        /\ primary' = primary
    <2>1. Head(wal) = wal[1]
      BY <1>1
    <2> QED
      BY <2>1 DEF Replicate
  <1>3. CASE replica[i] = primary[i] /\ \A k \in 1..Len(wal) : wal[k][1] # i
    <2>1. replica'[i] = replica[i]
      BY <1>1, <1>2, <1>3 DEF TypeOK
    <2>2. \A k \in 1..Len(wal') : wal'[k][1] # i
      BY <1>1, <1>3
    <2> QED
      BY <1>2, <1>3, <2>1, <2>2 DEF RowSynced
  <1>4. ASSUME NEW k \in 1..Len(wal), wal[k] = <<i, primary[i]>>,
               \A m \in (k + 1)..Len(wal) : wal[m][1] # i
        PROVE  RowSynced(i)'
    <2>1. CASE k = 1
      <3>1. replica'[i] = primary'[i]
        BY <1>2, <1>4, <2>1 DEF TypeOK
      <3>2. \A m \in 1..Len(wal') : wal'[m][1] # i
        BY <1>1, <1>4, <2>1
      <3> QED
        BY <3>1, <3>2 DEF RowSynced
    <2>2. CASE k # 1
      <3>1. k - 1 \in 1..Len(wal') /\ (k - 1) + 1 = k
        BY <1>1, <2>2
      <3>2. wal'[k - 1] = <<i, primary'[i]>>
        BY <1>1, <1>2, <1>4, <3>1
      <3>3. \A m \in ((k - 1) + 1)..Len(wal') : wal'[m][1] # i
        BY <1>1, <1>4
      <3> QED
        BY <3>1, <3>2, <3>3 DEF RowSynced
    <2> QED
      BY <2>1, <2>2
  <1> QED
    BY <1>3, <1>4 DEF RowSynced

(* No step makes the replica lose a commit. *)
LEMMA SyncedStep == Inv /\ Synced /\ [Next]_vars => Synced'
  <1> SUFFICES ASSUME Inv, Synced, [Next]_vars, HasReplica, NEW i \in Ids
               PROVE  RowSynced(i)'
    BY DEF Synced
  <1>1. RowSynced(i) /\ TypeOK
    BY DEF Synced, Inv
  <1>2. CASE UNCHANGED dbVars
    BY <1>1, <1>2 DEF dbVars, RowSynced
  <1>3. CASE Replicate
    BY <1>1, <1>3, SyncedReplay
  <1>4. CASE NewApplication
    <2> PICK r \in Submits, j \in Ids \ Stored(primary) :
            pc[r] = "insert" /\ Write(j, NewRow(form[r]))
      BY <1>4 DEF NewApplication
    <2>1. form[r] \in Form
      BY SlotsDisjoint DEF Inv, Flow, Requests
    <2> QED
      BY <1>1, <2>1, RowTypes, SyncedWrite
  <1>5. CASE CodeWritten
    <2> PICK j \in Stored(primary) : Write(j, ColumnCode(j))
      BY <1>5 DEF CodeWritten
    <2>1. j \in Ids /\ ColumnCode(j) \in Row
      BY <1>1, RowTypes DEF Stored
    <2> QED
      BY <1>1, <2>1, SyncedWrite
  <1> QED
    BY <1>2, <1>3, <1>4, <1>5, TableSteps

(* A row the replica has nothing to learn about is seen as it is. *)
LEMMA ViewCurrent ==
    ASSUME Synced, NEW i \in Ids, ~Lagging(i)
    PROVE  View[i] = primary[i]
  <1>1. CASE HasReplica
    <2>1. \A k \in 1..Len(wal) : wal[k][1] # i
      BY <1>1 DEF Lagging
    <2>2. ~\E k \in 1..Len(wal) : wal[k] = <<i, primary[i]>>
      BY <2>1
    <2>3. replica[i] = primary[i]
      BY <1>1, <2>2 DEF Synced, RowSynced
    <2> QED
      BY <1>1, <2>3 DEF View
  <1>2. CASE ~HasReplica
    BY <1>2 DEF View
  <1> QED
    BY <1>1, <1>2
-----------------------------------------------------------------------------
(* What requests have in hand.                                               *)

Unmoved(r) ==
    /\ pc'[r] = pc[r] /\ reply'[r] = reply[r]
    /\ form'[r] = form[r] /\ hand'[r] = hand[r] /\ card'[r] = card[r]

(* A request's step touches no other request. *)
LEMMA OthersUnmoved ==
    ASSUME TypeOK, NEW r \in Requests, NEW q \in Requests \ {r},
           Arrive(r) \/ ArriveScan(r) \/ Serve(r) \/ Kill(r) \/ Reuse(r)
    PROVE  Unmoved(q)
  <1> USE DEF TypeOK, Unmoved, Goto, Answer
  <1>1. CASE Arrive(r) \/ ArriveScan(r) \/ BotCheckFails(r) \/ Screen(r)
    BY <1>1 DEF Arrive, ArriveScan, BotCheckFails, Screen
  <1>2. CASE Insert(r) \/ InsertDuplicate(r) \/ InsertFails(r)
    BY <1>2 DEF Insert, InsertDuplicate, InsertFails
  <1>3. CASE Seed(r) \/ SeedFails(r) \/ Backfill(r) \/ BackfillFails(r)
    BY <1>3 DEF Seed, SeedFails, Backfill, BackfillFails
  <1>4. CASE ReadCard(r) \/ ReadScan(r) \/ ReadFails(r)
    BY <1>4 DEF ReadCard, ReadScan, ReadFails
  <1>5. CASE Respond(r) \/ Kill(r) \/ Reuse(r)
    BY <1>5 DEF Respond, Kill, Reuse
  <1> QED
    BY <1>1, <1>2, <1>3, <1>4, <1>5 DEF Serve

(* What a request holds stays true of the tables while they advance. *)
LEMMA HoldsKept ==
    ASSUME Inv, Advance, TypeOK', NEW r \in Requests,
           form'[r] = form[r], hand'[r] = hand[r], card'[r] = card[r]
    PROVE  /\ HoldsOwn(r) => HoldsOwn(r)'
           /\ HoldsCard(r) => HoldsCard(r)'
           /\ HoldsScan(r) => HoldsScan(r)'
           /\ PhoneTaken(form[r].phone) => PhoneTaken(form[r].phone)'
  <1>1. HoldsOwn(r) => HoldsOwn(r)'
    BY AdvanceKeeps DEF HoldsOwn
  <1>2. HoldsCard(r) => HoldsCard(r)'
    BY AdvanceKeeps DEF HoldsCard
  <1>3. HoldsScan(r) => HoldsScan(r)'
    BY AdvanceKeeps, Markers DEF HoldsScan
  <1>4. PhoneTaken(form[r].phone) => PhoneTaken(form[r].phone)'
    BY AdvanceKeeps DEF PhoneTaken
  <1> QED
    BY <1>1, <1>2, <1>3, <1>4

(* What an unmoved request has in hand, it still has. *)
LEMMA HandsKept ==
    ASSUME Inv, Advance, TypeOK', NEW r \in Requests, Unmoved(r)
    PROVE  HandsOf(r)'
  BY HoldsKept DEF Unmoved, HandsOf, Inv, Hands

(* A row read from the view, stale or not, is a version of a stored row. *)
LEMMA ViewVersion ==
    ASSUME Inv, NEW i \in Stored(View)
    PROVE  Version(primary, i, View[i])
  BY RowTypes DEF View, Inv, Tables, Version, Stored

(* A read that finds nothing is the reader's own step, and what it searched *)
(* held nothing.                                                            *)
LEMMA MissedRead ==
    ASSUME Inv, Next, NEW q \in Requests, pc[q] = "read"
    PROVE  /\ q \in Lookups /\ reply'[q] = "404" => CardsOf(form[q]) = {}
           /\ q \in Scans /\ reply'[q] = "invalid" => RowsWithCode(card[q]) = {}
  <1> SUFFICES ASSUME reply'[q] \in {"404", "invalid"}
               PROVE  /\ q \in Lookups /\ reply'[q] = "404" => CardsOf(form[q]) = {}
                      /\ q \in Scans /\ reply'[q] = "invalid" => RowsWithCode(card[q]) = {}
    OBVIOUS
  <1>1. reply[q] = "none"
    BY DEF Inv, Flow
  <1>2. PICK r \in Requests : Arrive(r) \/ ArriveScan(r) \/ Serve(r) \/ Kill(r) \/ Reuse(r)
    BY <1>1 DEF Next, Replicate
  <1>3. r = q
    BY <1>1, <1>2, OthersUnmoved DEF Inv, Unmoved
  <1>4. ~ReadFails(q) /\ ~Kill(q)
    BY DEF ReadFails, Kill, Answer, Inv, TypeOK
  <1>5. ~(Arrive(q) \/ ArriveScan(q) \/ Respond(q) \/ Reuse(q))
    BY DEF Arrive, ArriveScan, Respond, Reuse
  <1>6. ~(BotCheckFails(q) \/ Screen(q) \/ Insert(q) \/ InsertDuplicate(q) \/ InsertFails(q))
    BY DEF BotCheckFails, Screen, Insert, InsertDuplicate, InsertFails
  <1>7. ~(Seed(q) \/ SeedFails(q) \/ Backfill(q) \/ BackfillFails(q))
    BY DEF Seed, SeedFails, Backfill, BackfillFails
  <1>8. ReadCard(q) \/ ReadScan(q)
    BY <1>2, <1>3, <1>4, <1>5, <1>6, <1>7 DEF Serve
  <1>9. ReadCard(q) => q \in Lookups /\ (reply'[q] = "404" => CardsOf(form[q]) = {})
    BY <1>1 DEF ReadCard, Inv, TypeOK, Answer, Goto
  <1>10. ReadScan(q) => q \in Scans /\ (reply'[q] = "invalid" => RowsWithCode(card[q]) = {})
    BY <1>1 DEF ReadScan, Inv, TypeOK, Answer, Goto
  <1> QED
    BY <1>8, <1>9, <1>10, SlotsDisjoint

(* Every step leaves every request with what it should have in hand. *)
LEMMA HandsStep == Inv /\ [Next]_vars => Hands'
  <1> SUFFICES ASSUME Inv, [Next]_vars
               PROVE  Hands'
    OBVIOUS
  <1>1. TypeOK' /\ Advance
    BY TypeStep, AdvanceStep
  <1>2. CASE UNCHANGED vars \/ Replicate
    <2>1. \A r \in Requests : Unmoved(r)
      BY <1>2 DEF vars, Replicate, Unmoved
    <2> QED
      BY <1>1, <2>1, HandsKept DEF Hands
  <1>3. ASSUME NEW r \in Requests,
               Arrive(r) \/ ArriveScan(r) \/ Serve(r) \/ Kill(r) \/ Reuse(r)
        PROVE  Hands'
    <2>1. \A q \in Requests \ {r} : HandsOf(q)'
      BY <1>1, <1>3, HandsKept, OthersUnmoved DEF Inv
    <2> SUFFICES HandsOf(r)'
      BY <2>1 DEF Hands
    <2> USE SlotsDisjoint DEF HandsOf, TypeOK, Goto, Answer
    <2>2. CASE \/ Arrive(r) \/ ArriveScan(r) \/ BotCheckFails(r) \/ Screen(r)
               \/ InsertFails(r) \/ ReadFails(r) \/ Kill(r) \/ Reuse(r)
      <3>1. pc'[r] \notin {"seed", "backfill"} /\ reply'[r] \notin {"201", "409", "200", "valid"}
        BY <2>2
        DEF Arrive, ArriveScan, BotCheckFails, Screen, InsertFails, ReadFails, Kill, Reuse,
            Inv, Flow
      <3> QED
        BY <3>1
    <2>3. CASE Insert(r)
      <3>1. PICK i \in Ids \ Stored(primary) :
                Write(i, NewRow(form[r])) /\ hand' = [hand EXCEPT ![r] = i]
        BY <2>3 DEF Insert
      <3>2. r \in Submits /\ form[r] \in Form /\ pc'[r] = "seed" /\ reply'[r] = "none"
            /\ form'[r] = form[r]
        BY <2>3 DEF Insert, Inv, Flow
      <3>3. hand'[r] = i /\ primary'[i] = NewRow(form[r])
        BY <3>1 DEF Write, Inv
      <3>4. HoldsOwn(r)'
        BY <3>2, <3>3, RowTypes, Markers DEF HoldsOwn, Stored, NewRow
      <3> QED
        BY <3>2, <3>4
    <2>4. CASE InsertDuplicate(r)
      <3>1. PhoneTaken(form[r].phone) /\ r \in Submits
        BY <2>4 DEF InsertDuplicate, Inv, Flow
      <3>2. pc'[r] = "respond" /\ reply'[r] = "409" /\ PhoneTaken(form[r].phone)'
        BY <1>1, <2>4, <3>1, HoldsKept DEF InsertDuplicate, Inv
      <3> QED
        BY <3>1, <3>2
    <2>5. CASE Seed(r) \/ SeedFails(r)
      <3>1. r \in Submits /\ HoldsOwn(r)
        BY <2>5 DEF Seed, SeedFails, Inv, Flow, Hands
      <3>2. form' = form /\ hand' = hand /\ card' = card /\ pc'[r] = "respond" /\ reply'[r] = "201"
        BY <2>5 DEF Seed, SeedFails, Inv
      <3> QED
        BY <1>1, <3>1, <3>2, HoldsKept
    <2>6. CASE ReadCard(r)
      <3>1. r \in Lookups /\ form'[r] = form[r] /\ primary' = primary
        BY <2>6 DEF ReadCard, dbVars
      <3>2. CASE reply'[r] = "404" /\ pc'[r] = "respond"
        BY <3>1, <3>2
      <3>3. ASSUME NEW i \in CardsOf(form[r]), hand' = [hand EXCEPT ![r] = i],
                   View[i].code # NoCode => card' = [card EXCEPT ![r] = View[i].code],
                   View[i].code = NoCode => card' = [card EXCEPT ![r] = DocCode[i]]
            PROVE  HoldsCard(r)'
        <4>1. Version(primary, i, View[i]) /\ i \in Ids
          BY ViewVersion DEF CardsOf, Stored
        <4>2. hand'[r] = i /\ card'[r] = DocCode[i]
          BY <3>3, <4>1 DEF Version, Inv, Tables
        <4>3. PhoneDobKey(primary[i].phone, primary[i].dob) = PhoneDobKey(form[r].phone, form[r].dob)
          BY <4>1 DEF Version, CardsOf
        <4> QED
          BY <3>1, <4>1, <4>2, <4>3 DEF HoldsCard, Version
      <3>4. (reply'[r] = "404" /\ pc'[r] = "respond") \/ HoldsCard(r)'
        BY <2>6, <3>3 DEF ReadCard, Inv
      <3> QED
        BY <3>1, <3>2, <3>4
    <2>7. CASE Backfill(r) \/ BackfillFails(r)
      <3>1. r \in Lookups /\ HoldsCard(r)
        BY <2>7 DEF Backfill, BackfillFails, Inv, Flow, Hands
      <3>2. form' = form /\ hand' = hand /\ card' = card
        BY <2>7 DEF Backfill, BackfillFails
      <3> QED
        BY <1>1, <3>1, <3>2, HoldsKept
    <2>8. CASE ReadScan(r)
      <3>1. r \in Scans /\ card'[r] = card[r] /\ card[r] \in Codes /\ primary' = primary
        BY <2>8 DEF ReadScan, Inv, Flow, dbVars
      <3>2. CASE reply'[r] = "invalid"
        BY <3>1, <3>2
      <3>3. ASSUME NEW i \in RowsWithCode(card[r]), hand' = [hand EXCEPT ![r] = i]
            PROVE  HoldsScan(r)'
        <4>1. Version(primary, i, View[i]) /\ View[i].code = card[r] /\ i \in Ids
          BY ViewVersion DEF RowsWithCode, Stored
        <4>2. hand'[r] = i /\ primary[i].code = card[r]
          BY <3>1, <3>3, <4>1, Markers DEF Version, Inv
        <4> QED
          BY <3>1, <4>1, <4>2 DEF HoldsScan, Version
      <3> QED
        BY <2>8, <3>1, <3>2, <3>3 DEF ReadScan, Inv
    <2>9. CASE Respond(r)
      <3>1. HandsOf(r) /\ pc'[r] = "done" /\ reply' = reply
            /\ form' = form /\ hand' = hand /\ card' = card
        BY <2>9 DEF Respond, Inv, Hands
      <3> QED
        BY <1>1, <3>1, HoldsKept
    <2> QED
      BY <1>3, <2>2, <2>3, <2>4, <2>5, <2>6, <2>7, <2>8, <2>9 DEF Serve
  <1> QED
    BY <1>2, <1>3 DEF Next
-----------------------------------------------------------------------------
(* What the validator lets through.                                          *)

(* A request that got past the validator, and so its form, was accepted by  *)
(* it; and so was whatever is stored.                                       *)
PastScreen(r) ==
    \/ pc[r] \in {"insert", "seed", "read", "backfill"}
    \/ reply[r] \in {"201", "409", "200", "404"}

Accepted(r) == form[r] \in Form /\ Valid(r)

Screened ==
    /\ \A r \in Submits \cup Lookups : PastScreen(r) => Accepted(r)
    /\ \A i \in Stored(primary) : BdPhone(primary[i].phone) /\ DateStr(primary[i].dob)

(* A request gets past the validator by passing it. *)
LEMMA PastScreenStep ==
    ASSUME Inv, NEW r \in Submits \cup Lookups, PastScreen(r) => Accepted(r),
           Arrive(r) \/ ArriveScan(r) \/ Serve(r) \/ Kill(r) \/ Reuse(r)
    PROVE  PastScreen(r)' => Accepted(r)'
  <1> USE SlotsDisjoint DEF PastScreen, Goto, Answer, Inv, TypeOK, Flow, Requests
  <1>1. CASE form' = form /\ (PastScreen(r)' => PastScreen(r))
    BY <1>1 DEF Accepted, Valid
  <1>2. CASE Arrive(r)
    <2>1. pc'[r] \in {"check", "respond"} /\ reply'[r] \in {"none", "400"}
      BY <1>2 DEF Arrive
    <2> QED
      BY <2>1
  <1>3. CASE Screen(r)
    <2>1. form' = form /\ form[r] \in Form
      BY <1>3 DEF Screen
    <2>2. ~Valid(r) => ~PastScreen(r)'
      BY <1>3 DEF Screen
    <2> QED
      BY <2>1, <2>2 DEF Accepted, Valid
  <1>4. CASE Reuse(r)
    BY <1>4 DEF Reuse
  <1>5. CASE ArriveScan(r) \/ ReadScan(r)
    BY <1>5 DEF ArriveScan, ReadScan
  <1>6. CASE BotCheckFails(r) \/ Kill(r)
    BY <1>6 DEF BotCheckFails, Kill
  <1>7. CASE Insert(r) \/ InsertDuplicate(r) \/ InsertFails(r)
    BY <1>1, <1>7 DEF Insert, InsertDuplicate, InsertFails
  <1>8. CASE Seed(r) \/ SeedFails(r) \/ Backfill(r) \/ BackfillFails(r)
    BY <1>1, <1>8 DEF Seed, SeedFails, Backfill, BackfillFails
  <1>9. CASE ReadCard(r) \/ ReadFails(r)
    BY <1>1, <1>9 DEF ReadCard, ReadFails
  <1>10. CASE Respond(r)
    BY <1>1, <1>10 DEF Respond
  <1> QED
    BY <1>2, <1>3, <1>4, <1>5, <1>6, <1>7, <1>8, <1>9, <1>10 DEF Serve

(* Nothing gets into the table, or past the validator, unscreened. *)
LEMMA ScreenedStep == Inv /\ Screened /\ [Next]_vars => Screened'
  <1> SUFFICES ASSUME Inv, Screened, [Next]_vars
               PROVE  Screened'
    OBVIOUS
  <1>1. ASSUME NEW q \in Submits \cup Lookups
        PROVE  PastScreen(q)' => Accepted(q)'
    <2>1. CASE Unmoved(q)
      BY <2>1 DEF Unmoved, Screened, PastScreen, Accepted, Valid
    <2>2. CASE UNCHANGED vars \/ Replicate
      BY <2>1, <2>2 DEF vars, Replicate, Unmoved
    <2>3. ASSUME NEW r \in Requests,
                 Arrive(r) \/ ArriveScan(r) \/ Serve(r) \/ Kill(r) \/ Reuse(r)
          PROVE  PastScreen(q)' => Accepted(q)'
      <3>1. CASE r = q
        BY <2>3, <3>1, PastScreenStep DEF Screened
      <3>2. CASE r # q
        BY <2>1, <2>3, <3>2, OthersUnmoved DEF Inv, Requests
      <3> QED
        BY <3>1, <3>2
    <2> QED
      BY <2>2, <2>3 DEF Next
  <1>2. ASSUME NEW i \in Stored(primary)'
        PROVE  BdPhone(primary'[i].phone) /\ DateStr(primary'[i].dob)
    <2>1. CASE i \in Stored(primary)
      <3>1. primary'[i].phone = primary[i].phone /\ primary'[i].dob = primary[i].dob
        BY <2>1, AdvanceStep, AdvanceKeeps, TypeStep
      <3> QED
        BY <2>1, <3>1 DEF Screened
    <2>2. CASE i \notin Stored(primary)
      <3>1. ~UNCHANGED dbVars /\ ~Replicate /\ ~CodeWritten
        BY <2>2 DEF dbVars, Replicate, CodeWritten, Write, Stored, Inv, TypeOK
      <3>2. PICK r \in Submits, j \in Ids \ Stored(primary) :
                pc[r] = "insert" /\ Write(j, NewRow(form[r]))
        BY <3>1, TableSteps DEF NewApplication
      <3>3. i = j /\ primary'[i] = NewRow(form[r])
        BY <2>2, <3>2 DEF Write, Stored, Inv, TypeOK
      <3>4. Valid(r)
        BY <3>2 DEF Screened, PastScreen, Accepted
      <3> QED
        BY <3>3, <3>4 DEF NewRow, Valid
    <2> QED
      BY <2>1, <2>2
  <1> QED
    BY <1>1, <1>2 DEF Screened

(* A stored application is filed under one of two dialling prefixes. *)
LEMMA StoredPrefixes ==
    ASSUME Screened, NEW i \in Stored(primary)
    PROVE  PhoneKey(primary[i].phone) \in {<<"0", primary[i].phone.number>>,
                                           <<"880", primary[i].phone.number>>}
  BY DEF Screened, BdPhone, PhoneKey

(* Accepted phones and dates that agree in their lookup key are of one      *)
(* number and one day: no normalisation mixes up two people.                *)
LEMMA KeysTellApart ==
    ASSUME NEW p, NEW q, NEW d \in Date, NEW e \in Date, DateStr(d), DateStr(e),
           PhoneDobKey(p, d) = PhoneDobKey(q, e)
    PROVE  p.number = q.number /\ d.day = e.day
  <1>1. PhoneKey(p) = PhoneKey(q) /\ NormalizeDate(d) = NormalizeDate(e)
    BY DEF PhoneDobKey
  <1>2. p.number = q.number
    BY <1>1 DEF PhoneKey
  <1>3. NormalizeDate(d).day = d.day /\ NormalizeDate(e).day = e.day
    BY DEF NormalizeDate, Date
  <1> QED
    BY <1>1, <1>2, <1>3

(* And accepted phones and dates of one number and one day agree in it, when*)
(* both phones have the country code or neither has.                        *)
LEMMA KeysAgree ==
    ASSUME NEW p \in Phone, NEW q \in Phone, BdPhone(p), BdPhone(q),
           NEW d \in Date, NEW e \in Date, DateStr(d), DateStr(e),
           p.number = q.number, d.day = e.day, Dialled(p) = Dialled(q)
    PROVE  PhoneDobKey(p, d) = PhoneDobKey(q, e)
  <1>1. PhoneKey(p) = PhoneKey(q)
    BY DEF BdPhone, Dialled, PhoneKey
  <1>2. NormalizeDate(d) = [layout |-> "yyyy-mm-dd", day |-> d.day]
    BY DEF NormalizeDate, Date
  <1>3. NormalizeDate(e) = [layout |-> "yyyy-mm-dd", day |-> e.day]
    BY DEF NormalizeDate, Date
  <1> QED
    BY <1>1, <1>2, <1>3 DEF PhoneDobKey
-----------------------------------------------------------------------------
(* The safety properties.                                                    *)

(* The strengthened invariant holds of every reachable state: the types,    *)
(* the flow of a request, the tables and what requests have in hand.        *)
THEOREM InvHolds == Spec => []Inv
  <1>1. Init => Inv
    BY MaxFaultsAssumption, Markers
    DEF Init, Inv, TypeOK, Steps, Replies, Flow, Tables, Stored, OneRowPerPhone, Hands, HandsOf
  <1>2. Inv /\ [Next]_vars => Inv'
    BY TypeStep, FlowStep, TablesStep, HandsStep DEF Inv
  <1> QED
    BY <1>1, <1>2, PTL DEF Spec

(* Every variable keeps its type. *)
THEOREM TypeCorrect == Spec => []TypeOK
  <1>1. Inv => TypeOK
    BY DEF Inv
  <1> QED
    BY <1>1, InvHolds, PTL

(* The replica never loses or reorders a commit: it has each row as the     *)
(* primary has it, or the log ends, for that row, in the primary's version. *)
THEOREM ReplicaFollows == Spec => []Synced
  <1>1. Init => Synced
    BY DEF Init, Synced, RowSynced
  <1>2. Inv /\ Synced /\ [Next]_vars => Synced'
    BY SyncedStep
  <1> QED
    BY <1>1, <1>2, InvHolds, PTL DEF Spec

(* A 201 is only ever sent for an application that the primary holds: the   *)
(* reply of CreateApplication is never ahead of its INSERT.                 *)
THEOREM AcknowledgedIsStored == Spec => []AckedIsStored
  <1>1. Inv => AckedIsStored
    BY DEF Inv, Hands, HandsOf, HoldsOwn, AckedIsStored, Requests
  <1> QED
    BY <1>1, InvHolds, PTL

(* No interleaving of submissions gives one phone key two rows. *)
THEOREM PhonesAreUnique == Spec => []OneRowPerPhone
  <1>1. Inv => OneRowPerPhone
    BY DEF Inv, Tables
  <1> QED
    BY <1>1, InvHolds, PTL

(* A 409 is only ever sent to somebody whose phone key has a row. *)
THEOREM ConflictsAreReal == Spec => []ConflictIsReal
  <1>1. Inv => ConflictIsReal
    BY DEF Inv, Hands, HandsOf, ConflictIsReal, Requests
  <1> QED
    BY <1>1, InvHolds, PTL

(* A lookup shows the visitor's own row and that row's code, whether it was *)
(* read from the primary or from a replica any number of commits behind.    *)
THEOREM CardsAreOwn == Spec => []CardIsOwn
  <1>1. Inv => CardIsOwn
    BY DEF Inv, Hands, HandsOf, HoldsCard, CardIsOwn, Requests
  <1> QED
    BY <1>1, InvHolds, PTL

(* "valid" is only ever said of a code that the primary holds. *)
THEOREM ScansAreTruthful == Spec => []ScanIsTruthful
  <1>1. Inv => ScanIsTruthful
    BY DEF Inv, Hands, HandsOf, HoldsScan, ScanIsTruthful, Requests
  <1> QED
    BY <1>1, InvHolds, PTL

(* No step deletes or rewrites a row, except to give it its missing code. *)
THEOREM RowsNeverChange == Spec => RowsOnlyGainCode
  <1>1. Inv /\ [Next]_vars => [Advance]_primary
    BY AdvanceStep
  <1>2. Inv /\ [Next]_vars => [\A i \in Stored(primary) :
          \/ primary'[i] = primary[i]
          \/ primary[i].code = NoCode /\ primary'[i] = ColumnCode(i)]_primary
    BY <1>1 DEF Advance
  <1> QED
    BY <1>2, InvHolds, PTL DEF Spec, RowsOnlyGainCode

(* Whether or not codes collide, no two rows ever carry one code.           *)
THEOREM StoredCodesDiffer == Spec => []CodesAreUnique
  <1>1. Init => CodesAreUnique
    BY DEF Init, CodesAreUnique, Stored
  <1>2. Inv /\ CodesAreUnique /\ [Next]_vars => CodesAreUnique'
    <2> SUFFICES ASSUME Inv, CodesAreUnique, [Next]_vars
                 PROVE  CodesAreUnique'
      OBVIOUS
    <2>1. CASE UNCHANGED dbVars \/ Replicate
      BY <2>1 DEF dbVars, Replicate, CodesAreUnique, Stored
    <2>2. CASE NewApplication
      BY <2>2 DEF NewApplication, Write, NewRow, CodesAreUnique, Stored, Inv, TypeOK
    <2>3. CASE CodeWritten
      <3> PICK i \in Stored(primary) : CodeFree(i, DocCode[i]) /\ Write(i, ColumnCode(i))
        BY <2>3 DEF CodeWritten
      <3>1. /\ primary' = [primary EXCEPT ![i] = ColumnCode(i)]
            /\ ColumnCode(i) \in Row /\ ColumnCode(i).code = DocCode[i]
        BY RowTypes DEF Write, Inv, ColumnCode, Row, Stored
      <3>2. \A j \in Stored(primary)' \ {i} : j \in Stored(primary) /\ primary'[j] = primary[j]
        BY <3>1 DEF Stored, Inv, TypeOK
      <3>3. primary'[i].code = DocCode[i]
        BY <3>1 DEF Stored, Inv, TypeOK
      <3> QED
        BY <3>2, <3>3 DEF CodeFree, CodesAreUnique
    <2> QED
      BY <2>1, <2>2, <2>3, TableSteps
  <1> QED
    BY <1>1, <1>2, InvHolds, PTL DEF Spec

(* With codes that differ from id to id, a code shown on a card resolves to *)
(* the row it was printed for or to none.  The 40 bits of DocCode make that *)
(* hypothesis likely, not certain.                                          *)
THEOREM ScansResolve ==
    ASSUME \A i, j \in Ids : DocCode[i] = DocCode[j] => i = j
    PROVE  Spec => []ScanResolvesToIssuer
  <1>1. Inv => ScanResolvesToIssuer
    <2> SUFFICES ASSUME Inv, NEW s \in Scans, NEW l \in Lookups,
                        reply[s] = "valid", reply[l] = "200", card[s] = card[l]
                 PROVE  hand[s] = hand[l]
      BY DEF ScanResolvesToIssuer
    <2>1. HoldsScan(s) /\ HoldsCard(l)
      BY DEF Inv, Hands, HandsOf, Requests
    <2>2. primary[hand[s]].code = DocCode[hand[s]]
      BY <2>1, Markers DEF HoldsScan, Inv, Tables
    <2> QED
      BY <2>1, <2>2 DEF HoldsScan, HoldsCard, Stored
  <1> QED
    BY <1>1, InvHolds, PTL

(* While no call has failed, the code on a shown card is in the database:   *)
(* the conditional backfill never misses a row that still needs its code.   *)
THEOREM CleanCardsAreStored ==
    ASSUME \A i, j \in Ids : DocCode[i] = DocCode[j] => i = j
    PROVE  Spec => []CleanRunStoresCards
  <1>1. Init => CleanRunStoresCards
    BY DEF Init, CleanRunStoresCards, Requests
  <1>2. Inv /\ CleanRunStoresCards /\ [Next]_vars => CleanRunStoresCards'
    <2> SUFFICES ASSUME Inv, CleanRunStoresCards, [Next]_vars, faults' = 0,
                        NEW l \in Lookups, reply'[l] = "200"
                 PROVE  primary'[hand'[l]].code = card'[l]
      BY DEF CleanRunStoresCards
    <2>1. TypeOK' /\ Advance /\ l \in Requests
      BY TypeStep, AdvanceStep DEF Requests
    <2>2. CASE Unmoved(l) /\ faults = 0
      <3>1. HoldsCard(l) /\ primary[hand[l]].code = card[l]
        BY <2>1, <2>2 DEF Unmoved, CleanRunStoresCards, Inv, Hands, HandsOf
      <3>2. primary[hand[l]].code # NoCode
        BY <3>1, DocCodeAssumption, Markers DEF HoldsCard, Stored
      <3> QED
        BY <2>1, <2>2, <3>1, <3>2, AdvanceKeeps DEF Unmoved, HoldsCard
    <2>3. CASE UNCHANGED vars \/ Replicate
      BY <2>2, <2>3 DEF vars, Replicate, Unmoved
    <2>4. ASSUME NEW r \in Requests,
                 Arrive(r) \/ ArriveScan(r) \/ Serve(r) \/ Kill(r) \/ Reuse(r)
          PROVE  primary'[hand'[l]].code = card'[l]
      <3>1. faults = 0 /\ ~Fault
        BY <2>4
        DEF Inv, TypeOK, Fault, Arrive, ArriveScan, Serve, BotCheckFails, Screen, Insert,
            InsertDuplicate, InsertFails, Seed, SeedFails, ReadCard, Backfill, BackfillFails,
            ReadScan, ReadFails, Respond, Kill, Reuse
      <3>2. CASE r # l
        BY <2>1, <2>2, <2>4, <3>1, <3>2, OthersUnmoved DEF Inv
      <3>3. CASE r = l /\ ReadCard(r)
        <4>1. primary' = primary /\ reply[l] = "none"
          BY <2>1, <3>3 DEF ReadCard, dbVars, Inv, Flow
        <4>2. PICK i \in CardsOf(form[l]) :
                  hand'[l] = i /\ View[i].code # NoCode /\ card'[l] = View[i].code
          BY <2>1, <3>3, <4>1 DEF ReadCard, Answer, Goto, Inv, TypeOK
        <4>3. Version(primary, i, View[i])
          BY ViewVersion DEF CardsOf
        <4> QED
          BY <4>1, <4>2, <4>3 DEF Version
      <3>4. CASE r = l /\ Backfill(r)
        <4>1. HoldsCard(l) /\ hand[l] \in Ids /\ hand' = hand /\ card' = card
          BY <2>1, <3>4 DEF Backfill, Inv, Flow, Hands, HandsOf, HoldsCard, Stored
        <4>2. CodeFree(hand[l], card[l])
          BY <4>1, DocCodeAssumption, Markers DEF CodeFree, HoldsCard, Inv, Tables, Stored
        <4>3. CASE primary[hand[l]].code = NoCode
          <5>1. primary' = [primary EXCEPT ![hand[l]] = ColumnCode(hand[l])]
            BY <3>4, <4>1, <4>2, <4>3 DEF Backfill, Write, HoldsCard, ColumnCode
          <5>2. primary'[hand[l]] = ColumnCode(hand[l]) /\ primary[hand[l]] \in Row
            BY <4>1, <5>1, RowTypes DEF Inv, TypeOK, HoldsCard
          <5> QED
            BY <4>1, <5>2 DEF ColumnCode, Row, HoldsCard
        <4>4. CASE primary[hand[l]].code # NoCode
          <5>1. primary' = primary
            BY <3>4, <4>4 DEF Backfill, dbVars
          <5> QED
            BY <4>1, <4>4, <5>1 DEF HoldsCard, Inv, Tables
        <4> QED
          BY <4>3, <4>4
      <3>5. CASE r = l /\ Respond(r)
        BY <2>1, <2>2, <3>1, <3>5
        DEF Respond, dbVars, CleanRunStoresCards
      <3>6. CASE r = l /\ ~ReadCard(r) /\ ~Backfill(r) /\ ~Respond(r)
        <4> USE <2>1, <3>1, <3>6, SlotsDisjoint DEF Inv, TypeOK, Flow, Goto, Answer
        <4>1. CASE Arrive(r)
          BY <4>1 DEF Arrive
        <4>2. CASE BotCheckFails(r)
          BY <4>2 DEF BotCheckFails
        <4>3. CASE ArriveScan(r)
          BY <4>3 DEF ArriveScan
        <4>4. CASE Screen(r)
          BY <4>4 DEF Screen
        <4>5. CASE Insert(r) \/ InsertDuplicate(r) \/ Seed(r)
          BY <4>5 DEF Insert, InsertDuplicate, Seed
        <4>6. CASE ReadScan(r) \/ Reuse(r)
          BY <4>6 DEF ReadScan, Reuse
        <4>7. CASE InsertFails(r) \/ SeedFails(r) \/ BackfillFails(r) \/ ReadFails(r) \/ Kill(r)
          BY <4>7 DEF InsertFails, SeedFails, BackfillFails, ReadFails, Kill
        <4> QED
          BY <2>4, <4>1, <4>2, <4>3, <4>4, <4>5, <4>6, <4>7 DEF Serve
      <3> QED
        BY <3>2, <3>3, <3>4, <3>5, <3>6
    <2> QED
      BY <2>3, <2>4 DEF Next
  <1> QED
    BY <1>1, <1>2, InvHolds, PTL DEF Spec

(* While no call has failed, a code that a card has shown is declared       *)
(* invalid only by a replica that has a commit of its row still to replay.  *)
THEOREM GenuineCodesAreFound ==
    ASSUME \A i, j \in Ids : DocCode[i] = DocCode[j] => i = j
    PROVE  Spec => GenuineOnceReplayed
  <1> DEFINE Found ==
        \A s \in Scans, l \in Lookups :
            pc[s] = "read" /\ reply'[s] = "invalid" /\ reply[l] = "200" /\ card[l] = card[s]
                => faults > 0 \/ Lagging(hand[l])
  <1>1. Inv /\ Synced /\ CleanRunStoresCards /\ [Next]_vars => [Found]_vars
    <2> SUFFICES ASSUME Inv, Synced, CleanRunStoresCards, Next, NEW s \in Scans, NEW l \in Lookups,
                        pc[s] = "read", reply'[s] = "invalid", reply[l] = "200",
                        card[l] = card[s], ~(faults > 0), ~Lagging(hand[l])
                 PROVE  FALSE
      OBVIOUS
    <2>1. faults = 0
      BY DEF Inv, TypeOK
    <2>2. HoldsCard(l) /\ primary[hand[l]].code = card[s]
      BY <2>1 DEF CleanRunStoresCards, Inv, Hands, HandsOf, Requests
    <2>3. hand[l] \in Ids /\ View[hand[l]] = primary[hand[l]]
      BY <2>2, ViewCurrent DEF HoldsCard, Stored
    <2>4. RowsWithCode(card[s]) = {}
      BY MissedRead DEF Requests
    <2> QED
      BY <2>2, <2>3, <2>4 DEF HoldsCard, RowsWithCode, Stored
  <1> QED
    BY <1>1, InvHolds, ReplicaFollows, CleanCardsAreStored, PTL DEF Spec, GenuineOnceReplayed

(* Nothing is stored, and nobody is shown a card, a conflict or a "not      *)
(* found", for a phone or a date the validator would refuse.                *)
THEOREM OnlyScreenedIsStored == Spec => []Screened
  <1>1. Init => Screened
    BY DEF Init, Screened, PastScreen, Stored, Requests
  <1>2. Inv /\ Screened /\ [Next]_vars => Screened'
    BY ScreenedStep
  <1> QED
    BY <1>1, <1>2, InvHolds, PTL DEF Spec

(* A lookup misses an application whose applicant has been told 201 only if *)
(* one was written with the country code and the other without, or if the   *)
(* replica it asks has a commit of that very row still to replay.  Split    *)
(* numbers, a "+" and the layout of the date never cost it.                 *)
THEOREM ApplicationsAreFound == Spec => ReadYourApplication
  <1> DEFINE Found ==
        \A l \in Lookups, s \in Submits :
            /\ pc[l] = "read" /\ reply'[l] = "404" /\ reply[s] = "201"
            /\ form[l].phone.number = form[s].phone.number
            /\ form[l].dob.day = form[s].dob.day
            => \/ Dialled(form[l].phone) # Dialled(form[s].phone)
               \/ Lagging(hand[s])
  <1>1. Inv /\ Synced /\ Screened /\ [Next]_vars => [Found]_vars
    <2> SUFFICES ASSUME Inv, Synced, Screened, Next, NEW l \in Lookups, NEW s \in Submits,
                        pc[l] = "read", reply'[l] = "404", reply[s] = "201",
                        form[l].phone.number = form[s].phone.number,
                        form[l].dob.day = form[s].dob.day, ~Lagging(hand[s])
                 PROVE  Dialled(form[l].phone) # Dialled(form[s].phone)
      OBVIOUS
    <2>1. HoldsOwn(s)
      BY DEF Inv, Hands, HandsOf, Requests
    <2>2. hand[s] \in Ids /\ View[hand[s]] = primary[hand[s]]
      BY <2>1, ViewCurrent DEF HoldsOwn, Stored
    <2>3. CardsOf(form[l]) = {}
      BY MissedRead DEF Requests
    <2>4. PhoneDobKey(form[l].phone, form[l].dob) # PhoneDobKey(form[s].phone, form[s].dob)
      BY <2>1, <2>2, <2>3 DEF HoldsOwn, CardsOf, Stored
    <2>5. Accepted(l) /\ Accepted(s)
      BY DEF Screened, PastScreen
    <2> QED
      BY <2>4, <2>5, KeysAgree DEF Accepted, Valid, Form
  <1> QED
    BY <1>1, InvHolds, ReplicaFollows, OnlyScreenedIsStored, PTL DEF Spec, ReadYourApplication

(* A subscriber number may have two applications, as two_writings shows,    *)
(* but never three: the validator leaves the blind index two prefixes.      *)
AtMostTwoPerNumber ==
    \A i, j, k \in Stored(primary) :
        /\ primary[i].phone.number = primary[j].phone.number
        /\ primary[j].phone.number = primary[k].phone.number
        => i = j \/ j = k \/ i = k

(* The mixed-up prefixes cost one extra application per number, no more. *)
THEOREM TwoWritingsAtMost == Spec => []AtMostTwoPerNumber
  <1>1. Inv /\ Screened => AtMostTwoPerNumber
    <2> SUFFICES ASSUME Inv, Screened,
                        NEW i \in Stored(primary), NEW j \in Stored(primary), NEW k \in Stored(primary),
                        primary[i].phone.number = primary[j].phone.number,
                        primary[j].phone.number = primary[k].phone.number
                 PROVE  i = j \/ j = k \/ i = k
      BY DEF AtMostTwoPerNumber
    <2> DEFINE Key(h) == PhoneKey(primary[h].phone)
    <2>1. Key(i) = Key(j) \/ Key(j) = Key(k) \/ Key(i) = Key(k)
      BY StoredPrefixes
    <2> QED
      BY <2>1 DEF Inv, Tables, OneRowPerPhone
  <1> QED
    BY <1>1, InvHolds, OnlyScreenedIsStored, PTL

(* Whoever is shown a card gave the subscriber number and the day of birth  *)
(* of the application it belongs to, whatever prefix and layout either used.*)
CardIsOfVisitor ==
    \A l \in Lookups : reply[l] = "200" =>
        /\ primary[hand[l]].phone.number = form[l].phone.number
        /\ primary[hand[l]].dob.day = form[l].dob.day

(* No card is ever shown to somebody with another number or birthday. *)
THEOREM CardsAreOfVisitors == Spec => []CardIsOfVisitor
  <1>1. Inv /\ Screened => CardIsOfVisitor
    <2> SUFFICES ASSUME Inv, Screened, NEW l \in Lookups, reply[l] = "200"
                 PROVE  /\ primary[hand[l]].phone.number = form[l].phone.number
                        /\ primary[hand[l]].dob.day = form[l].dob.day
      BY DEF CardIsOfVisitor
    <2>1. HoldsCard(l)
      BY DEF Inv, Hands, HandsOf, Requests
    <2>2. form[l].dob \in Date /\ DateStr(form[l].dob)
      BY DEF Screened, PastScreen, Accepted, Valid, Form
    <2>3. primary[hand[l]].dob \in Date /\ DateStr(primary[hand[l]].dob)
      BY <2>1, RowTypes DEF HoldsCard, Screened, Inv, Row
    <2> QED
      BY <2>1, <2>2, <2>3, KeysTellApart DEF HoldsCard
  <1> QED
    BY <1>1, InvHolds, OnlyScreenedIsStored, PTL
=============================================================================
