---------------------------- MODULE VaultProofs -----------------------------
(***************************************************************************)
(* Theorems about Settings and Vault, for any keys, instances, applicants, *)
(* rows and edits.  That stored codes stay rests on the statements under   *)
(* way: while one verification key is at work, an UPDATE that has not      *)
(* landed carries the very code that its row has, or will have.            *)
(***************************************************************************)
EXTENDS Vault, TLAPS

(* One verification key at work, as far as two were never seen together. *)
OneKey == ~mixed => \A k, l \in AtWork : k = l

(* An UPDATE under way agrees with the row it is for. *)
Pending ==
    \A w \in writes : w.id \in Taken /\ (~mixed => rows[w.id].code \in {NoCode, w.code})

(* A seed that is about to be sent will agree with the row as well. *)
Promised ==
    \A s \in seeding :
        /\ s[1] \in Live
        /\ ~mixed => rows[s[2]].code \in {NoCode, conf[s[1]].code}

(* A row has one seed at most, waiting to be sent or under way. *)
Sowing ==
    /\ \A s \in seeding : \A w \in writes : w.id = s[2] => w.backfill
    /\ \A s, t \in seeding : s[2] = t[2] => s = t
    /\ \A v, w \in writes : ~v.backfill /\ ~w.backfill /\ v.id = w.id => v = w

ShownOfRows == \A card \in shown : card[1] \in Taken

CodesInv == TypeOK /\ OneKey /\ Pending /\ Promised /\ ShownOfRows /\ CardsScan

LEMMA ConfigType ==
    ASSUME NEW e \in Environments
    PROVE  Config(e) \in Configs /\ Config(e) # NoConf
  <1>1. \A name \in {"pii", "index", "code"} : DecodeKey(e, name) \in Keys \cup {DevKey}
    BY DEF DecodeKey
  <1>2. SplitCSV(GetEnv(e.origins, "")) \in SUBSET {"site"}
    BY DEF SplitCSV, GetEnv, Environments
  <1>3. GetBool(e.turnstile, TRUE) \in BOOLEAN
    BY DEF GetBool
  <1>4. e.secret \in {"", "secret"}
    BY DEF Environments
  <1>5. Config(e) \in Configs
    BY <1>1, <1>2, <1>3, <1>4 DEF Config, Configs
  <1> QED
    BY <1>5, VaultAssumptions

(* A production start that config.Load lets through has three real keys,    *)
(* its origins, and a secret if it checks forms, which it does unless the   *)
(* operator wrote that it need not: nothing that is left out, left as a     *)
(* placeholder or garbled gets past it or switches the check off.           *)
THEOREM LoadFailsFast ==
    ASSUME NEW e \in Environments, Loads(e), Config(e).prod
    PROVE  Secured(Config(e)) /\ (Config(e).turnstile \/ e.turnstile = "false")
  <1>1. e.app = "production"
    BY DEF Config, GetEnv
  <1>2. \A name \in KeyNames : e[name] \in Keys
    BY <1>1 DEF Loads, KeyRefused
  <1>3. e.pii \in Keys /\ e.index \in Keys /\ e.code \in Keys
    BY <1>2 DEF KeyNames
  <1>4. {Config(e).pii, Config(e).index, Config(e).code} \subseteq Keys
    BY <1>3 DEF Config, DecodeKey
  <1>5. Config(e).turnstile \/ e.turnstile = "false"
    BY DEF Config, GetBool
  <1> QED
    BY <1>4, <1>5 DEF Loads, Valid, Secured
-----------------------------------------------------------------------------
(* What the steps do to the rows and to the keys at work.                   *)

LEMMA StartStep == ASSUME CodesInv, NEW i \in Instances, Start(i) PROVE CodesInv'
  <1> DEFINE c == Config(env)
  <1>1. c \in Configs /\ c # NoConf
    BY ConfigType DEF CodesInv, TypeOK
  <1>2. c.code \in Codes
    BY <1>1 DEF Configs, Codes
  <1> HIDE DEF c
  <1>3. /\ conf' = [conf EXCEPT ![i] = c]
        /\ mixed' = (mixed \/ \E k \in AtWork : k # c.code)
        /\ UNCHANGED <<env, edits, rows, seeding, writes, shown, unwritten, waived>>
    BY DEF Start, c
  <1>5. Taken' = Taken
    BY <1>3 DEF Taken
  <1>4. TypeOK'
    <2>1. conf' \in [Instances -> Configs \cup {NoConf}] /\ mixed' \in BOOLEAN /\ unguarded' \in BOOLEAN
      BY <1>1, <1>3 DEF CodesInv, TypeOK, Start
    <2> QED
      BY <1>3, <1>5, <2>1 DEF CodesInv, TypeOK
  <1>6. OneKey'
    <2>1. ASSUME ~mixed', NEW k \in AtWork' PROVE k = c.code
      <3>1. CASE \E w \in writes : k = w.code
        BY <1>3, <2>1, <3>1 DEF AtWork
      <3>2. CASE \E j \in Instances : conf'[j] # NoConf /\ k = conf'[j].code
        <4>1. PICK j \in Instances : conf'[j] # NoConf /\ k = conf'[j].code
          BY <3>2
        <4>2. CASE j = i
          BY <1>3, <4>1, <4>2 DEF CodesInv, TypeOK
        <4>3. CASE j # i
          <5>1. conf[j] # NoConf /\ k = conf[j].code
            BY <1>3, <4>1, <4>3 DEF CodesInv, TypeOK
          <5>2. k \in AtWork
            BY <5>1 DEF AtWork, Live
          <5> QED
            BY <1>3, <2>1, <5>2
        <4> QED
          BY <4>2, <4>3
      <3> QED
        BY <1>3, <2>1, <3>1, <3>2 DEF AtWork, Live
    <2> QED
      BY <2>1 DEF OneKey
  <1>7. Pending' /\ ShownOfRows' /\ CardsScan'
    BY <1>3, <1>5 DEF CodesInv, Pending, ShownOfRows, CardsScan
  <1>8. Promised'
    <2> SUFFICES ASSUME NEW s \in seeding
                 PROVE  /\ s[1] \in Live'
                        /\ ~mixed' => rows[s[2]].code \in {NoCode, conf'[s[1]].code}
      BY <1>3 DEF Promised
    <2>1. /\ s[1] \in Instances /\ conf[s[1]] # NoConf
          /\ ~mixed => rows[s[2]].code \in {NoCode, conf[s[1]].code}
      BY DEF CodesInv, Promised, Live
    <2>2. conf'[s[1]] = conf[s[1]]
      BY <1>3, <2>1 DEF CodesInv, TypeOK, Start
    <2> QED
      BY <1>3, <2>1, <2>2 DEF Live
  <1> QED
    BY <1>4, <1>6, <1>7, <1>8 DEF CodesInv

LEMMA StopStep == ASSUME CodesInv, NEW i \in Instances, Stop(i) PROVE CodesInv'
  <1>1. /\ conf' = [conf EXCEPT ![i] = NoConf]
        /\ writes' = {IF w.by = i THEN [w EXCEPT !.by = Gone] ELSE w : w \in writes}
        /\ seeding' \subseteq seeding
        /\ UNCHANGED <<env, edits, rows, shown, unwritten, mixed, unguarded, waived>>
    BY DEF Stop
  <1>2. \A v \in writes' : v \in Writes /\ \E w \in writes : v.id = w.id /\ v.code = w.code
    <2> SUFFICES ASSUME NEW v \in writes'
                 PROVE  v \in Writes /\ \E w \in writes : v.id = w.id /\ v.code = w.code
      OBVIOUS
    <2>1. PICK w \in writes : v = IF w.by = i THEN [w EXCEPT !.by = Gone] ELSE w
      BY <1>1
    <2>2. w \in Writes
      BY DEF CodesInv, TypeOK
    <2> QED
      BY <2>1, <2>2 DEF Writes
  <1>4. Taken' = Taken
    BY <1>1 DEF Taken
  <1>3. TypeOK'
    BY <1>1, <1>2, <1>4 DEF CodesInv, TypeOK
  <1>5. AtWork' \subseteq AtWork
    <2>1. \A j \in Instances : conf'[j] # NoConf => conf[j] # NoConf /\ conf'[j] = conf[j]
      BY <1>1 DEF CodesInv, TypeOK
    <2> QED
      BY <1>2, <2>1 DEF AtWork, Live
  <1>6. OneKey'
    BY <1>1, <1>5 DEF CodesInv, OneKey
  <1>7. Pending'
    BY <1>1, <1>2, <1>4 DEF CodesInv, Pending
  <1>8. ShownOfRows' /\ CardsScan'
    BY <1>1, <1>4 DEF CodesInv, ShownOfRows, CardsScan
  <1>9. Promised'
    <2> SUFFICES ASSUME NEW s \in seeding'
                 PROVE  /\ s[1] \in Live'
                        /\ ~mixed => rows[s[2]].code \in {NoCode, conf'[s[1]].code}
      BY <1>1 DEF Promised
    <2>1. s \in seeding /\ s[1] # i
      BY DEF Stop
    <2>2. /\ s[1] \in Instances /\ conf[s[1]] # NoConf
          /\ ~mixed => rows[s[2]].code \in {NoCode, conf[s[1]].code}
      BY <2>1 DEF CodesInv, Promised, Live
    <2>3. conf'[s[1]] = conf[s[1]]
      BY <1>1, <2>1, <2>2 DEF CodesInv, TypeOK
    <2> QED
      BY <2>2, <2>3 DEF Live
  <1> QED
    BY <1>3, <1>6, <1>7, <1>8, <1>9 DEF CodesInv

(* An UPDATE that a running instance sends joins those under way. *)
LEMMA Sent ==
    ASSUME CodesInv, NEW i \in Live, NEW d \in Ids, NEW b \in BOOLEAN,
           writes' = writes \cup {[by |-> i, id |-> d, code |-> conf[i].code, backfill |-> b]},
           UNCHANGED <<conf, mixed>>
    PROVE  writes' \subseteq Writes /\ OneKey' /\ conf[i].code \in Codes
  <1>1. i \in Instances /\ conf[i] \in Configs
    BY DEF Live, CodesInv, TypeOK
  <1>2. conf[i].code \in Codes
    BY <1>1 DEF Configs, Codes
  <1>3. writes' \subseteq Writes
    BY <1>1, <1>2 DEF CodesInv, TypeOK, Writes
  <1>4. AtWork' = AtWork
    <2>1. conf[i].code \in AtWork
      BY DEF AtWork
    <2> QED
      BY <2>1 DEF AtWork, Live
  <1> QED
    BY <1>2, <1>3, <1>4 DEF CodesInv, OneKey

LEMMA SubmitStep ==
    ASSUME CodesInv, NEW i \in Instances, NEW a \in Applicants, Submit(i, a)
    PROVE  CodesInv'
  <1>1. PICK d \in Ids \ Taken :
          /\ rows' = [rows EXCEPT ![d] =
                [who |-> a, pii |-> conf[i].pii, index |-> conf[i].index, code |-> NoCode]]
          /\ seeding' \subseteq seeding \cup {<<i, d>>}
    BY DEF Submit
  <1>2. i \in Live /\ UNCHANGED <<env, edits, conf, writes, shown, unwritten, mixed, unguarded, waived>>
    BY DEF Submit
  <1> DEFINE row == [who |-> a, pii |-> conf[i].pii, index |-> conf[i].index, code |-> NoCode]
  <1>4. row \in Rows /\ row # NoRow /\ row.code = NoCode
    <2>1. conf[i] \in Configs
      BY <1>2 DEF Live, CodesInv, TypeOK
    <2>2. row \in Rows
      BY <2>1 DEF Configs, Rows, Codes
    <2> QED
      BY <2>2, VaultAssumptions
  <1> HIDE DEF row
  <1>5. rows' \in [Ids -> Rows \cup {NoRow}] /\ rows'[d] = row /\ \A e \in Ids \ {d} : rows'[e] = rows[e]
    BY <1>1, <1>4 DEF CodesInv, TypeOK, row
  <1>7. Taken' = Taken \cup {d} /\ d \notin Taken
    BY <1>1, <1>4, <1>5 DEF Taken
  <1>6. TypeOK'
    <2>1. seeding' \subseteq Instances \X Taken'
      BY <1>1, <1>7 DEF CodesInv, TypeOK
    <2> QED
      BY <1>2, <1>5, <2>1 DEF CodesInv, TypeOK
  <1>8. Pending'
    <2> SUFFICES ASSUME NEW w \in writes
                 PROVE  w.id \in Taken' /\ (~mixed => rows'[w.id].code \in {NoCode, w.code})
      BY <1>2 DEF Pending
    <2>1. w.id \in Taken /\ w.id \in Ids \ {d} /\ (~mixed => rows[w.id].code \in {NoCode, w.code})
      BY <1>7 DEF CodesInv, Pending, Taken
    <2> QED
      BY <1>5, <1>7, <2>1
  <1>9. ShownOfRows' /\ CardsScan'
    <2>1. \A card \in shown : card[1] \in Taken /\ card[1] \in Ids \ {d}
      BY <1>7 DEF CodesInv, ShownOfRows, Taken
    <2> QED
      BY <1>2, <1>5, <1>7, <2>1 DEF CodesInv, ShownOfRows, CardsScan
  <1>10. OneKey'
    <2>1. AtWork' = AtWork
      BY <1>2 DEF AtWork, Live
    <2> QED
      BY <1>2, <2>1 DEF CodesInv, OneKey
  <1>11. Promised'
    <2> SUFFICES ASSUME NEW s \in seeding'
                 PROVE  s[1] \in Live /\ (~mixed => rows'[s[2]].code \in {NoCode, conf[s[1]].code})
      BY <1>2 DEF Promised, Live
    <2>1. CASE s = <<i, d>>
      BY <1>2, <1>4, <1>5, <2>1
    <2>2. CASE s \in seeding
      <3>1. s[2] \in Ids \ {d}
        BY <1>7, <2>2 DEF CodesInv, TypeOK, Taken
      <3> QED
        BY <1>5, <2>2, <3>1 DEF CodesInv, Promised
    <2> QED
      BY <1>1, <2>1, <2>2
  <1> QED
    BY <1>6, <1>8, <1>9, <1>10, <1>11 DEF CodesInv

LEMMA SeedStep ==
    ASSUME CodesInv, NEW i \in Instances, NEW d \in Ids, Seed(i, d)
    PROVE  CodesInv'
  <1>1. /\ i \in Live /\ d \in Taken /\ (~mixed => rows[d].code \in {NoCode, conf[i].code})
        /\ writes' = writes \cup {[by |-> i, id |-> d, code |-> conf[i].code, backfill |-> FALSE]}
        /\ seeding' \subseteq seeding
        /\ UNCHANGED <<env, edits, conf, rows, shown, unwritten, mixed, unguarded, waived>>
        /\ Taken' = Taken
    BY DEF Seed, Taken, CodesInv, TypeOK, Promised
  <1>2. writes' \subseteq Writes /\ OneKey' /\ conf[i].code \in Codes
    BY <1>1, Sent
  <1>3. TypeOK'
    BY <1>1, <1>2 DEF CodesInv, TypeOK
  <1>4. Pending'
    BY <1>1 DEF CodesInv, Pending
  <1>5. ShownOfRows' /\ CardsScan' /\ Promised'
    BY <1>1 DEF CodesInv, ShownOfRows, CardsScan, Promised, Live
  <1> QED
    BY <1>2, <1>3, <1>4, <1>5 DEF CodesInv

LEMMA LookupStep ==
    ASSUME CodesInv, NEW i \in Instances, NEW a \in Applicants, NEW d \in Ids, Lookup(i, a, d)
    PROVE  CodesInv'
  <1>1. /\ i \in Live /\ d \in Taken
        /\ UNCHANGED <<env, edits, conf, rows, seeding, unwritten, mixed, unguarded, waived>>
        /\ Taken' = Taken
    BY DEF Lookup, Found, Taken
  <1>2. rows[d] \in Rows
    BY <1>1 DEF Taken, CodesInv, TypeOK
  <1>5. Promised'
    BY <1>1 DEF CodesInv, Promised, Live
  <1>3. CASE rows[d].code # NoCode /\ shown' = shown \cup {<<d, rows[d].code>>} /\ UNCHANGED writes
    <2>1. rows[d].code \in Codes
      BY <1>2, <1>3 DEF Rows
    <2>2. TypeOK'
      BY <1>1, <1>3, <2>1 DEF CodesInv, TypeOK
    <2>3. AtWork' = AtWork
      BY <1>1, <1>3 DEF AtWork, Live
    <2>5. OneKey'
      BY <1>1, <2>3 DEF CodesInv, OneKey
    <2>6. Pending'
      BY <1>1, <1>3 DEF CodesInv, Pending
    <2>4. ShownOfRows' /\ CardsScan'
      BY <1>1, <1>3 DEF CodesInv, ShownOfRows, CardsScan
    <2> QED
      BY <1>5, <2>2, <2>4, <2>5, <2>6 DEF CodesInv
  <1>4. CASE /\ rows[d].code = NoCode /\ UNCHANGED shown
             /\ writes' = writes \cup {[by |-> i, id |-> d, code |-> conf[i].code, backfill |-> TRUE]}
    <2>1. writes' \subseteq Writes /\ OneKey'
      BY <1>1, <1>4, Sent
    <2>2. TypeOK'
      BY <1>1, <1>4, <2>1 DEF CodesInv, TypeOK
    <2>3. Pending'
      BY <1>1, <1>4 DEF CodesInv, Pending
    <2>4. ShownOfRows' /\ CardsScan'
      BY <1>1, <1>4 DEF CodesInv, ShownOfRows, CardsScan
    <2> QED
      BY <1>5, <2>1, <2>2, <2>3, <2>4 DEF CodesInv
  <1> QED
    BY <1>3, <1>4 DEF Lookup

LEMMA AnswerFacts ==
    ASSUME CodesInv, NEW w \in writes, Answer(w), UNCHANGED <<conf, mixed>>
    PROVE  /\ w \in Writes /\ w.id \in Ids /\ w.code \in Codes
           /\ writes' \subseteq writes /\ shown' \subseteq Ids \X Codes
           /\ shown' \subseteq shown \cup {<<w.id, w.code>>}
           /\ OneKey'
  <1>1. w \in Writes /\ w.id \in Ids /\ w.code \in Codes
    BY DEF CodesInv, TypeOK, Writes
  <1>2. writes' \subseteq writes /\ shown' \subseteq shown \cup {<<w.id, w.code>>}
    BY DEF Answer
  <1>3. AtWork' \subseteq AtWork
    BY <1>2 DEF AtWork, Live
  <1> QED
    BY <1>1, <1>2, <1>3 DEF CodesInv, TypeOK, OneKey

(* The code of a landed UPDATE is its row's; the rest of the table stays.   *)
LEMMA LandRows ==
    ASSUME CodesInv, NEW w \in writes, Land(w)
    PROVE  /\ rows' \in [Ids -> Rows \cup {NoRow}] /\ Taken' = Taken
           /\ \A d \in Ids \ {w.id} : rows'[d] = rows[d]
           /\ rows'[w.id].code \in {rows[w.id].code, w.code} \ {NoCode}
           /\ rows'[w.id].pii = rows[w.id].pii /\ rows'[w.id].index = rows[w.id].index
  <1>1. w \in Writes /\ w.id \in Ids /\ w.code \in Codes /\ w.id \in Taken
    BY DEF CodesInv, TypeOK, Writes, Pending
  <1>2. rows[w.id] \in Rows /\ NoCode # w.code
    BY <1>1, VaultAssumptions DEF Taken, CodesInv, TypeOK
  <1>3. CASE w.backfill /\ rows[w.id].code # NoCode
    <2>1. rows' = rows
      BY <1>3 DEF Land
    <2> QED
      BY <1>3, <2>1 DEF Taken, CodesInv, TypeOK
  <1>4. CASE ~(w.backfill /\ rows[w.id].code # NoCode)
    <2>1. rows' = [rows EXCEPT ![w.id].code = w.code]
      BY <1>4 DEF Land
    <2>2. [rows[w.id] EXCEPT !.code = w.code] \in Rows 
          /\ [rows[w.id] EXCEPT !.code = w.code].code = w.code
          /\ [rows[w.id] EXCEPT !.code = w.code].pii = rows[w.id].pii
          /\ [rows[w.id] EXCEPT !.code = w.code].index = rows[w.id].index
      BY <1>1, <1>2 DEF Rows
    <2>3. [rows[w.id] EXCEPT !.code = w.code] # NoRow
      BY <2>2, VaultAssumptions
    <2>4. /\ rows' \in [Ids -> Rows \cup {NoRow}]
          /\ rows'[w.id] = [rows[w.id] EXCEPT !.code = w.code]
          /\ \A d \in Ids \ {w.id} : rows'[d] = rows[d]
      BY <1>1, <2>1, <2>2 DEF CodesInv, TypeOK
    <2>5. Taken' = Taken
      BY <1>1, <2>3, <2>4 DEF Taken
    <2> QED
      BY <1>2, <2>2, <2>4, <2>5
  <1> QED
    BY <1>3, <1>4

(* With one key at work, what lands is what the row has or was to have. *)
LEMMA LandAgrees ==
    ASSUME CodesInv, NEW w \in writes, Land(w), ~mixed
    PROVE  rows'[w.id].code = w.code /\ rows[w.id].code \in {NoCode, w.code}
  <1>1. rows[w.id].code \in {NoCode, w.code}
    BY DEF CodesInv, Pending
  <1> QED
    BY <1>1, LandRows

LEMMA LandStep == ASSUME CodesInv, NEW w \in writes, Land(w) PROVE CodesInv'
  <1>1. UNCHANGED <<env, edits, conf, seeding, unwritten, mixed, unguarded, waived>> /\ Answer(w)
    BY DEF Land
  <1>2. /\ w \in Writes /\ w.id \in Ids /\ w.code \in Codes
        /\ writes' \subseteq writes /\ shown' \subseteq Ids \X Codes
        /\ shown' \subseteq shown \cup {<<w.id, w.code>>}
        /\ OneKey'
    BY <1>1, AnswerFacts
  <1>3. /\ rows' \in [Ids -> Rows \cup {NoRow}] /\ Taken' = Taken
        /\ \A d \in Ids \ {w.id} : rows'[d] = rows[d]
    BY LandRows
  <1>4. TypeOK'
    BY <1>1, <1>2, <1>3 DEF CodesInv, TypeOK
  <1>5. Pending'
    <2> SUFFICES ASSUME NEW v \in writes'
                 PROVE  v.id \in Taken' /\ (~mixed' => rows'[v.id].code \in {NoCode, v.code})
      BY DEF Pending
    <2>1. v \in writes /\ v.id \in Taken /\ v.id \in Ids
          /\ (~mixed => rows[v.id].code \in {NoCode, v.code})
      BY <1>2 DEF CodesInv, Pending, Taken
    <2>2. CASE v.id # w.id
      BY <1>1, <1>3, <2>1, <2>2
    <2>3. CASE v.id = w.id
      <3> SUFFICES ASSUME ~mixed PROVE rows'[v.id].code = v.code
        BY <1>1, <1>3, <2>1
      <3>1. v.code \in AtWork /\ w.code \in AtWork
        BY <2>1 DEF AtWork
      <3>2. v.code = w.code
        BY <3>1 DEF CodesInv, OneKey
      <3> QED
        BY <2>3, <3>2, LandAgrees
    <2> QED
      BY <2>2, <2>3
  <1>6. ShownOfRows'
    BY <1>2, <1>3 DEF CodesInv, ShownOfRows, Pending
  <1>7. CardsScan'
    <2> SUFFICES ASSUME ~mixed, NEW card \in shown'
                 PROVE  card[1] \in unwritten \/ rows'[card[1]].code = card[2]
      BY <1>1 DEF CardsScan
    <2>1. rows'[w.id].code = w.code /\ rows[w.id].code \in {NoCode, w.code}
      BY LandAgrees
    <2>2. CASE card = <<w.id, w.code>>
      BY <2>1, <2>2
    <2>3. CASE card \in shown
      <3>1. card[1] \in unwritten \/ rows[card[1]].code = card[2]
        BY <2>3 DEF CodesInv, CardsScan
      <3>2. card[1] \in Ids /\ card[2] # NoCode
        BY <2>3, VaultAssumptions DEF CodesInv, TypeOK
      <3> QED
        BY <1>3, <2>1, <3>1, <3>2
    <2> QED
      BY <1>2, <2>2, <2>3
  <1>8. Promised'
    <2> SUFFICES ASSUME NEW s \in seeding
                 PROVE  s[1] \in Live /\ (~mixed => rows'[s[2]].code \in {NoCode, conf[s[1]].code})
      BY <1>1 DEF Promised, Live
    <2>1. /\ s[1] \in Live /\ s[2] \in Ids
          /\ ~mixed => rows[s[2]].code \in {NoCode, conf[s[1]].code}
      BY DEF CodesInv, Promised, TypeOK, Taken
    <2>2. CASE s[2] # w.id
      BY <1>3, <2>1, <2>2
    <2>3. CASE s[2] = w.id
      <3>1. conf[s[1]].code \in AtWork /\ w.code \in AtWork
        BY <2>1 DEF AtWork
      <3>2. ~mixed => w.code = conf[s[1]].code
        BY <3>1 DEF CodesInv, OneKey
      <3> QED
        BY <2>1, <2>3, <3>2, LandAgrees
    <2> QED
      BY <2>2, <2>3
  <1> QED
    BY <1>2, <1>4, <1>5, <1>6, <1>7, <1>8 DEF CodesInv

LEMMA LoseStep == ASSUME CodesInv, NEW w \in writes, Lose(w) PROVE CodesInv'
  <1>1. /\ UNCHANGED <<env, edits, conf, rows, seeding, mixed, unguarded, waived>> /\ Answer(w)
        /\ unwritten' = unwritten \cup {w.id} /\ Taken' = Taken
    BY DEF Lose, Taken
  <1>2. /\ w.id \in Ids
        /\ writes' \subseteq writes /\ shown' \subseteq Ids \X Codes
        /\ shown' \subseteq shown \cup {<<w.id, w.code>>}
        /\ OneKey'
    BY <1>1, AnswerFacts
  <1>3. TypeOK'
    BY <1>1, <1>2 DEF CodesInv, TypeOK
  <1>4. Pending' /\ ShownOfRows'
    BY <1>1, <1>2 DEF CodesInv, Pending, ShownOfRows
  <1>5. CardsScan'
    BY <1>1, <1>2 DEF CodesInv, CardsScan
  <1>6. Promised'
    BY <1>1 DEF CodesInv, Promised, Live
  <1> QED
    BY <1>2, <1>3, <1>4, <1>5, <1>6 DEF CodesInv
-----------------------------------------------------------------------------
LEMMA CodesInit == Init => CodesInv
  <1> SUFFICES ASSUME Init PROVE CodesInv
    OBVIOUS
  <1>1. TypeOK
    <2>1. edits \in 0..MaxEdits /\ env \in Environments
      BY VaultAssumptions DEF Init
    <2>2. conf \in [Instances -> Configs \cup {NoConf}] /\ rows \in [Ids -> Rows \cup {NoRow}]
      BY DEF Init
    <2> QED
      BY <2>1, <2>2 DEF Init, TypeOK
  <1>2. AtWork = {}
    BY DEF Init, AtWork, Live
  <1> QED
    BY <1>1, <1>2 DEF Init, CodesInv, OneKey, Pending, Promised, ShownOfRows, CardsScan

LEMMA CodesNext == CodesInv /\ [Next]_vars => CodesInv'
  <1> SUFFICES ASSUME CodesInv, [Next]_vars PROVE CodesInv'
    OBVIOUS
  <1>1. CASE Edit
    <2>1. /\ UNCHANGED <<conf, rows, seeding, writes, shown, unwritten, mixed, unguarded>>
          /\ env' \in Environments /\ edits' \in 0..MaxEdits /\ waived' \in BOOLEAN
      <3>1. env' \in Environments
        <4>1. PICK e \in Edits : env' = [env EXCEPT ![e[1]] = e[2]]
          BY <1>1 DEF Edit
        <4>2. env \in Environments
          BY DEF CodesInv, TypeOK
        <4> HIDE DEF Environments
        <4> QED
          BY <4>1, <4>2, VaultAssumptions
      <3>2. edits' \in 0..MaxEdits
        BY <1>1, VaultAssumptions DEF Edit, CodesInv, TypeOK
      <3> QED
        BY <1>1, <3>1, <3>2 DEF Edit, CodesInv, TypeOK
    <2>2. AtWork' = AtWork /\ Taken' = Taken
      BY <2>1 DEF AtWork, Live, Taken
    <2> QED
      BY <2>1, <2>2 DEF CodesInv, TypeOK, OneKey, Pending, Promised, ShownOfRows, CardsScan, Live
  <1>2. ASSUME NEW i \in Instances, Start(i) PROVE CodesInv'
    BY <1>2, StartStep
  <1>3. ASSUME NEW i \in Instances, Stop(i) PROVE CodesInv'
    BY <1>3, StopStep
  <1>4. ASSUME NEW i \in Instances, NEW a \in Applicants, Submit(i, a) PROVE CodesInv'
    BY <1>4, SubmitStep
  <1>5. ASSUME NEW i \in Instances, NEW a \in Applicants, NEW d \in Ids, Lookup(i, a, d)
        PROVE  CodesInv'
    BY <1>5, LookupStep
  <1>9. ASSUME NEW i \in Instances, NEW d \in Ids, Seed(i, d) PROVE CodesInv'
    BY <1>9, SeedStep
  <1>6. ASSUME NEW w \in writes, Land(w) PROVE CodesInv'
    BY <1>6, LandStep
  <1>7. ASSUME NEW w \in writes, Lose(w) PROVE CodesInv'
    BY <1>7, LoseStep
  <1>8. CASE UNCHANGED vars
    <2>1. UNCHANGED <<env, edits, conf, rows, seeding, writes, shown, unwritten, mixed, unguarded, waived>>
      BY <1>8 DEF vars
    <2>2. AtWork' = AtWork /\ Taken' = Taken
      BY <2>1 DEF AtWork, Live, Taken
    <2> QED
      BY <2>1, <2>2 DEF CodesInv, TypeOK, OneKey, Pending, Promised, ShownOfRows, CardsScan, Live
  <1> QED
    BY <1>1, <1>2, <1>3, <1>4, <1>5, <1>6, <1>7, <1>8, <1>9 DEF Next

(* A step that changes a stored code lands an UPDATE of another key. *)
LEMMA StayStep ==
    ASSUME CodesInv, [Next]_vars
    PROVE  ~mixed => \A d \in Taken : rows[d].code # NoCode => rows'[d].code = rows[d].code
  <1> SUFFICES ASSUME ~mixed, NEW d \in Taken, rows[d].code # NoCode
               PROVE  rows'[d].code = rows[d].code
    OBVIOUS
  <1>0. d \in Ids
    BY DEF Taken
  <1>1. CASE rows' = rows
    BY <1>1
  <1>2. ASSUME NEW i \in Instances, NEW a \in Applicants, Submit(i, a)
        PROVE  rows'[d].code = rows[d].code
    <2>1. PICK n \in Ids \ Taken : rows' = [rows EXCEPT ![n] =
                [who |-> a, pii |-> conf[i].pii, index |-> conf[i].index, code |-> NoCode]]
      BY <1>2 DEF Submit
    <2> QED
      BY <1>0, <2>1 DEF CodesInv, TypeOK
  <1>3. ASSUME NEW w \in writes, Land(w) PROVE rows'[d].code = rows[d].code
    <2>1. CASE d # w.id
      BY <1>0, <1>3, <2>1, LandRows
    <2>2. CASE d = w.id
      BY <1>3, <2>2, LandAgrees
    <2> QED
      BY <2>1, <2>2
  <1>4. \/ rows' = rows
        \/ \E i \in Instances, a \in Applicants : Submit(i, a)
        \/ \E w \in writes : Land(w)
    BY DEF Next, vars, Edit, Start, Stop, Seed, Lookup, Lose
  <1> QED
    BY <1>1, <1>2, <1>3, <1>4

(* Every state is of its type. *)
THEOREM TypeCorrect == Spec => []TypeOK
  <1>1. CodesInv => TypeOK
    BY DEF CodesInv
  <1> QED
    BY CodesInit, CodesNext, <1>1, PTL DEF Spec

(* As long as two verification keys were not at work at once, no seed, no   *)
(* backfill and no statement of an instance that is gone ever changes a     *)
(* code that is stored, in any order in which they land.                    *)
THEOREM CodesStay == Spec => StoredCodesStay
  <1>1. CodesInv /\ [Next]_vars =>
            [~mixed => \A d \in Taken : rows[d].code # NoCode => rows'[d].code = rows[d].code]_vars
    BY StayStep
  <1> QED
    BY CodesInit, CodesNext, <1>1, PTL DEF Spec, StoredCodesStay

LEMMA SowingInit == Init => Sowing
  BY DEF Init, Sowing

LEMMA SowingNext == CodesInv /\ Sowing /\ [Next]_vars => Sowing'
  <1> SUFFICES ASSUME CodesInv, Sowing, [Next]_vars PROVE Sowing'
    OBVIOUS
  <1>1. CASE seeding' \subseteq seeding /\ writes' \subseteq writes
    BY <1>1 DEF Sowing
  <1>2. ASSUME NEW i \in Instances, Stop(i) PROVE Sowing'
    <2> DEFINE Left(w) == IF w.by = i THEN [w EXCEPT !.by = Gone] ELSE w
    <2>1. seeding' \subseteq seeding /\ writes' = {Left(w) : w \in writes}
      BY <1>2 DEF Stop
    <2>2. \A w \in writes : Left(w).id = w.id /\ Left(w).backfill = w.backfill
      <3> SUFFICES ASSUME NEW w \in writes
                   PROVE  Left(w).id = w.id /\ Left(w).backfill = w.backfill
        OBVIOUS
      <3>1. w \in Writes
        BY DEF CodesInv, TypeOK
      <3> QED
        BY <3>1 DEF Writes
    <2> HIDE DEF Left
    <2>3. ASSUME NEW v \in writes', NEW w \in writes', ~v.backfill, ~w.backfill, v.id = w.id
          PROVE  v = w
      <3>1. PICK x \in writes : v = Left(x)
        BY <2>1
      <3>2. PICK y \in writes : w = Left(y)
        BY <2>1
      <3>3. x = y
        BY <2>2, <2>3, <3>1, <3>2 DEF Sowing
      <3> QED
        BY <3>1, <3>2, <3>3
    <2>4. \A s \in seeding' : \A w \in writes' : w.id = s[2] => w.backfill
      BY <2>1, <2>2 DEF Sowing
    <2> QED
      BY <2>1, <2>3, <2>4 DEF Sowing
  <1>3. ASSUME NEW i \in Instances, NEW a \in Applicants, Submit(i, a) PROVE Sowing'
    <2>1. PICK d \in Ids \ Taken : seeding' \subseteq seeding \cup {<<i, d>>}
      BY <1>3 DEF Submit
    <2>2. UNCHANGED writes
      BY <1>3 DEF Submit
    <2>3. /\ \A s \in seeding : s[2] # d
          /\ \A w \in writes : w.id # d
      BY <2>1 DEF CodesInv, TypeOK, Pending
    <2>4. \A s, t \in seeding' : s[2] = t[2] => s = t
      BY <2>1, <2>3 DEF Sowing
    <2>5. \A s \in seeding' : \A w \in writes : w.id = s[2] => w.backfill
      BY <2>1, <2>3 DEF Sowing
    <2> QED
      BY <2>2, <2>4, <2>5 DEF Sowing
  <1>4. ASSUME NEW i \in Instances, NEW d \in Ids, Seed(i, d) PROVE Sowing'
    <2> DEFINE seed == [by |-> i, id |-> d, code |-> conf[i].code, backfill |-> FALSE]
    <2>1. <<i, d>> \in seeding /\ writes' = writes \cup {seed} /\ seeding' = seeding \ {<<i, d>>}
      BY <1>4 DEF Seed
    <2>2. seed.id = d
      OBVIOUS
    <2> HIDE DEF seed
    <2>3. \A w \in writes : w.id = d => w.backfill
      BY <2>1 DEF Sowing
    <2>4. \A s \in seeding' : s[2] # d
      BY <2>1 DEF Sowing
    <2>5. \A v, w \in writes' : ~v.backfill /\ ~w.backfill /\ v.id = w.id => v = w
      BY <2>1, <2>2, <2>3 DEF Sowing
    <2>6. \A s \in seeding' : \A w \in writes' : w.id = s[2] => w.backfill
      BY <2>1, <2>2, <2>4 DEF Sowing
    <2>7. \A s, t \in seeding' : s[2] = t[2] => s = t
      BY <2>1 DEF Sowing
    <2> QED
      BY <2>5, <2>6, <2>7 DEF Sowing
  <1>5. ASSUME NEW i \in Instances, NEW a \in Applicants, NEW d \in Ids, Lookup(i, a, d)
        PROVE  Sowing'
    <2>1. seeding' = seeding
      BY <1>5 DEF Lookup
    <2>2. \A w \in writes' : w \in writes \/ w.backfill
      BY <1>5 DEF Lookup
    <2> QED
      BY <2>1, <2>2 DEF Sowing
  <1>6. \/ seeding' \subseteq seeding /\ writes' \subseteq writes
        \/ \E i \in Instances :
              \/ Stop(i) \/ \E d \in Ids : Seed(i, d)
              \/ \E a \in Applicants : Submit(i, a) \/ \E d \in Ids : Lookup(i, a, d)
    BY DEF Next, vars, Edit, Start, Land, Lose, Answer
  <1> QED
    BY <1>1, <1>2, <1>3, <1>4, <1>5, <1>6

(* What a step overwrites, it overwrites with the last seed of the row. *)
LEMMA OverwriteStep ==
    ASSUME CodesInv, Sowing, [Next]_vars,
           NEW d \in Taken, rows[d].code # NoCode, rows'[d].code # rows[d].code
    PROVE  /\ \E w \in writes : w.id = d /\ ~w.backfill /\ w.code = rows'[d].code
           /\ Sown(d)'
  <1>0. d \in Ids
    BY DEF Taken
  <1>1. ASSUME NEW i \in Instances, NEW a \in Applicants, Submit(i, a) PROVE FALSE
    <2>1. PICK n \in Ids \ Taken : rows' = [rows EXCEPT ![n] =
                [who |-> a, pii |-> conf[i].pii, index |-> conf[i].index, code |-> NoCode]]
      BY <1>1 DEF Submit
    <2> QED
      BY <1>0, <2>1 DEF CodesInv, TypeOK
  <1>2. PICK w \in writes : Land(w)
    <2>1. \/ rows' = rows
          \/ \E i \in Instances, a \in Applicants : Submit(i, a)
          \/ \E w \in writes : Land(w)
      BY DEF Next, vars, Edit, Start, Stop, Seed, Lookup, Lose
    <2> QED
      BY <1>1, <2>1
  <1>3. d = w.id
    BY <1>0, <1>2, LandRows
  <1>4. ~w.backfill
    BY <1>2, <1>3 DEF Land
  <1>5. rows'[d].code = w.code
    BY <1>2, <1>3, LandRows
  <1>6. writes' = writes \ {w} /\ seeding' = seeding
    BY <1>2 DEF Land, Answer
  <1>7. \A v \in writes' : v.id = d => v.backfill
    BY <1>3, <1>4, <1>6 DEF Sowing
  <1>8. \A s \in seeding' : s[2] # d
    BY <1>3, <1>4, <1>6 DEF Sowing
  <1> QED
    BY <1>3, <1>4, <1>5, <1>7, <1>8 DEF Sown

(* However many verification keys are at work, and in whatever order        *)
(* statements land, a stored code is overwritten by nothing but the late    *)
(* seed of its own row, and once at most.                                   *)
THEOREM OverwrittenOnce == Spec => OnlyTheSeedOverwrites
  <1>1. CodesInv /\ Sowing /\ [Next]_vars =>
            [\A d \in Taken : rows[d].code # NoCode /\ rows'[d].code # rows[d].code =>
                 /\ \E w \in writes : w.id = d /\ ~w.backfill /\ w.code = rows'[d].code
                 /\ Sown(d)']_vars
    BY OverwriteStep
  <1> QED
    BY CodesInit, CodesNext, SowingInit, SowingNext, <1>1, PTL DEF Spec, OnlyTheSeedOverwrites

(* Under the same condition a code that a card carried is its row's, unless *)
(* an UPDATE of that row was lost.                                          *)
THEOREM PrintedCodesScan == Spec => []CardsScan
  <1>1. CodesInv => CardsScan
    BY DEF CodesInv
  <1> QED
    BY CodesInit, CodesNext, <1>1, PTL DEF Spec
-----------------------------------------------------------------------------
(* What an instance has loaded, it loaded from an environment that loads.   *)

(* Nobody leaves the check off without having written so. *)
WaivedKnown == env.turnstile = "false" => waived

LEMMA SecuredNext ==
    TypeOK /\ WaivedKnown /\ StartsSecured /\ [Next]_vars => WaivedKnown' /\ StartsSecured'
  <1> SUFFICES ASSUME TypeOK, WaivedKnown, StartsSecured, [Next]_vars
               PROVE  WaivedKnown' /\ StartsSecured'
    OBVIOUS
  <1>1. ASSUME NEW i \in Instances, Start(i) PROVE WaivedKnown' /\ StartsSecured'
    <2>1. /\ conf' = [conf EXCEPT ![i] = Config(env)] /\ Loads(env) /\ env \in Environments
          /\ UNCHANGED <<env, waived>>
      BY <1>1 DEF Start, TypeOK
    <2>2. Config(env).prod => Secured(Config(env)) /\ (Config(env).turnstile \/ waived)
      BY <2>1, LoadFailsFast DEF WaivedKnown
    <2>3. \A j \in Instances : conf'[j] = IF j = i THEN Config(env) ELSE conf[j]
      BY <2>1 DEF TypeOK
    <2> QED
      BY <2>1, <2>2, <2>3 DEF WaivedKnown, StartsSecured, Live
  <1>2. ASSUME NEW i \in Instances, Stop(i) PROVE WaivedKnown' /\ StartsSecured'
    <2>1. /\ \A j \in Instances : conf'[j] = IF j = i THEN NoConf ELSE conf[j]
          /\ UNCHANGED <<env, waived>>
      BY <1>2 DEF Stop, TypeOK
    <2> QED
      BY <2>1 DEF WaivedKnown, StartsSecured, Live
  <1>3. CASE Edit
    <2>1. conf' = conf /\ waived' = (waived \/ env'.turnstile = "false")
      BY <1>3 DEF Edit
    <2> QED
      BY <2>1 DEF WaivedKnown, StartsSecured, Live
  <1>4. CASE UNCHANGED <<env, conf, waived>>
    BY <1>4 DEF WaivedKnown, StartsSecured, Live
  <1>5. Edit \/ UNCHANGED <<env, conf, waived>> \/ \E i \in Instances : Start(i) \/ Stop(i)
    BY DEF Next, vars, Submit, Seed, Lookup, Land, Lose
  <1> QED
    BY <1>1, <1>2, <1>3, <1>4, <1>5

(* No instance runs in production without real keys, origins and, if it     *)
(* checks forms, a secret; and none goes without the check before somebody  *)
(* wrote that it should.                                                    *)
THEOREM AlwaysSecured == Spec => []StartsSecured
  <1>1. Init => WaivedKnown /\ StartsSecured
    BY DEF Init, WaivedKnown, StartsSecured, Live
  <1> QED
    BY TypeCorrect, SecuredNext, <1>1, PTL DEF Spec

(* Operators lose or garble data keys, and put back the ones they had. *)
OnlySlips ==
    /\ FirstEnv.pii \in Keys /\ FirstEnv.index \in Keys
    /\ \A e \in Edits : e[2] \in Keys =>
          (e[1] = "pii" => e[2] = FirstEnv.pii) /\ (e[1] = "index" => e[2] = FirstEnv.index)

KeptKeys ==
    /\ env.pii \in Keys => env.pii = FirstEnv.pii
    /\ env.index \in Keys => env.index = FirstEnv.index
    /\ ~unguarded =>
          /\ \A i \in Live : conf[i].pii = FirstEnv.pii /\ conf[i].index = FirstEnv.index
          /\ \A d \in Taken : rows[d].pii = FirstEnv.pii /\ rows[d].index = FirstEnv.index

LEMMA KeptInit == Init => KeptKeys
  BY DEF Init, KeptKeys, Live, Taken

LEMMA KeptNext == OnlySlips /\ CodesInv /\ KeptKeys /\ [Next]_vars => KeptKeys'
  <1> SUFFICES ASSUME OnlySlips, CodesInv, KeptKeys, [Next]_vars PROVE KeptKeys'
    OBVIOUS
  <1>0. TypeOK
    BY DEF CodesInv
  <1>1. CASE Edit
    <2>1. PICK e \in Edits : env' = [env EXCEPT ![e[1]] = e[2]]
      BY <1>1 DEF Edit
    <2>2. env'.pii = (IF e[1] = "pii" THEN e[2] ELSE env.pii)
          /\ env'.index = (IF e[1] = "index" THEN e[2] ELSE env.index)
      BY <1>0, <2>1 DEF TypeOK, Environments
    <2>3. UNCHANGED <<conf, rows, unguarded>>
      BY <1>1 DEF Edit
    <2>4. (env'.pii \in Keys => env'.pii = FirstEnv.pii)
          /\ (env'.index \in Keys => env'.index = FirstEnv.index)
      BY <2>2 DEF OnlySlips, KeptKeys
    <2> QED
      BY <2>3, <2>4 DEF KeptKeys, Live, Taken
  <1>2. ASSUME NEW i \in Instances, Start(i) PROVE KeptKeys'
    <2>1. /\ UNCHANGED <<env, rows>> /\ Loads(env)
          /\ unguarded' = (unguarded \/ (env.app # "production" /\ (Missing(env.pii) \/ Missing(env.index))))
          /\ \A j \in Instances : conf'[j] = IF j = i THEN Config(env) ELSE conf[j]
      BY <1>0, <1>2 DEF Start, TypeOK
    <2>2. ~unguarded' => Config(env).pii = FirstEnv.pii /\ Config(env).index = FirstEnv.index
      <3> SUFFICES ASSUME ~unguarded'
                   PROVE  Config(env).pii = FirstEnv.pii /\ Config(env).index = FirstEnv.index
        OBVIOUS
      <3>1. ~KeyRefused(env, "pii") /\ ~KeyRefused(env, "index")
        BY <2>1 DEF Loads, KeyNames
      <3>2. env.pii \in Keys /\ env.index \in Keys
        BY <2>1, <3>1 DEF KeyRefused
      <3> QED
        BY <3>2 DEF Config, DecodeKey, KeptKeys
    <2> QED
      BY <2>1, <2>2 DEF KeptKeys, Live, Taken
  <1>3. ASSUME NEW i \in Instances, Stop(i) PROVE KeptKeys'
    <2>1. /\ UNCHANGED <<env, rows, unguarded>>
          /\ \A j \in Instances : conf'[j] = IF j = i THEN NoConf ELSE conf[j]
      BY <1>0, <1>3 DEF Stop, TypeOK
    <2> QED
      BY <2>1 DEF KeptKeys, Live, Taken
  <1>4. ASSUME NEW i \in Instances, NEW a \in Applicants, Submit(i, a) PROVE KeptKeys'
    <2>1. PICK n \in Ids \ Taken : rows' = [rows EXCEPT ![n] =
                [who |-> a, pii |-> conf[i].pii, index |-> conf[i].index, code |-> NoCode]]
      BY <1>4 DEF Submit
    <2>2. i \in Live /\ UNCHANGED <<env, conf, unguarded>>
      BY <1>4 DEF Submit
    <2>3. /\ rows'[n].pii = conf[i].pii /\ rows'[n].index = conf[i].index
          /\ \A d \in Ids \ {n} : rows'[d] = rows[d]
      BY <1>0, <2>1 DEF TypeOK
    <2>4. \A d \in Taken' : d = n \/ (d \in Taken /\ rows'[d] = rows[d])
      BY <2>3 DEF Taken
    <2> QED
      BY <2>2, <2>3, <2>4 DEF KeptKeys, Live
  <1>5. ASSUME NEW w \in writes, Land(w) PROVE KeptKeys'
    <2>1. \A d \in Taken' : d \in Taken /\ rows'[d].pii = rows[d].pii /\ rows'[d].index = rows[d].index
      BY <1>5, LandRows DEF Taken
    <2>2. UNCHANGED <<env, conf, unguarded>>
      BY <1>5 DEF Land
    <2> QED
      BY <2>1, <2>2 DEF KeptKeys, Live
  <1>6. CASE UNCHANGED <<env, conf, rows, unguarded>>
    BY <1>6 DEF KeptKeys, Live, Taken
  <1>7. \/ Edit \/ UNCHANGED <<env, conf, rows, unguarded>>
        \/ \E i \in Instances : Start(i) \/ Stop(i) \/ \E a \in Applicants : Submit(i, a)
        \/ \E w \in writes : Land(w)
    BY DEF Next, vars, Seed, Lookup, Lose
  <1> QED
    BY <1>1, <1>2, <1>3, <1>4, <1>5, <1>6, <1>7

(* Slips with the data keys, and their repair, never make a row unreadable  *)
(* or lost to its applicant, unless an instance began outside production    *)
(* without one of them.                                                     *)
THEOREM SlipsAreHarmless ==
    ASSUME OnlySlips
    PROVE  Spec => []RowsOpen
  <1>1. KeptKeys => RowsOpen
    BY DEF KeptKeys, RowsOpen, Found, Opens
  <1>2. CodesInv /\ KeptKeys /\ [Next]_vars => KeptKeys'
    BY KeptNext
  <1> QED
    BY CodesInit, CodesNext, KeptInit, <1>1, <1>2, PTL DEF Spec
=============================================================================
