--------------------------- MODULE OutreachProofs ---------------------------
(***************************************************************************)
(* Theorems about Outreach, for any number of slots, messages, mailboxes   *)
(* and faults.  The counting properties rest on one observation: a step    *)
(* adds at most one request to those that are acknowledging a message, and *)
(* then it also adds a copy, or removes one, which has then been delivered *)
(* or cost a fault.                                                        *)
(***************************************************************************)
EXTENDS Outreach, FiniteSetTheorems, TLAPS

(* Which request writes what, and which has an answer. *)
Flow ==
    \A r \in Requests :
        /\ pc[r] # "idle" /\ r \in Contacts => form[r] \in Messages
        /\ pc[r] # "idle" /\ r \in Signups => form[r] \in Email
        /\ pc[r] # "respond" => reply[r] = "none"

(* However subscriptions and repeats race, no two rows have one address key.*)
OneRowPerAddressKey ==
    \A d, e \in subscribers : EmailKey(d) = EmailKey(e) => d = e

(* The key of an address that is told 201 is stored. *)
SubscribedKeyStored ==
    \A r \in Signups : reply[r] = "201" => Subscribed(form[r])

(* SubscribedOnce is not inductive: a row nobody is being answered for      *)
(* might share a key with a later one.  All rows have keys of their own.    *)
Inv ==
    /\ TypeOK /\ Flow
    /\ OneRowPerAddressKey /\ SubscribedKeyStored

(* Every step keeps the invariant. *)
LEMMA InvStep == Inv /\ [Next]_vars => Inv'
  <1> SUFFICES ASSUME Inv, [Next]_vars
               PROVE  Inv'
    OBVIOUS
  <1> USE OutreachAssumptions DEF Inv, Requests
  <1>1. CASE UNCHANGED vars
    BY <1>1
    DEF vars, TypeOK, Flow, OneRowPerAddressKey, SubscribedKeyStored, Subscribed
  <1>2. ASSUME NEW r \in Requests,
               \/ ArriveContact(r) \/ ArriveSignup(r) \/ Screen(r)
               \/ CreateContact(r) \/ Subscribe(r) \/ WriteFails(r)
               \/ Respond(r) \/ Kill(r)
        PROVE  Inv'
    <2>1. TypeOK'
      <3>1. faults' \in 0..MaxFaults
        BY <1>2
        DEF ArriveContact, ArriveSignup, Screen, CreateContact, Subscribe, WriteFails, Respond,
            Kill, Fault, TypeOK
      <3> USE <3>1 DEF TypeOK, Answer, Refusals
      <3>2. CASE ArriveContact(r)
        BY <3>2 DEF ArriveContact
      <3>3. CASE ArriveSignup(r)
        BY <3>3 DEF ArriveSignup
      <3>4. CASE Screen(r)
        BY <3>4 DEF Screen
      <3>5. CASE CreateContact(r)
        <4>1. form[r] \in Messages
          BY <3>5 DEF CreateContact, Flow
        <4> QED
          BY <3>5, <4>1 DEF CreateContact, AddCopy
      <3>6. CASE Subscribe(r)
        BY <3>6 DEF Subscribe, AddSubscriber, Flow
      <3>7. CASE WriteFails(r)
        <4>1. /\ r \in Contacts => form[r] \in Messages
              /\ r \in Signups => form[r] \in Email
          BY <3>7 DEF WriteFails, Flow
        <4>2. inbox' \in [Messages -> Nat] /\ subscribers' \subseteq Email
          BY <3>7, <4>1 DEF WriteFails, AddCopy, AddSubscriber
        <4> QED
          BY <3>7, <4>2 DEF WriteFails
      <3>8. CASE Respond(r)
        <4>1. delivered' \in [Messages -> Nat]
          BY <3>8 DEF Respond, Flow
        <4> QED
          BY <3>8, <4>1 DEF Respond, Leave
      <3>9. CASE Kill(r)
        BY <3>9 DEF Kill, Leave
      <3> QED
        BY <1>2, <3>2, <3>3, <3>4, <3>5, <3>6, <3>7, <3>8, <3>9
    <2>2. Flow'
      <3> USE DEF TypeOK, Flow, Answer
      <3>1. CASE ArriveContact(r)
        BY <3>1 DEF ArriveContact
      <3>2. CASE ArriveSignup(r)
        BY <3>2 DEF ArriveSignup
      <3>3. CASE Screen(r)
        BY <3>3 DEF Screen
      <3>4. CASE CreateContact(r) \/ Subscribe(r) \/ WriteFails(r)
        BY <3>4 DEF CreateContact, Subscribe, WriteFails
      <3>5. CASE Respond(r) \/ Kill(r)
        BY <3>5 DEF Respond, Kill, Leave
      <3> QED
        BY <1>2, <3>1, <3>2, <3>3, <3>4, <3>5
    <2>3. subscribers' = subscribers \/ (AddSubscriber(form[r]) /\ r \in Signups)
      BY <1>2
      DEF ArriveContact, ArriveSignup, Screen, CreateContact, Subscribe, WriteFails, Respond, Kill
    <2>4. OneRowPerAddressKey'
      BY <2>3 DEF AddSubscriber, Subscribed, OneRowPerAddressKey
    <2>5. SubscribedKeyStored'
      <3>1. \A q \in Signups : Subscribed(form[q]) => (\E e \in subscribers' : EmailKey(e) = EmailKey(form[q]))
        BY <2>3 DEF AddSubscriber, Subscribed
      <3>2. CASE Subscribe(r)
        <4>1. \E e \in subscribers' : EmailKey(e) = EmailKey(form[r])
          BY <3>2 DEF Subscribe, AddSubscriber, Subscribed
        <4> QED
          BY <3>1, <3>2, <4>1 DEF Subscribe, Answer, TypeOK, SubscribedKeyStored, Subscribed
      <3>3. CASE ~Subscribe(r)
        <4>1. \A q \in Signups : reply'[q] = "201" => reply[q] = "201" /\ form'[q] = form[q]
          <5> USE <3>3 DEF TypeOK, Answer, Refusals
          <5>1. CASE ArriveContact(r) \/ ArriveSignup(r)
            BY <5>1 DEF ArriveContact, ArriveSignup, Flow
          <5>2. CASE Screen(r) \/ CreateContact(r) \/ WriteFails(r)
            BY <5>2 DEF Screen, CreateContact, WriteFails
          <5>3. CASE Respond(r) \/ Kill(r)
            BY <5>3 DEF Respond, Kill, Leave
          <5> QED
            BY <1>2, <5>1, <5>2, <5>3
        <4> QED
          BY <3>1, <4>1 DEF SubscribedKeyStored, Subscribed
      <3> QED
        BY <3>2, <3>3
    <2> QED
      BY <2>1, <2>2, <2>4, <2>5
  <1> QED
    BY <1>1, <1>2 DEF Next

(* The invariant of the newsletter holds: types, one row per address key,   *)
(* and a stored key behind every 201.                                       *)
THEOREM OutreachHolds == Spec => []Inv
  <1>1. Init => Inv
    <2> SUFFICES ASSUME Init PROVE Inv
      OBVIOUS
    <2> USE OutreachAssumptions DEF Init, Requests
    <2>1. TypeOK
      BY DEF TypeOK
    <2>2. Flow
      BY DEF Flow
    <2>3. OneRowPerAddressKey /\ SubscribedKeyStored
      BY DEF OneRowPerAddressKey, SubscribedKeyStored
    <2> QED
      BY <2>1, <2>2, <2>3 DEF Inv
  <1> QED
    BY <1>1, InvStep, PTL DEF Spec

(* Every variable of the contact and newsletter handlers keeps its type. *)
THEOREM TypeCorrect == Spec => []TypeOK
  BY OutreachHolds, PTL DEF Inv

(* A stored address is never taken out or replaced by a repeat of it. *)
THEOREM SubscribersRemain == Spec => SubscribersStay
  <1>1. Inv /\ [Next]_vars => subscribers \subseteq subscribers'
    <2> SUFFICES ASSUME [Next]_vars
                 PROVE  subscribers \subseteq subscribers'
      OBVIOUS
    <2> QED
      BY DEF Next, vars, ArriveContact, ArriveSignup, Screen, CreateContact, Subscribe,
             WriteFails, AddSubscriber, Respond, Kill
  <1> QED
    BY <1>1, OutreachHolds, PTL DEF Spec, SubscribersStay

(* No race of sign-ups gives one address key two rows. *)
THEOREM AddressKeysAreUnique == Spec => []OneRowPerAddressKey
  <1>1. Inv => OneRowPerAddressKey
    BY DEF Inv
  <1> QED
    BY <1>1, OutreachHolds, PTL

(* The key of an address that is told 201 is stored, in one row: a race of  *)
(* sign-ups leaves neither none nor two.                                    *)
THEOREM SignupsAreStoredOnce == Spec => []SubscribedOnce
  <1>1. Inv => SubscribedOnce
    <2> SUFFICES ASSUME Inv, NEW r \in Signups, reply[r] = "201"
                 PROVE  \E d \in subscribers :
                            {e \in subscribers : EmailKey(e) = EmailKey(form[r])} = {d}
      BY DEF SubscribedOnce
    <2> PICK d \in subscribers : EmailKey(d) = EmailKey(form[r])
      BY DEF Inv, SubscribedKeyStored, Subscribed
    <2>1. {e \in subscribers : EmailKey(e) = EmailKey(form[r])} = {d}
      BY DEF Inv, OneRowPerAddressKey
    <2> QED
      BY <2>1
  <1> QED
    BY <1>1, OutreachHolds, PTL
-----------------------------------------------------------------------------
(* The acknowledging requests of a message are a finite set. *)
LEMMA AckFinite ==
    ASSUME NEW m
    PROVE  IsFiniteSet(Acknowledging(m)) /\ Cardinality(Acknowledging(m)) \in Nat
  <1>1. Acknowledging(m) \subseteq Contacts
    BY DEF Acknowledging
  <1> QED
    BY <1>1, OutreachAssumptions, FS_Subset, FS_CardinalityType

(* A step leaves that set alone, adds one request to it with a copy, or     *)
(* takes one out of it with a delivery or a fault.                          *)
LEMMA AckStep ==
    ASSUME Inv, NEW m \in Messages, Next
    PROVE  /\ inbox[m] \in Nat /\ delivered[m] \in Nat /\ faults \in Nat
           /\ inbox'[m] \in Nat /\ delivered'[m] \in Nat /\ faults' \in Nat
           /\ \/ /\ Acknowledging(m)' = Acknowledging(m)
                 /\ delivered'[m] = delivered[m]
                 /\ \/ inbox'[m] = inbox[m] /\ faults' >= faults
                    \/ inbox'[m] = inbox[m] + 1 /\ faults' = faults + 1
              \/ \E r \in Contacts \ Acknowledging(m) :
                    /\ Acknowledging(m)' = Acknowledging(m) \cup {r}
                    /\ inbox'[m] = inbox[m] + 1
                    /\ delivered'[m] = delivered[m] /\ faults' = faults
              \/ \E r \in Acknowledging(m) :
                    /\ Acknowledging(m)' = Acknowledging(m) \ {r}
                    /\ inbox'[m] = inbox[m]
                    /\ \/ delivered'[m] = delivered[m] + 1 /\ faults' = faults
                       \/ delivered'[m] = delivered[m] /\ faults' = faults + 1
  <1> USE OutreachAssumptions DEF Inv, Requests
  <1>0. Inv'
    BY InvStep
  <1>1. /\ inbox[m] \in Nat /\ delivered[m] \in Nat /\ faults \in Nat
        /\ inbox'[m] \in Nat /\ delivered'[m] \in Nat /\ faults' \in Nat
    BY <1>0 DEF TypeOK
  <1>2. PICK r \in Requests :
            \/ ArriveContact(r) \/ ArriveSignup(r) \/ Screen(r)
            \/ CreateContact(r) \/ Subscribe(r) \/ WriteFails(r)
            \/ Respond(r) \/ Kill(r)
    BY DEF Next
  <1> USE DEF TypeOK, Flow, Acknowledging
  <1>3. CASE ArriveContact(r) \/ ArriveSignup(r) \/ Screen(r) \/ Subscribe(r)
    <2>1. \A q \in Contacts : reply'[q] = "201" <=> reply[q] = "201"
      BY <1>3 DEF ArriveContact, ArriveSignup, Screen, Subscribe, Answer, Refusals
    <2>2. \A q \in Contacts : reply[q] = "201" => form'[q] = form[q]
      BY <1>3 DEF ArriveContact, ArriveSignup, Screen, Subscribe
    <2>3. UNCHANGED <<inbox, delivered, faults>>
      BY <1>3 DEF ArriveContact, ArriveSignup, Screen, Subscribe
    <2> QED
      BY <1>1, <2>1, <2>2, <2>3
  <1>4. CASE CreateContact(r)
    <2>1. r \in Contacts /\ form[r] \in Messages /\ reply[r] = "none"
      BY <1>4 DEF CreateContact
    <2>2. /\ form' = form /\ reply' = [reply EXCEPT ![r] = "201"]
          /\ inbox' = [inbox EXCEPT ![form[r]] = @ + 1] /\ UNCHANGED <<delivered, faults>>
      BY <1>4 DEF CreateContact, Answer, AddCopy
    <2>3. CASE form[r] = m
      <3>1. Acknowledging(m)' = Acknowledging(m) \cup {r} /\ r \notin Acknowledging(m)
        BY <2>1, <2>2, <2>3
      <3>2. inbox'[m] = inbox[m] + 1
        BY <2>1, <2>2, <2>3
      <3> QED
        BY <1>1, <2>1, <2>2, <3>1, <3>2
    <2>4. CASE form[r] # m
      <3>1. Acknowledging(m)' = Acknowledging(m)
        BY <2>1, <2>2, <2>4
      <3>2. inbox'[m] = inbox[m]
        BY <2>1, <2>2, <2>4
      <3> QED
        BY <1>1, <2>2, <3>1, <3>2
    <2> QED
      BY <2>3, <2>4
  <1>5. CASE WriteFails(r)
    <2>1. /\ form' = form /\ reply' = [reply EXCEPT ![r] = "500"] /\ reply[r] = "none"
          /\ delivered' = delivered /\ faults' = faults + 1
      BY <1>5 DEF WriteFails, Answer, Fault
    <2>2. Acknowledging(m)' = Acknowledging(m)
      BY <2>1
    <2>3. r \in Contacts => form[r] \in Messages
      BY <1>5 DEF WriteFails
    <2>4. inbox'[m] = inbox[m] \/ inbox'[m] = inbox[m] + 1
      BY <1>5, <2>3 DEF WriteFails, AddCopy
    <2> QED
      BY <1>1, <2>1, <2>2, <2>4
  <1>6. CASE Respond(r) \/ Kill(r)
    <2>1. /\ form' = [form EXCEPT ![r] = NoForm] /\ reply' = [reply EXCEPT ![r] = "none"]
          /\ inbox' = inbox
      BY <1>6 DEF Respond, Kill, Leave
    <2>2. Acknowledging(m)' = Acknowledging(m) \ {r}
      BY <2>1
    <2>3. CASE r \in Acknowledging(m)
      <3>1. \/ delivered'[m] = delivered[m] + 1 /\ faults' = faults
            \/ delivered'[m] = delivered[m] /\ faults' = faults + 1
        BY <1>6, <2>3 DEF Respond, Kill, Fault
      <3> QED
        BY <1>1, <2>1, <2>2, <2>3, <3>1
    <2>4. CASE r \notin Acknowledging(m)
      <3>1. Acknowledging(m)' = Acknowledging(m)
        BY <2>2, <2>4
      <3>2. delivered'[m] = delivered[m] /\ (faults' = faults \/ faults' = faults + 1)
        BY <1>6, <2>4 DEF Respond, Kill, Fault
      <3> QED
        BY <1>1, <2>1, <3>1, <3>2
    <2> QED
      BY <2>3, <2>4
  <1> QED
    BY <1>2, <1>3, <1>4, <1>5, <1>6

Counted == MessagesKept /\ CopiesAccounted

(* So every step keeps the two counting properties. *)
LEMMA CountedStep == Inv /\ Counted /\ [Next]_vars => Counted'
  <1> SUFFICES ASSUME Inv, Counted, Next
               PROVE  Counted'
    <2>1. ASSUME Counted, UNCHANGED vars PROVE Counted'
      BY <2>1 DEF vars, Counted, MessagesKept, CopiesAccounted, Acknowledging
    <2> QED
      BY <2>1
  <1>1. SUFFICES ASSUME NEW m \in Messages
                 PROVE  /\ delivered'[m] + Cardinality(Acknowledging(m)') <= inbox'[m]
                        /\ inbox'[m] <= delivered'[m] + Cardinality(Acknowledging(m)') + faults'
    BY DEF Counted, MessagesKept, CopiesAccounted
  <1> DEFINE n == Cardinality(Acknowledging(m))
             k == Cardinality(Acknowledging(m)')
  <1>2. /\ n \in Nat
        /\ delivered[m] + n <= inbox[m] /\ inbox[m] <= delivered[m] + n + faults
    BY AckFinite DEF Counted, MessagesKept, CopiesAccounted
  <1>3. CASE Acknowledging(m)' = Acknowledging(m)
    <2>1. k = n
      BY <1>3
    <2> QED
      BY <1>2, <1>3, <2>1, AckStep
  <1>4. ASSUME NEW r \in Contacts \ Acknowledging(m), Acknowledging(m)' = Acknowledging(m) \cup {r}
        PROVE  k = n + 1
    BY <1>4, AckFinite, FS_AddElement
  <1>5. ASSUME NEW r \in Acknowledging(m), Acknowledging(m)' = Acknowledging(m) \ {r}
        PROVE  n \in Nat /\ k = n - 1
    BY <1>5, AckFinite, FS_RemoveElement
  <1> HIDE DEF n, k
  <1>6. CASE Acknowledging(m)' # Acknowledging(m)
    BY <1>2, <1>4, <1>5, <1>6, AckStep DEF k
  <1> QED
    BY <1>3, <1>6 DEF k

(* And they hold of the empty inbox. *)
LEMMA CountedHolds == Spec => []Counted
  <1>1. Init => Counted
    <2> SUFFICES ASSUME Init, NEW m \in Messages
                 PROVE  /\ delivered[m] = 0 /\ inbox[m] = 0 /\ faults = 0
                        /\ Cardinality(Acknowledging(m)) = 0
      BY DEF Counted, MessagesKept, CopiesAccounted
    <2>1. Acknowledging(m) = {}
      BY DEF Init, Requests, Acknowledging
    <2> QED
      BY <2>1, FS_EmptySet DEF Init
  <1> QED
    BY <1>1, CountedStep, OutreachHolds, PTL DEF Spec

(* Every acknowledged message has a stored copy of its own. *)
THEOREM AcknowledgedMessagesKept == Spec => []MessagesKept
  <1>1. Counted => MessagesKept
    BY DEF Counted
  <1> QED
    BY <1>1, CountedHolds, PTL

(* Every copy beyond those acknowledged has cost a failure. *)
THEOREM CopiesAreAccounted == Spec => []CopiesAccounted
  <1>1. Counted => CopiesAccounted
    BY DEF Counted
  <1> QED
    BY <1>1, CountedHolds, PTL
=============================================================================
