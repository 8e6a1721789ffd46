------------------------------ MODULE Outreach ------------------------------
(***************************************************************************)
(* Contact messages and newsletter subscriptions: the handlers             *)
(* CreateContact and Subscribe with their repository methods.  Both make   *)
(* one write on the primary and answer 201.  A message has no key, so a    *)
(* visitor who tries again after a lost answer leaves a second copy; a     *)
(* subscription has the blind index of its address, and a repeat is        *)
(* absorbed by the INSERT itself.                                          *)
(***************************************************************************)
EXTENDS Identity, Naturals, FiniteSets

CONSTANTS
    Contacts,      \* slots of POST /v1/contact
    Signups,       \* slots of POST /v1/newsletter
    Messages,      \* what visitors write
    Addresses,     \* the addresses they sign up with
    NoForm,
    MaxSends,      \* bound: contact messages sent in a behaviour
    MaxFaults      \* bound: failed calls and killed requests in a behaviour

Requests == Contacts \cup Signups

ASSUME OutreachAssumptions ==
    /\ Contacts \cap Signups = {}
    /\ Addresses \subseteq Email
    /\ Messages \cap Email = {}
    /\ IsFiniteSet(Contacts)
    /\ NoForm \notin Messages \cup Email
    /\ MaxSends \in Nat /\ MaxFaults \in Nat

VARIABLES
    inbox,         \* contact_messages: copies of each message
    subscribers,   \* newsletter_subscribers: the stored addresses
    pc, form, reply,
    delivered,     \* history: 201 answers each message's senders received
    sends, faults

vars == <<inbox, subscribers, pc, form, reply, delivered, sends, faults>>

Refusals == {"400", "403", "422"}

TypeOK ==
    /\ inbox \in [Messages -> Nat]
    /\ subscribers \subseteq Email
    /\ pc \in [Requests -> {"idle", "check", "write", "respond"}]
    /\ form \in [Requests -> Messages \cup Email \cup {NoForm}]
    /\ reply \in [Requests -> Refusals \cup {"none", "201", "500"}]
    /\ delivered \in [Messages -> Nat]
    /\ sends \in 0..MaxSends
    /\ faults \in 0..MaxFaults

Init ==
    /\ inbox = [m \in Messages |-> 0]
    /\ subscribers = {}
    /\ pc = [r \in Requests |-> "idle"]
    /\ form = [r \in Requests |-> NoForm]
    /\ reply = [r \in Requests |-> "none"]
    /\ delivered = [m \in Messages |-> 0]
    /\ sends = 0
    /\ faults = 0

Answer(r, status) ==
    /\ pc' = [pc EXCEPT ![r] = "respond"]
    /\ reply' = [reply EXCEPT ![r] = status]

Fault == faults < MaxFaults /\ faults' = faults + 1

ArriveContact(r) ==
    /\ r \in Contacts /\ pc[r] = "idle" /\ sends < MaxSends
    /\ \E m \in Messages : form' = [form EXCEPT ![r] = m]
    /\ pc' = [pc EXCEPT ![r] = "check"]
    /\ sends' = sends + 1
    /\ UNCHANGED <<inbox, subscribers, reply, delivered, faults>>

ArriveSignup(r) ==
    /\ r \in Signups /\ pc[r] = "idle"
    /\ \E e \in Addresses : form' = [form EXCEPT ![r] = e]
    /\ pc' = [pc EXCEPT ![r] = "check"]
    /\ UNCHANGED <<inbox, subscribers, reply, delivered, sends, faults>>

(* BodyParser, the bot check and the field rules, in that order. *)
Screen(r) ==
    /\ pc[r] = "check"
    /\ \/ \E status \in Refusals : Answer(r, status)
       \/ pc' = [pc EXCEPT ![r] = "write"] /\ UNCHANGED reply
    /\ UNCHANGED <<inbox, subscribers, form, delivered, sends, faults>>

AddCopy(m) == inbox' = [inbox EXCEPT ![m] = @ + 1]

(* ux_newsletter_email_bidx *)
Subscribed(email) == \E e \in subscribers : EmailKey(e) = EmailKey(email)

(* Mutants of AddSubscriber: only the key is stored; the index is on the    *)
(* address as written.                                                      *)
AddKey(email) == subscribers' = subscribers \cup {EmailKey(email)}
AddAsWritten(email) == subscribers' = subscribers \cup {email}

(* INSERT ... ON CONFLICT (email_bidx) DO NOTHING *)
AddSubscriber(email) ==
    subscribers' = IF Subscribed(email) THEN subscribers ELSE subscribers \cup {email}

(* Mutants of CreateContact: tried again though it went through, or         *)
(* answered without the write.                                              *)
WriteRetried(r) ==
    /\ r \in Contacts /\ pc[r] = "write"
    /\ AddCopy(form[r])
    /\ UNCHANGED <<subscribers, pc, form, reply, delivered, sends, faults>>

ContactUnwritten(r) ==
    /\ r \in Contacts /\ pc[r] = "write"
    /\ Answer(r, "201")
    /\ UNCHANGED <<inbox, subscribers, form, delivered, sends, faults>>

CreateContact(r) ==
    /\ r \in Contacts /\ pc[r] = "write"
    /\ AddCopy(form[r])
    /\ Answer(r, "201")
    /\ UNCHANGED <<subscribers, form, delivered, sends, faults>>

Subscribe(r) ==
    /\ r \in Signups /\ pc[r] = "write"
    /\ AddSubscriber(form[r])
    /\ Answer(r, "201")
    /\ UNCHANGED <<inbox, form, delivered, sends, faults>>

(* The call fails before the commit, or its outcome is lost after it. *)
WriteFails(r) ==
    /\ pc[r] = "write" /\ Fault
    /\ \/ UNCHANGED <<inbox, subscribers>>
       \/ r \in Contacts /\ AddCopy(form[r]) /\ UNCHANGED subscribers
       \/ r \in Signups /\ AddSubscriber(form[r]) /\ UNCHANGED inbox
    /\ Answer(r, "500")
    /\ UNCHANGED <<form, delivered, sends>>

Leave(r) ==
    /\ pc' = [pc EXCEPT ![r] = "idle"]
    /\ form' = [form EXCEPT ![r] = NoForm]
    /\ reply' = [reply EXCEPT ![r] = "none"]

(* The visitor has the answer, and may come again. *)
Respond(r) ==
    /\ pc[r] = "respond"
    /\ delivered' = IF r \in Contacts /\ reply[r] = "201"
                    THEN [delivered EXCEPT ![form[r]] = @ + 1] ELSE delivered
    /\ Leave(r)
    /\ UNCHANGED <<inbox, subscribers, sends, faults>>

(* The instance dies under the request. *)
Kill(r) ==
    /\ pc[r] # "idle" /\ Fault
    /\ Leave(r)
    /\ UNCHANGED <<inbox, subscribers, delivered, sends>>

Next ==
    \E r \in Requests :
        \/ ArriveContact(r) \/ ArriveSignup(r) \/ Screen(r)
        \/ CreateContact(r) \/ Subscribe(r) \/ WriteFails(r)
        \/ Respond(r) \/ Kill(r)

Spec == Init /\ [][Next]_vars
-----------------------------------------------------------------------------
(* Properties.                                                              *)

Acknowledging(m) == {r \in Contacts : form[r] = m /\ reply[r] = "201"}

(* Each 201 a visitor has received, or is about to, stands for a stored     *)
(* copy of its own: two visitors never share one.                           *)
MessagesKept ==
    \A m \in Messages : delivered[m] + Cardinality(Acknowledging(m)) <= inbox[m]

(* CreateContact has no key to tell a retry by, yet every copy beyond those *)
(* acknowledged is paid for by one failure: the server itself never repeats.*)
CopiesAccounted ==
    \A m \in Messages : inbox[m] <= delivered[m] + Cardinality(Acknowledging(m)) + faults

(* However subscriptions and repeats race, a 201 to a subscriber means that *)
(* the key of the address is stored, in one row.                            *)
SubscribedOnce ==
    \A r \in Signups : reply[r] = "201" =>
        \E d \in subscribers : {e \in subscribers : EmailKey(e) = EmailKey(form[r])} = {d}

(* A repeat never replaces or removes what an earlier subscriber stored.    *)
SubscribersStay == [][subscribers \subseteq subscribers']_subscribers

(* Two writings of one mailbox, which may differ in letter case only.       *)
SameAddress(d, e) == d.mailbox = e.mailbox /\ d.marks = e.marks

(* An address that is told "Subscribed." is among the subscribers.          *)
SubscribedIsStored ==
    \A r \in Signups : reply[r] = "201" => \E e \in subscribers : SameAddress(e, form[r])
=============================================================================
