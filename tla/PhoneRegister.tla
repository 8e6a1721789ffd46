--------------------------- MODULE PhoneRegister ---------------------------
(***************************************************************************)
(* What the admissions API promises about applications, with no database,  *)
(* no handler and no row: a register that each phone key enters at most    *)
(* once, and an outcome for each client that follows from it.  A client    *)
(* that was told nothing, or told of an internal error, may or may not     *)
(* have entered its key.                                                   *)
(***************************************************************************)
EXTENDS TLAPS

CONSTANTS
    Clients,
    Keys,
    NoKey

VARIABLES
    taken,      \* keys in the register
    ask,        \* ask[c]: the key c applies with, NoKey before it is known
    outcome     \* outcome[c]: what the server has settled for c

vars == <<taken, ask, outcome>>

Outcomes == {"open", "accepted", "conflict", "failed"}

TypeOK ==
    /\ taken \subseteq Keys
    /\ ask \in [Clients -> Keys \cup {NoKey}]
    /\ outcome \in [Clients -> Outcomes]

Init ==
    /\ taken = {}
    /\ ask = [c \in Clients |-> NoKey]
    /\ outcome = [c \in Clients |-> "open"]

Settle(c, o) == outcome' = [outcome EXCEPT ![c] = o]

Ask(c) ==
    /\ outcome[c] = "open" /\ ask[c] = NoKey
    /\ \E k \in Keys : ask' = [ask EXCEPT ![c] = k]
    /\ UNCHANGED <<taken, outcome>>

Accept(c) ==
    /\ outcome[c] = "open"
    /\ ask[c] \in Keys \ taken
    /\ taken' = taken \cup {ask[c]}
    /\ Settle(c, "accepted")
    /\ UNCHANGED ask

Conflict(c) ==
    /\ outcome[c] = "open"
    /\ ask[c] \in taken
    /\ Settle(c, "conflict")
    /\ UNCHANGED <<taken, ask>>

(* The client learns nothing, or only that something went wrong. *)
Fail(c) ==
    /\ Settle(c, "failed")
    /\ \/ UNCHANGED taken
       \/ /\ outcome[c] = "open" /\ ask[c] \in Keys
          /\ taken' = taken \cup {ask[c]}
    /\ UNCHANGED ask

Forget(c) ==
    /\ outcome' = [outcome EXCEPT ![c] = "open"]
    /\ ask' = [ask EXCEPT ![c] = NoKey]
    /\ UNCHANGED taken

Next == \E c \in Clients : Ask(c) \/ Accept(c) \/ Conflict(c) \/ Fail(c) \/ Forget(c)

Spec == Init /\ [][Next]_vars
-----------------------------------------------------------------------------
(* No two clients are both accepted with one key, and a client is accepted *)
(* or refused only over a key that is in the register.                     *)
OneAcceptancePerKey ==
    /\ \A c, d \in Clients :
          outcome[c] = "accepted" /\ outcome[d] = "accepted" /\ ask[c] = ask[d] => c = d
    /\ \A c \in Clients : outcome[c] \in {"accepted", "conflict"} => ask[c] \in taken

(* The property is inductive: an accepted key is in the register, so nobody *)
(* else can be accepted with it.                                            *)
THEOREM RegisterHolds == Spec => [](TypeOK /\ OneAcceptancePerKey)
  <1>1. Init => TypeOK /\ OneAcceptancePerKey
    BY DEF Init, TypeOK, OneAcceptancePerKey, Outcomes
  <1>2. TypeOK /\ OneAcceptancePerKey /\ [Next]_vars => (TypeOK /\ OneAcceptancePerKey)'
    <2> SUFFICES ASSUME TypeOK, OneAcceptancePerKey, [Next]_vars
                 PROVE  (TypeOK /\ OneAcceptancePerKey)'
      OBVIOUS
    <2> USE DEF TypeOK, OneAcceptancePerKey, Outcomes
    <2>1. CASE UNCHANGED vars
      BY <2>1 DEF vars
    <2>2. ASSUME NEW c \in Clients, Ask(c)
          PROVE  (TypeOK /\ OneAcceptancePerKey)'
      BY <2>2 DEF Ask
    <2>3. ASSUME NEW c \in Clients, Accept(c)
          PROVE  (TypeOK /\ OneAcceptancePerKey)'
      BY <2>3 DEF Accept, Settle
    <2>4. ASSUME NEW c \in Clients, Conflict(c) \/ Fail(c) \/ Forget(c)
          PROVE  (TypeOK /\ OneAcceptancePerKey)'
      BY <2>4 DEF Conflict, Fail, Forget, Settle
    <2> QED
      BY <2>1, <2>2, <2>3, <2>4 DEF Next
  <1> QED
    BY <1>1, <1>2, PTL DEF Spec
=============================================================================
