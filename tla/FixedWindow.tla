---------------------------- MODULE FixedWindow ----------------------------
(***************************************************************************)
(* What a fixed-window rate limiter promises: a counter that is read,      *)
(* raised and judged in one step.  A window opens with the request that    *)
(* finds none open, lasts Window ticks and admits the budget; refused      *)
(* requests neither count nor prolong it.  A failure may lose count or     *)
(* admit a request on a window of its own, but no window that is open      *)
(* lasts longer for it.                                                    *)
(***************************************************************************)
EXTENDS Naturals

CONSTANTS
    Counters,      \* one for each client address, limiter and storage
    Requests,
    Budget,        \* what a window of each counter admits
    Window         \* how long it lasts

VARIABLES
    left,          \* left[c]: ticks left of the open window, or 0
    used,          \* used[c]: requests it has admitted
    verdict,       \* verdict[r]: what r has been told, by which counter, until it acts
    faults         \* failures so far

vars == <<left, used, verdict, faults>>

None == <<>>

Init ==
    /\ left = [c \in Counters |-> 0]
    /\ used = [c \in Counters |-> 0]
    /\ verdict = [r \in Requests |-> None]
    /\ faults = 0

Told(r, v) == verdict' = [verdict EXCEPT ![r] = v]

CountAfresh(c) ==
    /\ left' = [left EXCEPT ![c] = Window]
    /\ used' = [used EXCEPT ![c] = 1]

(* c counts one request more: in the window that is open, if it has room,   *)
(* or in one that opens now.                                                *)
Count(c) ==
    \/ /\ left[c] > 0 /\ used[c] < Budget[c]
       /\ used' = [used EXCEPT ![c] = @ + 1]
       /\ UNCHANGED left
    \/ left[c] = 0 /\ CountAfresh(c)

(* Out of reach, the count starts again with r, at the price of a failure.  *)
Admit(r, c) ==
    /\ Told(r, <<"pass", c>>)
    /\ \/ Count(c) /\ UNCHANGED faults
       \/ CountAfresh(c) /\ faults' = faults + 1

Refuse(r, c) ==
    /\ Told(r, <<"refuse", c>>)
    /\ left[c] > 0 /\ used[c] = Budget[c]
    /\ UNCHANGED <<left, used, faults>>

Judge(r) == \E c \in Counters : Admit(r, c) \/ Refuse(r, c)

(* r goes on to its next limiter, or is done. *)
Leave(r) ==
    /\ Told(r, None)
    /\ UNCHANGED <<left, used, faults>>

(* A failure: counts may be lost, and requests with them. *)
Lapse ==
    /\ faults' = faults + 1
    /\ \E lost \in SUBSET Requests :
          verdict' = [r \in Requests |-> IF r \in lost THEN None ELSE verdict[r]]
    /\ left' \in [Counters -> 0..Window] /\ used' \in [Counters -> Nat]
    /\ \A c \in Counters :
          left'[c] <= left[c] /\ used'[c] <= Budget[c] /\ (left'[c] = 0 => used'[c] = 0)

Tick ==
    /\ UNCHANGED <<verdict, faults>>
    /\ left' = [c \in Counters |-> IF left[c] = 0 THEN 0 ELSE left[c] - 1]
    /\ used' = [c \in Counters |-> IF left[c] <= 1 THEN 0 ELSE used[c]]

Next ==
    \/ \E r \in Requests :
          \/ Leave(r)
          \/ verdict[r] = None /\ verdict'[r] # None /\ Judge(r)
    \/ Lapse
    \/ Tick

Spec == Init /\ [][Next]_vars
=============================================================================
