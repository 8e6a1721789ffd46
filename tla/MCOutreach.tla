----------------------------- MODULE MCOutreach -----------------------------
(* Instances of Outreach for TLC.                                            *)
EXTENDS Outreach, TLC

CONSTANTS a1, a2

Address(mailbox, marks, capitals) ==
    [mailbox |-> mailbox, marks |-> marks, capitals |-> capitals]

(* One mailbox in two letter cases, another that only marks tell from it,   *)
(* and a third.                                                             *)
MCAddresses ==
    {Address(a1, FALSE, FALSE), Address(a1, FALSE, TRUE), Address(a1, TRUE, FALSE),
     Address(a2, FALSE, FALSE)}

OutreachSymmetry ==
    Permutations(Contacts) \cup Permutations(Signups) \cup Permutations(Messages)
=============================================================================
