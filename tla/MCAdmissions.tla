---------------------------- MODULE MCAdmissions ----------------------------
(* Instances of Admissions for TLC.                                          *)
EXTENDS Admissions, TLC

CONSTANTS r1, r2, n1, n2, d1, d2

Tel(prefix, number, split) == [prefix |-> prefix, number |-> number, split |-> split]
On(layout, day) == [layout |-> layout, day |-> day]
Body(parsed, phone, dob, rest) == [parsed |-> parsed, phone |-> phone, dob |-> dob, rest |-> rest]

(* One number written in two ways that agree, in two layouts of one day and *)
(* with another day, and in a third way that does not agree and so counts   *)
(* as another number; and a body that is not JSON.                          *)
MCForms ==
    {Body(TRUE, Tel("+880", n1, TRUE), On("dd/mm/yyyy", d1), TRUE),
     Body(TRUE, Tel("880", n1, FALSE), On("yyyy-mm-dd", d1), TRUE),
     Body(TRUE, Tel("880", n1, FALSE), On("yyyy-mm-dd", d2), TRUE),
     Body(TRUE, Tel("0", n1, FALSE), On("dd-mm-yyyy", d1), TRUE),
     Body(FALSE, Tel("0", n1, FALSE), On("yyyy-mm-dd", d1), TRUE)}

(* Two applicants, each writing one way. *)
MCFewForms ==
    {Body(TRUE, Tel("0", n1, FALSE), On("yyyy-mm-dd", d1), TRUE),
     Body(TRUE, Tel("0", n2, FALSE), On("yyyy-mm-dd", d1), TRUE)}

(* Two writings of one number that do not agree. *)
MCTwoWritings ==
    {Body(TRUE, Tel("0", n1, FALSE), On("yyyy-mm-dd", d1), TRUE),
     Body(TRUE, Tel("+880", n1, FALSE), On("yyyy-mm-dd", d1), TRUE)}

(* Two applicants, and a body that is refused. *)
MCOddForms ==
    MCFewForms \cup {Body(TRUE, Tel("00880", n1, FALSE), On("other", d1), FALSE)}

(* A code of its own for each id. *)
OwnCode == [i \in Ids |-> i]

(* Two ids whose 40 bits are the same. *)
SharedCode == [i \in Ids |-> r1]
=============================================================================
