------------------------------ MODULE Identity ------------------------------
(***************************************************************************)
(* How a phone number, a date and an e-mail address are recognised and     *)
(* reduced to the keys the database is searched by.                        *)
(*                                                                         *)
(* A text is abstracted to the choices its writer made.  A phone number is *)
(* a subscriber number (the 1[3-9]xxxxxxxx part) behind one of the dialling*)
(* prefixes, perhaps split by spaces or dashes; a date is a day written in *)
(* some layout; an address is a mailbox, perhaps with characters of the    *)
(* set "+", "-", "(", ")" in it, which make it another mailbox, and perhaps*)
(* in capitals, which do not.  HMAC-SHA256 under a fixed key is taken to   *)
(* be injective, so a blind index is the normalised text itself.           *)
(***************************************************************************)

CONSTANTS
    Numbers,     \* subscriber numbers
    Days,        \* calendar days
    Mailboxes    \* addresses, less their letter case and what normalize drops

Prefixes == {"0", "880", "+880", "00880"}
Layouts  == {"yyyy-mm-dd", "dd-mm-yyyy", "dd/mm/yyyy"}

Phone == [prefix : Prefixes, number : Numbers, split : BOOLEAN]
Date  == [layout : Layouts \cup {"other"}, day : Days]
Email == [mailbox : Mailboxes, marks : BOOLEAN, capitals : BOOLEAN]

(* The "bdphone" rule: spaces and dashes are dropped before the match. *)
BdPhone(p) == p.prefix \in {"0", "880", "+880"}

(* The "datestr" rule. *)
DateStr(d) == d.layout \in Layouts

(* normalizeDate: every accepted layout becomes yyyy-mm-dd, the rest is kept. *)
NormalizeDate(d) == IF DateStr(d) THEN [d EXCEPT !.layout = "yyyy-mm-dd"] ELSE d

(* BlindIndex.Hash of a phone number: "+", spaces, dashes and parentheses   *)
(* disappear, the digits of the prefix stay.                                *)
PhoneKey(p) == <<IF p.prefix = "+880" THEN "880" ELSE p.prefix, p.number>>

(* BlindIndex.Hash of phone + "|" + normalizeDate(dob). *)
PhoneDobKey(p, d) == <<PhoneKey(p), NormalizeDate(d)>>

(* BlindIndex.Hash of an address: the same normalisation as a phone number, *)
(* in lower case and without the marks.                                     *)
EmailKey(e) == e.mailbox
=============================================================================
