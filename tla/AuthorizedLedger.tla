-------------------------- MODULE AuthorizedLedger --------------------------
(***************************************************************************)
(* What paper execution promises, whatever the account does: an append-    *)
(* only ledger of fills in which an authorization appears at most once, at *)
(* an opening inside its window, and time never runs backwards.            *)
(***************************************************************************)
EXTENDS Naturals, Sequences

CONSTANTS Windows   \* the authorizations: records with id, earliest, expires

VARIABLE ledger     \* the sequence of fills, records [id, at]

Fills(o, t) ==
  /\ \A i \in DOMAIN ledger : ledger[i].id # o.id
  /\ \A i \in DOMAIN ledger : ledger[i].at <= t
  /\ o.earliest <= t /\ t <= o.expires
  /\ ledger' = Append(ledger, [id |-> o.id, at |-> t])

Init == ledger = <<>>

Next == \E o \in Windows : \E t \in o.earliest .. o.expires : Fills(o, t)

Spec == Init /\ [][Next]_ledger
=============================================================================
