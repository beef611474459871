--------------------------- MODULE MCWebhookDelivery ---------------------------
(***************************************************************************)
(* Small instances of WebhookDelivery: two subscriptions that want the     *)
(* same kind of change, and an internal kind that neither of them gets.    *)
(***************************************************************************)
EXTENDS WebhookDelivery, TLC

CONSTANTS s1, s2

MCSubs         == {s1, s2}
MCKinds        == {"note.updated", "note.state_changed"}
MCNoteKinds    == MCKinds
MCWebhookKinds == {"note.updated"}
MCWants        == [s \in MCSubs |-> {"note.updated"}]

Symmetry == Permutations(MCSubs)
===============================================================================
