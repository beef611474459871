------------------------------- MODULE MCNoteSync -------------------------------
(* A small instance of NoteSync: alice owns note 1, bob note 2; bob's notes  *)
(* are synchronised, so that note 1 comes and goes with its access list.     *)
EXTENDS NoteSync

CONSTANTS alice, bob

MCPrincipals == {alice, bob}
MCClients    == {bob}
MCOwner      == <<alice, bob>>
===============================================================================
