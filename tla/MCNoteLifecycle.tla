---------------------------- MODULE MCNoteLifecycle ----------------------------
(* An owner and one principal the note may be shared with; two images may be  *)
(* drawn, one fits.                                                           *)
EXTENDS Portable

CONSTANTS owner, friend, first, second

MCOthers == {friend}
MCImages == {first, second}
================================================================================
