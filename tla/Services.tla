-------------------------------- MODULE Services -------------------------------
(***************************************************************************)
(* Seven components side by side: accounts, the library, the maintenance   *)
(* commands, the backups, the MCP tools, the macros and what is shown of   *)
(* notes.  They share nothing but the clock, and any of them moves at any  *)
(* time.  Commands that both Accounts and Offline know run independently   *)
(* here, where the code gives both one lock: this allows more.             *)
(***************************************************************************)
EXTENDS AccountsArchive, LibraryArchive, Offline, Backups, McpTools, MathMacros, NoteView

CONSTANT BackupTime  \* bound: the clock, in behaviours of the backups alone

AccountsRest == <<commandVars, bindVars, loginVars, sessionVars>>
BackupsRest  == <<gens, job>>
\* What a step of one component leaves alone, of those that come after the clock.
Quiet        == <<toolVars, macroVars, tables>>
servicesVars == <<accountVars, libraryVars, offlineVars, BackupsRest, Quiet>>

ServicesInit ==
    /\ AccountsInit /\ BibliographyInit /\ OfflineInit /\ BackupsInit
    /\ ToolsInit /\ MacrosInit /\ ViewInit

\* The clock goes on for everyone with the accounts, which have a step for it.
AccountsMove ==
    AccountsNext /\ UNCHANGED <<libraryVars, offlineVars, BackupsRest, Quiet>>
LibraryMoves ==
    BibliographyNext /\ UNCHANGED <<AccountsRest, offlineVars, BackupsRest, Quiet>>
OfflineMoves ==
    OfflineNext /\ UNCHANGED <<clockVars, AccountsRest, libraryVars, BackupsRest, Quiet>>
BackupsMove ==
    BackupsNext /\ UNCHANGED <<clockVars, AccountsRest, libraryVars, offlineVars, Quiet>>

Others == <<clockVars, AccountsRest, libraryVars, offlineVars, BackupsRest>>
ToolsMove  == ToolsNext  /\ UNCHANGED <<Others, macroVars, tables>>
MacrosMove == MacrosNext /\ UNCHANGED <<Others, toolVars, tables>>
ViewsMove  == ViewNext   /\ UNCHANGED <<Others, toolVars, macroVars>>

ServicesNext ==
    \/ AccountsMove \/ LibraryMoves \/ OfflineMoves \/ BackupsMove
    \/ ToolsMove \/ MacrosMove \/ ViewsMove

ServicesSpec == ServicesInit /\ [][ServicesNext]_servicesVars

\* Every variable of the components keeps its type, whichever of them move.
ServicesTypeOK ==
    /\ AccountsTypeOK /\ BibliographyTypeOK /\ OfflineTypeOK /\ BackupsTypeOK
    /\ ToolsTypeOK /\ MacrosTypeOK /\ ViewTypeOK

-------------------------------------------------------------------------------
(* What TLC explores: a behaviour moves one component, chosen at the start, *)
(* so that their states add up instead of multiplying.  The library's clock *)
(* stands still.                                                            *)

VARIABLE focus

focusVars == <<focus, servicesVars>>

FocusInit ==
    /\ focus \in {"accounts", "library", "offline", "backups", "tools", "macros", "views"}
    /\ ServicesInit
    /\ focus # "macros" => macros = Default
    /\ focus # "offline" => lasting = {} /\ db = [version |-> "current", data |-> 0]

FocusNext ==
    /\ \/ focus = "accounts" /\ AccountsMove
       \/ focus = "library" /\ LibraryMoves
       \/ focus = "offline" /\ OfflineMoves
       \/ focus = "backups" /\ BackupsMove
       \/ /\ focus = "backups" /\ now < BackupTime
          /\ Tick /\ UNCHANGED <<AccountsRest, libraryVars, offlineVars, BackupsRest, Quiet>>
       \/ focus = "tools" /\ ToolsMove
       \/ focus = "macros" /\ MacrosMove
       \/ focus = "views" /\ ViewsMove
    /\ UNCHANGED focus

FocusSpec == FocusInit /\ [][FocusNext]_focusVars
================================================================================
