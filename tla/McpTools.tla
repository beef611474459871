-------------------------------- MODULE McpTools --------------------------------
(***************************************************************************)
(* The MCP endpoint: one POST per tool call, checked in a fixed order      *)
(* before it reaches a use case, and an agent that reads a note, whole or  *)
(* piece by piece, and changes it by a patch, by replacing its source or   *)
(* by deleting it.  A page of the web UI writes the same note, answers get *)
(* lost and calls are sent again, tokens expire and gain scopes.           *)
(*                                                                         *)
(* The agent writes as somebody who may edit the note throughout; who may  *)
(* is NoteLifecycle's subject, as are old revisions, and tokens are        *)
(* McpTokens's.                                                            *)
(***************************************************************************)
EXTENDS NotePatch

CONSTANTS
    Lines,       \* lines of a source
    Drafts,      \* sources a writer may come up with, valid or not
    Title,       \* the line that makes a source valid: its document title
    Warned,      \* a line that draws a warning
    UsedTools,   \* tools the agent calls
    MaxVersions  \* bound: revisions of the note

ASSUME ToolsAssumption ==
    /\ MaxVersions \in Nat /\ UsedTools \subseteq STRING
    /\ Drafts \subseteq [lines: Seq(Lines), nl: BOOLEAN]

VARIABLES
    kept,    \* the note: row, source and revision
    token,   \* the agent's token: whether there is one, and its scopes
    agent    \* what the agent knows and what the server is doing for it

toolVars == <<kept, token, agent>>

-------------------------------------------------------------------------------
(* Scopes.                                                                 *)

Supported == {"notes:read", "notes:write", "notes:delete",
              "bibliography:read", "bibliography:write", "bibliography:delete"}

\* Any one of these is enough; the first is the one to ask for.
ScopesFor(tool) ==
    CASE tool \in {"list_notes", "list_note_templates", "get_note", "get_note_outline",
                   "get_note_fragment"} -> <<"notes:read">>
      [] tool = "get_note_profile" -> <<"notes:read", "notes:write">>
      [] tool \in {"create_note", "apply_note_patch", "replace_note_source"} -> <<"notes:write">>
      [] tool = "delete_note" -> <<"notes:delete">>
      [] tool = "search_bibliography" -> <<"bibliography:read">>
      [] tool = "add_bibliography_item" -> <<"bibliography:write">>
      [] tool = "delete_bibliography_item" -> <<"bibliography:delete">>
      [] OTHER -> <<>>

Satisfied(granted, tool) ==
    ScopesFor(tool) = <<>> \/ \E k \in DOMAIN ScopesFor(tool) : ScopesFor(tool)[k] \in granted

\* Mutant: the challenge names what is missing and nothing else.
Challenge_Missing(granted, tool) == {ScopesFor(tool)[1]}

\* The scopes to ask for next: those of the token, and the one that is missing.
Challenge(granted, tool) == {s \in Supported : s \in granted \/ s = ScopesFor(tool)[1]}

-------------------------------------------------------------------------------
(* A request: what of it the endpoint looks at.  meta and header are the   *)
(* protocol versions the body and the header name.                         *)

Plain(tool) ==
    [origin |-> "none", bearer |-> "token", media |-> "json", body |-> "request",
     header |-> "legacy", meta |-> "none", capable |-> FALSE, named |-> FALSE,
     jsonrpc |-> TRUE, id |-> "given", object |-> TRUE, method |-> "tools/call", tool |-> tool]
Modern(tool) == [Plain(tool) EXCEPT !.header = "modern", !.meta = "modern", !.capable = TRUE,
                                    !.named = TRUE]

\* Requests of either era as they should be, and with one thing wrong.
Requests(tool) ==
    UNION {{q, [q EXCEPT !.origin = "own"], [q EXCEPT !.origin = "foreign"],
            [q EXCEPT !.bearer = "missing"], [q EXCEPT !.bearer = "malformed"],
            [q EXCEPT !.media = "other"], [q EXCEPT !.body = "garbage"],
            [q EXCEPT !.body = "response"], [q EXCEPT !.header = "none"],
            [q EXCEPT !.header = "other"], [q EXCEPT !.meta = "modern"],
            [q EXCEPT !.capable = FALSE], [q EXCEPT !.named = FALSE],
            [q EXCEPT !.jsonrpc = FALSE], [q EXCEPT !.id = "missing"], [q EXCEPT !.id = "bad"],
            [q EXCEPT !.object = FALSE, !.tool = "undecoded"],
            [q EXCEPT !.method = "initialize"], [q EXCEPT !.method = "ping"],
            [q EXCEPT !.method = "server/discover"], [q EXCEPT !.method = "tools/list"],
            [q EXCEPT !.method = "notifications/initialized"],
            [q EXCEPT !.tool = "update_note"], [q EXCEPT !.tool = "undecoded"]} :
           q \in {Plain(tool), Modern(tool)}}

OriginAllowed(q) == q.origin \in {"none", "own"}

IsModern(q) == q.header = "modern" \/ q.meta = "modern"

\* The headers name the method and the tool of the body.
HeadersNameTheBody(q) == q.named

EraFault(q) ==
    IF IsModern(q)
    THEN CASE q.header # q.meta -> "header_mismatch"
           [] q.header = q.meta /\ ~q.capable -> "invalid_metadata"
           [] q.header = q.meta /\ q.capable /\ ~HeadersNameTheBody(q) -> "header_mismatch"
           [] OTHER -> "none"
    ELSE IF q.header = "other" THEN "unsupported_version" ELSE "none"

NeedsId(q) == q.method \in {"initialize", "ping", "server/discover", "tools/list", "tools/call"}

\* A request the protocol does not allow. It is checked after the scopes are.
Misshapen(q) ==
    \/ ~q.jsonrpc \/ q.id = "bad" \/ ~q.object
    \/ NeedsId(q) /\ q.id = "missing"
    \/ q.method = "notifications/initialized" /\ q.id = "given"
    \/ IsModern(q) /\ q.id = "missing"

\* What becomes of a request that passed: a tool runs, something else is answered.
Dispatch(q) ==
    CASE q.method = "tools/call" -> IF q.tool = "undecoded" THEN "invalid_params" ELSE "run"
      [] q.method = "tools/list" -> "answered"
      [] q.method = "server/discover" -> IF IsModern(q) THEN "answered" ELSE "not_found"
      [] q.method \in {"initialize", "ping", "notifications/initialized"} ->
            IF IsModern(q) THEN "not_found" ELSE "answered"
      [] OTHER -> "not_found"

\* What the scopes are checked for: the tool, when a call could be decoded.
Wanted(q) == IF q.method = "tools/call" THEN q.tool ELSE "none"

\* The checks in their order.
Admitted(q) ==
    CASE ~OriginAllowed(q) -> "origin"
      [] OriginAllowed(q) /\ q.bearer # "token" -> "no_token"
      [] OriginAllowed(q) /\ q.bearer = "token" /\ q.media # "json" -> "media"
      [] OTHER ->
         CASE q.body # "request" -> "parse"
           [] q.body = "request" /\ EraFault(q) # "none" -> "era"
           [] OTHER ->
              IF token.state = "none" THEN "no_token"
              ELSE IF token.state = "expired" THEN "invalid_token"
              ELSE IF ~Satisfied(token.scopes, Wanted(q)) THEN "insufficient_scope"
              ELSE IF Misshapen(q) THEN "misshapen"
              ELSE Dispatch(q)

\* What the agent is told. A request without an id is only accepted.
Answer(is, rev) == [is |-> is, rev |-> rev]
Reply(id, answer) == IF id = "missing" THEN Answer("accepted", 0) ELSE answer

-------------------------------------------------------------------------------
NoToken == [state |-> "none", scopes |-> {}]
NoNote == [row |-> "none", text |-> Empty, rev |-> 0]
Resting == [step |-> "idle"]

ToolsInit == kept = NoNote /\ token = NoToken /\ agent = Resting

\* A draft is stored when it has a title; an agent's must draw no warning either.
Validates(text) == text.lines # <<>> /\ text.lines[1] = Title
Unwarned(text) == \A k \in DOMAIN text.lines : text.lines[k] # Warned

NoteHere == kept.row = "live"
Version(text) == [row |-> "live", text |-> text, rev |-> kept.rev + 1]

\* The page of the web UI, which may store what draws warnings.
WebWrites ==
    \E text \in Drafts :
        /\ Validates(text) /\ kept.row # "gone" /\ kept.rev < MaxVersions
        /\ kept' = Version(text)
        /\ UNCHANGED <<token, agent>>

WebDeletes ==
    /\ NoteHere /\ kept.rev < MaxVersions
    /\ kept' = [kept EXCEPT !.row = "gone", !.rev = @ + 1]
    /\ UNCHANGED <<token, agent>>

-------------------------------------------------------------------------------
(* Reading. Each is one statement, and its answer arrives or the agent asks *)
(* again.                                                                  *)

Calls(tool) == tool \in UsedTools /\ Admitted(Plain(tool)) = "run"

GetNote ==
    /\ Calls("get_note") /\ agent = Resting /\ NoteHere
    /\ agent' = [step |-> "holding", rev |-> kept.rev, copy |-> kept.text]
    /\ UNCHANGED <<kept, token>>

\* The number of lines, and which revision they are of (of: what it says, for the
\* property only).
GetOutline ==
    /\ Calls("get_note_outline") /\ agent = Resting /\ NoteHere
    /\ agent' = [step |-> "outlined", rev |-> kept.rev, count |-> Len(kept.text.lines),
                 copy |-> Empty, of |-> kept.text]
    /\ UNCHANGED <<kept, token>>

\* Mutant: the lines of whatever revision is the current one.
GetFragment_Latest ==
    /\ Calls("get_note_fragment") /\ agent.step = "outlined" /\ NoteHere
    /\ \E j \in 1..agent.count :
         LET i == Len(agent.copy.lines) + 1  piece == Fragment(kept.text, i, j) IN
         /\ piece # Rejection
         /\ agent' = [agent EXCEPT !.step = IF j = agent.count THEN "pieced" ELSE @,
                                   !.copy = [lines |-> @.lines \o piece.lines, nl |-> piece.nl]]
    /\ UNCHANGED <<kept, token>>

\* The next lines, provided the note is still at the revision of the outline.
GetFragment ==
    /\ Calls("get_note_fragment") /\ agent.step = "outlined" /\ NoteHere
    /\ kept.rev = agent.rev
    /\ \E j \in 1..agent.count :
         LET i == Len(agent.copy.lines) + 1  piece == Fragment(kept.text, i, j) IN
         /\ piece # Rejection
         /\ agent' = [agent EXCEPT !.step = IF j = agent.count THEN "pieced" ELSE @,
                                   !.copy = [lines |-> @.lines \o piece.lines, nl |-> piece.nl]]
    /\ UNCHANGED <<kept, token>>

PiecesTogether ==
    /\ agent.step = "pieced"
    /\ agent' = [step |-> "holding", rev |-> agent.rev, copy |-> agent.copy]
    /\ UNCHANGED <<kept, token>>

-------------------------------------------------------------------------------
(* Writing: the request arrives, its draft is made and checked ...         *)

\* The server works on the call.
Working(q, goal, draft) ==
    agent' = [step |-> "running", id |-> q.id, tool |-> q.tool, rev |-> agent.rev,
              copy |-> agent.copy, goal |-> goal, draft |-> draft]

Told(answer) ==
    agent' = [step |-> "answered", answer |-> answer, rev |-> agent.rev, copy |-> agent.copy]
Refused(why) == Told(Answer(why, 0))

\* apply_note_patch: the note is read, must be at the revision, and the patch fits.
PatchArrives(q, goal, context, dry) ==
    LET draft == ApplyPatch(kept.text, Diff(agent.copy, goal, context)) IN
    IF ~NoteHere THEN Refused("not_found")
    ELSE IF kept.rev # agent.rev THEN Refused("conflict")
    ELSE IF draft = Rejection THEN Refused("patch_rejected")
    ELSE IF ~Validates(draft) THEN Refused("validation")
    ELSE IF ~Unwarned(draft) THEN Refused("warning")
    ELSE IF dry THEN Told(Reply(q.id, Answer("would_apply", 0)))
    ELSE Working(q, goal, draft)

\* replace_note_source: the draft is checked before the note is looked at.
ReplaceArrives(q, goal) ==
    IF ~Validates(goal) THEN Refused("validation")
    ELSE IF ~Unwarned(goal) THEN Refused("warning")
    ELSE Working(q, goal, goal)

\* A challenge is followed: the owner grants what it asks for.
Challenged(tool, refusal) ==
    CASE refusal = "no_token" -> {"notes:read"}
      [] refusal = "invalid_token" ->
            IF ScopesFor(tool) = <<>> THEN {"notes:read"} ELSE {ScopesFor(tool)[1]}
      [] refusal = "insufficient_scope" -> Challenge(token.scopes, tool)

\* The agent decides what the note should say, and says so.
Post(q) ==
    LET admitted == Admitted(q) IN
    /\ agent.step = "holding" /\ UNCHANGED <<kept, token>>
    /\ \/ /\ admitted = "run"
          /\ \/ /\ q.tool = "apply_note_patch"
                /\ \E goal \in Drafts, context \in 0..1, dry \in BOOLEAN :
                      PatchArrives(q, goal, context, dry)
             \/ q.tool = "replace_note_source" /\ \E goal \in Drafts : ReplaceArrives(q, goal)
             \/ q.tool = "delete_note" /\ Working(q, Empty, Empty)
             \/ q.tool = "update_note" /\ Refused("unknown_tool")
       \/ /\ admitted \notin {"run", "no_token", "invalid_token", "insufficient_scope"}
          /\ Refused("refused")

\* A call of any tool meets a challenge first.
StepUp(q) ==
    /\ Admitted(q) \in {"no_token", "invalid_token", "insufficient_scope"}
    /\ token' = [state |-> "valid", scopes |-> Challenged(Wanted(q), Admitted(q))]
    /\ UNCHANGED <<kept, agent>>

TokenExpires ==
    /\ token.state = "valid" /\ token' = [state |-> "expired", scopes |-> {}]
    /\ UNCHANGED <<kept, agent>>

-------------------------------------------------------------------------------
(* ... and stored, where the revision is asked for again.                  *)

\* Mutant: the row is taken as it was checked.
Unmoved_Trusted == NoteHere
Unmoved == NoteHere /\ kept.rev = agent.rev

Commit ==
    /\ agent.step = "running" /\ UNCHANGED token
    /\ IF ~Unmoved
       THEN UNCHANGED kept /\ Refused(IF NoteHere THEN "conflict" ELSE "not_found")
       ELSE /\ kept.rev < MaxVersions
            /\ kept' = IF agent.tool = "delete_note"
                       THEN [kept EXCEPT !.row = "gone", !.rev = @ + 1]
                       ELSE Version(agent.draft)
            /\ Told(Reply(agent.id, Answer("stored", kept.rev + 1)))

\* create_note: nothing is read before.
CreateByAgent ==
    /\ Calls("create_note") /\ agent = Resting /\ kept = NoNote /\ kept.rev < MaxVersions
    /\ \E text \in Drafts :
         /\ Validates(text) /\ Unwarned(text)
         /\ kept' = Version(text)
         /\ agent' = [step |-> "holding", rev |-> 1, copy |-> text]
    /\ UNCHANGED token

\* The answer is lost, or the agent has no use for it: another call, or the same.
SendAgain ==
    /\ agent.step = "answered"
    /\ agent' = [step |-> "holding", rev |-> agent.rev, copy |-> agent.copy]
    /\ UNCHANGED <<kept, token>>

\* After a conflict the agent looks up the revision and sends the patch it has.
SendForLatest ==
    /\ agent.step = "answered" /\ agent.answer.is = "conflict" /\ NoteHere
    /\ Calls("get_note_outline")
    /\ agent' = [step |-> "holding", rev |-> kept.rev, copy |-> agent.copy]
    /\ UNCHANGED <<kept, token>>

\* Done, given up, or an error it cannot do anything about.
AgentEnds ==
    /\ agent.step \notin {"idle", "running"} /\ agent' = Resting
    /\ UNCHANGED <<kept, token>>

ToolsNext ==
    \/ WebWrites \/ WebDeletes \/ TokenExpires
    \/ GetNote \/ GetOutline \/ GetFragment \/ PiecesTogether
    \/ \E tool \in UsedTools : \E q \in Requests(tool) : Post(q)
    \/ \E tool \in UsedTools : StepUp(Plain(tool))
    \/ Commit \/ CreateByAgent \/ SendAgain \/ SendForLatest \/ AgentEnds

ToolsSpec == ToolsInit /\ [][ToolsNext]_toolVars

-------------------------------------------------------------------------------
\* Every variable keeps its type, and what is stored is valid.
ToolsTypeOK ==
    /\ kept.row \in {"none", "live", "gone"} /\ kept.rev \in 0..MaxVersions
    /\ kept.row = "live" => Validates(kept.text)
    /\ token.state \in {"none", "valid", "expired"} /\ token.scopes \subseteq Supported
    /\ agent.step \in {"idle", "outlined", "pieced", "holding", "running", "answered"}

Stores == agent.step = "running" /\ agent'.step = "answered" /\ kept' # kept

\* A stored patch makes in the note the edit the agent made in its copy, at the
\* place the agent made it, whatever happened to the note and however often the
\* call was sent; a source replaces the one the agent has read.
PatchLands ==
    [][Stores /\ agent.tool # "delete_note" =>
         /\ agent.tool = "apply_note_patch" => SameEdit(agent.copy, agent.goal, kept.text, kept'.text)
         /\ agent.tool = "replace_note_source" => kept'.text = agent.goal
         /\ kept'.rev = agent.rev + 1]_toolVars

\* What an agent has pieced together from fragments is the note at one revision.
PiecesAreOneRevision == agent.step = "pieced" => agent.copy = agent.of

\* An agent that follows the challenges never loses a scope to a later one.
StepUpKeepsScopes ==
    [][token.state = "valid" /\ token'.state = "valid" => token.scopes \subseteq token'.scopes]_toolVars
================================================================================
