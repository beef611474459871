-------------------------------- MODULE NotePatch -------------------------------
(***************************************************************************)
(* How a Unified Diff is applied to the source of a note, strictly: the    *)
(* lines a hunk names must be at the place it names, nothing is searched   *)
(* for.                                                                    *)
(*                                                                         *)
(* A source is its lines and whether the last of them ends with a newline. *)
(* A hunk is its header [start, old, new] (at: the start on the new side,  *)
(* which is read and not used), its body, a sequence of lines signed as    *)
(* context, removed or added, and the two marks "\ No newline at end of    *)
(* file".  The file headers and the limit in bytes are left out.           *)
(***************************************************************************)
EXTENDS Integers, Sequences

CONSTANT MaxHunks  \* NOTE_POLICY.max_patch_hunks

ASSUME PatchAssumption == MaxHunks \in Nat

Empty == [lines |-> <<>>, nl |-> FALSE]
Rejection == [lines |-> <<>>, nl |-> TRUE]   \* no source: the patch does not apply

\* What lines given back as one text are: nothing, when there is none of them.
Joined(lines, nl) == IF lines = <<>> THEN Empty ELSE [lines |-> lines, nl |-> nl]

\* Lines i to j (1 up to the last), None when there are no such lines: a piece
\* from the middle ends with a newline, the last one as the source does.
Fragment(src, i, j) ==
    IF 1 <= i /\ i <= j /\ j <= Len(src.lines)
    THEN [lines |-> SubSeq(src.lines, i, j), nl |-> j < Len(src.lines) \/ src.nl]
    ELSE Rejection

-------------------------------------------------------------------------------
(* Parsing: a body is read until both sides have as many lines as the      *)
(* header says; one that goes on is no header of a hunk, and one that ends *)
(* before is cut off.                                                      *)

\* The lines of one side among so many of a body: those that are not the other's alone.
Side(body, other) ==
    LET side[n \in 0..Len(body)] ==
          IF n = 0 THEN <<>>
          ELSE IF body[n].sign = other THEN side[n - 1]
          ELSE Append(side[n - 1], body[n].line)
    IN side
OldSide(body) == Side(body, "added")[Len(body)]
NewSide(body) == Side(body, "removed")[Len(body)]
Complete(h, n) ==
    Len(Side(h.body, "added")[n]) >= h.old /\ Len(Side(h.body, "removed")[n]) >= h.new

Parses(patch) ==
    /\ patch # <<>> /\ Len(patch) <= MaxHunks
    /\ \A k \in DOMAIN patch :
          LET h == patch[k] IN
          Complete(h, Len(h.body)) /\ \A n \in 0..Len(h.body) - 1 : ~Complete(h, n)

-------------------------------------------------------------------------------
(* Application.                                                            *)

\* Without old lines, start is the line to insert after.
FirstLine(h) == IF h.old = 0 THEN h.start ELSE h.start - 1

\* Hunks go forward, stay within the source, mark its end exactly when they
\* reach an end without a newline, and repeat what is there.
Fits(src, cursor, h) ==
    LET first == FirstLine(h)  old == OldSide(h.body)
        coversEnd == h.old > 0 /\ first + h.old = Len(src.lines) IN
    /\ cursor <= first /\ first + h.old <= Len(src.lines)
    /\ h.oldEnd = (coversEnd /\ ~src.nl)
    /\ first + Len(old) <= Len(src.lines)
    /\ SubSeq(src.lines, first + 1, first + Len(old)) = old

\* Only a hunk that comes to the end of the source decides how the new one ends.
ApplyHunk(src, done, h) ==
    IF ~done.ok \/ ~Fits(src, done.cursor, h) THEN [done EXCEPT !.ok = FALSE]
    ELSE LET cursor == FirstLine(h) + Len(OldSide(h.body)) IN
         [ok |-> TRUE, cursor |-> cursor,
          out |-> done.out \o SubSeq(src.lines, done.cursor + 1, FirstLine(h))
                           \o NewSide(h.body),
          nl |-> IF cursor = Len(src.lines) THEN ~h.newEnd ELSE done.nl]

ApplyHunks(src, patch) ==
    LET done[k \in 0..Len(patch)] ==
          IF k = 0 THEN [ok |-> Parses(patch), cursor |-> 0, out |-> <<>>, nl |-> src.nl]
          ELSE ApplyHunk(src, done[k - 1], patch[k])
    IN done

ApplyPatch(src, patch) ==
    LET done == ApplyHunks(src, patch)[Len(patch)] IN
    IF done.ok
    THEN Joined(done.out \o SubSeq(src.lines, done.cursor + 1, Len(src.lines)), done.nl)
    ELSE Rejection

-------------------------------------------------------------------------------
(* The patch a client makes of what it read and what it wants, as diff     *)
(* does, with that much context.                                           *)

\* A line with its newline, as diff compares it.
WithEnd(src, i) == <<src.lines[i], i < Len(src.lines) \/ src.nl>>
Smaller(m, n) == IF m <= n THEN m ELSE n
Larger(m, n) == IF m <= n THEN n ELSE m

\* How many lines two sources have in common in front, and behind that.
InFront(x, y) ==
    CHOOSE n \in 0..Smaller(Len(x.lines), Len(y.lines)) :
        /\ \A i \in 1..n : WithEnd(x, i) = WithEnd(y, i)
        /\ n < Smaller(Len(x.lines), Len(y.lines)) => WithEnd(x, n + 1) # WithEnd(y, n + 1)
Behind(x, y) ==
    LET most == Smaller(Len(x.lines), Len(y.lines)) - InFront(x, y)
        same(i) == WithEnd(x, Len(x.lines) - i) = WithEnd(y, Len(y.lines) - i) IN
    CHOOSE n \in 0..most : (\A i \in 0..n - 1 : same(i)) /\ (n < most => ~same(n))

Signed(sign, lines) == [k \in DOMAIN lines |-> [sign |-> sign, line |-> lines[k]]]

\* Lines p+1 to m of the one for lines p+1 to n of the other.
HunkFor(x, y, p, m, n, context) ==
    LET from == Larger(p - context, 0)
        after == Smaller(context, Len(x.lines) - m)
        old == m + after - from  new == n + after - from IN
    [start |-> IF old = 0 THEN from ELSE from + 1, at |-> IF new = 0 THEN from ELSE from + 1,
     old |-> old, new |-> new,
     body |-> Signed("context", SubSeq(x.lines, from + 1, p))
              \o Signed("removed", SubSeq(x.lines, p + 1, m))
              \o Signed("added", SubSeq(y.lines, p + 1, n))
              \o Signed("context", SubSeq(x.lines, m + 1, m + after)),
     oldEnd |-> old > 0 /\ m + after = Len(x.lines) /\ ~x.nl,
     newEnd |-> new > 0 /\ n + after = Len(y.lines) /\ ~y.nl]

\* Without context a line that changed is a hunk of its own where lines only change:
\* the hunks for so many lines.
LineHunks(x, y) ==
    LET hunks[n \in 0..Len(x.lines)] ==
          IF n = 0 THEN <<>>
          ELSE IF WithEnd(x, n) = WithEnd(y, n) THEN hunks[n - 1]
          ELSE Append(hunks[n - 1], HunkFor(x, y, n - 1, n, n, 0))
    IN hunks

Diff(x, y, context) ==
    IF context = 0 /\ Len(x.lines) = Len(y.lines) THEN LineHunks(x, y)[Len(x.lines)]
    ELSE IF x = y THEN <<>>
    ELSE <<HunkFor(x, y, InFront(x, y), Len(x.lines) - Behind(x, y),
                   Len(y.lines) - Behind(x, y), context)>>

-------------------------------------------------------------------------------
\* The edit that made y of x, made of s by position, is t. (What a patch should do,
\* said without hunks.)
SameEdit(x, y, s, t) ==
    LET p == InFront(x, y)  q == Behind(x, y) IN
    IF s = x THEN t = y
    ELSE IF Len(x.lines) = Len(y.lines)
    THEN /\ Len(t.lines) = Len(s.lines)
         /\ \A i \in DOMAIN s.lines :
               IF i \in DOMAIN x.lines /\ x.lines[i] # y.lines[i]
               THEN s.lines[i] = x.lines[i] /\ t.lines[i] = y.lines[i]
               ELSE t.lines[i] = s.lines[i]
    ELSE /\ SubSeq(s.lines, p + 1, Len(x.lines) - q) = SubSeq(x.lines, p + 1, Len(x.lines) - q)
         /\ t.lines = SubSeq(s.lines, 1, p) \o SubSeq(y.lines, p + 1, Len(y.lines) - q)
                      \o SubSeq(s.lines, Len(x.lines) - q + 1, Len(s.lines))
================================================================================
