-------------------------------- MODULE Hunks --------------------------------
(* The hunks of a change and where one is found again in a text that may     *)
(* have changed since (lineHunks and applyHunks in src/workspace/changes.js).*)
(* A text is the sequence of its characters. The shortcut for files whose    *)
(* table would exceed two million cells (one hunk for all) is left out.      *)
EXTENDS Integers, Sequences, FiniteSets, SequencesExt

CONSTANTS
  Context,   \* lines before and after a hunk that it is found by; 3 in the code
  None

Newline == "n"

Lines(text) ==
  LET ends == SetToSortSeq({i \in DOMAIN text : text[i] = Newline \/ i = Len(text)}, <)
  IN  [k \in DOMAIN ends |-> SubSeq(text, IF k = 1 THEN 1 ELSE ends[k - 1] + 1, ends[k])]
Joined(lines, first, last) == FlattenSeq(SubSeq(lines, Max({first, 1}), Min({last, Len(lines)})))

(* The pairs of equal lines that a longest common subsequence keeps; where   *)
(* there is a choice, lines of b are passed over first.                      *)
Common(a, b) ==
  LET grid[i \in 1 .. Len(a) + 1, j \in 1 .. Len(b) + 1] ==
        IF i > Len(a) \/ j > Len(b) THEN 0
        ELSE IF a[i] = b[j] THEN grid[i + 1, j + 1] + 1
        ELSE Max({grid[i + 1, j], grid[i, j + 1]})
      Walk(at, k) ==
        LET i == at.i j == at.j
        IN  CASE i > Len(a) \/ j > Len(b) -> at
              [] i <= Len(a) /\ j <= Len(b) /\ a[i] = b[j] ->
                   [i |-> i + 1, j |-> j + 1, pairs |-> Append(at.pairs, <<i, j>>)]
              [] OTHER -> IF grid[i, j + 1] >= grid[i + 1, j] THEN [at EXCEPT !.j = j + 1]
                                                              ELSE [at EXCEPT !.i = i + 1]
      steps == [k \in 1 .. Len(a) + Len(b) |-> k]
  IN  FoldLeft(Walk, [i |-> 1, j |-> 1, pairs |-> <<>>], steps).pairs

(* What lies between two of them, with the lines around it.                  *)
Side(lines, first, last) ==
  [first |-> first, last |-> last, text |-> Joined(lines, first, last),
   prefix |-> Joined(lines, first - Context, first - 1),
   suffix |-> Joined(lines, last + 1, last + Context)]

LineHunks(before, after) ==
  LET a == Lines(before) b == Lines(after)
      kept == <<<<0, 0>>>> \o Common(a, b) \o <<<<Len(a) + 1, Len(b) + 1>>>>
      gap(k) == [before |-> Side(a, kept[k][1] + 1, kept[k + 1][1] - 1),
                 after |-> Side(b, kept[k][2] + 1, kept[k + 1][2] - 1)]
      Changed(hunk) == hunk.before.last >= hunk.before.first
                         \/ hunk.after.last >= hunk.after.first
  IN  SelectSeq([k \in 1 .. Len(kept) - 1 |-> gap(k)], Changed)

(* A hunk is found where its text is with all its context, if that is found  *)
(* from no place behind it. 0 where it is not.                               *)
From(hunk, reverse) == IF reverse THEN hunk.after ELSE hunk.before
To(hunk, reverse) == IF reverse THEN hunk.before ELSE hunk.after
Needle(side) == side.prefix \o side.text \o side.suffix
Places(text, needle) ==
  {p \in 1 .. Len(text) - Len(needle) + 1 : SubSeq(text, p, p + Len(needle) - 1) = needle}

NeverAgain(places, needle) == FALSE   \* the first place is taken for the only one
AgainBehind(places, needle) == \E p \in places : p >= Min(places) + Len(needle)
Located(text, side) ==
  LET needle == Needle(side) places == Places(text, needle)
  IN  IF needle = <<>> \/ places = {} \/ AgainBehind(places, needle) THEN 0
      ELSE Min(places) + Len(side.prefix)

(* All are located in the text as it is, and replaced from its end; None if  *)
(* one is not found or two overlap.                                          *)
Edit(text, hunk, reverse) ==
  LET start == Located(text, From(hunk, reverse))
  IN  [start |-> start, end |-> start + Len(From(hunk, reverse).text), to |-> To(hunk, reverse).text]
Replace(text, edit) == SubSeq(text, 1, edit.start - 1) \o edit.to \o SubSeq(text, edit.end, Len(text))

ApplyHunks(text, hunks, reverse) ==
  LET edits == [k \in DOMAIN hunks |-> Edit(text, hunks[k], reverse)]
      order == SetToSortSeq(DOMAIN hunks, LAMBDA k, l : \/ edits[k].start > edits[l].start
                                                        \/ edits[k].start = edits[l].start /\ k < l)
      sorted == [k \in DOMAIN order |-> edits[order[k]]]
  IN  IF \/ \E k \in DOMAIN edits : edits[k].start = 0
         \/ \E k \in DOMAIN sorted : k > 1 /\ sorted[k].end > sorted[k - 1].start
      THEN None
      ELSE FoldLeft(Replace, text, sorted)

-----------------------------------------------------------------------------
(* What it means: the lines of the chosen hunks are exchanged, the others    *)
(* stay. A needle that overlaps itself in the text is out of this promise    *)
(* (the second place is searched for only behind the first).                 *)
Exchanged(text, hunks, chosen, reverse) ==
  LET lines == Lines(text)
      Piece(k) == IF k \in chosen THEN To(hunks[k], reverse).text ELSE From(hunks[k], reverse).text
      Start(k) == IF k = 0 THEN 1 ELSE From(hunks[k], reverse).last + 1
      End(k) == IF k = Len(hunks) THEN Len(lines) ELSE From(hunks[k + 1], reverse).first - 1
      between == [k \in 1 .. Len(hunks) + 1 |-> Joined(lines, Start(k - 1), End(k - 1))]
      all == [k \in 1 .. Len(hunks) + 1 |->
                (IF k = 1 THEN <<>> ELSE Piece(k - 1)) \o between[k]]
  IN  FlattenSeq(all)

OverlapsItself(text, side) ==
  LET needle == Needle(side)
  IN  \E p, q \in Places(text, needle) : p < q /\ q < p + Len(needle)

LandsWhereItBelongs(before, after, chosen, reverse) ==
  LET hunks == LineHunks(before, after)
      text == IF reverse THEN after ELSE before
      order == SetToSortSeq(chosen, <)
      result == ApplyHunks(text, [k \in DOMAIN order |-> hunks[order[k]]], reverse)
  IN  \/ result = None
      \/ \E k \in chosen : OverlapsItself(text, From(hunks[k], reverse))
      \/ result = Exchanged(text, hunks, chosen, reverse)
=============================================================================
