------------------------------- MODULE Patches -------------------------------
(* What the two kinds of patch leave (src/tools/files.js): one by hunks, of  *)
(* a text (planStructuredPatch), and one by pointers, of a JSON document     *)
(* (planJsonPatch); and the diff that is shown before (src/tools/textDiff.js)*)
EXTENDS Integers, Sequences, FiniteSets, SequencesExt, Functions

CONSTANT Context   \* lines shown before and after a change; 3 in the code

(* A text is the sequence of its lines, each with its ending; the last one   *)
(* may have none.                                                            *)
Texts(lines) == [i \in DOMAIN lines |-> lines[i].text]
EndsWithNewline(lines) == lines # <<>> /\ lines[Len(lines)].eol # ""
LineEnding(lines) ==
  IF \E i \in DOMAIN lines : lines[i].eol = "crlf" THEN "crlf" ELSE "lf"

(* A hunk goes where it asks to if its old lines are there, else to the only *)
(* place where they are; 0 if there is none.                                 *)
MatchesAt(lines, start, old) ==
  /\ start + Len(old) - 1 <= Len(lines) /\ start <= Len(lines) + 1
  /\ \A i \in DOMAIN old : lines[start + i - 1].text = old[i]

ResolveHunkStart(lines, hunk) ==
  LET places == {s \in 1 .. Len(lines) : MatchesAt(lines, s, hunk.old)}
  IN  CASE MatchesAt(lines, hunk.start, hunk.old) -> hunk.start
        [] ~MatchesAt(lines, hunk.start, hunk.old) /\ hunk.old # <<>>
             /\ Cardinality(places) = 1 -> CHOOSE s \in places : TRUE
        [] OTHER -> 0

Resolved(lines, hunks) ==
  [i \in DOMAIN hunks |-> [hunks[i] EXCEPT !.start = ResolveHunkStart(lines, hunks[i])]]
Normalized(lines, hunks) ==
  SortSeq(Resolved(lines, hunks), LAMBDA a, b : a.start < b.start)

(* A hunk that only inserts takes up a line.                                 *)
HunkEnd(hunk) == hunk.start + IF hunk.old = <<>> THEN 1 ELSE Len(hunk.old)

Plannable(lines, hunks) ==
  LET sorted == Normalized(lines, hunks)
  IN  /\ \A i \in DOMAIN sorted : sorted[i].start > 0
      /\ \A i \in DOMAIN sorted : i > 1 => sorted[i].start >= HunkEnd(sorted[i - 1])

(* Replaced one after the other, each shifted by those before. A new line    *)
(* takes the ending of the line in its place, or of one beside it.           *)
EndingAt(lines, i) == IF i \in DOMAIN lines THEN lines[i].eol ELSE ""
LocalEnding(lines, at, all) ==
  LET beside == SelectSeq(<<EndingAt(lines, at), EndingAt(lines, at - 1), all>>,
                          LAMBDA eol : eol # "")
  IN  beside[1]

Replacement(lines, at, hunk, all) ==
  [i \in DOMAIN hunk.new |->
     [text |-> hunk.new[i],
      eol |-> IF i <= Len(hunk.old) THEN lines[at + i - 1].eol
              ELSE LocalEnding(lines, at, all)]]
Spliced(lines, at, hunk, all) ==
  SubSeq(lines, 1, at - 1) \o Replacement(lines, at, hunk, all)
    \o SubSeq(lines, at + Len(hunk.old), Len(lines))

Shift(hunk) == Len(hunk.new) - Len(hunk.old)

SplicedAll(lines, hunks) ==
  FoldLeft(LAMBDA state, hunk :
            [lines |-> Spliced(state.lines, hunk.start + state.offset, hunk, LineEnding(lines)),
             offset |-> state.offset + Shift(hunk)],
          [lines |-> lines, offset |-> 0], Normalized(lines, hunks)).lines

(* The text ends with a newline if and only if it did before: an empty one   *)
(* that did is one newline.                                                  *)
SerializeTextLines(next, lines) ==
  IF next = <<>>
  THEN IF EndsWithNewline(lines) THEN <<[text |-> "", eol |-> LineEnding(lines)]>> ELSE <<>>
  ELSE [i \in DOMAIN next |->
          IF i = Len(next) /\ ~EndsWithNewline(lines) THEN [next[i] EXCEPT !.eol = ""]
          ELSE [next[i] EXCEPT !.eol = IF @ = "" THEN LineEnding(lines) ELSE @]]

PlanStructuredPatch(lines, hunks) == SerializeTextLines(SplicedAll(lines, hunks), lines)

-----------------------------------------------------------------------------
(* What a patch means: line by line, what the hunks that start there put in, *)
(* and the line itself unless a hunk takes it out.                           *)

PutAt(i, hunks) ==
  FlattenSeq([k \in DOMAIN hunks |->
    IF hunks[k].start # i THEN <<>>
    ELSE [n \in DOMAIN hunks[k].new |-> [text |-> hunks[k].new[n], eol |-> "any"]]])
TakenOut(i, hunks) ==
  \E k \in DOMAIN hunks : i \in hunks[k].start .. hunks[k].start + Len(hunks[k].old) - 1

Meaning(lines, hunks) ==
  FlattenSeq([i \in 1 .. Len(lines) + 1 |->
    PutAt(i, hunks) \o IF i > Len(lines) \/ TakenOut(i, hunks) THEN <<>> ELSE <<lines[i]>>])

(* A patch that is accepted leaves the lines it means, in their order; lines *)
(* it does not touch keep their endings, except where the last line changes, *)
(* and whether the text ends with a newline stays as it was.                 *)
LeavesWhatItMeans(lines, hunks) ==
  LET left == PlanStructuredPatch(lines, hunks)
      meant == Meaning(lines, Resolved(lines, hunks))
  IN  Plannable(lines, hunks) /\ meant # <<>> =>
        /\ Texts(left) = Texts(meant)
        /\ \A i \in 1 .. Len(left) - 1 :
             meant[i].eol \in {"any", "", left[i].eol} /\ left[i].eol # ""
        /\ EndsWithNewline(left) = EndsWithNewline(lines)

-----------------------------------------------------------------------------
(* Patches by pointers. A value is a leaf, an array or an object, a pointer  *)
(* the sequence of its segments. Text, its escapes and the spelling of       *)
(* numbers (losslessJson.js) are left out.                                   *)

Missing == [kind |-> "missing"]

(* A segment as the index of an array; only "-" and 0, 1, ... are one.       *)
Indices == [segment \in {"0", "1", "2"} |->
              CASE segment = "0" -> 0 [] segment = "1" -> 1 [] OTHER -> 2]
IsIndex(segment) == segment \in DOMAIN Indices
ArrayIndex(array, segment, allowAppend) ==
  CASE allowAppend /\ segment = "-" -> Len(array.items)
    [] IsIndex(segment) -> Indices[segment]
    [] OTHER -> -1

Child(value, segment) ==
  CASE value.kind = "array" /\ ArrayIndex(value, segment, FALSE) \in 0 .. Len(value.items) - 1 ->
         value.items[Indices[segment] + 1]
    [] value.kind = "object" /\ segment \in DOMAIN value.fields -> value.fields[segment]
    [] OTHER -> Missing
GetJsonValue(root, pointer) == FoldLeft(Child, root, pointer)

(* The whole document with another value at a pointer that leads somewhere.  *)
With(root, key, value) ==
  IF root.kind = "array" THEN [root EXCEPT !.items[Indices[key] + 1] = value]
                         ELSE [root EXCEPT !.fields[key] = value]
RECURSIVE Put(_, _, _)
Put(root, pointer, value) ==
  IF pointer = <<>> THEN value
  ELSE With(root, Head(pointer), Put(Child(root, Head(pointer)), Tail(pointer), value))

IsContainer(value) == value.kind \in {"array", "object"}
Pushed(array, value) == [array EXCEPT !.items = Append(@, value)]

(* What an operation makes of the array or object that holds its target;     *)
(* Missing if there is no such place.                                        *)
Set(parent, key, value) ==
  IF parent.kind = "object"
  THEN [parent EXCEPT !.fields = [k \in DOMAIN @ \cup {key} |-> IF k = key THEN value ELSE @[k]]]
  ELSE LET index == ArrayIndex(parent, key, TRUE)
       IN  CASE index \in 0 .. Len(parent.items) - 1 ->
                  [parent EXCEPT !.items[index + 1] = value]
             [] index = Len(parent.items) -> Pushed(parent, value)
             [] OTHER -> Missing
ClearedAt(array, index) == [array EXCEPT !.items[index + 1] = [kind |-> "null"]]
RemovedAt(array, index) == [array EXCEPT !.items = RemoveAt(@, index + 1)]
Delete(parent, key) ==
  CASE Child(parent, key) = Missing -> Missing
    [] parent.kind = "array" -> RemovedAt(parent, Indices[key])
    [] OTHER -> [parent EXCEPT !.fields = Restrict(@, DOMAIN @ \ {key})]

PutUnlessMissing(root, pointer, value) ==
  IF value = Missing THEN Missing ELSE Put(root, pointer, value)
Appended(target, value) == IF target.kind = "array" THEN Pushed(target, value) ELSE Missing
ApplyIn(root, parent, operation, pointer) ==
  CASE ~IsContainer(parent) -> Missing
    [] operation.op = "append" ->
         PutUnlessMissing(root, pointer, Appended(GetJsonValue(root, pointer), operation.value))
    [] OTHER ->
         PutUnlessMissing(root, Front(pointer),
           IF operation.op = "set" THEN Set(parent, Last(pointer), operation.value)
           ELSE Delete(parent, Last(pointer)))
ApplyJsonOperation(root, operation) ==
  IF operation.pointer = <<>> THEN Missing
  ELSE ApplyIn(root, GetJsonValue(root, Front(operation.pointer)), operation, operation.pointer)

(* One after another; if one cannot be done, none is.                        *)
PlanJsonPatch(root, operations) ==
  FoldLeft(LAMBDA value, operation :
             IF value = Missing THEN Missing ELSE ApplyJsonOperation(value, operation),
           root, operations)

-----------------------------------------------------------------------------
(* What it means, told by the places of a document and what is there: an     *)
(* operation changes the place it names and below, behind what it takes out  *)
(* of an array all move up by one, and nothing else changes.                 *)
Label(value) == IF value.kind = "leaf" THEN value ELSE [kind |-> value.kind]
Keys(value) ==
  CASE value.kind = "array" -> {key \in DOMAIN Indices : Indices[key] < Len(value.items)}
    [] value.kind = "object" -> DOMAIN value.fields
    [] OTHER -> {}
RECURSIVE Places(_)
Places(value) ==
  {<<<<>>, Label(value)>>}
    \cup UNION {{<<<<key>> \o place[1], place[2]>> : place \in Places(Child(value, key))} :
                  key \in Keys(value)}
Below(pointer, value) == {<<pointer \o place[1], place[2]>> : place \in Places(value)}
Elsewhere(root, pointer) == {place \in Places(root) : ~IsPrefix(pointer, place[1])}

KeyOf(index) == CHOOSE key \in DOMAIN Indices : Indices[key] = index
MovedUp(place, depth, index) ==
  IF Len(place[1]) > depth /\ IsIndex(place[1][depth + 1]) /\ Indices[place[1][depth + 1]] > index
  THEN <<[place[1] EXCEPT ![depth + 1] = KeyOf(Indices[@] - 1)], place[2]>> ELSE place

MeantAt(root, operation, pointer, parent, target) ==
  LET end == Front(pointer) \o <<KeyOf(Len(parent.items))>>
      appended == pointer \o <<KeyOf(Len(target.items))>>
  IN  CASE operation.op = "append" -> Places(root) \cup Below(appended, operation.value)
        [] operation.op = "set" ->
             LET to == IF Last(pointer) = "-" /\ parent.kind = "array" THEN end ELSE pointer
             IN  Elsewhere(root, to) \cup Below(to, operation.value)
        [] operation.op = "delete" /\ parent.kind = "array" ->
             {IF IsPrefix(Front(pointer), place[1])
              THEN MovedUp(place, Len(pointer) - 1, Indices[Last(pointer)]) ELSE place :
                place \in Elsewhere(root, pointer)}
        [] OTHER -> Elsewhere(root, pointer)
Meant(root, operation) ==
  MeantAt(root, operation, operation.pointer, GetJsonValue(root, Front(operation.pointer)),
          GetJsonValue(root, operation.pointer))

ChangesWhatItNames(root, operations) ==
  LET Result(k) == PlanJsonPatch(root, SubSeq(operations, 1, k))
  IN  \A k \in DOMAIN operations : \A before \in {Result(k - 1)}, after \in {Result(k)} :
        after # Missing => Places(after) = Meant(before, operations[k])

-----------------------------------------------------------------------------
(* The diff the user sees before a change is approved, and the counts that   *)
(* are told of it. A text is here the sequence of its characters; "n" ends a *)
(* line, perhaps behind "r". The cap on the size of the table (no line is    *)
(* then counted as kept) and the header are left out.                        *)
Line(text, from, end) ==
  SubSeq(text, from, end - IF from < end /\ text[end - 1] = "r" THEN 2 ELSE 1)
Lines(text, ends) ==
  LET From(k) == IF k = 1 THEN 1 ELSE ends[k - 1] + 1
      from == From(Len(ends) + 1)
  IN  [k \in DOMAIN ends |-> Line(text, From(k), ends[k])]
        \o IF from > Len(text) THEN <<>> ELSE <<SubSeq(text, from, Len(text))>>
DiffLines(text) == Lines(text, SetToSortSeq({i \in DOMAIN text : text[i] = "n"}, <))

(* What is left between the lines that begin both alike and end both alike.  *)
Beginning(a, b) == Len(LongestCommonPrefix({a, b}))
Ending(a, b) ==
  LET start == Beginning(a, b)
      Rest(s) == Reverse(SubSeq(s, start + 1, Len(s)))
  IN  Len(LongestCommonPrefix({Rest(a), Rest(b)}))
Changed(a, b, of) == SubSeq(of, Beginning(a, b) + 1, Len(of) - Ending(a, b))

LcsLength(a, b) ==
  LET grid[i \in 0 .. Len(a), j \in 0 .. Len(b)] ==
        CASE i = 0 \/ j = 0 -> 0
          [] i > 0 /\ j > 0 /\ a[i] = b[j] -> grid[i - 1, j - 1] + 1
          [] OTHER -> IF grid[i - 1, j] >= grid[i, j - 1] THEN grid[i - 1, j] ELSE grid[i, j - 1]
  IN  grid[Len(a), Len(b)]

Without(removed, added, kept) == [additions |-> Len(added) - kept, deletions |-> Len(removed) - kept]
CountChanged(removed, added) ==
  Without(removed, added, IF removed = <<>> \/ added = <<>> THEN 0 ELSE LcsLength(removed, added))
CountLineChanges(before, after) ==
  CountChanged(Changed(before, after, before), Changed(before, after, after))

(* One hunk from the first line that differs to the last.                    *)
UpToContext(n) == IF n < Context THEN n ELSE Context
Hunk(before, start, removed, added) ==
  LET first == start - UpToContext(start)
      end == start + Len(removed)
  IN  [start |-> first + 1, leading |-> SubSeq(before, first + 1, start), removed |-> removed,
       added |-> added, trailing |-> SubSeq(before, end + 1, end + UpToContext(Len(before) - end))]
BuildDiffHunks(before, after) ==
  Hunk(before, Beginning(before, after),
       Changed(before, after, before), Changed(before, after, after))

-----------------------------------------------------------------------------
(* What it means: what the hunk takes away is there, what it puts there      *)
(* gives the new lines, and nothing more is shown as changed than differs;   *)
(* the counts are those of the smallest change. That only ends of lines      *)
(* differ is not shown.                                                      *)
SubSequences(s) ==
  {LET order == SetToSortSeq(S, <) IN [k \in DOMAIN order |-> s[order[k]]] : S \in SUBSET DOMAIN s}
Kept(a, b) ==
  LET common == SubSequences(a) \cap SubSequences(b)
  IN  Len(CHOOSE s \in common : \A t \in common : Len(s) >= Len(t))

DiffTells(original, next) ==
  \A before \in {DiffLines(original)}, after \in {DiffLines(next)} :
  \A hunk \in {BuildDiffHunks(before, after)}, count \in {CountLineChanges(before, after)} :
  LET old == hunk.leading \o hunk.removed \o hunk.trailing
      new == hunk.leading \o hunk.added \o hunk.trailing
      Upto(s) == SubSeq(s, 1, hunk.start - 1)
      Behind(s, shown) == SubSeq(s, hunk.start + Len(shown), Len(s))
  IN  /\ before = Upto(before) \o old \o Behind(before, old)
      /\ after = Upto(before) \o new \o Behind(before, old)
      /\ before = after <=> hunk.removed = <<>> /\ hunk.added = <<>>
      /\ count.deletions = Len(before) - Kept(before, after)
      /\ count.additions = Len(after) - Kept(before, after)
=============================================================================
