------------------------------- MODULE Patch -------------------------------
(***************************************************************************)
(* How the differences of files reach the screen: the patch that git       *)
(* writes, the parser that takes it apart (gti-shared/src/patch/parse.ts)  *)
(* and the rows of the split view (SplitDiffView).                         *)
(*                                                                         *)
(* A change of a file is a script: the lines of the file before and after  *)
(* it in one sequence, each with the mark that a patch gives it.  A line   *)
(* of a patch is a record of the same shape, with what the line starts     *)
(* with for a mark.  A removed line that itself starts like a header of a  *)
(* file ends a hunk too early only when a header of a hunk follows two     *)
(* lines later; git keeps lines of context between them, and the test is   *)
(* left out.  A line that holds a form feed is one line here.              *)
(***************************************************************************)
EXTENDS Integers, Sequences, SequencesExt

CONSTANTS
  Unified,    \* how many unchanged lines git shows around a change
  Blank       \* a line with nothing on it

NoText == [before |-> Blank, after |-> Blank]

Line(mark, text) == [mark |-> mark, text |-> text]

TextOf(lines) == [i \in DOMAIN lines |-> lines[i].text]
Before(script) == TextOf(SelectSeq(script, LAMBDA l : l.mark # "+"))
After(script) == TextOf(SelectSeq(script, LAMBDA l : l.mark # "-"))

\* The places of a script whose line goes into the patch.
NearAChange(script) ==
  {i \in DOMAIN script : \E j \in DOMAIN script : script[j].mark # " " /\ i - j \in -Unified..Unified}

\* The first place from i on that holds, or the end of the sequence.
FirstFrom(s, i, Holds(_)) ==
  CHOOSE k \in i..Len(s) + 1 :
    /\ k > Len(s) \/ Holds(k)
    /\ \A j \in i..k - 1 : ~Holds(j)

Ascending(S) == SetToSortSeq(S, <)

\* git diff: the header of a hunk of the given lines, with `before' and
\* `after' lines above it.  The first number is one less in front of nothing.
HunkHeader(lines, before, after) ==
  LET old == Len(Before(lines))
      new == Len(After(lines))
  IN  Line("@@", [oldStart |-> before + (IF old = 0 THEN 0 ELSE 1), oldLines |-> old,
                  newStart |-> after + (IF new = 0 THEN 0 ELSE 1), newLines |-> new])

GitHunk(script, first) ==
  LET last == FirstFrom(script, first, LAMBDA k : k \notin NearAChange(script)) - 1
      above == SubSeq(script, 1, first - 1)
      lines == SubSeq(script, first, last)
  IN  <<HunkHeader(lines, Len(Before(above)), Len(After(above)))>> \o lines

\* The patch of one file: what happened to it besides, in the lines of the
\* extended header, and the hunks, when a line changed.
GitFile(change) ==
  LET near == NearAChange(change.script)
      firsts == Ascending({i \in near : i - 1 \notin near})
      hunks == FlattenSeq([h \in DOMAIN firsts |-> GitHunk(change.script, firsts[h])])
      header == [m \in DOMAIN change.header |-> Line(change.header[m], change.path)]
  IN  <<Line("diff", change.path)>> \o header \o <<Line("index", change.path)>>
      \o (IF hunks = <<>> THEN <<>>
          ELSE <<Line("---", change.path), Line("+++", change.path)>> \o hunks)

IsBlank(line) == line.mark \in {" ", ""} /\ line.text = Blank

\* runGitCommand trims what git wrote: blank lines at its ends are lost.
TrimEnd(lines) ==
  SubSeq(lines, 1, Len(lines) - CHOOSE n \in 0..Len(lines) :
                     /\ \A i \in Len(lines) - n + 1..Len(lines) : IsBlank(lines[i])
                     /\ n < Len(lines) => ~IsBlank(lines[Len(lines) - n]))

Trim(lines) == Reverse(TrimEnd(Reverse(TrimEnd(lines))))

\* git diff <from> <to> --no-prefix --unified; the output ends in a line break.
GetDiff(changes) ==
  TrimEnd(FlattenSeq([i \in DOMAIN changes |-> GitFile(changes[i])])) \o <<Line("", Blank)>>

\* git show <ref>:<file>
GetFileContents(change) ==
  TextOf(Trim([i \in DOMAIN Before(change.script) |-> Line(" ", Before(change.script)[i])])
         \o <<Line("", Blank)>>)

----------------------------------------------------------------------------
(***************************************************************************)
(* parsePatch                                                              *)
(***************************************************************************)
HunkMarks == {"+", "-", " ", "\\"}

\* An empty line is one of the context unless it is the last one.
IsOfHunk(lines, i) ==
  lines[i].mark \in (HunkMarks \cup IF i = Len(lines) THEN {} ELSE {""})

Counted(lines, marks) == Len(SelectSeq(lines, LAMBDA l : l.mark \in marks))

ParseHunk(lines, at) ==
  LET header == lines[at].text
      end == FirstFrom(lines, at + 1, LAMBDA k : ~IsOfHunk(lines, k)) - 1
      body == SubSeq(lines, at + 1, end)
      Size(count, side) == IF Counted(body, {side, " ", ""}) = 0 /\ count = 1 THEN 0 ELSE count
  IN  [oldStart |-> header.oldStart + (IF header.oldLines = 0 THEN 1 ELSE 0),
       newStart |-> header.newStart + (IF header.newLines = 0 THEN 1 ELSE 0),
       oldLines |-> Size(header.oldLines, "-"),
       newLines |-> Size(header.newLines, "+"),
       lines    |-> body]

\* Anything else than a hunk is skipped.
ParseHunks(lines) ==
  LET starts == Ascending({i \in DOMAIN lines : lines[i].mark = "@@"})
  IN  [h \in DOMAIN starts |-> ParseHunk(lines, starts[h])]

\* What the extended header says of the file: the last line of it that says
\* anything; a file with hunks is modified unless the header says otherwise.
TypeOf(header, hasHunks) ==
  LET named == [old |-> "Modified", new |-> "Modified", deleted |-> "Removed", added |-> "Added",
                copy |-> "Copied", rename |-> "Renamed"]
      saying == SelectSeq(header, LAMBDA l : l.mark \in DOMAIN named)
  IN  IF saying # <<>> THEN named[Last(saying).mark] ELSE IF hasHunks THEN "Modified" ELSE "none"

\* The part of the patch from one `diff --git' up to the next.
ParseIndex(lines) ==
  LET headerEnd == FirstFrom(lines, 1, LAMBDA k : lines[k].mark = "---")
  IN  [path  |-> lines[1].text,
       type  |-> TypeOf(SubSeq(lines, 2, headerEnd - 1), headerEnd <= Len(lines)),
       hunks |-> ParseHunks(SubSeq(lines, headerEnd + 2, Len(lines)))]

\* An output without any file is one without a name, which
\* parsePatchAndFilter drops.
ParsePatch(lines) ==
  LET starts == Ascending({i \in DOMAIN lines : lines[i].mark = "diff"})
      End(k) == IF k = Len(starts) THEN Len(lines) ELSE starts[k + 1] - 1
  IN  [k \in DOMAIN starts |-> ParseIndex(SubSeq(lines, starts[k], End(k)))]

----------------------------------------------------------------------------
(***************************************************************************)
(* The rows of the split view.  A row shows a line of the file before, of  *)
(* the file after, or both; the number 0 stands for no line.  A separator  *)
(* stands for lines that both files have.                                  *)
(***************************************************************************)
Row(before, after, beforeText, afterText) ==
  [before |-> before, after |-> after, hides |-> 0, key |-> 0,
   text |-> [before |-> beforeText, after |-> afterText]]

Separator(key, numLines) ==
  [before |-> 0, after |-> 0, hides |-> numLines, key |-> key, text |-> NoText]

NoGroup == [common |-> <<>>, removed |-> <<>>, added |-> <<>>]

HasDeltas(group) == group.removed # <<>> \/ group.added # <<>>

\* A common line after a changed one starts a group.
OrganizeLinesIntoGroups(lines) ==
  LET Extend(groups, part, text) ==
        [groups EXCEPT ![Len(groups)][part] = Append(@, text)]
      Add(groups, l) ==
        CASE l.mark = " " -> Extend(IF HasDeltas(Last(groups)) THEN Append(groups, NoGroup) ELSE groups,
                                    "common", l.text)
          [] l.mark = "-" -> Extend(groups, "removed", l.text)
          [] l.mark = "+" -> Extend(groups, "added", l.text)
          [] OTHER -> groups
  IN  FoldLeft(Add, <<NoGroup>>, lines)

UnmodifiedRows(texts, before, after) ==
  [i \in DOMAIN texts |-> Row(before + i - 1, after + i - 1, texts[i], texts[i])]

\* The rows of a hunk: the common lines of each group, then its removed lines
\* beside its added ones.
RowsForHunk(hunk) ==
  LET groups == OrganizeLinesIntoGroups(hunk.lines)
      Larger(m, n) == IF m > n THEN m ELSE n
      Changed(g, before, after) ==
        [i \in 1..Larger(Len(g.removed), Len(g.added)) |->
          LET gone == i <= Len(g.removed)
              come == i <= Len(g.added)
          IN  Row(IF gone THEN before + i - 1 ELSE 0, IF come THEN after + i - 1 ELSE 0,
                  IF gone THEN g.removed[i] ELSE Blank, IF come THEN g.added[i] ELSE Blank)]
      Step(acc, g) ==
        LET before == acc.before + Len(g.common)
            after == acc.after + Len(g.common)
        IN  [rows   |-> acc.rows \o UnmodifiedRows(g.common, acc.before, acc.after)
                                 \o Changed(g, before, after),
             before |-> before + Len(g.removed),
             after  |-> after + Len(g.added)]
  IN  FoldLeft(Step, [rows |-> <<>>, before |-> hunk.oldStart, after |-> hunk.newStart], groups).rows

\* The gap above a hunk: the lines that an expanded separator asks for, where
\* they stand in both files, and how many lines a collapsed one says it hides.
GapAbove(hunks, h) ==
  IF h = 1
  THEN [key |-> 0, start |-> 1, numLines |-> hunks[1].oldStart - 1, after |-> 1,
        hides |-> IF hunks[1].oldStart > hunks[1].newStart THEN hunks[1].oldStart - 1
                  ELSE hunks[1].newStart - 1,
        exists |-> hunks[1].oldStart # 1 \/ hunks[1].newStart # 1]
  ELSE LET prev == hunks[h - 1]
           start == prev.oldStart + prev.oldLines
       IN  [key |-> prev.oldStart, start |-> start, numLines |-> hunks[h].oldStart - start,
            after |-> prev.newStart + prev.newLines, hides |-> hunks[h].oldStart - start,
            exists |-> TRUE]

\* An expanded separator shows the lines that were fetched for its gap.
SplitDiffTable(hunks, expanded, fetched) ==
  LET RowsOfGap(gap) ==
        IF ~gap.exists THEN <<>>
        ELSE IF gap.key \in expanded
        THEN UnmodifiedRows(fetched[gap], gap.start, gap.after)
        ELSE IF gap.hides = 0 THEN <<>> ELSE <<Separator(gap.key, gap.hides)>>
  IN  FlattenSeq([h \in DOMAIN hunks |-> RowsOfGap(GapAbove(hunks, h)) \o RowsForHunk(hunks[h])])

----------------------------------------------------------------------------
(***************************************************************************)
(* What rows ought to show.                                                *)
(***************************************************************************)
\* The numbers of the lines on one side, those behind separators included.
Numbers(rows, side) ==
  FoldLeft(LAMBDA seen, r :
             IF r.hides > 0 THEN seen \o [i \in 1..r.hides |-> Len(seen) + i]
             ELSE IF r[side] = 0 THEN seen ELSE Append(seen, r[side]),
           <<>>, rows)

ShowsSide(rows, side, lines) ==
  LET numbers == Numbers(rows, side)
  IN  /\ numbers = [i \in 1..Len(numbers) |-> i]
      /\ Len(numbers) <= Len(lines)
      /\ \A i \in DOMAIN rows : rows[i][side] # 0 => rows[i].text[side] = lines[rows[i][side]]

\* The rows show every line of both files in its place up to the end of the
\* last row, hide the same lines of both, and all that follows is unchanged.
ShowsChange(rows, script) ==
  /\ ShowsSide(rows, "before", Before(script))
  /\ ShowsSide(rows, "after", After(script))
  /\ LET Rest(lines, side) == SubSeq(lines, Len(Numbers(rows, side)) + 1, Len(lines))
     IN  Rest(Before(script), "before") = Rest(After(script), "after")
  /\ \A l \in Range(script) : l.mark # " " =>
       \E i \in DOMAIN rows :
         IF l.mark = "-" THEN rows[i].before # 0 /\ rows[i].text.before = l.text
                         ELSE rows[i].after # 0 /\ rows[i].text.after = l.text
=============================================================================
