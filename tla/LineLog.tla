------------------------------ MODULE LineLog ------------------------------
(***************************************************************************)
(* LineLog (linelog.ts): all revisions of a text in one program.  Running  *)
(* the program for a revision emits the lines of that revision; an edit    *)
(* appends instructions and patches a jump to them into the old ones, so   *)
(* that the program of the earlier revisions stays what it was.            *)
(*                                                                         *)
(* Program counters, lines and revisions are counted from 1; revision 0 is *)
(* the empty text.  The diff library is external: any longest common       *)
(* subsequence may be what it finds.                                       *)
(***************************************************************************)
EXTENDS Integers, Sequences, SequencesExt, FiniteSets, FiniteSetsExt, TLC

CONSTANTS
  Lines,       \* the lines that texts are made of
  MaxLength,   \* bound: the lines of a text
  MaxRevs,     \* bound: the revisions
  MaxEdits     \* bound: the calls that change the log

VARIABLES
  code,     \* Code.instList
  maxRev,   \* LineLog.maxRev
  cached,   \* the entry recordText has made in executeCache
  texts,    \* history: what the revisions must be
  amended,  \* history: a revision with later ones has been changed
  edits     \* how many calls there were

vars == <<code, maxRev, cached, texts, amended, edits>>

J(pc)           == [op |-> "J", pc |-> pc]
JGE(rev, pc)    == [op |-> "JGE", rev |-> rev, pc |-> pc]
JL(rev, pc)     == [op |-> "JL", rev |-> rev, pc |-> pc]
LINE(rev, data) == [op |-> "LINE", rev |-> rev, data |-> data]
END             == [op |-> "END"]

\* The line that stands for the end of a text.
NoLine == [data |-> "end", rev |-> 0]

Texts == UNION {[1..n -> Lines] : n \in 0..MaxLength}
NotCached == [rev |-> 0, lines |-> <<>>]

Init ==
  /\ code = <<END>> /\ maxRev = 0 /\ cached = NotCached
  /\ texts = <<>> /\ amended = FALSE /\ edits = 0

----------------------------------------------------------------------------
(* Running the program.                                                    *)

\* The instruction after pc, when lines are wanted that were deleted after
\* startRev or inserted up to endRev.
Following(prog, pc, startRev, endRev) ==
  LET inst == prog[pc]
  IN  CASE inst.op = "J" -> inst.pc
        [] inst.op = "JGE" -> IF startRev >= inst.rev THEN inst.pc ELSE pc + 1
        [] inst.op = "JL" -> IF endRev < inst.rev THEN inst.pc ELSE pc + 1
        [] OTHER -> pc + 1

Start == [pc |-> 1, lines |-> <<>>]

\* An instruction is run: a line is emitted, the end is not left.
Run(prog, startRev, endRev, s) ==
  LET inst == prog[s.pc]
      line == [data |-> inst.data, rev |-> inst.rev, pc |-> s.pc]
  IN  IF inst.op = "END" THEN s
      ELSE [pc |-> Following(prog, s.pc, startRev, endRev),
            lines |-> IF inst.op = "LINE" THEN Append(s.lines, line) ELSE s.lines]

\* execute, with the patience of two runs of every instruction.
Execute(prog, startRev, endRev) ==
  LET after[n \in 0..2 * Len(prog)] ==
        IF n = 0 THEN Start ELSE Run(prog, startRev, endRev, after[n-1])
      stopped == after[2 * Len(prog)]
  IN  Append(stopped.lines, NoLine @@ ("pc" :> stopped.pc))

CheckOutLines(prog, rev) == Execute(prog, rev, rev)

Data(lines) == [i \in 1..Len(lines) - 1 |-> lines[i].data]

CheckOut(prog, rev) == Data(CheckOutLines(prog, rev))

----------------------------------------------------------------------------
(* Edits.                                                                  *)

\* Mutant of Relocated: the checked out lines are left as they were.
Unmoved(lines, a1, pc) == lines

\* The instruction of line a1 has moved.
Relocated(lines, a1, pc) == [lines EXCEPT ![a1].pc = pc]

\* The lines a1 to a2-1, where a2 may be the end, become bLines in bRev.  An
\* insertion at the beginning of another insertion goes before it.
EditChunk(log, a1, a2, bRev, bLines) ==
  LET prog == log.code
      start == Len(prog) + 1
      a1Pc == log.lines[a1].pc
      patchesJL == a1 = a2 /\ a1Pc > 1 /\ prog[a1Pc - 1].op = "JL"
      patched == IF patchesJL THEN a1Pc - 1 ELSE a1Pc
      inserted == IF bLines = <<>> THEN <<>>
                  ELSE <<JL(bRev, start + Len(bLines) + 1)>>
                         \o [i \in DOMAIN bLines |-> LINE(bRev, bLines[i])]
      deleted == IF a1 < a2 THEN <<JGE(bRev, log.lines[a2 - 1].pc + 1)>> ELSE <<>>
      moved == IF prog[patched].op = "END" THEN <<END>> ELSE <<prog[patched], J(patched + 1)>>
      movedTo == start + Len(inserted) + Len(deleted)
      lines == IF patchesJL THEN log.lines ELSE Relocated(log.lines, a1, movedTo)
      newLines == [i \in DOMAIN bLines |-> [data |-> bLines[i], rev |-> bRev, pc |-> start + i]]
  IN  [code |-> [prog EXCEPT ![patched] = J(start)] \o inserted \o deleted \o moved,
       lines |-> SubSeq(lines, 1, a1 - 1) \o newLines \o SubSeq(lines, a2, Len(lines))]

\* The longest alignments of two texts, each a set of pairs of equal lines.
Alignments(a, b) ==
  LET pairs == {p \in (DOMAIN a) \X (DOMAIN b) : a[p[1]] = b[p[2]]}
      aligned == {m \in SUBSET pairs :
                    \A p, q \in m : p = q \/ (p[1] < q[1] /\ p[2] < q[2])
                                          \/ (p[1] > q[1] /\ p[2] > q[2])}
  IN  {m \in aligned : \A n \in aligned : Cardinality(n) <= Cardinality(m)}

\* diffLines: the blocks between aligned lines.
Blocks(a, b, m) ==
  LET before(p, q) == p[1] < q[1]
      s == <<<<0, 0>>>> \o SetToSortSeq(m, before) \o <<<<Len(a) + 1, Len(b) + 1>>>>
      gaps == [i \in 1..Len(s) - 1 |-> [a1 |-> s[i][1] + 1, a2 |-> s[i+1][1],
                                        b1 |-> s[i][2] + 1, b2 |-> s[i+1][2]]]
      differs(g) == g.a1 < g.a2 \/ g.b1 < g.b2
  IN  SelectSeq(gaps, differs)

\* The code, and the lines of bRev as the edits have left them.  The last block
\* is edited first: the line numbers before it are kept.
Recorded(aRev, bRev, text, m) ==
  LET lines == CheckOutLines(code, aRev)
      edit(log, g) == EditChunk(log, g.a1, g.a2, bRev, SubSeq(text, g.b1, g.b2 - 1))
  IN  FoldLeft(edit, [code |-> code, lines |-> lines], Reverse(Blocks(Data(lines), text, m)))

RecordText(aRev, bRev) ==
  /\ edits < MaxEdits /\ edits' = edits + 1
  /\ \E text \in Texts : \E m \in Alignments(CheckOut(code, aRev), text) :
       LET log == Recorded(aRev, bRev, text, m)
       IN  /\ code' = log.code
           /\ cached' = [rev |-> bRev, lines |-> log.lines]
           /\ texts' = [r \in 1..Max({maxRev, bRev}) |->
                         IF r < bRev THEN texts[r] ELSE IF r = bRev THEN text
                         ELSE CheckOut(log.code, r)]
  /\ maxRev' = Max({maxRev, bRev})
  /\ amended' = (amended \/ bRev < maxRev)

\* recordText(text): a new revision.
RecordNew == maxRev < MaxRevs /\ RecordText(maxRev, maxRev + 1)

\* recordText(text, rev): an earlier one is changed, and those after it follow.
Amend == \E rev \in 1..maxRev : RecordText(rev, rev)

----------------------------------------------------------------------------
(* Blocks of insertions and deletions.                                     *)

Popped(stack, pc) ==
  IF stack # <<>> /\ Last(stack).endPc = pc THEN Front(stack) ELSE stack

\* A dependency, if it is on an earlier revision.
Dependency(child, parent) == IF child > parent THEN {<<child, parent>>} ELSE {}

\* Mutant of Dependencies: a block does not depend on the insertion it is in.
DeletionsOnly(ins, del, rev) ==
  IF del = <<>> THEN {} ELSE Dependency(Last(del).rev, rev)

Dependencies(ins, del, rev) ==
  Dependency(rev, Last(ins).rev)
    \cup (IF del = <<>> THEN {} ELSE Dependency(Last(del).rev, rev))

\* The walk over all instructions that calculateDepMap and flatten share; ins
\* and del are the insertions and the deletions it is in.
Walk(prog, max) ==
  LET step(s) ==
        LET inst == prog[s.pc]
            ins == Popped(s.ins, s.pc)
            del == Popped(s.del, s.pc)
            block == [rev |-> inst.rev, endPc |-> inst.pc]
            revs == Last(ins).rev .. (IF del = <<>> THEN max ELSE Last(del).rev - 1)
            next == [s EXCEPT !.ins = ins, !.del = del, !.pc = @ + 1]
        IN  CASE inst.op = "END" -> s
              [] inst.op = "J" -> [next EXCEPT !.pc = inst.pc]
              [] inst.op = "LINE" -> [next EXCEPT !.flat = Append(@, [data |-> inst.data, revs |-> revs])]
              [] inst.op = "JGE" -> [next EXCEPT !.deps = @ \cup Dependencies(ins, del, inst.rev),
                                                 !.del = Append(@, block)]
              [] inst.op = "JL" -> [next EXCEPT !.deps = @ \cup Dependencies(ins, del, inst.rev),
                                                !.ins = Append(@, block)]
      start == [pc |-> 1, ins |-> <<[rev |-> 0, endPc |-> 0]>>, del |-> <<>>,
                deps |-> {}, flat |-> <<>>]
      after[n \in 0..2 * Len(prog)] == IF n = 0 THEN start ELSE step(after[n-1])
  IN  after[2 * Len(prog)]

CalculateDepMap(prog) == Walk(prog, 0).deps

Flatten(prog, max) == Walk(prog, max).flat

----------------------------------------------------------------------------
(* Remapping of revisions.                                                 *)

\* Mutant of Tests: deletions keep their revision.
TestsInsertion(inst) == inst.op \in {"JL", "LINE"}

Tests(inst) == inst.op \in {"JGE", "JL", "LINE"}

RemapRevs(to) ==
  /\ edits < MaxEdits /\ edits' = edits + 1
  /\ code' = [pc \in DOMAIN code |-> IF Tests(code[pc]) THEN [code[pc] EXCEPT !.rev = to[@]]
                                     ELSE code[pc]]
  /\ maxRev' = Max({0} \cup {code'[pc].rev : pc \in {q \in DOMAIN code : Tests(code[q])}})
  /\ cached' = NotCached /\ UNCHANGED amended

\* A revision and the next one, which does not depend on it, change places.
Swap == \E rev \in 1..maxRev - 1 :
  /\ <<rev + 1, rev>> \notin CalculateDepMap(code)
  /\ RemapRevs([r \in 0..maxRev |-> IF r = rev THEN rev + 1 ELSE IF r = rev + 1 THEN rev ELSE r])
  /\ texts' = [r \in 1..maxRev' |-> IF r = rev THEN CheckOut(code', r) ELSE texts[r]]

\* A revision is folded into the one before it.
Fold == \E rev \in 1..maxRev - 1 :
  /\ RemapRevs([r \in 0..maxRev |-> IF r > rev THEN r - 1 ELSE r])
  /\ texts' = [r \in 1..maxRev' |-> IF r < rev THEN texts[r] ELSE texts[r+1]]

Next == RecordNew \/ Amend \/ Swap \/ Fold

Spec == Init /\ [][Next]_vars

----------------------------------------------------------------------------
(* Properties                                                              *)

\* Every revision is checked out as it was recorded last, whatever revisions
\* were recorded, amended, reordered and folded before and after it.
CheckedOutAsRecorded ==
  \A r \in 1..maxRev : CheckOut(code, r) = texts[r]

\* What recordText remembers is what running the program would give.
CachedAsExecuted ==
  cached # NotCached => cached.lines = CheckOutLines(code, cached.rev)

\* The revisions flatten attaches to a line are those it is checked out in, as
\* long as no revision was changed below later ones: the deletions of such a
\* change may overlap the later ones, which the walk takes to be nested.
FlattenedAsCheckedOut ==
  amended \/ \A r \in 1..maxRev :
    LET present(line) == r \in line.revs
        lines == SelectSeq(Flatten(code, maxRev), present)
    IN  [i \in DOMAIN lines |-> lines[i].data] = CheckOut(code, r)
=============================================================================
