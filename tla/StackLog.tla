------------------------------ MODULE StackLog ------------------------------
(***************************************************************************)
(* The picture of the branches that fp draws in a terminal (actions/log.ts *)
(* of the CLI): for fp log, for the report of a conflict, and as a list to *)
(* choose a branch from.  A line shows a branch at some indent; on its     *)
(* left are the lines of branches above, on its right the fork into its    *)
(* children.                                                               *)
(***************************************************************************)
EXTENDS Naturals, Integers, SequencesExt

CONSTANTS
  Trunk,
  Order      \* the other branches, in the order in which git lists them

\* Assumed of the constants.
TrunkIsApart == \A i \in DOMAIN Order : Order[i] # Trunk

VARIABLES
  parent,    \* the parent of each branch but trunk
  current,   \* the branch that is checked out
  request,   \* what is to be drawn
  lines      \* what is drawn

vars == <<parent, current, request, lines>>

----------------------------------------------------------------------------
Others == Range(Order)
Names == Others \cup {Trunk}

Unlimited == Cardinality(Names)
Nothing == [from |-> Trunk, steps |-> Unlimited, short |-> TRUE, reverse |-> FALSE, omit |-> FALSE]

GetChildren(b) == SelectSeq(Order, LAMBDA c : parent[c] = b)

\* The branches that b stands on, from trunk upwards.
RECURSIVE Downstack(_)
Downstack(b) == IF b = Trunk THEN <<>> ELSE Append(Downstack(parent[b]), parent[b])

\* A list to choose from leaves the current branch out, and what is above it.
Children(r, b) == SelectSeq(GetChildren(b), LAMBDA c : ~(r.omit /\ c = current))

\* A line of the picture: a name, or a fork alone.
Line(b, indent, width, named) == [branch |-> b, indent |-> indent, width |-> width, named |-> named]

InOrder(r, parts) == FlattenSeq(IF r.reverse THEN Reverse(parts) ELSE parts)

\* getBranchLines: the short form draws the fork behind the name, the full one
\* on a line of its own, getBranchingLine.
BranchingLine(r, b, indent) ==
  LET n == Len(Children(r, b)) IN IF n < 2 THEN <<>> ELSE <<Line(b, indent, n, FALSE)>>

BranchLines(r, b, indent, skipBranchingLine) ==
  LET n == Len(Children(r, b)) IN
  IF r.short
  THEN <<Line(b, indent, IF skipBranchingLine \/ n < 2 THEN 1 ELSE n, TRUE)>>
  ELSE InOrder(r, <<IF skipBranchingLine THEN <<>> ELSE BranchingLine(r, b, indent),
                    <<Line(b, indent, 1, TRUE)>>>>)

\* The indent of the i-th of n children; mutant: in either direction.
ChildIndentUpright(r, indent, n, i) == indent + i - 1
ChildIndent(r, indent, n, i) == indent + (IF r.reverse THEN n - i ELSE i - 1)

\* getUpstackExclusiveLines, with getUpstackInclusiveLines of each child.
RECURSIVE UpstackLines(_, _, _, _)
UpstackLines(r, b, indent, steps) ==
  IF steps = 0
  THEN <<>>
  ELSE LET children == Children(r, b)
           Inclusive(i) ==
             LET at == ChildIndent(r, indent, Len(children), i) IN
             InOrder(r, <<UpstackLines(r, children[i], at, steps - 1),
                          BranchLines(r, children[i], at, FALSE)>>)
       IN FlattenSeq([i \in DOMAIN children |-> Inclusive(i)])

\* slice(-steps) of none, and of 0, is the whole list.
LastOf(seq, steps) ==
  IF steps = 0 \/ steps > Len(seq) THEN seq ELSE SubSeq(seq, Len(seq) - steps + 1, Len(seq))

DownstackLines(r) ==
  LET upwards == LastOf(Downstack(r.from), r.steps)
      each == [i \in DOMAIN upwards |-> BranchLines(r, upwards[i], 0, TRUE)]
  IN FlattenSeq(IF r.reverse THEN each ELSE Reverse(each))

StackLines(r) ==
  InOrder(r, <<UpstackLines(r, r.from, 0, r.steps), BranchLines(r, r.from, 0, FALSE), DownstackLines(r)>>)

\* The names of the short form are set in a column behind the picture, whose
\* width is that of the deepest line of the upstack.
OverallIndent(r) ==
  LET upstack == UpstackLines(r, r.from, 0, r.steps)
  IN CHOOSE n \in 0..Len(Order) :
       /\ \A i \in DOMAIN upstack : upstack[i].indent <= n
       /\ n = 0 \/ \E i \in DOMAIN upstack : upstack[i].indent = n

ArrowIndex(line) == 2 * line.indent + 1 + 2 * (line.width - 1)
Spaces(r, line) == 2 * OverallIndent(r) + 3 - ArrowIndex(line)

\* A negative number of spaces is an exception.
Throws(r, drawn) == r.short /\ \E i \in DOMAIN drawn : Spaces(r, drawn[i]) < 0

----------------------------------------------------------------------------
\* fp log and fp log short, of everything or of the stack of the current branch.
LogRequests ==
  {[from |-> IF steps \in 1..(Unlimited - 1) \/ stack THEN current ELSE Trunk, steps |-> steps,
    short |-> short, reverse |-> reverse, omit |-> FALSE]
   : steps \in 0..Unlimited, stack \in BOOLEAN, short \in BOOLEAN, reverse \in BOOLEAN}

\* The report of a conflict shows one step around the branch that is rebased.
ConflictRequests == {[Nothing EXCEPT !.from = b, !.steps = 1] : b \in Others}

\* interactiveBranchSelection.
SelectionRequests == {[Nothing EXCEPT !.omit = omit] : omit \in {current # Trunk, FALSE}}

\* A branch stands on trunk or on a branch that is listed before it.
Before(i) == {Trunk} \cup {Order[j] : j \in 1..(i - 1)}

Init ==
  /\ parent \in {f \in [Others -> Names] : \A i \in DOMAIN Order : f[Order[i]] \in Before(i)}
  /\ current \in Names
  /\ request = Nothing
  /\ lines = <<>>

Draw(requests) ==
  \E r \in requests :
    /\ lines = <<>>
    /\ request' = r
    /\ lines' = StackLines(r)
    /\ UNCHANGED <<parent, current>>

Log == Draw(LogRequests)
Conflict == Draw(ConflictRequests)
Select == Draw(SelectionRequests)

Next == Log \/ Conflict \/ Select

Spec == Init /\ [][Next]_vars

----------------------------------------------------------------------------
Printed == lines # <<>> /\ ~Throws(request, lines)
Named == {i \in DOMAIN lines : lines[i].named}

\* The branches that are to be drawn.
IsAbove(b, base) == base \in Range(Downstack(b))
Distance(b, base) == Len(Downstack(b)) - Len(Downstack(base))
IsLeftOut(b) == request.omit /\ (b = current \/ IsAbove(b, current))

Expected ==
  LET r == request IN
  {b \in Names :
     \/ b = r.from
     \/ IsAbove(b, r.from) /\ Distance(b, r.from) <= r.steps /\ ~IsLeftOut(b)
     \/ b \in Range(LastOf(Downstack(r.from), r.steps))}

\* Each of them has one line.
EachOnce ==
  /\ {lines[i].branch : i \in DOMAIN lines} = Expected
  /\ \A i, j \in Named : lines[i].branch = lines[j].branch => i = j

\* The lines between line i and its parent, and what is drawn in a column:
\* a line that passes by, a branch or fork that it leads to, or nothing.
Towards(i) == IF request.reverse THEN [k \in 1..(i - 1) |-> i - k] ELSE [k \in 1..(Len(lines) - i) |-> i + k]
PassesBy(line, column) == column < line.indent
LeadsTo(line, column) == column \in line.indent..(line.indent + line.width - 1)

\* The line that is drawn from each branch leads to its parent.
LeadsToItsParent(i) ==
  LET b == lines[i].branch way == Towards(i) column == lines[i].indent IN
  b # Trunk /\ parent[b] \in Expected =>
    \E k \in DOMAIN way :
      /\ \A l \in 1..(k - 1) : PassesBy(lines[way[l]], column)
      /\ LeadsTo(lines[way[k]], column) /\ lines[way[k]].branch = parent[b]

\* What follows the last two spaces of a line is the name of its branch.
NamesAreRead == request.short => \A i \in DOMAIN lines : Spaces(request, lines[i]) >= 2

\* The picture shows each branch once and leads from it to its parent, in every
\* form and direction; a branch chosen in a list is the one on its line, and
\* never the current branch or one above it (log.ts:85, log.ts:152).
PictureShowsTheTree ==
  Printed =>
    /\ EachOnce
    /\ \A i \in Named : LeadsToItsParent(i)
    /\ request.steps = Unlimited => NamesAreRead
=============================================================================
