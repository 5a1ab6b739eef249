----------------------------- MODULE StackEdits -----------------------------
(***************************************************************************)
(* The commands of fp that let the user rewrite a branch or a stack by     *)
(* hand: `fp branch split` (actions/split.ts), `fp branch edit`            *)
(* (edit_branch.ts), `fp downstack edit` (edit/edit_downstack.ts), `fp     *)
(* downstack track` (track_branch.ts), `fp repo init` (init.ts) and the    *)
(* moves along the stack (branch_traversal.ts).                            *)
(*                                                                         *)
(* They are processes of Engine.  A split by hunk keeps its process, of    *)
(* the kind "split", while the user commits the pieces: HEAD is detached   *)
(* meanwhile, and the branch is untouched until the last piece is named.   *)
(***************************************************************************)
EXTENDS Engine

\* The commits that are the current branch's own, oldest first.
OwnRange(s) == CommitRange(s.cache[s.current].prev, s.cache[s.current].rev)

----------------------------------------------------------------------------
(***************************************************************************)
(* fp branch split                                                         *)
(***************************************************************************)
\* promptNextBranchName: the names of n branches, from the bottom; the name of
\* the branch that is split may be used again.
SplitNames(s, n) ==
  {names \in [1..n -> {s.current} \cup {c \in Branches : ~Exists(s, c)}] : IsInjective(names)}

\* The branches names, one on the other, on the parent of the branch b that is
\* split.
Stacked(s, b, names, revs) ==
  LET parent(i) == IF i = 1 THEN s.cache[b].parent ELSE names[i-1]
      prev(i)   == IF i = 1 THEN s.cache[b].prev ELSE revs[i-1]
      stack[i \in 0..Cardinality(Branches)] ==
        IF i = 0 THEN s
        ELSE IF i \notin DOMAIN names THEN stack[i-1]
        ELSE UpdateMeta([stack[i-1] EXCEPT !.refs[names[i]] = revs[i]], names[i],
                        [result |-> "VALID", parent |-> parent(i), prev |-> prev(i),
                         rev |-> revs[i], children |-> <<>>])
  IN  stack[Cardinality(Branches)]

\* The children move to the topmost branch.  Where b keeps its name it has been
\* given a new, empty list, and where it does not, its list is the one the walk
\* takes them from.
ApplySplitToCommits(s, names, revs) ==
  LET b    == s.current
      kids == s.cache[b].children
      top  == IF names = <<>> THEN s.cache[b].parent ELSE Last(names)
      up   == Stacked([s EXCEPT !.head = NoBranch], b, names, revs)
      all  == IF top = b THEN up
              ELSE Adopt(up, IF b \in ToSet(names) THEN kids ELSE EveryOther(kids), top)
      left == IF b \in ToSet(names) THEN all ELSE DeleteAllBranchData(all, b)
  IN  IF left.failed THEN left ELSE [left EXCEPT !.head = top, !.current = top]

\* Every patch of the split branch belongs to the branch its commit is now on.
OwnAfterSplit(s, names, revs) ==
  LET below(i) == IF i = 1 THEN {} ELSE ToSet(revs[i-1])
      share(i) == {p \in own[s.current] : p \notin below(i) /\ (i < Len(names) => p \in ToSet(revs[i]))}
  IN  [c \in Branches |-> IF c \in ToSet(names)
                          THEN share(CHOOSE i \in DOMAIN names : names[i] = c) ELSE own[c]]

Split(s, names, revs) ==
  Begin(ApplySplitToCommits(s, names, revs), RecursiveChildren(s, s.current),
        OwnAfterSplit(s, names, revs))

\* Refused with uncommitted changes, as a conflict leaves; currentBranchPrecondition
\* and detach ask for a tracked branch, so the branch is never tracked on the way.
MaySplit(s) == MayRun("split") /\ rebase = NoRebase /\ s.current # NoBranch /\ Valid(s, s.current)

\* getBranchPoints: the prompt toggles commits; the newest is always one.
BranchPoints(count) ==
  {points \in UNION {[1..n -> 1..count] : n \in 0..count} :
     /\ \A i \in 2..Len(points) : points[i-1] < points[i]
     /\ count > 0 => points # <<>> /\ Last(points) = count}

\* By commit: the branches end at some of the commits there are.
SplitByCommit ==
  \E order \in SiblingOrders :
    LET s     == Loaded(order)
        tip   == s.refs[s.current]
        count == Len(OwnRange(s))
    IN  /\ MaySplit(s)
        /\ \E points \in BranchPoints(count) :
           LET revs == [i \in DOMAIN points |-> SubSeq(tip, 1, Len(tip) - count + points[i])]
           IN  \E names \in SplitNames(s, Len(points)) : Split(s, names, revs)

\* By hunk: HEAD is detached at the parent revision, with all changes unstaged.
SplitByHunk ==
  \E order \in SiblingOrders :
    LET s == Loaded(order)
    IN  /\ MaySplit(s)
        /\ BeginAs("split", [s EXCEPT !.head = NoBranch], <<>>, own)

\* The user has committed all the changes, hunk by hunk, in any order.
HunksCommitted ==
  /\ process = "split"
  /\ \E pieces \in SetToSeqs(ToSet(OwnRange(Session))) :
       \E points \in BranchPoints(Len(pieces)) :
         LET revs == [i \in DOMAIN points |-> cache[current].prev \o SubSeq(pieces, 1, points[i])]
         IN  \E names \in SplitNames(Session, Len(points)) : Split(Session, names, revs)

\* Ctrl-C, or a commit that fails: switch --force goes back to the branch.
SplitInterrupted ==
  /\ process = "split"
  /\ head' = current
  /\ EndProcess
  /\ UNCHANGED <<refs, meta, rebase, cont, own, features>>

----------------------------------------------------------------------------
(***************************************************************************)
(* fp branch edit                                                          *)
(***************************************************************************)
MayEdit(s) == MayRun("edit") /\ rebase = NoRebase /\ s.current # NoBranch /\ Valid(s, s.current)

\* git rebase -i prev b: the user reorders and drops commits.
EditBranch ==
  \E order \in SiblingOrders :
    LET s == Loaded(order)
        b == s.current
        patches == ToSet(OwnRange(s))
    IN  /\ MayEdit(s)
        /\ \E kept \in SUBSET patches : \E todo \in SetToSeqs(kept) :
             /\ refs' = [refs EXCEPT ![b] = s.cache[b].prev \o todo]
             /\ own' = [own EXCEPT ![b] = @ \ (patches \ kept)]
        /\ meta' = s.meta
        /\ head' = b
        /\ cont' = LoadedCont
        /\ process' = "command"
        /\ cache' = s.cache
        /\ current' = b
        /\ queue' = RecursiveChildren(s, b)
        /\ rebased' = [branch |-> b, base |-> s.cache[b].prev]
        /\ UNCHANGED <<rebase, features>>

\* The rebase stops.  At a conflict git fails and the continuation is persisted;
\* at an `edit` of the list it succeeds, handleSuccessfulRebase cannot switch to
\* the branch, and nothing is persisted.
EditStops ==
  \E order \in SiblingOrders, conflict \in BOOLEAN :
    LET s == Loaded(order)
        b == s.current
        prev == s.cache[b].prev
    IN  /\ MayEdit(s)
        /\ OwnRange(s) # <<>>
        /\ conflict => "conflict" \in features
        /\ rebase' = [branch |-> b, onto |-> prev, from |-> prev]
        /\ head' = NoBranch
        /\ meta' = s.meta
        /\ cont' = IF ~conflict THEN LoadedCont
                   ELSE [queue |-> RecursiveChildren(s, b), base |-> prev,
                         current |-> b, sync |-> <<>>]
        /\ EndProcess
        /\ UNCHANGED <<refs, own, features>>

\* git rebase --continue, when nothing was persisted for fp.
GitContinue ==
  /\ MayGit("gitContinue")
  /\ rebase # NoRebase /\ cont = NoCont
  /\ refs' = [refs EXCEPT ![rebase.branch] = Rebased(rebase.onto, rebase.from, @)]
  /\ head' = rebase.branch
  /\ rebase' = NoRebase
  /\ UNCHANGED <<meta, cont, session, own, features>>

----------------------------------------------------------------------------
(***************************************************************************)
(* fp downstack edit, fp downstack track, fp repo init                     *)
(***************************************************************************)
\* reorderBranches: each branch goes onto the one below it in the list.
Reordered(s, names) ==
  LET below(i) == IF i = 1 THEN Trunk ELSE names[i-1]
      moved[i \in 0..Cardinality(Branches)] ==
        IF i = 0 THEN s
        ELSE IF i \in DOMAIN names THEN SetParent(moved[i-1], names[i], below(i))
        ELSE moved[i-1]
  IN  moved[Cardinality(Branches)]

\* parseEditFile: the user reorders the lines of the file and deletes some.
EditedOrders(s) ==
  LET below     == RecursiveParents(s, s.current)
      downstack == {b \in Branches : b = s.current \/ b \in ToSet(below)}
  IN  UNION {SetToSeqs(kept) : kept \in (SUBSET downstack) \ {{}}}

\* With `typo` the last line names no branch: the branches below it have been
\* moved by then, and are not restacked.
EditDownstack ==
  /\ MayRun("editDownstack")
  /\ \E order \in SiblingOrders, typo \in BOOLEAN :
       LET s == Loaded(order)
       IN  /\ typo => "typo" \in features
           /\ s.current # NoBranch /\ Valid(s, s.current)
           /\ \E names \in EditedOrders(s) :
                LET t == Reordered(s, names)
                IN  IF typo THEN Begin(Fail(t), <<>>, own)
                    ELSE Begin(CheckoutBranch(t, Last(names)), Upstack(t, names[1]), own)

\* getPotentialParents
PotentialParents(s, b) == {p \in Branches : Exists(s, p) /\ (p = Trunk \/ IsDescendantOf(s, b, p))}

\* trackStack: b is tracked after the stack of the parent that was chosen.
TrackedStacks(s, b) ==
  LET stacks[n \in 0..Cardinality(Branches)] ==
        [c \in Branches |->
          IF n = 0 \/ s.cache[c].result \in {"TRUNK", "VALID"} THEN {s}
          ELSE UNION {{IF t.failed THEN t ELSE TrackBranch(t, c, p) : t \in stacks[n-1][p]}
                      : p \in PotentialParents(s, c)}]
  IN  stacks[Cardinality(Branches)][b]

TrackStack ==
  /\ MayRun("trackStack")
  /\ \E order \in SiblingOrders, b \in Branches :
       LET s == Loaded(order)
       IN  /\ Exists(s, b) /\ s.cache[b].result \notin {"TRUNK", "VALID"}
           /\ \E t \in TrackedStacks(s, b) : Begin(t, <<>>, own)

\* trackBranchInteractive, again and again: an untracked branch above the
\* current one is tracked and checked out.
Onboarded(s) ==
  LET above(t) == {b \in Branches : /\ b # Trunk /\ Exists(t, b) /\ ~Valid(t, b)
                                    /\ t.current = Trunk \/ IsDescendantOf(t, b, t.current)}
      next(t) == {CheckoutBranch(TrackBranch(t, b, t.current), b) : b \in above(t)}
      after[n \in 0..Cardinality(Branches)] ==
        IF n = 0 THEN {CheckoutBranch(s, Trunk)}
        ELSE after[n-1] \cup UNION {IF t.failed THEN {} ELSE next(t) : t \in after[n-1]}
  IN  after[Cardinality(Branches)]

\* init --reset, for the same trunk: all metadata goes, the cache is loaded
\* again, and the user may track branches from trunk upwards.
Reset ==
  /\ MayRun("reset")
  /\ \E order \in SiblingOrders :
       LET s == [Loaded(order) EXCEPT !.meta = [b \in Branches |-> NoMeta],
                   !.cache = LoadedCache(refs, [b \in Branches |-> NoMeta], order)]
       IN  \E t \in {s} \cup Onboarded(s) : Begin(t, <<>>, own)

----------------------------------------------------------------------------
(***************************************************************************)
(* fp branch up, down, top and bottom                                      *)
(***************************************************************************)
\* traverseDownward: n steps, or to the branch above trunk when n is 0.
Downward(s, b, n) ==
  LET path == RecursiveParents(s, b) \o <<b>>
      steps == Len(path) - n
  IN  IF b = Trunk THEN Trunk
      ELSE IF n = 0 THEN path[1]
      ELSE IF steps < 1 THEN Trunk ELSE path[steps]

\* traverseUpward: everywhere the choices among several children can lead.
Upward(s, b, n) ==
  LET kids(c) == ToSet(GetChildren(s, c))
      up[i \in 0..Cardinality(Branches)] ==
        IF i = 0 THEN {b}
        ELSE {c \in up[i-1] : kids(c) = {}} \cup UNION {kids(c) : c \in up[i-1]}
  IN  up[IF n = 0 THEN Cardinality(Branches) ELSE n]

Navigate ==
  /\ MayRun("navigate")
  /\ \E order \in SiblingOrders, n \in 0..2 :
       LET s == Loaded(order)
       IN  /\ s.current # NoBranch /\ ValidOrTrunk(s, s.current)
           /\ \E b \in {Downward(s, s.current, n)} \cup Upward(s, s.current, n) :
                Begin(CheckoutBranch(s, b), <<>>, own)

----------------------------------------------------------------------------
Edit ==
  \/ SplitByCommit \/ SplitByHunk \/ HunksCommitted \/ SplitInterrupted
  \/ EditBranch \/ EditStops \/ GitContinue
  \/ EditDownstack \/ TrackStack \/ Reset \/ Navigate
=============================================================================
