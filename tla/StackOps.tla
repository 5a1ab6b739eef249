------------------------------ MODULE StackOps ------------------------------
(***************************************************************************)
(* The operations of the engine (lib/engine/engine.ts), as functions on a  *)
(* session: what one fp process works on between loading its cache and     *)
(* exiting.                                                                *)
(*                                                                         *)
(*   refs, meta      the git refs and the metadata refs                    *)
(*   head, rebase    the branch HEAD is on, and the rebase git has stopped *)
(*                   in the middle of                                      *)
(*   cache, current  the engine's cache.branches and cache.currentBranch   *)
(*   failed          an exception was thrown                               *)
(*                                                                         *)
(* An exception stops the command but undoes nothing, so a failed session  *)
(* keeps every write made before it failed.                                *)
(***************************************************************************)
EXTENDS BranchMeta

CONSTANT NoRebase   \* no rebase is in progress

Fail(s) == [s EXCEPT !.failed = TRUE]

\* A name that is no branch is no key of the cache.
HasResult(s, b, results) == b \in Branches /\ s.cache[b].result \in results
Exists(s, b)       == HasResult(s, b, Results \ {"NONE"})
Valid(s, b)        == HasResult(s, b, {"VALID"})
ValidOrTrunk(s, b) == HasResult(s, b, {"VALID", "TRUNK"})

Without(seq, b) == Among(seq, Branches \ {b})

----------------------------------------------------------------------------
(***************************************************************************)
(* Questions                                                               *)
(***************************************************************************)
GetChildren(s, b) ==
  Among(s.cache[b].children, {c \in Branches : Valid(s, c)})

\* Preorder: every branch before its children.
RecursiveChildren(s, b) ==
  LET below[n \in 0..Cardinality(Branches)] ==
        [c \in Branches |->
          IF n = 0 THEN <<>>
          ELSE LET kids == GetChildren(s, c)
               IN  FlattenSeq([i \in DOMAIN kids |-> <<kids[i]>> \o below[n-1][kids[i]]])]
  IN  below[Cardinality(Branches)][b]

\* The downstack without b itself and without trunk, trunk's child first.
RecursiveParents(s, b) ==
  LET parent(c) == IF s.cache[c].result \in {"BAD_PARENT_NAME", "TRUNK", "NONE"}
                   THEN NoBranch ELSE s.cache[c].parent
      above[n \in 0..Cardinality(Branches), c \in Branches] ==
        IF n = 0 \/ parent(c) \in {NoBranch, Trunk} THEN <<>>
        ELSE Append(above[n-1, parent(c)], parent(c))
  IN  above[Cardinality(Branches), b]

\* b's parent, at its current revision, is the one b was last restacked on.
IsBranchFixed(s, b) ==
  \/ s.cache[b].result = "TRUNK"
  \/ Valid(s, b) /\ s.cache[b].prev = s.cache[s.cache[b].parent].rev

IsDescendantOf(s, b, p) ==
  b # p /\ MergeBase(s.refs[b], s.refs[p]) = s.cache[p].rev

----------------------------------------------------------------------------
(***************************************************************************)
(* The one function that writes metadata                                   *)
(***************************************************************************)
\* The INVALID_PARENT branches reachable from kids through INVALID_PARENT ones.
Invalidated(cache, kids) ==
  LET bad(S) == {c \in S : cache[c].result = "INVALID_PARENT"}
      reach[n \in 0..Cardinality(Branches)] ==
        IF n = 0 THEN bad(kids)
        ELSE LET near == reach[n-1]
             IN  near \cup bad(UNION {ToSet(cache[c].children) : c \in near})
  IN  reach[Cardinality(Branches)]

Revalidated(cache, c) ==
  LET rev == ValidatedRevision(cache[c].prev, cache[c].rev, cache[cache[c].parent].rev)
  IN  IF rev = NoCommit THEN [cache[c] EXCEPT !.result = "BAD_PARENT_REVISION"]
      ELSE [cache[c] EXCEPT !.result = "VALID", !.prev = rev]

\* The recursion goes on below a branch that turned out bad, and a revision
\* that had to be fixed is written to disk.
RevalidateChildren(s, kids) ==
  LET inv == Invalidated(s.cache, kids)
      new == [c \in Branches |->
               IF c \in inv THEN Revalidated(s.cache, c) ELSE s.cache[c]]
  IN  [s EXCEPT
        !.cache = new,
        !.meta  = [c \in Branches |->
                    IF c \in inv /\ new[c].result = "VALID"
                    THEN [parent |-> new[c].parent, rev |-> new[c].prev] ELSE @[c]]]

\* b leaves the children of old and joins, if it must, those of new.
MoveChild(cache, b, old, new) ==
  LET left == IF old \in {NoBranch, new} THEN cache
              ELSE [cache EXCEPT ![old].children = Without(@, b)]
  IN  IF b \in ToSet(left[new].children) THEN left
      ELSE [left EXCEPT ![new].children = Append(@, b)]

\* Mutant of UpdateMeta: nothing is written to disk.
UpdateMetaInMemory(s, b, entry) ==
  LET old == s.cache[b]
      oldParent == IF old.result \in {"NONE", "BAD_PARENT_NAME"} THEN NoBranch ELSE old.parent
  IN  [s EXCEPT !.cache = MoveChild([@ EXCEPT ![b] = entry], b, oldParent, entry.parent)]

UpdateMeta(s, b, entry) ==
  LET old == s.cache[b]
      oldParent == IF old.result \in {"NONE", "BAD_PARENT_NAME"} THEN NoBranch ELSE old.parent
      new == [s EXCEPT
               !.cache = MoveChild([s.cache EXCEPT ![b] = entry], b, oldParent, entry.parent),
               !.meta[b] = [parent |-> entry.parent, rev |-> entry.prev]]
  IN  IF old.result = "VALID" THEN new
      ELSE RevalidateChildren(new, ToSet(entry.children))

\* Mutant of CanBeParent: a branch may move onto its own descendant.
CanBeParentOfAll(s, b, p) == b # p

\* validateNewParent
CanBeParent(s, b, p) == b # p /\ p \notin ToSet(RecursiveChildren(s, b))

SetParent(s, b, p) ==
  IF s.failed \/ ~CanBeParent(s, b, p) \/ ~Valid(s, b) THEN Fail(s)
  ELSE IF s.cache[b].parent = p THEN s
  ELSE IF ~ValidOrTrunk(s, p) THEN Fail(s)
  ELSE UpdateMeta(s, b, [s.cache[b] EXCEPT !.parent = p])

\* Mutant of EveryOther: the walk begins one place too late.
EveryOtherButTheFirst(kids) ==
  [i \in 1..(Len(kids) \div 2) |-> kids[2*i]]

\* children.forEach(c => setParent(c, p)): each setParent removes its branch
\* from the very list that is being walked, so the walk skips the next one.
EveryOther(kids) ==
  [i \in 1..((Len(kids) + 1) \div 2) |-> kids[2*i - 1]]

\* A list of branches has no more entries than there are branches.
Adopt(s, kids, p) ==
  LET adopted[i \in 0..Cardinality(Branches)] ==
        IF i = 0 THEN s
        ELSE IF i \in DOMAIN kids THEN SetParent(adopted[i-1], kids[i], p)
        ELSE adopted[i-1]
  IN  adopted[Cardinality(Branches)]

----------------------------------------------------------------------------
(***************************************************************************)
(* Branches and HEAD                                                       *)
(***************************************************************************)
\* git switch refuses while a rebase is in progress.
CanSwitch(s) == s.rebase = NoRebase

CheckoutBranch(s, b) ==
  IF s.failed \/ s.current = b THEN s
  ELSE IF Exists(s, b) /\ CanSwitch(s) THEN [s EXCEPT !.head = b, !.current = b]
  ELSE Fail(s)

\* git branch -D refuses a branch that is checked out or being rebased.
IsCheckedOut(s, b) == s.head = b \/ (s.rebase # NoRebase /\ s.rebase.branch = b)

Forget(s, b) ==
  [s EXCEPT !.refs[b] = NoCommit, !.meta[b] = NoMeta, !.cache[b] = NoEntry]

DeleteAllBranchData(s, b) ==
  IF s.failed \/ ~Valid(s, b) THEN Fail(s)
  ELSE LET left == [s EXCEPT !.cache[s.cache[b].parent].children = Without(@, b)]
       IN  IF IsCheckedOut(s, b) THEN Fail(left) ELSE Forget(left, b)

CheckoutNewBranch(s, b) ==
  LET p == s.current
  IN  IF \/ p = NoBranch \/ ~ValidOrTrunk(s, p)
         \/ ~CanBeParent(s, b, p) \/ s.refs[b] # NoCommit \/ ~CanSwitch(s)
      THEN Fail(s)
      ELSE UpdateMeta([s EXCEPT !.refs[b] = s.refs[p], !.head = b, !.current = b], b,
                      [result |-> "VALID", parent |-> p, prev |-> s.cache[p].rev,
                       rev |-> s.cache[p].rev, children |-> <<>>])

DeleteBranch(s, b) ==
  IF s.failed \/ ~Valid(s, b) THEN Fail(s)
  ELSE LET parent == s.cache[b].parent
           away   == IF b = s.current THEN CheckoutBranch(s, parent) ELSE s
       IN  DeleteAllBranchData(Adopt(away, EveryOther(s.cache[b].children), parent), b)

\* The entries of both names are told apart only for as long as the call runs.
RenameCurrentBranch(s, b) ==
  LET cur == s.current
  IN  IF b = cur THEN s
      ELSE IF cur = NoBranch \/ ~Valid(s, cur) \/ s.refs[b] # NoCommit \/ s.head # cur
      THEN Fail(s)
      ELSE LET moved   == [s EXCEPT !.refs[b] = s.refs[cur], !.refs[cur] = NoCommit, !.head = b]
               named   == UpdateMeta(moved, b, s.cache[cur])
               adopted == Adopt(named, EveryOther(s.cache[cur].children), b)
           IN  IF adopted.failed THEN adopted
               ELSE [Forget([adopted EXCEPT
                              !.cache[s.cache[cur].parent].children = Without(@, cur)], cur)
                      EXCEPT !.current = b]

FoldKeep(s) ==
  LET cur == s.current
      p   == s.cache[cur].parent
      up  == UpdateMeta(s, cur, [s.cache[cur] EXCEPT !.parent = s.cache[p].parent,
                                                     !.prev   = s.cache[p].prev])
  IN  DeleteAllBranchData(Adopt(up, Without(s.cache[p].children, cur), cur), p)

FoldInto(s) ==
  LET cur == s.current
      p   == s.cache[cur].parent
      rev == s.cache[cur].rev
      up  == UpdateMeta([s EXCEPT !.refs[p] = rev, !.head = p], p,
                        [s.cache[p] EXCEPT !.rev = rev])
      all == Adopt(up, EveryOther(s.cache[cur].children), p)
  IN  DeleteAllBranchData(CheckoutBranch(all, p), cur)

FoldCurrentBranch(s, keep) ==
  IF s.current = NoBranch \/ ~Valid(s, s.current) \/ ~Valid(s, s.cache[s.current].parent)
  THEN Fail(s)
  ELSE IF keep THEN FoldKeep(s)
  ELSE IF CanSwitch(s) THEN FoldInto(s) ELSE Fail(s)

Unbranch(s) ==
  LET cur == s.current
  IN  IF cur = NoBranch \/ ~Valid(s, cur) \/ ~CanSwitch(s) THEN Fail(s)
      ELSE [DeleteAllBranchData([s EXCEPT !.head = NoBranch], cur)
             EXCEPT !.head = s.cache[cur].parent]

----------------------------------------------------------------------------
(***************************************************************************)
(* Commits on the current branch, tracking                                 *)
(***************************************************************************)
\* The current branch moves to a new commit; no metadata is written.
CommitTo(s, rev) ==
  IF s.current = NoBranch \/ ~Valid(s, s.current) \/ rev = NoCommit THEN Fail(s)
  ELSE [s EXCEPT !.refs[s.current] = rev, !.cache[s.current].rev = rev]

\* git commit, git commit --amend, and the reset to the oldest commit of the
\* branch followed by an amend.
Committed(s, p) == Append(s.refs[s.current], p)
AmendedTip(s, p) == Amended(s.refs[s.current], p)
Squashed(s, p) ==
  LET range == CommitRange(s.cache[s.current].prev, s.cache[s.current].rev)
  IN  IF range = <<>> \/ ~CanSwitch(s) THEN NoCommit
      ELSE Append(MergeBase(s.cache[s.current].prev, s.cache[s.current].rev), p)

TrackBranch(s, b, p) ==
  IF ~CanBeParent(s, b, p) \/ ~Exists(s, b) \/ ~ValidOrTrunk(s, p) \/ b = Trunk
  THEN Fail(s)
  ELSE UpdateMeta(s, b, [s.cache[b] EXCEPT !.result = "VALID", !.parent = p,
                                           !.prev = MergeBase(s.refs[b], s.refs[p])])

\* Only the children lose their valid parent: the list of branches still to
\* be visited never grows.
UntrackBranch(s, b) ==
  IF ~Valid(s, b) THEN Fail(s)
  ELSE LET kid(c) == /\ c \in ToSet(s.cache[b].children)
                     /\ s.cache[c].result # "BAD_PARENT_NAME"
       IN  [s EXCEPT
             !.meta[b] = NoMeta,
             !.cache = [c \in Branches |->
               IF c = b THEN [@[c] EXCEPT !.result = "BAD_PARENT_NAME"]
               ELSE IF kid(c) THEN [@[c] EXCEPT !.result = "INVALID_PARENT"]
               ELSE @[c]]]

\* Mutant of HandleSuccessfulRebase: the parent revision is the branch's own.
HandleSuccessfulRebaseOwnRevision(s, b, base) ==
  IF ~Valid(s, b) THEN Fail(s)
  ELSE LET done == UpdateMeta(s, b, [s.cache[b] EXCEPT !.rev = s.refs[b], !.prev = s.refs[b]])
       IN  IF s.current # NoBranch /\ Exists(s, s.current)
           THEN [done EXCEPT !.head = s.current] ELSE done

\* What handleSuccessfulRebase records: b now sits on the revision base.
HandleSuccessfulRebase(s, b, base) ==
  IF ~Valid(s, b) THEN Fail(s)
  ELSE LET done == UpdateMeta(s, b, [s.cache[b] EXCEPT !.rev = s.refs[b], !.prev = base])
       IN  IF s.current # NoBranch /\ Exists(s, s.current)
           THEN [done EXCEPT !.head = s.current] ELSE done
=============================================================================
