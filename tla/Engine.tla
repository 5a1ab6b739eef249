------------------------------- MODULE Engine -------------------------------
(***************************************************************************)
(* The stack engine at work: a user runs fp commands in a repository, one  *)
(* after the other, and also uses git directly.                            *)
(*                                                                         *)
(* A command is a process.  It loads the cache, performs one operation of  *)
(* StackOps, and then restacks a queue of branches one at a time           *)
(* (actions/restack.ts).  A git rebase that hits a conflict ends the       *)
(* process: git stays in the middle of the rebase and what remains to be   *)
(* done is persisted as the continuation (.gtcontinue), for `fp continue`  *)
(* to pick up (actions/continue.ts).  The process can die between any two  *)
(* of its steps; only the disk survives.                                   *)
(***************************************************************************)
EXTENDS StackOps

CONSTANTS
  SiblingOrders, \* the orders in which a load may meet the branches
  Scenarios,     \* the repositories to start from, and what may happen there
  Elsewhere,     \* the patches written in other clones
  NoCont         \* there is no continuation

ASSUME OrdersListAllBranches ==
  \A o \in SiblingOrders : o \in Seq(Branches) /\ IsInjective(o) /\ ToSet(o) = Branches

ASSUME PatchesAreNumbered == Patches \subseteq Nat

ASSUME ScenariosAreRepositories ==
  \A scenario \in Scenarios : scenario.refs \in Refs /\ scenario.meta \in Metas

\* No repository starts with branches that are on each other in a circle.
ASSUME ScenariosAreGrounded ==
  \A scenario \in Scenarios : \A S \in SUBSET (Branches \ {Trunk}) :
    (\A b \in S : scenario.meta[b].parent \in S) => S = {}

VARIABLES
  refs, meta,   \* refs/heads and refs/branch-metadata
  head,         \* the branch HEAD is on, NoBranch when it is detached
  rebase,       \* git's rebase-merge directory
  cont,         \* the continuation
  process,      \* "none", or the kind of the fp process that is running
  cache, current, \* its engine
  queue,        \* the branches it has still to restack
  rebased,      \* what git has just rebased and the metadata does not show yet
  own,          \* the patches written on each branch (history variable)
  features      \* the commands, events and failures of this behaviour

disk == <<refs, meta, head, rebase, cont>>
session == <<process, cache, current, queue, rebased>>
vars == <<disk, session, own, features>>

NoCache == [b \in Branches |-> NoEntry]

\* No rebase waits to be recorded.
Nothing == [branch |-> NoBranch]

Init ==
  /\ \E scenario \in Scenarios :
       /\ refs = scenario.refs
       /\ meta = scenario.meta
       /\ own  = scenario.own
       /\ head = scenario.head
       /\ features = scenario.features
  /\ rebase = NoRebase
  /\ cont = NoCont
  /\ process = "none"
  /\ cache = NoCache
  /\ current = NoBranch
  /\ queue = <<>>
  /\ rebased = Nothing

----------------------------------------------------------------------------
(***************************************************************************)
(* A process begins and ends                                               *)
(***************************************************************************)
EndProcess ==
  /\ process' = "none"
  /\ cache' = NoCache
  /\ current' = NoBranch
  /\ queue' = <<>>
  /\ rebased' = Nothing

\* initContext: a continuation without a rebase is thrown away.
LoadedCont == IF rebase = NoRebase THEN NoCont ELSE cont

\* composeEngine: the session of a new process.
Loaded(order) ==
  [refs    |-> refs,
   meta    |-> LoadedMeta(refs, meta),
   head    |-> head,
   rebase  |-> rebase,
   cache   |-> LoadedCache(refs, meta, order),
   current |-> IF LoadedCont = NoCont THEN head ELSE cont.current,
   failed  |-> FALSE]

\* A user in the middle of a rebase normally runs nothing but `fp continue`.
MayRun(command) ==
  /\ command \in features
  /\ process = "none"
  /\ ~IsCyclic(refs, meta)
  /\ rebase # NoRebase => "commandDuringRebase" \in features

\* The operation has led to s; what the process does next depends on its kind.
\* An exception ends the process.
BeginAs(kind, s, q, patches) ==
  /\ refs' = s.refs
  /\ meta' = s.meta
  /\ head' = s.head
  /\ rebase' = rebase
  /\ cont' = LoadedCont
  /\ UNCHANGED features
  /\ own' = [b \in Branches |-> IF s.refs[b] = NoCommit THEN {} ELSE patches[b]]
  /\ IF s.failed THEN EndProcess
     ELSE /\ process' = kind
          /\ cache' = s.cache
          /\ current' = s.current
          /\ queue' = q
          /\ rebased' = Nothing

\* The branches of q are to be restacked.
Begin(s, q, patches) == BeginAs("command", s, q, patches)

Upstack(s, b) == <<b>> \o RecursiveChildren(s, b)

\* The smallest patch that nothing mentions.
IsUnused(p) ==
  /\ p \notin Elsewhere
  /\ \A b \in Branches :
       /\ p \notin own[b]
       /\ \A c \in {refs[b], meta[b].rev} : c # NoCommit => p \notin ToSet(c)
  /\ rebase # NoRebase => p \notin ToSet(rebase.onto) \cup ToSet(rebase.from)
  /\ cont # NoCont => p \notin ToSet(cont.base)

FreshPatch(p) == IsUnused(p) /\ \A q \in Patches : IsUnused(q) => p <= q

----------------------------------------------------------------------------
(***************************************************************************)
(* Commands that write commits                                             *)
(***************************************************************************)
\* The current branch gets the commit rev, and patches are now its own.
CommitAndRestack(s, rev, patches) ==
  LET t == CommitTo(s, rev)
  IN  Begin(t, RecursiveChildren(t, t.current),
            IF t.failed THEN own ELSE [own EXCEPT ![t.current] = patches])

\* fp commit create
CommitCreate ==
  /\ MayRun("commit") /\ rebase = NoRebase
  /\ \E order \in SiblingOrders, p \in Patches :
       LET s == Loaded(order)
       IN  /\ FreshPatch(p)
           /\ s.current # NoBranch
           /\ CommitAndRestack(s, Committed(s, p), own[s.current] \cup {p})

\* fp commit amend: a branch without commits is refused.
CommitAmend ==
  /\ MayRun("amend") /\ rebase = NoRebase
  /\ \E order \in SiblingOrders, p \in Patches :
       LET s == Loaded(order)
       IN  /\ FreshPatch(p)
           /\ s.current # NoBranch /\ Valid(s, s.current)
           /\ s.refs[s.current] # s.cache[s.current].prev
           /\ CommitAndRestack(s, AmendedTip(s, p),
                (own[s.current] \ {Last(s.refs[s.current])}) \cup {p})

\* fp branch squash
Squash ==
  /\ MayRun("squash")
  /\ \E order \in SiblingOrders, p \in Patches :
       LET s == Loaded(order)
       IN  /\ FreshPatch(p)
           /\ s.current # NoBranch
           /\ CommitAndRestack(s, Squashed(s, p), {p})

\* The new branch b, with what is staged committed on it.
Created(s, b, staged) ==
  LET new == CheckoutNewBranch(s, b)
  IN  IF new.failed THEN new ELSE CommitTo(new, s.refs[s.current] \o staged)

\* fp branch create, with or without staged changes.
Create ==
  /\ MayRun("create")
  /\ \E order \in SiblingOrders, b \in Branches,
        staged \in {<<>>} \cup {<<p>> : p \in {q \in Patches : FreshPatch(q)}} :
       LET t == Created(Loaded(order), b, staged)
       IN  /\ refs[b] = NoCommit
           /\ staged = <<>> => "empty" \in features
           /\ Begin(t, <<>>, IF t.failed THEN own ELSE [own EXCEPT ![b] = ToSet(staged)])

\* fp branch create --insert: the siblings are a copy of the children, so all
\* of them are moved; then their upstacks are restacked.
CreateInsert ==
  /\ MayRun("insert")
  /\ \E order \in SiblingOrders, b \in Branches, p \in Patches :
       LET s == Loaded(order)
           t == Created(s, b, <<p>>)
           siblings == Without(GetChildren(t, s.current), b)
           moved == Adopt(t, siblings, b)
       IN  /\ FreshPatch(p)
           /\ refs[b] = NoCommit
           /\ s.current # NoBranch
           /\ Begin(moved,
                    FlattenSeq([i \in DOMAIN siblings |-> Upstack(moved, siblings[i])]),
                    IF t.failed THEN own ELSE [own EXCEPT ![b] = {p}])

\* The same when git commit fails, say in a hook: the branch is deleted again.
CreateFails ==
  /\ MayRun("createFails")
  /\ \E order \in SiblingOrders, b \in Branches :
       LET new == CheckoutNewBranch(Loaded(order), b)
       IN  /\ refs[b] = NoCommit
           /\ Begin(Fail(IF new.failed THEN new ELSE DeleteBranch(new, b)), <<>>, own)

----------------------------------------------------------------------------
(***************************************************************************)
(* Commands that rearrange the stack                                       *)
(***************************************************************************)
\* fp branch delete: the queue is computed before the branch is deleted.
Delete ==
  /\ MayRun("delete")
  /\ \E order \in SiblingOrders, b \in Branches \ {Trunk} :
       LET s == Loaded(order)
       IN  /\ Valid(s, b)
           /\ Begin(DeleteBranch(s, b), RecursiveChildren(s, b), own)

\* fp branch fold
Fold ==
  /\ MayRun("fold")
  /\ \E order \in SiblingOrders, keep \in BOOLEAN :
       LET s == Loaded(order)
           t == FoldCurrentBranch(s, keep)
           p == s.cache[s.current].parent
       IN  /\ s.current # NoBranch
           /\ Begin(t, RecursiveChildren(t, t.current),
                    IF t.failed THEN own
                    ELSE [own EXCEPT ![t.current] = own[s.current] \cup own[p]])

\* fp branch rename
Rename ==
  /\ MayRun("rename")
  /\ \E order \in SiblingOrders, b \in Branches :
       LET s == Loaded(order)
           t == RenameCurrentBranch(s, b)
       IN  /\ s.current # NoBranch
           /\ refs[b] = NoCommit
           /\ Begin(t, <<>>, IF t.refs[b] = NoCommit THEN own
                             ELSE [own EXCEPT ![b] = own[s.current]])

\* fp upstack onto: refused with uncommitted changes, as a conflict leaves.
Onto ==
  /\ MayRun("onto") /\ rebase = NoRebase
  /\ \E order \in SiblingOrders, p \in Branches :
       LET s == Loaded(order)
           t == SetParent(s, s.current, p)
       IN  /\ s.current # NoBranch /\ ValidOrTrunk(s, s.current)
           /\ refs[p] # NoCommit
           /\ Begin(t, Upstack(t, t.current), own)

\* fp branch unbranch
UnbranchCommand ==
  /\ MayRun("unbranch")
  /\ \E order \in SiblingOrders :
       LET s == Loaded(order)
       IN  /\ s.current # NoBranch /\ ValidOrTrunk(s, s.current)
           /\ GetChildren(s, s.current) = <<>>
           /\ Begin(Unbranch(s), <<>>, own)

\* fp branch track --parent: the parent must be in the branch's history.
Track ==
  /\ MayRun("track")
  /\ \E order \in SiblingOrders, b, p \in Branches :
       LET s == Loaded(order)
       IN  /\ Exists(s, b) /\ Exists(s, p)
           /\ p = Trunk \/ IsDescendantOf(s, b, p)
           /\ Begin(TrackBranch(s, b, p), <<>>, own)

\* fp branch untrack
Untrack ==
  /\ MayRun("untrack")
  /\ \E order \in SiblingOrders, b \in Branches \ {Trunk} :
       LET s == Loaded(order)
       IN  Valid(s, b) /\ Begin(UntrackBranch(s, b), <<>>, own)

\* fp branch checkout
Checkout ==
  /\ MayRun("checkout")
  /\ \E order \in SiblingOrders, b \in Branches :
       LET s == Loaded(order)
       IN  Exists(s, b) /\ b # s.current /\ Begin(CheckoutBranch(s, b), <<>>, own)

\* fp branch / upstack / downstack / stack restack
Restack ==
  /\ MayRun("restack")
  /\ \E order \in SiblingOrders, down, up \in BOOLEAN :
       LET s == Loaded(order)
           b == s.current
       IN  /\ b # NoBranch /\ ValidOrTrunk(s, b)
           /\ Begin(s, (IF down THEN RecursiveParents(s, b) ELSE <<>>) \o <<b>>
                       \o (IF up THEN RecursiveChildren(s, b) ELSE <<>>), own)

----------------------------------------------------------------------------
(***************************************************************************)
(* restackBranches                                                         *)
(***************************************************************************)
Session == [refs |-> refs, meta |-> meta, head |-> head, rebase |-> rebase,
            cache |-> cache, current |-> current, failed |-> FALSE]

\* continueAction asks for the current branch, which must be tracked, before it
\* goes on with what the continuation lists.
MayGoOn == process = "continue" => current # NoBranch /\ ValidOrTrunk(Session, current)

\* b is shifted off the queue.
Shifts(b) ==
  /\ process # "none"
  /\ rebased = Nothing
  /\ MayGoOn
  /\ queue # <<>>
  /\ b = Head(queue)

HasParentEntry(b) == Valid(Session, b) /\ Exists(Session, cache[b].parent)

RestackUnneeded(b) ==
  /\ Shifts(b)
  /\ b = Trunk \/ (HasParentEntry(b) /\ IsBranchFixed(Session, b))
  /\ queue' = Tail(queue)
  /\ UNCHANGED <<disk, process, cache, current, rebased, own, features>>

\* The branch is not valid, or its parent is not in the cache.
RestackThrows(b) ==
  /\ Shifts(b)
  /\ b # Trunk
  /\ ~HasParentEntry(b)
  /\ EndProcess
  /\ UNCHANGED <<disk, own, features>>

NeedsRestack(b) ==
  Shifts(b) /\ b # Trunk /\ HasParentEntry(b) /\ ~IsBranchFixed(Session, b)

\* Mutant of RestackDone: the rebase starts at the merge base and not at the
\* recorded parent revision.
RestackDoneFromMergeBase(b) ==
  /\ NeedsRestack(b)
  /\ rebase = NoRebase
  /\ refs' = [refs EXCEPT ![b] =
                Rebased(refs[cache[b].parent], MergeBase(refs[cache[b].parent], @), @)]
  /\ head' = b
  /\ queue' = Tail(queue)
  /\ rebased' = [branch |-> b, base |-> cache[cache[b].parent].rev]
  /\ UNCHANGED <<meta, rebase, cont, process, cache, current, own, features>>

\* git rebase --onto parent parentBranchRevision b
RestackDone(b) ==
  /\ NeedsRestack(b)
  /\ rebase = NoRebase
  /\ refs' = [refs EXCEPT ![b] = Rebased(refs[cache[b].parent], cache[b].prev, refs[b])]
  /\ head' = b
  /\ queue' = Tail(queue)
  /\ rebased' = [branch |-> b, base |-> cache[cache[b].parent].rev]
  /\ UNCHANGED <<meta, rebase, cont, process, cache, current, own, features>>

\* Mutants of PersistContinuation: the branch in conflict is queued again, or
\* the branches after it are forgotten.
PersistContinuationAgain(q, base) ==
  cont' = [queue |-> queue, base |-> base, current |-> current, sync |-> <<>>]
PersistContinuationAlone(q, base) ==
  cont' = [queue |-> <<>>, base |-> base, current |-> current, sync |-> <<>>]

PersistContinuation(q, base) ==
  cont' = [queue |-> q, base |-> base, current |-> current, sync |-> <<>>]

\* git stops at a commit of b that it cannot apply.
RestackConflict(b) ==
  /\ "conflict" \in features
  /\ NeedsRestack(b)
  /\ rebase = NoRebase
  /\ Rebased(refs[cache[b].parent], cache[b].prev, refs[b]) # refs[cache[b].parent]
  /\ rebase' = [branch |-> b, onto |-> refs[cache[b].parent], from |-> cache[b].prev]
  /\ head' = NoBranch
  /\ PersistContinuation(Tail(queue), cache[cache[b].parent].rev)
  /\ EndProcess
  /\ UNCHANGED <<refs, meta, own, features>>

\* git refuses to start a second rebase; rebaseInternal takes the failure for
\* a conflict because a rebase is in progress.
RestackBlocked(b) ==
  /\ NeedsRestack(b)
  /\ rebase # NoRebase
  /\ PersistContinuation(Tail(queue), cache[cache[b].parent].rev)
  /\ EndProcess
  /\ UNCHANGED <<refs, meta, head, rebase, own, features>>

\* handleSuccessfulRebase
RecordRebase ==
  /\ process # "none"
  /\ rebased # Nothing
  /\ LET s == HandleSuccessfulRebase(Session, rebased.branch, rebased.base)
     IN  IF s.failed THEN EndProcess /\ UNCHANGED <<meta, head>>
         ELSE /\ meta' = s.meta /\ head' = s.head /\ cache' = s.cache
              /\ rebased' = Nothing
              /\ UNCHANGED <<process, current, queue>>
  /\ UNCHANGED <<refs, rebase, cont, own, features>>

\* The command is over; continueAction also clears the continuation.
Exit ==
  /\ process \in {"command", "continue"}
  /\ rebased = Nothing
  /\ MayGoOn
  /\ queue = <<>>
  /\ EndProcess
  /\ cont' = IF process = "continue" THEN NoCont ELSE cont
  /\ UNCHANGED <<refs, meta, head, rebase, own, features>>

\* The current branch is not tracked: the rebase is done and the rest is not.
ContinueThrows ==
  /\ process = "continue"
  /\ rebased = Nothing
  /\ ~MayGoOn
  /\ EndProcess
  /\ UNCHANGED <<disk, own, features>>

\* The process is killed, or dies of an exception, between two steps.
Crash ==
  /\ "crash" \in features
  /\ process # "none"
  /\ EndProcess
  /\ UNCHANGED <<disk, own, features>>

----------------------------------------------------------------------------
(***************************************************************************)
(* continueAction                                                          *)
(***************************************************************************)
MayContinue ==
  "continue" \in features /\ process = "none" /\ ~IsCyclic(refs, meta)

\* No rebase, or no rebasedBranchBase: the continuation is cleared.
NothingToContinue ==
  /\ MayContinue
  /\ rebase = NoRebase \/ cont = NoCont
  /\ cont' = NoCont
  /\ meta' = LoadedMeta(refs, meta)
  /\ UNCHANGED <<refs, head, rebase, session, own, features>>

\* git rebase --continue finishes the rebase.
ContinueRebase(order) ==
  LET s == Loaded(order)
      b == rebase.branch
  IN  /\ MayContinue
      /\ rebase # NoRebase /\ cont # NoCont
      /\ refs' = [refs EXCEPT ![b] = Rebased(rebase.onto, rebase.from, refs[b])]
      /\ meta' = s.meta
      /\ head' = b
      /\ rebase' = NoRebase
      /\ process' = "continue"
      /\ cache' = s.cache
      /\ current' = s.current
      /\ queue' = cont.queue
      /\ rebased' = [branch |-> b, base |-> cont.base]
      /\ UNCHANGED <<cont, own, features>>

Continue == \E order \in SiblingOrders : ContinueRebase(order)

\* It stops again: the continuation is persisted without the branches to sync.
StillInConflict ==
  /\ MayContinue
  /\ rebase # NoRebase /\ cont # NoCont
  /\ meta' = LoadedMeta(refs, meta)
  /\ cont' = [cont EXCEPT !.sync = <<>>]
  /\ UNCHANGED <<refs, head, rebase, session, own, features>>

----------------------------------------------------------------------------
(***************************************************************************)
(* git, used directly while no fp process runs                             *)
(***************************************************************************)
MayGit(event) == event \in features /\ process = "none"

\* git rebase --abort
GitAbort ==
  /\ MayGit("abort")
  /\ rebase # NoRebase
  /\ rebase' = NoRebase
  /\ head' = rebase.branch
  /\ UNCHANGED <<refs, meta, cont, session, own, features>>

\* git commit on the branch that is checked out
GitCommit ==
  /\ MayGit("gitCommit")
  /\ head # NoBranch
  /\ \E p \in Patches :
       /\ FreshPatch(p)
       /\ refs' = [refs EXCEPT ![head] = Append(@, p)]
       /\ own' = [own EXCEPT ![head] = @ \cup {p}]
  /\ UNCHANGED <<meta, head, rebase, cont, session, features>>

\* git commit --amend
GitAmend ==
  /\ MayGit("gitAmend")
  /\ head \notin {NoBranch, Trunk}
  /\ refs[head] # Root
  /\ \E p \in Patches :
       /\ FreshPatch(p)
       /\ refs' = [refs EXCEPT ![head] = Amended(@, p)]
       /\ own' = [own EXCEPT ![head] = (@ \ {Last(refs[head])}) \cup {p}]
  /\ UNCHANGED <<meta, head, rebase, cont, session, features>>

\* git pull moves trunk forward.
GitPullTrunk ==
  /\ MayGit("pullTrunk")
  /\ \E p \in Patches :
       /\ FreshPatch(p)
       /\ refs' = [refs EXCEPT ![Trunk] = Append(@, p)]
       /\ own' = [own EXCEPT ![Trunk] = @ \cup {p}]
  /\ UNCHANGED <<meta, head, rebase, cont, session, features>>

\* git branch -D
GitDelete ==
  /\ MayGit("gitDelete")
  /\ \E b \in Branches \ {Trunk, head} :
       /\ refs[b] # NoCommit
       /\ rebase # NoRebase => rebase.branch # b
       /\ refs' = [refs EXCEPT ![b] = NoCommit]
       /\ own' = [own EXCEPT ![b] = {}]
  /\ UNCHANGED <<meta, head, rebase, cont, session, features>>

\* git switch -c
GitBranch ==
  /\ MayGit("gitBranch")
  /\ head # NoBranch
  /\ \E b \in Branches :
       /\ refs[b] = NoCommit
       /\ refs' = [refs EXCEPT ![b] = refs[head]]
       /\ head' = b
  /\ UNCHANGED <<meta, rebase, cont, session, own, features>>

----------------------------------------------------------------------------
Command ==
  \/ CommitCreate \/ CommitAmend \/ Squash \/ Create \/ CreateInsert \/ CreateFails
  \/ Delete \/ Fold \/ Rename \/ Onto \/ UnbranchCommand \/ Track \/ Untrack
  \/ Checkout \/ Restack

RestackBranches ==
  \E b \in Branches :
    \/ RestackUnneeded(b) \/ RestackThrows(b) \/ RestackDone(b)
    \/ RestackConflict(b) \/ RestackBlocked(b)

Git == GitAbort \/ GitCommit \/ GitAmend \/ GitPullTrunk \/ GitDelete \/ GitBranch

Next ==
  \/ Command \/ RestackBranches \/ RecordRebase \/ Exit \/ ContinueThrows \/ Crash
  \/ NothingToContinue \/ Continue \/ StillInConflict
  \/ Git

Spec == Init /\ [][Next]_vars
=============================================================================
