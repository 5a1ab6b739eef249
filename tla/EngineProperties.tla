-------------------------- MODULE EngineProperties --------------------------
(***************************************************************************)
(* What the stack engine must keep true.                                   *)
(***************************************************************************)
EXTENDS Engine

Continuations ==
  [queue : Seq(Branches), base : Commits, current : Names, sync : Seq(Branches)]

Rebases == [branch : Branches, onto : Commits, from : Commits]

\* Every variable has its type: the disk, the engine and the continuation
\* hold names of branches and revisions, never `undefined` where the code
\* does not expect it.
TypeOK ==
  /\ refs \in Refs /\ meta \in Metas /\ head \in Names
  /\ refs[Trunk] # NoCommit
  /\ rebase \in Rebases \cup {NoRebase}
  /\ cont \in Continuations \cup {NoCont}
  /\ process \in {"none", "command", "continue", "split", "clean", "get"}
  /\ cache \in Caches
  /\ current \in Names
  /\ queue \in Seq(Branches)
  /\ rebased \in [branch : Branches, base : Commits] \cup {Nothing}
  /\ own \in [Branches -> SUBSET Patches]

----------------------------------------------------------------------------
\* The user leaves the tracked branches to fp: with git he pulls trunk and
\* aborts rebases, and in the middle of a rebase he only continues or aborts.
LeavesStacksToFp ==
  features \cap {"gitCommit", "gitAmend", "gitDelete", "gitBranch", "commandDuringRebase"} = {}

IsRunning == process # "none" /\ rebased = Nothing

\* The metadata on disk, as the next process will judge it.
Result(b) == ResultOf(refs, meta, Rooted(refs, meta), b)

OnDiskPrev(b) == RevisionFrom(refs, meta, b)

OnDiskFixed(b) == OnDiskPrev(b) = refs[meta[b].parent]

\* While `fp downstack get` waits in a conflict with more branches to sync, the
\* user moves none of them.
SyncsUndisturbed == ~ ({"get", "commandDuringRebase"} \subseteq features)

\* No sequence of commands makes the parents go round in a circle, the state
\* in which every later command would throw while it loads
\* (parse_branches_and_meta.ts).  (The continuation of a get lists the branches
\* that are still to be put on each other: who tracks one of them elsewhere in
\* the meantime can have `fp continue` close a circle.)
NoCycleOnDisk == SyncsUndisturbed => ~IsCyclic(refs, meta)

\* A branch the engine believes valid is one the next process will find
\* valid: the validity kept up to date in memory by the operations agrees
\* with a parse from nothing.  (untrackBranch invalidates the children only,
\* not what is above them; the next process parses again.)
ReloadAgrees ==
  IsRunning /\ "untrack" \notin features => \A b \in Branches : cache[b].result = "VALID" => Result(b) = "VALID"

\* The branches that s agrees about with what it has written: the revision
\* in the cache is git's, and the metadata of a valid branch are those on disk.
Agrees(s, b) ==
  /\ s.cache[b].rev = s.refs[b]
  /\ s.cache[b].result = "VALID" => s.meta[b] = [parent |-> s.cache[b].parent, rev |-> s.cache[b].prev]

\* A process never decides on something that is not on disk: through every
\* operation, half-way through a restack and after an exception, the cache it
\* goes on with is what it has written, but for the branch that git has just
\* rebased and handleSuccessfulRebase has still to record (engine.ts:844).
WritesThrough ==
  process # "none" =>
    \A b \in Branches : rebased.branch = b \/ Agrees(Session, b)

\* No command leaves the metadata of a branch naming a parent that does not
\* exist any more: deleting, folding or renaming a branch moves its children
\* along.
NoDanglingParent ==
  LeavesStacksToFp => \A b \in Branches : meta[b].parent # NoBranch => refs[meta[b].parent] # NoCommit

----------------------------------------------------------------------------
\* Whatever happens between two commands, conflicts, aborts and crashes
\* included, the commits of a branch contain every patch written on it: no
\* restack starts from a parent revision that lies inside the branch.
NoPatchLost ==
  LeavesStacksToFp => \A b \in Branches : refs[b] # NoCommit => own[b] \subseteq ToSet(refs[b])

\* The commits between a valid branch and the parent revision in its metadata
\* are its own, or the parent still has them and the next restack drops them:
\* a restack never turns commits the parent has shed into commits of the
\* branch.  (A process that dies before handleSuccessfulRebase leaves the old
\* parent revision behind, and then trunk may move again.  Where branches are
\* removed, reordered or fetched, or commits dropped, one whose parent is then in
\* its history takes over, at the next load, what lies between them.)
NoForeignPatch ==
  LeavesStacksToFp /\ features \cap {"delete", "fold", "unbranch", "edit", "editDownstack", "sync", "get"} = {} =>
    \A b \in Branches : Result(b) = "VALID" =>
      ToSet(CommitRange(OnDiskPrev(b), refs[b]))
        \subseteq own[b] \cup ToSet(refs[meta[b].parent])

\* Commits stay where they were written (handleSuccessfulRebase, engine.ts:844).
PatchesStayInPlace == NoPatchLost /\ NoForeignPatch

\* While a rebase is stopped, the continuation is about that rebase: `fp
\* continue` will record the revision the branch is really being rebased
\* onto, and will not restack the branch a second time.  (A branch that `fp
\* downstack get` rebases goes onto its fetched self, above that base.)
ContinuesOnItsBase ==
  LeavesStacksToFp /\ "get" \notin features /\ rebase # NoRebase /\ cont # NoCont =>
    cont.base = rebase.onto

NotRestackedTwice ==
  LeavesStacksToFp /\ "get" \notin features /\ rebase # NoRebase /\ cont # NoCont =>
    rebase.branch \notin ToSet(cont.queue)

ContinuationMatchesRebase == ContinuesOnItsBase /\ NotRestackedTwice

----------------------------------------------------------------------------
\* As long as commands are not killed and conflicts are resolved, the stack is
\* put in order over and over again: what an amend displaced is restacked, by
\* the command itself or by the continues that follow it.
AlwaysRestackedAgain ==
  []<>("live" \in features =>
         rebase = NoRebase /\ \A b \in Branches : Result(b) = "VALID" => OnDiskFixed(b))
=============================================================================
