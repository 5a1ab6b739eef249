-------------------------------- MODULE Sync --------------------------------
(***************************************************************************)
(* `fp repo sync` and `fp downstack get`: the commands that meet the       *)
(* remote.                                                                 *)
(*                                                                         *)
(* Sync (actions/sync/sync.ts) pulls trunk, deletes the branches that are  *)
(* merged or closed (clean_branches.ts), and restacks.  The deletion walks *)
(* up the stacks, marks what is to be deleted, and deletes a marked branch *)
(* as soon as nothing blocks it: its blockers are the children that are    *)
(* neither deleted nor moved away yet.                                     *)
(*                                                                         *)
(* Get (get.ts) fetches a downstack, branch after branch from trunk, and   *)
(* checks each out, overwrites the local branch, or rebases it onto the    *)
(* fetched one.  A conflict leaves the rest of the downstack in the        *)
(* continuation.                                                           *)
(*                                                                         *)
(* Both are processes of Engine, of the kinds "clean" and "get".           *)
(***************************************************************************)
EXTENDS StackEdits

CONSTANTS
  Remotes,   \* what the remote may hold: the branches and the downstack to get
  NoSync     \* no sync and no get is in progress

\* getDownstackDependencies names each branch once.  (It names only the one that
\* is asked for, "until we have a real way to compute the downstack branches".)
ASSUME DownstacksAreLists ==
  \A r \in Remotes : r.downstack \in Seq(Branches) /\ IsInjective(r.downstack)

VARIABLES
  remote,    \* [refs, downstack]
  fetched,   \* refs/gt-metadata/FETCH_HEAD and FETCH_BASE
  clean,     \* the local variables of cleanBranches
  get        \* those of getBranchesFromRemote

syncVars == <<remote, fetched, clean, get>>

\* The remote, for a user who never asks for it.
NoRemote == [refs |-> [b \in Branches |-> NoCommit], downstack |-> <<>>]

SyncInit ==
  /\ Init
  /\ remote \in IF features \cap {"sync", "get"} = {} THEN {NoRemote} ELSE Remotes
  /\ fetched = [head |-> NoCommit, base |-> NoCommit]
  /\ clean = NoSync
  /\ get = NoSync

\* The local variables go with the process.
Locals == clean' = NoSync /\ get' = NoSync

----------------------------------------------------------------------------
(***************************************************************************)
(* Pulling trunk                                                           *)
(***************************************************************************)
TrunkAt(s, rev) == [s EXCEPT !.refs[Trunk] = rev, !.cache[Trunk].rev = rev]

\* git pull --ff-only: trunk stays where it is when it is ahead, or diverged.
PullTrunk(s) ==
  IF IsAncestor(s.refs[Trunk], remote.refs[Trunk])
  THEN TrunkAt(s, remote.refs[Trunk]) ELSE s

PullConflicts(s) ==
  /\ ~IsAncestor(s.refs[Trunk], remote.refs[Trunk])
  /\ ~IsAncestor(remote.refs[Trunk], s.refs[Trunk])

\* Sync offers to reset trunk to the remote, or is killed.
TrunkPulled(s) ==
  IF PullConflicts(s) THEN {TrunkAt(s, remote.refs[Trunk]), Fail(s)} ELSE {PullTrunk(s)}

\* What was committed on trunk and is not on the remote is given up.
OwnAfterPull(t) == [own EXCEPT ![Trunk] = @ \cap ToSet(t.refs[Trunk])]

\* uncommittedTrackedChangesPrecondition, and a current branch to return to.
MaySync(command, s) ==
  MayRun(command) /\ rebase = NoRebase /\ s.current # NoBranch /\ Exists(s, s.current)

----------------------------------------------------------------------------
(***************************************************************************)
(* syncAction and cleanBranches                                            *)
(***************************************************************************)
\* Without --delete there is nothing to process.
BeginSync ==
  /\ \E order \in SiblingOrders, pull, delete, restack \in BOOLEAN :
       LET s == Loaded(order)
       IN  /\ MaySync("sync", s)
           /\ \E t \in IF pull THEN TrunkPulled(s) ELSE {s} :
                /\ BeginAs("clean", t, <<>>, OwnAfterPull(t))
                /\ clean' = IF t.failed THEN NoSync ELSE
                     [toProcess |-> IF delete THEN GetChildren(t, Trunk) ELSE <<>>,
                      marked    |-> <<>>,
                      blockers  |-> [b \in Branches |-> {}],
                      unblocked |-> <<>>,
                      moved     |-> <<>>,
                      restack   |-> restack,
                      doomed    |-> {},       \* history: every branch marked
                      before    |-> t.cache]  \* history: the stacks at the start
  /\ UNCHANGED <<remote, fetched, get>>

\* Between two rounds; a deletion may have left branches to restack.
Cleans == process = "clean" /\ rebased = Nothing /\ queue = <<>>

IsMarked(b) == b \in ToSet(clean.marked)

\* Object.keys(branchesToDelete) without blockers
Unblocked(c) ==
  LET free(b) == c.blockers[b] = {} IN SelectSeq(c.marked, free)

\* Mutant of Mark: the children that are not to be deleted do not block.
MarkUnblocked(b) ==
  [clean EXCEPT !.toProcess = Front(@) \o GetChildren(Session, b),
                !.marked    = Append(@, b),
                !.doomed    = @ \cup {b}]

Mark(b) ==
  LET kids == GetChildren(Session, b)
  IN  [clean EXCEPT !.toProcess    = Front(@) \o kids,
                    !.marked       = Append(@, b),
                    !.blockers[b]  = ToSet(kids),
                    !.doomed       = @ \cup {b}]

\* The nearest ancestor that is not marked.
NewParent(b) ==
  LET above[n \in 0..Cardinality(Branches)] ==
        [p \in Branches |->
          IF n = 0 \/ ~IsMarked(p) THEN p ELSE above[n-1][cache[p].parent]]
  IN  above[Cardinality(Branches)][cache[b].parent]

Keep(b, p) ==
  IF p = cache[b].parent THEN [clean EXCEPT !.toProcess = Front(@)]
  ELSE [clean EXCEPT !.toProcess = Front(@),
                     !.moved     = Append(@, b),
                     !.blockers[cache[b].parent] = @ \ {b}]

\* The answer of shouldDeleteBranch is arbitrary: merged, closed or empty
\* branches are deleted, with --force or when the user agrees; only valid ones
\* can be asked about.
CheckBranch ==
  /\ Cleans /\ clean.unblocked = <<>> /\ clean.toProcess # <<>>
  /\ \E delete \in BOOLEAN :
       LET b == Last(clean.toProcess)
           p == NewParent(b)
           t == IF IsMarked(b) THEN Session
                ELSE IF ~Valid(Session, b) THEN Fail(Session)
                ELSE IF delete THEN Session ELSE SetParent(Session, b, p)
           c == IF IsMarked(b) THEN [clean EXCEPT !.toProcess = Front(@)]
                ELSE IF delete THEN Mark(b) ELSE Keep(b, p)
       IN  /\ meta' = t.meta
           /\ IF t.failed THEN EndProcess /\ clean' = NoSync
              ELSE /\ cache' = t.cache
                   /\ clean' = [c EXCEPT !.unblocked = Unblocked(c)]
                   /\ UNCHANGED <<process, current, queue, rebased>>
  /\ UNCHANGED <<refs, head, rebase, cont, own, features, remote, fetched, get>>

\* The deleted branch b blocks its parent p no longer.
Unblock(b, p) ==
  LET left == clean.blockers[p] \ {b}
      frees == IsMarked(p) /\ b \in clean.blockers[p] /\ left = {}
  IN  [clean EXCEPT !.unblocked    = Front(@) \o (IF frees THEN <<p>> ELSE <<>>),
                    !.marked       = Without(@, b),
                    !.blockers[p]  = IF IsMarked(p) THEN left ELSE @]

\* greedilyDeleteUnblockedBranches, one deleteBranchAction at a time.
DeleteUnblocked ==
  /\ Cleans /\ clean.unblocked # <<>>
  /\ LET b == Last(clean.unblocked)
         t == DeleteBranch(Session, b)
     IN  /\ refs' = t.refs /\ meta' = t.meta /\ head' = t.head
         /\ own' = [x \in Branches |-> IF t.refs[x] = NoCommit THEN {} ELSE own[x]]
         /\ IF t.failed THEN EndProcess /\ clean' = NoSync
            ELSE /\ cache' = t.cache /\ current' = t.current
                 /\ queue' = RecursiveChildren(Session, b)
                 /\ clean' = Unblock(b, cache[b].parent)
                 /\ UNCHANGED <<process, rebased>>
  /\ UNCHANGED <<rebase, cont, features, remote, fetched, get>>

\* The upstacks of the branches that moved, and the current stack or, from
\* trunk, everything instead.
QueueAfterClean ==
  LET moved == FlattenSeq([i \in DOMAIN clean.moved |-> Upstack(Session, clean.moved[i])])
      stack == RecursiveParents(Session, current) \o Upstack(Session, current)
  IN  IF current = Trunk THEN Upstack(Session, Trunk)
      ELSE IF Valid(Session, current) /\ current \notin ToSet(moved) THEN moved \o stack
      ELSE moved

\* An exception is thrown where the current branch is not in the cache.
EndClean ==
  /\ Cleans /\ clean.unblocked = <<>> /\ clean.toProcess = <<>>
  /\ IF clean.restack /\ Exists(Session, current)
     THEN /\ process' = "command"
          /\ queue' = QueueAfterClean
          /\ UNCHANGED <<cache, current, rebased>>
     ELSE EndProcess
  /\ clean' = NoSync
  /\ UNCHANGED <<disk, own, features, remote, fetched, get>>

----------------------------------------------------------------------------
(***************************************************************************)
(* getAction and getBranchesFromRemote                                     *)
(***************************************************************************)
\* A trunk that cannot be fast-forwarded is left as it is.
BeginGet ==
  /\ \E order \in SiblingOrders, force \in BOOLEAN :
       LET s == Loaded(order)
       IN  /\ MaySync("get", s)
           /\ BeginAs("get", PullTrunk(s), <<>>, own)
           /\ get' = [toSync |-> remote.downstack, parent |-> Trunk, force |-> force,
                      synced |-> {}]   \* history: the branches that are done
  /\ UNCHANGED <<remote, fetched, clean>>

Gets(b) ==
  /\ process \in {"get", "continue"} /\ rebased = Nothing
  /\ get # NoSync
  /\ MayGoOn
  /\ get.toSync # <<>>
  /\ b = Head(get.toSync)

\* The base of a branch on trunk is its merge base with trunk, that of any
\* other branch is the head of the previous fetch.
FetchBranch(b, p) ==
  [head |-> remote.refs[b],
   base |-> IF p = Trunk THEN MergeBase(remote.refs[b], cache[Trunk].rev)
            ELSE fetched.head]

\* branchMatchesFetched
IsUpToDate(b) ==
  Valid(Session, b) /\ cache[b].parent = get.parent /\ cache[b].rev = remote.refs[b]

\* handleSameParent asks; the branch can also be overwritten.
MayRebase(b) ==
  ~get.force /\ Valid(Session, b) /\ cache[b].parent = get.parent /\ ~IsUpToDate(b)

\* Mutant of Synced: every branch is synced on the first parent.
SyncedBesides(b) ==
  get' = [get EXCEPT !.toSync = Tail(@), !.synced = @ \cup {b}]

Synced(b) ==
  get' = [get EXCEPT !.toSync = Tail(@), !.parent = b, !.synced = @ \cup {b}]

\* The parent is not in the cache as a valid branch, or the remote has no such
\* branch; the base has then already been written.
FetchFails(b) ==
  /\ Gets(b)
  /\ ~ValidOrTrunk(Session, get.parent) \/ remote.refs[b] = NoCommit
  /\ fetched' = IF ValidOrTrunk(Session, get.parent) /\ get.parent # Trunk
                THEN [fetched EXCEPT !.base = fetched.head] ELSE fetched
  /\ EndProcess /\ Locals
  /\ UNCHANGED <<disk, own, features, remote>>

Fetches(b) ==
  /\ Gets(b)
  /\ ValidOrTrunk(Session, get.parent)
  /\ remote.refs[b] # NoCommit
  /\ fetched' = FetchBranch(b, get.parent)

GetUpToDate(b) ==
  /\ Fetches(b)
  /\ ~get.force /\ IsUpToDate(b)
  /\ Synced(b)
  /\ UNCHANGED <<vars, remote, clean>>

\* The user declines to overwrite a branch.
GetAborted(b) ==
  /\ Fetches(b)
  /\ ~get.force /\ Exists(Session, b) /\ ~IsUpToDate(b)
  /\ EndProcess /\ Locals
  /\ UNCHANGED <<disk, own, features, remote>>

\* checkoutBranchFromFetched: the entry starts with no children.
CheckoutFromFetched(s, b, p, f) ==
  IF ~CanBeParent(s, b, p) \/ ~Exists(s, p) \/ ~CanSwitch(s) THEN Fail(s)
  ELSE UpdateMeta([s EXCEPT !.refs[b] = f.head, !.head = b, !.current = b], b,
                  [result |-> "VALID", parent |-> p, prev |-> f.base,
                   rev |-> f.head, children |-> <<>>])

GetCheckout(b) ==
  /\ Fetches(b)
  /\ get.force \/ ~IsUpToDate(b)
  /\ LET t == CheckoutFromFetched(Session, b, get.parent, fetched')
     IN  /\ refs' = t.refs /\ meta' = t.meta /\ head' = t.head
         /\ IF t.failed THEN EndProcess /\ Locals /\ own' = own
            ELSE /\ cache' = t.cache /\ current' = t.current
                 /\ own' = [own EXCEPT ![b] = {}]
                 /\ Synced(b)
                 /\ UNCHANGED <<process, queue, rebased, clean>>
  /\ UNCHANGED <<rebase, cont, features, remote>>

\* rebaseBranchOntoFetched; RecordRebase follows.
GetRebased(b) ==
  /\ Fetches(b)
  /\ MayRebase(b)
  /\ refs' = [refs EXCEPT ![b] = Rebased(remote.refs[b], cache[b].prev, @)]
  /\ head' = b /\ current' = b
  /\ rebased' = [branch |-> b, base |-> fetched'.base]
  /\ Synced(b)
  /\ UNCHANGED <<meta, rebase, cont, process, cache, queue, own, features,
                 remote, clean>>

\* What was to be restacked is not recorded, what is left to sync is.
GetConflict(b) ==
  /\ "conflict" \in features
  /\ Fetches(b)
  /\ MayRebase(b)
  /\ Rebased(remote.refs[b], cache[b].prev, refs[b]) # remote.refs[b]
  /\ rebase' = [branch |-> b, onto |-> remote.refs[b], from |-> cache[b].prev]
  /\ head' = NoBranch
  /\ cont' = [queue |-> <<>>, base |-> fetched'.base, current |-> b, sync |-> Tail(get.toSync)]
  /\ EndProcess /\ Locals
  /\ UNCHANGED <<refs, meta, own, features, remote>>

EndGet ==
  /\ process = "get" /\ rebased = Nothing
  /\ get.toSync = <<>>
  /\ EndProcess /\ Locals
  /\ UNCHANGED <<disk, own, features, remote, fetched>>

\* continueAction: after the rebase, the rest of the downstack without --force,
\* then the rest of the queue.
ContinueSync ==
  /\ Continue
  /\ get' = [toSync |-> cont.sync, parent |-> current', force |-> FALSE,
             synced |-> {}]
  /\ UNCHANGED <<remote, fetched, clean>>

GetBranch ==
  \E b \in Branches :
    \/ FetchFails(b) \/ GetUpToDate(b) \/ GetAborted(b) \/ GetCheckout(b)
    \/ GetRebased(b) \/ GetConflict(b)

----------------------------------------------------------------------------
\* The steps of Engine; what is left to sync comes before what is left to
\* restack, and the local variables go with the process.
EngineStep ==
  /\ \/ Command \/ RecordRebase \/ ContinueThrows \/ Crash
     \/ NothingToContinue \/ StillInConflict \/ Git \/ Edit
     \/ (get # NoSync => get.toSync = <<>>) /\ (RestackBranches \/ Exit)
  /\ IF process' = "none" THEN Locals ELSE UNCHANGED <<clean, get>>
  /\ UNCHANGED <<remote, fetched>>

SyncNext ==
  \/ EngineStep
  \/ BeginSync \/ CheckBranch \/ DeleteUnblocked \/ EndClean
  \/ BeginGet \/ GetBranch \/ EndGet \/ ContinueSync

\* A process that is not killed runs on; a user in a conflict resolves it in
\* the end, however often git stops again.
Lives == "live" \in features

Run ==
  /\ RestackBranches \/ RecordRebase \/ Exit \/ ContinueThrows
  /\ IF process' = "none" THEN Locals ELSE UNCHANGED <<clean, get>>
  /\ UNCHANGED <<remote, fetched>>

Fairness ==
  /\ WF_<<vars, syncVars>>(Lives /\ Run)
  /\ SF_<<vars, syncVars>>(Lives /\ ContinueSync)

SyncSpec == SyncInit /\ [][SyncNext]_<<vars, syncVars>> /\ Fairness

----------------------------------------------------------------------------
(***************************************************************************)
(* Properties                                                              *)
(***************************************************************************)

\* The nearest ancestor that stays, in the stacks as they were.
NearestKept(b) ==
  LET up[n \in 0..Cardinality(Branches), p \in Branches] ==
        IF n = 0 \/ p \notin clean.doomed THEN p ELSE up[n-1, clean.before[p].parent]
  IN  up[Cardinality(Branches), clean.before[b].parent]

\* When nothing is left to process, exactly the branches that were agreed on
\* are gone, every other tracked branch is on its nearest ancestor that stays,
\* with the parent revision it had, and the branches that moved are those to
\* be restacked.
CleanedAsDecided ==
  Cleans /\ clean.toProcess = <<>> /\ clean.unblocked = <<>> =>
    /\ clean.marked = <<>>
    /\ \A b \in clean.doomed : refs[b] = NoCommit /\ meta[b] = NoMeta
    /\ \A b \in Branches \ clean.doomed :
         clean.before[b].result = "VALID" =>
           /\ meta[b] = [parent |-> NearestKept(b), rev |-> clean.before[b].prev]
           /\ refs[b] = clean.before[b].rev
           /\ b \in ToSet(clean.moved) <=> clean.before[b].parent \in clean.doomed

\* The patches that the remote has on b and not below it.
RemoteParent(b) ==
  LET i == CHOOSE j \in DOMAIN remote.downstack : remote.downstack[j] = b
  IN  IF i = 1 THEN Trunk ELSE remote.downstack[i-1]
RemoteOwn(b) ==
  IF b \notin ToSet(remote.downstack) \/ remote.refs[b] = NoCommit THEN {}
  ELSE ToSet(remote.refs[b]) \ ToSet(remote.refs[RemoteParent(b)])

\* A branch that get has dealt with is on the branch below it in the fetched
\* downstack, has everything the remote has on it and the user wrote on it
\* unless he overwrote it, and counts nothing as its
\* own that the remote has below it, also when a conflict interrupted the get
\* and `fp continue` went on with the rest.  (A get goes on when trunk could not
\* be fast-forwarded, and then the commits of the remote's trunk are counted.)
SyncedFromRemote ==
  process # "none" /\ rebased = Nothing /\ get # NoSync => \A b \in get.synced :
    /\ cache[b].result = "VALID"
    /\ meta[b].parent = RemoteParent(b)
    /\ IsAncestor(meta[b].rev, refs[b])
    /\ own[b] \cup RemoteOwn(b) \subseteq ToSet(refs[b])
    /\ ~PullConflicts(Session) =>
         ToSet(CommitRange(meta[b].rev, refs[b]))
           \cap ToSet(remote.refs[RemoteParent(b)]) = {}

\* What `fp repo sync` and `fp downstack get` leave behind is what was asked of them.
SyncedAsAsked == CleanedAsDecided /\ SyncedFromRemote

=============================================================================
