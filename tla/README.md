# freephite: a verification development

freephite (`fp`) keeps *stacks* of git branches: a branch knows its parent
branch, and when the parent changes the branch is rebased onto it ("restacked").
GTI is its graphical companion: a window in a browser, or in VS Code, talks to a
local server that runs `fp` commands. This directory holds TLA+ modules that
model the parts of both in which state and order matter, the TLC configurations
that check them on small instances, and proofs, checked by TLAPS, of theorems
about them for all instances.

Paths such as `engine.ts:705` are relative to the source tree: the CLI lives in
`src/apps/cli/src`, the server of GTI in `src/apps/gti-server`, its client in
`src/apps/gti-client`, the extension in `src/apps/vscode`. `PROJECT.json` maps
every definition to the lines it models, and lists the runs, the hazards, the
findings and, for each property, a mutation of the model that breaks it.

    tlc -config MCStack.cfg MCSync.tla             # the runs of section 4
    tlc -config MCOperationQueue.cfg OperationQueue.tla
    tlapm RepositoryProofs.tla                     # the proofs of section 5

## 1. Inventory of the system

### The CLI

* **Loading** (`parse_branches_and_meta.ts`, `metadata_ref.ts`,
  `cache_loader.ts`). *State on disk*: `refs/heads/*`, and one JSON blob per
  tracked branch in `refs/branch-metadata/*` with the parent's name and its
  revision at the last restack. *Operation*: every process parses them into a
  cache of entries with a validation result each, and repairs parent revisions
  on the way. *Hard*: children come before parents; the only guard against
  cyclic metadata is an iteration budget; loading writes. *Correct when* exactly
  cyclic metadata are rejected and a branch is valid only on a valid downstack.
* **Engine** (`engine.ts`). *State*: the cache and the current branch.
  *Operations*: change a parent, create, rename, fold, delete, unbranch, track,
  untrack, commit, squash, restack, continue, split, reset, fetch, pull; each
  writes git refs, metadata and cache in some order. *Hard*: lists of children
  that are spliced while they are iterated, exceptions half-way, a cache that
  must be what the next process would parse. *Correct when* the parents form a
  forest, nothing valid dangles, and no commit is lost or taken over.
* **Restack and continue** (`actions/restack.ts`, `continue.ts`,
  `persist_continuation.ts`). *State*: the branches left, the continuation file,
  git's own rebase. *Hard*: a conflict ends the process in the middle; the user
  may continue, abort, run something else or kill it. *Correct when* the
  continuation is about the rebase in progress and a restack ends.
* **Sync and get** (`actions/sync/*`, `is_merged.ts`, `delete_branch.ts`).
  Deletes merged branches while it moves their children, downloads a stack, and
  shares the continuation. *Hard*: a greedy deletion over a changing tree; the
  patches of a branch looked for in trunk; a conflict with branches still to
  sync. *Correct when* exactly what was agreed on is deleted, only landed work
  is, and what was fetched holds what the remote and the user wrote.
* **Split and edit** (`split.ts`, `edit_branch.ts`, `edit_downstack.ts`).
* **Submit** (`actions/submit/*`, `submit_prs.ts`, `pr_info.ts`). *State*: the
  remote's branches, GitHub's pull requests, what the metadata say of them.
  *Hard*: others push and merge meanwhile; it stops after any push. *Correct
  when* pull requests stack as the branches do and none is forgotten.
* **Configuration files and background tasks** (`lib/spiffy`,
  `background_tasks`). Whole files are read, changed and written by processes
  that overlap. *Correct when* a repository stays set up and commands that do
  not overlap keep each other's settings.
* **Log, prompts, wrappers** (`log.ts`, `commands`). The picture of a stack.
* **Runner and context** (`runner.ts`, `context.ts`, `cache_lock.ts`, whose lock
  no command takes).

### GTI

* **Operation queue** (`OperationQueue.ts`, `Repository.ts`,
  `ServerToClientAPI.ts`, `serverAPIState.ts`). One per repository, shared by its
  windows. *Hard*: two windows, a process that ends, fails or is killed at any
  time, `exit` before the promise settles, messages that cross. *Correct when*
  operations are served in order, none after a failure, an abort hits only the
  operation it names, and windows show the real queue.
* **Repository cache** (`RepositoryCache.ts`). A Map from roots to reference
  counted Repositories, and per window a state and the messages that wait.
  *Hard*: the root is found by processes that take their time while windows
  connect, change directory and leave. *Correct when* counts are exact, a root
  has one Repository, and requests reach the one they were meant for.
* **Fetching and previews** (`Repository.ts`, `previews.ts`, `operations/`).
  Data is fetched one fetch at a time; windows show it with the expected effects
  of their operations on top. *Correct when* what is shown never goes back, and
  is in the end what is there.
* **Change watching** (`WatchForChanges.ts`, `watchman.ts`,
  `PageFocusTracker.ts`). *Correct when* files are asked for in time and a lost
  watch recovers.
* **Proxy** (`proxy/*`). Starts, re-uses or kills the server of a port, and
  records it in a file. *Correct when* the file names the server that listens,
  invocations end, and unused servers go.
* **Message bus** (`MessageBus.ts`, `ClientToServerAPI.ts`). Reconnects, sends
  what was queued, subscribes again. *Correct when* a message is lost only with
  its connection, none is handled twice, and windows catch up.
* **Views**: the comparison of files and the history of a file (`ComparisonView`,
  `SplitDiffView`, `linelog.ts`), the form for commit messages
  (`CommitInfoView`), the tree of branches with selection, keys and dragging
  (`CommitTreeList.tsx`, `selection.ts`), merge conflicts, the diffs of VS Code
  (`DiffContentProvider.ts`).

`PROJECT.json` gives the status of each component and, under `hazards`, the
places where this code is hard to test with the properties that guard them.

## 2. The modules

| Module | What it is |
|---|---|
| `History` | Commits as git shows them: a commit is the sequence of patches since the root, an ancestor is a prefix, a rebase replays what is not there yet. External: the git executable. |
| `BranchMeta` | What is on disk and in the cache, and a closed definition of what a load must produce. |
| `ParseBranches` | `parseBranchesAndMeta` as it runs: work list, budget, cache under construction, metadata rewritten. |
| `StackOps` | The operations of the engine, as functions on a session `[refs, meta, head, rebase, cache, current, failed]`. |
| `Engine` | Processes that run them one after the other: restack step by step, conflicts, crashes, continues; and the user's own git commands. Extends `StackOps`. |
| `StackEdits` | Split, branch edit, downstack edit, downstack track, moves along the stack. Extends `Engine`. |
| `Sync` | Sync and get, with the remote. Extends `StackEdits`; states the fairness of the commands. |
| `EngineProperties` | What must hold of the engine. |
| `MergedBranches` | How a branch is found to be merged: patches compared with trunk, trees, pull request state. |
| `Submit` | A submit from validation to comments, with GitHub and others at work. |
| `ConfigFiles` | The JSON files and the background tasks. |
| `StackLog` | The picture `fp log` draws. |
| `SerialExecutor` | Abstract: a line served in order and emptied by a failure. |
| `OperationQueue` | The queue, its process, its windows and the channels between; implements `SerialExecutor`. |
| `RepositoryCache`, `ServerToClientAPI` | The cache as functions on a record; the windows over it, task by task. |
| `FetchedData` | Fetches, what they read and when, messages, previews that come and go. |
| `Watchman`, `WatchForChanges` | The connection to watchman; focus, timers and polls over it. |
| `ServerProcess` | Proxies and servers as processes, the state file, the port. |
| `MessageBus` | The window's socket, the network, the server's end and its subscriptions. |
| `Previews`, `TreePreviews`, `FilePreviews` | Optimistic state in general; its two instances, the tree of branches and the uncommitted changes. |
| `LineLog` | The history of the lines of a file as a program. |
| `Patch`, `ComparisonView` | The parser of patches and the rows of a diff; the view that asks for patches and lines. |
| `CommitForm`, `CommitTree`, `MergeConflicts` | The form, the tree with its selection, the list of conflicts. |
| `DiffContent` | The documents VS Code shows for a diff. Extends `RepositoryCache`. |
| `CommandProofs`, `OperationQueueProofs`, `RepositoryProofs`, `DataProofs`, `WatchProofs`, `ServerProcessProofs`, `ClientProofs`, `EngineProofs` | The theorems (section 5). |
| `MCCommand`, `MCEngine`, `MCSync`, `MCClient`, `MCViews` | Instances for TLC. `MCCommand`, `MCClient` and `MCViews` check several components that share no state in one run: an initial state picks the part, and every property is about its part. |

`Engine` composes with loading through `BranchMeta`: a process starts with the
cache of the closed definition, and `MatchesDefinition` says that the work list
of `ParseBranches` computes exactly that, so `Engine` need not interleave it.

## 3. How state and actions correspond to the code

* **Absent values.** `undefined` is `NoBranch`, `NoCommit`, `NoMeta`, `None`, ...,
  so that maps are total functions.
* **Commits.** Only ancestry, merge bases and which patches there are matter to
  the engine. A conflict resolved in favour of the replayed commit gives what a
  restack without conflict gives; `own` is a history variable with the patches
  the user wrote on a branch. In `MergedBranches` a commit is a tree.
* **Operations of the engine.** One operator of `StackOps` per method, with every
  call it makes: `UpdateMeta` has the removal from the old parent's children, the
  push to the new one's, the write to disk and the revalidation of the upstack.
  An exception is `failed`, and what was written before stays. A `forEach` over a
  list that its body splices visits every other element: `EveryOther`.
* **Commands.** One action per command: load, check, run, queue the restack.
  Prompts are arbitrary choices among what they offer.
* **Restacking.** Each branch is a step: it needs no rebase, or is rebased and
  then, in a second step, recorded (a crash may come in between), or stops in a
  conflict that persists the continuation, or throws. Get and split are cut into
  steps in the same way; the other operations are one step each.
* **JavaScript.** One task at a time: an action is what runs between two awaits,
  and `then` callbacks run before the next task (`Deliver` in
  `ServerToClientAPI`). `serializeAsyncCall` lets one call wait for the one that
  runs. Node emits `exit` before execa's promise settles, so `Exit` and
  `Succeed` or `Fail` are two steps of `OperationQueue`, and `ProcessExits` and
  `OperationResolves` or `OperationRejects` of `FetchedData`: what is asked for in
  between is queued by the server and, after a failure, dropped, while a window that
  has heard of the exit shows it as started. A process that cannot be spawned has no
  `exit` event (`SpawnFails`).
* **References.** `ServerProcess` counts the references that
  `numberOfActiveServers` adds up, apart from the windows that are open: a window
  takes one when its Repository is found and gives it back when it closes or moves
  to another directory. One that closes while it loads with a `changeCwd` in its
  queue leaves a reference behind (`"leaked"`). `ServerToClientAPI` has the messages
  and Repositories themselves.
* **The window's operations.** `FetchedData` has `operationList` and
  `queuedOperations` as the window changes them on its own and on each message,
  and the queue of the server they are told of. `stranded` is a history variable:
  the operations whose end the window will never hear.
* **Channels.** A FIFO per window and direction. In `MessageBus` a lost
  connection may still deliver what is on its way, or not.
* **Time.** Ticks, and intervals of which only the order is assumed
  (`IntervalsAssumption`).
* **Users.** `patient` windows of `ServerToClientAPI` wait until a directory is
  loaded before they choose another; `steady` scenarios of `Previews` leave out
  the operations whose previews decide by more than the tree they are given;
  `reliable` in `ServerProcess`, `undisturbed` in `Submit` and `LeavesStacksToFp`
  in `EngineProperties` are history of what has been done to the system. Section
  7 says what happens otherwise.
* **Abstractions.** No merge commits. The persisted cache is used only when a
  hash of its inputs matches, and is no state of its own. One `fp` engine command
  at a time. Titles, texts and colours are left out unless a property is about
  them. In `OperationQueue` connections stay open; `MessageBus` has the rest.

## 4. Runs

Every action of every specification fires in some passing run, and for every
property a plausible bug of the code (`mutants` in `PROJECT.json`; the altered
definitions stand next to the originals) makes TLC report it in the same run.

| Run | Instance | Shows |
|---|---|---|
| `command` (`MCCommand`) | *Load*: trunk and three branches, every parent relation incl. self, missing and cyclic, and chains with every mix of diverging revisions, in every order. *Files*: two commands and their tasks, overlapping or not, killed or not, a minute, three releases. *Log*: every tree of four branches, in every form. *Submit*: a stack of two, six sets of options, two submits, two changes by others. *Merged*: a branch of up to four commits on two files, three on trunk | `VerdictsAreRight`: the budget rejects exactly the cycles, and valid branches are rooted. `MatchesDefinition`: the loop computes the closed definition. `LoadsEnd`. `FilesAreKept`, `PictureShowsTheTree`, `SubmittedAsStacked`, `PushedFromTheBottom`, `WorkGoesWhenLanded` |
| `stack` (`MCSync`) | chains of three, fans, stacks of two, one beside; trunk that moves; four remotes that merged, rewrote, extended or reordered; each scenario with its commands and its interruptions | `NoCycleOnDisk`, `PatchesStayInPlace`, `ContinuationMatchesRebase`, `NoDanglingParent`, `WritesThrough`, `ReloadAgrees`, `SyncedAsAsked`; `AlwaysRestackedAgain` in the scenarios called live |
| `queue` (`OperationQueue`) | two windows, three operations, one abort | `ServesInOrder` (refinement), `OnlyTheNamedIsAborted`, `ShownQueueIsReal`, `EveryOperationEnds` |
| `bus` (`MessageBus`) | one effect, three sockets, two posts, two versions | `DeliveredOrLostTogether`, `WindowCatchesUp` |
| `server` (`ServerProcess`) | three invocations of two versions; two, of one version, that open windows, on one server or on two, in one of which other directories are chosen | `FileNamesTheServer`, `EveryRunEnds`, `UnusedServerGoes` |
| `watch` (`WatchForChanges`) | two windows, one failure of a command, five different intervals | `FilesAreAskedForInTime`, `EverythingIsPolledAgain`, `WatchRecovers` |
| `data` (`FetchedData`) | two operations, one of which is detected in the data; one trouble: a fetch that fails or is ignored, an edit by others, a command that is killed; commands that fail or cannot be spawned at will | `DataNeverGoesBack`, `ShowsTheRepository` |
| `client` (`MCClient`) | *Server*: two windows, nested roots, three references, two waiting messages. *Log*: up to three revisions of up to two lines, four edits. *Tree*: four branches, two or three operations. *Files*: two files in every state git knows, two operations | `RepositoriesAreShared`, `HandledWithTheNewRepository`; `CheckedOutAsRecorded`, `FlattenedAsCheckedOut`; `PreviewsComeTrue` |
| `views` (`MCViews`) | scripts of up to four lines and several worlds; a form over three branches, from the upper one with changed files, for two turns; trees of four; two conflicts, symmetric; two folders of one repository | `ViewShowsBothFiles`, `ShownIsSent`, `ShownTreeIsTheRealOne` (the keys follow the screen, what is lit is submitted, and the button for an entire stack leaves no row of it dark), `ShownAsItIs`, `ShownOnceFound` |

| Violation run | What the source says | What happens |
|---|---|---|
| `delete_fan` | "`gt branch delete` now restacks the deleted branch's children onto its parent" (`src/apps/cli/.CHANGELOG.md:313`) | The list of children is spliced while it is iterated: every second child keeps the deleted parent and is untracked after the next load. Rename and fold iterate in the same way |
| `kept_pulls` | "Create new PRs for the branch" (`validate_branches.ts:72`), of the branches whose pull requests are merged or closed | `clearPrInfo` is called for every branch of the submit: open pull requests are forgotten |
| `diff_head` | "making a new commit changes the comparison" (`DiffContentProvider.ts:76`) | `subscribeToHeadCommit` compares names of branches: a commit keeps the name, and the documents keep the old content |

**Why the bounds are enough.** A chain of three is the smallest stack with a
grandchild (validity and restacking go two levels up), a fan the smallest with
siblings, and a fourth name serves a new branch. Three seed patches and one or
two fresh ones allow an amend in the middle and a second change before the
restack. Three operations are one that runs, one that waits and one that
arrives; two windows suffice for "the other one"; three sockets are a first one,
a lost one and one that stays. Three references are two windows on one root, one
of which moves on. Every bound is a CONSTANT or part of a scenario, and none is
assumed by a theorem. Patches are taken in order, users may stop, and submits
end: that is why most runs do not check deadlock; `data` and `watch` do. Of `data`,
`ShowsTheRepository` also held with three operations, no trouble and one message on
its way at a time (3.9 million states), where a third operation can come before one
that the window already shows as started; that instance takes longer than a run of
this project may.

**Exceptions that the properties state.** `UnusedServerGoes` excepts a server with a
reference that has leaked: it never goes. `ShowsTheRepository` lets operations stay
on the screen whose end the window is never told: one that could not be spawned, and
one asked for between an exit and the settling of its promise, if the promise is
rejected or another operation came first in the queue. `ViewShowsBothFiles` excepts a
renamed file with an expanded separator. Each is necessary: without it TLC finds the property
violated (section 7 names the lines).

**Scenarios and what they leave out.** In `stack` the `features` of a scenario
list what may happen in it. Where branches with siblings are removed, where
commands run during a rebase, and where the user commits to tracked branches
with git, the code does something else than its documentation says; those cases
are in the violation runs or in section 7, and the guards of the properties
(`LeavesStacksToFp` and the lists of features) name them.

### Fairness

* `ParseBranches`: weak fairness of the loop, which is synchronous code.
* `Sync`, in scenarios called live: weak fairness of a process that runs, strong
  fairness of `fp continue`: a user in a conflict resolves it in the end, however
  often git stops again. Nothing is assumed about commands, git and crashes.
* `OperationQueue`: weak fairness of the receipt of messages, per window, and of
  the end of a process. The code has no timeout for operations.
* `MessageBus`: connections open, close or are refused; the timer of a
  reconnection fires; what has arrived is handled. Not that connections last.
* `ServerProcess`: proxies and timers run. Nobody has to open, move or close a
  window, and `getRepoInfo` need not return.
* `WatchForChanges`: watchman answers, timers fire, time passes.
* `FetchedData`: commands act and end, their promises settle, fetches do not fail
  for ever (strong fairness of success), messages arrive, the window renders, fetches are asked for, which is
  what `EverythingIsPolledAgain` shows of `WatchForChanges`.
* The others state safety only.

## 5. Proofs

Each theorem holds for every value of the constants, under the named
assumptions of the modules (finitely many branches; bounds that are numbers;
intervals in the order of the code's). TLC checked every invariant on the run of
its module before it was proved.

**`CommandProofs`** on loading (any finite set of branches, any metadata, any order).
`VerdictsHold` states `VerdictsAreRight`. That acyclic metadata is never rejected
(`BudgetSuffices`) needs `BudgetInv`: with n branches waiting and k at the head
known not to be ready, at least n(n+1)/2 − k iterations are left, and some branch
further on is ready (`SomeBranchIsReady`). `CyclesAreDetected`: no branch of a
set closed under "parent of" is ever parsed. `ValidBranchesAreRooted`: a valid
branch sits on a branch parsed before it that is valid or trunk. `LoadIsAsDefined` states
`MatchesDefinition`: what has been parsed is what the closed definition says, and
what has not is untouched (`KnownInv`). The rooted branches are defined by rounds
that each add the branches standing on rooted ones; `RootedIsClosed` shows that
after as many rounds as there are branches one more adds none, so that a branch is
rooted exactly if its parent is and a revision is found, which is what the loop asks
of the parent's entry (`ParentIsKnown`). This is what lets `Engine` start a process
with the closed definition instead of the loop.

**`CommandProofs`** on the files of settings (any commands, values, minutes, releases
and scenarios). `FilesStayAsMeant` states `FilesAreKept`. `SettingsInv` strengthens it
in four parts: types; `MessageInv`, that a message names a version that was released
and is newer than the one that shows it, in the file and in whatever copy will be
written; `WritersInv`, that who fills a file has opened it, and that no copy of the
settings of the repository that is still to be written lacks a trunk once there is
one, which is what holds while commands overlap and are killed; and `InStepInv`, as
long as no two commands have overlapped: at most one runs, the files are as the
commands meant them, and the copy of the one that runs is no older than its file.
A task writes its copy after the command that started it has ended, but another file.

**`CommandProofs`** on merged branches (any files, contents and numbers of commits).
`WorkGoes` states `WorkGoesWhenLanded`. `MergedInv` says that there are commits up to
which the branch has landed (`Landings`): the patch between two of them that follow
one another is in the trunk, and every other commit of the trunk changes a file that
somebody else touched. `FoundIsInTrunk`: whatever the reduction of `isMerged` has
found is in the trunk file by file, because a patch that is found there gives each of
its files the content of the tip, and the others have the content of the base.
`FoundIsLastLanding`: at each commit the reduction stands at the last landing up to
there; between two landings it finds nothing, since the patch it would need was
neither pushed by others (`ChangedBetween`) nor landed before or after
(`NotTheSamePatch`, `LongerPatch`). The reduction is a recursive function, unrolled to
the length of the branch (`ScanExists`).

The proof showed that the property had been stated too strongly. It used to ask only
that no commit of the branch has the tree of an earlier one, which is enough for
branches of two commits. When a change of a file is made, taken back, made again and
followed by another one, the first two land one by one and the last two as one, the
reduction takes the third commit for the first and does not find the fourth: TLC shows
it on branches of four commits of two files with three contents. `NeverGoesBack` now
speaks of each file by itself.

**`EngineProofs`** (any branches, commits and remotes; scenarios whose
repositories are typed, `ScenariosAreRepositories`, and do not start with a circle,
`ScenariosAreGrounded`; downstacks that name a branch once, `DownstacksAreLists`).
* `GoesOnWithWhatIsWritten` (`WritesThrough`), from `WriteInv`: the disk is
  well-formed, and the session of a running process agrees with it in every branch
  but the one that git has just rebased. A session is a record that the operations
  of `StackOps` transform; each has a lemma that it keeps `Written(s)` whatever the
  session (`...IsWritten`), or throws half-way with what it has recorded written
  (`Done(s)`). Operations over several branches (adopting children, splitting,
  reordering, tracking) are recursive functions, unrolled to the number of branches,
  with one lemma for a round and a least counterexample for all of them. The
  children in the cache play no part: nothing is assumed of their order, or that they
  are a forest, so it holds after the defects of `delete_fan` too.
* `ContinuesOnTheBaseOfTheRebase` (`ContinuesOnItsBase`, half of
  `ContinuationMatchesRebase`), from `RebaseInv`: while the user leaves the
  stacks to fp, every rebase that stops goes onto the revision that is persisted as
  `rebasedBranchBase`. It needs `WriteInv`: git rebases onto the ref of the parent,
  and the engine persists the revision of the parent that it has cached.
* `NoCycleArises` (`NoCycleOnDisk`), from `GroundInv`, `WriteInv` and `RebaseInv`.
  `Grounded(meta)`, that every way down the stored parents ends, is not inductive:
  that a branch may be put on another depends on what the process believes of
  them. The argument is about *whole* sets, which contain the parents of their
  members: a branch outside a whole set can be put on a member of it, and no
  circle comes into being (`AttachKeeps`). Each operation has its whole set, which
  it keeps (`Kept(s, G)`) while it moves one branch after the other onto it: what is
  valid, for a branch that is tracked or created; what is below a branch, for
  create, insert and split; what is not above it (`Off`), for `setParent`, fold,
  delete and the cleaning of merged branches. That `validateNewParent`, which
  follows the lists of children in the cache, refuses every parent above the branch
  (`NotAbove`) rests on a level for each branch that is rooted, taken from the rounds
  of the load (`Levelled`): a valid branch is in the list of its parent; where the
  lists have changed since the load it is enough that they hold no branch of
  another parent (`Cleanable`). And what has been put in order so far, for a reordering and for the
  branches of a get (`Open`). A rename replaces the name everywhere, or, where a
  list is spliced while it is iterated, loosens: it leaves a parent that no longer
  exists. `InOrder` says of each kind of process what it has left to do.

  The attempt to prove it without `SyncsUndisturbed` failed for a good reason.
  `fp downstack get` persists the branches it has still to put on one another when
  it stops in a conflict. A user who meanwhile tracks the first of them onto the last
  has `fp continue` close a circle, which TLC confirms with three branches left
  to sync. Today `getDownstackDependencies` names one branch, so that nothing
  is left to sync and this cannot happen; the property carries the condition, and
  the code would need a check once the list is longer.

**`OperationQueueProofs`** (any windows, operations, aborts).
* `OneAtATime`, `QueuedOnce` and `QueueServesInOrder`, the refinement of
  `SerialExecutor` (`ServesInOrder`). `OrderInv` follows an operation on its way:
  in one channel, once (`AskedOnce`); received once (`ReceivedOnce`); waiting
  exactly when queued, in the order of arrival (`QueueInOrder`); running before
  all that wait (`OneRuns`). `StepRefines` maps each action to a step of the
  executor or to a stutter.
* `NoOperationAfterAFailure`, from `OrderInv`; `NoOtherIsAborted`
  (`OnlyTheNamedIsAborted`), from `AbortInv`: a request on its way names an
  operation the user cancelled.
* `ShownQueuesAreReal` (`ShownQueueIsReal`). The property speaks of moments
  without messages, and says nothing while there are some. `ShownInv`
  strengthens it: the last message on its way that tells of the queue tells the
  truth, and without one what is shown is true, unless the answer to a request is
  still to come or an error is about to be reported. It needs `ChannelInv` (no
  message lists an operation that the server has not got, nor one whose end was
  reported before it, so that a window may forget operations at their exit) and
  `KnownInv` (a window does not know what another one has asked for). The
  lemmas `NewWord`, `NoNewWord`, `WordStays` and `WordReceived` are about any
  channel; what a window knows of a list (`KnownAmong`) is a recursive function,
  whose lemmas are proved by a least counterexample.

**`RepositoryProofs`** (any windows, directories, roots, references).
* `RepositoriesStayShared` (`RepositoriesAreShared`), from `RepositoriesInv`:
  counts are exact (`CountsAreExact`, over cardinalities of sets of references),
  every Repository not disposed is found in the Map under its root
  (`LiveAreFound`), so that the lookup after the await cannot miss one
  (`OneOfARoot`), and windows hold references of their own. The operations of
  the cache are proved to keep it for any record (`ServerInv(s)`), and the tasks
  of the windows are composed of them; a task that handles a queue of messages
  folds over it, once more by a least counterexample (`HandlingExists`).
* `RequestsReachTheirRepository` (`HandledWithTheNewRepository`), from
  `PatientInv`: as long as everybody waits, the messages of a window are requests
  for the directory it waits for, and only its last reference is pending.

**`DataProofs`** has two parts, about what is shown of a repository that changes.

*`FetchedData`* (any operations and edits). `DataIsNeverTakenBack`
(`DataNeverGoesBack`) from `GrowthInv`: one fetch runs at a time, and contents
grow along window, messages in their order, stored result, running fetch,
repository. Of the queue and its process only this matters: that the messages about
operations carry no data (`QueueGrowth`, `ProcessExitsGrowth`,
`OperationEndsGrowth`).

*`DiffContent`* (any folders, repositories, documents, branches and sizes that
keep `DiffAssumption`). `ForgetsNoDocument` (`ShownOnceFound`) from `DiffInv`: an
open document that shows nothing has been told as changed (`told`), is waited for
in the queue of a Repository (`IsAwaited`), or is under "unknown" while no
Repository is found for it (`IsRemembered`). The cache of Repositories enters by
one fact about its operations: a step of it creates a Repository, which is
announced, or finds no more than before (`Follows`, `LessIsFound`); so a document
that has no Repository is told or stays without one. That the answers of the LRU
and of `cat` are contents (`LruIs`, `RelativeCatIs`) rests on no branch ever being
empty, amended or not, and on the commits having a last one.

**`WatchProofs`** (any intervals in the order of the code's). `FilesAreRecent`
(`FilesAreAskedForInTime`) from `TimingInv`: the files are no older than
lastFetch, and lastFetch plus what is left on the timer never exceeds the
longest interval.

**`ServerProcessProofs`** (any invocations). `ListeningServerIsNamed`
(`FileNamesTheServer`): until an invocation has written the file nobody knows the
tokens of its server, so that nobody kills it or opens a window on it (`Unknown`),
it holds the port, and no other server can start (`OneRunning`). What windows do to
the references and timers of a server leaves its state and its place alone
(`ListeningMoves`, `WindowStateMoves`).

**`ClientProofs`** has three parts, about a window of GTI.

*`MessageBus`* (any finite set of effects, any numbers of sockets, posts
and versions). `NoneIsLostOnItsOwn` (`DeliveredOrLostTogether`) from `BusInv`.
`ConnectionInv`: only the last socket is in use, messages wait in the window
only while the bus is not open, nothing is sent on a socket before it is, and
the server's end keeps messages waiting only while it loads. `OrderInv`: the
messages that wait have not been sent; those sent on a socket are handled or on
its line (the server's queue, then the network), and the history followed by
the line has them in the order of posting, which is what a message taken off one
end and added to the other leaves true (`TakenOff`). `PlaceInv` says where a posted
message is. The steps fall into four kinds with a lemma each: sending
(`SendKeepsOrder`), waiting (`WaitKeeps`), handling (`HandleKeeps`) and the quiet
ones (`QuietKeeps`), which may only drop the server's part of a line that does
not go on. `EffectsAreNames` keeps subscriptions apart from the users' messages.

*`CommitForm`* (any branches, titles and pull requests that keep
`FormAssumption`: the trunk is a branch, and the empty title, `"head"` and the
placeholder of a new branch are names of none). `FormShowsWhatItSends`
(`ShownIsSent`) from `FormInv`. The property alone is not inductive: what a button
sends depends on the branch its callback saw when it was mounted (`BarOk`: that
of a new branch saw the trunk), on the messages looked up under earlier
selections (`MessagesOk`: only the branch that is being created has a placeholder
that cannot be edited), and on the preview of the operation that runs (`OpOk`). The
two ways of drawing have a lemma each: the component is drawn again with the
branch and mode it had, or is mounted anew. With more branches and titles than the
run has, TLC refuted an earlier form of `ShownIsSent`: the title typed for a new
branch may be the name of another, over which the preview is drawn
(`CommitOperation.ts:56`) until the command fails; `doubtful` now names it.

*`MergeConflicts`* (any files, any bounds). `ConflictsShownAsTheyAre`
(`ShownAsItIs`) from `ConflictInv`, which follows the conflicts on their way. In
the server, a check that will not be made again began after the last operation had
ended (`CheckOk`), and what a fresh one has found is so (`FreshOk`). On the way,
the last of the messages carries what the server knows (`IsTold`) and the queue it
has (`WaitsFor`); both are lemmas about appending a message and taking the first
one off. In the window, an entry that has ended is numbered no later than the
last check (`NumbersOk`), so that the one that arrives marks it (`AllMarked`), and
nothing is left to preview. TLC checked `ConflictInv` on 24 million states of a
larger instance before it was proved.

### Only model-checked

* Liveness (`LoadsEnd`, `EveryOperationEnds`, `WindowCatchesUp`, `EveryRunEnds`,
  `UnusedServerGoes`, `EverythingIsPolledAgain`, `WatchRecovers`,
  `ShowsTheRepository`, `AlwaysRestackedAgain`): fairness and ENABLED are out of
  the prover's reach.
* The pictures of `StackLog`, `LineLog`, `Patch`, the previews, the comparison
  view and the tree: they compare what recursive definitions compute for their
  inputs, which takes an induction over data with an operator for a parameter. `SelectSeq`, which several of them use, is recursive in itself
  (`BranchMeta` and `StackOps` filter with `Among`, which the provers can expand).
* Of the engine: `PatchesStayInPlace`, `NoDanglingParent`,
  `ReloadAgrees`, `SyncedAsAsked` and the half of `ContinuationMatchesRebase`
  that no branch is restacked twice (`NotRestackedTwice`). They need more of the
  cache than `GroundInv` says: that its lists of children hold every child, once,
  and that its validity is the one a load would find.
* `SubmittedAsStacked` and `PushedFromTheBottom`: `Submit` filters sequences with
  `SelectSeq` and walks stacks with a recursive definition.

## 6. Not modelled, and the plan

Not modelled: the parsing of command lines, formatting, the texts of GitHub's
API, prompts but for their choices, analytics, layout and styles of components,
tooltips and modals; the webview panel of VS Code (`gtiWebviewPanel.ts`); the
summaries of code review; `ImageUpload.tsx`, the typeahead of `TextField` and
`debug_context.ts`, which nothing reaches. Two engine commands at once (no lock is
taken), and a kill inside rename, delete or fold, are hazards without a property.

Next: `NoDanglingParent` and `NotRestackedTwice`, which need the lists of children
to be complete as well as correct; `SubmittedAsStacked`, once the lists of `Submit`
are recursive functions.

## 7. Observed, without a run of its own

Met while modelling, at the lines named; a theorem or run that excludes such a
case says so in its guard.

**Loading, engine, restack.**
* `untrackBranch` (`engine.ts:502`) drops the result of `concat`: a grandchild
  stays valid in memory although "We have to fix validation state for any
  recursive children" (`engine.ts:489`). `revalidateChildren` (`engine.ts:379`)
  descends below a child that turned out bad and can make its children valid.
* `persist()` (`engine.ts:432`) compares the branches with themselves, because
  the loaded list and the cache are one object.
* A restack command during a stopped rebase takes git's refusal for a conflict
  and overwrites the continuation, although "Fixed a bug where continue state could
  be corrupted" (`.CHANGELOG.md:204`). Folding a branch forces the parent to it and
  loses what was committed to the parent since the last restack (`fold.ts:20`).
* `continue.ts:33` persists the continuation of a second conflict without
  `branchesToSync` (compare `continuation_spf.ts:6-10`); a conflict in
  `get.ts:195` persists those only; an abort keeps the continuation; a continue
  with an untracked current branch throws.
* After a crash or an abort nothing resumes the restack. If trunk moves while a
  rebase is stopped, the continue records the revision it started from.
* `git rebase -i` that stops at an `edit` exits with 0 and is taken for done; the
  switch throws and there is no continuation.

**Split, edit, sync, get, log.**
* A split leaves HEAD detached when killed; when the last new branch keeps the
  name, the children lose their entry in memory, and when no one keeps it every
  second child is skipped; an empty split deletes the branch.
* An interrupted `downstack edit` leaves branches in their new order, not
  restacked, and the next load absorbs commits of another branch into one.
* `get.ts:24` treats a pull conflict as fast-forwarded; a checked out branch is
  recorded with no children; a child that was not restacked at the remote is
  untracked at the next load.
* A branch whose commit goes back to an earlier content, landed as a squash, is
  never found merged, because the reduction is greedy (`is_merged.ts:17`). A
  MERGED pull request deletes local commits added after the merge.
* `fp log short --steps 1` with three children throws (`log.ts:176`); `--steps 0
  --stack` shows the whole downstack. New files of a later conflict are not
  listed (`ContinueMergeOperation.ts:13`).

**Submit.**
* `!info.draft` marks drafts ready on any update (`submit_prs.ts:189`); a crash
  between the POST and `upsertPrInfo` makes the create be refused for ever;
  "All PRs up to date" skips the comments of an interrupted submit;
  `--update-only` pushes a child on a parent that was not pushed; circular bases
  make `findRouteToTrunk` recurse without end; `syncPrInfo` uses another token
  than the requests; `--select` is not ignored as documented.
* Comment 3 of `validate_branches.ts:86-89` is not checked by any code.

**Configuration files.** A write killed midway leaves "Malformed data at";
overlapping commands lose each other's settings; `removeIfInvalid` is set from
`removeIfEmpty`; a slow task's pull request information may be taken over after a
newer one; `fp user restack-date` without an option switches it off.

**Server of GTI.**
* A queued operation of one window reports to the window whose operation ran
  before it (a TODO at `OperationQueue.ts:102`). The poll "After any operation
  finishes" (`Repository.ts:430`) happens for a queued one when it is queued.
* "The currently running operation, or the most recently run"
  (`serverAPIState.ts:419`): one asked for between the exit of a failing one and
  its rejection is dropped (`OperationQueue.ts:117`) and stays on screen as running.
  One that cannot be spawned stays there, too: "Errors during spawn like ENOENT will
  still be reported by `exit`" (`Repository.ts:497`), but Node emits `error` for
  them and need not emit `exit`. `ShowsTheRepository` excepts both.
* A window that changes directory while its Repository is loading and is closed
  takes a reference that is never given back, although "make sure we don't create
  a dangling Repository" (`RepositoryCache.ts:130`): the changeCwd in its queue is
  handled by `setRepoError` (`ServerToClientAPI.ts:154`) after `dispose`. The sum of
  references is then never zero, and the server never exits
  (`proxy/server.ts:248`); `UnusedServerGoes` excepts it. A request queued behind a
  `changeCwd` is handled while the state is "loading", and ignored; the callback
  of a reference that was given back overwrites the newer state.
* `getOrCreate` looks a directory up by prefix (`RepositoryCache.ts:85`): one of
  a nested repository is given the outer one while that comes first.
  `numberOfActiveServers` counts neither pending references nor windows in an
  error: the check of `proxy/server.ts:248` may end the server under them.
* A stale state file is never deleted; retries handle a missing file only; the
  comment at `startServer.ts:499` is false for different versions; `--force`
  with a foreign server on the port ends silently.
* Reported file changes reset lastFetch, so that polling of commits and conflicts
  starves (`WatchForChanges.ts:161`); a failed setup after `setSubscription`
  leaves a watch that is healthy and that nobody listens to; `disposePage` is
  never called; losing health does not set the timer anew.

**Window of GTI.**
* The timer of `scheduleReconnect` ignores `disposed`; messages of an old
  connection that is half open may be handled after those of the new one.
* A failed fetch ends previews (`previews.ts:282`); a queued goto is completed at
  once (390); tests of hashes in Commit, Amend and Uncommit are fooled by ABA;
  `nextTreeMap` keeps the unprocessed node (371); a new branch named like the head
  recurses without end; file appliers decide by the fetched list only, and
  `new Set(path)` in revert is a set of characters; commit and amend show
  everything gone though only staged changes are committed.
* The bar of buttons keeps the branch it was mounted with: cancel never discards
  in amend mode, and a later Update sends the text; the form is prefilled with the
  last title after a commit.
* A shift-click adds only public branches between (`selection.ts:76`), contrary
  to `selection.ts:24`. During a rebase preview a branch has two rows, and arrow
  keys loop; "Submit stack" lights fewer rows than are submitted.
* "Take local version" leaves the file unresolved; after a successful continue
  the buttons stay disabled for a conflict that starts in a terminal; unmark shows
  RESOLVED and enables Continue; a reconnection is not told that a conflict has
  gone.
* The lines behind a separator of a renamed file are asked for with its new name
  (`ComparisonView.tsx:276`), which the older commit does not have: `cat` fails, the
  answer is empty (`ServerToClientAPI.ts:645`), and one blank line is shown.
  `ViewShowsBothFiles` excepts it.
* Answers of the comparison view are told apart by the type of the comparison
  only (`ComparisonView.tsx:86`), and lines of context go to the first who waits
  (132); names with spaces are split wrongly by the regular expression of `diff`;
  expanded separators survive a reload.
* `flatten` of `LineLog` is wrong after an earlier revision was amended.

**VS Code.** A cat in flight while the head changes stores stale content after the
cache was cleared; a failed cat is cached as empty; the URIs of a Repository that
is created again are not told; `openDiffView` of a committed comparison swaps
sides; `commands.ts:83` uses `ComparisonType` without importing it.
