--------------------------- MODULE ParseBranches ---------------------------
(***************************************************************************)
(* parseBranchesAndMeta (lib/engine/parse_branches_and_meta.ts): how the   *)
(* engine's cache is computed from the git refs and the metadata refs when *)
(* the persisted cache is stale.                                           *)
(*                                                                         *)
(* The branches wait in a work list.  A branch whose parent has not been   *)
(* parsed yet goes to the back of the list, so a budget of n(n+1)/2        *)
(* iterations is the only thing that stops the loop on cyclic metadata.    *)
(***************************************************************************)
EXTENDS BranchMeta

CONSTANT Disks   \* the [refs, meta] a load may find

ASSUME DisksType ==
  \A d \in Disks : d.refs \in Refs /\ d.meta \in Metas /\ d.refs[Trunk] # NoCommit

VARIABLES
  disk,            \* the refs and metadata when the load began
  meta,            \* refs/branch-metadata, which the load rewrites
  branchesToParse, \* the work list
  cycleDetector,   \* iterations left
  parsedBranches,  \* the cache under construction
  status           \* "start", "parsing", "done" or "cycle"

vars == <<disk, meta, branchesToParse, cycleDetector, parsedBranches, status>>

Present == {b \in Branches : disk.refs[b] # NoCommit}

Init ==
  /\ disk \in Disks
  /\ meta = disk.meta
  /\ branchesToParse = <<>>
  /\ cycleDetector = 0
  /\ parsedBranches = [b \in Branches |-> NoEntry]
  /\ status = "start"

----------------------------------------------------------------------------
\* Mutant of Budget: one iteration short.
BudgetShort(n) == (n * (n + 1)) \div 2 - 1

\* n(n+1)/2 iterations for n branches.
Budget(n) == (n * (n + 1)) \div 2

\* Every order of the existing branches: for-each-ref sorts by commit date,
\* which says nothing about parents and children.
Orders ==
  {s \in [1..Cardinality(Present) -> Present] :
     /\ \A i, j \in DOMAIN s : s[i] = s[j] => i = j
     /\ \A b \in Present : \E i \in DOMAIN s : s[i] = b}

\* getAllBranchesAndMeta
GetAllBranchesAndMeta ==
  /\ status = "start"
  /\ status' = "parsing"
  /\ branchesToParse' \in Orders
  /\ cycleDetector' = Budget(Cardinality(Present))
  /\ meta' = [b \in Branches |-> IF b \in Present THEN meta[b] ELSE NoMeta]
  /\ UNCHANGED <<disk, parsedBranches>>

----------------------------------------------------------------------------
\* Mutant of Iterate: the budget is never spent.
IterateForFree(b) ==
  /\ status = "parsing"
  /\ branchesToParse # <<>>
  /\ b = Head(branchesToParse)
  /\ cycleDetector > 0
  /\ UNCHANGED <<disk, status, cycleDetector>>

\* The head of the work list, and one iteration of the loop for it.
Iterate(b) ==
  /\ status = "parsing"
  /\ branchesToParse # <<>>
  /\ b = Head(branchesToParse)
  /\ cycleDetector > 0
  /\ cycleDetector' = cycleDetector - 1
  /\ UNCHANGED <<disk, status>>

\* parsedBranches with the entry e for b; the parent learns of the child.
WithEntry(b, e) ==
  [c \in Branches |->
    IF c = b THEN e
    ELSE IF c = e.parent
         THEN [parsedBranches[c] EXCEPT !.children = Append(@, b)]
    ELSE parsedBranches[c]]

EntryFor(b, result, parent, prev) ==
  [result |-> result, parent |-> parent, prev |-> prev,
   rev |-> disk.refs[b], children |-> <<>>]

Parse(b, result, parent, prev) ==
  /\ branchesToParse' = Tail(branchesToParse)
  /\ parsedBranches' = WithEntry(b, EntryFor(b, result, parent, prev))

ParseTrunk(b) ==
  /\ Iterate(b)
  /\ b = Trunk
  /\ Parse(b, "TRUNK", NoBranch, NoCommit)
  /\ UNCHANGED meta

ParseBadParentName(b) ==
  /\ Iterate(b)
  /\ b # Trunk
  /\ ~HasParentName(disk.refs, meta, b)
  /\ Parse(b, "BAD_PARENT_NAME", NoBranch, NoCommit)
  /\ UNCHANGED meta

IsParsed(b) == parsedBranches[b].result # "NONE"

\* Mutants of Postpone: the branch is forgotten, or the parent's list of
\* children is filled before the parent is known to be parsed.
PostponeForgets(b) ==
  /\ Iterate(b)
  /\ Follows(disk.refs, meta, b)
  /\ ~IsParsed(meta[b].parent)
  /\ branchesToParse' = Tail(branchesToParse)
  /\ UNCHANGED <<meta, parsedBranches>>

\* The parent has not been parsed: come back to this branch.
Postpone(b) ==
  /\ Iterate(b)
  /\ Follows(disk.refs, meta, b)
  /\ ~IsParsed(meta[b].parent)
  /\ branchesToParse' = Append(Tail(branchesToParse), b)
  /\ UNCHANGED <<meta, parsedBranches>>

\* Mutant of ParentIsValid: any parsed parent with a parent of its own will do.
ParentIsParsed(b) ==
  parsedBranches[meta[b].parent].result \in {"VALID", "TRUNK", "INVALID_PARENT",
                                             "BAD_PARENT_REVISION"}

ParentIsValid(b) == parsedBranches[meta[b].parent].result \in {"VALID", "TRUNK"}

ParseInvalidParent(b) ==
  /\ Iterate(b)
  /\ Follows(disk.refs, meta, b)
  /\ IsParsed(meta[b].parent)
  /\ ~ParentIsValid(b)
  /\ Parse(b, "INVALID_PARENT", meta[b].parent, meta[b].rev)
  /\ UNCHANGED meta

\* Mutant of NewRevision: a recorded revision is kept even when the parent
\* has moved on within the branch's history.
NewRevisionKept(b) ==
  IF meta[b].rev # NoCommit /\ IsAncestor(meta[b].rev, disk.refs[b]) THEN meta[b].rev
  ELSE ValidatedRevision(NoCommit, disk.refs[b], parsedBranches[meta[b].parent].rev)

\* validateOrFixParentBranchRevision on the parent's cached revision.
NewRevision(b) ==
  ValidatedRevision(meta[b].rev, disk.refs[b], parsedBranches[meta[b].parent].rev)

ParseValid(b) ==
  /\ Iterate(b)
  /\ Follows(disk.refs, meta, b)
  /\ IsParsed(meta[b].parent)
  /\ ParentIsValid(b)
  /\ NewRevision(b) # NoCommit
  /\ Parse(b, "VALID", meta[b].parent, NewRevision(b))
  /\ meta' = [meta EXCEPT ![b].rev = NewRevision(b)]

ParseBadParentRevision(b) ==
  /\ Iterate(b)
  /\ Follows(disk.refs, meta, b)
  /\ IsParsed(meta[b].parent)
  /\ ParentIsValid(b)
  /\ NewRevision(b) = NoCommit
  /\ Parse(b, "BAD_PARENT_REVISION", meta[b].parent, NoCommit)
  /\ UNCHANGED meta

\* while (branchesToParse.length > 0) ends.
Finish ==
  /\ status = "parsing"
  /\ branchesToParse = <<>>
  /\ status' = "done"
  /\ UNCHANGED <<disk, meta, branchesToParse, cycleDetector, parsedBranches>>

\* throw new PreconditionsFailedError('Cycle detected in Graphite metadata')
DetectCycle ==
  /\ status = "parsing"
  /\ branchesToParse # <<>>
  /\ cycleDetector <= 0
  /\ status' = "cycle"
  /\ UNCHANGED <<disk, meta, branchesToParse, cycleDetector, parsedBranches>>

Next ==
  \/ GetAllBranchesAndMeta
  \/ \E b \in Branches :
       \/ ParseTrunk(b)
       \/ ParseBadParentName(b)
       \/ Postpone(b)
       \/ ParseInvalidParent(b)
       \/ ParseValid(b)
       \/ ParseBadParentRevision(b)
  \/ Finish
  \/ DetectCycle

\* The loop is synchronous code: once started it runs on.
Spec     == Init /\ [][Next]_vars
FairSpec == Spec /\ WF_vars(Next)

----------------------------------------------------------------------------
(***************************************************************************)
(* Properties.                                                             *)
(***************************************************************************)
\* Types of the state.
TypeOK ==
  /\ disk \in Disks
  /\ meta \in Metas
  /\ branchesToParse \in Seq(Branches)
  /\ cycleDetector \in Nat
  /\ parsedBranches \in Caches
  /\ status \in {"start", "parsing", "done", "cycle"}

\* The budget n(n+1)/2 is large enough: metadata without a cycle is never
\* rejected, whatever the order of the branches (cycleDetector).
NoFalseCycle == ~IsCyclic(disk.refs, disk.meta) => status # "cycle"

\* The budget is also the only guard against cyclic metadata, and it works:
\* a load that succeeds found no cycle.
NoMissedCycle == status = "done" => ~IsCyclic(disk.refs, disk.meta)

\* A branch is VALID only on top of a branch parsed before it that is VALID
\* or trunk, from a parent revision in its own history which is also the one
\* on disk: what restack relies on when it rebases from that revision.
ValidIsRooted ==
  \A b \in Branches :
    LET e == parsedBranches[b]
    IN  e.result = "VALID" =>
          /\ e.parent \in Branches \ {b}
          /\ parsedBranches[e.parent].result \in {"VALID", "TRUNK"}
          /\ e.prev # NoCommit
          /\ IsAncestor(e.prev, e.rev)
          /\ meta[b] = [parent |-> e.parent, rev |-> e.prev]

\* What the loop concludes is right, whatever the order of the branches.
VerdictsAreRight == NoFalseCycle /\ NoMissedCycle /\ ValidIsRooted

\* The work list computes the same cache and the same metadata as the
\* definition of BranchMeta, up to the order of siblings: a branch has those
\* children that follow it.
MatchesDefinition ==
  status = "done" =>
    LET rooted == Rooted(disk.refs, disk.meta)
        followers(b) == {c \in Branches : Follows(disk.refs, disk.meta, c) /\ disk.meta[c].parent = b}
    IN  /\ \A b \in Branches :
             [parsedBranches[b] EXCEPT !.children = ToSet(@)]
               = [LoadedEntry(disk.refs, disk.meta, rooted, <<>>, b) EXCEPT !.children = followers(b)]
        /\ meta = LoadedMeta(disk.refs, disk.meta)

\* Every load ends, with a cache or with the cycle error.
EveryLoadEnds == <>(status \in {"done", "cycle"})
=============================================================================
