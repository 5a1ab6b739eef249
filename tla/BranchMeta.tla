---------------------------- MODULE BranchMeta -----------------------------
(***************************************************************************)
(* What freephite stores about a stack and what it concludes from it.      *)
(*                                                                         *)
(* On disk a branch has a git ref and, when it is tracked, a metadata ref  *)
(* refs/branch-metadata/<branch> with its parent's name and the parent's   *)
(* revision at the last restack (metadata_ref.ts).  In memory the engine   *)
(* keeps one cached entry per branch (cached_meta.ts), computed from the   *)
(* disk by parseBranchesAndMeta.  This module holds the data and the       *)
(* result that parsing must reach; ParseBranches has the algorithm.        *)
(***************************************************************************)
EXTENDS History, FiniteSets

CONSTANTS
  Branches,   \* every branch name
  Trunk,      \* the configured trunk
  NoBranch    \* the absent name, `undefined` in the code

ASSUME BranchNames ==
  /\ IsFiniteSet(Branches)
  /\ Trunk \in Branches
  /\ NoBranch \notin Branches

Revisions == Commits \cup {NoCommit}
Names     == Branches \cup {NoBranch}

\* refs/heads: NoCommit for a branch that does not exist.
Refs == [Branches -> Revisions]

\* refs/branch-metadata
Meta   == [parent : Names, rev : Revisions]
NoMeta == [parent |-> NoBranch, rev |-> NoCommit]
Metas  == [Branches -> Meta]

Results == {"NONE", "TRUNK", "VALID", "INVALID_PARENT", "BAD_PARENT_REVISION",
            "BAD_PARENT_NAME"}

\* A cached entry; "NONE" stands for a name that is not a key of the cache.
Entry   == [result : Results, parent : Names, prev : Revisions,
            rev : Revisions, children : Seq(Branches)]
NoEntry == [result |-> "NONE", parent |-> NoBranch, prev |-> NoCommit,
            rev |-> NoCommit, children |-> <<>>]
Caches  == [Branches -> Entry]

----------------------------------------------------------------------------
\* The members of seq that are in S, in their order: SelectSeq with a set for
\* its test, which the provers can expand.
Among(seq, S) ==
  LET taken[i \in 0..Len(seq)] ==
        IF i = 0 THEN <<>>
        ELSE IF seq[i] \in S THEN Append(taken[i-1], seq[i]) ELSE taken[i-1]
  IN  taken[Len(seq)]

\* The parent the metadata names is another branch that exists.
HasParentName(refs, meta, b) ==
  /\ meta[b].parent \notin {NoBranch, b}
  /\ refs[meta[b].parent] # NoCommit

\* validateOrFixParentBranchRevision: the parent revision a branch ends up
\* with, or NoCommit when neither the parent's current revision nor the
\* recorded one is in its history.
ValidatedRevision(prev, rev, parentRev) ==
  IF IsAncestor(parentRev, rev) THEN parentRev
  ELSE IF prev # NoCommit /\ IsAncestor(prev, rev) THEN prev
  ELSE NoCommit

\* A non-trunk branch with a parent name, whose parent is the next candidate.
Follows(refs, meta, b) ==
  /\ b # Trunk
  /\ refs[b] # NoCommit
  /\ HasParentName(refs, meta, b)

\* The metadata leads nowhere: some branches have only each other as parents.
IsCyclic(refs, meta) ==
  \E S \in (SUBSET Branches) \ {{}} :
    \A b \in S : Follows(refs, meta, b) /\ meta[b].parent \in S

----------------------------------------------------------------------------
(***************************************************************************)
(* The cache that a load must produce from acyclic metadata.               *)
(***************************************************************************)
RevisionFrom(refs, meta, b) ==
  ValidatedRevision(meta[b].rev, refs[b], refs[meta[b].parent])

\* The branches whose whole downstack is valid, trunk included.
Rooted(refs, meta) ==
  LET rooted[n \in 0..Cardinality(Branches)] ==
        IF n = 0 THEN {b \in {Trunk} : refs[b] # NoCommit}
        ELSE LET below == rooted[n-1]
             IN  below \cup {b \in Branches : /\ Follows(refs, meta, b)
                                              /\ meta[b].parent \in below
                                              /\ RevisionFrom(refs, meta, b) # NoCommit}
  IN  rooted[Cardinality(Branches)]

\* `rooted` is Rooted(refs, meta).
ResultOf(refs, meta, rooted, b) ==
  IF refs[b] = NoCommit THEN "NONE"
  ELSE IF b = Trunk THEN "TRUNK"
  ELSE IF ~HasParentName(refs, meta, b) THEN "BAD_PARENT_NAME"
  ELSE IF b \in rooted THEN "VALID"
  ELSE IF meta[b].parent \in rooted THEN "BAD_PARENT_REVISION"
  ELSE "INVALID_PARENT"

\* `order` lists the branches in the order siblings are parsed.
LoadedEntry(refs, meta, rooted, order, b) ==
  LET result == ResultOf(refs, meta, rooted, b)
      kids   == {c \in Branches : Follows(refs, meta, c) /\ meta[c].parent = b}
  IN  [result   |-> result,
       parent   |-> IF Follows(refs, meta, b) THEN meta[b].parent ELSE NoBranch,
       prev     |-> IF result = "VALID" THEN RevisionFrom(refs, meta, b)
                    ELSE IF result = "INVALID_PARENT" THEN meta[b].rev
                    ELSE NoCommit,
       rev      |-> refs[b],
       children |-> IF refs[b] = NoCommit THEN <<>> ELSE Among(order, kids)]

LoadedCache(refs, meta, order) ==
  LET rooted == Rooted(refs, meta)
  IN  [b \in Branches |-> LoadedEntry(refs, meta, rooted, order, b)]

\* A load deletes the metadata of missing branches and rewrites a parent
\* revision it had to fix.
LoadedMeta(refs, meta) ==
  LET rooted == Rooted(refs, meta)
  IN  [b \in Branches |->
        IF refs[b] = NoCommit THEN NoMeta
        ELSE IF b \in rooted \ {Trunk}
             THEN [meta[b] EXCEPT !.rev = RevisionFrom(refs, meta, b)]
        ELSE meta[b]]
=============================================================================
