--------------------------- MODULE MergedBranches ---------------------------
(***************************************************************************)
(* How `fp` decides that a branch on the trunk may go (isSafeToDelete,     *)
(* shouldDeleteBranch): its pull request is closed or merged, its changes  *)
(* are found in the trunk (isMerged), or it is empty.                      *)
(*                                                                         *)
(* A commit is its tree, the content of each file; its patch is what git's *)
(* patch id tells apart.  The code review service lands the branch, whole  *)
(* or in parts, as one commit for any number of them or for each; others   *)
(* commit to the trunk as well, on any file.                               *)
(***************************************************************************)
EXTENDS Integers, Sequences, FiniteSets

CONSTANTS
  Paths,       \* the files of the repository
  Contents,    \* what they may contain
  MaxCommits,  \* bound: the commits of the branch
  MaxTrunk     \* bound: the commits made on the trunk

VARIABLES
  branch,   \* the commits from parentBranchRevision, the first, to the tip
  trunk,    \* the commits of the trunk since parentBranchRevision
  pr,       \* the PR info of the branch: "none", or the state of its pull request
  deleted,  \* whether the branch is gone,
  trusted,  \* and whether because of the state of its pull request
  landed,   \* history: which commit of the branch was landed last
  touched   \* history: the files that others have changed in the trunk

mergedVars == <<branch, trunk, pr, deleted, trusted, landed, touched>>

Tip(commits) == commits[Len(commits)]

\* What `git diff` shows between two commits.
Patch(old, new) == {[file |-> f, from |-> old[f], to |-> new[f]] : f \in {g \in Paths : old[g] # new[g]}}

Applied(tree, patch) ==
  [f \in Paths |-> IF \E change \in patch : change.file = f
                   THEN (CHOOSE change \in patch : change.file = f).to ELSE tree[f]]

Applies(tree, patch) == \A change \in patch : tree[change.file] = change.from

MergedInit ==
  /\ \E tree \in [Paths -> Contents] : branch = <<tree>> /\ trunk = <<tree>>
  /\ pr \in {"none", "OPEN"} /\ deleted = FALSE /\ trusted = FALSE
  /\ landed = 1 /\ touched = {}

----------------------------------------------------------------------------
\* `git cherry` marks a commit with "-" when the trunk has one with its patch.
IsInTrunk(patch) ==
  patch # {} /\ \E k \in 2..Len(trunk) : Patch(trunk[k - 1], trunk[k]) = patch

\* The reduction of isMerged over the commits of the branch: the last one that
\* is in the trunk together with those since the one before.
LastMergedCommit[k \in DOMAIN branch] ==
  IF k = 1 THEN 1
  ELSE LET base == LastMergedCommit[k - 1]
       IN  IF IsInTrunk(Patch(branch[base], branch[k])) THEN k ELSE base

\* Mutant: each commit is looked for on its own, against the merge base.
IsMergedSince == IsInTrunk(Patch(branch[1], Tip(branch))) \/ Len(branch) = 1

\* Mutant: the commit found last need not be the tip.
IsMergedInPart == Len(branch) = 1 \/ LastMergedCommit[Len(branch)] > 1

IsMerged == LastMergedCommit[Len(branch)] = Len(branch)

IsBranchEmpty == Patch(branch[1], Tip(branch)) = {}

IsSafeToDelete == pr \in {"CLOSED", "MERGED"} \/ IsMerged \/ IsBranchEmpty

\* shouldDeleteBranch, up to the confirmation of the user.
ShouldDelete == IsSafeToDelete /\ ~(IsBranchEmpty /\ pr = "none")

----------------------------------------------------------------------------
Commit(tree) ==
  /\ ~deleted /\ Len(branch) <= MaxCommits /\ tree # Tip(branch)
  /\ branch' = Append(branch, tree)
  /\ UNCHANGED <<trunk, pr, deleted, trusted, landed, touched>>

\* The commits that follow the last one landed land as one.
Land(k) ==
  LET patch == Patch(branch[landed], branch[k])
  IN  /\ k \in landed + 1 .. Len(branch) /\ pr = "OPEN" /\ Len(trunk) <= MaxTrunk
      /\ patch # {} /\ Applies(Tip(trunk), patch)
      /\ trunk' = Append(trunk, Applied(Tip(trunk), patch)) /\ landed' = k
      /\ UNCHANGED <<branch, pr, deleted, trusted, touched>>

\* Somebody else commits a change of one file to the trunk.
Push(f, content) ==
  /\ content # Tip(trunk)[f] /\ Len(trunk) <= MaxTrunk
  /\ trunk' = Append(trunk, [Tip(trunk) EXCEPT ![f] = content])
  /\ touched' = touched \cup {f}
  /\ UNCHANGED <<branch, pr, deleted, trusted, landed>>

\* The pull request is merged or closed, and its state is fetched.
EndPullRequest(state) ==
  /\ pr = "OPEN" /\ pr' = state
  /\ UNCHANGED <<branch, trunk, deleted, trusted, landed, touched>>

\* A branch that `fp repo sync` deletes once the user has agreed, or --force
\* has for him, and one that `fp branch delete` does.
SyncDelete ==
  /\ ~deleted /\ ShouldDelete /\ deleted' = TRUE /\ trusted' = (pr \in {"CLOSED", "MERGED"})
  /\ UNCHANGED <<branch, trunk, pr, landed, touched>>

DeleteBranch ==
  /\ ~deleted /\ IsSafeToDelete /\ deleted' = TRUE /\ trusted' = (pr \in {"CLOSED", "MERGED"})
  /\ UNCHANGED <<branch, trunk, pr, landed, touched>>

MergedNext ==
  \/ \E tree \in [Paths -> Contents] : Commit(tree)
  \/ \E k \in DOMAIN branch : Land(k)
  \/ \E f \in Paths, content \in Contents : Push(f, content)
  \/ \E state \in {"MERGED", "CLOSED"} : EndPullRequest(state)
  \/ SyncDelete \/ DeleteBranch

MergedSpec == MergedInit /\ [][MergedNext]_mergedVars

----------------------------------------------------------------------------
(* Properties                                                              *)

\* Without a word from the code review service a branch is deleted only when
\* each of its files has had in the trunk the content that the tip gives it.
OnlyLandedIsDeleted ==
  deleted /\ ~trusted =>
    \A f \in Paths : \E k \in DOMAIN trunk : trunk[k][f] = Tip(branch)[f]

ChangedOnBranch == UNION {{change.file : change \in Patch(branch[k - 1], branch[k])} : k \in 2..Len(branch)}

\* No commit gives a file a content that it had before on the branch.
NeverGoesBack ==
  \A f \in Paths : \A i, j, k \in DOMAIN branch :
    i < j /\ j < k /\ branch[i][f] = branch[k][f] => branch[j][f] = branch[i][f]

\* A branch that has landed, in whatever parts, is found to have, as long as
\* nobody else has changed its files and no commit takes one of them back: the
\* same patch again, within a part that landed as one, is taken for landed, and
\* what follows it in that part is not found.
LandedIsDetected ==
  landed = Len(branch) /\ touched \cap ChangedOnBranch = {} /\ NeverGoesBack => IsMerged

\* What isMerged concludes from patches is right both ways, so that `fp repo
\* sync` neither takes work away nor asks for ever about work that is done
\* (is_merged.ts:6-47, delete_branch.ts:42-64).
WorkGoesWhenLanded == OnlyLandedIsDeleted /\ LandedIsDetected

=============================================================================
