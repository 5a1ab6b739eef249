------------------------------ MODULE History ------------------------------
(***************************************************************************)
(* Commits as the engine sees them through git: a commit is its history,   *)
(* the sequence of the patches applied since the root commit.  Two commits *)
(* with the same history are the same commit, an ancestor is a prefix, and *)
(* a merge base is a longest common prefix.  Merge commits do not occur:   *)
(* every git command the engine issues keeps a branch linear.              *)
(*                                                                         *)
(* This is the model of the git executable (lib/git shells out to it).     *)
(***************************************************************************)
EXTENDS Naturals, Sequences, SequencesExt

CONSTANTS
  Patches,    \* the changes a commit can introduce
  NoCommit    \* the absent revision, `undefined` in the code

Commits == Seq(Patches)

\* The commit of a freshly initialised repository.
Root == <<>>

ASSUME AbsentCommit == NoCommit \notin Commits

\* getMergeBase(d, c) === c: c is in the history of d.
IsAncestor(c, d) == IsPrefix(c, d)

\* git merge-base c d
MergeBase(c, d) == LongestCommonPrefix({c, d})

\* git rev-list from..to, oldest commit first
CommitRange(from, to) == SubSeq(to, Len(MergeBase(from, to)) + 1, Len(to))

\* git rebase --onto onto from c, when every conflict is resolved in favour of
\* the replayed commit: the commits of from..c are replayed on onto, and one
\* whose patch is already there becomes empty and is dropped.
Rebased(onto, from, c) ==
  LET isNew(p) == p \notin ToSet(onto)
  IN  onto \o SelectSeq(CommitRange(from, c), isNew)

\* git commit --amend: the last commit is replaced by one with a new patch.
Amended(c, p) == Append(Front(c), p)
=============================================================================
