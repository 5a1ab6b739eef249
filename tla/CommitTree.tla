----------------------------- MODULE CommitTree -----------------------------
(***************************************************************************)
(* The list of branches in a window of GTI: the rows of CommitTreeList and *)
(* Commit, the selection with mouse and keys (selection.ts), a drag that   *)
(* previews a rebase, and the buttons below a stack.  The children of a    *)
(* branch are drawn above it, the most recent first; the keys walk along a *)
(* list made by another walk over the same tree.                           *)
(*                                                                         *)
(* The window knows the repository at any time.  Operations that run are   *)
(* the business of TreePreviews; here is the one that waits for the user.  *)
(***************************************************************************)
EXTENDS Naturals, Sequences, FiniteSets, SequencesExt

CONSTANTS
  Names,      \* the branches, the most recent first
  Trunk,
  NoBranch,
  Repos,      \* the repositories to start with
  MaxTurns    \* bound on the changes of the repository

VARIABLES
  repo,       \* [parent, public, prs, restack, head, dirty]
  previewed,  \* operationBeingPreviewed: [kind, branch, dest]
  dragged,    \* commitBeingDragged as it was then, and whether it is dragged
  selected,   \* selectedCommits
  last,       \* previouslySelectedCommit
  turns

vars == <<repo, previewed, dragged, selected, last, turns>>

Named == ToSet(Names)
NoPreview == [kind |-> "none", branch |-> NoBranch, dest |-> NoBranch]
NoDrag == [branch |-> NoBranch, parent |-> NoBranch, moves |-> FALSE]

Exists(r, b) == b = Trunk \/ r.parent[b] # NoBranch

----------------------------------------------------------------------------
(***************************************************************************)
(* The tree and its rows                                                   *)
(***************************************************************************)
\* getCommitTree: public branches are roots, also those of a public parent.
RootBranches(r) == LET isRoot(b) == b \in r.public IN SelectSeq(Names, isRoot)
Kids(r, b) ==
  LET isKid(c) == r.parent[c] = b /\ c \notin r.public IN SelectSeq(Names, isKid)

\* The preview of a rebase shows the old branch and, as the last child of the
\* destination, the new one; a preview covers what stands on its branch.
PreviewType(p, b, parent, inherited) ==
  IF p.kind = "hide" /\ b = p.branch THEN "HIDDEN_ROOT"
  ELSE IF p.kind = "rebase" /\ b = p.branch
       THEN IF parent = p.dest THEN "REBASE_ROOT" ELSE "REBASE_OLD"
       ELSE IF p.kind = "rebase" /\ b = p.dest THEN "none" ELSE inherited

ChildPreviewType(type) ==
  CASE type = "HIDDEN_ROOT" -> "HIDDEN_DESCENDANT"
    [] type = "REBASE_ROOT" -> "REBASE_DESCENDANT"
    [] OTHER -> type

RECURSIVE TreeOf(_, _, _, _, _)
TreeOf(r, p, b, parent, inherited) ==
  LET type == PreviewType(p, b, parent, inherited)
      kids == Kids(r, b)
      below == [i \in DOMAIN kids |-> TreeOf(r, p, kids[i], b, ChildPreviewType(type))]
  IN  [branch |-> b, preview |-> type,
       children |-> IF p.kind = "rebase" /\ b = p.dest
                    THEN Append(below, TreeOf(r, p, p.branch, b, "none")) ELSE below]

\* treeWithPreviews
Trees ==
  LET roots == RootBranches(repo)
      isLost == previewed # NoPreview /\ ~Exists(repo, previewed.branch)
      preview == IF isLost THEN NoPreview ELSE previewed
  IN  [i \in DOMAIN roots |-> TreeOf(repo, preview, roots[i], NoBranch, "none")]

\* SubTree: first the children, then the branch.
RECURSIVE RowsOf(_)
RowsOf(trees) ==
  FlattenSeq([i \in DOMAIN trees |-> Append(RowsOf(trees[i].children), trees[i])])

Screen == RowsOf(Trees)

\* Mutant: the first tree is taken, as a queue would.
RECURSIVE ProcessQueue(_, _)
ProcessQueue(toProcess, accum) ==
  IF toProcess = <<>> THEN accum
  ELSE ProcessQueue(Tail(toProcess) \o Head(toProcess).children, Append(accum, Head(toProcess)))

LinearizedAsQueue == ProcessQueue(Trees, <<>>)

\* linearizedCommitHistory: the last tree is taken, its children are put back.
RECURSIVE Process(_, _)
Process(toProcess, accum) ==
  IF toProcess = <<>> THEN accum
  ELSE Process(Front(toProcess) \o Last(toProcess).children, Append(accum, Last(toProcess)))

Linearized == Process(Trees, <<>>)

IsPublic(node) == node.branch \in repo.public

FirstIndex(rows, b) ==
  IF \E i \in DOMAIN rows : rows[i].branch = b
  THEN CHOOSE i \in DOMAIN rows : rows[i].branch = b /\ \A j \in 1..i - 1 : rows[j].branch # b
  ELSE 0

----------------------------------------------------------------------------
(***************************************************************************)
(* Selecting                                                               *)
(***************************************************************************)
Select(set, b) == selected' = set /\ last' = b

\* The rows from one index to the other; a branch that is gone has the index
\* -1, from where slice counts back from the end.
Slice(rows, from, to) ==
  IF from = 0 THEN IF to = Len(rows) THEN <<rows[to]>> ELSE <<>>
  ELSE SubSeq(rows, from, to)

\* Of the rows between two clicks, the public ones are added.
ShiftClick(b) ==
  LET rows == Linearized
      prev == FirstIndex(rows, last)
      next == FirstIndex(rows, b)
      slice == IF prev > next THEN Slice(rows, next, prev) ELSE Slice(rows, prev, next)
  IN  Select(selected \cup {n.branch : n \in {m \in ToSet(slice) : IsPublic(m)}}, b)

Click(b, meta) ==
  LET unselect == b \in selected /\ (meta \/ Cardinality(selected) = 1)
  IN  Select(IF unselect THEN selected \ {b}
             ELSE IF meta THEN selected \cup {b} ELSE {b}, b)

\* Public branches are not selected.
OnClickToSelect(b, key) ==
  /\ b \notin repo.public
  /\ IF key = "shift" /\ last # NoBranch THEN ShiftClick(b) ELSE Click(b, key = "meta")
  /\ UNCHANGED <<repo, previewed, dragged, turns>>

\* The second click of a double click finds what the first has left; the
\* branch ends up selected.
OnDoubleClick(b) ==
  /\ b \notin repo.public \cup selected /\ Click(b, FALSE)
  /\ UNCHANGED <<repo, previewed, dragged, turns>>

ArrowKey(up, extend) ==
  LET isOwn(n) == ~IsPublic(n)
      rows == SelectSeq(Linearized, isOwn)
      current == FirstIndex(rows, last)
      next == IF up THEN IF current < Len(rows) THEN current + 1 ELSE current
              ELSE IF current > 1 THEN current - 1 ELSE current
  IN  /\ last # NoBranch /\ current # 0
      /\ Select((IF extend THEN selected ELSE {}) \cup {rows[next].branch}, rows[next].branch)
      /\ UNCHANGED <<repo, previewed, dragged, turns>>

----------------------------------------------------------------------------
(***************************************************************************)
(* Rows with previews                                                      *)
(***************************************************************************)
Draggable(node) ==
  ~IsPublic(node) /\ node.preview \notin {"REBASE_DESCENDANT", "REBASE_OLD", "HIDDEN_ROOT", "HIDDEN_DESCENDANT"}

ActionsPrevented(node) == node.preview # "none"

\* With uncommitted changes the drag does not start, but the branch is noted.
HandleDragStart(node) ==
  /\ Draggable(node)
  /\ dragged' = [branch |-> node.branch, parent |-> repo.parent[node.branch], moves |-> ~repo.dirty]
  /\ UNCHANGED <<repo, previewed, selected, last, turns>>

HandleDragEnd ==
  /\ dragged.moves
  /\ dragged' = NoDrag
  /\ UNCHANGED <<repo, previewed, selected, last, turns>>

Descends(r, b, from) ==
  LET below[n \in Nat] == IF n = 0 THEN {from}
                          ELSE below[n - 1] \cup {c \in Named \ r.public : r.parent[c] \in below[n - 1]}
  IN  b \in below[Len(Names)]

\* Something is dragged over a row; whether it is the noted branch is not asked.
HandleDragEnter(b) ==
  /\ dragged.branch \notin {NoBranch, b} /\ Exists(repo, dragged.branch)
  /\ dragged.parent # b /\ ~Descends(repo, b, dragged.branch)
  /\ previewed' = [kind |-> "rebase", branch |-> dragged.branch, dest |-> b]
  /\ UNCHANGED <<repo, dragged, selected, last, turns>>

\* The entry `Hide' of the menu; an entry `Delete' runs at once.
PreviewHide(node) ==
  /\ ~IsPublic(node) /\ ~ActionsPrevented(node)
  /\ previewed' = [kind |-> "hide", branch |-> node.branch, dest |-> NoBranch]
  /\ UNCHANGED <<repo, dragged, selected, last, turns>>

Turn == turns < MaxTurns /\ turns' = turns + 1

Gone(r, set) ==
  [r EXCEPT !.parent = [b \in Named |-> IF b \in set THEN NoBranch ELSE @[b]],
            !.prs = @ \ set, !.restack = @ \ set, !.public = @ \ set,
            !.head = IF @ \in set THEN Trunk ELSE @]

\* The buttons of the row that is the root of the preview.
RunPreviewed(cancel) ==
  /\ \E n \in ToSet(Screen) : n.preview \in {"REBASE_ROOT", "HIDDEN_ROOT"}
  /\ previewed' = NoPreview
  /\ IF cancel THEN UNCHANGED <<repo, turns>>
     ELSE /\ Turn
          /\ repo' = IF previewed.kind = "hide"
                     THEN Gone(repo, {b \in Named : Descends(repo, b, previewed.branch)})
                     ELSE [repo EXCEPT !.parent[previewed.branch] = previewed.dest]
  /\ UNCHANGED <<dragged, selected, last>>

DeleteBranch(node) ==
  LET b == node.branch
      adopted == [repo EXCEPT !.parent = [c \in Named |-> IF @[c] = b THEN @[b] ELSE @[c]]]
  IN  /\ ~IsPublic(node) /\ ~ActionsPrevented(node) /\ Turn
      /\ repo' = Gone(adopted, {b})
      /\ UNCHANGED <<previewed, dragged, selected, last>>

Checkout(node) ==
  /\ ~ActionsPrevented(node) /\ node.branch # repo.head /\ Turn
  /\ repo' = [repo EXCEPT !.head = node.branch]
  /\ UNCHANGED <<previewed, dragged, selected, last>>

----------------------------------------------------------------------------
(***************************************************************************)
(* The buttons below a stack                                               *)
(***************************************************************************)
RECURSIVE Descendents(_)
Descendents(node) == {node.branch} \cup UNION {Descendents(c) : c \in ToSet(node.children)}

\* Mutant: above a branch with a pull request all others count as if they had one.
RECURSIVE SupportedOfSubmitted(_)
SupportedOfSubmitted(node) ==
  LET below == {SupportedOfSubmitted(c) : c \in ToSet(node.children)}
      again == UNION {s.resubmittable : s \in below}
      first == UNION {s.submittable : s \in below}
  IN  IF node.branch \in repo.prs
      THEN [resubmittable |-> {node.branch} \cup again \cup first, submittable |-> {}]
      ELSE [resubmittable |-> {}, submittable |-> {node.branch} \cup first \cup again]

\* getSupportedStackActions
RECURSIVE Supported(_)
Supported(node) ==
  LET below == {Supported(c) : c \in ToSet(node.children)}
      again == UNION {s.resubmittable : s \in below}
      first == UNION {s.submittable : s \in below}
  IN  IF node.branch \in repo.prs
      THEN [resubmittable |-> {node.branch} \cup again, submittable |-> first]
      ELSE [resubmittable |-> {}, submittable |-> {node.branch} \cup first \cup again]

\* StackActions: the commands offered below the rows of a branch, and the rows
\* that are highlighted while the mouse is over the button.
Offered(node, depth) ==
  LET s == Supported(node)
      Button(label, lit) == [label |-> label, branch |-> node.branch, lit |-> lit]
      isStack(set) == Cardinality(set) >= 2
  IN  IF node.branch \in repo.restack THEN {Button("restack", Descendents(node))}
      ELSE IF IsPublic(node) \/ depth # 1 THEN {}
      ELSE IF isStack(s.resubmittable)
           THEN {Button("resubmit", s.resubmittable)}
                \cup (IF s.submittable = {} THEN {}
                      ELSE {Button("submit-entire", s.resubmittable \cup s.submittable)})
           ELSE IF isStack(s.submittable) THEN {Button("submit", s.submittable)} ELSE {}

RECURSIVE Buttons(_, _)
Buttons(trees, depth) ==
  UNION {Offered(t, depth) \cup Buttons(t.children, depth + 1) : t \in ToSet(trees)}

\* The branches of a stack, of which an update takes those with a pull request;
\* of a merged branch fp knows nothing.
Stack(b) ==
  LET all == [repo EXCEPT !.public = {Trunk}]
  IN  {c \in Named \ {Trunk} : Descends(all, c, b) \/ Descends(all, b, c)}

Takes(button) ==
  IF button.label = "resubmit" THEN Stack(button.branch) \cap repo.prs ELSE Stack(button.branch)

RunStackAction(button) ==
  /\ button.label = "restack" => ~repo.dirty
  /\ Turn
  /\ repo' = IF button.label = "restack" THEN [repo EXCEPT !.restack = @ \ Takes(button)]
             ELSE [repo EXCEPT !.prs = @ \cup Takes(button)]
  /\ UNCHANGED <<previewed, dragged, selected, last>>

\* The selected branches that still are in the tree.
SelectedInfos == {b \in selected : FirstIndex(Screen, b) # 0}

\* MultiCommitInfo: a click submits those on the trunk or on a submitted branch.
SubmitSelected ==
  LET isSubmittable(b) ==
        b \notin repo.public /\ repo.parent[b] \in {Trunk} \cup repo.prs
      submittable == {b \in SelectedInfos : isSubmittable(b)}
  IN  /\ Cardinality(SelectedInfos) > 1 /\ submittable # {} /\ Turn
      /\ repo' = [repo EXCEPT !.prs = @ \cup submittable]
      /\ UNCHANGED <<previewed, dragged, selected, last>>

----------------------------------------------------------------------------
(* Someone works in the repository: edits files, amends a branch, merges one. *)
EditFiles ==
  /\ Turn /\ repo' = [repo EXCEPT !.dirty = ~@]
  /\ UNCHANGED <<previewed, dragged, selected, last>>

Amend(b) ==
  /\ b \notin repo.public /\ Turn
  /\ repo' = [repo EXCEPT !.restack = @ \cup {c \in Named : repo.parent[c] = b}]
  /\ UNCHANGED <<previewed, dragged, selected, last>>

Merge(b) ==
  /\ b \notin repo.public /\ repo.parent[b] \in repo.public /\ Turn
  /\ repo' = [repo EXCEPT !.public = @ \cup {b}]
  /\ UNCHANGED <<previewed, dragged, selected, last>>

Init ==
  /\ repo \in Repos
  /\ previewed = NoPreview /\ dragged = NoDrag
  /\ selected = {} /\ last = NoBranch /\ turns = 0

Next ==
  \/ \E n \in ToSet(Screen) :
       \/ \E key \in {"none", "meta", "shift"} : OnClickToSelect(n.branch, key)
       \/ OnDoubleClick(n.branch)
       \/ HandleDragStart(n) \/ HandleDragEnter(n.branch)
       \/ PreviewHide(n) \/ DeleteBranch(n) \/ Checkout(n)
       \/ Amend(n.branch) \/ Merge(n.branch)
  \/ \E up \in BOOLEAN, extend \in BOOLEAN : ArrowKey(up, extend)
  \/ HandleDragEnd \/ SubmitSelected \/ EditFiles
  \/ \E cancel \in BOOLEAN : RunPreviewed(cancel)
  \/ \E button \in Buttons(Trees, 0) : RunStackAction(button)

----------------------------------------------------------------------------
\* A key moves to the row next to the last one: the list the keys walk along,
\* made by taking trees from a stack, is the rows from the bottom to the top,
\* whatever the tree and the preview (selection.ts:125).
KeysFollowTheScreen == Linearized = Reverse(Screen)

\* The rows that light up under a button are taken by its command, and the
\* button for an entire stack leaves no row of it dark (CommitTreeList.tsx:366).
\* Excepted is a tree that shows a rebase nobody has run.
LitIsSubmitted ==
  \A button \in Buttons(Trees, 0) : previewed.kind # "rebase" =>
    /\ button.lit \subseteq Takes(button)
    /\ button.label = "submit-entire" => Takes(button) \ repo.public \subseteq button.lit

\* The tree on the screen, the list made from it and the tree the server has are
\* the same tree to keys and buttons (CommitTreeList.tsx:376).
ShownTreeIsTheRealOne == KeysFollowTheScreen /\ LitIsSubmitted
=============================================================================
