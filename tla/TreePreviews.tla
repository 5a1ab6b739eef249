---------------------------- MODULE TreePreviews ----------------------------
(***************************************************************************)
(* The tree of branches a window shows before the operations it depicts    *)
(* have ended (previews.ts, operations/): every operation makes an applier *)
(* that rewrites one node at a time, and the appliers of the operations    *)
(* that are not completed are applied to the fetched tree one after the    *)
(* other, each on what the one before has left.                            *)
(*                                                                         *)
(* A repository is the parents and titles of its branches and the one that *)
(* is checked out.  Preview types, which are colours, are left out.        *)
(***************************************************************************)
EXTENDS Sequences, FiniteSets, SequencesExt, TLC

CONSTANTS
  Trunk,     \* the branch everything stands on
  Names,     \* the sequence of all names of branches, the most recent first
  NoBranch   \* no parent, nobody is checked out

Branches == ToSet(Names)

Exists(repo, b) == b = Trunk \/ repo.parent[b] # NoBranch

KidsOf(repo, b) == LET isKid(c) == repo.parent[c] = b IN SelectSeq(Names, isKid)

RECURSIVE Above(_, _)
Above(repo, b) == {b} \cup UNION {Above(repo, c) : c \in ToSet(KidsOf(repo, b))}

----------------------------------------------------------------------------
(* What the commands do, which is the business of the server.              *)

Without(repo, gone, head) ==
  [repo EXCEPT !.parent = [b \in Branches |-> IF b \in gone THEN NoBranch ELSE @[b]],
               !.head = IF @ \in gone THEN head ELSE @]

\* Whether the command of an operation succeeds.
Succeeds(op, repo) ==
  CASE op.kind = "goto" -> Exists(repo, op.branch)
    [] op.kind = "rebase" -> /\ Exists(repo, op.branch) /\ Exists(repo, op.dest)
                             /\ op.dest \notin Above(repo, op.branch)
    [] op.kind = "commit" -> repo.head # NoBranch /\ ~Exists(repo, op.name)
    [] op.kind = "uncommit" -> repo.head \notin {NoBranch, Trunk} /\ KidsOf(repo, repo.head) = <<>>
    [] op.kind \in {"hide", "delete", "metaedit"} -> Exists(repo, op.branch)
    [] op.kind = "amend" -> repo.head \notin {NoBranch, Trunk}

Effect(op, repo) ==
  CASE op.kind = "goto" -> [repo EXCEPT !.head = op.branch]
    [] op.kind = "rebase" -> [repo EXCEPT !.parent[op.branch] = op.dest]
    [] op.kind = "commit" -> [repo EXCEPT !.parent[op.name] = repo.head, !.title[op.name] = "new",
                                          !.head = op.name]
    [] op.kind = "uncommit" -> Without(repo, {repo.head}, repo.parent[repo.head])
    [] op.kind = "hide" -> Without(repo, Above(repo, op.branch), NoBranch)
    [] op.kind = "delete" ->
         LET adopted == [repo EXCEPT !.parent = [b \in Branches |-> IF @[b] = op.branch
                                                  THEN repo.parent[op.branch] ELSE @[b]]]
         IN  Without(adopted, {op.branch}, repo.parent[op.branch])
    [] op.kind = "metaedit" -> [repo EXCEPT !.title[op.branch] = "new"]
    [] op.kind = "amend" -> [repo EXCEPT !.title[repo.head] = "new"]

----------------------------------------------------------------------------
(* The fetched tree.                                                       *)

Info(repo, b) ==
  [branch |-> b, parent |-> repo.parent[b], title |-> repo.title[b], isHead |-> repo.head = b]

RECURSIVE TreeOf(_, _)
TreeOf(repo, b) ==
  LET kids == KidsOf(repo, b)
  IN  [info |-> Info(repo, b), children |-> [i \in DOMAIN kids |-> TreeOf(repo, kids[i])]]

\* No commit of the tree is checked out.
NoHead == [branch |-> NoBranch, parent |-> NoBranch, title |-> "old", isHead |-> FALSE]

\* latestCommitTree, latestHeadCommit, latestCommitTreeMap
Context(repo) ==
  [trees   |-> <<TreeOf(repo, Trunk)>>,
   head    |-> IF repo.head = NoBranch THEN NoHead ELSE Info(repo, repo.head),
   treeMap |-> [b \in Above(repo, Trunk) |-> TreeOf(repo, b)]]

----------------------------------------------------------------------------
(* Appliers, and what they do as long as there is something to show.       *)

InTree(context, b) == b \in DOMAIN context.treeMap

\* makeOptimisticApplier returns undefined: there is nothing left to show.
Resolved(op, context) ==
  CASE op.kind = "goto" -> context.head.branch = op.branch
    [] op.kind \in {"rebase", "hide", "delete", "metaedit"} -> ~InTree(context, op.branch)
    [] op.kind \in {"commit", "uncommit"} -> context.head.branch # op.head
    [] op.kind = "amend" -> context.head.title = "new"

Hidden == [shown |-> FALSE, tree |-> {}]
As(info, children) == [shown |-> TRUE, tree |-> [info |-> info, children |-> children]]
AsItIs(tree) == As(tree.info, tree.children)

GotoApplier(op, context, tree) ==
  IF tree.info.branch = op.branch THEN As([tree.info EXCEPT !.isHead = TRUE], tree.children)
  ELSE IF tree.info.branch = context.head.branch
       THEN As([tree.info EXCEPT !.isHead = FALSE], tree.children)
       ELSE AsItIs(tree)

\* The source is shown below its destination, once that has been visited.
RebaseApplier(op, context, tree, visited) ==
  LET moved == [context.treeMap[op.branch] EXCEPT !.info.parent = op.dest]
  IN  IF tree.info.branch = op.branch
      THEN IF visited /\ tree.info.parent = op.dest THEN AsItIs(tree) ELSE Hidden
      ELSE IF tree.info.branch = op.dest THEN As(tree.info, Append(tree.children, moved))
           ELSE AsItIs(tree)

CommitApplier(op, tree) ==
  LET commit == [info |-> [branch |-> op.name, parent |-> op.head, title |-> "new", isHead |-> TRUE],
                 children |-> <<>>]
  IN  IF tree.info.branch = op.head
      THEN As([tree.info EXCEPT !.isHead = FALSE], Append(tree.children, commit))
      ELSE AsItIs(tree)

UncommitApplier(op, tree) ==
  IF tree.info.branch = op.head THEN Hidden
  ELSE IF tree.info.branch = op.parent THEN As([tree.info EXCEPT !.isHead = TRUE], tree.children)
       ELSE AsItIs(tree)

HideApplier(op, tree) == IF tree.info.branch = op.branch THEN Hidden ELSE AsItIs(tree)

DeleteApplier(op, tree) == IF tree.info.branch = op.branch THEN Hidden ELSE AsItIs(tree)

Retitled(tree) == As([tree.info EXCEPT !.title = "new"], tree.children)

MetaeditApplier(op, tree) == IF tree.info.branch = op.branch THEN Retitled(tree) ELSE AsItIs(tree)

AmendApplier(tree) == IF tree.info.isHead THEN Retitled(tree) ELSE AsItIs(tree)

Applied(op, context, tree, visited) ==
  CASE op.kind = "goto" -> GotoApplier(op, context, tree)
    [] op.kind = "rebase" -> RebaseApplier(op, context, tree, visited)
    [] op.kind = "commit" -> CommitApplier(op, tree)
    [] op.kind = "uncommit" -> UncommitApplier(op, tree)
    [] op.kind = "hide" -> HideApplier(op, tree)
    [] op.kind = "delete" -> DeleteApplier(op, tree)
    [] op.kind = "metaedit" -> MetaeditApplier(op, tree)
    [] op.kind = "amend" -> AmendApplier(tree)

\* processTree: a walk over the tree, and what it has gathered: the head, the
\* nodes by name, and whether the destination of a rebase has been visited.
RECURSIVE ProcessTree(_, _, _, _), ProcessTrees(_, _, _, _)
ProcessTree(op, context, tree, walk) ==
  LET result == Applied(op, context, tree, walk.visited)
      node == result.tree
      entered == [walk EXCEPT !.visited = @ \/ (op.kind = "rebase" /\ tree.info.branch = op.dest),
                              !.head = IF node.info.isHead THEN node.info ELSE @]
      below == ProcessTrees(op, context, node.children, [entered EXCEPT !.trees = <<>>])
  IN  IF ~result.shown THEN walk
      ELSE [below EXCEPT !.trees = Append(walk.trees, [info |-> node.info, children |-> @]),
                         !.treeMap = (node.info.branch :> node) @@ @]

ProcessTrees(op, context, trees, walk) ==
  IF trees = <<>> THEN walk
  ELSE ProcessTrees(op, context, Tail(trees), ProcessTree(op, context, Head(trees), walk))

Walk(op, context) ==
  ProcessTrees(op, context, context.trees,
               [trees |-> <<>>, head |-> context.head, treeMap |-> <<>>, visited |-> FALSE])

\* Mutant: the next applier is made for the head and the nodes of the data.
PreviewWithFetchedContext(op, context) ==
  IF Resolved(op, context) THEN context ELSE [context EXCEPT !.trees = Walk(op, context).trees]

\* One operation of treeWithPreviews.
Preview(op, context) ==
  LET walk == Walk(op, context)
  IN  IF Resolved(op, context) THEN context
      ELSE [trees |-> walk.trees, head |-> walk.head, treeMap |-> walk.treeMap]

RECURSIVE WithPreviews(_, _)
WithPreviews(ops, context) ==
  IF ops = <<>> THEN context ELSE WithPreviews(Tail(ops), Preview(Head(ops), context))

----------------------------------------------------------------------------
(* The window.                                                             *)

RECURSIVE Nodes(_)
Nodes(trees) ==
  FoldLeft(LAMBDA all, t : Append(all, t.info) \o Nodes(t.children), <<>>, trees)

BranchesOf(trees) == {n.branch : n \in ToSet(Nodes(trees))}

Visible(shown) == ToSet(Nodes(shown.trees))

\* The buttons and the menu of a branch, the row of buttons below the
\* uncommitted changes, and the form of a new branch; the head of the data is
\* not the one that is shown.
ButtonRequests(shown) ==
  LET infos == Visible(shown)
      own == {n \in infos : n.branch # Trunk}
  IN  {[kind |-> "goto", branch |-> n.branch] : n \in {m \in infos : ~m.isHead}}
      \cup {[kind |-> k, branch |-> n.branch] : k \in {"hide", "delete", "metaedit"}, n \in own}
      \cup {[kind |-> "amend"] : n \in {m \in own : m.isHead}}

UncommitRequests(fetched, shown) ==
  LET head == fetched.head
  IN  {[kind |-> "uncommit", head |-> head.branch, parent |-> head.parent]
       : n \in {m \in Visible(shown) : /\ m.isHead /\ m.branch # Trunk
                                       /\ head.branch \notin {NoBranch, Trunk}
                                       /\ fetched.treeMap[head.branch].children = <<>>}}

\* The name of the head is not chosen for the new branch: its applier would put
\* the branch below itself without end.
CommitRequests(fetched, shown) ==
  {c \in [kind : {"commit"}, name : Branches \ BranchesOf(shown.trees),
          head : {fetched.head.branch, shown.head.branch} \ {NoBranch}] : c.name # c.head}

\* A branch is dragged with the fetched tree in mind.  Drops on a branch that
\* is shown below the dragged one are left out: the preview would put the
\* branch below itself without end.
RebaseRequests(fetched, shown) ==
  LET dragged == {n \in Visible(shown) : n.branch # Trunk /\ InTree(fetched, n.branch)}
      below(context, n) == BranchesOf(<<context.treeMap[n.branch]>>)
      targets(n) == BranchesOf(shown.trees) \ (below(fetched, n) \cup below(shown, n) \cup {n.parent})
  IN  UNION {{[kind |-> "rebase", branch |-> n.branch, dest |-> b] : b \in targets(n)} : n \in dragged}

Requests(fetched, shown) ==
  {<<op>> : op \in ButtonRequests(shown) \cup UncommitRequests(fetched, shown)
                     \cup CommitRequests(fetched, shown) \cup RebaseRequests(fetched, shown)}

\* Where the appliers follow the commands: not for a head that is not the one
\* the user had seen, not for a deleted branch, whose children vanish with it,
\* and not for a rebase that waits behind another operation, which moves the
\* descendants as they were before that operation.
Faithful(ops, i, repo) ==
  LET op == ops[i]
  IN  /\ Succeeds(op, repo) /\ op.kind # "delete"
      /\ op.kind = "rebase" => i = 1
      /\ op.kind \in {"commit", "uncommit"} => op.head = repo.head
      /\ op.kind = "uncommit" => op.parent = repo.parent[op.head]
=============================================================================
