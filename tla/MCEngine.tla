------------------------------ MODULE MCEngine ------------------------------
(***************************************************************************)
(* TLC instances of Engine.  The configurations differ in the commands and *)
(* failures they allow and in the stack they start from; every seed is a   *)
(* repository that `fp branch create` can build.                           *)
(***************************************************************************)
EXTENDS EngineProperties, TLC

CONSTANTS b1, b2, b3

FourBranches == {Trunk, b1, b2, b3}

\* The branches of up, each with one patch, on top of the commit t of trunk.
Seed(t, up, rev, patches, on) ==
  [refs |-> [x \in Branches |-> IF x \in DOMAIN rev THEN t \o rev[x] ELSE
                                IF x = Trunk THEN t ELSE NoCommit],
   meta |-> [x \in Branches |-> IF x \in DOMAIN up
                                THEN [parent |-> up[x],
                                      rev |-> IF up[x] = Trunk THEN t ELSE t \o rev[up[x]]]
                                ELSE NoMeta],
   own  |-> [x \in Branches |-> IF x \in DOMAIN patches THEN patches[x] ELSE {}],
   head |-> on]

\* A trunk that has moved uses up the fourth patch: fewer commits can be made.
Moved == <<4>>

\* b3 on b2 on b1 on trunk
Chain(t, on) ==
  Seed(t, b1 :> Trunk @@ b2 :> b1 @@ b3 :> b2,
       b1 :> <<1>> @@ b2 :> <<1, 2>> @@ b3 :> <<1, 2, 3>>,
       b1 :> {1} @@ b2 :> {2} @@ b3 :> {3}, on)

\* b2 and b3 on b1 on trunk
Fan(on) ==
  Seed(Root, b1 :> Trunk @@ b2 :> b1 @@ b3 :> b1,
       b1 :> <<1>> @@ b2 :> <<1, 2>> @@ b3 :> <<1, 3>>,
       b1 :> {1} @@ b2 :> {2} @@ b3 :> {3}, on)

\* b2 on b1 on trunk
Short(t, on) ==
  Seed(t, b1 :> Trunk @@ b2 :> b1, b1 :> <<1>> @@ b2 :> <<1, 2>>, b1 :> {1} @@ b2 :> {2}, on)

\* b2 on b1 on trunk, and the user on b3, which is not tracked
Aside ==
  Seed(Root, b1 :> Trunk @@ b2 :> b1, b1 :> <<1>> @@ b2 :> <<1, 2>> @@ b3 :> <<3>>,
       b1 :> {1} @@ b2 :> {2} @@ b3 :> {3}, b3)

OneOrder == {<<Trunk, b1, b2, b3>>}

FourPatches  == 1..4
FivePatches  == 1..5

With(seed, allowed) ==
  [refs |-> seed.refs, meta |-> seed.meta, own |-> seed.own, head |-> seed.head,
   features |-> allowed]

----------------------------------------------------------------------------
\* Commits in the middle of a stack, and branches that disappear or
\* change their names in stacks in which no branch has two children, with
\* everything that can interrupt the restack that follows.
Interruptions == {"conflict", "continue", "abort", "crash"}

CommitScenarios ==
  LET usual == {"commit", "amend", "squash", "restack", "checkout", "pullTrunk"}
  IN  {With(seed, usual \cup Interruptions) : seed \in {Chain(Root, b1), Fan(b1), Short(Root, b1)}}

Removals == {"delete", "fold", "rename", "unbranch", "checkout", "restack"} \cup Interruptions

RemoveScenarios ==
  {With(seed, Removals) : seed \in {Chain(Root, b1), Chain(Root, b2)}}
  \cup {With(Aside, {"delete", "conflict", "continue", "track"})}

RestackScenarios == CommitScenarios \cup RemoveScenarios

\* The stack changes shape, under fp and under git.
ReshapeScenarios ==
  { With(Chain(Moved, b2), {"create", "empty", "createFails", "insert", "onto", "unbranch",
                    "checkout", "commit"}),
    With(Short(Moved, b2), {"gitBranch", "gitCommit", "track", "onto", "restack"}),
    With(Chain(Moved, b2), {"track", "untrack", "onto", "gitAmend"}),
    With(Chain(Moved, b1), {"track", "untrack", "gitDelete", "gitBranch"}),
    With(Short(Moved, b2), {"create", "onto", "track", "untrack", "gitAmend", "gitDelete"}),
    With(Chain(Moved, b2), Removals \cup {"commandDuringRebase"}) }

\* MCStack
StackScenarios == RestackScenarios \cup ReshapeScenarios

\* MCStack: amends, conflicts and continues.
LiveScenarios ==
  {With(seed, {"live", "amend", "restack", "conflict", "continue", "checkout"})
   : seed \in {Chain(Root, b1), Fan(b1)}}

----------------------------------------------------------------------------
\* MCDeleteFan: a branch with two children is deleted.
DeleteFanScenarios == {With(Fan(b1), {"delete"})}

=============================================================================
