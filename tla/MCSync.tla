------------------------------- MODULE MCSync -------------------------------
(***************************************************************************)
(* TLC instances of Sync: a chain, a fan and a short stack whose branches  *)
(* the remote has merged, closed, changed or put in another order.         *)
(***************************************************************************)
EXTENDS Sync, MCEngine

Remote(on, downstack) ==
  [refs |-> [x \in Branches |-> IF x \in DOMAIN on THEN on[x] ELSE NoCommit],
   downstack |-> downstack]

\* b1 was merged after another commit; trunk was rewritten; nothing happened.
\* Someone added a commit to b1 and restacked b2; someone put b2 below b1.
SomeRemotes ==
  { Remote(Trunk :> <<5, 1>>, <<>>),
    Remote(Trunk :> <<6>> @@ b1 :> <<6, 1, 5>> @@ b2 :> <<6, 1, 5, 2>>, <<b1, b2>>),
    Remote(Trunk :> Root @@ b1 :> <<2, 1>> @@ b2 :> <<2>>, <<b2, b1>>),
    Remote(Trunk :> Root @@ b1 :> <<1>> @@ b3 :> <<1, 6>>, <<b1, b3, b2>>) }

FromElsewhere == {5, 6}
SixPatches == 1..6

SyncScenarios ==
  { With(Chain(Root, b3), {"sync", "conflict", "continue", "crash"}),
    With(Fan(b2), {"sync", "checkout", "pullTrunk"}),
    With(Short(Root, b2), {"get", "commit", "conflict", "continue", "abort"}),
    With(Chain(Root, b1), {"get", "restack", "gitCommit", "checkout"}),
    With(Aside, {"get", "sync"}) }

\* b2 on b1 on trunk, b1 with two commits
Double ==
  Seed(Root, b1 :> Trunk @@ b2 :> b1, b1 :> <<1, 2>> @@ b2 :> <<1, 2, 3>>,
       b1 :> {1, 2} @@ b2 :> {3}, b1)

EditScenarios ==
  { With(Double, {"split", "delete", "navigate"} \cup Interruptions),
    With(Double, {"edit", "gitContinue", "conflict", "continue", "amend", "pullTrunk", "restack"}),
    With(Chain(Root, b3), {"editDownstack", "navigate", "conflict", "continue"}),
    With(Fan(b2), {"editDownstack", "typo", "gitDelete", "restack", "untrack"}),
    With(Chain(Root, b2), {"reset", "trackStack", "gitCommit"}) }

\* MCStack: the commands of fp with and without the remote.
AllScenarios == StackScenarios \cup SyncScenarios \cup EditScenarios \cup LiveScenarios

=============================================================================
