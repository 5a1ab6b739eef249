----------------------------- MODULE MCCommand -----------------------------
(***************************************************************************)
(* Parts of what the commands of fp do, checked in one run: they read      *)
(* their configuration files (ConfigFiles), load the branches              *)
(* (ParseBranches), draw them (StackLog), submit them (Submit) and find    *)
(* out which ones were merged (MergedBranches).                            *)
(*                                                                         *)
(* There are trunk and three more branches to load, four to draw, two to   *)
(* submit and one to be merged.  For loading, the                          *)
(* disks are chosen in two families.  In Shapes every branch may name any  *)
(* other branch, itself, nobody or a missing branch, so that every cycle   *)
(* and every order of four branches occurs.  In Stacks the names form a    *)
(* chain and the revisions vary, so that fixed, kept and bad parent        *)
(* revisions occur at every height.                                        *)
(***************************************************************************)
EXTENDS ParseBranches, ConfigFiles, MergedBranches, TLC

CONSTANTS
  b1, b2, b3, b4,  \* branches
  p1, p2,          \* patches
  k1, k2,          \* commands
  Parts            \* the parts to check

VARIABLES
  part,
  stack, current, request, lines,
  parent, rev, base, prInfo, remote, tracking, pulls, cmd, left

logVars == <<stack, current, request, lines>>
submitVars == <<parent, rev, base, prInfo, remote, tracking, pulls, cmd, left>>

----------------------------------------------------------------------------
(***************************************************************************)
(* Loading                                                                 *)
(***************************************************************************)

MCBranches == {Trunk, b1, b2, b3}
MCPatches  == {p1, p2}

Top == {b1, b2, b3}
Histories == {<<p1>>, <<p2>>, <<p1, p2>>}

DiskOf(refs, parents, prev) ==
  [refs |-> refs,
   meta |-> [b \in MCBranches |-> [parent |-> parents[b], rev |-> prev[b]]]]

\* Every parent name, trunk's own metadata included; every commit the same.
Shapes ==
  { DiskOf([b \in MCBranches |-> IF b \in gone THEN NoCommit ELSE <<>>],
           [b \in MCBranches |-> IF b = Trunk THEN t ELSE up[b]],
           [b \in MCBranches |-> <<>>])
    : gone \in {{}, {b3}}, t \in {NoBranch, b1},
      up \in [Top -> MCBranches \cup {NoBranch}] }

\* b3 on b2 on b1 on trunk, with every mixture of diverging revisions.
Stacks ==
  { DiskOf([b \in MCBranches |-> IF b = Trunk THEN <<>> ELSE tip[b]],
           [b \in MCBranches |-> CASE b = b1 -> Trunk [] b = b2 -> b1
                                   [] b = b3 -> b2    [] OTHER  -> NoBranch],
           [b \in MCBranches |-> IF b = Trunk THEN NoCommit ELSE prev[b]])
    : tip \in [Top -> Histories], prev \in [Top -> {NoCommit, <<p1>>, <<p2>>}] }

MCDisks == Shapes \cup Stacks

----------------------------------------------------------------------------
(***************************************************************************)
(* Configuration files                                                     *)
(***************************************************************************)
\* A scenario with the given kinds of commands and events.
Scenario(kinds, setUp, happens) ==
  [kinds |-> kinds, setUp |-> setUp, overlapping |-> "overlapping" \in happens,
   kills |-> "kills" \in happens, time |-> "time" \in happens, releases |-> "releases" \in happens]

MCScenarios ==
  { Scenario({"init", "other", "name"}, FALSE, {"overlapping", "kills"}),
    Scenario({"tips"}, FALSE, {"releases"}),
    Scenario(UserCommands, FALSE, {"kills"}),
    Scenario({"auth", "set-config"}, TRUE, {"overlapping"}),
    Scenario({"owner", "remote"}, TRUE, {"time", "kills"}) }

----------------------------------------------------------------------------
(***************************************************************************)
(* The picture                                                             *)
(***************************************************************************)
Picture == INSTANCE StackLog WITH Order <- <<b1, b2, b3, b4>>, parent <- stack

ASSUME Picture!TrunkIsApart

----------------------------------------------------------------------------
(***************************************************************************)
(* Submitting: a stack of two branches, which the user may move side by    *)
(* side, and the options that the four submit commands are used with       *)
(***************************************************************************)
Plain ==
  [scope |-> "stack", select |-> FALSE, sync |-> TRUE, updateOnly |-> FALSE, draft |-> FALSE,
   publish |-> FALSE, edit |-> FALSE, always |-> FALSE, force |-> FALSE, interactive |-> FALSE,
   dryRun |-> FALSE]

SubmitOptions ==
  {Plain,
   [Plain EXCEPT !.interactive = TRUE, !.publish = TRUE, !.select = TRUE],
   [Plain EXCEPT !.scope = "branch", !.draft = TRUE, !.force = TRUE],
   [Plain EXCEPT !.scope = "downstack", !.updateOnly = TRUE, !.sync = FALSE],
   [Plain EXCEPT !.scope = "upstack", !.always = TRUE, !.edit = TRUE, !.interactive = TRUE],
   [Plain EXCEPT !.dryRun = TRUE]}

Submission == INSTANCE Submit
  WITH Branches <- {b1, b2}, Stacks <- {(b1 :> Trunk) @@ (b2 :> b1)}, Options <- SubmitOptions,
       MaxChanges <- 2, MaxSubmits <- 2

----------------------------------------------------------------------------
NoLoad == disk = (CHOOSE d \in Disks : TRUE) /\ Init
NoFiles == FilesInit /\ world.scenario = CHOOSE s \in Scenarios : TRUE
NoPicture == stack = 0 /\ current = 0 /\ request = 0 /\ lines = 0
NoSubmission ==
  /\ parent = 0 /\ rev = 0 /\ base = 0 /\ prInfo = 0 /\ remote = 0 /\ tracking = 0
  /\ pulls = 0 /\ cmd = 0 /\ left = 0
NoMerging == branch = <<[f \in Paths |-> CHOOSE c \in Contents : TRUE]>> /\ pr = "none" /\ MergedInit

InitOfParts ==
  /\ part \in Parts
  /\ \/ part = "load" /\ Init /\ NoFiles /\ NoPicture /\ NoSubmission /\ NoMerging
     \/ part = "files" /\ FilesInit /\ NoLoad /\ NoPicture /\ NoSubmission /\ NoMerging
     \/ part = "log" /\ Picture!Init /\ NoLoad /\ NoFiles /\ NoSubmission /\ NoMerging
     \/ part = "submit" /\ Submission!Init /\ NoLoad /\ NoFiles /\ NoPicture /\ NoMerging
     \/ part = "merged" /\ MergedInit /\ NoLoad /\ NoFiles /\ NoPicture /\ NoSubmission

Load ==
  part = "load" /\ Next /\ UNCHANGED <<part, fileVars, logVars, submitVars, mergedVars>>
Configure ==
  part = "files" /\ FilesNext /\ UNCHANGED <<part, vars, logVars, submitVars, mergedVars>>
Draw ==
  part = "log" /\ Picture!Next /\ UNCHANGED <<part, vars, fileVars, submitVars, mergedVars>>
SubmitStack ==
  part = "submit" /\ Submission!Next /\ UNCHANGED <<part, vars, fileVars, logVars, mergedVars>>
Clean ==
  part = "merged" /\ MergedNext /\ UNCHANGED <<part, vars, fileVars, logVars, submitVars>>

NextOfParts == Load \/ Configure \/ Draw \/ SubmitStack \/ Clean

allVars == <<part, vars, fileVars, logVars, submitVars, mergedVars>>

SpecOfParts == InitOfParts /\ [][NextOfParts]_allVars /\ WF_allVars(Load)

\* The property of ParseBranches under the fairness of a loop that runs on.
LoadsEnd == part = "load" => EveryLoadEnds

\* The properties of StackLog.
PictureShowsTheTree == part = "log" => Picture!PictureShowsTheTree

\* The properties of Submit.
SubmittedAsStacked == part = "submit" => Submission!SubmittedAsStacked
PushedFromTheBottom == part = "submit" => Submission!PushedFromTheBottom
OpenPullRequestsAreKept == [][part = "submit" => Submission!KeepsOpenPullRequests]_submitVars

=============================================================================
