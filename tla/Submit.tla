------------------------------- MODULE Submit -------------------------------
(***************************************************************************)
(* `fp stack submit` and its variants (actions/submit/): the branches of a *)
(* stack are checked, pushed one after the other from trunk, and each gets *)
(* a pull request onto its parent, or has the one it has updated; then     *)
(* every pull request is given a comment that shows the stack.             *)
(*                                                                         *)
(* The command reads the remote branches once, when it begins, and knows   *)
(* the pull requests from the metadata, which it brings up to date before  *)
(* it decides.  It stops at every await: others push, merge, close and     *)
(* retarget, and it may be killed, or refused by the network.              *)
(*                                                                         *)
(* A revision is a number that grows with every rewriting of the branch.   *)
(* Titles, bodies and reviewers are left out.                              *)
(***************************************************************************)
EXTENDS Integers, Sequences, SequencesExt, FiniteSets, TLC

CONSTANTS
  Trunk,
  Branches,   \* the other branches
  Stacks,     \* the functions that give every branch its parent to begin with
  Options,    \* the options a user gives
  MaxChanges, \* bound: what the user does between the commands, and others at any time
  MaxSubmits  \* bound: commands

VARIABLES
  parent, rev, base, \* the stack: parents, revisions, recorded revisions of the parents
  prInfo,            \* the pull requests in the metadata
  remote,            \* the branches at GitHub
  tracking,          \* refs/remotes/origin, which --force-with-lease compares
  pulls,             \* the pull requests at GitHub, by their number
  cmd,               \* the command and its local variables
  left               \* what is left of the bounds

vars == <<parent, rev, base, prInfo, remote, tracking, pulls, cmd, left>>

stack == <<parent, rev, base>>

All == Branches \cup {Trunk}

Absent == 0
Foreign == -1   \* a revision somebody else has pushed

NoInfo == [number |-> 0, base |-> Trunk, state |-> "none", isDraft |-> "unknown"]

NoComment == {}

Idle ==
  [pc |-> "idle", branches |-> <<>>, options |-> [updateOnly |-> FALSE], shas |-> [b \in All |-> Absent],
   valid |-> TRUE, synced |-> FALSE, infos |-> <<>>, at |-> 1, number |-> 0,
   outcome |-> "none", undisturbed |-> TRUE]

Init ==
  /\ parent \in Stacks
  /\ rev = [b \in All |-> 1] /\ base = [b \in Branches |-> 1]
  /\ prInfo = [b \in Branches |-> NoInfo]
  /\ remote = [b \in All |-> IF b = Trunk THEN 1 ELSE Absent]
  /\ tracking = remote
  /\ pulls = <<>>
  /\ cmd = Idle
  /\ left = [changes |-> MaxChanges, submits |-> MaxSubmits]

----------------------------------------------------------------------------
(* The stack.                                                              *)

IsBranchFixed(b) == base[b] = rev[parent[b]]

RECURSIVE Downstack(_), Upstack(_)
Downstack(b) == IF b = Trunk THEN <<>> ELSE Append(Downstack(parent[b]), b)
Upstack(b) ==
  LET children == SetToSeq({c \in Branches : parent[c] = b})
  IN  FlattenSeq([i \in DOMAIN children |-> <<children[i]>> \o Upstack(children[i])])

\* getRelativeStack: parents come before their children.
RelativeStack(b, scope) ==
  CASE scope = "branch" -> <<b>>
    [] scope = "downstack" -> Downstack(b)
    [] scope = "upstack" -> <<b>> \o Upstack(b)
    [] scope = "stack" -> Downstack(b) \o Upstack(b)

----------------------------------------------------------------------------
(* Steps of the command.                                                   *)

Running(pc) == cmd.pc = pc

Current == cmd.infos[cmd.at]

\* A command that has ended keeps for the properties what it was for.
End(outcome) ==
  cmd' = [Idle EXCEPT !.branches = cmd.branches, !.options = cmd.options, !.synced = cmd.synced,
                      !.outcome = outcome, !.undisturbed = cmd.undisturbed]

\* Mutant: what is submitted with its parent need not be restacked.
ValidBasesUnfixed(branches, shas) ==
  \A i \in DOMAIN branches :
    \/ parent[branches[i]] \in ToSet(branches) \cup {Trunk}
    \/ rev[parent[branches[i]]] = shas[parent[branches[i]]]

\* Its parent is trunk, is submitted before it, or is at the remote already.
ValidBases(branches, shas) ==
  \A i \in DOMAIN branches :
    LET b == branches[i]
        p == parent[b]
    IN  IF p = Trunk THEN TRUE
        ELSE IF p \in {branches[k] : k \in 1..(i - 1)} THEN IsBranchFixed(b)
        ELSE rev[p] = shas[p]

\* submitAction up to the validation.  The remote branches are read now, and
\* the bases are checked before the answers about the pull requests arrive.
Begin ==
  /\ Running("idle") /\ left.submits > 0
  /\ \E b \in Branches, o \in Options, selected \in SUBSET Branches :
       LET isSelected(c) == ~o.select \/ c \in selected
           branches == SelectSeq(RelativeStack(b, o.scope), isSelected)
       IN  /\ o.select \/ selected = {}
           /\ cmd' = [Idle EXCEPT !.pc = "sync", !.branches = branches, !.options = o,
                                  !.shas = remote, !.valid = ValidBases(branches, remote)]
  /\ left' = [left EXCEPT !.submits = @ - 1]
  /\ UNCHANGED <<stack, prInfo, remote, tracking, pulls>>

\* syncPrInfo asks for the known pull requests, if there is a token for it;
\* those without an answer stay as they are.
SyncPrInfo ==
  /\ Running("sync")
  /\ \E answered \in SUBSET {b \in ToSet(cmd.branches) : prInfo[b].number # 0} :
       LET known(b) == pulls[prInfo[b].number]
           all == answered = {b \in ToSet(cmd.branches) : prInfo[b].number # 0}
       IN  /\ cmd.options.sync \/ answered = {}
           /\ prInfo' = [b \in Branches |->
                IF b \in answered
                THEN [prInfo[b] EXCEPT !.base = known(b).base, !.state = known(b).state,
                                       !.isDraft = IF known(b).draft THEN "yes" ELSE "no"]
                ELSE prInfo[b]]
           /\ IF cmd.valid THEN cmd' = [cmd EXCEPT !.pc = "prepare", !.synced = cmd.options.sync /\ all]
              ELSE End("refused")
  /\ UNCHANGED <<stack, remote, tracking, pulls, left>>

\* Mutant: a pull request follows its branch, not the parent.
NeedsUpdateOfTheBranch(b, info, o) ==
  rev[b] # cmd.shas[b] \/ o.edit \/ (o.draft /\ info.isDraft # "yes") \/ (o.publish /\ info.isDraft # "no")

\* getPRAction
NeedsUpdate(b, info, o) ==
  \/ parent[b] # info.base
  \/ rev[b] # cmd.shas[b] \/ o.edit
  \/ o.draft /\ info.isDraft # "yes"
  \/ o.publish /\ info.isDraft # "no"

NeedsSubmit(b, info, o) == IF info.number = 0 THEN ~o.updateOnly ELSE NeedsUpdate(b, info, o)

\* The draft status of a new pull request is asked for unless it is given; that
\* of another one stays out of the request unless it is given.
DraftStatus(info, o, answer) ==
  IF o.publish THEN "no"
  ELSE IF o.draft THEN "yes"
  ELSE IF info.number # 0 THEN "unknown"
  ELSE IF o.interactive THEN answer ELSE "yes"

SubmissionInfo(infos, answer) ==
  LET o == cmd.options
      isSubmitted(b) == o.always \/ (~o.dryRun /\ NeedsSubmit(b, infos[b], o))
      submitted == SelectSeq(cmd.branches, isSubmitted)
  IN  [i \in DOMAIN submitted |->
         [head |-> submitted[i], number |-> infos[submitted[i]].number, base |-> parent[submitted[i]],
          draft |-> DraftStatus(infos[submitted[i]], o, answer)]]

Closed == {b \in ToSet(cmd.branches) : prInfo[b].state \in {"MERGED", "CLOSED"}}

\* Who goes on with new pull requests for those that are merged or closed has
\* the information on all of them cleared.
ClearPrInfo(info) == [b \in Branches |-> IF b \in ToSet(cmd.branches) THEN NoInfo ELSE info[b]]

\* validateNoMergedOrClosedBranches, getPRInfoForBranches and shouldAbort.
Prepare ==
  /\ Running("prepare")
  /\ prInfo' \in IF Closed = {} THEN {prInfo}
                 ELSE IF cmd.options.interactive THEN {ClearPrInfo(prInfo)} ELSE {}
  /\ \E answer \in {"yes", "no"} :
       LET infos == SubmissionInfo(prInfo', answer)
       IN  IF cmd.options.dryRun THEN End("dry")
           ELSE IF infos = <<>> THEN End("upToDate")
           ELSE cmd' = [cmd EXCEPT !.pc = "push", !.infos = infos]
  /\ UNCHANGED <<stack, remote, tracking, pulls, left>>

\* git push, with a lease unless --force
Pushable(b) == cmd.options.force \/ remote[b] \in {tracking[b], rev[b]}

PushBranch ==
  /\ Running("push")
  /\ IF Pushable(Current.head)
     THEN /\ remote' = [remote EXCEPT ![Current.head] = rev[Current.head]]
          /\ tracking' = [tracking EXCEPT ![Current.head] = rev[Current.head]]
          /\ cmd' = [cmd EXCEPT !.pc = "request"]
     ELSE End("stale") /\ UNCHANGED <<remote, tracking>>
  /\ UNCHANGED <<stack, prInfo, pulls, left>>

\* What GitHub refuses: a base that is not there, and two open pull requests
\* of one branch onto another.
Acceptable(n, head, onto) ==
  /\ remote[onto] # Absent
  /\ \A k \in DOMAIN pulls \ {n} : ~(pulls[k].state = "OPEN" /\ pulls[k].head = head /\ pulls[k].base = onto)
  /\ n # 0 => pulls[n].state = "OPEN" \/ pulls[n].base = onto

Create ==
  /\ Running("request") /\ Current.number = 0
  /\ IF Acceptable(0, Current.head, Current.base)
     THEN /\ pulls' = Append(pulls, [head |-> Current.head, base |-> Current.base, state |-> "OPEN",
                                     draft |-> Current.draft = "yes", comment |-> NoComment])
          /\ cmd' = [cmd EXCEPT !.pc = "record", !.number = Len(pulls')]
     ELSE End("rejected") /\ UNCHANGED pulls
  /\ UNCHANGED <<stack, prInfo, remote, tracking, left>>

Update ==
  /\ Running("request") /\ Current.number # 0
  /\ IF Acceptable(Current.number, Current.head, Current.base)
     THEN /\ pulls' = [pulls EXCEPT ![Current.number].base = Current.base]
          /\ cmd' = [cmd EXCEPT !.pc = IF Current.draft = "yes" THEN "record" ELSE "ready",
                                !.number = Current.number]
     ELSE End("rejected") /\ UNCHANGED pulls
  /\ UNCHANGED <<stack, prInfo, remote, tracking, left>>

\* markPullRequestReadyForReview, unless it is to be a draft
MarkReady ==
  /\ Running("ready")
  /\ pulls' = [pulls EXCEPT ![cmd.number].draft = FALSE]
  /\ cmd' = [cmd EXCEPT !.pc = "record"]
  /\ UNCHANGED <<stack, prInfo, remote, tracking, left>>

\* The end of submitPullRequest.  Whether it is a draft is not what isDraft says.
Record ==
  /\ Running("record")
  /\ prInfo' = [prInfo EXCEPT ![Current.head] = [@ EXCEPT !.number = cmd.number, !.base = Current.base, !.state = "OPEN"]]
  /\ cmd' = IF cmd.at < Len(cmd.infos) THEN [cmd EXCEPT !.pc = "push", !.at = @ + 1]
            ELSE [cmd EXCEPT !.pc = "comment", !.at = 1]
  /\ UNCHANGED <<stack, remote, tracking, pulls, left>>

----------------------------------------------------------------------------
(* The comment that shows the stack.                                       *)

\* The branch below a branch: the base of its pull request, if it has one.
Below(b) == IF prInfo[b].number # 0 THEN prInfo[b].base ELSE parent[b]

HasPullRequest(b) == prInfo[b].number # 0

\* findRouteToTrunk, which does not end where the bases form a circle.
Route[n \in Nat, b \in All] ==
  IF n = 0 \/ b = Trunk THEN {b} ELSE {b} \cup Route[n - 1, Below(b)]

Reaches(b) == Trunk \in Route[Cardinality(Branches), b]

Commented == SelectSeq(cmd.branches, HasPullRequest)

\* StackCommentBody: the pull requests of the command and what is below them.
Tree ==
  LET shown == UNION {Route[Cardinality(Branches), b] : b \in ToSet(Commented)} \ {Trunk}
  IN  {<<b, Below(b)>> : b \in shown}

\* A comment is found and changed, or it is posted.
Comment ==
  /\ Running("comment")
  /\ IF \E b \in ToSet(Commented) : ~Reaches(b) THEN End("overflow") /\ UNCHANGED pulls
     ELSE IF cmd.at > Len(Commented) THEN End("done") /\ UNCHANGED pulls
     ELSE /\ pulls' = [pulls EXCEPT ![prInfo[Commented[cmd.at]].number].comment = Tree]
          /\ cmd' = [cmd EXCEPT !.at = @ + 1]
  /\ UNCHANGED <<stack, prInfo, remote, tracking, left>>

\* The user stops it, aborts at a question, or a request fails.
Stop ==
  /\ ~Running("idle") /\ End("stopped")
  /\ UNCHANGED <<stack, prInfo, remote, tracking, pulls, left>>

----------------------------------------------------------------------------
(* What the user does between the commands.                                *)

Disturb == cmd' = IF Running("idle") THEN Idle ELSE [cmd EXCEPT !.undisturbed = FALSE]

Change ==
  /\ Running("idle") /\ left.changes > 0
  /\ left' = [left EXCEPT !.changes = @ - 1] /\ Disturb
  /\ UNCHANGED <<prInfo, remote, pulls>>

Amend(b) ==
  /\ Change /\ rev' = [rev EXCEPT ![b] = @ + 1]
  /\ UNCHANGED <<parent, base, tracking>>

Restack(b) ==
  /\ Change /\ ~IsBranchFixed(b)
  /\ rev' = [rev EXCEPT ![b] = @ + 1] /\ base' = [base EXCEPT ![b] = rev[parent[b]]]
  /\ UNCHANGED <<parent, tracking>>

\* The branch is moved onto another one, without what stands on it.
Move(b, p) ==
  /\ Change /\ p # parent[b] /\ p \notin {b} \cup ToSet(Upstack(b))
  /\ parent' = [parent EXCEPT ![b] = p] /\ base' = [base EXCEPT ![b] = rev[p]]
  /\ rev' = [rev EXCEPT ![b] = @ + 1]
  /\ UNCHANGED tracking

Fetch(b) ==
  /\ Change /\ tracking[b] # remote[b] /\ tracking' = [tracking EXCEPT ![b] = remote[b]]
  /\ UNCHANGED stack

----------------------------------------------------------------------------
(* What others do at any time.                                             *)

Event ==
  /\ left.changes > 0 /\ left' = [left EXCEPT !.changes = @ - 1] /\ Disturb
  /\ UNCHANGED <<stack, prInfo, tracking>>

EndPull(n, state) ==
  /\ Event /\ pulls[n].state = "OPEN" /\ pulls' = [pulls EXCEPT ![n].state = state]
  /\ UNCHANGED remote

Retarget(n) ==
  /\ Event /\ pulls[n].state = "OPEN" /\ pulls[n].base # Trunk /\ pulls' = [pulls EXCEPT ![n].base = Trunk]
  /\ UNCHANGED remote

PushByOthers(b) ==
  /\ Event /\ remote[b] # Foreign /\ remote' = [remote EXCEPT ![b] = Foreign]
  /\ UNCHANGED pulls

Next ==
  \/ Begin \/ SyncPrInfo \/ Prepare \/ PushBranch \/ Create \/ Update \/ MarkReady \/ Record
  \/ Comment \/ Stop
  \/ \E b \in Branches : Amend(b) \/ Restack(b) \/ Fetch(b) \/ PushByOthers(b)
  \/ \E b \in Branches, p \in All : Move(b, p)
  \/ \E n \in DOMAIN pulls : Retarget(n) \/ \E state \in {"MERGED", "CLOSED"} : EndPull(n, state)

Spec == Init /\ [][Next]_vars

----------------------------------------------------------------------------
(* Properties                                                              *)

\* The pull request of a branch, as its parent and the remote have it.
IsSubmitted(b) ==
  LET n == prInfo[b].number
  IN  /\ n # 0 /\ pulls[n].head = b /\ pulls[n].state = "OPEN" /\ pulls[n].base = parent[b]
      /\ remote[b] = rev[b]

\* A submit that ends well has found or made the open pull request of every
\* branch it was for, onto its parent and with what the branch holds, whatever
\* was submitted, interrupted, moved and merged before; and the comment of each
\* shows where it stands.  (Without the token that the answers of GitHub take,
\* the metadata may be wrong.)
SubmittedAsStacked ==
  cmd.outcome \in {"done", "upToDate"} /\ cmd.undisturbed /\ cmd.synced =>
    \A b \in ToSet(cmd.branches) :
      /\ IsSubmitted(b) \/ (cmd.options.updateOnly /\ ~HasPullRequest(b))
      /\ (cmd.outcome = "done" /\ HasPullRequest(b)) => <<b, parent[b]>> \in pulls[prInfo[b].number].comment

\* The branches that the command has pushed.
Pushed ==
  LET n == CASE cmd.pc = "push" -> cmd.at - 1
             [] cmd.pc \in {"request", "ready", "record"} -> cmd.at
             [] OTHER -> Len(cmd.infos)
  IN  {cmd.infos[i].head : i \in 1..n}

\* However far a submit gets, a branch is pushed onto what is there of its
\* parent: a pull request never shows the changes of the one below it.
PushedFromTheBottom ==
  cmd.undisturbed /\ ~cmd.options.updateOnly =>
    \A b \in Pushed : parent[b] \in ToSet(cmd.branches) => remote[parent[b]] = base[b]

\* The pull requests that are open are not forgotten, when a submit goes on
\* with new ones for those that are merged or closed.
KeepsOpenPullRequests ==
  \A b \in Branches : HasPullRequest(b) /\ prInfo[b].state = "OPEN" => HasPullRequest(b)'

OpenPullRequestsAreKept == [][KeepsOpenPullRequests]_vars
=============================================================================
