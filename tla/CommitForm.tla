----------------------------- MODULE CommitForm -----------------------------
(***************************************************************************)
(* The form in the sidebar of a window of GTI (gti-client/src/             *)
(* CommitInfoView) that shows a branch, edits its message and creates or   *)
(* updates a branch with the uncommitted changes.  The message under edit  *)
(* of each branch is kept while others are shown; which of its fields are  *)
(* shown as edited is kept once for all of them and set anew by an effect  *)
(* when another branch, or the other mode, is shown.  The buttons clear    *)
(* the message with a callback that still sees the branch that was shown   *)
(* when the bar of buttons was mounted.                                    *)
(*                                                                         *)
(* A message is its title.  The operations of the form run one at a time;  *)
(* what they do is previewed until their end.  Not modelled: the bulk view *)
(* of several selected branches, and an update that adds a commit.         *)
(***************************************************************************)
EXTENDS Naturals, Sequences, FiniteSets

CONSTANTS
  Branches,   \* those that are there from the start
  Trunk, New, \* the trunk, and the name that fp gives to a created branch
  ParentOf,   \* where the branches of the start stand
  Prs,        \* [Branches -> their pull requests: "none", "OPEN" or another state]
  Typed,      \* what the user types
  NoBranch,
  MaxTurns    \* bound on the operations that run and the changes made by others

\* Optimistic stands for the value that a message of a branch to be created
\* has (type: "optimistic"); "head" is the key of the message of a new branch,
\* and taken not to be the name of one.
Optimistic == "optimistic"

FormAssumption ==
  /\ Trunk \in Branches
  /\ {"", "head", Optimistic, NoBranch} \cap (Branches \cup {New} \cup Typed) = {}

VARIABLES
  repo,       \* [titles, parents, head, dirty]: the repository, which the window knows
  operation,  \* the one that runs, with its preview
  mode,       \* commitMode
  selected,   \* the selected branch, or none
  commitMessages,  \* editedCommitMessages: what was looked up so far
  fields,     \* commitFieldsBeingEdited: [edited, forceWhileOnHead]
  bar,        \* what the callbacks of the buttons see
  turns,
  doubtful    \* the keys whose message is known to differ from what is shown

formVars == <<repo, operation, mode, selected, commitMessages, fields, bar, turns, doubtful>>

NoOp == [kind |-> "none", branch |-> NoBranch, title |-> ""]
NoView == [branch |-> NoBranch, isCommitMode |-> FALSE, isHead |-> FALSE]
NoFields == [edited |-> FALSE, forceWhileOnHead |-> FALSE]

\* The tree with the preview of the running operation: a branch that is being
\* created already is there, under a name made from its title.
Tree(r, o) ==
  CASE o.kind = "commit" ->
         [titles |-> [b \in DOMAIN r.titles \cup {o.title} |->
                       IF b = o.title THEN o.title ELSE r.titles[b]],
          head |-> o.title]
    [] o.kind \in {"amend", "reword"} ->
         [titles |-> [r.titles EXCEPT ![o.branch] = o.title], head |-> r.head]
    [] OTHER -> [titles |-> r.titles, head |-> r.head]

----------------------------------------------------------------------------
(***************************************************************************)
(* What is shown                                                           *)
(***************************************************************************)
\* The selected branch if it is there, else the head.
View(r, o, m, s) ==
  LET tree == Tree(r, o)
      shown == IF s \in DOMAIN tree.titles THEN s ELSE tree.head
  IN  [branch |-> shown, isCommitMode |-> shown = tree.head /\ m = "commit",
       isHead |-> shown = tree.head]

Key(view) == IF view.isCommitMode THEN "head" ELSE view.branch

\* editedCommitMessagesDefaults: the message that a branch has, without the
\* preview; nothing for the branch to create.
Default(r, key) ==
  IF key = "head" THEN "" ELSE IF key \in DOMAIN r.titles THEN r.titles[key] ELSE Optimistic

\* A look up keeps what it finds.
LookUp(r, msgs, key) ==
  [k \in DOMAIN msgs \cup {key} |-> IF k \in DOMAIN msgs THEN msgs[k] ELSE Default(r, key)]

IsPublic(view, m) == m = "amend" /\ view.branch = Trunk

\* The fields that the effect leaves when the branch or the mode changes.
Reset(view, fs, message, title) ==
  IF message = Optimistic THEN NoFields
  ELSE IF fs.forceWhileOnHead /\ view.isHead THEN fs
  ELSE [edited |-> view.isCommitMode \/ message # title, forceWhileOnHead |-> FALSE]

\* Mutant: the effect does not run when only the mode changes.
RenderForBranch(r, o, m, s, msgs, fs) ==
  LET view == View(r, o, m, s)
      looked == LookUp(r, msgs, Key(view))
  IN  /\ repo' = r /\ operation' = o /\ mode' = m /\ selected' = s
      /\ commitMessages' = looked
      /\ fields' = IF View(repo, operation, mode, selected).branch = view.branch THEN fs
                   ELSE Reset(view, fs, looked[Key(view)], Tree(r, o).titles[view.branch])
      /\ bar' = IF IsPublic(view, m) THEN NoView ELSE IF bar = NoView THEN view ELSE bar

\* The window is drawn again: the message is looked up, the effect runs for a
\* view it has not run for, and the bar is mounted or unmounted.
Render(r, o, m, s, msgs, fs) ==
  LET view == View(r, o, m, s)
      looked == LookUp(r, msgs, Key(view))
      before == View(repo, operation, mode, selected)
      isSeen == <<before.branch, before.isCommitMode>> = <<view.branch, view.isCommitMode>>
  IN  /\ repo' = r /\ operation' = o /\ mode' = m /\ selected' = s
      /\ commitMessages' = looked
      /\ fields' = IF isSeen THEN fs
                   ELSE Reset(view, fs, looked[Key(view)], Tree(r, o).titles[view.branch])
      /\ bar' = IF IsPublic(view, m) THEN NoView ELSE IF bar = NoView THEN view ELSE bar

Here == View(repo, operation, mode, selected)
Message == commitMessages[Key(Here)]
Title == Tree(repo, operation).titles[Here.branch]

FormInit ==
  /\ \E h \in Branches, d \in BOOLEAN :
       repo = [titles |-> [b \in Branches |-> b], parents |-> ParentOf, head |-> h, dirty |-> d]
  /\ operation = NoOp /\ mode = "amend" /\ selected = NoBranch
  /\ commitMessages = LookUp(repo, <<>>, Key(Here))
  /\ fields = NoFields
  /\ bar = IF IsPublic(Here, mode) THEN NoView ELSE Here
  /\ turns = 0 /\ doubtful = {}

----------------------------------------------------------------------------
(***************************************************************************)
(* The user                                                                *)
(***************************************************************************)
Draw(o, m, s, msgs, fs) == Render(repo, o, m, s, msgs, fs)

Select(b) ==
  /\ b # Trunk
  /\ Draw(operation, mode, IF selected = b THEN NoBranch ELSE b, commitMessages, fields)
  /\ UNCHANGED <<turns, doubtful>>

\* The choice between a new branch and an update of the head.
SetCommitMode(m) ==
  /\ Here.isHead /\ m # mode
  /\ Draw(operation, m, selected, commitMessages, fields)
  /\ UNCHANGED <<turns, doubtful>>

\* openCommitForm, with or without a title typed beside its button.
OpenCommitForm(which, quickCommitTyped) ==
  /\ repo.dirty
  /\ which = "amend" => repo.head # Trunk /\ quickCommitTyped = ""
  /\ LET typed == which = "commit" /\ quickCommitTyped # ""
         looked == LookUp(repo, commitMessages, "head")
     IN  Draw(operation, which, NoBranch,
              IF typed THEN [looked EXCEPT !["head"] = quickCommitTyped] ELSE commitMessages,
              IF which = "amend" THEN [edited |-> TRUE, forceWhileOnHead |-> TRUE] ELSE fields)
  /\ UNCHANGED <<turns, doubtful>>

StartEditingField ==
  /\ ~fields.edited /\ Message # Optimistic /\ ~IsPublic(Here, mode)
  /\ Draw(operation, mode, selected, commitMessages, [fields EXCEPT !.edited = TRUE])
  /\ UNCHANGED <<turns, doubtful>>

SetEditedField(text) ==
  /\ fields.edited /\ Message \notin {Optimistic, text}
  /\ Draw(operation, mode, selected, [commitMessages EXCEPT ![Key(Here)] = text], fields)
  /\ UNCHANGED <<turns, doubtful>>

\* hasUnsavedEditedCommitMessage; for a new branch always.
HasUnsavedEdits(key) ==
  LET edited == LookUp(repo, commitMessages, key)[key]
  IN  edited # Optimistic /\ (key = "head" \/ edited # Default(repo, key))

\* clearEditedCommitMessage, as the bar sees it: the message takes the value
\* it has, in a bar mounted for a new branch that of the branch below.
Cleared ==
  LET looked == LookUp(repo, LookUp(repo, commitMessages, Key(bar)), bar.branch)
  IN  [looked EXCEPT ![Key(bar)] = looked[bar.branch]]

Cancel ==
  /\ fields.edited /\ ~Here.isCommitMode /\ bar # NoView
  /\ Draw(operation, mode, selected, Cleared, NoFields)
  /\ doubtful' = doubtful \cup (IF Message = Title THEN {} ELSE {Here.branch})
  /\ UNCHANGED turns

\* The question before a cancel is answered with no: only look ups remain.
KeepEditing ==
  /\ fields.edited /\ ~Here.isCommitMode /\ bar # NoView /\ HasUnsavedEdits(Key(bar))
  /\ Draw(operation, mode, selected, LookUp(repo, commitMessages, Key(bar)), fields)
  /\ UNCHANGED <<turns, doubtful>>

AnythingToCommit == repo.dirty \/ (fields.edited /\ ~Here.isCommitMode)

DeselectIfHeadIsSelected == IF bar.isHead /\ selected = bar.branch THEN NoBranch ELSE selected

Turn == turns < MaxTurns /\ turns' = turns + 1

Run(o) == operation = NoOp /\ Turn

\* The button `Create' or `Update'; for a message that cannot be edited it
\* throws.
DoAmendOrCommit ==
  /\ Here.isHead /\ AnythingToCommit /\ bar # NoView /\ Message # Optimistic
  /\ LET o == [kind |-> IF Here.isCommitMode THEN "commit" ELSE "amend", branch |-> Here.branch,
               title |-> Message]
     IN  Run(o) /\ Draw(o, "amend", DeselectIfHeadIsSelected, Cleared, NoFields)
  /\ doubtful' = doubtful \cup (IF Here.isCommitMode THEN {Message} \cap DOMAIN repo.titles ELSE {})

AmendMessage ==
  /\ ~Here.isHead /\ fields.edited /\ bar # NoView /\ Message # Optimistic
  /\ LET o == [kind |-> "reword", branch |-> Here.branch, title |-> Message]
     IN  Run(o) /\ Draw(o, mode, selected, Cleared, NoFields)
  /\ UNCHANGED doubtful

----------------------------------------------------------------------------
\* A pull request can be made of a branch on the trunk, or on a branch that
\* has one, whatever became of it.
IsBranchSubmittable(b) ==
  /\ b # Trunk /\ Prs[b] \in {"none", "OPEN"}
  /\ repo.parents[b] = Trunk \/ Prs[repo.parents[b]] # "none"

\* The branches from b down to the trunk, if each may have a pull request;
\* a function, for the recursion down the stack.
DownstackSubmittable ==
  LET down[n \in 0..Cardinality(Branches), b \in Branches] ==
        IF b = Trunk THEN {} ELSE IF n = 0 THEN {b} ELSE {b} \cup down[n - 1, repo.parents[b]]
  IN  [b \in Branches |->
        LET stack == down[Cardinality(Branches), b]
        IN  IF \A s \in stack : Prs[s] \in {"none", "OPEN"} THEN stack ELSE {}]

\* The buttons that submit are there while there is nothing to commit.
Submit ==
  /\ Here.branch \in Branches /\ ~AnythingToCommit /\ bar # NoView
  /\ \/ IsBranchSubmittable(Here.branch)
     \/ Cardinality(DownstackSubmittable[Here.branch]) > 1
  /\ LET o == [kind |-> "submit", branch |-> Here.branch, title |-> ""]
     IN  Run(o) /\ Draw(o, mode, selected, commitMessages, fields)
  /\ UNCHANGED doubtful

----------------------------------------------------------------------------
(***************************************************************************)
(* The repository                                                          *)
(***************************************************************************)
\* fp branch create, fp commit amend, fp internal-only metaedit; a branch is
\* not created without a title, and an update without one keeps the title.
Effect(name) ==
  CASE operation.kind = "commit" ->
         [titles  |-> [b \in DOMAIN repo.titles \cup {name} |->
                        IF b = name THEN operation.title ELSE repo.titles[b]],
          parents |-> repo.parents, head |-> name, dirty |-> FALSE]
    [] operation.kind = "amend" ->
         [repo EXCEPT !.titles[operation.branch] = IF operation.title = "" THEN @ ELSE operation.title,
                      !.dirty = FALSE]
    [] operation.kind = "reword" -> [repo EXCEPT !.titles[operation.branch] = operation.title]
    [] OTHER -> repo

Succeed(name) ==
  /\ operation # NoOp
  /\ operation.kind = "commit" => operation.title # "" /\ name \notin DOMAIN repo.titles
  /\ Render(Effect(name), NoOp, mode, selected, commitMessages, fields)
  /\ UNCHANGED <<turns, doubtful>>

Fail ==
  /\ operation # NoOp
  /\ Render(repo, NoOp, mode, selected, commitMessages, fields)
  /\ doubtful' = doubtful \cup (IF operation.kind \in {"amend", "reword"} THEN {operation.branch} ELSE {})
  /\ UNCHANGED turns

\* Someone changes the title of a branch, checks another one out, edits files.
Rename(b, title) ==
  /\ operation = NoOp /\ Turn
  /\ Render([repo EXCEPT !.titles[b] = title], operation, mode, selected, commitMessages, fields)
  /\ doubtful' = doubtful \cup {b}

Checkout(b) ==
  /\ operation = NoOp /\ b # repo.head /\ Turn
  /\ Render([repo EXCEPT !.head = b], operation, mode, selected, commitMessages, fields)
  /\ UNCHANGED doubtful

EditFiles ==
  /\ ~repo.dirty /\ operation = NoOp /\ Turn
  /\ Render([repo EXCEPT !.dirty = TRUE], operation, mode, selected, commitMessages, fields)
  /\ UNCHANGED doubtful

FormNext ==
  \/ \E b \in DOMAIN Tree(repo, operation).titles : Select(b)
  \/ \E m \in {"commit", "amend"} : SetCommitMode(m)
  \/ \E m \in {"commit", "amend"}, text \in Typed \cup {""} : OpenCommitForm(m, text)
  \/ StartEditingField \/ Cancel \/ KeepEditing
  \/ \E text \in Typed : SetEditedField(text)
  \/ DoAmendOrCommit \/ AmendMessage \/ Submit
  \/ \E name \in {New, operation.title} : Succeed(name)
  \/ Fail \/ EditFiles
  \/ \E b \in DOMAIN repo.titles : Checkout(b) \/ \E text \in Typed : Rename(b, text)

FormSpec == FormInit /\ [][FormNext]_formVars

----------------------------------------------------------------------------
\* The form sends what it shows: a message that is not shown in a field under
\* edit is the title that is shown, or none.  Excepted are the branches whose
\* edit was cancelled, which keep the edited message (CommitInfoView.tsx:456),
\* whose update failed, whose title someone else changed (the message is
\* looked up once, CommitInfoState.tsx:108), or whose name was typed as the
\* title of a new branch, of which the preview is drawn over them
\* (CommitOperation.ts:56).
ShownIsSent ==
  Message # Optimistic /\ ~IsPublic(Here, mode) /\ Key(Here) \notin doubtful
    => fields.edited \/ Message = Title
=============================================================================
