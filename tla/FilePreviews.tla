---------------------------- MODULE FilePreviews ----------------------------
(***************************************************************************)
(* The uncommitted changes a window shows before the operations it depicts *)
(* have ended (previews.ts, operations/).  Every applier rewrites the list *)
(* the one before has left, but whether it has anything to do it decides   *)
(* by the list that was fetched.                                           *)
(*                                                                         *)
(* A repository has, of every file, the contents in the parent of the      *)
(* branch that is checked out, in the branch, in the index and in the work *)
(* tree.  Copies and renames are left out, conflicts too.                  *)
(***************************************************************************)
EXTENDS Sequences, SequencesExt, FiniteSets

CONSTANTS
  Files,   \* the sequence of the names of files
  Absent   \* the contents of a file that is not there

FileNames == ToSet(Files)

----------------------------------------------------------------------------
(* What git does, which is the business of the server.                     *)

Known(file) == file.index # Absent \/ file.head # Absent

Staged(repo) == {f \in FileNames : repo.files[f].index # repo.files[f].head}

\* Whether the command of an operation succeeds.
Succeeds(op, repo) ==
  CASE op.kind = "add" -> repo.files[op.file].index # Absent \/ repo.files[op.file].work # Absent
    [] op.kind \in {"reset", "revert"} -> Known(repo.files[op.file])
    [] op.kind = "uncommit" -> repo.onBranch
    [] op.kind = "amend" -> repo.onBranch
    [] OTHER -> TRUE

Each(repo, Changed(_)) == [repo EXCEPT !.files = [f \in FileNames |-> Changed(@[f])]]

Added(file) == [file EXCEPT !.index = file.work]
Unstaged(file) == [file EXCEPT !.index = file.head]
Restored(file) == IF Known(file) THEN [file EXCEPT !.index = file.head, !.work = file.head] ELSE file
Cleaned(file) == IF file.index = Absent THEN [file EXCEPT !.work = Absent] ELSE file
Committed(file) == [file EXCEPT !.base = file.head, !.head = file.index]
Amended(file) == [file EXCEPT !.head = file.index]
Uncommitted(file) == [file EXCEPT !.head = file.base]

\* git reset --soft leaves the index as it is.
Effect(op, repo) ==
  CASE op.kind = "add" -> [repo EXCEPT !.files[op.file] = Added(@)]
    [] op.kind = "addAll" -> Each(repo, Added)
    [] op.kind = "reset" -> [repo EXCEPT !.files[op.file] = Unstaged(@)]
    [] op.kind = "resetAll" -> repo
    [] op.kind = "revert" -> [repo EXCEPT !.files[op.file] = Restored(@)]
    [] op.kind = "discard" -> Each(repo, Restored)
    [] op.kind = "purge" -> Each(repo, Cleaned)
    [] op.kind = "commit" -> [Each(repo, Committed) EXCEPT !.onBranch = TRUE]
    [] op.kind = "amend" -> Each(repo, Amended)
    [] op.kind = "uncommit" -> [Each(repo, Uncommitted) EXCEPT !.onBranch = FALSE]

----------------------------------------------------------------------------
(* fp internal-only status                                                 *)

Change(from, to) ==
  IF from = to THEN "none" ELSE IF from = Absent THEN "add" ELSE IF to = Absent THEN "remove" ELSE "modify"

\* The two letters of git status, as a record of what they say.
Letters(file) ==
  IF file.index = Absent /\ file.head = Absent
  THEN [index |-> "none", work |-> IF file.work = Absent THEN "none" ELSE "untracked"]
  ELSE IF file.index = Absent THEN [index |-> "remove", work |-> "none"]
  ELSE [index |-> Change(file.head, file.index), work |-> Change(file.index, file.work)]

\* statusFromStatusCode and interactiveStatusFromStatus
StatusOf(letters) ==
  IF letters.work = "untracked" THEN [staged |-> "no", type |-> "add"]
  ELSE IF letters.index = "none" THEN [staged |-> "no", type |-> letters.work]
  ELSE [staged |-> IF letters.work = "none" THEN "full" ELSE "partly", type |-> letters.index]

\* A file that was removed from the index only has a second entry.
EntriesOf(f, file) ==
  LET entry(letters) == [path |-> f, status |-> StatusOf(letters)]
      letters == Letters(file)
      leftOver == file.head # Absent /\ file.index = Absent /\ file.work # Absent
  IN  IF letters = [index |-> "none", work |-> "none"] THEN <<>>
      ELSE <<entry(letters)>>
             \o IF leftOver THEN <<entry([index |-> "none", work |-> "untracked"])>> ELSE <<>>

\* getStatus
Status(repo) == FlattenSeq([i \in DOMAIN Files |-> EntriesOf(Files[i], repo.files[Files[i]])])

\* The files of the commit that is checked out.
FilesChanged(repo) ==
  LET entries(f, file) ==
        IF file.base = file.head THEN <<>>
        ELSE <<[path |-> f, status |-> [staged |-> "full", type |-> Change(file.base, file.head)]]>>
  IN  FlattenSeq([i \in DOMAIN Files |-> entries(Files[i], repo.files[Files[i]])])

\* The changes, and what the window knows of the head.
Context(repo) ==
  [changes |-> Status(repo), onBranch |-> repo.onBranch, committed |-> FilesChanged(repo)]

----------------------------------------------------------------------------
(* Appliers.                                                               *)

Has(changes, Is(_)) == \E i \in DOMAIN changes : Is(changes[i])

Unadded(change) == change.status.staged \in {"no", "partly"}
Resettable(change) == change.status.staged \in {"full", "partly"}
Discardable(change) == Resettable(change) \/ change.status = [staged |-> "no", type |-> "remove"]
Purgeable(change) == change.status = [staged |-> "no", type |-> "add"]

Paths(changes) == {changes[i].path : i \in DOMAIN changes}

Reset(changes, paths, staged) ==
  [i \in DOMAIN changes |->
    IF changes[i].path \in paths THEN [changes[i] EXCEPT !.status.staged = staged] ELSE changes[i]]

\* makeOptimisticUncommittedChangesApplier returns undefined.
NoApplier == <<[path |-> Absent, status |-> [staged |-> "no", type |-> "none"]]>>

\* An applier, given what was fetched, changes what the one before has left.
AddApplier(op, fetched, changes) ==
  LET done(c) == c.path = op.file /\ ~Unadded(c)
  IN  IF Has(fetched, done) THEN NoApplier ELSE Reset(changes, {op.file}, "full")

AddAllApplier(fetched, changes) == IF Has(fetched, Unadded) THEN Reset(changes, Paths(changes), "full") ELSE NoApplier

SoftResetApplier(op, fetched, changes) ==
  LET done(c) == c.path = op.file /\ ~Resettable(c)
  IN  IF Has(fetched, done) THEN NoApplier ELSE Reset(changes, {op.file}, "no")

SoftResetAllApplier(fetched, changes) == IF Has(fetched, Resettable) THEN Reset(changes, Paths(changes), "no") ELSE NoApplier

\* The files to hide are the characters of the path of the file, and a path has
\* more than one.
RevertApplier(fetched, changes) == NoApplier

DiscardApplier(fetched, changes) ==
  LET stays(c) == ~Discardable(c)
  IN  IF Has(fetched, Discardable) THEN SelectSeq(changes, stays) ELSE NoApplier

PurgeApplier(fetched, changes) ==
  LET stays(c) == ~Purgeable(c)
  IN  IF Has(fetched, Purgeable) THEN SelectSeq(changes, stays) ELSE NoApplier

\* That of a new branch, and that of an amended one.
CommitApplier(fetched) == IF fetched = <<>> THEN NoApplier ELSE <<>>

UncommitApplier(op, fetched, changes) ==
  LET new(c) == c.path \notin Paths(fetched)
  IN  IF Paths(op.files) \subseteq Paths(fetched) THEN NoApplier
      ELSE changes \o SelectSeq(op.files, new)

Applier(op, fetched, changes) ==
  CASE op.kind = "add" -> AddApplier(op, fetched, changes)
    [] op.kind = "addAll" -> AddAllApplier(fetched, changes)
    [] op.kind = "reset" -> SoftResetApplier(op, fetched, changes)
    [] op.kind = "resetAll" -> SoftResetAllApplier(fetched, changes)
    [] op.kind = "revert" -> RevertApplier(fetched, changes)
    [] op.kind = "discard" -> DiscardApplier(fetched, changes)
    [] op.kind = "purge" -> PurgeApplier(fetched, changes)
    [] op.kind \in {"commit", "amend"} -> CommitApplier(fetched)
    [] op.kind = "uncommit" -> UncommitApplier(op, fetched, changes)

Resolved(op, context) == Applier(op, context.changes, <<>>) = NoApplier

\* applyPreviewsToChangedFiles
WithPreviews(ops, context) ==
  LET step(changes, op) ==
        IF Resolved(op, context) THEN changes ELSE Applier(op, context.changes, changes)
  IN  [context EXCEPT !.changes = FoldLeft(step, @, ops)]

----------------------------------------------------------------------------
(* The window.                                                             *)

Visible(shown) == ToSet(shown.changes)

\* The check box and the buttons of a file.
FileRequests(changes) ==
  LET of(Is(_), kind) == {<<[kind |-> kind, file |-> c.path]>> : c \in {d \in ToSet(changes) : Is(d)}}
      staged(c) == c.status.staged = "full"
      revertable(c) == c.status.staged # "partly" /\ c.status.type # "add"
  IN  of(Unadded, "add") \cup of(staged, "reset") \cup of(revertable, "revert")

When(offered, kinds) == IF offered THEN {[i \in DOMAIN kinds |-> [kind |-> kinds[i]]]} ELSE {}

\* The buttons of all files.  To discard is two operations.
AllFilesRequests(changes) ==
  LET staged(c) == c.status.staged = "full"
  IN  When(Has(changes, Unadded), <<"addAll">>) \cup When(Has(changes, staged), <<"resetAll">>)
        \cup When(changes # <<>>, <<"discard", "purge">>)

UncommitRequests(fetched) ==
  IF fetched.onBranch THEN {<<[kind |-> "uncommit", files |-> fetched.committed]>>} ELSE {}

Requests(fetched, shown) ==
  LET changes == shown.changes
  IN  FileRequests(changes) \cup AllFilesRequests(changes) \cup UncommitRequests(fetched)
        \cup When(changes # <<>>, <<"commit">>)
        \cup When(changes # <<>> /\ fetched.onBranch, <<"amend">>)

\* No file was staged and is gone since, or is back since it was removed: then
\* its status says less than its letters.
Plain(file) ==
  /\ file.index = Absent => file.head = Absent \/ file.work = Absent
  /\ file.work = Absent => file.index \in {Absent, file.head}

\* Where the appliers follow the commands: of a file that no operation before
\* has changed; a commit takes what is staged only, though everything is shown
\* to go; to discard hides no change of the work tree; and a revert or a reset
\* of all files shows nothing of what it does, or what it does not do.
Faithful(ops, i, repo) ==
  LET op == ops[i]
      before == {ops[k] : k \in 1..(i - 1)}
      unstaged == {f \in FileNames : repo.files[f].work # repo.files[f].index}
      changed == {f \in FileNames : repo.files[f].work # repo.files[f].head \/ f \in Staged(repo)}
  IN  /\ Succeeds(op, repo) /\ \A f \in FileNames : Plain(repo.files[f])
      /\ CASE op.kind \in {"add", "reset"} -> \A b \in before : "file" \in DOMAIN b /\ b.file # op.file
           [] op.kind = "addAll" -> \A b \in before : b.kind \in {"add", "addAll"}
           [] op.kind = "discard" -> /\ before = {}
                                     /\ \A c \in ToSet(Status(repo)) : Purgeable(c) \/ Discardable(c)
           [] op.kind = "purge" -> \A b \in before : b.kind = "discard"
           [] op.kind \in {"commit", "amend"} -> unstaged = {}
           [] op.kind = "uncommit" -> before = {} /\ Paths(op.files) \cap changed = {}
           [] op.kind \in {"revert", "resetAll"} -> FALSE
=============================================================================
