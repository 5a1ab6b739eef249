-------------------------- MODULE RepositoryCache --------------------------
(***************************************************************************)
(* Reference counted access to the Repositories of a GTI server: the       *)
(* operations of RepositoryCache as functions on a record with at least    *)
(*   repositories  a sequence of [root, references, isDisposed]: every     *)
(*                 Repository ever created, with its RefCounted            *)
(*   reposByRoot   the Map from roots to Repositories, in insertion order  *)
(*   references    a sequence of every RepositoryReference handed out      *)
(* Repositories and references are named by their positions.               *)
(***************************************************************************)
EXTENDS Integers, Sequences, FiniteSets, SequencesExt

CONSTANTS
  Clients,   \* the connections of windows to the server
  Cwds,      \* the directories the windows are opened in
  Roots,     \* the roots of repositories
  RootOf,    \* the root git finds for a directory
  Inside,    \* for each root, the directories and roots at or below it
  NoRoot     \* what git finds for a directory in no repository

ASSUME PathsAssumption ==
  /\ NoRoot \notin Roots
  /\ RootOf \in [Cwds -> Roots \cup {NoRoot}]
  /\ Inside \in [Roots -> SUBSET (Cwds \cup Roots)]
  /\ \A root \in Roots : root \in Inside[root]

\* No repository, no reference: `undefined`, or an error in its place.
None == 0

Live(s, i) == ~s.repositories[i].isDisposed

\* lookup: the first Repository in the Map whose root is the path or a prefix
\* of it.
Lookup(s, path) ==
  LET found(k) == LET i == s.reposByRoot[k]
                  IN  Live(s, i) /\ path \in Inside[s.repositories[i].root]
      places == {k \in DOMAIN s.reposByRoot : found(k)}
  IN  IF places = {} THEN None ELSE s.reposByRoot[Min(places)]

\* RefCounted.ref and RefCounted.dispose.
AddReference(s, i) == [s EXCEPT !.repositories[i].references = @ + 1]

DropReference(s, i) ==
  LET left == s.repositories[i].references - 1
  IN  [s EXCEPT !.repositories[i].references = left,
                !.repositories[i].isDisposed = @ \/ left = 0]

\* A promise is "pending" while getRepoInfo runs, "resolved" until its `then`
\* has been called, and "settled" from then on.  `holds` is what unref gives
\* back and `value` the value of the promise, None for an error.
Reference(c, cwd, i) ==
  [client |-> c, cwd |-> cwd, disposed |-> FALSE, holds |-> i, value |-> i,
   promise |-> IF i = None THEN "pending" ELSE "resolved"]

\* getOrCreate up to its return: a known Repository is taken at once, for
\* another directory getRepoInfo is started.
GetOrCreate(s, c, cwd) ==
  LET i == Lookup(s, cwd)
      t == IF i = None THEN s ELSE AddReference(s, i)
  IN  [t EXCEPT !.references = Append(@, Reference(c, cwd, i))]

\* RepositoryReferenceImpl.unref, with the disposeFunc of either path.
Unref(s, r) ==
  LET t == [s EXCEPT !.references[r].disposed = TRUE]
      i == s.references[r].holds
  IN  IF s.references[r].disposed THEN s ELSE IF i = None THEN t ELSE DropReference(t, i)

Resolve(s, r, i) ==
  [s EXCEPT !.references[r].promise = "resolved", !.references[r].value = i,
            !.references[r].holds = i]

\* Map.set: the key of a root keeps its place.
SetByRoot(s, root, i) ==
  LET places == {k \in DOMAIN s.reposByRoot : s.repositories[s.reposByRoot[k]].root = root}
  IN  IF places = {} THEN [s EXCEPT !.reposByRoot = Append(@, i)]
      ELSE [s EXCEPT !.reposByRoot[Min(places)] = i]

Create(s, r, root) ==
  LET i == Len(s.repositories) + 1
      t == SetByRoot(s, root, i)
      repository == [root |-> root, references |-> 1, isDisposed |-> FALSE]
  IN  Resolve([t EXCEPT !.repositories = Append(@, repository)], r, i)

\* Mutant: the second lookup is forgotten.
CreateForReferenceAtOnce(s, r, root) ==
  IF s.references[r].disposed THEN Resolve(s, r, None) ELSE Create(s, r, root)

\* Mutant: a Repository that is re-used is not counted.
CreateOrBorrow(s, r, root) ==
  LET i == Lookup(s, root)
  IN  IF s.references[r].disposed THEN Resolve(s, r, None)
      ELSE IF i # None THEN Resolve(s, r, i) ELSE Create(s, r, root)

\* lookupRepoInfoAndReuseIfPossible once getRepoInfo has found the root.
CreateForReference(s, r, root) ==
  LET i == Lookup(s, root)
  IN  IF s.references[r].disposed THEN Resolve(s, r, None)
      ELSE IF i # None THEN Resolve(AddReference(s, i), r, i) ELSE Create(s, r, root)

=============================================================================
