---------------------------- MODULE DiffContent ----------------------------
(***************************************************************************)
(* The left sides of the diffs that VS Code shows: documents whose content *)
(* GraphiteDiffContentProvider asks the Repository of the file for, one    *)
(* Repository for each folder of the workspace (VSCodeRepo).               *)
(*                                                                         *)
(* git and VS Code are external.  Every commit changes every file, so that *)
(* the commit stands for the content of a file in it.  VS Code asks for a  *)
(* document that is shown, or changed, once more, and forgets the answers  *)
(* it still waited for.                                                    *)
(***************************************************************************)
EXTENDS RepositoryCache, TLC

CONSTANTS
  Folders,      \* the directories a workspace may have as its folders,
  DiffFiles,    \* and the files of documents: the Cwds are these two
  Documents,    \* the GraphiteDiffEncodedUris: [file, type, ref]
  DiffBranches, \* the branches of each repository, all of them on the trunk
  DiffTrunk,    \* the trunk, checked out at first
  NoRef,        \* no branch: what a comparison without a hash has in its place
  MaxItems,     \* the size of the LRU
  MaxCats,      \* MAX_SIMULTANEOUS_CAT_CALLS
  MaxCommits,   \* bound: commits made in all repositories together
  MaxAdded,     \* bound: how often a folder is added
  MaxAsked      \* bound: requests on their way when one more is made

DiffAssumption ==
  /\ Cwds = Folders \cup DiffFiles /\ DiffTrunk \in DiffBranches /\ NoRef \notin DiffBranches
  /\ Documents \subseteq [file : DiffFiles, type : {"uncommitted", "head", "stack"},
                          ref : DiffBranches \cup {NoRef}]
  /\ {MaxItems, MaxCats} \subseteq Nat \ {0}
  /\ {MaxCommits, MaxAdded, MaxAsked} \subseteq Nat

VARIABLES
  head, commits,      \* of each root: the branch checked out, the commits of the branches
  repositories, reposByRoot, references,  \* see RepositoryCache
  knownRepos,         \* the reference of each folder of the workspace
  smartlogCommits,    \* the head each Repository has fetched, and its commit
  headCommit,         \* the head each subscription to the head has seen last
  activeUris,         \* activeUrisByRepo; those of "unknown" are under None
  fileContents,       \* the LRU: a sequence of [uri, content], the oldest first
  cats,               \* the queue of each Repository's catLimiter, the running ones first
  open, shown, told   \* the documents VS Code shows, their contents, those that changed

repositoryVars == <<repositories, reposByRoot, references, knownRepos>>
gitVars == <<head, commits>>
providerVars == <<headCommit, activeUris, fileContents>>
editorVars == <<open, shown, told>>
diffVars == <<gitVars, repositoryVars, smartlogCommits, providerVars, cats, editorVars>>

NoHead == [branch |-> NoRef, commit |-> 0]
Unread == 0
Failed == -1      \* "", for whatever made `cat` fail
Nothing == -2     \* null: no Repository

DiffInit ==
  /\ head = [root \in Roots |-> DiffTrunk]
  /\ commits = [root \in Roots |-> [b \in DiffBranches |-> IF b = DiffTrunk THEN <<1, 2>> ELSE <<3>>]]
  /\ repositories = <<>> /\ reposByRoot = <<>> /\ references = <<>>
  /\ knownRepos = [f \in {} |-> None]
  /\ smartlogCommits = <<>> /\ headCommit = <<>> /\ cats = <<>>
  /\ activeUris = [i \in {None} |-> {}] /\ fileContents = <<>>
  /\ open = {} /\ shown = [u \in Documents |-> Nothing] /\ told = {}

----------------------------------------------------------------------------
(* git                                                                     *)

LastCommit == Max(UNION {Range(commits[x[1]][x[2]]) : x \in Roots \X DiffBranches})

CheckoutIn(root, b) ==
  /\ b # head[root] /\ head' = [head EXCEPT ![root] = b]
  /\ UNCHANGED <<commits, repositoryVars, smartlogCommits, providerVars, cats, editorVars>>

\* A commit is made on the branch that is checked out, or amended.
Commit(root, amend) ==
  LET old == commits[root][head[root]]
      below == IF amend THEN Front(old) ELSE old
  IN  /\ LastCommit < MaxCommits + 3
      /\ commits' = [commits EXCEPT ![root][head[root]] = Append(below, LastCommit + 1)]
      /\ UNCHANGED <<head, repositoryVars, smartlogCommits, providerVars, cats, editorVars>>

Tip(root, b) == Last(commits[root][b])

\* `gt internal-only relative-cat`, with the arguments of catArgs.
RelativeCat(root, u) ==
  LET b == IF u.ref = NoRef THEN head[root] ELSE u.ref
      own == commits[root][b]
      before == IF Len(own) > 1 THEN own[Len(own) - 1] ELSE commits[root][DiffTrunk][1]
  IN  CASE u.type = "uncommitted" -> Tip(root, head[root])
        [] u.type = "head" -> before
        [] u.type = "stack" -> IF b = DiffTrunk THEN before ELSE Tip(root, DiffTrunk)

----------------------------------------------------------------------------
(* The LRU and the limiter of `cat`s                                       *)

IsCached(lru, u) == \E k \in DOMAIN lru : lru[k].uri = u
Place(lru, u) == CHOOSE k \in DOMAIN lru : lru[k].uri = u
Without(lru, u) == IF IsCached(lru, u) THEN RemoveAt(lru, Place(lru, u)) ELSE lru

\* LRU.get makes an entry the newest one, LRU.set drops the oldest one.
Refreshed(lru, u) ==
  IF IsCached(lru, u) THEN Append(Without(lru, u), lru[Place(lru, u)]) ELSE lru

Stored(lru, u, content) ==
  LET all == Append(Without(lru, u), [uri |-> u, content |-> content])
  IN  IF Len(all) > MaxItems THEN Tail(all) ELSE all

\* The calls of a RateLimiter start in their order, so many at a time.
Running(i) == 1..Min({MaxCats, Len(cats[i])})

Asked == Len(FlattenSeq(cats))

----------------------------------------------------------------------------
(* GraphiteDiffContentProvider                                             *)

Cache == [repositories |-> repositories, reposByRoot |-> reposByRoot, references |-> references]

\* The roots of the Repositories in the cache, disposed ones among them.
KnownRoots(s) == {s.repositories[i].root : i \in Range(s.reposByRoot)}

OwnedBy(s, uris) == {u \in uris : \E root \in KnownRoots(s) : u.file \in Inside[root]}

\* The callback of onChangeActiveRepos: documents without a Repository that
\* have one now are changed; the head of every Repository is subscribed to
\* again, and a head that is known already counts as changed.
OnChangeActiveRepos(s) ==
  LET fixed == OwnedBy(s, activeUris[None])
      known(i) == IF i \in DOMAIN smartlogCommits THEN smartlogCommits[i] ELSE NoHead
      changed == {i \in Range(s.reposByRoot) : known(i) # NoHead}
  IN  /\ activeUris' = [i \in DOMAIN activeUris \cup DOMAIN s.repositories |->
                          IF i = None THEN activeUris[None] \ fixed
                          ELSE IF i \in DOMAIN activeUris THEN activeUris[i] ELSE {}]
      /\ headCommit' = [i \in DOMAIN s.repositories |-> known(i)]
      /\ fileContents' = IF changed = {} THEN fileContents ELSE <<>>
      /\ told' = told \cup (open \cap (fixed \cup UNION {activeUris[i] : i \in changed}))

\* The callback of subscribeToHeadCommit.
OnHeadCommit(i) ==
  /\ fileContents' = <<>>
  /\ told' = told \cup (open \cap activeUris[i])

Forget(u) == [i \in DOMAIN cats |->
  [k \in DOMAIN cats[i] |-> [cats[i][k] EXCEPT !.wanted = @ /\ cats[i][k].uri # u]]]

\* Mutant: only documents in a Repository are remembered.
RememberedInRepositories(i, u) ==
  IF i = None THEN activeUris ELSE [activeUris EXCEPT ![i] = @ \cup {u}]

Remembered(i, u) == [activeUris EXCEPT ![i] = @ \cup {u}]

\* provideTextDocumentContent up to its first await.
ProvideTextDocumentContent(u) ==
  LET i == Lookup(Cache, u.file)
      hit == i # None /\ IsCached(fileContents, u)
      answer == IF hit THEN fileContents[Place(fileContents, u)].content ELSE Nothing
      call == [uri |-> u, content |-> Unread, wanted |-> TRUE]
  IN  /\ Asked < MaxAsked
      /\ activeUris' = Remembered(i, u)
      /\ fileContents' = IF i = None THEN fileContents ELSE Refreshed(fileContents, u)
      /\ IF i = None \/ hit THEN cats' = Forget(u) /\ shown' = [shown EXCEPT ![u] = answer]
         ELSE cats' = [Forget(u) EXCEPT ![i] = Append(@, call)] /\ UNCHANGED shown
      /\ told' = told \ {u}
      /\ UNCHANGED <<gitVars, repositoryVars, smartlogCommits, headCommit>>

\* VS Code shows a document, for the first time or again, or shows its change.
Show(u) == ProvideTextDocumentContent(u) /\ open' = open \cup {u}
ShowChange(u) == u \in told /\ ProvideTextDocumentContent(u) /\ UNCHANGED open

Close(u) ==
  /\ u \in open
  /\ open' = open \ {u} /\ told' = told \ {u} /\ shown' = [shown EXCEPT ![u] = Nothing]
  /\ cats' = Forget(u)
  /\ activeUris' = [i \in DOMAIN activeUris |-> activeUris[i] \ {u}]
  /\ UNCHANGED <<gitVars, repositoryVars, smartlogCommits, headCommit, fileContents>>

\* git reads the file while `cat` runs, or fails to.
ReadFile(i, k) ==
  /\ k \in Running(i) /\ cats[i][k].content = Unread
  /\ \E content \in {RelativeCat(repositories[i].root, cats[i][k].uri), Failed} :
       cats' = [cats EXCEPT ![i][k].content = content]
  /\ UNCHANGED <<gitVars, repositoryVars, smartlogCommits, providerVars, editorVars>>

\* `cat` ends, and provideTextDocumentContent goes on.
EndCat(i, k) ==
  LET call == cats[i][k]
  IN  /\ k \in Running(i) /\ call.content # Unread
      /\ fileContents' = Stored(fileContents, call.uri, call.content)
      /\ shown' = IF call.wanted THEN [shown EXCEPT ![call.uri] = call.content] ELSE shown
      /\ cats' = [cats EXCEPT ![i] = RemoveAt(@, k)]
      /\ UNCHANGED <<gitVars, repositoryVars, smartlogCommits, headCommit, activeUris, open, told>>

----------------------------------------------------------------------------
(* The Repositories                                                        *)

Keep(s) ==
  /\ repositories' = s.repositories /\ reposByRoot' = s.reposByRoot /\ references' = s.references

\* A Repository that is created is announced to the provider.
BecomesCache(s) ==
  /\ Keep(s)
  /\ IF Len(s.repositories) = Len(repositories)
     THEN UNCHANGED <<smartlogCommits, providerVars, cats, told>>
     ELSE /\ OnChangeActiveRepos(s)
          /\ smartlogCommits' = Append(smartlogCommits, NoHead)
          /\ cats' = Append(cats, <<>>)

\* updateRepos, for a folder that is added or removed.
AddFolder(f) ==
  LET s == GetOrCreate(Cache, "workspace", f)
  IN  /\ f \notin DOMAIN knownRepos /\ Len(references) < MaxAdded
      /\ BecomesCache(s)
      /\ knownRepos' = (f :> Len(s.references)) @@ knownRepos
      /\ UNCHANGED <<gitVars, open, shown>>

RemoveFolder(f) ==
  /\ f \in DOMAIN knownRepos
  /\ BecomesCache(Unref(Cache, knownRepos[f]))
  /\ knownRepos' = [g \in DOMAIN knownRepos \ {f} |-> knownRepos[g]]
  /\ UNCHANGED <<gitVars, open, shown>>

GetRepoInfoEnds(r) ==
  LET root == RootOf[references[r].cwd]
  IN  /\ references[r].promise = "pending"
      /\ BecomesCache(IF root = NoRoot THEN Resolve(Cache, r, None)
                      ELSE CreateForReference(Cache, r, root))
      /\ UNCHANGED <<gitVars, knownRepos, open, shown>>

\* fetchSmartlogCommits, and onData of subscribeToHeadCommit: only another
\* branch counts as a change.  A disposed Repository fetches no more.
FetchSmartlogCommits(i) ==
  LET root == repositories[i].root
      new == [branch |-> head[root], commit |-> Tip(root, head[root])]
      changed == new.branch # headCommit[i].branch
  IN  /\ Live(Cache, i) /\ new # smartlogCommits[i]
      /\ smartlogCommits' = [smartlogCommits EXCEPT ![i] = new]
      /\ headCommit' = IF changed THEN [headCommit EXCEPT ![i] = new] ELSE headCommit
      /\ IF changed THEN OnHeadCommit(i) ELSE UNCHANGED <<fileContents, told>>
      /\ UNCHANGED <<gitVars, repositoryVars, activeUris, cats, open, shown>>

DiffNext ==
  \/ \E root \in Roots : (\E b \in DiffBranches : CheckoutIn(root, b)) \/ \E amend \in BOOLEAN : Commit(root, amend)
  \/ \E f \in Folders : AddFolder(f) \/ RemoveFolder(f)
  \/ \E r \in DOMAIN references : GetRepoInfoEnds(r)
  \/ \E u \in Documents : Show(u) \/ ShowChange(u) \/ Close(u)
  \/ \E i \in DOMAIN cats : FetchSmartlogCommits(i) \/ \E k \in Running(i) : ReadFile(i, k) \/ EndCat(i, k)

DiffSpec == DiffInit /\ [][DiffNext]_diffVars

----------------------------------------------------------------------------
(* Properties                                                              *)

\* Nothing is on its way that could change what a document shows.
IsQuiet ==
  /\ told = {} /\ \A i \in DOMAIN cats : cats[i] = <<>>
  /\ \A r \in DOMAIN references : references[r].promise # "pending"

\* A document that is opened before the Repository of its file is known, or
\* while it is set up, shows its content in the end: it is remembered, and
\* asked for again, whatever comes between (DiffContentProvider.ts:49-72).
ShownOnceFound ==
  IsQuiet => \A u \in open : Lookup(Cache, u.file) # None => shown[u] # Nothing

\* "Whenever the head commit changes, it means our comparisons in that repo
\* are no longer valid, for example checking out a new commit or making a new
\* commit changes the comparison" (DiffContentProvider.ts:76): when another
\* head commit is fetched, a document that shows its file as the head before
\* had it is asked for again.
HeadIsTold ==
  \A i \in DOMAIN smartlogCommits : smartlogCommits'[i] # smartlogCommits[i] =>
    \A u \in open \cap activeUris[i] :
      u.type = "uncommitted" /\ shown[u] = smartlogCommits[i].commit => u \in told'

ToldOfANewHead == [][HeadIsTold]_diffVars

=============================================================================
