------------------------- MODULE ServerToClientAPI -------------------------
(***************************************************************************)
(* The windows of one GTI server, each with a ServerToClientAPI that holds *)
(* a reference to the Repository of the window's directory.  JavaScript    *)
(* runs one task at a time: a message, the end of getRepoInfo, the end of  *)
(* a connection; and after a task the callbacks of the promises that were  *)
(* resolved in it, in their order (Deliver), before anything else.         *)
(***************************************************************************)
EXTENDS RepositoryCache

CONSTANTS
  MaxReferences,  \* bound: references after which no window asks for a directory
  MaxQueued       \* bound: how many messages wait for a Repository

ASSUME BoundsAreNumbers == MaxReferences \in Nat /\ MaxQueued \in Nat

VARIABLES
  repositories, reposByRoot, references,  \* see RepositoryCache
  api,      \* for each connection, its ServerToClientAPI
  asked,    \* the directory each window has asked for last
  astray,   \* history: the directories that requests were meant for but not handled in
  patient   \* whether users wait for a Repository before they change directory

vars == <<repositories, reposByRoot, references, api, asked, astray, patient>>

Server == [repositories |-> repositories, reposByRoot |-> reposByRoot,
           references |-> references, api |-> api, astray |-> astray]

Becomes(new) ==
  \E s \in {new} :
    /\ repositories' = s.repositories /\ reposByRoot' = s.reposByRoot
    /\ references' = s.references /\ api' = s.api /\ astray' = s.astray

NoCwd == NoRoot

\* The cwd of a state "error" is not in the code: the error stands for it.
Loading == [type |-> "loading", repo |-> None, cwd |-> NoCwd]
State(i, cwd) == [type |-> IF i = None THEN "error" ELSE "repo", repo |-> i, cwd |-> cwd]

Init ==
  /\ repositories = <<>> /\ reposByRoot = <<>> /\ references = <<>>
  /\ api = [c \in Clients |-> [connection |-> "none", currentState |-> Loading,
                               queuedMessages |-> <<>>, activeRepoRef |-> None]]
  /\ asked = [c \in Clients |-> NoCwd]
  /\ astray = {}
  /\ patient \in BOOLEAN

----------------------------------------------------------------------------
SetActiveRepoForCwd(s, c, cwd) ==
  LET old == s.api[c].activeRepoRef
      t == IF old = None THEN s ELSE Unref(s, old)
      u == GetOrCreate([t EXCEPT !.api[c].currentState = Loading], c, cwd)
  IN  [u EXCEPT !.api[c].activeRepoRef = Len(u.references)]

\* handleIncomingMessage.  A "request" is any message that needs the
\* Repository of the directory the window has asked for; without a Repository
\* nothing is done about it.
HandleIncomingMessage(s, c, m) ==
  IF m.type = "changeCwd"
  THEN SetActiveRepoForCwd(s, c, m.cwd)
  ELSE [s EXCEPT !.astray = @ \cup ({m.cwd} \ {s.api[c].currentState.cwd})]

\* The messages that waited, one after the other.
ProcessQueuedMessages(s, c) ==
  LET queue == s.api[c].queuedMessages
      handled[n \in 0..Len(queue)] ==
        IF n = 0 THEN s ELSE HandleIncomingMessage(handled[n - 1], c, queue[n])
  IN  [handled[Len(queue)] EXCEPT !.api[c].queuedMessages = <<>>]

\* Mutant: the messages that waited are handled before the Repository is set.
SetCurrentStateLast(s, c, i, cwd) ==
  [ProcessQueuedMessages(s, c) EXCEPT !.api[c].currentState = State(i, cwd)]

\* setCurrentRepo and setRepoError.
SetCurrentState(s, c, i, cwd) ==
  ProcessQueuedMessages([s EXCEPT !.api[c].currentState = State(i, cwd)], c)

----------------------------------------------------------------------------
\* The references whose promise was resolved in this task.
Resolved == {r \in DOMAIN references : references[r].promise = "resolved"}

IsNewTask == Resolved = {}

\* The callback of setActiveRepoForCwd.
Deliver ==
  /\ Resolved # {}
  /\ LET r == Min(Resolved)
         s == [Server EXCEPT !.references[r].promise = "settled"]
     IN  Becomes(SetCurrentState(s, references[r].client, references[r].value,
                                 references[r].cwd))
  /\ UNCHANGED <<asked, patient>>

\* onClientConnection.
Connect(c, cwd) ==
  /\ IsNewTask /\ api[c].connection = "none" /\ Len(references) < MaxReferences
  /\ asked' = [asked EXCEPT ![c] = cwd]
  /\ Becomes(SetActiveRepoForCwd([Server EXCEPT !.api[c].connection = "open"], c, cwd))
  /\ UNCHANGED patient

\* A message of a window: it waits while the Repository is loading.
Receive(c, m) ==
  /\ IsNewTask /\ api[c].connection = "open"
  /\ IF api[c].currentState.type = "loading"
     THEN /\ Len(api[c].queuedMessages) < MaxQueued
          /\ Becomes([Server EXCEPT !.api[c].queuedMessages = Append(@, m)])
     ELSE Becomes(HandleIncomingMessage(Server, c, m))

\* The window is given another directory.
ChangeCwd(c, cwd) ==
  /\ cwd # asked[c]
  /\ patient => api[c].currentState.type # "loading"
  /\ Len(references) < MaxReferences
  /\ asked' = [asked EXCEPT ![c] = cwd]
  /\ Receive(c, [type |-> "changeCwd", cwd |-> cwd])
  /\ UNCHANGED patient

\* It asks for something in its directory: a subscription, an operation.
Request(c) ==
  /\ Receive(c, [type |-> "request", cwd |-> asked[c]])
  /\ UNCHANGED <<asked, patient>>

\* The window is closed: ServerToClientAPI.dispose.
Disconnect(c) ==
  /\ IsNewTask /\ api[c].connection = "open"
  /\ Becomes([Unref(Server, api[c].activeRepoRef) EXCEPT !.api[c].connection = "closed"])
  /\ UNCHANGED <<asked, patient>>

\* getRepoInfo ends: it finds the root, or some command of it fails.
GetRepoInfo(r) ==
  /\ IsNewTask /\ references[r].promise = "pending"
  /\ \/ Becomes(Resolve(Server, r, None))
     \/ /\ RootOf[references[r].cwd] # NoRoot
        /\ Becomes(CreateForReference(Server, r, RootOf[references[r].cwd]))
  /\ UNCHANGED <<asked, patient>>

Next ==
  \/ Deliver
  \/ \E c \in Clients, cwd \in Cwds : Connect(c, cwd) \/ ChangeCwd(c, cwd)
  \/ \E c \in Clients : Request(c) \/ Disconnect(c)
  \/ \E r \in DOMAIN references : GetRepoInfo(r)

Spec == Init /\ [][Next]_vars

----------------------------------------------------------------------------
(* What must be true of it.                                                *)

Holders(i) == {r \in DOMAIN references : ~references[r].disposed /\ references[r].holds = i}

\* A Repository counts the references that were handed out for it and not
\* given back, and it is disposed when and only when there is none left: also
\* when a window leaves while getRepoInfo runs.
RefCountsAreExact ==
  \A i \in DOMAIN repositories :
    /\ repositories[i].references = Cardinality(Holders(i))
    /\ repositories[i].isDisposed <=> Holders(i) = {}

\* However many windows are opened on a root at similar times, one Repository
\* watches it and runs its operations ("we can still re-use a Repository, and
\* only risk duplicating getRepoInfo work", RepositoryCache.ts).
OneRepositoryPerRoot ==
  \A i, j \in DOMAIN repositories :
    Live(Server, i) /\ Live(Server, j) /\ repositories[i].root = repositories[j].root => i = j

\* The Repository of a root lives as long as somebody uses it, and alone
\* (RepositoryCache.ts:55-163).
RepositoriesAreShared == RefCountsAreExact /\ OneRepositoryPerRoot

\* "This ensures new messages coming in will be queued and handled only with
\* the new repository" (ServerToClientAPI.ts), by users who wait for it.
HandledWithTheNewRepository ==
  patient => astray = {}

=============================================================================
