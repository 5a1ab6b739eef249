--------------------------- MODULE OperationQueue ---------------------------
(***************************************************************************)
(* The operations a GTI window asks its server to run.                     *)
(*                                                                         *)
(* One Repository, with its OperationQueue, serves every window (a client) *)
(* opened on the same repository.  A client shows an operation as soon as  *)
(* the user asks for it and corrects itself as progress messages arrive;   *)
(* the server runs one process at a time and keeps the rest in a queue.    *)
(* A message between the two is a FIFO channel of its own per client.      *)
(***************************************************************************)
EXTENDS Naturals, Sequences, FiniteSets, SequencesExt

CONSTANTS
  Clients,        \* the windows
  MaxOperations,  \* bound: how many operations the users ask for
  MaxAborts       \* bound: how many of them they abort

ASSUME BoundsAreNumbers == MaxOperations \in Nat /\ MaxAborts \in Nat

\* Operations are numbered in the order the users ask for them: their ids are
\* unique, and nothing else of them matters to the queue.
Operations == 1..MaxOperations

\* No operation, `undefined` in the code.
None == 0

VARIABLES
  running,     \* OperationQueue.runningOperation
  queue,       \* OperationQueue.queuedOperations
  reporter,    \* the client the onProgress of the running operation posts to
  outcome,     \* how far each operation has come
  aborting,    \* operations whose process was sent a signal
  toServer,    \* the messages on their way to the server, per client
  toClient,    \* the messages on their way to each client
  current,     \* operationList.currentOperation of each client
  shown,       \* queuedOperations of each client
  known,       \* operationsById of each client
  received,    \* history: the operations in the order the server got them
  failedAt,    \* history: how many it had got when an operation failed
  cancelled    \* history: the operations the users asked to abort

server  == <<running, queue, reporter, outcome, aborting>>
client  == <<current, shown, known>>
history == <<received, failedAt, cancelled>>
vars    == <<server, client, history, toServer, toClient>>

\* "asked": on its way to the server; "waiting": in its queue; "alive": the
\* process runs; "ok" and "bad": it has exited, and the promise of execa is
\* about to be resolved or rejected; the others are the end of an operation.
Outcomes == {"new", "asked", "waiting", "alive", "ok", "bad",
             "done", "failed", "dropped"}

Started(o) == outcome[o] \in {"alive", "ok", "bad", "done", "failed"}
IsOver(o)  == outcome[o] \in {"done", "failed", "dropped"}

Progress(kind, op, ops, code) ==
  [kind |-> kind, op |-> op, queue |-> ops, exitCode |-> code]

Post(c, message) == toClient' = [toClient EXCEPT ![c] = Append(@, message)]

Init ==
  /\ running = None /\ queue = <<>> /\ aborting = {}
  /\ reporter \in Clients
  /\ outcome = [o \in Operations |-> "new"]
  /\ toServer = [c \in Clients |-> <<>>] /\ toClient = [c \in Clients |-> <<>>]
  /\ current = [c \in Clients |-> [op |-> None, exited |-> FALSE]]
  /\ shown = [c \in Clients |-> <<>>] /\ known = [c \in Clients |-> {}]
  /\ received = <<>> /\ cancelled = {} /\ failedAt = [o \in Operations |-> 0]

----------------------------------------------------------------------------
(* The client.                                                             *)

IsOngoing(info) == info.op # None /\ ~info.exited

StartNewOperation(info, o) ==
  IF info.op = o THEN info ELSE [op |-> o, exited |-> FALSE]

\* runOperationImpl: the request is posted, and shown as queued or as started
\* without waiting for the answer.
RunOperation(c, o) ==
  /\ outcome[o] = "new" /\ \A before \in 1..(o - 1) : outcome[before] # "new"
  /\ outcome' = [outcome EXCEPT ![o] = "asked"]
  /\ toServer' = [toServer EXCEPT ![c] = Append(@, [type |-> "runOperation", op |-> o])]
  /\ known' = [known EXCEPT ![c] = @ \cup {o}]
  /\ IF IsOngoing(current[c])
     THEN /\ shown' = [shown EXCEPT ![c] = Append(@, o)]
          /\ UNCHANGED current
     ELSE /\ current' = [current EXCEPT ![c] = StartNewOperation(@, o)]
          /\ UNCHANGED shown
  /\ UNCHANGED <<running, queue, reporter, aborting, toClient, history>>

\* The abort button of the operation shown as running, pressed once.
AbortOperation(c) ==
  /\ IsOngoing(current[c])
  /\ current[c].op \notin cancelled /\ Cardinality(cancelled) < MaxAborts
  /\ cancelled' = cancelled \cup {current[c].op}
  /\ toServer' = [toServer EXCEPT ![c] =
                    Append(@, [type |-> "abortRunningOperation", op |-> current[c].op])]
  /\ UNCHANGED <<server, client, received, failedAt, toClient>>

\* The operation list: `exit` is taken for the end of the current operation,
\* whichever operation it names.
CurrentAfter(c, m) ==
  CASE m.kind = "spawn" /\ m.op \in known[c] -> StartNewOperation(current[c], m.op)
    [] m.kind = "exit" /\ current[c].op # None -> [current[c] EXCEPT !.exited = TRUE]
    [] OTHER -> current[c]

\* Those of ops that are in operationsById, in their order: an operation of
\* another window is not, and is left out.
KnownAmong(ops, ids) ==
  LET kept[n \in 0..Len(ops)] ==
        IF n = 0 THEN <<>>
        ELSE IF ops[n] \in ids THEN Append(kept[n - 1], ops[n]) ELSE kept[n - 1]
  IN  kept[Len(ops)]

\* Mutant: the queue is not cleared by an error.
ShownAfterUnlessError(c, m) ==
  CASE m.kind \in {"queue", "spawn"} -> KnownAmong(m.queue, known[c])
    [] m.kind = "exit" /\ m.exitCode # 0 -> <<>>
    [] OTHER -> shown[c]

\* The queue: what the server says of it, as far as this window knows it.
ShownAfter(c, m) ==
  CASE m.kind \in {"queue", "spawn"} -> KnownAmong(m.queue, known[c])
    [] m.kind = "error" \/ (m.kind = "exit" /\ m.exitCode # 0) -> <<>>
    [] OTHER -> shown[c]

\* The two "operationProgress" handlers, in the order they subscribed.
ReceiveProgress(c) ==
  /\ toClient[c] # <<>>
  /\ LET m == Head(toClient[c])
     IN  /\ current' = [current EXCEPT ![c] = CurrentAfter(c, m)]
         /\ shown' = [shown EXCEPT ![c] = ShownAfter(c, m)]
         /\ known' = [known EXCEPT ![c] = IF m.kind = "exit" THEN @ \ {m.op} ELSE @]
  /\ toClient' = [toClient EXCEPT ![c] = Tail(@)]
  /\ UNCHANGED <<server, history, toServer>>

----------------------------------------------------------------------------
(* The server.                                                             *)

\* runOrQueueOperation past its first check, up to the await: the process is
\* spawned and `spawn` reported with what is left in the queue.
Start(o, c, rest) ==
  /\ running' = o
  /\ queue' = rest
  /\ reporter' = c
  /\ outcome' = [outcome EXCEPT ![o] = "alive"]
  /\ Post(c, Progress("spawn", o, rest, 0))

\* Mutant: an operation is pushed at the front of the queue.
EnqueueFirst(o, c) ==
  /\ queue' = <<o>> \o queue
  /\ outcome' = [outcome EXCEPT ![o] = "waiting"]
  /\ Post(c, Progress("queue", o, queue', 0))
  /\ UNCHANGED <<running, reporter>>

\* runOrQueueOperation while an operation runs.
Enqueue(o, c) ==
  /\ queue' = Append(queue, o)
  /\ outcome' = [outcome EXCEPT ![o] = "waiting"]
  /\ Post(c, Progress("queue", o, queue', 0))
  /\ UNCHANGED <<running, reporter>>

RunOrQueueOperation(o, c) ==
  IF running # None
  THEN Enqueue(o, c)
  ELSE Start(o, c, queue)

\* "runOperation" of ServerToClientAPI.
ReceiveRun(c) ==
  /\ toServer[c] # <<>> /\ Head(toServer[c]).type = "runOperation"
  /\ RunOrQueueOperation(Head(toServer[c]).op, c)
  /\ received' = Append(received, Head(toServer[c]).op)
  /\ toServer' = [toServer EXCEPT ![c] = Tail(@)]
  /\ UNCHANGED <<aborting, client, failedAt, cancelled>>

\* Mutant: whatever runs is killed.
SignalledWhateverRuns(o) == {running} \ {None}

\* abortRunningOperation: the signal goes to the process of the operation
\* that runs, if it is still the one the message names.
Signalled(o) == IF running = o THEN {running} \ {None} ELSE {}

\* "abortRunningOperation" of ServerToClientAPI.
ReceiveAbort(c) ==
  /\ toServer[c] # <<>> /\ Head(toServer[c]).type = "abortRunningOperation"
  /\ aborting' = aborting \cup Signalled(Head(toServer[c]).op)
  /\ toServer' = [toServer EXCEPT ![c] = Tail(@)]
  /\ UNCHANGED <<running, queue, reporter, outcome, toClient, client, history>>

\* The process exits by itself, with code 0 or another.
Exit(code) ==
  /\ running # None /\ outcome[running] = "alive"
  /\ outcome' = [outcome EXCEPT ![running] = IF code = 0 THEN "ok" ELSE "bad"]
  /\ Post(reporter, Progress("exit", running, <<>>, code))
  /\ UNCHANGED <<running, queue, reporter, aborting, toServer, client, history>>

\* The signal kills it: it has no exit code, `exitCode || 0` reports a zero,
\* and execa rejects all the same.
Killed ==
  /\ running \in aborting /\ outcome[running] = "alive"
  /\ outcome' = [outcome EXCEPT ![running] = "bad"]
  /\ Post(reporter, Progress("exit", running, <<>>, 0))
  /\ UNCHANGED <<running, queue, reporter, aborting, toServer, client, history>>

\* Mutant: the next operation waits until the user asks for another one.
SucceedAndRest ==
  /\ running # None /\ outcome[running] = "ok"
  /\ running' = None
  /\ outcome' = [outcome EXCEPT ![running] = "done"]
  /\ UNCHANGED <<queue, reporter, aborting, toServer, toClient, client, history>>

\* The promise is resolved: the next operation is taken from the queue and
\* run in the same turn, reporting through the onProgress of the last one.
Succeed ==
  /\ running # None /\ outcome[running] = "ok"
  /\ LET finished == [outcome EXCEPT ![running] = "done"]
     IN  IF queue = <<>>
         THEN /\ running' = None /\ outcome' = finished
              /\ UNCHANGED <<queue, reporter, toClient>>
         ELSE /\ running' = Head(queue) /\ queue' = Tail(queue)
              /\ outcome' = [finished EXCEPT ![Head(queue)] = "alive"]
              /\ Post(reporter, Progress("spawn", Head(queue), Tail(queue), 0))
              /\ UNCHANGED reporter
  /\ UNCHANGED <<aborting, toServer, client, history>>

\* The queue is cleared, and nobody is told about the operations in it.
Cleared ==
  [o \in Operations |-> IF o \in ToSet(queue) THEN "dropped" ELSE outcome[o]]

\* The catch block.  The promise is rejected after the process exited, or at
\* once when it could not be spawned; then Node emits no `exit`.
Fail ==
  /\ running # None /\ outcome[running] \in {"alive", "bad"}
  /\ outcome' = [Cleared EXCEPT ![running] = "failed"]
  /\ queue' = <<>>
  /\ running' = None
  /\ failedAt' = [failedAt EXCEPT ![running] = Len(received)]
  /\ Post(reporter, Progress("error", running, <<>>, 0))
  /\ UNCHANGED <<reporter, aborting, toServer, client, received, cancelled>>

----------------------------------------------------------------------------
Receive(c) == ReceiveProgress(c) \/ ReceiveRun(c) \/ ReceiveAbort(c)

Settle == Exit(0) \/ Exit(1) \/ Killed \/ Succeed \/ Fail

Next ==
  \/ \E c \in Clients, o \in Operations : RunOperation(c, o)
  \/ \E c \in Clients : AbortOperation(c)
  \/ \E c \in Clients : Receive(c)
  \/ Settle

\* A message in a channel is delivered and a process ends; what the users do
\* is up to them.
FairSpec ==
  /\ Init /\ [][Next]_vars
  /\ \A c \in Clients : WF_vars(Receive(c))
  /\ WF_vars(Settle)

Spec == Init /\ [][Next]_vars

----------------------------------------------------------------------------
(* What must be true of it.                                                *)

Messages ==
  [kind : {"queue", "spawn", "exit", "error"}, op : Operations,
   queue : Seq(Operations), exitCode : {0, 1}]

Requests == [type : {"runOperation", "abortRunningOperation"}, op : Operations]

\* Every variable has its type; the queue holds an operation once, and never
\* the one that runs (runOrQueueOperation shifts it before it runs it).
TypeOK ==
  /\ running \in Operations \cup {None}
  /\ queue \in Seq(Operations) /\ IsInjective(queue) /\ running \notin ToSet(queue)
  /\ reporter \in Clients
  /\ outcome \in [Operations -> Outcomes]
  /\ aborting \subseteq Operations
  /\ toServer \in [Clients -> Seq(Requests)] /\ toClient \in [Clients -> Seq(Messages)]
  /\ current \in [Clients -> [op : Operations \cup {None}, exited : BOOLEAN]]
  /\ shown \in [Clients -> Seq(Operations)] /\ known \in [Clients -> SUBSET Operations]

\* "only one Operation runs at once" (OperationQueue.ts), and they run in the
\* order the server received them: one that has started has only operations
\* that are over before it.
OneAtATimeInOrder ==
  \A i, j \in DOMAIN received :
    i < j /\ Started(received[j]) => IsOver(received[i])

\* What was received behind an operation that failed, until its failure was
\* handled and so after its process exited too, never runs: the user planned
\* it on a state of the repository that was not reached.
NothingRunsAfterAFailure ==
  \A i, j \in DOMAIN received :
    i < j /\ j <= failedAt[received[i]] => outcome[received[j]] = "dropped"

\* A request to abort that comes late, when the operation it names has ended
\* and another one runs, kills nothing.
OnlyTheNamedIsAborted == aborting \subseteq cancelled

\* No message is on its way and none is about to be sent.
AtRest ==
  /\ \A c \in Clients : toServer[c] = <<>> /\ toClient[c] = <<>>
  /\ running # None => outcome[running] = "alive"

\* Once the messages have been received, the queue shown in the window the
\* server reports to is the server's, as far as it is that window's: neither
\* the operations it queued optimistically nor the ones dropped by an error
\* stay there.  (Another window is told of its own requests only.)
ShownQueueIsReal ==
  AtRest => shown[reporter] = KnownAmong(queue, known[reporter])

\* Every operation the user asks for ends: it succeeds, it fails, or it is
\* dropped because another one failed before it.
EveryOperationEnds == \A o \in Operations : outcome[o] = "asked" ~> IsOver(o)

\* The promise behind all this: the server, its messages and its processes
\* implement SerialExecutor, whose line is the operation that runs followed by
\* the queue.
Asked   == {o \in Operations : outcome[o] = "asked"}
Line    == IF running = None THEN <<>> ELSE <<running>> \o queue
Verdict == [o \in Operations |-> IF IsOver(o) THEN outcome[o] ELSE "none"]

Executor == INSTANCE SerialExecutor WITH asked <- Asked, line <- Line, verdict <- Verdict

\* Every step of runOrQueueOperation, of its catch block and of the handlers
\* that lead there is a step of that executor, or changes nothing of it.
ServesInOrder == Executor!Spec
=============================================================================
