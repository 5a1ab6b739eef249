---------------------------- MODULE FetchedData ----------------------------
(***************************************************************************)
(* How what git says reaches a window, and how the window bridges the time *)
(* until it does.  Repository.ts runs one fetch at a time; a call during a *)
(* fetch schedules one more.  The window shows the latest data and, on top *)
(* of it, the expected effects of its operations (previews.ts), until the  *)
(* operation has ended and the data was fetched after its end.             *)
(*                                                                         *)
(* The files, the commits and the conflicts are fetched and previewed in   *)
(* the same way; one of them is modelled.  The content of the repository   *)
(* is the set of what has been done to it.  WatchForChanges says when      *)
(* fetches are asked for; OperationQueue has the operations of several     *)
(* windows, the requests on their way and the aborts.                      *)
(***************************************************************************)
EXTENDS Naturals, Sequences, SequencesExt

CONSTANTS
  Ops,          \* the operations of the window
  Detecting,    \* those whose applier sees by itself that the data has their effect
  Edits,        \* what others do to the repository
  MaxTime,      \* bound: the last time of the clock
  MaxTroubles,  \* bound: how often a fetch fails, others edit, a command is killed
  MaxInFlight   \* bound: data is sent while fewer messages are on their way

\* The mark of a fetch that has not looked at the repository is none of its
\* contents.
ASSUME ConstantsAssumption ==
  /\ Detecting \subseteq Ops /\ Ops \cap Edits = {}
  /\ "not read" \notin Ops \cup Edits /\ "none" \notin Ops
  /\ {MaxTime, MaxTroubles, MaxInFlight} \subseteq Nat

VARIABLES
  now,         \* Date.now() of the server
  disk,        \* what has been done to the repository
  fetches,     \* the calls of the fetch that run
  scheduled,   \* whether another call is scheduled
  stored,      \* Repository.uncommittedChanges
  asked,       \* the running operation of the server, and its queue
  ended,       \* how the process of the first of them has ended
  troubles,    \* how much trouble there may still be
  toClient,    \* the messages on their way to the window
  data,        \* latestUncommittedChangesData
  unasked,     \* the operations the user has not asked for yet
  operationList, queuedOperations,  \* the operations the window shows
  stranded     \* history: those of whose end it will never be told

windowOperations == <<unasked, operationList, queuedOperations, stranded>>

vars == <<now, disk, fetches, scheduled, stored, asked, ended, troubles, toClient, data,
          windowOperations>>

NotRead == {"not read"}
NoData == [start |-> 0, seen |-> {}, error |-> FALSE]

\* An OperationInfo, and whether its optimistic state has completed.
Info(o) == [op |-> o, exited |-> FALSE, failed |-> FALSE, end |-> 0, completed |-> FALSE]

NoOperation == Info("none")

Init ==
  /\ now = 1 /\ disk = {} /\ fetches = {} /\ scheduled = FALSE /\ stored = NoData
  /\ asked = <<>> /\ ended = "no" /\ troubles = MaxTroubles
  /\ toClient = <<>> /\ data = NoData
  /\ operationList = [current |-> NoOperation, history |-> {}] /\ queuedOperations = <<>>
  /\ unasked = Ops /\ stranded = {}

Trouble == troubles > 0 /\ troubles' = troubles - 1

Send(messages) == toClient' = toClient \o messages

SendData(result) ==
  Len(toClient) < MaxInFlight /\ Send(<<[type |-> "data", data |-> result]>>)

-----------------------------------------------------------------------------
(* The server                                                              *)

StartAsyncCall(running) ==
  fetches' = running \cup {[start |-> now, seen |-> NotRead]}

\* Every call starts a fetch of its own.
CallAtOnce == StartAsyncCall(fetches) /\ UNCHANGED scheduled

\* A call of the function that serializeAsyncCall returns.
Call ==
  IF fetches = {}
  THEN StartAsyncCall({}) /\ UNCHANGED scheduled
  ELSE scheduled' = TRUE /\ UNCHANGED fetches

Returned(fetch) ==
  IF scheduled
  THEN StartAsyncCall(fetches \ {fetch}) /\ scheduled' = FALSE
  ELSE fetches' = fetches \ {fetch} /\ UNCHANGED scheduled

\* The command looks at the repository some time after it was started.
ReadRepository == \E fetch \in fetches :
  /\ fetch.seen = NotRead
  /\ fetches' = (fetches \ {fetch}) \cup {[fetch EXCEPT !.seen = disk]}
  /\ UNCHANGED <<now, disk, scheduled, stored, asked, ended, troubles, toClient, data,
                 windowOperations>>

Fetched(start, seen, error) == [start |-> start, seen |-> seen, error |-> error]

FetchSucceeds == \E fetch \in fetches :
  /\ fetch.seen # NotRead /\ Returned(fetch)
  /\ stored' = Fetched(fetch.start, fetch.seen, FALSE)
  /\ SendData(stored')
  /\ UNCHANGED <<now, disk, asked, ended, troubles, data, windowOperations>>

\* The error is sent but not stored.
FetchFails == \E fetch \in fetches :
  /\ Trouble /\ Returned(fetch)
  /\ SendData(Fetched(fetch.start, {}, TRUE))
  /\ UNCHANGED <<now, disk, stored, asked, ended, data, windowOperations>>

\* The error of a checkout in progress is ignored.
FetchIsIgnored == \E fetch \in fetches :
  /\ Trouble /\ Returned(fetch)
  /\ UNCHANGED <<now, disk, stored, asked, ended, toClient, data, windowOperations>>

\* WatchForChanges, or a window that subscribes.
Poll ==
  /\ Call
  /\ UNCHANGED <<now, disk, stored, asked, ended, troubles, toClient, data,
                 windowOperations>>

\* The window subscribes again: it is sent what is stored, and a fetch starts.
Subscribe ==
  /\ stored # NoData
  /\ SendData(stored) /\ Call
  /\ UNCHANGED <<now, disk, stored, asked, ended, troubles, data, windowOperations>>

\* The command of the operation does its work, then its process ends.
OperationActs ==
  /\ asked # <<>> /\ ended = "no" /\ disk' = disk \cup {Head(asked)} /\ disk' # disk
  /\ UNCHANGED <<now, fetches, scheduled, stored, asked, ended, troubles, toClient, data,
                 windowOperations>>

Spawned(queue) == [type |-> "spawn", op |-> Head(queue), queue |-> Tail(queue)]

\* The exit event: the process of a signal has no exit code, 0 is reported.
ProcessExits ==
  /\ asked # <<>> /\ ended = "no"
  /\ \E how \in {"ok", "failed", "killed"} :
       /\ how = "ok" => Head(asked) \in disk
       /\ IF how = "killed" THEN Trouble ELSE UNCHANGED troubles
       /\ ended' = IF how = "ok" THEN "ok" ELSE "bad"
       /\ Send(<<[type |-> "exit", failed |-> how = "failed", end |-> now]>>)
  /\ UNCHANGED <<now, disk, fetches, scheduled, stored, asked, data,
                 windowOperations>>

\* The promise is resolved: the next operation runs.
OperationResolves ==
  /\ asked # <<>> /\ ended = "ok" /\ ended' = "no"
  /\ asked' = Tail(asked)
  /\ Send(IF asked' = <<>> THEN <<>> ELSE <<Spawned(asked')>>)
  /\ UNCHANGED <<now, disk, fetches, scheduled, stored, troubles, data,
                 windowOperations>>

ShownInfos == {operationList.current} \cup operationList.history

\* The operations that the window shows as running.
ShownAsStarted == {info.op : info \in {other \in ShownInfos : ~other.exited}}

\* The promise is rejected: the queue is cleared.
Reject(lost) ==
  /\ asked' = <<>> /\ ended' = "no"
  /\ stranded' = stranded \cup lost \cup (ToSet(Tail(asked)) \cap ShownAsStarted)
  /\ Send(<<[type |-> "error"]>>)
  /\ UNCHANGED <<now, disk, fetches, scheduled, stored, troubles, data, unasked,
                 operationList, queuedOperations>>

\* After the exit event; the poll that follows is one of those at any time.
OperationRejects == ended = "bad" /\ Reject({})

\* There was no process, and there is no exit event.
SpawnFails == asked # <<>> /\ ended = "no" /\ Head(asked) \notin disk /\ Reject({Head(asked)})

Edit == \E e \in Edits \ disk :
  /\ Trouble /\ disk' = disk \cup {e}
  /\ UNCHANGED <<now, fetches, scheduled, stored, asked, ended, toClient, data,
                 windowOperations>>

\* The last time of the clock is one at which all operations have ended.
Tick ==
  /\ now < MaxTime /\ now' = now + 1 /\ (now' = MaxTime => asked = <<>>)
  /\ UNCHANGED <<disk, fetches, scheduled, stored, asked, ended, troubles, toClient, data,
                 windowOperations>>

-----------------------------------------------------------------------------
(* The window                                                              *)

IsOngoing(info) == info # NoOperation /\ ~info.exited

\* startNewOperation
StartNewOperation(o) ==
  IF operationList.current.op = o THEN operationList
  ELSE [current |-> Info(o), history |-> ShownInfos \ {NoOperation}]

\* The request is posted, and runOrQueueOperation called; the window shows the
\* operation as queued or as started without waiting for the answer.
RunOperation == \E o \in Ops :
  /\ now < MaxTime
  /\ o \in unasked /\ unasked' = unasked \ {o}
  /\ asked' = Append(asked, o)
  /\ Send(<<IF asked = <<>> THEN Spawned(asked') ELSE [type |-> "queue", queue |-> Tail(asked')]>>)
  /\ IF IsOngoing(operationList.current)
     THEN queuedOperations' = Append(queuedOperations, o) /\ UNCHANGED operationList
     ELSE operationList' = StartNewOperation(o) /\ UNCHANGED queuedOperations
  /\ UNCHANGED <<now, disk, fetches, scheduled, stored, ended, troubles, data, stranded>>

\* The data of a failed fetch leaves the files in place.
ReceiveData ==
  /\ toClient # <<>> /\ Head(toClient).type = "data" /\ toClient' = Tail(toClient)
  /\ LET new == Head(toClient).data
     IN data' = IF new.error THEN [new EXCEPT !.seen = data.seen] ELSE new
  /\ UNCHANGED <<now, disk, fetches, scheduled, stored, asked, ended, troubles,
                 windowOperations>>

\* The progress of operations, for operationList: an exit is that of the
\* current one, whichever it names.
OperationsAfter(m) ==
  CASE m.type = "spawn" -> StartNewOperation(m.op)
    [] m.type = "exit" -> [operationList EXCEPT !.current =
                             [@ EXCEPT !.exited = TRUE, !.failed = m.failed, !.end = m.end]]
    [] OTHER -> operationList

\* Mutant: the shown queue stays as it is when an operation fails.
QueueAfterAll(m) == IF m.type \in {"spawn", "queue"} THEN m.queue ELSE queuedOperations

\* The same for queuedOperations.
QueueAfter(m) ==
  CASE m.type \in {"spawn", "queue"} -> m.queue
    [] m.type = "error" \/ (m.type = "exit" /\ m.failed) -> <<>>
    [] OTHER -> queuedOperations

\* One that was shown as started before its turn came is started a second time.
StartedAgain(m) ==
  IF m.type = "spawn" /\ IsOngoing(operationList.current)
  THEN {operationList.current.op} \ {m.op} ELSE {}

ReceiveProgress ==
  /\ toClient # <<>> /\ Head(toClient).type # "data" /\ toClient' = Tail(toClient)
  /\ LET m == Head(toClient)
     IN /\ operationList' = OperationsAfter(m)
        /\ queuedOperations' = QueueAfter(m)
        /\ stranded' = stranded \cup StartedAgain(m)
  /\ UNCHANGED <<now, disk, fetches, scheduled, stored, asked, ended, troubles, data,
                 unasked>>

\* makeOptimisticUncommittedChangesApplier returns nothing.
NoApplier(o) == o \in Detecting \cap data.seen

ShouldMarkResolved(info) ==
  /\ info.exited /\ ~info.completed
  /\ NoApplier(info.op) \/ info.failed \/ data.start > info.end

Marked(info) == [info EXCEPT !.completed = @ \/ ShouldMarkResolved(info)]

\* The effect of useMarkOperationsCompleted, after a render.
MarkOperationsCompleted ==
  /\ \E info \in ShownInfos : ShouldMarkResolved(info)
  /\ operationList' = [current |-> Marked(operationList.current),
                       history |-> {Marked(info) : info \in operationList.history}]
  /\ UNCHANGED <<now, disk, fetches, scheduled, stored, asked, ended, troubles, toClient,
                 data, unasked, queuedOperations, stranded>>

\* The operations whose optimistic state is shown; that of the current one not
\* when it has failed.
Previewed ==
  {info.op : info \in {i \in operationList.history : ~i.completed}}
  \cup {info.op : info \in {i \in {operationList.current} \ {NoOperation} :
                              ~i.completed /\ ~(i.exited /\ i.failed)}}
  \cup ToSet(queuedOperations)

\* uncommittedChangesWithPreviews.  An applier that returns nothing has its
\* effect in the data.
Shown == data.seen \cup Previewed

Next ==
  \/ ReadRepository \/ FetchSucceeds \/ FetchFails \/ FetchIsIgnored
  \/ Poll \/ Subscribe
  \/ OperationActs \/ ProcessExits \/ OperationResolves \/ OperationRejects \/ SpawnFails
  \/ Edit \/ Tick
  \/ RunOperation \/ ReceiveData \/ ReceiveProgress \/ MarkOperationsCompleted

\* Commands end and their promises are settled, fetches do not fail for ever,
\* messages arrive, the window renders, time passes, and fetches are asked for
\* again and again (EverythingIsPolledAgain of WatchForChanges).
Fairness ==
  /\ WF_vars(ReadRepository) /\ SF_vars(FetchSucceeds) /\ WF_vars(Poll)
  /\ WF_vars(OperationActs) /\ WF_vars(ProcessExits)
  /\ WF_vars(OperationResolves \/ OperationRejects) /\ WF_vars(Tick)
  /\ WF_vars(ReceiveData \/ ReceiveProgress) /\ WF_vars(MarkOperationsCompleted)

Spec == Init /\ [][Next]_vars /\ Fairness

-----------------------------------------------------------------------------
(* Properties                                                              *)

\* What the window was told once it is never untold by data of an older fetch.
DataNeverGoesBack == [][data.seen \subseteq data'.seen]_vars

\* In the end the window shows all that is in the repository, and nothing else
\* but the operations it is never told the end of: one that could not be
\* spawned, and one that the window has shown as started, since it had heard of
\* the exit of the one before, while the server still queued it: the queue was
\* cleared then, or another one in it came first.
ShowsTheRepository == <>[](disk \subseteq Shown /\ Shown \ disk \subseteq stranded)
=============================================================================
