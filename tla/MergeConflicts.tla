--------------------------- MODULE MergeConflicts ---------------------------
(***************************************************************************)
(* The conflicts of a rebase, from the repository to the buttons of the    *)
(* window: fp stops at a conflict, the server looks for it when something  *)
(* tells it to (checkForMergeConflicts), sends what it has found, and the  *)
(* window shows that as it will be after the operations it has asked for   *)
(* (ResolveOperation and its preview).  Someone may resolve files, go on   *)
(* or give up in a terminal meanwhile.                                     *)
(*                                                                         *)
(* Operations are given to the server at once; what the server sends       *)
(* arrives in order, later.  The time of a fetch is the number of          *)
(* operations that had ended when it started.                              *)
(***************************************************************************)
EXTENDS Naturals, Sequences, FiniteSets, SequencesExt

CONSTANTS
  Files,
  MaxOps,     \* bound on the operations of the window
  MaxElsewhere  \* bound on what is done in a terminal, failed checks, reconnections

VARIABLES
  rebase,     \* the repository: the unresolved files, or NotInConflict
  running,    \* the server's operation queue, the head of which runs
  ended,      \* operations that have ended or were dropped
  conflicts,  \* Repository.mergeConflicts
  check,      \* checkForMergeConflicts: [phase, again, after, output]
  channel,    \* messages to the window
  fetched,    \* mergeConflicts of the window
  list,       \* operationList: [op, status, done]
  queued,     \* queuedOperations
  elsewhere,  \* how much of that there was
  fresh,      \* the repository is as the last check has found it
  missed      \* a window that reconnects is not told that there is no conflict

server == <<running, ended, conflicts, check>>
window == <<fetched, list, queued>>
conflictVars == <<rebase, server, channel, window, elsewhere, fresh, missed>>

NotInConflict == {"no rebase"}
NoFiles == [f \in {} |-> "RESOLVED"]
NoConflicts == [state |-> "none", files |-> NoFiles, after |-> 0]
Loading == [NoConflicts EXCEPT !.state = "loading"]
Idle == [phase |-> "idle", again |-> FALSE, after |-> 0, output |-> NotInConflict]

ConflictsInit ==
  /\ rebase \in {NotInConflict} \cup {{f} : f \in Files}
  /\ running = <<>> /\ ended = 0 /\ conflicts = NoConflicts
  /\ check = [Idle EXCEPT !.phase = "dir"]
  /\ channel = <<>> /\ fetched = NoConflicts /\ list = <<>> /\ queued = <<>>
  /\ elsewhere = 0 /\ fresh = FALSE /\ missed = FALSE

----------------------------------------------------------------------------
(***************************************************************************)
(* The server                                                              *)
(***************************************************************************)
Emitted(value) == [kind |-> "conflicts", value |-> value]
Elsewhere == elsewhere < MaxElsewhere /\ elsewhere' = elsewhere + 1

\* serializeAsyncCall: a call during a check is made once more after it.
Called(c) ==
  IF c.phase # "idle" THEN [c EXCEPT !.again = TRUE]
  ELSE [Idle EXCEPT !.phase = IF conflicts = NoConflicts THEN "dir" ELSE "status", !.after = ended]

Poll ==
  /\ ~fresh /\ check' = Called(check) /\ check' # check
  /\ UNCHANGED <<rebase, running, ended, conflicts, channel, window, elsewhere, fresh, missed>>

\* The end of a check, at which a scheduled one begins.
CheckEnded(now) ==
  IF ~check.again THEN Idle
  ELSE [Idle EXCEPT !.phase = IF now = NoConflicts THEN "dir" ELSE "status", !.after = ended]

\* Is there a directory of a rebase?  Without a conflict that is all.
LookForDirectory ==
  /\ check.phase = "dir"
  /\ IF rebase = NotInConflict
     THEN /\ check' = CheckEnded(conflicts) /\ fresh' = TRUE
          /\ UNCHANGED <<conflicts, channel>>
     ELSE /\ check' = [check EXCEPT !.phase = "status", !.after = ended]
          /\ conflicts' = Loading /\ channel' = Append(channel, Emitted(Loading))
          /\ UNCHANGED fresh
  /\ UNCHANGED <<rebase, running, ended, window, elsewhere, missed>>

RunStatus ==
  /\ check.phase = "status"
  /\ check' = [check EXCEPT !.phase = "parse", !.output = rebase]
  /\ fresh' = TRUE
  /\ UNCHANGED <<rebase, running, ended, conflicts, channel, window, elsewhere, missed>>

\* Mutant: what was listed as unresolved stays so.
ComputeKeepingStatus(previous, output, after) ==
  IF output = NotInConflict THEN NoConflicts
  ELSE [state |-> "loaded", after |-> after,
        files |-> IF DOMAIN previous.files # {} THEN previous.files
                  ELSE [f \in output |-> "UNRESOLVED"]]

\* computeNewConflicts: files that were listed before stay listed, and no
\* others are.
ComputeNewConflicts(previous, output, after) ==
  IF output = NotInConflict THEN NoConflicts
  ELSE [state |-> "loaded", after |-> after,
        files |-> [f \in IF DOMAIN previous.files # {} THEN DOMAIN previous.files ELSE output |->
                    IF f \in output THEN "UNRESOLVED" ELSE "RESOLVED"]]

EndCheck(now) ==
  /\ conflicts' = now /\ channel' = Append(channel, Emitted(now))
  /\ check' = CheckEnded(now)
  /\ UNCHANGED <<rebase, running, ended, window, missed>>

ParseStatus ==
  /\ check.phase = "parse"
  /\ EndCheck(ComputeNewConflicts(conflicts, check.output, check.after))
  /\ UNCHANGED <<elsewhere, fresh>>

\* The command fails: the server pretends that there is no conflict.
FailStatus ==
  /\ check.phase = "status" /\ Elsewhere
  /\ EndCheck(NoConflicts) /\ fresh' = FALSE

----------------------------------------------------------------------------
(***************************************************************************)
(* Commands                                                                *)
(***************************************************************************)
\* What a command makes of the rebase, and whether it exits with 0; a rebase
\* that goes on may stop at another conflict.
Outcomes(op) ==
  CASE op.tool = "mark" -> {[ok |-> TRUE, rebase |-> rebase \ {op.file}]}
    [] op.tool = "unmark" -> {[ok |-> TRUE, rebase |-> rebase \cup {op.file}]}
    [] op.tool = "take" -> {[ok |-> TRUE, rebase |-> rebase]}
    [] op.tool = "abort" -> {[ok |-> TRUE, rebase |-> NotInConflict]}
    [] op.tool = "continue" ->
         IF rebase # {} THEN {[ok |-> FALSE, rebase |-> rebase]}
         ELSE {[ok |-> TRUE, rebase |-> NotInConflict]}
              \cup {[ok |-> FALSE, rebase |-> s] : s \in (SUBSET Files) \ {{}}}

\* The head of the queue starts; the window is told what waits behind it.
Started(queue) ==
  IF queue = <<>> THEN <<>> ELSE <<[kind |-> "spawn", op |-> Head(queue), queue |-> Tail(queue)]>>

\* An operation ends; a failure empties the queue, and the repository is polled.
\* Outside of a rebase git refuses every one of them.
EndOperation ==
  /\ running # <<>>
  /\ \E r \in IF rebase = NotInConflict THEN {[ok |-> FALSE, rebase |-> rebase]}
              ELSE Outcomes(Head(running)) :
       LET rest == IF r.ok THEN Tail(running) ELSE <<>>
       IN  /\ rebase' = r.rebase
           /\ running' = rest /\ ended' = IF r.ok THEN ended + 1 ELSE ended + Len(running)
           /\ channel' = Append(channel, [kind |-> "exit", op |-> Head(running), ok |-> r.ok]) \o Started(rest)
  /\ check' = IF check.phase # "idle" THEN [check EXCEPT !.again = TRUE]
              ELSE [Idle EXCEPT !.phase = IF conflicts = NoConflicts THEN "dir" ELSE "status", !.after = ended']
  /\ fresh' = FALSE
  /\ UNCHANGED <<conflicts, window, elsewhere, missed>>

\* A terminal: another rebase stops, files are resolved or not, it goes on.
InTerminal ==
  /\ Elsewhere /\ fresh' = FALSE
  /\ rebase' \in ({NotInConflict} \cup SUBSET Files) \ {rebase}
  /\ UNCHANGED <<server, channel, window, missed>>

----------------------------------------------------------------------------
(***************************************************************************)
(* The window                                                              *)
(***************************************************************************)
IsResolving(op) == op.tool \in {"mark", "unmark"}

\* makeOptimisticMergeConflictsApplier of ResolveOperation, for either tool.
HasApplier(op, known) ==
  IsResolving(op) /\ ~(op.file \in DOMAIN known.files /\ known.files[op.file] # "UNRESOLVED")

Pending(ops, known) ==
  {o.op : o \in {p \in ToSet(ops) : p.status # "failed" /\ ~p.done /\ HasApplier(p.op, known)}}

\* applyPreviewsToMergeConflicts: the appliers commute.
Shown ==
  LET ops == Pending(list, fetched) \cup {op \in ToSet(queued) : HasApplier(op, fetched)}
  IN  IF fetched.state # "loaded" THEN fetched
      ELSE [fetched EXCEPT !.files = [f \in DOMAIN @ |->
             IF \E op \in ops : op.file = f THEN "RESOLVED" ELSE @[f]]]

\* useMarkOperationsCompleted, an effect after every change: an operation that
\* ended has nothing left to show when its applier is gone, when it failed, or
\* when a later fetch has arrived.
Marked(ops, known) ==
  [i \in DOMAIN ops |->
    LET o == ops[i]
    IN  IF /\ o.status # "running"
           /\ o.status = "failed" \/ ~HasApplier(o.op, known) \/ known.after >= o.ended
        THEN [o EXCEPT !.done = TRUE] ELSE o]

Update(known, ops, waiting) ==
  fetched' = known /\ list' = Marked(ops, known) /\ queued' = waiting

LastRun == list[Len(list)]
IsRunning == list # <<>> /\ LastRun.status = "running"

StartNew(op) == Append(list, [op |-> op, status |-> "running", ended |-> 0, done |-> FALSE])

\* The operation starts at once if the window sees none running, whatever
\* waits in the queue.
RunOperation(tool, file) ==
  LET op == [id |-> ended + Len(running) + 1, tool |-> tool, file |-> file]
  IN  /\ op.id <= MaxOps
      /\ running' = Append(running, op)
      /\ channel' = channel \o (IF running = <<>> THEN Started(<<op>>)
                               ELSE <<[kind |-> "queue", queue |-> Append(Tail(running), op)]>>)
      /\ IF IsRunning THEN Update(fetched, list, Append(queued, op))
         ELSE Update(fetched, StartNew(op), queued)
      /\ UNCHANGED <<rebase, ended, conflicts, check, elsewhere, fresh, missed>>

\* FileActions, and the checkbox of a file.
FileAction(f) ==
  /\ Shown.state = "loaded" /\ f \in DOMAIN Shown.files
  /\ \E tool \in IF Shown.files[f] = "RESOLVED" THEN {"unmark"} ELSE {"mark", "take"} : RunOperation(tool, f)

AllConflictsResolved == Shown.state = "loaded" /\ \A f \in DOMAIN Shown.files : Shown.files[f] = "RESOLVED"

\* MergeConflictButtons: not while one is running, queued or has just succeeded.
ButtonsDisabled ==
  LET ends(op) == op.tool \in {"continue", "abort"}
  IN  \/ list # <<>> /\ ends(LastRun.op) /\ LastRun.status \in {"running", "ok"}
      \/ \E op \in ToSet(queued) : ends(op)

Continue == AllConflictsResolved /\ ~ButtonsDisabled /\ RunOperation("continue", "")

Abort == Shown.state # "none" /\ ~ButtonsDisabled /\ RunOperation("abort", "")

ReceiveConflicts(message) ==
  /\ message.kind = "conflicts"
  /\ Update(message.value, list, queued) /\ missed' = FALSE

ReceiveSpawn(message) ==
  /\ message.kind = "spawn"
  /\ Update(fetched, IF list # <<>> /\ LastRun.op = message.op THEN list ELSE StartNew(message.op),
            message.queue)
  /\ UNCHANGED missed

ReceiveQueue(message) ==
  /\ message.kind = "queue"
  /\ Update(fetched, list, message.queue)
  /\ UNCHANGED missed

\* The exit is taken for that of the last operation of the list.  Exits are
\* numbered as they come, like the operations that have ended.
ReceiveExit(message) ==
  /\ message.kind = "exit"
  /\ Update(fetched,
            [list EXCEPT ![Len(list)].status = IF message.ok THEN "ok" ELSE "failed",
                         ![Len(list)].ended = message.op.id],
            IF message.ok THEN queued ELSE <<>>)
  /\ UNCHANGED missed

Receive ==
  /\ channel # <<>> /\ channel' = Tail(channel)
  /\ \/ ReceiveConflicts(Head(channel)) \/ ReceiveSpawn(Head(channel))
     \/ ReceiveQueue(Head(channel)) \/ ReceiveExit(Head(channel))
  /\ UNCHANGED <<rebase, server, elsewhere, fresh>>

\* A new connection: the window subscribes again, and is told of conflicts if
\* there are any.
Reconnect ==
  /\ Elsewhere /\ running = <<>> /\ channel = <<>>
  /\ IF conflicts = NoConflicts THEN missed' = (fetched # NoConflicts) /\ UNCHANGED channel
     ELSE channel' = <<Emitted(conflicts)>> /\ UNCHANGED missed
  /\ UNCHANGED <<rebase, server, window, fresh>>

ConflictsNext ==
  \/ Poll \/ LookForDirectory \/ RunStatus \/ ParseStatus \/ FailStatus
  \/ EndOperation \/ InTerminal
  \/ \E f \in Files : FileAction(f)
  \/ Continue \/ Abort \/ Receive \/ Reconnect

ConflictsSpec == ConflictsInit /\ [][ConflictsNext]_conflictVars

----------------------------------------------------------------------------
\* Nothing is under way, and the last check has seen the repository as it is.
Quiet == fresh /\ check = Idle /\ channel = <<>> /\ running = <<>>

\* What the window shows in the end is so: there is a conflict if it says so,
\* and a file of its list is resolved if it says so.  Excepted are a window that
\* has reconnected after the conflict was gone (ServerToClientAPI.ts:480), and
\* one that has started an operation ahead of a queued one, which it takes for
\* running ever after (serverAPIState.ts:583).
ShownAsItIs ==
  Quiet /\ (\A i \in DOMAIN list : list[i].status # "running") =>
    /\ rebase = NotInConflict => Shown = NoConflicts \/ missed
    /\ rebase # NotInConflict =>
         /\ Shown.state = "loaded"
         /\ \A f \in DOMAIN Shown.files : Shown.files[f] = "RESOLVED" <=> f \notin rebase
=============================================================================
