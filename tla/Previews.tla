------------------------------ MODULE Previews ------------------------------
(***************************************************************************)
(* Optimistic state: a window shows what the operations its user has asked *)
(* for will do, from the request on, until it can see it in the data.  The *)
(* operations wait for each other at the server, are executed, and their   *)
(* ends are reported; the data is fetched at any time, and takes some.     *)
(*                                                                         *)
(* What is shown, the operations and what they do are parameters: the      *)
(* branches are TreePreviews, the uncommitted changes FilePreviews.        *)
(*                                                                         *)
(* The states of the repository are numbered by the operations executed:   *)
(* states[n+1] is what the n-th has left.                                  *)
(***************************************************************************)
EXTENDS Sequences, SequencesExt, Integers, FiniteSets

CONSTANTS
  Scenarios,      \* records of a repository, the kinds of operations of the
                  \* user, the bound on their number, and whether the kinds
                  \* are steady (see ShownAsExpected)
  Succeeds(_, _), \* whether the command of an operation succeeds
  Effect(_, _),   \* what it then does to the repository
  Context(_),     \* what a fetch tells the window of a repository
  Resolved(_, _), \* the applier of an operation has nothing to show
  Depicted(_, _), \* what the appliers of a sequence of operations show
  Visible(_),     \* what of it there is to see
  Requests(_, _), \* what the window offers, given what is fetched and
                  \* what is shown: sequences of operations
  Faithful(_, _, _), \* the i-th operation asked for does to a repository what
                     \* its applier was made for
  MaxMessages     \* bound: the messages on their way to the window

VARIABLES
  scenario,
  states,   \* the states of the repository so far, the last one is its state
  ops,      \* the operations asked for: the history, the current one, the queue
  failed,   \* the operations that failed
  ended,    \* how many of them have ended
  fetching, \* a fetch: when it began and what it has read
  channel,  \* messages to the window
  data,     \* the data of the window
  exited,   \* the operations whose end the window has been told of
  resolved  \* those with hasCompletedOptimisticState

vars == <<scenario, states, ops, failed, ended, fetching, channel, data, exited, resolved>>

NoFetch == [began |-> 0, read |-> -1]

Init ==
  /\ scenario \in Scenarios /\ states = <<scenario.repo>>
  /\ ops = <<>> /\ failed = {} /\ ended = 0
  /\ fetching = NoFetch /\ channel = <<>>
  /\ data = [began |-> 0, read |-> 0]
  /\ exited = 0 /\ resolved = {}

----------------------------------------------------------------------------
Acted == Len(states) - 1

Fetched == Context(states[data.read + 1])

\* The appliers are those of the operations that are not completed; one that
\* failed is completed when its end is known.
Shown ==
  LET isDepicted(i) == i \notin resolved
      depicted == SelectSeq([i \in DOMAIN ops |-> i], isDepicted)
  IN  Depicted([k \in DOMAIN depicted |-> ops[depicted[k]]], Fetched)

\* Mutant: an operation is completed with its end.
MarkedAtTheEnd(i, newest) == TRUE

\* Mutant: only its applier tells that an operation is completed.
MarkedWhenSeen(i, newest) == i \in failed \/ Resolved(ops[i], Context(states[newest.read + 1]))

\* shouldMarkOptimisticChangesResolved, of an operation that has ended.
ShouldMark(i, newest) ==
  \/ i \in failed
  \/ Resolved(ops[i], Context(states[newest.read + 1]))
  \/ newest.began >= i

\* useMarkOperationsCompleted runs after every rendering.
MarkOperationsCompleted(newest, known) ==
  resolved' = resolved \cup {i \in 1..known : ShouldMark(i, newest)}

----------------------------------------------------------------------------
\* runOperation.  The user waits for the report of a failure: what is asked
\* for before it arrives is a matter of the operation queue.
RunOperation ==
  /\ Len(ops) < scenario.bound /\ failed \subseteq 1..exited
  /\ \E request \in Requests(Fetched, Shown) :
       /\ \A i \in DOMAIN request : request[i].kind \in scenario.kinds
       /\ ops' = ops \o request
  /\ UNCHANGED <<scenario, states, failed, ended, fetching, channel, data, exited, resolved>>

\* The next operation does what it does, or fails.  What waits behind a
\* failure is dropped.
Execute ==
  /\ Acted = ended /\ ended < Len(ops) /\ failed \subseteq 1..exited
  /\ LET op == ops[ended + 1]
         repo == Last(states)
     IN  \/ Succeeds(op, repo) /\ states' = Append(states, Effect(op, repo)) /\ UNCHANGED failed
         \/ ~Succeeds(op, repo) /\ states' = Append(states, repo) /\ failed' = failed \cup {ended + 1}
  /\ UNCHANGED <<scenario, ops, ended, fetching, channel, data, exited, resolved>>

\* Its process exits.
Exit ==
  /\ Acted > ended /\ ended' = ended + 1
  /\ channel' = Append(channel, [type |-> "exit", i |-> ended'])
  /\ UNCHANGED <<scenario, states, ops, failed, fetching, data, exited, resolved>>

\* fetchSmartlogCommits and fetchUncommittedChanges: the time stamp, what the
\* command reads, and the message to the window.
StartFetch ==
  /\ fetching = NoFetch /\ fetching' = [began |-> ended, read |-> -1]
  /\ UNCHANGED <<scenario, states, ops, failed, ended, channel, data, exited, resolved>>

ReadRepository ==
  /\ fetching # NoFetch /\ fetching.read < 0
  /\ fetching' = [fetching EXCEPT !.read = Acted]
  /\ UNCHANGED <<scenario, states, ops, failed, ended, channel, data, exited, resolved>>

SendData ==
  /\ fetching.read >= 0 /\ Len(channel) < MaxMessages
  /\ channel' = Append(channel, [type |-> "data", data |-> fetching])
  /\ fetching' = NoFetch
  /\ UNCHANGED <<scenario, states, ops, failed, ended, data, exited, resolved>>

ReceiveData ==
  /\ channel # <<>> /\ Head(channel).type = "data" /\ channel' = Tail(channel)
  /\ data' = Head(channel).data
  /\ MarkOperationsCompleted(data', exited)
  /\ UNCHANGED <<scenario, states, ops, failed, ended, fetching, exited>>

\* After a failure the queue is empty.
ReceiveExit ==
  /\ channel # <<>> /\ Head(channel).type = "exit" /\ channel' = Tail(channel)
  /\ exited' = Head(channel).i
  /\ ops' = IF exited' \in failed THEN SubSeq(ops, 1, exited') ELSE ops
  /\ MarkOperationsCompleted(data, exited')
  /\ UNCHANGED <<scenario, states, failed, ended, fetching, data>>

Next ==
  \/ RunOperation \/ Execute \/ Exit
  \/ StartFetch \/ ReadRepository \/ SendData
  \/ ReceiveData \/ ReceiveExit

Spec == Init /\ [][Next]_vars

----------------------------------------------------------------------------
(* Properties                                                              *)

\* The repository before the i-th operation, as far as it can be told.
RECURSIVE Before(_)
Before(i) ==
  IF i <= Acted + 1 THEN states[i]
  ELSE LET r == Before(i - 1) IN IF Succeeds(ops[i - 1], r) THEN Effect(ops[i - 1], r) ELSE r

\* Every operation does what its applier was made for, or is known to have failed.
AsAsked == \A i \in DOMAIN ops : i \in failed \cap 1..exited \/ Faithful(ops, i, Before(i))

Outcome == Context(Before(Len(ops) + 1))

\* What a window shows before its data has anything of the operations is the
\* repository as it will be when all of them have been executed: the appliers
\* compose as the commands do.
ShownFromTheStart ==
  data.read = 0 /\ resolved = {} /\ AsAsked => Visible(Shown) = Visible(Outcome)

\* With the kinds of operations called steady it shows that at every moment,
\* whatever is fetched, sent and reported in which order: nothing flickers
\* back, nothing stays that has been done or has failed.
ShownAsExpected == scenario.steady /\ AsAsked => Visible(Shown) = Visible(Outcome)

\* Data fetched after the end of the last operation is shown as it is.
Settles == exited = Len(ops) /\ data.began = exited => Shown = Fetched

\* A preview is the future of the repository, and gives way to it
\* (previews.ts:266-392, 478-570).
PreviewsComeTrue == ShownFromTheStart /\ ShownAsExpected /\ Settles
=============================================================================
