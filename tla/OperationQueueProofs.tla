------------------------ MODULE OperationQueueProofs ------------------------
(***************************************************************************)
(* Theorems about the operation queue of the GTI server, for any number of *)
(* windows, operations and aborts.                                         *)
(***************************************************************************)
EXTENDS OperationQueue, WellFoundedInduction, TLAPS

\* The part of the type invariant the proofs need.
ServerTypes ==
  /\ running \in Operations \cup {None}
  /\ queue \in Seq(Operations)
  /\ outcome \in [Operations -> Outcomes]
  /\ received \in Seq(Operations)
  /\ failedAt \in [Operations -> Nat]
  /\ toServer \in [Clients -> Seq(Requests)]
  /\ current \in [Clients -> [op : Operations \cup {None}, exited : BOOLEAN]]
  /\ known \in [Clients -> SUBSET Operations]
  /\ aborting \subseteq Operations

\* 0 is the number of no operation.
LEMMA NoneIsNoOperation == None \notin Operations
BY BoundsAreNumbers DEF None, Operations

\* The types hold at the start.
LEMMA TypesInit == Init => ServerTypes
BY DEF Init, ServerTypes, Outcomes

\* Taking the head off a sequence.
LEMMA TailOf ==
  ASSUME NEW S, NEW s \in Seq(S), s # <<>>
  PROVE  /\ Head(s) = s[1] /\ Head(s) \in S
         /\ Tail(s) \in Seq(S)
         /\ Len(s) \in Nat \ {0}
         /\ Len(Tail(s)) = Len(s) - 1
         /\ DOMAIN Tail(s) = 1..(Len(s) - 1) /\ DOMAIN s = 1..Len(s)
         /\ \A i \in 1..(Len(s) - 1) : Tail(s)[i] = s[i + 1]
OBVIOUS

\* Adding an element at the end of a sequence.
LEMMA AppendOf ==
  ASSUME NEW S, NEW s \in Seq(S), NEW e \in S
  PROVE  /\ Append(s, e) \in Seq(S)
         /\ Len(s) \in Nat
         /\ Len(Append(s, e)) = Len(s) + 1
         /\ DOMAIN Append(s, e) = 1..(Len(s) + 1) /\ DOMAIN s = 1..Len(s)
         /\ \A i \in 1..Len(s) : Append(s, e)[i] = s[i]
         /\ Append(s, e)[Len(s) + 1] = e
OBVIOUS

\* A request to run an operation queues it or starts it.
LEMMA RunEffect ==
  ASSUME ServerTypes, NEW c \in Clients, ReceiveRun(c)
  PROVE  /\ toServer[c] \in Seq(Requests) /\ toServer[c] # <<>>
         /\ toServer[c][1].type = "runOperation" /\ toServer[c][1].op \in Operations
         /\ received' = Append(received, toServer[c][1].op)
         /\ toServer' = [toServer EXCEPT ![c] = Tail(@)]
         /\ \/ /\ running # None
               /\ running' = running
               /\ queue' = Append(queue, toServer[c][1].op)
               /\ outcome' = [outcome EXCEPT ![toServer[c][1].op] = "waiting"]
            \/ /\ running = None
               /\ running' = toServer[c][1].op
               /\ queue' = queue
               /\ outcome' = [outcome EXCEPT ![toServer[c][1].op] = "alive"]
         /\ failedAt' = failedAt /\ aborting' = aborting /\ cancelled' = cancelled
         /\ current' = current /\ known' = known
<1>1. toServer[c] \in Seq(Requests) /\ toServer[c] # <<>>
  BY DEF ServerTypes, ReceiveRun
<1>2. Head(toServer[c]) = toServer[c][1] /\ toServer[c][1] \in Requests
  BY <1>1, TailOf
<1>3. toServer[c][1].op \in Operations
  BY <1>2 DEF Requests
<1>4. /\ failedAt' = failedAt /\ aborting' = aborting /\ cancelled' = cancelled
      /\ current' = current /\ known' = known
  BY DEF ReceiveRun, client
<1>5. /\ toServer[c][1].type = "runOperation"
      /\ received' = Append(received, toServer[c][1].op)
      /\ toServer' = [toServer EXCEPT ![c] = Tail(@)]
      /\ RunOrQueueOperation(toServer[c][1].op, c)
  BY <1>2 DEF ReceiveRun
<1> QED BY <1>1, <1>3, <1>4, <1>5 DEF RunOrQueueOperation, Enqueue, Start

\* When an operation succeeds, the next one starts.
LEMMA SucceedEffect ==
  ASSUME ServerTypes, Succeed
  PROVE  /\ running \in Operations /\ outcome[running] = "ok"
         /\ \/ /\ queue = <<>> /\ running' = None /\ queue' = queue
               /\ outcome' = [outcome EXCEPT ![running] = "done"]
            \/ /\ queue # <<>> /\ queue[1] \in Operations
               /\ running' = queue[1] /\ queue' = Tail(queue)
               /\ outcome' = [[outcome EXCEPT ![running] = "done"] EXCEPT ![queue[1]] = "alive"]
         /\ received' = received /\ failedAt' = failedAt /\ toServer' = toServer
         /\ aborting' = aborting /\ cancelled' = cancelled
         /\ current' = current /\ known' = known
<1>1. running \in Operations /\ outcome[running] = "ok"
  BY DEF Succeed, ServerTypes
<1>2. /\ received' = received /\ failedAt' = failedAt /\ toServer' = toServer
      /\ aborting' = aborting /\ cancelled' = cancelled
      /\ current' = current /\ known' = known
  BY DEF Succeed, history, client
<1>3. CASE queue = <<>>
  BY <1>1, <1>2, <1>3 DEF Succeed
<1>4. CASE queue # <<>>
  <2>1. Head(queue) = queue[1] /\ queue[1] \in Operations
    BY <1>4, TailOf DEF ServerTypes
  <2> QED BY <1>1, <1>2, <1>4, <2>1 DEF Succeed
<1> QED BY <1>3, <1>4

\* When an operation fails, the ones in the queue are dropped.
LEMMA FailEffect ==
  ASSUME ServerTypes, Fail
  PROVE  /\ running \in Operations /\ outcome[running] \in {"alive", "bad"}
         /\ queue' = <<>> /\ running' = None
         /\ failedAt' = [failedAt EXCEPT ![running] = Len(received)]
         /\ outcome' \in [Operations -> Outcomes]
         /\ outcome'[running] = "failed"
         /\ \A o \in Operations \ {running} :
              \/ (\E k \in DOMAIN queue : queue[k] = o) /\ outcome'[o] = "dropped"
              \/ ~(\E k \in DOMAIN queue : queue[k] = o) /\ outcome'[o] = outcome[o]
         /\ received' = received /\ toServer' = toServer
         /\ aborting' = aborting /\ cancelled' = cancelled
         /\ current' = current /\ known' = known
<1>1. running \in Operations /\ outcome[running] \in {"alive", "bad"}
  BY Zenon DEF Fail, ServerTypes
<1>2. /\ received' = received /\ toServer' = toServer
      /\ aborting' = aborting /\ cancelled' = cancelled
      /\ current' = current /\ known' = known
  BY DEF Fail, client
<1>3. /\ outcome' = [Cleared EXCEPT ![running] = "failed"]
      /\ queue' = <<>> /\ running' = None
      /\ failedAt' = [failedAt EXCEPT ![running] = Len(received)]
  BY DEF Fail
<1>4. \A o : o \in ToSet(queue) <=> \E k \in DOMAIN queue : queue[k] = o
  BY DEF ToSet
<1>5. Cleared \in [Operations -> Outcomes]
  BY DEF Cleared, ServerTypes, Outcomes
<1>6. \A o \in Operations : Cleared[o] = IF o \in ToSet(queue) THEN "dropped" ELSE outcome[o]
  BY DEF Cleared
<1>7. /\ outcome' \in [Operations -> Outcomes]
      /\ outcome'[running] = "failed"
      /\ \A o \in Operations \ {running} : outcome'[o] = Cleared[o]
  BY <1>1, <1>3, <1>5 DEF Outcomes
<1> QED BY <1>1, <1>2, <1>3, <1>4, <1>6, <1>7

\* A request is put in a channel.
LEMMA AskEffect ==
  ASSUME ServerTypes, NEW c \in Clients, NEW o \in Operations, RunOperation(c, o)
  PROVE  /\ outcome[o] = "new"
         /\ outcome' = [outcome EXCEPT ![o] = "asked"]
         /\ \E r \in Requests : /\ r.op = o /\ r.type = "runOperation"
                               /\ toServer' = [toServer EXCEPT ![c] = Append(@, r)]
         /\ running' = running /\ queue' = queue /\ received' = received
         /\ failedAt' = failedAt /\ aborting' = aborting /\ cancelled' = cancelled
         /\ known' = [known EXCEPT ![c] = @ \cup {o}]
         /\ \/ current' = current
            \/ current' = [current EXCEPT ![c] = StartNewOperation(@, o)]
<1>1. [type |-> "runOperation", op |-> o] \in Requests
  BY DEF Requests
<1>2. received' = received /\ failedAt' = failedAt /\ cancelled' = cancelled
  BY DEF RunOperation, history
<1>3. toServer' = [toServer EXCEPT ![c] = Append(@, [type |-> "runOperation", op |-> o])]
  BY DEF RunOperation
<1> QED BY <1>1, <1>2, <1>3 DEF RunOperation

\* So is a request to abort, which names an operation the user cancelled.
LEMMA AbortEffect ==
  ASSUME ServerTypes, NEW c \in Clients, AbortOperation(c)
  PROVE  /\ \E r \in Requests : /\ r.type = "abortRunningOperation"
                               /\ cancelled' = cancelled \cup {r.op}
                               /\ toServer' = [toServer EXCEPT ![c] = Append(@, r)]
         /\ running' = running /\ queue' = queue /\ outcome' = outcome
         /\ received' = received /\ failedAt' = failedAt /\ aborting' = aborting
         /\ current' = current /\ known' = known
<1>1. current[c] \in [op : Operations \cup {None}, exited : BOOLEAN]
  BY DEF ServerTypes
<1>2. [type |-> "abortRunningOperation", op |-> current[c].op] \in Requests
  BY <1>1 DEF Requests, AbortOperation, IsOngoing
<1>3. /\ toServer' = [toServer EXCEPT ![c] =
                      Append(@, [type |-> "abortRunningOperation", op |-> current[c].op])]
      /\ cancelled' = cancelled \cup {current[c].op}
      /\ received' = received /\ failedAt' = failedAt
  BY DEF AbortOperation
<1>4. /\ running' = running /\ queue' = queue /\ outcome' = outcome /\ aborting' = aborting
      /\ current' = current /\ known' = known
  BY DEF AbortOperation, server, client
<1> QED BY <1>2, <1>3, <1>4

\* Progress changes only what a window shows.
LEMMA ProgressEffect ==
  ASSUME ServerTypes, NEW c \in Clients, ReceiveProgress(c)
  PROVE  /\ running' = running /\ queue' = queue /\ outcome' = outcome
         /\ received' = received /\ failedAt' = failedAt /\ toServer' = toServer
         /\ aborting' = aborting /\ cancelled' = cancelled
         /\ current' \in [Clients -> [op : Operations \cup {None}, exited : BOOLEAN]]
         /\ known' \in [Clients -> SUBSET Operations]
<1> DEFINE m == Head(toClient[c])
           Info == [op : Operations \cup {None}, exited : BOOLEAN]
<1>1. current[c] \in Info /\ known[c] \in SUBSET Operations
  BY DEF ServerTypes
<1>2. m.op \in known[c] => StartNewOperation(current[c], m.op) \in Info
  BY <1>1 DEF StartNewOperation
<1>3. [current[c] EXCEPT !.exited = TRUE] \in Info
  BY <1>1
<1>4. CurrentAfter(c, m) \in Info
  BY <1>1, <1>2, <1>3, Zenon DEF CurrentAfter
<1>5. /\ current' = [current EXCEPT ![c] = CurrentAfter(c, m)]
      /\ known' = [known EXCEPT ![c] = IF m.kind = "exit" THEN @ \ {m.op} ELSE @]
      /\ toServer' = toServer
  BY DEF ReceiveProgress
<1>6. /\ running' = running /\ queue' = queue /\ outcome' = outcome /\ aborting' = aborting
      /\ received' = received /\ failedAt' = failedAt /\ cancelled' = cancelled
  BY DEF ReceiveProgress, server, history
<1> HIDE DEF m
<1>7. known' \in [Clients -> SUBSET Operations]
  BY <1>5 DEF ServerTypes
<1>8. current' \in [Clients -> Info]
  BY <1>4, <1>5 DEF ServerTypes
<1> QED BY <1>5, <1>6, <1>7, <1>8

\* A request to abort is taken from its channel, and may send a signal to the
\* operation it names.
LEMMA ReceiveAbortEffect ==
  ASSUME ServerTypes, NEW c \in Clients, ReceiveAbort(c)
  PROVE  /\ toServer[c] \in Seq(Requests) /\ toServer[c] # <<>>
         /\ toServer[c][1].type = "abortRunningOperation"
         /\ toServer' = [toServer EXCEPT ![c] = Tail(@)]
         /\ aborting' \subseteq aborting \cup {toServer[c][1].op}
         /\ toServer[c][1].op \in Operations
         /\ running' = running /\ queue' = queue /\ outcome' = outcome
         /\ received' = received /\ failedAt' = failedAt /\ cancelled' = cancelled
         /\ current' = current /\ known' = known
<1>1. toServer[c] \in Seq(Requests) /\ toServer[c] # <<>>
  BY DEF ServerTypes, ReceiveAbort
<1>2. Head(toServer[c]) = toServer[c][1]
  BY <1>1, TailOf
<1>3. /\ toServer[c][1].type = "abortRunningOperation"
      /\ toServer' = [toServer EXCEPT ![c] = Tail(@)]
      /\ aborting' = aborting \cup Signalled(toServer[c][1].op)
  BY <1>2 DEF ReceiveAbort
<1>4. Signalled(toServer[c][1].op) \subseteq {toServer[c][1].op}
  BY DEF Signalled
<1>5. /\ received' = received /\ failedAt' = failedAt /\ cancelled' = cancelled
      /\ current' = current /\ known' = known
      /\ running' = running /\ queue' = queue /\ outcome' = outcome
  BY DEF ReceiveAbort, history, client
<1>6. toServer[c][1] \in Requests
  BY <1>1, TailOf
<1>7. toServer[c][1].op \in Operations
  BY <1>6 DEF Requests
<1> QED BY <1>1, <1>3, <1>4, <1>5, <1>7

\* The exit of a process changes how far its operation has come.
LEMMA ExitEffect ==
  ASSUME ServerTypes, Exit(0) \/ Exit(1) \/ Killed
  PROVE  /\ running \in Operations /\ outcome[running] = "alive"
         /\ \/ outcome' = [outcome EXCEPT ![running] = "ok"]
            \/ outcome' = [outcome EXCEPT ![running] = "bad"]
         /\ running' = running /\ queue' = queue /\ aborting' = aborting
         /\ received' = received /\ failedAt' = failedAt /\ toServer' = toServer
         /\ cancelled' = cancelled /\ current' = current /\ known' = known
<1>1. CASE Exit(0) \/ Exit(1)
  <2>1. /\ received' = received /\ failedAt' = failedAt /\ cancelled' = cancelled
        /\ current' = current /\ known' = known
    BY <1>1 DEF Exit, history, client
  <2> QED BY <1>1, <2>1 DEF Exit, ServerTypes
<1>2. CASE Killed
  <2>1. /\ received' = received /\ failedAt' = failedAt /\ cancelled' = cancelled
        /\ current' = current /\ known' = known
    BY <1>2 DEF Killed, history, client
  <2>2. running \in Operations
    BY <1>2 DEF Killed, ServerTypes
  <2> QED BY <1>2, <2>1, <2>2 DEF Killed
<1> QED BY <1>1, <1>2

\* A channel that gets another content still holds requests.
LEMMA ChannelType ==
  ASSUME NEW t \in [Clients -> Seq(Requests)], NEW c \in Clients, NEW s \in Seq(Requests)
  PROVE  [t EXCEPT ![c] = s] \in [Clients -> Seq(Requests)]
OBVIOUS

\* Every step keeps the types.
LEMMA TypesStep == ServerTypes /\ [Next]_vars => ServerTypes'
<1> SUFFICES ASSUME ServerTypes, [Next]_vars PROVE ServerTypes'
  OBVIOUS
<1>0. toServer \in [Clients -> Seq(Requests)] /\ \A c \in Clients : toServer[c] \in Seq(Requests)
  BY DEF ServerTypes
<1>1. ASSUME NEW c \in Clients, NEW o \in Operations, RunOperation(c, o) PROVE ServerTypes'
  <2>1. PICK r \in Requests : toServer' = [toServer EXCEPT ![c] = Append(@, r)]
    BY <1>1, AskEffect
  <2>2. toServer' \in [Clients -> Seq(Requests)]
    BY <1>0, <2>1, ChannelType, AppendOf
  <2>3. outcome' \in [Operations -> Outcomes]
    <3>1. outcome' = [outcome EXCEPT ![o] = "asked"]
      BY <1>1, AskEffect
    <3> QED BY <3>1 DEF ServerTypes, Outcomes
  <2>4. current' \in [Clients -> [op : Operations \cup {None}, exited : BOOLEAN]]
    <3> DEFINE Info == [op : Operations \cup {None}, exited : BOOLEAN]
    <3>1. current \in [Clients -> Info] /\ current[c] \in Info
      BY DEF ServerTypes
    <3>2. StartNewOperation(current[c], o) \in Info
      BY <3>1 DEF StartNewOperation
    <3>3. \/ current' = current
          \/ current' = [current EXCEPT ![c] = StartNewOperation(@, o)]
      BY <1>1, AskEffect
    <3> HIDE DEF Info
    <3> QED BY <3>1, <3>2, <3>3 DEF Info
  <2>5. known' \in [Clients -> SUBSET Operations]
    <3>1. known' = [known EXCEPT ![c] = @ \cup {o}]
      BY <1>1, AskEffect
    <3>2. known \in [Clients -> SUBSET Operations]
      BY DEF ServerTypes
    <3> QED BY <3>1, <3>2
  <2>6. /\ running' = running /\ queue' = queue /\ received' = received
        /\ failedAt' = failedAt /\ aborting' = aborting
    BY <1>1, AskEffect
  <2> QED BY <2>2, <2>3, <2>4, <2>5, <2>6 DEF ServerTypes
<1>2. ASSUME NEW c \in Clients, AbortOperation(c) PROVE ServerTypes'
  <2>1. PICK r \in Requests : toServer' = [toServer EXCEPT ![c] = Append(@, r)]
    BY <1>2, AbortEffect
  <2>2. toServer' \in [Clients -> Seq(Requests)]
    BY <1>0, <2>1, ChannelType, AppendOf
  <2> QED BY <1>2, <2>2, AbortEffect DEF ServerTypes
<1>3. ASSUME NEW c \in Clients, ReceiveProgress(c) PROVE ServerTypes'
  BY <1>3, ProgressEffect DEF ServerTypes
<1>4. ASSUME NEW c \in Clients, ReceiveRun(c) PROVE ServerTypes'
  <2> DEFINE o == toServer[c][1].op
  <2>1. /\ o \in Operations /\ Tail(toServer[c]) \in Seq(Requests)
        /\ toServer' = [toServer EXCEPT ![c] = Tail(@)]
    BY <1>4, RunEffect, TailOf
  <2>2. received' = Append(received, o) /\ queue' \in {queue, Append(queue, o)}
    BY <1>4, RunEffect
  <2>3. /\ running' \in {running, o} /\ failedAt' = failedAt /\ aborting' = aborting
        /\ current' = current /\ known' = known
    BY <1>4, RunEffect
  <2>4. toServer' \in [Clients -> Seq(Requests)]
    BY <1>0, <2>1, ChannelType
  <2>5. outcome' \in [Operations -> Outcomes]
    BY <1>4, RunEffect DEF ServerTypes, Outcomes
  <2> HIDE DEF o
  <2>6. received' \in Seq(Operations) /\ queue' \in Seq(Operations)
    <3>1. received \in Seq(Operations) /\ queue \in Seq(Operations)
      BY DEF ServerTypes
    <3>2. Append(received, o) \in Seq(Operations) /\ Append(queue, o) \in Seq(Operations)
      BY <2>1, <3>1
    <3> QED BY <2>2, <3>1, <3>2
  <2> QED BY <2>1, <2>4, <2>5, <2>6, <2>3 DEF ServerTypes
<1>5. ASSUME NEW c \in Clients, ReceiveAbort(c) PROVE ServerTypes'
  <2>1. /\ Tail(toServer[c]) \in Seq(Requests)
        /\ toServer' = [toServer EXCEPT ![c] = Tail(@)]
    BY <1>5, ReceiveAbortEffect, TailOf
  <2>2. toServer' \in [Clients -> Seq(Requests)]
    BY <1>0, <2>1, ChannelType
  <2> QED BY <1>5, <2>2, ReceiveAbortEffect DEF ServerTypes
<1>6. ASSUME Exit(0) \/ Exit(1) \/ Killed PROVE ServerTypes'
  <2>1. outcome' \in [Operations -> Outcomes]
    BY <1>6, ExitEffect DEF ServerTypes, Outcomes
  <2> QED BY <1>6, <2>1, ExitEffect DEF ServerTypes
<1>7. ASSUME Succeed PROVE ServerTypes'
  <2>1. outcome' \in [Operations -> Outcomes]
    BY <1>7, SucceedEffect DEF ServerTypes, Outcomes
  <2>2. queue' \in Seq(Operations) /\ running' \in Operations \cup {None}
    <3>1. CASE queue = <<>>
      BY <1>7, <3>1, SucceedEffect DEF ServerTypes
    <3>2. CASE queue # <<>>
      <4>1. queue' = Tail(queue) /\ running' \in Operations
        BY <1>7, <3>2, SucceedEffect
      <4> QED BY <3>2, <4>1, TailOf DEF ServerTypes
    <3> QED BY <3>1, <3>2
  <2> QED BY <1>7, <2>1, <2>2, SucceedEffect DEF ServerTypes
<1>8. ASSUME Fail PROVE ServerTypes'
  <2>1. failedAt' = [failedAt EXCEPT ![running] = Len(received)] /\ Len(received) \in Nat
    BY <1>8, FailEffect DEF ServerTypes
  <2>2. failedAt' \in [Operations -> Nat]
    BY <2>1 DEF ServerTypes
  <2>3. /\ queue' = <<>> /\ running' = None /\ outcome' \in [Operations -> Outcomes]
        /\ received' = received /\ toServer' = toServer /\ aborting' = aborting
        /\ current' = current /\ known' = known
    BY <1>8, FailEffect
  <2> QED BY <2>2, <2>3 DEF ServerTypes
<1>9. CASE UNCHANGED vars
  BY <1>9 DEF vars, server, client, history, ServerTypes
<1> QED BY <1>1, <1>2, <1>3, <1>4, <1>5, <1>6, <1>7, <1>8, <1>9 DEF Next, Receive, Settle

----------------------------------------------------------------------------
(***************************************************************************)
(* One operation at a time, in the order of arrival.  The invariant says   *)
(* where an operation is at each stage of its life: in one channel, in the *)
(* queue at a place that follows the order of arrival, or running before   *)
(* all those that wait.                                                    *)
(***************************************************************************)
Active == {"alive", "ok", "bad"}
HasEnded == {"done", "failed", "dropped"}
HasStarted == Active \cup {"done", "failed"}

\* A request on its way is the only one for its operation.
AskedOnce ==
  \A c, d \in Clients : \A i \in DOMAIN toServer[c], j \in DOMAIN toServer[d] :
    toServer[c][i].type = "runOperation" =>
      /\ outcome[toServer[c][i].op] = "asked"
      /\ toServer[d][j].type = "runOperation" /\ toServer[d][j].op = toServer[c][i].op
           => c = d /\ i = j

\* An operation is received once, and then no longer on its way.
ReceivedOnce ==
  /\ \A i \in DOMAIN received : outcome[received[i]] \notin {"new", "asked"}
  /\ \A i, j \in DOMAIN received : received[i] = received[j] => i = j

\* The queue holds what waits, in the order of arrival.
QueueInOrder ==
  /\ \A k \in DOMAIN queue : outcome[queue[k]] = "waiting"
  /\ \A o \in Operations : outcome[o] = "waiting" => \E k \in DOMAIN queue : queue[k] = o
  /\ \A k, l \in DOMAIN queue : queue[k] = queue[l] => k = l
  /\ \A i, j \in DOMAIN received, k, l \in DOMAIN queue :
       k < l /\ received[i] = queue[k] /\ received[j] = queue[l] => i < j

\* What runs is the running operation, and it came before all that wait.
OneRuns ==
  /\ running # None => outcome[running] \in Active
  /\ \A o \in Operations : outcome[o] \in Active => running = o
  /\ running = None => queue = <<>>
  /\ \A i, j \in DOMAIN received :
       outcome[received[i]] \in Active /\ outcome[received[j]] = "waiting" => i < j

Ordered == ReceivedOnce /\ QueueInOrder /\ OneRuns /\ OneAtATimeInOrder

OrderInv == AskedOnce /\ Ordered

\* Nothing has been asked for at the start.
LEMMA OrderInit == Init => OrderInv
BY NoneIsNoOperation
   DEF Init, OrderInv, Ordered, AskedOnce, ReceivedOnce, QueueInOrder, OneRuns, OneAtATimeInOrder, Active

\* Every request names an operation.
LEMMA RequestNames ==
  ASSUME ServerTypes, NEW d \in Clients, NEW j \in DOMAIN toServer[d]
  PROVE  toServer[d][j].op \in Operations
<1>1. toServer[d] \in Seq(Requests)
  BY DEF ServerTypes
<1>2. toServer[d][j] \in Requests
  BY <1>1
<1> QED BY <1>2 DEF Requests

\* The requests on their way stay distinct when one more is posted.
LEMMA AskedOncePost ==
  ASSUME ServerTypes, ServerTypes', AskedOnce, NEW c \in Clients, NEW r \in Requests,
         toServer' = [toServer EXCEPT ![c] = Append(@, r)],
         r.type = "runOperation" => outcome[r.op] = "new" /\ outcome'[r.op] = "asked",
         \A o \in Operations : outcome[o] = "asked" => outcome'[o] = "asked"
  PROVE  AskedOnce'
<1>1. \A d \in Clients : toServer[d] \in Seq(Requests)
  BY DEF ServerTypes
<1>2. toServer' = [d \in Clients |-> IF d = c THEN Append(toServer[c], r) ELSE toServer[d]]
  BY DEF ServerTypes
<1>3. ASSUME NEW d \in Clients, NEW j \in DOMAIN (toServer'[d])
      PROVE  \/ d = c /\ j = Len(toServer[c]) + 1 /\ toServer'[d][j] = r
             \/ /\ j \in DOMAIN toServer[d] /\ toServer'[d][j] = toServer[d][j]
                /\ j # Len(toServer[c]) + 1 \/ d # c
  <2>1. CASE d = c
    <3>1. toServer'[d] = Append(toServer[c], r)
      BY <1>2, <2>1
    <3> QED BY <1>1, <2>1, <3>1, AppendOf
  <2>2. CASE d # c
    BY <1>2, <2>2
  <2> QED BY <2>1, <2>2
<1>4. \A d \in Clients : \A j \in DOMAIN toServer[d] : toServer[d][j].op \in Operations
  BY RequestNames
<1> SUFFICES ASSUME NEW a \in Clients, NEW d \in Clients,
                    NEW i \in DOMAIN (toServer'[a]), NEW j \in DOMAIN (toServer'[d]),
                    toServer'[a][i].type = "runOperation"
             PROVE  /\ outcome'[toServer'[a][i].op] = "asked"
                    /\ toServer'[d][j].type = "runOperation"
                         /\ toServer'[d][j].op = toServer'[a][i].op => a = d /\ i = j
  BY DEF AskedOnce
<1>5. CASE a = c /\ i = Len(toServer[c]) + 1 /\ toServer'[a][i] = r
  BY <1>3, <1>4, <1>5 DEF AskedOnce
<1>6. CASE i \in DOMAIN toServer[a] /\ toServer'[a][i] = toServer[a][i]
  BY <1>3, <1>4, <1>6 DEF AskedOnce
<1> QED BY <1>3, <1>5, <1>6

\* They stay distinct when the first of a channel is received.
LEMMA AskedOnceReceive ==
  ASSUME ServerTypes, ServerTypes', AskedOnce, NEW c \in Clients, toServer[c] # <<>>,
         toServer' = [toServer EXCEPT ![c] = Tail(@)],
         \A o \in Operations :
           outcome[o] = "asked" /\ (toServer[c][1].type = "runOperation" => o # toServer[c][1].op)
             => outcome'[o] = "asked"
  PROVE  AskedOnce'
<1>1. \A d \in Clients : toServer[d] \in Seq(Requests)
  BY DEF ServerTypes
<1>2. toServer' = [d \in Clients |-> IF d = c THEN Tail(toServer[c]) ELSE toServer[d]]
  BY DEF ServerTypes
<1> DEFINE before(d, j) == IF d = c THEN j + 1 ELSE j
<1>3. ASSUME NEW d \in Clients, NEW j \in DOMAIN (toServer'[d])
      PROVE  /\ before(d, j) \in DOMAIN toServer[d] /\ j \in Nat
             /\ toServer'[d][j] = toServer[d][before(d, j)]
             /\ d = c => before(d, j) # 1
  <2>1. CASE d = c
    <3>1. toServer'[d] = Tail(toServer[c])
      BY <1>2, <2>1
    <3>2. j \in 1..(Len(toServer[c]) - 1) /\ Len(toServer[c]) \in Nat
      BY <1>1, <3>1, TailOf
    <3>3. Tail(toServer[c])[j] = toServer[c][j + 1]
      BY <1>1, <3>2, TailOf
    <3>4. j + 1 \in 1..Len(toServer[c]) /\ j \in Nat /\ j + 1 # 1
      BY <3>2
    <3>5. DOMAIN toServer[c] = 1..Len(toServer[c])
      BY <1>1
    <3> QED BY <2>1, <3>1, <3>3, <3>4, <3>5
  <2>2. CASE d # c
    <3>1. toServer'[d] = toServer[d]
      BY <1>2, <2>2
    <3>2. j \in 1..Len(toServer[d])
      BY <1>1, <3>1
    <3> QED BY <2>2, <3>1, <3>2
  <2> QED BY <2>1, <2>2
<1>4. \A d \in Clients : \A j \in DOMAIN toServer[d] : toServer[d][j].op \in Operations
  BY RequestNames
<1>5. 1 \in DOMAIN toServer[c]
  BY <1>1, TailOf
<1> SUFFICES ASSUME NEW a \in Clients, NEW d \in Clients,
                    NEW i \in DOMAIN (toServer'[a]), NEW j \in DOMAIN (toServer'[d]),
                    toServer'[a][i].type = "runOperation"
             PROVE  /\ outcome'[toServer'[a][i].op] = "asked"
                    /\ toServer'[d][j].type = "runOperation"
                         /\ toServer'[d][j].op = toServer'[a][i].op => a = d /\ i = j
  BY DEF AskedOnce
<1>6. /\ before(a, i) \in DOMAIN toServer[a] /\ toServer'[a][i] = toServer[a][before(a, i)]
      /\ before(d, j) \in DOMAIN toServer[d] /\ toServer'[d][j] = toServer[d][before(d, j)]
      /\ a = c => before(a, i) # 1
      /\ i \in Nat /\ j \in Nat
  BY <1>3
<1>7. a = d /\ before(a, i) = before(d, j) => i = j
  BY <1>6
<1> HIDE DEF before
<1>8. outcome[toServer[a][before(a, i)].op] = "asked"
  BY <1>6 DEF AskedOnce
<1>9. toServer[c][1].type = "runOperation" => toServer[a][before(a, i)].op # toServer[c][1].op
  BY <1>5, <1>6 DEF AskedOnce
<1>10. outcome'[toServer'[a][i].op] = "asked"
  BY <1>4, <1>6, <1>8, <1>9
<1>11. toServer'[d][j].type = "runOperation" /\ toServer'[d][j].op = toServer'[a][i].op
         => a = d /\ before(a, i) = before(d, j)
  BY <1>6 DEF AskedOnce
<1> QED BY <1>7, <1>10, <1>11

\* What is in the queue, and what was received, are operations.
LEMMA SequenceNames ==
  ASSUME ServerTypes
  PROVE  /\ Len(received) \in Nat /\ DOMAIN received = 1..Len(received)
         /\ Len(queue) \in Nat /\ DOMAIN queue = 1..Len(queue)
         /\ \A i \in DOMAIN received : received[i] \in Operations
         /\ \A k \in DOMAIN queue : queue[k] \in Operations
<1>1. received \in Seq(Operations) /\ queue \in Seq(Operations)
  BY DEF ServerTypes
<1> QED BY <1>1

\* The order does not depend on the operations that were not received.
LEMMA OrderedAsk ==
  ASSUME ServerTypes, ServerTypes', Ordered,
         received' = received, queue' = queue, running' = running,
         \A o \in Operations :
           outcome'[o] = outcome[o] \/ (outcome[o] = "new" /\ outcome'[o] = "asked")
  PROVE  Ordered'
<1>1. /\ \A i \in DOMAIN received : received[i] \in Operations
      /\ \A k \in DOMAIN queue : queue[k] \in Operations
      /\ running \in Operations \cup {None}
  BY SequenceNames DEF ServerTypes
<1>2. \A i \in DOMAIN received : outcome'[received[i]] = outcome[received[i]]
  BY <1>1 DEF Ordered, ReceivedOnce
<1>3. ReceivedOnce'
  BY <1>2 DEF Ordered, ReceivedOnce
<1>4. QueueInOrder'
  BY <1>1, <1>2 DEF Ordered, QueueInOrder
<1>5. OneRuns'
  BY <1>1, <1>2 DEF Ordered, OneRuns, Active
<1>6. OneAtATimeInOrder'
  BY <1>2 DEF Ordered, OneAtATimeInOrder, Started, IsOver
<1> QED BY <1>3, <1>4, <1>5, <1>6 DEF Ordered

\* An operation that is received goes behind all the others.
LEMMA OrderedRun ==
  ASSUME ServerTypes, ServerTypes', Ordered, NEW o \in Operations, outcome[o] = "asked",
         received' = Append(received, o),
         \/ /\ running # None /\ running' = running
            /\ queue' = Append(queue, o) /\ outcome' = [outcome EXCEPT ![o] = "waiting"]
         \/ /\ running = None /\ running' = o
            /\ queue' = queue /\ outcome' = [outcome EXCEPT ![o] = "alive"]
  PROVE  Ordered'
<1> DEFINE n == Len(received)
<1>1. /\ n \in Nat /\ DOMAIN received = 1..n
      /\ Len(queue) \in Nat /\ DOMAIN queue = 1..Len(queue)
      /\ \A i \in DOMAIN received : received[i] \in Operations
      /\ \A k \in DOMAIN queue : queue[k] \in Operations
  BY SequenceNames
<1>2. /\ DOMAIN received' = 1..(n + 1) /\ received'[n + 1] = o
      /\ \A i \in 1..n : received'[i] = received[i]
  BY AppendOf DEF ServerTypes
<1>3. /\ outcome'[o] \in {"waiting", "alive"}
      /\ \A a \in Operations \ {o} : outcome'[a] = outcome[a]
  BY DEF ServerTypes
<1> HIDE DEF n
<1>4. /\ \A i \in 1..n : received[i] # o /\ outcome'[received[i]] = outcome[received[i]]
      /\ \A k \in DOMAIN queue : queue[k] # o /\ outcome'[queue[k]] = outcome[queue[k]]
  BY <1>1, <1>3 DEF Ordered, ReceivedOnce, QueueInOrder
<1>5. ReceivedOnce'
  BY <1>1, <1>2, <1>3, <1>4 DEF Ordered, ReceivedOnce
<1>6. CASE running # None
  <2>1. /\ running' = running /\ queue' = Append(queue, o) /\ outcome'[o] = "waiting"
    BY <1>6 DEF ServerTypes
  <2>2. /\ DOMAIN queue' = 1..(Len(queue) + 1) /\ queue'[Len(queue) + 1] = o
        /\ \A k \in 1..Len(queue) : queue'[k] = queue[k]
    BY <2>1, AppendOf DEF ServerTypes
  <2>3. running # o
    BY <1>6 DEF Ordered, OneRuns, Active
  <2>4. QueueInOrder'
    <3>1. ASSUME NEW k \in DOMAIN queue' PROVE outcome'[queue'[k]] = "waiting"
      <4>1. CASE k = Len(queue) + 1
        BY <2>1, <2>2, <4>1
      <4>2. CASE k # Len(queue) + 1
        <5>1. k \in 1..Len(queue)
          BY <1>1, <2>2, <4>2
        <5>2. queue'[k] = queue[k] /\ k \in DOMAIN queue
          BY <1>1, <2>2, <5>1
        <5>3. outcome[queue[k]] = "waiting"
          BY <5>2 DEF Ordered, QueueInOrder
        <5> QED BY <1>4, <5>2, <5>3
      <4> QED BY <4>1, <4>2
    <3>2. ASSUME NEW a \in Operations, outcome'[a] = "waiting"
          PROVE  \E k \in DOMAIN queue' : queue'[k] = a
      <4>1. CASE a = o
        BY <1>1, <2>2, <4>1
      <4>2. CASE a # o
        <5>1. PICK k \in DOMAIN queue : queue[k] = a
          BY <1>3, <3>2, <4>2 DEF Ordered, QueueInOrder
        <5> QED BY <1>1, <2>2, <5>1
      <4> QED BY <4>1, <4>2
    <3>3. \A k, l \in DOMAIN queue' : queue'[k] = queue'[l] => k = l
      BY <1>1, <1>4, <2>2 DEF Ordered, QueueInOrder
    <3>4. ASSUME NEW i \in DOMAIN received', NEW j \in DOMAIN received',
                 NEW k \in DOMAIN queue', NEW l \in DOMAIN queue',
                 k < l, received'[i] = queue'[k], received'[j] = queue'[l]
          PROVE  i < j
      <4>1. k \in 1..Len(queue) /\ queue'[k] = queue[k] /\ queue[k] # o
        BY <1>1, <1>4, <2>2, <3>4
      <4>2. i \in 1..n /\ received'[i] = received[i]
        BY <1>1, <1>2, <3>4, <4>1
      <4>3. CASE l = Len(queue) + 1
        <5>1. j = n + 1
          BY <1>1, <1>2, <1>4, <2>2, <3>4, <4>3
        <5> QED BY <1>1, <4>2, <5>1
      <4>4. CASE l \in 1..Len(queue)
        <5>1. queue'[l] = queue[l] /\ queue[l] # o
          BY <1>1, <1>4, <2>2, <4>4
        <5>2. j \in 1..n /\ received'[j] = received[j]
          BY <1>1, <1>2, <3>4, <5>1
        <5> QED BY <1>1, <3>4, <4>1, <4>2, <4>4, <5>1, <5>2 DEF Ordered, QueueInOrder
      <4> QED BY <1>1, <2>2, <4>3, <4>4
    <3> QED BY <3>1, <3>2, <3>3, <3>4 DEF QueueInOrder
  <2>5. OneRuns'
    <3>1. running \in Operations
      BY <1>6 DEF ServerTypes
    <3>2. outcome'[running'] \in Active
      BY <1>3, <1>6, <2>1, <2>3, <3>1 DEF Ordered, OneRuns
    <3>3. \A a \in Operations : outcome'[a] \in Active => running' = a
      BY <1>3, <2>1 DEF Ordered, OneRuns, Active
    <3>4. ASSUME NEW i \in DOMAIN received', NEW j \in DOMAIN received',
                 outcome'[received'[i]] \in Active, outcome'[received'[j]] = "waiting"
          PROVE  i < j
      <4>1. i # n + 1
        BY <1>2, <2>1, <3>4 DEF Active
      <4>2. i \in 1..n
        BY <1>1, <1>2, <4>1
      <4>3. CASE j = n + 1
        BY <1>1, <4>2, <4>3
      <4>4. CASE j # n + 1
        <5>1. j \in 1..n
          BY <1>1, <1>2, <4>4
        <5>2. outcome[received[i]] \in Active /\ outcome[received[j]] = "waiting"
          BY <1>2, <1>4, <3>4, <4>2, <5>1
        <5> QED BY <1>1, <4>2, <5>1, <5>2 DEF Ordered, OneRuns
      <4> QED BY <4>3, <4>4
    <3> QED BY <1>6, <2>1, <3>2, <3>3, <3>4 DEF OneRuns
  <2>6. OneAtATimeInOrder'
    <3> SUFFICES ASSUME NEW i \in DOMAIN received', NEW j \in DOMAIN received', i < j,
                        outcome'[received'[j]] \in HasStarted
                 PROVE  outcome'[received'[i]] \in HasEnded
      BY DEF OneAtATimeInOrder, Started, IsOver, HasStarted, HasEnded, Active
    <3>1. j # n + 1
      BY <1>2, <2>1 DEF HasStarted, Active
    <3>2. i \in 1..n /\ j \in 1..n
      BY <1>1, <1>2, <3>1
    <3>3. outcome[received[j]] \in HasStarted
      BY <1>2, <1>4, <3>2
    <3>4. outcome[received[i]] \in HasEnded
      BY <1>1, <3>2, <3>3
         DEF Ordered, OneAtATimeInOrder, Started, IsOver, HasStarted, HasEnded, Active
    <3> QED BY <1>2, <1>4, <3>2, <3>4
  <2> QED BY <1>5, <2>4, <2>5, <2>6 DEF Ordered
<1>7. CASE running = None
  <2>1. running' = o /\ queue = <<>> /\ queue' = queue /\ outcome'[o] = "alive"
    BY <1>7 DEF Ordered, OneRuns, ServerTypes
  <2>2. \A a \in Operations : outcome[a] \notin Active /\ outcome[a] # "waiting"
    BY <1>7, <2>1, NoneIsNoOperation DEF Ordered, OneRuns, QueueInOrder
  <2>3. QueueInOrder'
    BY <1>3, <2>1, <2>2 DEF QueueInOrder
  <2>4. OneRuns'
    BY <1>1, <1>2, <1>3, <2>1, <2>2, NoneIsNoOperation DEF OneRuns, Active
  <2>5. OneAtATimeInOrder'
    <3> SUFFICES ASSUME NEW i \in DOMAIN received', NEW j \in DOMAIN received', i < j
                 PROVE  outcome'[received'[i]] \in HasEnded
      BY DEF OneAtATimeInOrder, IsOver, HasEnded
    <3>1. i \in 1..n
      BY <1>1, <1>2
    <3>2. outcome[received[i]] \notin Active \cup {"new", "asked", "waiting"}
      BY <1>1, <2>2, <3>1 DEF Ordered, ReceivedOnce
    <3>3. outcome[received[i]] \in Outcomes
      BY <1>1, <3>1 DEF ServerTypes
    <3> QED BY <1>2, <1>4, <3>1, <3>2, <3>3 DEF HasEnded, Outcomes, Active
  <2> QED BY <1>5, <2>3, <2>4, <2>5 DEF Ordered
<1> QED BY <1>6, <1>7

\* The exit of a process changes nothing to the order.
LEMMA OrderedExit ==
  ASSUME ServerTypes, Ordered, running \in Operations, outcome[running] \in Active,
         received' = received, queue' = queue, running' = running,
         outcome'[running] \in Active,
         \A o \in Operations \ {running} : outcome'[o] = outcome[o]
  PROVE  Ordered'
<1>1. /\ \A i \in DOMAIN received : received[i] \in Operations
      /\ \A k \in DOMAIN queue : queue[k] \in Operations
  BY SequenceNames
<1>2. \A o \in Operations : /\ outcome'[o] = outcome[o] \/ o = running
                            /\ outcome'[o] \in Active <=> outcome[o] \in Active
                            /\ outcome'[o] = "waiting" <=> outcome[o] = "waiting"
  BY DEF Active
<1>3. ReceivedOnce'
  BY <1>1, <1>2 DEF Ordered, ReceivedOnce, Active
<1>4. QueueInOrder'
  BY <1>1, <1>2 DEF Ordered, QueueInOrder
<1>5. OneRuns'
  BY <1>1, <1>2 DEF Ordered, OneRuns
<1>6. OneAtATimeInOrder'
  BY <1>1, <1>2 DEF Ordered, OneAtATimeInOrder, Started, IsOver, Active
<1> QED BY <1>3, <1>4, <1>5, <1>6 DEF Ordered

\* When an operation succeeds and none waits, nothing runs.
LEMMA OrderedRest ==
  ASSUME ServerTypes, Ordered, running \in Operations, outcome[running] \in Active,
         received' = received, queue = <<>>, queue' = queue, running' = None,
         outcome'[running] = "done",
         \A o \in Operations \ {running} : outcome'[o] = outcome[o]
  PROVE  Ordered'
<1>1. \A i \in DOMAIN received : received[i] \in Operations
  BY SequenceNames
<1>2. \A o \in Operations : outcome[o] # "waiting"
  BY DEF Ordered, QueueInOrder
<1>3. \A o \in Operations : outcome'[o] \notin Active /\ outcome'[o] # "waiting"
  BY <1>2 DEF Ordered, OneRuns, Active
<1>4. ReceivedOnce'
  BY <1>1 DEF Ordered, ReceivedOnce
<1>5. QueueInOrder'
  BY <1>3 DEF QueueInOrder
<1>6. OneRuns'
  BY <1>1, <1>3 DEF OneRuns
<1>7. OneAtATimeInOrder'
  BY <1>1 DEF Ordered, OneAtATimeInOrder, Started, IsOver, Active
<1> QED BY <1>4, <1>5, <1>6, <1>7 DEF Ordered

\* When one waits, the one that came first is the next to run.
LEMMA OrderedNext ==
  ASSUME ServerTypes, Ordered, running \in Operations, outcome[running] \in Active,
         received' = received, queue # <<>>, queue' = Tail(queue), running' = queue[1],
         outcome'[running] = "done", outcome'[queue[1]] = "alive",
         \A o \in Operations \ {running, queue[1]} : outcome'[o] = outcome[o]
  PROVE  Ordered'
<1> DEFINE h == queue[1]
           n == Len(queue)
<1>1. /\ \A i \in DOMAIN received : received[i] \in Operations
      /\ \A k \in DOMAIN queue : queue[k] \in Operations
      /\ Len(received) \in Nat /\ DOMAIN received = 1..Len(received)
  BY SequenceNames
<1>2. /\ n \in Nat \ {0} /\ DOMAIN queue = 1..n
      /\ DOMAIN queue' = 1..(n - 1) /\ \A k \in 1..(n - 1) : queue'[k] = queue[k + 1]
  BY TailOf DEF ServerTypes
<1> HIDE DEF n
<1>3. 1 \in DOMAIN queue
  BY <1>2
<1>4. h \in Operations /\ outcome[h] = "waiting" /\ h # running
  BY <1>1, <1>3 DEF Ordered, QueueInOrder, Active
<1>5. \A k \in DOMAIN queue : k # 1 => queue[k] # h /\ queue[k] # running
                                        /\ outcome[queue[k]] = "waiting"
  BY <1>1, <1>3 DEF Ordered, QueueInOrder, Active
<1>6. \A k \in DOMAIN queue' : /\ k + 1 \in DOMAIN queue /\ k + 1 # 1 /\ k \in Nat
                               /\ queue'[k] = queue[k + 1]
  BY <1>2
<1>7. \A o \in Operations : /\ outcome'[o] = "waiting" => outcome[o] = "waiting" /\ o # h
                            /\ outcome'[o] \in Active => o = h
  BY DEF Ordered, OneRuns, Active
<1>8. \A o \in Operations : outcome[o] = "waiting" /\ o # h =>
                              \E k \in DOMAIN queue : k # 1 /\ queue[k] = o
  BY DEF Ordered, QueueInOrder
<1>9. outcome'[running] = "done" /\ outcome'[h] = "alive" /\ running' = h
      /\ \A o \in Operations \ {running, h} : outcome'[o] = outcome[o]
  OBVIOUS
<1>10. \A i, j \in DOMAIN received, l \in DOMAIN queue :
         received[i] = h /\ received[j] = queue[l] /\ l # 1 => i < j
  <2>1. \A l \in DOMAIN queue : l # 1 => 1 < l
    BY <1>2
  <2> QED BY <1>3, <2>1 DEF Ordered, QueueInOrder
<1> HIDE DEF h
<1>11. ReceivedOnce'
  BY <1>1, <1>4, <1>9 DEF Ordered, ReceivedOnce
<1>12. QueueInOrder'
  <2>1. \A k \in DOMAIN queue' : outcome'[queue'[k]] = "waiting"
    BY <1>1, <1>5, <1>6, <1>9
  <2>2. ASSUME NEW o \in Operations, outcome'[o] = "waiting"
        PROVE  \E k \in DOMAIN queue' : queue'[k] = o
    <3>1. PICK k \in DOMAIN queue : k # 1 /\ queue[k] = o
      BY <1>7, <1>8, <2>2
    <3>2. k - 1 \in 1..(n - 1) /\ (k - 1) + 1 = k
      BY <1>2, <3>1
    <3> QED BY <1>2, <3>1, <3>2
  <2>3. ASSUME NEW k \in DOMAIN queue', NEW l \in DOMAIN queue', queue'[k] = queue'[l]
        PROVE  k = l
    <3>1. k + 1 = l + 1
      BY <1>6, <2>3 DEF Ordered, QueueInOrder
    <3> QED BY <1>6, <3>1
  <2>4. ASSUME NEW i \in DOMAIN received', NEW j \in DOMAIN received',
               NEW k \in DOMAIN queue', NEW l \in DOMAIN queue',
               k < l, received'[i] = queue'[k], received'[j] = queue'[l]
        PROVE  i < j
    <3>1. k + 1 < l + 1
      BY <1>6, <2>4
    <3>2. received[i] = queue[k + 1] /\ received[j] = queue[l + 1]
      BY <1>6, <2>4
    <3> QED BY <1>6, <3>1, <3>2 DEF Ordered, QueueInOrder
  <2> QED BY <2>1, <2>2, <2>3, <2>4 DEF QueueInOrder
<1>13. OneRuns'
  <2>1. running' # None
    BY <1>4, <1>9, NoneIsNoOperation
  <2>2. outcome'[running'] \in Active
    BY <1>9 DEF Active
  <2>3. \A o \in Operations : outcome'[o] \in Active => running' = o
    BY <1>7, <1>9
  <2>4. ASSUME NEW i \in DOMAIN received', NEW j \in DOMAIN received',
               outcome'[received'[i]] \in Active, outcome'[received'[j]] = "waiting"
        PROVE  i < j
    <3>1. received[i] \in Operations /\ received[j] \in Operations
      BY <1>1
    <3>2. received[i] = h /\ outcome[received[j]] = "waiting" /\ received[j] # h
      BY <1>7, <2>4, <3>1
    <3>3. PICK l \in DOMAIN queue : l # 1 /\ queue[l] = received[j]
      BY <1>8, <3>1, <3>2
    <3> QED BY <1>10, <3>2, <3>3
  <2> QED BY <2>1, <2>2, <2>3, <2>4 DEF OneRuns
<1>14. OneAtATimeInOrder'
  <2> SUFFICES ASSUME NEW i \in DOMAIN received, NEW j \in DOMAIN received, i < j,
                      outcome'[received[j]] \in HasStarted
               PROVE  outcome'[received[i]] \in HasEnded
    BY DEF OneAtATimeInOrder, Started, IsOver, HasStarted, HasEnded, Active
  <2>1. received[i] \in Operations /\ received[j] \in Operations /\ received[i] # received[j]
    BY <1>1 DEF Ordered, ReceivedOnce
  <2>2. CASE received[j] = h
    <3>1. outcome[received[i]] # "waiting"
      <4> SUFFICES ASSUME outcome[received[i]] = "waiting" PROVE FALSE
        OBVIOUS
      <4>1. PICK k \in DOMAIN queue : k # 1 /\ queue[k] = received[i]
        BY <1>8, <2>1, <2>2
      <4>2. j < i
        BY <1>10, <2>2, <4>1
      <4> QED BY <1>1, <4>2
    <3>2. outcome[received[i]] \in Active => received[i] = running
      BY <2>1 DEF Ordered, OneRuns
    <3>3. outcome[received[i]] \in Outcomes \ {"new", "asked"}
      BY <2>1 DEF ServerTypes, Ordered, ReceivedOnce
    <3> QED BY <1>9, <2>1, <2>2, <3>1, <3>2, <3>3 DEF Outcomes, Active, HasEnded
  <2>3. CASE received[j] # h
    <3>1. outcome[received[j]] \in HasStarted
      BY <1>9, <2>1, <2>3 DEF HasStarted
    <3>2. outcome[received[i]] \in HasEnded
      BY <3>1 DEF Ordered, OneAtATimeInOrder, Started, IsOver, HasStarted, HasEnded, Active
    <3>3. received[i] # h /\ received[i] # running
      BY <1>4, <3>2 DEF HasEnded, Active
    <3> QED BY <1>9, <2>1, <3>2, <3>3
  <2> QED BY <2>2, <2>3
<1> QED BY <1>11, <1>12, <1>13, <1>14 DEF Ordered

\* When an operation fails, nothing runs and nothing waits.
LEMMA OrderedFail ==
  ASSUME ServerTypes, Ordered, running \in Operations, outcome[running] \in Active,
         received' = received, queue' = <<>>, running' = None,
         outcome'[running] = "failed",
         \A o \in Operations \ {running} :
           \/ (\E k \in DOMAIN queue : queue[k] = o) /\ outcome'[o] = "dropped"
           \/ ~(\E k \in DOMAIN queue : queue[k] = o) /\ outcome'[o] = outcome[o]
  PROVE  Ordered'
<1>1. /\ \A i \in DOMAIN received : received[i] \in Operations
      /\ \A k \in DOMAIN queue : queue[k] \in Operations
  BY SequenceNames
<1>2. \A o \in Operations \ {running} :
        \/ outcome[o] = "waiting" /\ outcome'[o] = "dropped"
        \/ outcome[o] # "waiting" /\ outcome'[o] = outcome[o]
  BY DEF Ordered, QueueInOrder
<1>3. \A o \in Operations : outcome'[o] \notin Active /\ outcome'[o] # "waiting"
  BY <1>2 DEF Ordered, OneRuns, Active
<1>4. ReceivedOnce'
  BY <1>1, <1>2 DEF Ordered, ReceivedOnce
<1>5. QueueInOrder'
  BY <1>3 DEF QueueInOrder
<1>6. OneRuns'
  BY <1>1, <1>3 DEF OneRuns
<1>7. OneAtATimeInOrder'
  BY <1>1, <1>2 DEF Ordered, OneAtATimeInOrder, Started, IsOver, Active
<1> QED BY <1>4, <1>5, <1>6, <1>7 DEF Ordered

\* The requests on their way stay distinct when none is posted or received.
LEMMA AskedOnceKept ==
  ASSUME ServerTypes, AskedOnce, toServer' = toServer,
         \A o \in Operations : outcome[o] = "asked" => outcome'[o] = "asked"
  PROVE  AskedOnce'
<1>1. \A d \in Clients : \A j \in DOMAIN toServer[d] : toServer[d][j].op \in Operations
  BY RequestNames
<1> QED BY <1>1 DEF AskedOnce

\* The order is kept by every step.
LEMMA OrderStep == ServerTypes /\ ServerTypes' /\ OrderInv /\ [Next]_vars => OrderInv'
<1> SUFFICES ASSUME ServerTypes, ServerTypes', OrderInv, [Next]_vars PROVE OrderInv'
  OBVIOUS
<1> USE DEF OrderInv
<1>1. ASSUME NEW c \in Clients, NEW o \in Operations, RunOperation(c, o) PROVE OrderInv'
  <2>1. PICK r \in Requests : /\ r.op = o /\ r.type = "runOperation"
                              /\ toServer' = [toServer EXCEPT ![c] = Append(@, r)]
    BY <1>1, AskEffect
  <2>2. outcome[o] = "new" /\ outcome' = [outcome EXCEPT ![o] = "asked"]
    BY <1>1, AskEffect
  <2>3. /\ outcome'[o] = "asked"
        /\ \A a \in Operations \ {o} : outcome'[a] = outcome[a]
    BY <2>2 DEF ServerTypes
  <2>4. received' = received /\ queue' = queue /\ running' = running
    BY <1>1, AskEffect
  <2>5. AskedOnce'
    BY <2>1, <2>2, <2>3, AskedOncePost
  <2>6. Ordered'
    BY <2>2, <2>3, <2>4, OrderedAsk
  <2> QED BY <2>5, <2>6
<1>2. ASSUME NEW c \in Clients, AbortOperation(c) PROVE OrderInv'
  <2>1. PICK r \in Requests : /\ r.type = "abortRunningOperation"
                              /\ toServer' = [toServer EXCEPT ![c] = Append(@, r)]
    BY <1>2, AbortEffect
  <2>2. outcome' = outcome /\ received' = received /\ queue' = queue /\ running' = running
    BY <1>2, AbortEffect
  <2>3. AskedOnce'
    BY <2>1, <2>2, AskedOncePost
  <2>4. Ordered'
    BY <2>2, OrderedAsk
  <2> QED BY <2>3, <2>4
<1>3. ASSUME NEW c \in Clients, ReceiveProgress(c) PROVE OrderInv'
  <2>1. /\ outcome' = outcome /\ received' = received /\ queue' = queue
        /\ running' = running /\ toServer' = toServer
    BY <1>3, ProgressEffect
  <2>2. AskedOnce'
    BY <2>1, AskedOnceKept
  <2>3. Ordered'
    BY <2>1, OrderedAsk
  <2> QED BY <2>2, <2>3
<1>4. ASSUME NEW c \in Clients, ReceiveRun(c) PROVE OrderInv'
  <2> DEFINE o == toServer[c][1].op
  <2>1. /\ toServer[c] \in Seq(Requests) /\ toServer[c] # <<>>
        /\ toServer[c][1].type = "runOperation" /\ o \in Operations
        /\ received' = Append(received, o)
        /\ toServer' = [toServer EXCEPT ![c] = Tail(@)]
    BY <1>4, RunEffect
  <2>2. \/ /\ running # None /\ running' = running
           /\ queue' = Append(queue, o) /\ outcome' = [outcome EXCEPT ![o] = "waiting"]
        \/ /\ running = None /\ running' = o
           /\ queue' = queue /\ outcome' = [outcome EXCEPT ![o] = "alive"]
    BY <1>4, RunEffect
  <2>3. 1 \in DOMAIN toServer[c]
    BY <2>1, TailOf
  <2>4. outcome[o] = "asked"
    BY <2>1, <2>3 DEF AskedOnce
  <2>5. \A a \in Operations \ {o} : outcome'[a] = outcome[a]
    BY <2>2 DEF ServerTypes
  <2>6. AskedOnce'
    BY <2>1, <2>5, AskedOnceReceive
  <2> HIDE DEF o
  <2>7. Ordered'
    BY <2>1, <2>2, <2>4, OrderedRun
  <2> QED BY <2>6, <2>7
<1>5. ASSUME NEW c \in Clients, ReceiveAbort(c) PROVE OrderInv'
  <2>1. /\ toServer[c] # <<>> /\ toServer' = [toServer EXCEPT ![c] = Tail(@)]
        /\ outcome' = outcome /\ received' = received /\ queue' = queue /\ running' = running
    BY <1>5, ReceiveAbortEffect
  <2>2. AskedOnce'
    BY <2>1, AskedOnceReceive
  <2>3. Ordered'
    BY <2>1, OrderedAsk
  <2> QED BY <2>2, <2>3
<1>6. ASSUME Exit(0) \/ Exit(1) \/ Killed PROVE OrderInv'
  <2>1. /\ running \in Operations /\ outcome[running] = "alive"
        /\ received' = received /\ queue' = queue /\ running' = running
        /\ toServer' = toServer
    BY <1>6, ExitEffect
  <2>2. \/ outcome' = [outcome EXCEPT ![running] = "ok"]
        \/ outcome' = [outcome EXCEPT ![running] = "bad"]
    BY <1>6, ExitEffect
  <2>3. outcome'[running] \in Active /\ outcome[running] \in Active
    BY <2>1, <2>2 DEF ServerTypes, Active
  <2>4. \A o \in Operations \ {running} : outcome'[o] = outcome[o]
    BY <2>2 DEF ServerTypes
  <2>5. AskedOnce'
    BY <2>1, <2>4, AskedOnceKept
  <2>6. Ordered'
    BY <2>1, <2>3, <2>4, OrderedExit
  <2> QED BY <2>5, <2>6
<1>7. ASSUME Succeed PROVE OrderInv'
  <2>1. /\ running \in Operations /\ outcome[running] = "ok"
        /\ received' = received /\ toServer' = toServer
    BY <1>7, SucceedEffect
  <2>2. outcome[running] \in Active
    BY <2>1 DEF Active
  <2>3. CASE queue = <<>>
    <3>1. /\ running' = None /\ queue' = queue
          /\ outcome' = [outcome EXCEPT ![running] = "done"]
      BY <1>7, <2>3, SucceedEffect
    <3>2. /\ outcome'[running] = "done"
          /\ \A o \in Operations \ {running} : outcome'[o] = outcome[o]
      BY <2>1, <3>1 DEF ServerTypes
    <3>3. AskedOnce'
      BY <2>1, <3>2, AskedOnceKept
    <3>4. Ordered'
      BY <2>1, <2>2, <2>3, <3>1, <3>2, OrderedRest
    <3> QED BY <3>3, <3>4
  <2>4. CASE queue # <<>>
    <3>1. /\ queue[1] \in Operations /\ running' = queue[1] /\ queue' = Tail(queue)
          /\ outcome' = [[outcome EXCEPT ![running] = "done"] EXCEPT ![queue[1]] = "alive"]
      BY <1>7, <2>4, SucceedEffect
    <3>2. 1 \in DOMAIN queue
      BY <2>4, TailOf DEF ServerTypes
    <3>3. outcome[queue[1]] = "waiting"
      BY <3>2 DEF Ordered, QueueInOrder
    <3>4. /\ outcome'[running] = "done" /\ outcome'[queue[1]] = "alive"
          /\ \A o \in Operations \ {running, queue[1]} : outcome'[o] = outcome[o]
      <4>1. queue[1] # running
        BY <2>1, <3>3
      <4> QED BY <2>1, <3>1, <4>1 DEF ServerTypes
    <3>5. AskedOnce'
      BY <2>1, <3>3, <3>4, AskedOnceKept
    <3>6. Ordered'
      BY <2>1, <2>2, <2>4, <3>1, <3>4, OrderedNext
    <3> QED BY <3>5, <3>6
  <2> QED BY <2>3, <2>4
<1>8. ASSUME Fail PROVE OrderInv'
  <2>1. /\ running \in Operations /\ outcome[running] \in {"alive", "bad"}
        /\ queue' = <<>> /\ running' = None /\ outcome'[running] = "failed"
        /\ received' = received /\ toServer' = toServer
    BY <1>8, FailEffect
  <2>2. \A o \in Operations \ {running} :
          \/ (\E k \in DOMAIN queue : queue[k] = o) /\ outcome'[o] = "dropped"
          \/ ~(\E k \in DOMAIN queue : queue[k] = o) /\ outcome'[o] = outcome[o]
    BY <1>8, FailEffect
  <2>3. outcome[running] \in Active
    BY <2>1 DEF Active
  <2>4. \A o \in Operations : outcome[o] = "asked" => outcome'[o] = "asked"
    BY <2>1, <2>2 DEF Ordered, QueueInOrder
  <2>5. AskedOnce'
    BY <2>1, <2>4, AskedOnceKept
  <2>6. Ordered'
    BY <2>1, <2>2, <2>3, OrderedFail
  <2> QED BY <2>5, <2>6
<1>9. CASE UNCHANGED vars
  <2>1. /\ outcome' = outcome /\ received' = received /\ queue' = queue
        /\ running' = running /\ toServer' = toServer
    BY <1>9 DEF vars, server, history
  <2>2. AskedOnce'
    BY <2>1, AskedOnceKept
  <2>3. Ordered'
    BY <2>1, OrderedAsk
  <2> QED BY <2>2, <2>3
<1> QED BY <1>1, <1>2, <1>3, <1>4, <1>5, <1>6, <1>7, <1>8, <1>9 DEF Next, Receive, Settle

\* The types and the order are an inductive invariant.
LEMMA OrderIsInductive == Spec => [](ServerTypes /\ OrderInv)
<1>1. Init => ServerTypes /\ OrderInv
  BY TypesInit, OrderInit
<1>2. ServerTypes /\ OrderInv /\ [Next]_vars => ServerTypes' /\ OrderInv'
  BY TypesStep, OrderStep
<1> QED BY <1>1, <1>2, PTL DEF Spec

\* The comment of OperationQueue.ts, "only one Operation runs at once": one
\* that has started has only operations that are over before it, in the order
\* in which the server received them, for any number of windows that ask.
THEOREM OneAtATime == Spec => []OneAtATimeInOrder
<1>1. ServerTypes /\ OrderInv => OneAtATimeInOrder
  BY DEF OrderInv, Ordered
<1> QED BY <1>1, OrderIsInductive, PTL

\* runOrQueueOperation shifts an operation off the queue before it runs it,
\* and queues one that it did not start: no operation is in the queue twice,
\* and the one that runs is not in it.
THEOREM QueuedOnce == Spec => [](IsInjective(queue) /\ running \notin ToSet(queue))
<1>1. ServerTypes /\ OrderInv => IsInjective(queue)
  BY DEF OrderInv, Ordered, QueueInOrder, IsInjective
<1>2. ServerTypes /\ OrderInv => running \notin ToSet(queue)
  <2> SUFFICES ASSUME ServerTypes, OrderInv, NEW k \in DOMAIN queue, queue[k] = running
               PROVE  FALSE
    BY DEF ToSet
  <2>1. running \in Operations
    BY SequenceNames
  <2>2. outcome[running] = "waiting" /\ outcome[running] \in Active
    BY <2>1, NoneIsNoOperation DEF OrderInv, Ordered, QueueInOrder, OneRuns
  <2> QED BY <2>2 DEF Active
<1> QED BY <1>1, <1>2, OrderIsInductive, PTL

----------------------------------------------------------------------------
(***************************************************************************)
(* What was received behind an operation that failed never runs.           *)
(***************************************************************************)

\* The failure of an operation was handled before anything else was received.
FailureInv ==
  /\ \A o \in Operations : failedAt[o] <= Len(received)
  /\ NothingRunsAfterAFailure

\* Nothing has failed at the start.
LEMMA FailureInit == Init => FailureInv
BY DEF Init, FailureInv, NothingRunsAfterAFailure

\* A dropped operation stays dropped: nothing else changes the past.
LEMMA FailureKept ==
  ASSUME ServerTypes, FailureInv, received' = received, failedAt' = failedAt,
         \A o \in Operations : outcome[o] = "dropped" => outcome'[o] = "dropped"
  PROVE  FailureInv'
<1>1. \A i \in DOMAIN received : received[i] \in Operations
  BY SequenceNames
<1> QED BY <1>1 DEF FailureInv, NothingRunsAfterAFailure

\* An operation received now comes after every failure handled so far.
LEMMA FailureRun ==
  ASSUME ServerTypes, FailureInv, NEW o \in Operations, outcome[o] = "asked",
         received' = Append(received, o), failedAt' = failedAt,
         \A a \in Operations \ {o} : outcome'[a] = outcome[a]
  PROVE  FailureInv'
<1> DEFINE n == Len(received)
<1>1. /\ n \in Nat /\ DOMAIN received = 1..n
      /\ \A i \in 1..n : received[i] \in Operations
  BY SequenceNames
<1>2. /\ DOMAIN received' = 1..(n + 1) /\ Len(received') = n + 1
      /\ \A i \in 1..n : received'[i] = received[i]
  BY AppendOf DEF ServerTypes
<1>3. \A a \in Operations : failedAt[a] \in Nat /\ failedAt[a] <= n
  BY DEF FailureInv, ServerTypes
<1>4. \A a \in Operations : outcome[a] = "dropped" => outcome'[a] = "dropped"
  OBVIOUS
<1> HIDE DEF n
<1>5. \A a \in Operations : failedAt'[a] <= Len(received')
  BY <1>1, <1>2, <1>3
<1>6. ASSUME NEW i \in DOMAIN received', NEW j \in DOMAIN received',
             i < j, j <= failedAt'[received'[i]]
      PROVE  outcome'[received'[j]] = "dropped"
  <2>1. i \in 1..n
    BY <1>1, <1>2, <1>6
  <2>2. j <= failedAt[received[i]] /\ received[i] \in Operations
    BY <1>1, <1>2, <1>6, <2>1
  <2>3. j \in 1..n
    BY <1>1, <1>2, <1>3, <2>2
  <2>4. outcome[received[j]] = "dropped"
    BY <1>1, <1>6, <2>1, <2>2, <2>3 DEF FailureInv, NothingRunsAfterAFailure
  <2> QED BY <1>1, <1>2, <1>4, <2>3, <2>4
<1> QED BY <1>5, <1>6 DEF FailureInv, NothingRunsAfterAFailure

\* When an operation fails, what was received behind it waits or is dropped.
LEMMA FailureFail ==
  ASSUME ServerTypes, FailureInv, Ordered,
         running \in Operations, outcome[running] \in Active,
         received' = received, failedAt' = [failedAt EXCEPT ![running] = Len(received)],
         \A o \in Operations \ {running} :
           \/ (\E k \in DOMAIN queue : queue[k] = o) /\ outcome'[o] = "dropped"
           \/ ~(\E k \in DOMAIN queue : queue[k] = o) /\ outcome'[o] = outcome[o]
  PROVE  FailureInv'
<1>1. /\ Len(received) \in Nat /\ DOMAIN received = 1..Len(received)
      /\ \A i \in DOMAIN received : received[i] \in Operations
  BY SequenceNames
<1>2. \A o \in Operations \ {running} :
        outcome[o] \in {"waiting", "dropped"} => outcome'[o] = "dropped"
  BY DEF Ordered, QueueInOrder
<1>3. failedAt'[running] = Len(received)
      /\ \A o \in Operations \ {running} : failedAt'[o] = failedAt[o]
  BY DEF ServerTypes
<1>4. \A o \in Operations : failedAt'[o] <= Len(received')
  BY <1>1, <1>3 DEF FailureInv
<1>5. ASSUME NEW i \in DOMAIN received, NEW j \in DOMAIN received,
             i < j, j <= failedAt'[received[i]]
      PROVE  outcome'[received[j]] = "dropped"
  <2>1. received[i] \in Operations /\ received[j] \in Operations /\ received[j] # received[i]
    BY <1>1, <1>5 DEF Ordered, ReceivedOnce
  <2>2. CASE received[i] = running
    <3>1. ~Started(received[j])
      BY <1>5, <2>2 DEF Ordered, OneAtATimeInOrder, IsOver, Active
    <3>2. outcome[received[j]] \in Outcomes \ {"new", "asked"}
      BY <2>1 DEF ServerTypes, Ordered, ReceivedOnce
    <3>3. outcome[received[j]] \in {"waiting", "dropped"}
      BY <3>1, <3>2 DEF Started, Outcomes
    <3> QED BY <1>2, <2>1, <2>2, <3>3
  <2>3. CASE received[i] # running
    <3>1. outcome[received[j]] = "dropped"
      BY <1>3, <1>5, <2>1, <2>3 DEF FailureInv, NothingRunsAfterAFailure
    <3>2. received[j] # running
      BY <3>1 DEF Active
    <3> QED BY <1>2, <2>1, <3>1, <3>2
  <2> QED BY <2>2, <2>3
<1> QED BY <1>4, <1>5 DEF FailureInv, NothingRunsAfterAFailure

\* Every step keeps it.
LEMMA FailureStep == ServerTypes /\ OrderInv /\ FailureInv /\ [Next]_vars => FailureInv'
<1> SUFFICES ASSUME ServerTypes, OrderInv, FailureInv, [Next]_vars PROVE FailureInv'
  OBVIOUS
<1>0. Ordered
  BY DEF OrderInv
<1>1. ASSUME NEW c \in Clients, NEW o \in Operations, RunOperation(c, o) PROVE FailureInv'
  <2>1. /\ outcome[o] = "new" /\ outcome' = [outcome EXCEPT ![o] = "asked"]
        /\ received' = received /\ failedAt' = failedAt
    BY <1>1, AskEffect
  <2>2. \A a \in Operations : outcome[a] = "dropped" => outcome'[a] = "dropped"
    BY <2>1 DEF ServerTypes
  <2> QED BY <2>1, <2>2, FailureKept
<1>2. ASSUME NEW c \in Clients, AbortOperation(c) PROVE FailureInv'
  <2>1. outcome' = outcome /\ received' = received /\ failedAt' = failedAt
    BY <1>2, AbortEffect
  <2> QED BY <2>1, FailureKept
<1>3. ASSUME NEW c \in Clients, ReceiveProgress(c) PROVE FailureInv'
  <2>1. outcome' = outcome /\ received' = received /\ failedAt' = failedAt
    BY <1>3, ProgressEffect
  <2> QED BY <2>1, FailureKept
<1>4. ASSUME NEW c \in Clients, ReceiveRun(c) PROVE FailureInv'
  <2> DEFINE o == toServer[c][1].op
  <2>1. /\ toServer[c] \in Seq(Requests) /\ toServer[c] # <<>>
        /\ toServer[c][1].type = "runOperation" /\ o \in Operations
        /\ received' = Append(received, o) /\ failedAt' = failedAt
    BY <1>4, RunEffect
  <2>2. \/ outcome' = [outcome EXCEPT ![o] = "waiting"]
        \/ outcome' = [outcome EXCEPT ![o] = "alive"]
    BY <1>4, RunEffect
  <2>3. 1 \in DOMAIN toServer[c]
    BY <2>1, TailOf
  <2>4. outcome[o] = "asked"
    BY <2>1, <2>3 DEF OrderInv, AskedOnce
  <2>5. \A a \in Operations \ {o} : outcome'[a] = outcome[a]
    BY <2>2 DEF ServerTypes
  <2> HIDE DEF o
  <2> QED BY <2>1, <2>4, <2>5, FailureRun
<1>5. ASSUME NEW c \in Clients, ReceiveAbort(c) PROVE FailureInv'
  <2>1. outcome' = outcome /\ received' = received /\ failedAt' = failedAt
    BY <1>5, ReceiveAbortEffect
  <2> QED BY <2>1, FailureKept
<1>6. ASSUME Exit(0) \/ Exit(1) \/ Killed PROVE FailureInv'
  <2>1. /\ running \in Operations /\ outcome[running] = "alive"
        /\ received' = received /\ failedAt' = failedAt
    BY <1>6, ExitEffect
  <2>2. \/ outcome' = [outcome EXCEPT ![running] = "ok"]
        \/ outcome' = [outcome EXCEPT ![running] = "bad"]
    BY <1>6, ExitEffect
  <2>3. \A o \in Operations : outcome[o] = "dropped" => outcome'[o] = "dropped"
    BY <2>1, <2>2 DEF ServerTypes
  <2> QED BY <2>1, <2>3, FailureKept
<1>7. ASSUME Succeed PROVE FailureInv'
  <2>1. /\ running \in Operations /\ outcome[running] = "ok"
        /\ received' = received /\ failedAt' = failedAt
    BY <1>7, SucceedEffect
  <2>2. CASE queue = <<>>
    <3>1. outcome' = [outcome EXCEPT ![running] = "done"]
      BY <1>7, <2>2, SucceedEffect
    <3>2. \A o \in Operations : outcome[o] = "dropped" => outcome'[o] = "dropped"
      BY <2>1, <3>1 DEF ServerTypes
    <3> QED BY <2>1, <3>2, FailureKept
  <2>3. CASE queue # <<>>
    <3>1. outcome' = [[outcome EXCEPT ![running] = "done"] EXCEPT ![queue[1]] = "alive"]
      BY <1>7, <2>3, SucceedEffect
    <3>2. 1 \in DOMAIN queue
      BY <2>3, TailOf DEF ServerTypes
    <3>3. outcome[queue[1]] = "waiting"
      BY <1>0, <3>2 DEF Ordered, QueueInOrder
    <3>4. \A o \in Operations : outcome[o] = "dropped" => outcome'[o] = "dropped"
      BY <2>1, <3>1, <3>3 DEF ServerTypes
    <3> QED BY <2>1, <3>4, FailureKept
  <2> QED BY <2>2, <2>3
<1>8. ASSUME Fail PROVE FailureInv'
  <2>1. /\ running \in Operations /\ outcome[running] \in {"alive", "bad"}
        /\ received' = received
        /\ failedAt' = [failedAt EXCEPT ![running] = Len(received)]
    BY <1>8, FailEffect
  <2>2. \A o \in Operations \ {running} :
          \/ (\E k \in DOMAIN queue : queue[k] = o) /\ outcome'[o] = "dropped"
          \/ ~(\E k \in DOMAIN queue : queue[k] = o) /\ outcome'[o] = outcome[o]
    BY <1>8, FailEffect
  <2>3. outcome[running] \in Active
    BY <2>1 DEF Active
  <2> QED BY <1>0, <2>1, <2>2, <2>3, FailureFail
<1>9. CASE UNCHANGED vars
  <2>1. outcome' = outcome /\ received' = received /\ failedAt' = failedAt
    BY <1>9 DEF vars, server, history
  <2> QED BY <2>1, FailureKept
<1> QED BY <1>1, <1>2, <1>3, <1>4, <1>5, <1>6, <1>7, <1>8, <1>9 DEF Next, Receive, Settle

\* The catch block of runOrQueueOperation clears the queue: what the server
\* had received behind an operation, by the time it handled its failure, is
\* dropped and never runs.
THEOREM NoOperationAfterAFailure == Spec => []NothingRunsAfterAFailure
<1>1. Init => FailureInv
  BY FailureInit
<1>2. FailureInv => NothingRunsAfterAFailure
  BY DEF FailureInv
<1> QED BY <1>1, <1>2, FailureStep, OrderIsInductive, PTL DEF Spec

----------------------------------------------------------------------------
(***************************************************************************)
(* A signal is sent only to an operation the user asked to abort.          *)
(***************************************************************************)

\* A request to abort names a cancelled operation, and so does a signal.
AbortInv ==
  /\ \A c \in Clients : \A i \in DOMAIN toServer[c] :
       toServer[c][i].type = "abortRunningOperation" => toServer[c][i].op \in cancelled
  /\ OnlyTheNamedIsAborted

\* A request that is posted keeps it when it runs an operation or names a
\* cancelled one.
LEMMA AbortPost ==
  ASSUME ServerTypes, AbortInv, NEW c \in Clients, NEW r \in Requests,
         toServer' = [toServer EXCEPT ![c] = Append(@, r)],
         r.type = "abortRunningOperation" => r.op \in cancelled',
         aborting' = aborting, cancelled \subseteq cancelled'
  PROVE  AbortInv'
<1>1. \A d \in Clients : toServer[d] \in Seq(Requests)
  BY DEF ServerTypes
<1>2. ASSUME NEW d \in Clients, NEW i \in DOMAIN (toServer'[d])
      PROVE  \/ toServer'[d][i] = r
             \/ i \in DOMAIN toServer[d] /\ toServer'[d][i] = toServer[d][i]
  <2>1. CASE d = c
    <3>1. toServer'[d] = Append(toServer[c], r)
      BY <2>1 DEF ServerTypes
    <3> QED BY <1>1, <2>1, <3>1, AppendOf
  <2>2. CASE d # c
    <3>1. toServer'[d] = toServer[d]
      BY <2>2 DEF ServerTypes
    <3> QED BY <3>1
  <2> QED BY <2>1, <2>2
<1>3. ASSUME NEW d \in Clients, NEW i \in DOMAIN (toServer'[d]),
             toServer'[d][i].type = "abortRunningOperation"
      PROVE  toServer'[d][i].op \in cancelled'
  BY <1>2, <1>3 DEF AbortInv
<1> QED BY <1>3 DEF AbortInv, OnlyTheNamedIsAborted

\* A request that is received keeps it when the signal goes to its operation.
LEMMA AbortReceive ==
  ASSUME ServerTypes, AbortInv, NEW c \in Clients, toServer[c] # <<>>,
         toServer' = [toServer EXCEPT ![c] = Tail(@)],
         \/ aborting' = aborting
         \/ /\ toServer[c][1].type = "abortRunningOperation"
            /\ aborting' \subseteq aborting \cup {toServer[c][1].op},
         cancelled' = cancelled
  PROVE  AbortInv'
<1>1. \A d \in Clients : toServer[d] \in Seq(Requests)
  BY DEF ServerTypes
<1>2. ASSUME NEW d \in Clients, NEW i \in DOMAIN (toServer'[d])
      PROVE  \E j \in DOMAIN toServer[d] : toServer'[d][i] = toServer[d][j]
  <2>1. CASE d = c
    <3>1. toServer'[d] = Tail(toServer[c])
      BY <2>1 DEF ServerTypes
    <3>2. i \in 1..(Len(toServer[c]) - 1) /\ Len(toServer[c]) \in Nat
      BY <1>1, <3>1, TailOf
    <3>3. toServer'[d][i] = toServer[c][i + 1]
      <4>1. toServer[c] \in Seq(Requests) /\ i \in 1..(Len(toServer[c]) - 1)
        BY <1>1, <3>2
      <4>2. Tail(toServer[c])[i] = toServer[c][i + 1]
        BY ONLY <4>1, TailOf
      <4> QED BY <3>1, <4>2
    <3>4. i + 1 \in DOMAIN toServer[c]
      <4>1. DOMAIN toServer[c] = 1..Len(toServer[c])
        BY <1>1
      <4>2. i + 1 \in 1..Len(toServer[c])
        BY <3>2
      <4> QED BY <4>1, <4>2
    <3> QED BY <2>1, <3>3, <3>4
  <2>2. CASE d # c
    <3>1. toServer'[d] = toServer[d]
      BY <2>2 DEF ServerTypes
    <3> QED BY <3>1
  <2> QED BY <2>1, <2>2
<1>3. \A d \in Clients : \A i \in DOMAIN (toServer'[d]) :
        toServer'[d][i].type = "abortRunningOperation" => toServer'[d][i].op \in cancelled'
  BY <1>2 DEF AbortInv
<1>4. 1 \in DOMAIN toServer[c]
  BY <1>1, TailOf
<1>5. aborting' \subseteq cancelled'
  BY <1>4 DEF AbortInv, OnlyTheNamedIsAborted
<1> QED BY <1>3, <1>5 DEF AbortInv, OnlyTheNamedIsAborted

\* Every step keeps it.
LEMMA AbortStep == ServerTypes /\ AbortInv /\ [Next]_vars => AbortInv'
<1> SUFFICES ASSUME ServerTypes, AbortInv, [Next]_vars PROVE AbortInv'
  OBVIOUS
<1>1. ASSUME NEW c \in Clients, NEW o \in Operations, RunOperation(c, o) PROVE AbortInv'
  <2>1. PICK r \in Requests : /\ r.type = "runOperation"
                              /\ toServer' = [toServer EXCEPT ![c] = Append(@, r)]
    BY <1>1, AskEffect
  <2>2. aborting' = aborting /\ cancelled' = cancelled
    BY <1>1, AskEffect
  <2> QED BY <2>1, <2>2, AbortPost
<1>2. ASSUME NEW c \in Clients, AbortOperation(c) PROVE AbortInv'
  <2>1. PICK r \in Requests : /\ cancelled' = cancelled \cup {r.op}
                              /\ toServer' = [toServer EXCEPT ![c] = Append(@, r)]
    BY <1>2, AbortEffect
  <2>2. aborting' = aborting
    BY <1>2, AbortEffect
  <2> QED BY <2>1, <2>2, AbortPost
<1>3. ASSUME NEW c \in Clients, ReceiveRun(c) PROVE AbortInv'
  <2>1. /\ toServer[c] # <<>> /\ toServer' = [toServer EXCEPT ![c] = Tail(@)]
        /\ aborting' = aborting /\ cancelled' = cancelled
    BY <1>3, RunEffect
  <2> QED BY <2>1, AbortReceive
<1>4. ASSUME NEW c \in Clients, ReceiveAbort(c) PROVE AbortInv'
  <2>1. /\ toServer[c] # <<>> /\ toServer' = [toServer EXCEPT ![c] = Tail(@)]
        /\ toServer[c][1].type = "abortRunningOperation"
        /\ aborting' \subseteq aborting \cup {toServer[c][1].op} /\ cancelled' = cancelled
    BY <1>4, ReceiveAbortEffect
  <2> QED BY <2>1, AbortReceive
<1>5. ASSUME toServer' = toServer, aborting' = aborting, cancelled' = cancelled PROVE AbortInv'
  BY <1>5 DEF AbortInv, OnlyTheNamedIsAborted
<1>6. ASSUME NEW c \in Clients, ReceiveProgress(c) PROVE AbortInv'
  BY <1>5, <1>6, ProgressEffect
<1>7. ASSUME Exit(0) \/ Exit(1) \/ Killed PROVE AbortInv'
  BY <1>5, <1>7, ExitEffect
<1>8. ASSUME Succeed PROVE AbortInv'
  BY <1>5, <1>8, SucceedEffect
<1>9. ASSUME Fail PROVE AbortInv'
  BY <1>5, <1>9, FailEffect
<1>10. CASE UNCHANGED vars
  BY <1>5, <1>10 DEF vars, server, history
<1> QED BY <1>1, <1>2, <1>3, <1>4, <1>6, <1>7, <1>8, <1>9, <1>10 DEF Next, Receive, Settle

\* abortRunningOperation compares the id it is given with the operation that
\* runs: a request that comes late, when its operation has ended and another
\* one runs, signals nothing.
THEOREM NoOtherIsAborted == Spec => []OnlyTheNamedIsAborted
<1>1. Init => AbortInv
  BY DEF Init, AbortInv, OnlyTheNamedIsAborted
<1>2. Spec => []ServerTypes
  BY TypesInit, TypesStep, PTL DEF Spec
<1>3. AbortInv => OnlyTheNamedIsAborted
  BY DEF AbortInv
<1> QED BY <1>1, <1>2, <1>3, AbortStep, PTL DEF Spec

----------------------------------------------------------------------------
(***************************************************************************)
(* The queue implements SerialExecutor.                                    *)
(***************************************************************************)

\* The line is what runs, followed by the queue.
LEMMA LineOf ==
  ASSUME ServerTypes
  PROVE  /\ running = None => Line = <<>>
         /\ running # None => /\ Line \in Seq(Operations) /\ Line # <<>>
                              /\ Head(Line) = running /\ Tail(Line) = queue
BY DEF ServerTypes, Line

\* What is in the line runs or waits.
LEMMA LineIsActive ==
  ASSUME ServerTypes, Ordered, NEW o \in ToSet(Line)
  PROVE  outcome[o] \in Active \cup {"waiting"}
<1>1. running # None
  BY LineOf DEF ToSet
<1>2. PICK k \in DOMAIN Line : Line[k] = o
  BY DEF ToSet
<1>3. Line = <<running>> \o queue /\ queue \in Seq(Operations) /\ running \in Operations
  BY <1>1 DEF Line, ServerTypes
<1>4. \/ o = running
      \/ \E l \in DOMAIN queue : queue[l] = o
  <2>1. CASE k = 1
    BY <1>2, <1>3, <2>1
  <2>2. CASE k # 1
    <3>1. k \in 1..(Len(queue) + 1)
      BY <1>2, <1>3
    <3>2. k - 1 \in DOMAIN queue /\ queue[k - 1] = o
      BY <1>2, <1>3, <2>2, <3>1
    <3> QED BY <3>2
  <2> QED BY <2>1, <2>2
<1> QED BY <1>1, <1>4 DEF Ordered, OneRuns, QueueInOrder

\* What has ended stays ended and what has not is nobody's verdict: a change
\* of an outcome that ends nothing shows nowhere.
LEMMA VerdictKept ==
  ASSUME \A o \in Operations :
           \/ outcome'[o] = outcome[o]
           \/ {outcome[o], outcome'[o]} \cap {"done", "failed", "dropped"} = {}
  PROVE  Verdict' = Verdict
<1>1. \A o \in Operations : (IF IsOver(o)' THEN outcome'[o] ELSE "none")
                             = (IF IsOver(o) THEN outcome[o] ELSE "none")
  BY DEF IsOver
<1> QED BY <1>1 DEF Verdict, IsOver

\* A window asks for an operation.
LEMMA AskIsAsk ==
  ASSUME ServerTypes, Ordered, NEW c \in Clients, NEW o \in Operations, RunOperation(c, o)
  PROVE  Executor!Ask(o)
<1>1. /\ outcome[o] = "new" /\ outcome' = [outcome EXCEPT ![o] = "asked"]
      /\ running' = running /\ queue' = queue
  BY AskEffect
<1>2. \A a \in Operations : outcome'[a] = IF a = o THEN "asked" ELSE outcome[a]
  BY <1>1 DEF ServerTypes
<1>3. Asked' = Asked \cup {o} /\ o \notin Asked
  BY <1>1, <1>2 DEF Asked
<1>4. Line' = Line
  BY <1>1 DEF Line
<1>5. Verdict' = Verdict
  BY <1>1, <1>2, VerdictKept
<1>6. o \notin ToSet(Line)
  BY <1>1, LineIsActive DEF Active
<1>7. Verdict[o] = "none"
  BY <1>1 DEF Verdict, IsOver
<1> QED BY <1>3, <1>4, <1>5, <1>6, <1>7 DEF Executor!Ask, ToSet, Executor!ToSet

\* The server receives it.
LEMMA RunIsAccept ==
  ASSUME ServerTypes, OrderInv, NEW c \in Clients, ReceiveRun(c)
  PROVE  \E o \in Operations : Executor!Accept(o)
<1> DEFINE o == toServer[c][1].op
<1>1. /\ toServer[c] \in Seq(Requests) /\ toServer[c] # <<>>
      /\ toServer[c][1].type = "runOperation" /\ o \in Operations
  BY RunEffect
<1>2. 1 \in DOMAIN toServer[c]
  BY <1>1, TailOf
<1>3. outcome[o] = "asked"
  BY <1>1, <1>2 DEF OrderInv, AskedOnce
<1>4. \/ /\ running # None /\ running' = running
         /\ queue' = Append(queue, o) /\ outcome' = [outcome EXCEPT ![o] = "waiting"]
      \/ /\ running = None /\ running' = o
         /\ queue' = queue /\ outcome' = [outcome EXCEPT ![o] = "alive"]
  BY RunEffect
<1> HIDE DEF o
<1>5. /\ outcome'[o] \in {"waiting", "alive"}
      /\ \A a \in Operations \ {o} : outcome'[a] = outcome[a]
  BY <1>1, <1>4 DEF ServerTypes
<1>6. Asked' = Asked \ {o} /\ o \in Asked
  BY <1>1, <1>3, <1>5 DEF Asked
<1>7. Verdict' = Verdict
  BY <1>3, <1>5, VerdictKept
<1>8. Line' = Append(Line, o)
  <2>1. CASE running # None
    <3>1. running' = running /\ queue' = Append(queue, o) /\ running' # None
      BY <1>4, <2>1
    <3>2. Line' = <<running>> \o Append(queue, o) /\ Line = <<running>> \o queue
      BY <2>1, <3>1 DEF Line
    <3>3. queue \in Seq(Operations) /\ running \in Operations
      BY <2>1 DEF ServerTypes
    <3> QED BY <1>1, <3>2, <3>3
  <2>2. CASE running = None
    <3>1. queue = <<>> /\ queue' = <<>> /\ running' = o
      BY <1>4, <2>2 DEF OrderInv, Ordered, OneRuns
    <3>2. o # None
      BY <1>1, NoneIsNoOperation
    <3>3. Line' = <<o>> \o <<>> /\ Line = <<>>
      BY <2>2, <3>1, <3>2 DEF Line
    <3> QED BY <3>3
  <2> QED BY <2>1, <2>2
<1> QED BY <1>1, <1>6, <1>7, <1>8 DEF Executor!Accept

\* The operation that runs succeeds.
LEMMA SucceedIsComplete ==
  ASSUME ServerTypes, Ordered, Succeed
  PROVE  Executor!Complete
<1>1. running \in Operations /\ outcome[running] = "ok" /\ running # None
  BY SucceedEffect, NoneIsNoOperation
<1>2. /\ Line # <<>> /\ Head(Line) = running /\ Tail(Line) = queue
  BY <1>1, LineOf
<1>3. \A o \in Operations :
        \/ o = running /\ outcome'[o] = "done"
        \/ /\ o # running /\ outcome[o] = "waiting" /\ outcome'[o] = "alive"
        \/ o # running /\ outcome'[o] = outcome[o]
  <2>1. CASE queue = <<>>
    <3>1. outcome' = [outcome EXCEPT ![running] = "done"]
      BY <2>1, SucceedEffect
    <3> QED BY <3>1 DEF ServerTypes
  <2>2. CASE queue # <<>>
    <3>1. /\ queue[1] \in Operations
          /\ outcome' = [[outcome EXCEPT ![running] = "done"] EXCEPT ![queue[1]] = "alive"]
      BY <2>2, SucceedEffect
    <3>2. outcome[queue[1]] = "waiting"
      <4>1. 1 \in DOMAIN queue
        BY <2>2, TailOf DEF ServerTypes
      <4> QED BY <4>1 DEF Ordered, QueueInOrder
    <3>3. queue[1] # running
      BY <1>1, <3>2
    <3> QED BY <1>1, <3>1, <3>2, <3>3 DEF ServerTypes
  <2> QED BY <2>1, <2>2
<1>4. Line' = queue
  <2>1. CASE queue = <<>>
    <3>1. running' = None
      BY <2>1, SucceedEffect
    <3> QED BY <2>1, <3>1 DEF Line
  <2>2. CASE queue # <<>>
    <3>1. queue[1] \in Operations /\ running' = queue[1] /\ queue' = Tail(queue)
      BY <2>2, SucceedEffect
    <3>2. Line' = <<queue[1]>> \o Tail(queue)
      BY <3>1, NoneIsNoOperation DEF Line
    <3>3. queue \in Seq(Operations)
      BY DEF ServerTypes
    <3> QED BY <2>2, <3>2, <3>3
  <2> QED BY <2>1, <2>2
<1>5. Asked' = Asked
  BY <1>1, <1>3 DEF Asked
<1>6. Verdict' = [Verdict EXCEPT ![running] = "done"]
  <2>1. \A o \in Operations : (IF IsOver(o)' THEN outcome'[o] ELSE "none")
          = IF o = running THEN "done" ELSE (IF IsOver(o) THEN outcome[o] ELSE "none")
    BY <1>3 DEF IsOver
  <2> QED BY <2>1 DEF Verdict, IsOver
<1> QED BY <1>2, <1>4, <1>5, <1>6 DEF Executor!Complete

\* The operation that runs fails.
LEMMA FailIsBreak ==
  ASSUME ServerTypes, Ordered, Fail
  PROVE  Executor!Break
<1>1. /\ running \in Operations /\ running # None
      /\ outcome[running] \in {"alive", "bad"} /\ outcome'[running] = "failed"
      /\ queue' = <<>> /\ running' = None
  BY FailEffect, NoneIsNoOperation
<1>2. /\ Line # <<>> /\ Head(Line) = running /\ Tail(Line) = queue
  BY <1>1, LineOf
<1>3. \A o \in Operations \ {running} :
        \/ o \in ToSet(queue) /\ outcome'[o] = "dropped" /\ outcome[o] = "waiting"
        \/ o \notin ToSet(queue) /\ outcome'[o] = outcome[o]
  <2>1. \A o : o \in ToSet(queue) <=> \E k \in DOMAIN queue : queue[k] = o
    BY DEF ToSet
  <2>2. \A o \in Operations \ {running} :
          \/ (\E k \in DOMAIN queue : queue[k] = o) /\ outcome'[o] = "dropped"
          \/ ~(\E k \in DOMAIN queue : queue[k] = o) /\ outcome'[o] = outcome[o]
    BY FailEffect
  <2> QED BY <2>1, <2>2 DEF Ordered, QueueInOrder
<1>4. Line' = <<>>
  BY <1>1 DEF Line
<1>5. Asked' = Asked
  BY <1>1, <1>3 DEF Asked
<1>6. Verdict' = [o \in Operations |-> IF o = running THEN "failed"
                                      ELSE IF o \in ToSet(queue) THEN "dropped"
                                      ELSE Verdict[o]]
  <2>1. \A o \in Operations : (IF IsOver(o)' THEN outcome'[o] ELSE "none")
          = IF o = running THEN "failed"
            ELSE IF o \in ToSet(queue) THEN "dropped"
            ELSE (IF IsOver(o) THEN outcome[o] ELSE "none")
    BY <1>1, <1>3 DEF IsOver
  <2> QED BY <2>1 DEF Verdict, IsOver
<1> QED BY <1>2, <1>4, <1>5, <1>6 DEF Executor!Break, ToSet, Executor!ToSet

\* A step that changes neither what runs, nor the queue, nor an outcome that
\* the executor knows is none of its steps.
LEMMA OthersAreStutters ==
  ASSUME running' = running, queue' = queue,
         \A o \in Operations :
           \/ outcome'[o] = outcome[o]
           \/ {outcome[o], outcome'[o]} \cap {"asked", "done", "failed", "dropped"} = {}
  PROVE  UNCHANGED Executor!vars
<1>1. Asked' = Asked
  BY DEF Asked
<1>2. Line' = Line
  BY DEF Line
<1>3. Verdict' = Verdict
  BY VerdictKept
<1> QED BY <1>1, <1>2, <1>3 DEF Executor!vars

\* Every step of the queue is one of the executor, or a stutter.
LEMMA StepRefines == ServerTypes /\ OrderInv /\ [Next]_vars => [Executor!Next]_(Executor!vars)
<1> SUFFICES ASSUME ServerTypes, OrderInv, [Next]_vars
             PROVE  Executor!Next \/ UNCHANGED Executor!vars
  OBVIOUS
<1>0. Ordered
  BY DEF OrderInv
<1>1. ASSUME NEW c \in Clients, NEW o \in Operations, RunOperation(c, o) PROVE Executor!Next
  BY <1>0, <1>1, AskIsAsk DEF Executor!Next
<1>2. ASSUME NEW c \in Clients, ReceiveRun(c) PROVE Executor!Next
  BY <1>2, RunIsAccept DEF Executor!Next
<1>3. ASSUME Succeed PROVE Executor!Next
  BY <1>0, <1>3, SucceedIsComplete DEF Executor!Next
<1>4. ASSUME Fail PROVE Executor!Next
  BY <1>0, <1>4, FailIsBreak DEF Executor!Next
<1>5. ASSUME NEW c \in Clients, AbortOperation(c) PROVE UNCHANGED Executor!vars
  <2>1. running' = running /\ queue' = queue /\ outcome' = outcome
    BY <1>5, AbortEffect
  <2> QED BY <2>1, OthersAreStutters
<1>6. ASSUME NEW c \in Clients, ReceiveProgress(c) PROVE UNCHANGED Executor!vars
  <2>1. running' = running /\ queue' = queue /\ outcome' = outcome
    BY <1>6, ProgressEffect
  <2> QED BY <2>1, OthersAreStutters
<1>7. ASSUME NEW c \in Clients, ReceiveAbort(c) PROVE UNCHANGED Executor!vars
  <2>1. running' = running /\ queue' = queue /\ outcome' = outcome
    BY <1>7, ReceiveAbortEffect
  <2> QED BY <2>1, OthersAreStutters
<1>8. ASSUME Exit(0) \/ Exit(1) \/ Killed PROVE UNCHANGED Executor!vars
  <2>1. /\ running \in Operations /\ outcome[running] = "alive"
        /\ running' = running /\ queue' = queue
        /\ \/ outcome' = [outcome EXCEPT ![running] = "ok"]
           \/ outcome' = [outcome EXCEPT ![running] = "bad"]
    BY <1>8, ExitEffect
  <2>2. /\ outcome'[running] \in {"ok", "bad"}
        /\ \A o \in Operations \ {running} : outcome'[o] = outcome[o]
    BY <2>1 DEF ServerTypes
  <2>3. \A o \in Operations :
          \/ outcome'[o] = outcome[o]
          \/ {outcome[o], outcome'[o]} \cap {"asked", "done", "failed", "dropped"} = {}
    BY <2>1, <2>2
  <2> QED BY <2>1, <2>3, OthersAreStutters
<1>9. CASE UNCHANGED vars
  <2>1. running' = running /\ queue' = queue /\ outcome' = outcome
    BY <1>9 DEF vars, server
  <2> QED BY <2>1, OthersAreStutters
<1> QED BY <1>1, <1>2, <1>3, <1>4, <1>5, <1>6, <1>7, <1>8, <1>9 DEF Next, Receive, Settle

\* The queue, its handlers and its catch block implement the executor: one
\* operation is served at a time, in the order the server received them, and
\* a failure takes along exactly what waits behind it.
THEOREM QueueServesInOrder == Spec => ServesInOrder
<1>1. Init => Executor!Init
  <2> SUFFICES ASSUME Init PROVE Executor!Init
    OBVIOUS
  <2>1. Asked = {}
    BY DEF Init, Asked
  <2>2. Line = <<>>
    BY DEF Init, Line
  <2>3. Verdict = [o \in Operations |-> "none"]
    BY DEF Init, Verdict, IsOver
  <2> QED BY <2>1, <2>2, <2>3 DEF Executor!Init
<1> QED BY <1>1, StepRefines, OrderIsInductive, PTL DEF Spec, ServesInOrder, Executor!Spec

----------------------------------------------------------------------------
(***************************************************************************)
(* What a window shows of the queue.  First, the operations among those of *)
(* a message that the window knows.  Induction over numbers takes the form *)
(* of a least counterexample.                                              *)
(***************************************************************************)
LEMMA LeastNumber ==
  ASSUME NEW T, T \subseteq Nat, T # {}
  PROVE  \E m \in T : \A n \in T : m <= n
<1> DEFINE R == OpToRel(<, Nat)
<1>1. IsWellFoundedOn(R, Nat)
  BY NatLessThanWellFounded
<1>2. PICK x \in T : \A y \in T : ~ (<<y, x>> \in R)
  <2> HIDE DEF R
  <2> QED BY <1>1, WFMin
<1>3. ASSUME NEW y \in T PROVE x <= y
  <2>1. ~(<<y, x>> \in R)
    BY <1>2
  <2>2. x \in Nat /\ y \in Nat
    OBVIOUS
  <2>3. ~(y < x)
    BY <2>1, <2>2, Zenon DEF OpToRel
  <2> HIDE DEF R
  <2> QED BY <2>2, <2>3
<1> HIDE DEF R
<1> QED BY <1>3

\* h lists the known ones among the first operations, for each number up to n.
IsKept(h, ops, ids, n) ==
  h = [k \in 0..n |-> IF k = 0 THEN <<>>
                      ELSE IF ops[k] \in ids THEN Append(h[k - 1], ops[k]) ELSE h[k - 1]]

LEMMA KeptExists ==
  ASSUME NEW ops, NEW ids, NEW n \in Nat
  PROVE  \E h : IsKept(h, ops, ids, n)
<1> DEFINE T == {k \in Nat : ~ \E h : IsKept(h, ops, ids, k)}
<1> SUFFICES ASSUME T # {} PROVE FALSE
  OBVIOUS
<1>1. PICK m \in T : \A k \in T : m <= k
  BY LeastNumber
<1>2. m # 0
  <2>1. IsKept([k \in 0..0 |-> <<>>], ops, ids, 0)
    BY DEF IsKept
  <2> QED BY <2>1
<1>3. m - 1 \in Nat /\ m - 1 \notin T
  BY <1>1, <1>2
<1>4. PICK g : IsKept(g, ops, ids, m - 1)
  BY <1>3
<1> DEFINE last == IF ops[m] \in ids THEN Append(g[m - 1], ops[m]) ELSE g[m - 1]
           h == [k \in 0..m |-> IF k = m THEN last ELSE g[k]]
<1>5. ASSUME NEW k \in 0..m
      PROVE  h[k] = IF k = 0 THEN <<>>
                    ELSE IF ops[k] \in ids THEN Append(h[k - 1], ops[k]) ELSE h[k - 1]
  <2>1. CASE k = 0
    BY <2>1, <1>2, <1>3, <1>4 DEF IsKept
  <2>2. CASE k # 0 /\ k = m
    BY <2>2, <1>2, <1>3
  <2>3. CASE k # 0 /\ k # m
    <3>1. k \in 0..(m - 1) /\ k - 1 \in 0..m /\ k - 1 # m
      BY <2>3
    <3>2. h[k] = g[k] /\ h[k - 1] = g[k - 1]
      BY <2>3, <3>1
    <3>3. g[k] = IF ops[k] \in ids THEN Append(g[k - 1], ops[k]) ELSE g[k - 1]
      BY <2>3, <3>1, <1>4 DEF IsKept
    <3> HIDE DEF h
    <3> QED BY <2>3, <3>2, <3>3
  <2> QED BY <2>1, <2>2, <2>3
<1>6. IsKept(h, ops, ids, m)
  BY <1>5, Zenon DEF IsKept
<1> QED BY <1>6

LEMMA KnownAreKept ==
  ASSUME NEW ops, NEW ids, Len(ops) \in Nat
  PROVE  \E h : IsKept(h, ops, ids, Len(ops)) /\ KnownAmong(ops, ids) = h[Len(ops)]
<1> DEFINE h == CHOOSE g : IsKept(g, ops, ids, Len(ops))
<1>1. IsKept(h, ops, ids, Len(ops))
  <2>1. \E g : IsKept(g, ops, ids, Len(ops))
    BY KeptExists
  <2> QED BY <2>1
<1>2. KnownAmong(ops, ids) = h[Len(ops)]
  BY DEF KnownAmong, IsKept
<1> QED BY <1>1, <1>2

\* Two lists have the same operations, of which the same are known, up to j.
KnownAlike(ops, ids, others, names, j) ==
  \A k \in 1..j : others[k] = ops[k] /\ (ops[k] \in ids <=> ops[k] \in names)

\* What is kept of such lists is the same up to there.
LEMMA KeptAgree ==
  ASSUME NEW ops, NEW ids, NEW n \in Nat, NEW g, IsKept(g, ops, ids, n),
         NEW others, NEW names, NEW m \in Nat, NEW h, IsKept(h, others, names, m),
         NEW j \in Nat, j <= n, j <= m, KnownAlike(ops, ids, others, names, j)
  PROVE  h[j] = g[j]
<1>0. \A k \in 1..j : others[k] = ops[k] /\ (ops[k] \in ids <=> ops[k] \in names)
  BY DEF KnownAlike
<1> DEFINE T == {k \in 0..j : h[k] # g[k]}
<1> SUFFICES ASSUME T # {} PROVE FALSE
  OBVIOUS
<1>1. PICK k \in T : \A i \in T : k <= i
  <2>1. T \subseteq Nat
    OBVIOUS
  <2> HIDE DEF T
  <2> QED BY <2>1, LeastNumber
<1>2. g[0] = <<>> /\ h[0] = <<>>
  BY DEF IsKept
<1>3. k \in 1..j /\ k - 1 \in 0..j /\ k - 1 \notin T
  BY <1>1, <1>2
<1>4. h[k - 1] = g[k - 1]
  BY <1>3
<1>5. /\ g[k] = IF ops[k] \in ids THEN Append(g[k - 1], ops[k]) ELSE g[k - 1]
      /\ h[k] = IF others[k] \in names THEN Append(h[k - 1], others[k]) ELSE h[k - 1]
  <2>1. k \in 0..n /\ k \in 0..m /\ k # 0
    BY <1>3
  <2> QED BY <2>1 DEF IsKept
<1>6. h[k] = g[k]
  BY <1>0, <1>3, <1>4, <1>5
<1> QED BY <1>1, <1>6

\* A list does not change with names that are not in it,
LEMMA SameKnown ==
  ASSUME NEW S, NEW ops \in Seq(S), NEW ids, NEW names,
         \A k \in DOMAIN ops : ops[k] \in ids <=> ops[k] \in names
  PROVE  KnownAmong(ops, names) = KnownAmong(ops, ids)
<1>1. Len(ops) \in Nat /\ DOMAIN ops = 1..Len(ops)
  OBVIOUS
<1>2. PICK g : IsKept(g, ops, ids, Len(ops)) /\ KnownAmong(ops, ids) = g[Len(ops)]
  BY <1>1, KnownAreKept
<1>3. PICK h : IsKept(h, ops, names, Len(ops)) /\ KnownAmong(ops, names) = h[Len(ops)]
  BY <1>1, KnownAreKept
<1>4. h[Len(ops)] = g[Len(ops)]
  <2>1. KnownAlike(ops, ids, ops, names, Len(ops)) /\ Len(ops) <= Len(ops)
    BY <1>1 DEF KnownAlike
  <2> QED BY <1>1, <1>2, <1>3, <2>1, KeptAgree
<1> QED BY <1>2, <1>3, <1>4

\* nor with an operation that is not known.
LEMMA UnknownIsLeftOut ==
  ASSUME NEW S, NEW ops \in Seq(S), NEW o \in S, NEW ids, o \notin ids
  PROVE  KnownAmong(Append(ops, o), ids) = KnownAmong(ops, ids)
<1> DEFINE more == Append(ops, o)
           n == Len(ops)
<1>1. /\ n \in Nat /\ Len(more) = n + 1 /\ more[n + 1] = o
      /\ \A k \in 1..n : more[k] = ops[k]
  BY AppendOf
<1> HIDE DEF more, n
<1>2. PICK g : IsKept(g, ops, ids, n) /\ KnownAmong(ops, ids) = g[n]
  BY <1>1, KnownAreKept DEF n
<1>3. PICK h : IsKept(h, more, ids, n + 1) /\ KnownAmong(more, ids) = h[n + 1]
  BY <1>1, KnownAreKept
<1>4. n + 1 \in Nat /\ n <= n /\ n <= n + 1 /\ n + 1 \in 0..(n + 1) /\ n + 1 # 0
      /\ (n + 1) - 1 = n
  BY <1>1
<1>5. h[n] = g[n]
  <2>1. KnownAlike(ops, ids, more, ids, n)
    BY <1>1 DEF KnownAlike
  <2>2. n \in Nat /\ n + 1 \in Nat /\ n <= n /\ n <= n + 1
    BY <1>1
  <2>3. IsKept(g, ops, ids, n) /\ IsKept(h, more, ids, n + 1)
    BY <1>2, <1>3
  <2> DEFINE m == n + 1
  <2>4. m \in Nat /\ n <= m /\ IsKept(h, more, ids, m)
    BY <2>2, <2>3
  <2> HIDE DEF m
  <2> QED BY ONLY <2>1, <2>2, <2>3, <2>4, KeptAgree
<1>6. h[n + 1] = h[n]
  BY <1>1, <1>3, <1>4 DEF IsKept
<1> QED BY <1>2, <1>3, <1>5, <1>6 DEF more

LEMMA NoneAreKnown ==
  ASSUME NEW ids
  PROVE  KnownAmong(<<>>, ids) = <<>>
<1>1. Len(<<>>) = 0
  OBVIOUS
<1>2. PICK h : IsKept(h, <<>>, ids, 0) /\ KnownAmong(<<>>, ids) = h[0]
  BY <1>1, KnownAreKept
<1> QED BY <1>2 DEF IsKept

----------------------------------------------------------------------------
\* The messages on their way to a window that say what its queue is.
Tells(m) == m.kind \in {"queue", "spawn", "error"} \/ (m.kind = "exit" /\ m.exitCode # 0)

LastWord(channel, k) ==
  /\ k \in DOMAIN channel /\ Tells(channel[k])
  /\ \A l \in DOMAIN channel : l > k => ~Tells(channel[l])

\* The window will show the operations it knows among ops, or the operation
\* that runs has failed and the queue is about to be cleared.
Told(m, ops, ids, bad) ==
  /\ m.kind \in {"queue", "spawn"} => KnownAmong(m.queue, ids) = KnownAmong(ops, ids)
  /\ m.kind = "error" => KnownAmong(ops, ids) = <<>>
  /\ m.kind = "exit" => bad

Asks(requests) == \E i \in DOMAIN requests : requests[i].type = "runOperation"

\* The last word is right; without one, so is what is shown, unless the answer
\* to a request is still to come.
IsShown(channel, requests, ops, list, ids, bad) ==
  /\ \A k : LastWord(channel, k) => Told(channel[k], ops, ids, bad)
  /\ (\A k \in DOMAIN channel : ~Tells(channel[k])) =>
       list = KnownAmong(ops, ids) \/ Asks(requests) \/ bad

HasFailed == running # None /\ outcome[running] = "bad"

\* Something that says what the queue is, is sent.
LEMMA NewWord ==
  ASSUME NEW channel \in Seq(Messages), NEW m \in Messages, Tells(m),
         NEW requests, NEW ops, NEW list, NEW ids, NEW bad, Told(m, ops, ids, bad)
  PROVE  IsShown(Append(channel, m), requests, ops, list, ids, bad)
<1> DEFINE more == Append(channel, m)
           n == Len(channel) + 1
<1>1. n \in Nat \ {0} /\ DOMAIN more = 1..n /\ more[n] = m
  BY AppendOf
<1> HIDE DEF more, n
<1>2. \A k : LastWord(more, k) => k = n
  <2> SUFFICES ASSUME NEW k, LastWord(more, k), k # n PROVE FALSE
    OBVIOUS
  <2>1. k \in 1..n /\ n > k
    BY <1>1 DEF LastWord
  <2> QED BY <1>1, <2>1 DEF LastWord
<1>3. n \in DOMAIN more /\ Tells(more[n])
  BY <1>1
<1> QED BY <1>1, <1>2, <1>3 DEF IsShown, more

\* Something else is sent, while nothing has failed.
LEMMA NoNewWord ==
  ASSUME NEW channel \in Seq(Messages), NEW m \in Messages, ~Tells(m),
         NEW requests, NEW ops, NEW list, NEW ids, NEW bad,
         IsShown(channel, requests, ops, list, ids, FALSE)
  PROVE  IsShown(Append(channel, m), requests, ops, list, ids, bad)
<1> DEFINE more == Append(channel, m)
           n == Len(channel) + 1
<1>1. /\ n \in Nat /\ DOMAIN more = 1..n /\ more[n] = m /\ DOMAIN channel = 1..(n - 1)
      /\ \A k \in 1..(n - 1) : more[k] = channel[k]
  BY AppendOf
<1> HIDE DEF more, n
<1>2. ASSUME NEW k, LastWord(more, k) PROVE LastWord(channel, k) /\ more[k] = channel[k]
  <2>1. k \in 1..n /\ k # n
    BY <1>1, <1>2 DEF LastWord
  <2>2. k \in 1..(n - 1)
    BY <1>1, <2>1
  <2> QED BY <1>1, <1>2, <2>2 DEF LastWord
<1>3. \A k : LastWord(more, k) => Told(more[k], ops, ids, bad)
  <2>1. \A k : LastWord(channel, k) => Told(channel[k], ops, ids, bad)
    BY DEF IsShown, Told
  <2> QED BY <1>2, <2>1
<1>4. (\A k \in DOMAIN more : ~Tells(more[k])) => \A k \in DOMAIN channel : ~Tells(channel[k])
  BY <1>1
<1> QED BY <1>3, <1>4 DEF IsShown, more

\* Nothing is sent, and nothing in the channel is seen differently.
LEMMA WordStays ==
  ASSUME NEW channel, NEW requests, NEW ops, NEW list, NEW ids, NEW bad,
         IsShown(channel, requests, ops, list, ids, bad),
         NEW asks, NEW left, NEW lst, NEW names, NEW worse,
         KnownAmong(left, names) = KnownAmong(ops, ids),
         \A k \in DOMAIN channel :
           KnownAmong(channel[k].queue, names) = KnownAmong(channel[k].queue, ids),
         lst = list \/ Asks(asks), Asks(requests) => Asks(asks), bad => worse
  PROVE  IsShown(channel, asks, left, lst, names, worse)
<1>1. ASSUME NEW k, LastWord(channel, k) PROVE Told(channel[k], left, names, worse)
  <2>1. Told(channel[k], ops, ids, bad) /\ k \in DOMAIN channel
    BY <1>1 DEF IsShown, LastWord
  <2> QED BY <2>1 DEF Told
<1> QED BY <1>1 DEF IsShown

\* The first message of the channel is received.
LEMMA WordReceived ==
  ASSUME NEW channel \in Seq(Messages), channel # <<>>,
         NEW requests, NEW ops, NEW list, NEW ids, NEW bad,
         IsShown(channel, requests, ops, list, ids, bad),
         NEW lst, NEW names,
         Tells(channel[1]) =>
           /\ channel[1].kind \in {"queue", "spawn"} => lst = KnownAmong(channel[1].queue, ids)
           /\ channel[1].kind \notin {"queue", "spawn"} => lst = <<>>,
         ~Tells(channel[1]) => lst = list,
         KnownAmong(ops, names) = KnownAmong(ops, ids),
         \A k \in DOMAIN channel : k > 1 =>
           KnownAmong(channel[k].queue, names) = KnownAmong(channel[k].queue, ids)
  PROVE  IsShown(Tail(channel), requests, ops, lst, names, bad)
<1> DEFINE rest == Tail(channel)
           n == Len(channel)
<1>1. /\ n \in Nat \ {0} /\ DOMAIN rest = 1..(n - 1) /\ DOMAIN channel = 1..n
      /\ \A i \in 1..(n - 1) : rest[i] = channel[i + 1]
  BY TailOf
<1>2. channel[1].kind \in {"queue", "spawn", "exit", "error"}
  <2>1. channel[1] \in Messages
    BY <1>1
  <2> QED BY <2>1 DEF Messages
<1> HIDE DEF rest, n
<1>3. ASSUME NEW k, LastWord(rest, k) PROVE Told(rest[k], ops, names, bad)
  <2>1. k \in 1..(n - 1) /\ k + 1 \in 1..n /\ k + 1 > 1
    BY <1>1, <1>3 DEF LastWord
  <2>2. LastWord(channel, k + 1)
    <3>1. ASSUME NEW l \in DOMAIN channel, l > k + 1 PROVE ~Tells(channel[l])
      <4>1. l - 1 \in 1..(n - 1) /\ l - 1 > k /\ (l - 1) + 1 = l
        BY <1>1, <2>1, <3>1
      <4> QED BY <1>1, <1>3, <4>1 DEF LastWord
    <3>2. Tells(channel[k + 1])
      BY <1>1, <1>3, <2>1 DEF LastWord
    <3> QED BY <1>1, <2>1, <3>1, <3>2 DEF LastWord
  <2>3. Told(channel[k + 1], ops, ids, bad)
    BY <2>2 DEF IsShown
  <2>4. KnownAmong(channel[k + 1].queue, names) = KnownAmong(channel[k + 1].queue, ids)
    BY <1>1, <2>1
  <2>5. rest[k] = channel[k + 1]
    BY <1>1, <2>1
  <2> QED BY <2>3, <2>4, <2>5 DEF Told
<1>4. ASSUME \A k \in DOMAIN rest : ~Tells(rest[k])
      PROVE  lst = KnownAmong(ops, names) \/ Asks(requests) \/ bad
  <2>1. ASSUME NEW l \in DOMAIN channel, l # 1 PROVE ~Tells(channel[l])
    <3>1. l - 1 \in 1..(n - 1) /\ (l - 1) + 1 = l
      BY <1>1, <2>1
    <3> QED BY <1>1, <1>4, <3>1
  <2>2. CASE Tells(channel[1])
    <3>1. LastWord(channel, 1)
      BY <1>1, <2>1, <2>2 DEF LastWord
    <3>2. Told(channel[1], ops, ids, bad)
      BY <3>1 DEF IsShown
    <3> QED BY <1>2, <2>2, <3>2 DEF Told
  <2>3. CASE ~Tells(channel[1])
    <3>1. \A l \in DOMAIN channel : ~Tells(channel[l])
      BY <2>1, <2>3
    <3> QED BY <2>3, <3>1 DEF IsShown
  <2> QED BY <2>2, <2>3
<1> QED BY <1>3, <1>4 DEF IsShown, rest

----------------------------------------------------------------------------
\* No message speaks of an operation the server has not got, and none that
\* follows an exit has the operation that exited in its queue.
RightChannel(channel, out) ==
  \A k \in DOMAIN channel :
    /\ \A i \in DOMAIN channel[k].queue : out[channel[k].queue[i]] \notin {"new", "asked"}
    /\ channel[k].kind = "exit" =>
         /\ out[channel[k].op] \notin {"new", "asked", "waiting"}
         /\ \A l \in DOMAIN channel : l > k =>
              \A i \in DOMAIN channel[l].queue : channel[l].queue[i] # channel[k].op

\* Outcomes only go on.
GoesOn(out, new) ==
  \A o \in Operations :
    /\ out[o] \notin {"new", "asked"} => new[o] \notin {"new", "asked"}
    /\ out[o] \notin {"new", "asked", "waiting"} => new[o] \notin {"new", "asked", "waiting"}

LEMMA MessageNames ==
  ASSUME NEW channel \in Seq(Messages), NEW k \in DOMAIN channel
  PROVE  /\ channel[k] \in Messages /\ channel[k].op \in Operations
         /\ channel[k].queue \in Seq(Operations)
         /\ \A i \in DOMAIN channel[k].queue : channel[k].queue[i] \in Operations
<1>1. channel[k] \in Messages
  OBVIOUS
<1>2. channel[k].op \in Operations /\ channel[k].queue \in Seq(Operations)
  BY <1>1 DEF Messages
<1> QED BY <1>1, <1>2

LEMMA ChannelGoesOn ==
  ASSUME NEW channel \in Seq(Messages), NEW out, NEW new,
         RightChannel(channel, out), GoesOn(out, new)
  PROVE  RightChannel(channel, new)
BY MessageNames DEF RightChannel, GoesOn

LEMMA ChannelReceived ==
  ASSUME NEW channel \in Seq(Messages), channel # <<>>, NEW out, RightChannel(channel, out)
  PROVE  RightChannel(Tail(channel), out)
<1> DEFINE rest == Tail(channel)
           n == Len(channel)
<1>1. /\ n \in Nat \ {0} /\ DOMAIN rest = 1..(n - 1) /\ DOMAIN channel = 1..n
      /\ \A i \in 1..(n - 1) : rest[i] = channel[i + 1]
  BY TailOf
<1> HIDE DEF rest, n
<1>2. \A i \in DOMAIN rest : i + 1 \in DOMAIN channel /\ rest[i] = channel[i + 1]
  BY <1>1
<1>3. \A i, j \in DOMAIN rest : i > j => i + 1 > j + 1
  BY <1>1
<1> QED BY <1>2, <1>3 DEF RightChannel, rest

LEMMA ChannelSent ==
  ASSUME NEW channel \in Seq(Messages), NEW m \in Messages, NEW out,
         RightChannel(channel, out),
         \A i \in DOMAIN m.queue : out[m.queue[i]] = "waiting",
         m.kind = "exit" => out[m.op] \notin {"new", "asked", "waiting"}
  PROVE  RightChannel(Append(channel, m), out)
<1> DEFINE more == Append(channel, m)
           n == Len(channel) + 1
<1>1. /\ n \in Nat \ {0} /\ DOMAIN more = 1..n /\ more[n] = m /\ DOMAIN channel = 1..(n - 1)
      /\ \A k \in 1..(n - 1) : more[k] = channel[k]
  BY AppendOf
<1> HIDE DEF more, n
<1>2. ASSUME NEW k \in DOMAIN more
      PROVE  k = n \/ (k \in DOMAIN channel /\ more[k] = channel[k])
  BY <1>1
<1>3. ASSUME NEW k \in DOMAIN more, more[k].kind = "exit",
             NEW l \in DOMAIN more, l > k, NEW i \in DOMAIN more[l].queue
      PROVE  more[l].queue[i] # more[k].op
  <2>1. k \in DOMAIN channel /\ more[k] = channel[k]
    BY <1>1, <1>3
  <2>2. CASE l = n
    BY <1>1, <1>3, <2>1, <2>2 DEF RightChannel
  <2>3. CASE l # n
    BY <1>2, <1>3, <2>1, <2>3 DEF RightChannel
  <2> QED BY <2>2, <2>3
<1> QED BY <1>1, <1>2, <1>3 DEF RightChannel, more

ChannelInv ==
  /\ toClient \in [Clients -> Seq(Messages)]
  /\ \A c \in Clients : RightChannel(toClient[c], outcome)

\* A window knows operations it has asked for, and no other window asks for
\* the same.
KnownInv ==
  /\ \A c \in Clients : \A o \in known[c] : outcome[o] # "new"
  /\ \A c, d \in Clients : \A i \in DOMAIN toServer[c] :
       c # d /\ toServer[c][i].type = "runOperation" => toServer[c][i].op \notin known[d]

\* What a step does to the channels of the windows.
Tellings ==
  \A c \in Clients :
    \/ toClient'[c] = toClient[c]
    \/ toClient[c] # <<>> /\ toClient'[c] = Tail(toClient[c])
    \/ \E m \in Messages :
         /\ toClient'[c] = Append(toClient[c], m)
         /\ m.queue \in {queue', <<>>}
         /\ m.kind = "exit" => m.op \in Operations /\ outcome'[m.op] \in {"ok", "bad"}

LEMMA ChannelsStayRight ==
  ASSUME ServerTypes, OrderInv', ChannelInv, GoesOn(outcome, outcome'), Tellings,
         toClient' = [c \in Clients |-> toClient'[c]]
  PROVE  ChannelInv'
<1>1. ASSUME NEW c \in Clients
      PROVE  toClient'[c] \in Seq(Messages) /\ RightChannel(toClient'[c], outcome')
  <2>1. toClient[c] \in Seq(Messages) /\ RightChannel(toClient[c], outcome')
    BY ChannelGoesOn DEF ChannelInv
  <2>2. CASE toClient'[c] = toClient[c]
    BY <2>1, <2>2
  <2>3. CASE toClient[c] # <<>> /\ toClient'[c] = Tail(toClient[c])
    BY <2>1, <2>3, ChannelReceived, TailOf
  <2>4. ASSUME NEW m \in Messages, toClient'[c] = Append(toClient[c], m),
               m.queue \in {queue', <<>>},
               m.kind = "exit" => m.op \in Operations /\ outcome'[m.op] \in {"ok", "bad"}
        PROVE  toClient'[c] \in Seq(Messages) /\ RightChannel(toClient'[c], outcome')
    <3>1. \A i \in DOMAIN m.queue : outcome'[m.queue[i]] = "waiting"
      <4>1. \A i \in DOMAIN queue' : outcome'[queue'[i]] = "waiting"
        BY DEF OrderInv, Ordered, QueueInOrder
      <4>2. DOMAIN <<>> = {}
        OBVIOUS
      <4> QED BY <4>1, <4>2, <2>4
    <3>2. RightChannel(Append(toClient[c], m), outcome')
      BY <2>1, <2>4, <3>1, ChannelSent
    <3>3. Append(toClient[c], m) \in Seq(Messages)
      BY <2>1, AppendOf
    <3> QED BY <2>4, <3>2, <3>3
  <2> QED BY <2>2, <2>3, <2>4 DEF Tellings
<1>2. toClient' \in [Clients -> Seq(Messages)]
  BY <1>1
<1> QED BY <1>1, <1>2 DEF ChannelInv

\* What is sent, received and shown, by each action.
LEMMA PostedTo ==
  ASSUME ChannelInv, NEW c \in Clients, NEW m \in Messages, Post(c, m)
  PROVE  /\ toClient' = [d \in Clients |-> toClient'[d]]
         /\ toClient'[c] = Append(toClient[c], m)
         /\ \A d \in Clients \ {c} : toClient'[d] = toClient[d]
BY DEF Post, ChannelInv

LEMMA ProgressIsMessage ==
  ASSUME NEW kind \in {"queue", "spawn", "exit", "error"}, NEW o \in Operations,
         NEW ops \in Seq(Operations), NEW code \in {0, 1},
         NEW m, m = Progress(kind, o, ops, code)
  PROVE  /\ m \in Messages
         /\ m.kind = kind /\ m.op = o /\ m.queue = ops /\ m.exitCode = code
BY DEF Progress, Messages

LEMMA RunTells ==
  ASSUME ServerTypes, ChannelInv, NEW c \in Clients, ReceiveRun(c)
  PROVE  /\ \E m \in Messages :
              Post(c, m) /\ m.kind \in {"queue", "spawn"} /\ m.queue = queue'
         /\ shown' = shown
         /\ reporter' = IF running = None THEN c ELSE reporter
<1>1. /\ toServer[c][1].op \in Operations /\ Head(toServer[c]) = toServer[c][1]
      /\ queue \in Seq(Operations) /\ shown' = shown
  BY RunEffect, TailOf DEF ServerTypes, ReceiveRun, client
<1>2. CASE running = None
  <2> DEFINE m == Progress("spawn", toServer[c][1].op, queue, 0)
  <2>1. m = Progress("spawn", toServer[c][1].op, queue, 0)
    OBVIOUS
  <2>2. Post(c, m) /\ queue' = queue /\ reporter' = c
    BY <1>1, <1>2 DEF ReceiveRun, RunOrQueueOperation, Start
  <2> HIDE DEF m
  <2>3. m \in Messages /\ m.kind = "spawn" /\ m.queue = queue
    BY <1>1, <2>1, ProgressIsMessage
  <2> QED BY <1>1, <1>2, <2>2, <2>3
<1>3. CASE running # None
  <2> DEFINE ops == Append(queue, toServer[c][1].op)
             m == Progress("queue", toServer[c][1].op, ops, 0)
  <2>1. ops \in Seq(Operations)
    BY <1>1, AppendOf
  <2>2. Post(c, m) /\ queue' = ops /\ reporter' = reporter
    BY <1>1, <1>3 DEF ReceiveRun, RunOrQueueOperation, Enqueue
  <2>3. m = Progress("queue", toServer[c][1].op, ops, 0)
    OBVIOUS
  <2> HIDE DEF m, ops
  <2>4. m \in Messages /\ m.kind = "queue" /\ m.queue = ops
    BY <1>1, <2>1, <2>3, ProgressIsMessage
  <2> QED BY <1>1, <1>3, <2>2, <2>4
<1> QED BY <1>2, <1>3

LEMMA ExitTells ==
  ASSUME ServerTypes, ChannelInv, Exit(0) \/ Exit(1) \/ Killed
  PROVE  /\ \E m \in Messages :
              /\ Post(reporter, m) /\ m.kind = "exit" /\ m.op = running /\ m.queue = <<>>
              /\ m.exitCode # 0 => outcome'[running] = "bad"
         /\ shown' = shown /\ reporter' = reporter
<1>1. running \in Operations /\ running # None /\ outcome \in [Operations -> Outcomes]
  BY ExitEffect, NoneIsNoOperation DEF ServerTypes
<1>2. <<>> \in Seq(Operations)
  OBVIOUS
<1>3. ASSUME NEW code \in {0, 1}, Exit(code)
      PROVE  /\ Post(reporter, Progress("exit", running, <<>>, code))
             /\ code # 0 => outcome'[running] = "bad"
             /\ shown' = shown /\ reporter' = reporter
  BY <1>1, <1>3 DEF Exit, client
<1>4. Killed => /\ Post(reporter, Progress("exit", running, <<>>, 0))
                /\ shown' = shown /\ reporter' = reporter
  BY DEF Killed, client
<1>5. PICK code \in {0, 1} :
        /\ Post(reporter, Progress("exit", running, <<>>, code))
        /\ code # 0 => outcome'[running] = "bad"
        /\ shown' = shown /\ reporter' = reporter
  BY <1>3, <1>4
<1> DEFINE m == Progress("exit", running, <<>>, code)
<1>6. Post(reporter, m) /\ m = Progress("exit", running, <<>>, code)
  BY <1>5
<1> HIDE DEF m
<1>7. m \in Messages /\ m.kind = "exit" /\ m.op = running /\ m.queue = <<>> /\ m.exitCode = code
  BY <1>1, <1>2, <1>6 DEF Progress, Messages
<1> QED BY <1>5, <1>6, <1>7

LEMMA SucceedTells ==
  ASSUME ServerTypes, ChannelInv, Succeed
  PROVE  /\ \/ queue = <<>> /\ toClient' = toClient
            \/ \E m \in Messages : Post(reporter, m) /\ m.kind = "spawn" /\ m.queue = queue'
         /\ shown' = shown /\ reporter' = reporter
<1>1. shown' = shown /\ reporter' = reporter
  BY DEF Succeed, client
<1>2. CASE queue = <<>>
  BY <1>1, <1>2 DEF Succeed
<1>3. CASE queue # <<>>
  <2> DEFINE m == Progress("spawn", Head(queue), Tail(queue), 0)
  <2>1. Head(queue) \in Operations /\ Tail(queue) \in Seq(Operations)
    BY <1>3, TailOf DEF ServerTypes
  <2>2. Post(reporter, m) /\ queue' = Tail(queue)
    BY <1>3 DEF Succeed
  <2>3. m = Progress("spawn", Head(queue), Tail(queue), 0)
    OBVIOUS
  <2> HIDE DEF m
  <2>4. m \in Messages /\ m.kind = "spawn" /\ m.queue = Tail(queue)
    BY <2>1, <2>3 DEF Progress, Messages
  <2> QED BY <1>1, <2>2, <2>4
<1> QED BY <1>2, <1>3

LEMMA FailTells ==
  ASSUME ServerTypes, ChannelInv, Fail
  PROVE  /\ \E m \in Messages : Post(reporter, m) /\ m.kind = "error" /\ m.queue = <<>>
         /\ shown' = shown /\ reporter' = reporter
<1> DEFINE m == Progress("error", running, <<>>, 0)
<1>1. running \in Operations /\ <<>> \in Seq(Operations)
  BY FailEffect
<1>2. Post(reporter, m) /\ shown' = shown /\ reporter' = reporter
  BY DEF Fail, client
<1>3. m = Progress("error", running, <<>>, 0)
  OBVIOUS
<1> HIDE DEF m
<1>4. m \in Messages /\ m.kind = "error" /\ m.queue = <<>>
  BY <1>1, <1>3 DEF Progress, Messages
<1> QED BY <1>2, <1>4

LEMMA AskTells ==
  ASSUME ServerTypes, NEW c \in Clients, NEW o \in Operations, RunOperation(c, o)
  PROVE  /\ toClient' = toClient /\ reporter' = reporter
         /\ DOMAIN shown' = DOMAIN shown
         /\ \A d \in DOMAIN shown : d # c => shown'[d] = shown[d]
BY DEF RunOperation

LEMMA AbortTells ==
  ASSUME NEW c \in Clients, AbortOperation(c) \/ ReceiveAbort(c)
  PROVE  toClient' = toClient /\ reporter' = reporter /\ shown' = shown
BY DEF AbortOperation, ReceiveAbort, server, client

LEMMA ProgressTells ==
  ASSUME ServerTypes, ChannelInv, NEW c \in Clients, ReceiveProgress(c)
  PROVE  /\ toClient[c] # <<>> /\ toClient' = [toClient EXCEPT ![c] = Tail(@)]
         /\ reporter' = reporter
         /\ shown' = [shown EXCEPT ![c] = ShownAfter(c, toClient[c][1])]
         /\ known' = [known EXCEPT ![c] =
                        IF toClient[c][1].kind = "exit" THEN @ \ {toClient[c][1].op} ELSE @]
<1>1. toClient[c] # <<>> /\ toClient[c] \in Seq(Messages)
  BY DEF ReceiveProgress, ChannelInv
<1>2. Head(toClient[c]) = toClient[c][1]
  BY <1>1, TailOf
<1>3. /\ toClient' = [toClient EXCEPT ![c] = Tail(@)]
      /\ shown' = [shown EXCEPT ![c] = ShownAfter(c, Head(toClient[c]))]
      /\ known' = [known EXCEPT ![c] =
                     IF Head(toClient[c]).kind = "exit" THEN @ \ {Head(toClient[c]).op} ELSE @]
      /\ reporter' = reporter
  BY DEF ReceiveProgress, server
<1> QED BY <1>1, <1>2, <1>3

\* Every step keeps the channels right.
LEMMA ChannelStep ==
  ASSUME ServerTypes, OrderInv, OrderInv', ChannelInv, reporter \in Clients, [Next]_vars
  PROVE  ChannelInv'
<1>1. ASSUME NEW m \in Messages, NEW c \in Clients, Post(c, m), m.queue \in {queue', <<>>},
             m.kind = "exit" => m.op \in Operations /\ outcome'[m.op] \in {"ok", "bad"}
      PROVE  Tellings /\ toClient' = [d \in Clients |-> toClient'[d]]
  BY <1>1, PostedTo DEF Tellings
<1>2. toClient' = toClient => Tellings /\ toClient' = [d \in Clients |-> toClient'[d]]
  BY DEF Tellings, ChannelInv
<1>3. outcome' = outcome => GoesOn(outcome, outcome')
  BY DEF GoesOn
<1>4. ASSUME NEW c \in Clients, NEW o \in Operations, RunOperation(c, o) PROVE ChannelInv'
  <2>1. GoesOn(outcome, outcome')
    BY <1>4, AskEffect DEF GoesOn, ServerTypes
  <2> QED BY <1>2, <1>4, <2>1, AskTells, ChannelsStayRight
<1>5. ASSUME NEW c \in Clients, AbortOperation(c) \/ ReceiveAbort(c) PROVE ChannelInv'
  <2>1. outcome' = outcome
    BY <1>5, AbortEffect, ReceiveAbortEffect
  <2> QED BY <1>2, <1>3, <1>5, <2>1, AbortTells, ChannelsStayRight
<1>6. ASSUME NEW c \in Clients, ReceiveProgress(c) PROVE ChannelInv'
  <2>1. outcome' = outcome
    BY <1>6, ProgressEffect
  <2>2. Tellings /\ toClient' = [d \in Clients |-> toClient'[d]]
    BY <1>6, ProgressTells DEF Tellings, ChannelInv
  <2> QED BY <1>3, <2>1, <2>2, ChannelsStayRight
<1>7. ASSUME NEW c \in Clients, ReceiveRun(c) PROVE ChannelInv'
  <2>1. GoesOn(outcome, outcome')
    <3>1. \E new \in {"waiting", "alive"} : outcome' = [outcome EXCEPT ![toServer[c][1].op] = new]
      BY <1>7, RunEffect
    <3>2. outcome[toServer[c][1].op] = "asked"
      <4>1. toServer[c] \in Seq(Requests) /\ toServer[c] # <<>> /\ toServer[c][1].type = "runOperation"
        BY <1>7, RunEffect
      <4>2. 1 \in DOMAIN toServer[c]
        BY <4>1, TailOf
      <4> QED BY <4>1, <4>2 DEF OrderInv, AskedOnce
    <3> QED BY <3>1, <3>2 DEF GoesOn, ServerTypes
  <2>2. PICK m \in Messages : Post(c, m) /\ m.kind \in {"queue", "spawn"} /\ m.queue = queue'
    BY <1>7, RunTells
  <2> QED BY <1>1, <2>1, <2>2, ChannelsStayRight
<1>8. ASSUME Exit(0) \/ Exit(1) \/ Killed PROVE ChannelInv'
  <2>1. running \in Operations /\ outcome[running] = "alive"
        /\ \E new \in {"ok", "bad"} : outcome' = [outcome EXCEPT ![running] = new]
    BY <1>8, ExitEffect
  <2>2. GoesOn(outcome, outcome') /\ outcome'[running] \in {"ok", "bad"}
    BY <2>1 DEF GoesOn, ServerTypes
  <2>3. PICK m \in Messages : Post(reporter, m) /\ m.op = running /\ m.queue = <<>>
    BY <1>8, ExitTells
  <2> QED BY <1>1, <2>1, <2>2, <2>3, ChannelsStayRight
<1>9. ASSUME Succeed PROVE ChannelInv'
  <2>1. GoesOn(outcome, outcome')
    <3>1. CASE queue = <<>>
      BY <1>9, <3>1, SucceedEffect DEF GoesOn, ServerTypes
    <3>2. CASE queue # <<>>
      <4>1. outcome' = [[outcome EXCEPT ![running] = "done"] EXCEPT ![queue[1]] = "alive"]
        BY <1>9, <3>2, SucceedEffect
      <4> QED BY <4>1 DEF GoesOn, ServerTypes
    <3> QED BY <3>1, <3>2
  <2>2. CASE toClient' = toClient
    BY <1>2, <2>1, <2>2, ChannelsStayRight
  <2>3. ASSUME NEW m \in Messages, Post(reporter, m), m.kind = "spawn", m.queue = queue'
        PROVE  ChannelInv'
    BY <1>1, <2>1, <2>3, ChannelsStayRight
  <2> QED BY <1>9, <2>2, <2>3, SucceedTells
<1>10. ASSUME Fail PROVE ChannelInv'
  <2>1. GoesOn(outcome, outcome')
    <3>1. /\ outcome'[running] = "failed"
          /\ \A o \in Operations \ {running} : outcome'[o] \in {outcome[o], "dropped"}
      BY <1>10, FailEffect
    <3> QED BY <3>1 DEF GoesOn
  <2>2. PICK m \in Messages : Post(reporter, m) /\ m.kind = "error" /\ m.queue = <<>>
    BY <1>10, FailTells
  <2> QED BY <1>1, <2>1, <2>2, ChannelsStayRight
<1>11. CASE UNCHANGED vars
  BY <1>2, <1>3, <1>11, ChannelsStayRight DEF vars, server
<1> QED BY <1>4, <1>5, <1>6, <1>7, <1>8, <1>9, <1>10, <1>11 DEF Next, Receive, Settle

----------------------------------------------------------------------------
\* Requests and known operations that are only taken away do no harm.
LEMMA KnownKept ==
  ASSUME ServerTypes, KnownInv,
         \A o \in Operations : outcome[o] # "new" => outcome'[o] # "new",
         \A c \in Clients : known'[c] \subseteq known[c],
         \A c \in Clients : \A i \in DOMAIN toServer'[c] :
           toServer'[c][i].type = "runOperation" =>
             \E j \in DOMAIN toServer[c] : toServer[c][j] = toServer'[c][i]
  PROVE  KnownInv'
<1>1. ASSUME NEW c \in Clients, NEW o \in known'[c] PROVE outcome'[o] # "new"
  <2>1. o \in known[c] /\ o \in Operations
    BY <1>1 DEF ServerTypes
  <2> QED BY <2>1 DEF KnownInv
<1>2. ASSUME NEW c \in Clients, NEW d \in Clients, NEW i \in DOMAIN toServer'[c], c # d,
             toServer'[c][i].type = "runOperation"
      PROVE  toServer'[c][i].op \notin known'[d]
  <2>1. PICK j \in DOMAIN toServer[c] : toServer[c][j] = toServer'[c][i]
    BY <1>2
  <2>2. toServer[c][j].op \notin known[d]
    BY <1>2, <2>1 DEF KnownInv
  <2> QED BY <2>1, <2>2
<1> QED BY <1>1, <1>2 DEF KnownInv

LEMMA KnownAsk ==
  ASSUME ServerTypes, OrderInv, KnownInv,
         NEW c \in Clients, NEW o \in Operations, RunOperation(c, o)
  PROVE  KnownInv'
<1>1. /\ outcome[o] = "new" /\ outcome' = [outcome EXCEPT ![o] = "asked"]
      /\ known' = [known EXCEPT ![c] = @ \cup {o}]
  BY AskEffect
<1>2. PICK r \in Requests : /\ r.op = o /\ r.type = "runOperation"
                           /\ toServer' = [toServer EXCEPT ![c] = Append(@, r)]
  BY AskEffect
<1>3. /\ toServer[c] \in Seq(Requests) /\ toServer'[c] = Append(toServer[c], r)
      /\ \A d \in Clients \ {c} : toServer'[d] = toServer[d]
  BY <1>2 DEF ServerTypes
<1>4. /\ known'[c] = known[c] \cup {o}
      /\ \A d \in Clients \ {c} : known'[d] = known[d]
  BY <1>1 DEF ServerTypes
<1>5. \A p \in Operations : outcome'[p] = IF p = o THEN "asked" ELSE outcome[p]
  BY <1>1 DEF ServerTypes
<1>6. ASSUME NEW d \in Clients, NEW i \in DOMAIN toServer'[d]
      PROVE  \/ d = c /\ toServer'[d][i] = r
             \/ i \in DOMAIN toServer[d] /\ toServer'[d][i] = toServer[d][i]
  <2>1. CASE d = c
    <3>1. /\ DOMAIN toServer'[c] = 1..(Len(toServer[c]) + 1)
          /\ DOMAIN toServer[c] = 1..Len(toServer[c]) /\ Len(toServer[c]) \in Nat
          /\ toServer'[c][Len(toServer[c]) + 1] = r
          /\ \A k \in 1..Len(toServer[c]) : toServer'[c][k] = toServer[c][k]
      BY <1>3, AppendOf
    <3> QED BY <2>1, <3>1
  <2>2. CASE d # c
    BY <1>3, <2>2
  <2> QED BY <2>1, <2>2
<1>7. ASSUME NEW d \in Clients, NEW p \in known'[d] PROVE outcome'[p] # "new"
  <2>1. p \in Operations /\ (p = o \/ p \in known[d])
    BY <1>4, <1>7 DEF ServerTypes
  <2>2. p \in known[d] => outcome[p] # "new"
    BY DEF KnownInv
  <2> QED BY <1>5, <2>1, <2>2
<1>8. ASSUME NEW d \in Clients, NEW e \in Clients, NEW i \in DOMAIN toServer'[d], d # e,
             toServer'[d][i].type = "runOperation"
      PROVE  toServer'[d][i].op \notin known'[e]
  <2>1. CASE d = c /\ toServer'[d][i] = r
    <3>1. known'[e] = known[e] /\ o \notin known[e]
      BY <1>1, <1>4, <1>8, <2>1 DEF KnownInv
    <3> QED BY <1>2, <2>1, <3>1
  <2>2. CASE i \in DOMAIN toServer[d] /\ toServer'[d][i] = toServer[d][i]
    <3>1. toServer[d][i].op \notin known[e]
      BY <1>8, <2>2 DEF KnownInv
    <3>2. outcome[toServer[d][i].op] = "asked"
      BY <1>8, <2>2 DEF OrderInv, AskedOnce
    <3> QED BY <1>1, <1>4, <2>2, <3>1, <3>2
  <2> QED BY <1>6, <1>8, <2>1, <2>2
<1> QED BY <1>7, <1>8 DEF KnownInv

LEMMA KnownReceived ==
  ASSUME ServerTypes, NEW c \in Clients, toServer[c] # <<>>,
         toServer' = [toServer EXCEPT ![c] = Tail(@)]
  PROVE  \A d \in Clients : \A i \in DOMAIN toServer'[d] :
           \E j \in DOMAIN toServer[d] : toServer[d][j] = toServer'[d][i]
<1> DEFINE rest == Tail(toServer[c])
           n == Len(toServer[c])
<1>1. toServer[c] \in Seq(Requests) /\ toServer'[c] = rest
      /\ \A d \in Clients \ {c} : toServer'[d] = toServer[d]
  BY DEF ServerTypes
<1>2. /\ n \in Nat /\ DOMAIN rest = 1..(n - 1) /\ DOMAIN toServer[c] = 1..n
      /\ \A k \in 1..(n - 1) : rest[k] = toServer[c][k + 1]
  BY <1>1, TailOf
<1> HIDE DEF rest, n
<1>3. ASSUME NEW i \in DOMAIN rest
      PROVE  \E j \in DOMAIN toServer[c] : toServer[c][j] = rest[i]
  <2>1. i + 1 \in DOMAIN toServer[c] /\ rest[i] = toServer[c][i + 1]
    BY <1>2
  <2> QED BY <2>1
<1> QED BY <1>1, <1>3

LEMMA KnownStep ==
  ASSUME ServerTypes, OrderInv, ChannelInv, KnownInv, [Next]_vars
  PROVE  KnownInv'
<1>1. ASSUME NEW c \in Clients, NEW o \in Operations, RunOperation(c, o) PROVE KnownInv'
  BY <1>1, KnownAsk
<1>2. outcome' = outcome => \A o \in Operations : outcome[o] # "new" => outcome'[o] # "new"
  OBVIOUS
<1>3. known' = known => \A c \in Clients : known'[c] \subseteq known[c]
  OBVIOUS
<1>4. toServer' = toServer =>
        \A c \in Clients : \A i \in DOMAIN toServer'[c] :
          \E j \in DOMAIN toServer[c] : toServer[c][j] = toServer'[c][i]
  OBVIOUS
<1>5. ASSUME NEW c \in Clients, AbortOperation(c) PROVE KnownInv'
  <2>1. outcome' = outcome /\ known' = known
    BY <1>5, AbortEffect
  <2>2. PICK r \in Requests : /\ r.type = "abortRunningOperation"
                             /\ toServer' = [toServer EXCEPT ![c] = Append(@, r)]
    BY <1>5, AbortEffect
  <2>3. /\ toServer[c] \in Seq(Requests) /\ toServer'[c] = Append(toServer[c], r)
        /\ \A d \in Clients \ {c} : toServer'[d] = toServer[d]
    BY <2>2 DEF ServerTypes
  <2>4. ASSUME NEW i \in DOMAIN toServer'[c], toServer'[c][i].type = "runOperation"
        PROVE  \E j \in DOMAIN toServer[c] : toServer[c][j] = toServer'[c][i]
    <3>1. /\ DOMAIN toServer'[c] = 1..(Len(toServer[c]) + 1)
          /\ DOMAIN toServer[c] = 1..Len(toServer[c]) /\ Len(toServer[c]) \in Nat
          /\ toServer'[c][Len(toServer[c]) + 1] = r
          /\ \A k \in 1..Len(toServer[c]) : toServer'[c][k] = toServer[c][k]
      BY <2>3, AppendOf
    <3> QED BY <2>2, <2>4, <3>1
  <2> QED BY <1>2, <1>3, <2>1, <2>3, <2>4, KnownKept
<1>6. ASSUME NEW c \in Clients, ReceiveProgress(c) PROVE KnownInv'
  <2>1. outcome' = outcome /\ toServer' = toServer
    BY <1>6, ProgressEffect
  <2>2. \A d \in Clients : known'[d] \subseteq known[d]
    <3>1. known' = [known EXCEPT ![c] =
                      IF toClient[c][1].kind = "exit" THEN @ \ {toClient[c][1].op} ELSE @]
      BY <1>6, ProgressTells
    <3> QED BY <3>1 DEF ServerTypes
  <2> QED BY <1>2, <1>4, <2>1, <2>2, KnownKept
<1>7. ASSUME NEW c \in Clients, ReceiveRun(c) PROVE KnownInv'
  <2>1. \A o \in Operations : outcome[o] # "new" => outcome'[o] # "new"
    <3>1. \E new \in {"waiting", "alive"} : outcome' = [outcome EXCEPT ![toServer[c][1].op] = new]
      BY <1>7, RunEffect
    <3> QED BY <3>1 DEF ServerTypes
  <2>2. toServer[c] # <<>> /\ toServer' = [toServer EXCEPT ![c] = Tail(@)] /\ known' = known
    BY <1>7, RunEffect DEF ReceiveRun, client
  <2> QED BY <1>3, <2>1, <2>2, KnownReceived, KnownKept
<1>8. ASSUME NEW c \in Clients, ReceiveAbort(c) PROVE KnownInv'
  <2>1. /\ toServer[c] # <<>> /\ toServer' = [toServer EXCEPT ![c] = Tail(@)]
        /\ known' = known /\ outcome' = outcome
    BY <1>8, ReceiveAbortEffect
  <2> QED BY <1>2, <1>3, <2>1, KnownReceived, KnownKept
<1>9. ASSUME Exit(0) \/ Exit(1) \/ Killed PROVE KnownInv'
  <2>1. known' = known /\ toServer' = toServer
        /\ \E new \in {"ok", "bad"} : outcome' = [outcome EXCEPT ![running] = new]
    BY <1>9, ExitEffect
  <2> QED BY <1>3, <1>4, <2>1, KnownKept DEF ServerTypes
<1>10. ASSUME Succeed PROVE KnownInv'
  <2>1. known' = known /\ toServer' = toServer
    BY <1>10, SucceedEffect
  <2>2. \A o \in Operations : outcome[o] # "new" => outcome'[o] # "new"
    <3>1. CASE queue = <<>>
      BY <1>10, <3>1, SucceedEffect DEF ServerTypes
    <3>2. CASE queue # <<>>
      <4>1. outcome' = [[outcome EXCEPT ![running] = "done"] EXCEPT ![queue[1]] = "alive"]
        BY <1>10, <3>2, SucceedEffect
      <4> QED BY <4>1 DEF ServerTypes
    <3> QED BY <3>1, <3>2
  <2> QED BY <1>3, <1>4, <2>1, <2>2, KnownKept
<1>11. ASSUME Fail PROVE KnownInv'
  <2>1. known' = known /\ toServer' = toServer
    BY <1>11, FailEffect
  <2>2. \A o \in Operations : outcome[o] # "new" => outcome'[o] # "new"
    <3>1. /\ outcome'[running] = "failed"
          /\ \A o \in Operations \ {running} : outcome'[o] \in {outcome[o], "dropped"}
      BY <1>11, FailEffect
    <3> QED BY <3>1
  <2> QED BY <1>3, <1>4, <2>1, <2>2, KnownKept
<1>12. CASE UNCHANGED vars
  BY <1>2, <1>3, <1>4, <1>12, KnownKept DEF vars, server, client
<1> QED BY <1>1, <1>5, <1>6, <1>7, <1>8, <1>9, <1>10, <1>11, <1>12 DEF Next, Receive, Settle

----------------------------------------------------------------------------
\* Whichever of its messages are on their way, the window the server reports
\* to will show what it knows of the queue.
ShownInv ==
  /\ reporter \in Clients /\ DOMAIN shown = Clients
  /\ IsShown(toClient[reporter], toServer[reporter], queue,
             shown[reporter], known[reporter], HasFailed)

LEMMA AsksAfterAppend ==
  ASSUME NEW s \in Seq(Requests), NEW r \in Requests,
         Asks(s) \/ r.type = "runOperation"
  PROVE  Asks(Append(s, r))
<1> DEFINE more == Append(s, r)
           n == Len(s)
<1>1. /\ n \in Nat /\ DOMAIN s = 1..n /\ DOMAIN more = 1..(n + 1) /\ more[n + 1] = r
      /\ \A k \in 1..n : more[k] = s[k]
  BY AppendOf
<1> HIDE DEF more, n
<1>2. CASE r.type = "runOperation"
  BY <1>1, <1>2 DEF Asks, more
<1>3. CASE Asks(s)
  <2>1. PICK i \in DOMAIN s : s[i].type = "runOperation"
    BY <1>3 DEF Asks
  <2>2. i \in DOMAIN more /\ more[i].type = "runOperation"
    BY <1>1, <2>1
  <2> QED BY <2>2 DEF Asks, more
<1> QED BY <1>2, <1>3

LEMMA AsksAfterTail ==
  ASSUME NEW s \in Seq(Requests), s # <<>>, s[1].type # "runOperation", Asks(s)
  PROVE  Asks(Tail(s))
<1> DEFINE rest == Tail(s)
           n == Len(s)
<1>1. /\ n \in Nat \ {0} /\ DOMAIN rest = 1..(n - 1) /\ DOMAIN s = 1..n
      /\ \A i \in 1..(n - 1) : rest[i] = s[i + 1]
  BY TailOf
<1> HIDE DEF rest, n
<1>2. PICK i \in DOMAIN s : s[i].type = "runOperation"
  BY DEF Asks
<1>3. i - 1 \in DOMAIN rest /\ (i - 1) + 1 = i /\ i - 1 \in 1..(n - 1)
  BY <1>1, <1>2
<1>4. rest[i - 1].type = "runOperation"
  BY <1>1, <1>2, <1>3
<1> QED BY <1>3, <1>4 DEF Asks, rest

LEMMA ShownAsk ==
  ASSUME ServerTypes, OrderInv, ChannelInv, ShownInv,
         NEW c \in Clients, NEW o \in Operations, RunOperation(c, o)
  PROVE  ShownInv'
<1> DEFINE r == reporter
<1>1. /\ outcome[o] = "new" /\ outcome' = [outcome EXCEPT ![o] = "asked"]
      /\ running' = running /\ queue' = queue
      /\ known' = [known EXCEPT ![c] = @ \cup {o}]
  BY AskEffect
<1>2. PICK q \in Requests : /\ q.op = o /\ q.type = "runOperation"
                           /\ toServer' = [toServer EXCEPT ![c] = Append(@, q)]
  BY AskEffect
<1>3. /\ toClient' = toClient /\ reporter' = reporter /\ DOMAIN shown' = Clients
      /\ \A d \in Clients : d # c => shown'[d] = shown[d]
  BY AskTells DEF ShownInv
<1>4. HasFailed' <=> HasFailed
  <2>1. running # None => running \in Operations /\ running # o
    BY <1>1 DEF OrderInv, Ordered, OneRuns, Active, ServerTypes
  <2> QED BY <1>1, <2>1 DEF HasFailed, ServerTypes
<1>5. CASE c # reporter
  <2>1. /\ toServer'[r] = toServer[r] /\ known'[r] = known[r] /\ shown'[r] = shown[r]
        /\ toClient'[r] = toClient[r]
    BY <1>1, <1>2, <1>3, <1>5 DEF ShownInv, ServerTypes
  <2> QED BY <1>1, <1>3, <1>4, <2>1 DEF ShownInv
<1>6. CASE c = reporter
  <2>1. /\ toServer[r] \in Seq(Requests) /\ toServer'[r] = Append(toServer[r], q)
        /\ known'[r] = known[r] \cup {o} /\ r \in Clients
    BY <1>1, <1>2, <1>6 DEF ServerTypes
  <2>2. Asks(toServer'[r])
    BY <1>2, <2>1, AsksAfterAppend
  <2>3. KnownAmong(queue', known'[r]) = KnownAmong(queue, known[r])
    <3>1. queue \in Seq(Operations) /\ \A k \in DOMAIN queue : queue[k] # o
      BY <1>1 DEF OrderInv, Ordered, QueueInOrder, ServerTypes
    <3>2. \A k \in DOMAIN queue : queue[k] \in known[r] <=> queue[k] \in known'[r]
      BY <2>1, <3>1
    <3>3. KnownAmong(queue, known'[r]) = KnownAmong(queue, known[r])
      BY <3>1, <3>2, SameKnown
    <3> QED BY <1>1, <3>3
  <2>4. ASSUME NEW k \in DOMAIN toClient[r]
        PROVE  KnownAmong(toClient[r][k].queue, known'[r]) = KnownAmong(toClient[r][k].queue, known[r])
    <3>1. toClient[r] \in Seq(Messages) /\ RightChannel(toClient[r], outcome)
      BY <2>1 DEF ChannelInv
    <3>2. toClient[r][k].queue \in Seq(Operations)
      BY <3>1, MessageNames
    <3>3. \A i \in DOMAIN toClient[r][k].queue : toClient[r][k].queue[i] # o
      BY <1>1, <3>1 DEF RightChannel
    <3>4. \A i \in DOMAIN toClient[r][k].queue :
            toClient[r][k].queue[i] \in known[r] <=> toClient[r][k].queue[i] \in known'[r]
      BY <2>1, <3>3
    <3> QED BY <3>2, <3>4, SameKnown
  <2>5. IsShown(toClient[r], toServer[r], queue, shown[r], known[r], HasFailed)
    BY DEF ShownInv
  <2>6. IsShown(toClient[r], toServer'[r], queue', shown'[r], known'[r], HasFailed')
    BY <1>4, <2>2, <2>3, <2>4, <2>5, WordStays
  <2> QED BY <1>3, <2>1, <2>6 DEF ShownInv
<1> QED BY <1>5, <1>6

LEMMA ShownAbort ==
  ASSUME ServerTypes, ShownInv, NEW c \in Clients, AbortOperation(c) \/ ReceiveAbort(c)
  PROVE  ShownInv'
<1> DEFINE r == reporter
<1>1. toClient' = toClient /\ reporter' = reporter /\ shown' = shown
  BY AbortTells
<1>2. running' = running /\ queue' = queue /\ outcome' = outcome /\ known' = known
  BY AbortEffect, ReceiveAbortEffect
<1>3. Asks(toServer[r]) => Asks(toServer'[r])
  <2>1. CASE AbortOperation(c)
    <3>1. PICK q \in Requests : toServer' = [toServer EXCEPT ![c] = Append(@, q)]
      BY <2>1, AbortEffect
    <3>2. /\ toServer[r] \in Seq(Requests)
          /\ toServer'[r] = toServer[r] \/ toServer'[r] = Append(toServer[r], q)
      BY <3>1 DEF ServerTypes, ShownInv
    <3> QED BY <3>2, AsksAfterAppend
  <2>2. CASE ReceiveAbort(c)
    <3>1. /\ toServer[c] \in Seq(Requests) /\ toServer[c] # <<>>
          /\ toServer[c][1].type = "abortRunningOperation"
          /\ toServer' = [toServer EXCEPT ![c] = Tail(@)]
      BY <2>2, ReceiveAbortEffect
    <3>2. CASE c = r
      <4>1. toServer'[r] = Tail(toServer[r])
        BY <3>1, <3>2 DEF ServerTypes
      <4>2. Asks(toServer[c]) => Asks(Tail(toServer[c]))
        BY <3>1, AsksAfterTail
      <4> QED BY <3>2, <4>1, <4>2
    <3>3. CASE c # r
      BY <3>1, <3>3 DEF ServerTypes, ShownInv
    <3> QED BY <3>2, <3>3
  <2> QED BY <2>1, <2>2
<1>4. HasFailed' <=> HasFailed
  BY <1>2 DEF HasFailed
<1>5. IsShown(toClient[r], toServer[r], queue, shown[r], known[r], HasFailed)
  BY DEF ShownInv
<1>6. IsShown(toClient[r], toServer'[r], queue, shown[r], known[r], HasFailed)
  BY <1>3, <1>5, WordStays
<1> QED BY <1>1, <1>2, <1>4, <1>6 DEF ShownInv

\* What a window shows after a message.
LEMMA ShownAfterIs ==
  ASSUME NEW c, NEW m \in Messages
  PROVE  /\ m.kind \in {"queue", "spawn"} => ShownAfter(c, m) = KnownAmong(m.queue, known[c])
         /\ m.kind = "error" => ShownAfter(c, m) = <<>>
         /\ m.kind = "exit" /\ m.exitCode # 0 => ShownAfter(c, m) = <<>>
         /\ m.kind = "exit" /\ m.exitCode = 0 => ShownAfter(c, m) = shown[c]
BY Zenon DEF ShownAfter

LEMMA ShownProgress ==
  ASSUME ServerTypes, OrderInv, ChannelInv, ShownInv, NEW c \in Clients, ReceiveProgress(c)
  PROVE  ShownInv'
<1> DEFINE r == reporter
           m == toClient[c][1]
<1>1. /\ running' = running /\ queue' = queue /\ outcome' = outcome /\ toServer' = toServer
      /\ HasFailed' <=> HasFailed
  BY ProgressEffect DEF HasFailed
<1>2. /\ toClient[c] # <<>> /\ toClient' = [toClient EXCEPT ![c] = Tail(@)]
      /\ reporter' = reporter
      /\ shown' = [shown EXCEPT ![c] = ShownAfter(c, m)]
      /\ known' = [known EXCEPT ![c] = IF m.kind = "exit" THEN @ \ {m.op} ELSE @]
  BY ProgressTells
<1>3. DOMAIN shown' = Clients
  BY <1>2 DEF ShownInv
<1>4. IsShown(toClient[r], toServer[r], queue, shown[r], known[r], HasFailed)
  BY DEF ShownInv
<1>5. CASE c # reporter
  <2>1. known'[r] = known[r] /\ shown'[r] = shown[r] /\ toClient'[r] = toClient[r]
    BY <1>2, <1>5 DEF ShownInv, ServerTypes, ChannelInv
  <2> QED BY <1>1, <1>2, <1>3, <1>4, <2>1 DEF ShownInv
<1>6. CASE c = reporter
  <2>1. /\ toClient[r] \in Seq(Messages) /\ RightChannel(toClient[r], outcome)
        /\ toClient[r] # <<>> /\ toClient'[r] = Tail(toClient[r])
        /\ m = toClient[r][1]
    BY <1>2, <1>6 DEF ChannelInv
  <2>2. 1 \in DOMAIN toClient[r] /\ m \in Messages
    BY <2>1, TailOf
  <2>3. shown'[r] = ShownAfter(r, m)
    BY <1>2, <1>6 DEF ShownInv
  <2>4. known'[r] = IF m.kind = "exit" THEN known[r] \ {m.op} ELSE known[r]
    BY <1>2, <1>6 DEF ServerTypes
  <2> HIDE DEF m
  <2>5. KnownAmong(queue, known'[r]) = KnownAmong(queue, known[r])
    <3>1. m.kind = "exit" => outcome[m.op] # "waiting"
      BY <2>1, <2>2 DEF RightChannel
    <3>2. queue \in Seq(Operations) /\ \A k \in DOMAIN queue : outcome[queue[k]] = "waiting"
      BY DEF OrderInv, Ordered, QueueInOrder, ServerTypes
    <3>3. \A k \in DOMAIN queue : queue[k] \in known[r] <=> queue[k] \in known'[r]
      BY <2>4, <3>1, <3>2
    <3> QED BY <3>2, <3>3, SameKnown
  <2>6. ASSUME NEW k \in DOMAIN toClient[r], k > 1
        PROVE  KnownAmong(toClient[r][k].queue, known'[r]) = KnownAmong(toClient[r][k].queue, known[r])
    <3>1. toClient[r][k].queue \in Seq(Operations)
      BY <2>1, MessageNames
    <3>2. m.kind = "exit" =>
            \A i \in DOMAIN toClient[r][k].queue : toClient[r][k].queue[i] # m.op
      BY <2>1, <2>2, <2>6 DEF RightChannel
    <3>3. \A i \in DOMAIN toClient[r][k].queue :
            toClient[r][k].queue[i] \in known[r] <=> toClient[r][k].queue[i] \in known'[r]
      BY <2>4, <3>2
    <3> QED BY <3>1, <3>3, SameKnown
  <2>7. m.kind \in {"queue", "spawn", "exit", "error"}
    BY <2>2 DEF Messages
  <2>8. Tells(m) => /\ m.kind \in {"queue", "spawn"} => shown'[r] = KnownAmong(m.queue, known[r])
                    /\ m.kind \notin {"queue", "spawn"} => shown'[r] = <<>>
    BY <2>2, <2>3, <2>7, ShownAfterIs DEF Tells
  <2>9. ~Tells(m) => shown'[r] = shown[r]
    BY <2>2, <2>3, <2>7, ShownAfterIs DEF Tells
  <2>10. IsShown(Tail(toClient[r]), toServer[r], queue, shown'[r], known'[r], HasFailed)
    BY <1>4, <2>1, <2>5, <2>6, <2>8, <2>9, WordReceived
  <2> QED BY <1>1, <1>2, <1>3, <2>1, <2>10 DEF ShownInv
<1> QED BY <1>5, <1>6

LEMMA ShownRun ==
  ASSUME ServerTypes, OrderInv, ChannelInv, KnownInv, ShownInv, NEW c \in Clients, ReceiveRun(c)
  PROVE  ShownInv'
<1> DEFINE r == reporter
           o == toServer[c][1].op
<1>1. /\ toServer[c] \in Seq(Requests) /\ toServer[c] # <<>>
      /\ toServer[c][1].type = "runOperation" /\ o \in Operations
      /\ toServer' = [toServer EXCEPT ![c] = Tail(@)]
  BY RunEffect
<1>2. /\ shown' = shown /\ reporter' = IF running = None THEN c ELSE reporter
      /\ known' = known
  BY RunTells DEF ReceiveRun, client
<1>3. PICK m \in Messages : Post(c, m) /\ m.kind \in {"queue", "spawn"} /\ m.queue = queue'
  BY RunTells
<1>4. /\ toClient[c] \in Seq(Messages) /\ toClient'[c] = Append(toClient[c], m)
      /\ \A d \in Clients \ {c} : toClient'[d] = toClient[d]
  BY <1>3, PostedTo DEF ChannelInv
<1>5. CASE reporter' = c
  <2>1. Tells(m) /\ Told(m, queue', known'[c], HasFailed')
    BY <1>3 DEF Tells, Told
  <2>2. IsShown(toClient'[c], toServer'[c], queue', shown'[c], known'[c], HasFailed')
    BY <1>4, <2>1, NewWord
  <2> QED BY <1>2, <1>5, <2>2 DEF ShownInv
<1>6. CASE reporter' # c
  <2>1. running # None /\ reporter' = r /\ r # c /\ r \in Clients
    BY <1>2, <1>6 DEF ShownInv
  <2>2. /\ running' = running /\ queue' = Append(queue, o)
        /\ outcome' = [outcome EXCEPT ![o] = "waiting"]
    BY <2>1, RunEffect
  <2>3. 1 \in DOMAIN toServer[c]
    BY <1>1, TailOf
  <2>4. outcome[o] = "asked" /\ o \notin known[r]
    BY <1>1, <2>1, <2>3 DEF OrderInv, AskedOnce, KnownInv
  <2>5. HasFailed' <=> HasFailed
    <3>1. running \in Operations /\ running # o
      BY <2>1, <2>4 DEF OrderInv, Ordered, OneRuns, Active, ServerTypes
    <3> QED BY <2>2, <3>1 DEF HasFailed, ServerTypes
  <2>6. toClient'[r] = toClient[r] /\ toServer'[r] = toServer[r]
    BY <1>1, <1>4, <2>1 DEF ServerTypes
  <2>7. KnownAmong(queue', known'[r]) = KnownAmong(queue, known[r])
    <3>1. queue \in Seq(Operations)
      BY DEF ServerTypes
    <3>2. KnownAmong(Append(queue, o), known[r]) = KnownAmong(queue, known[r])
      BY <1>1, <2>4, <3>1, UnknownIsLeftOut
    <3> QED BY <1>2, <2>2, <3>2
  <2>8. IsShown(toClient[r], toServer[r], queue, shown[r], known[r], HasFailed)
    BY DEF ShownInv
  <2>9. IsShown(toClient[r], toServer[r], queue', shown[r], known'[r], HasFailed)
    BY <1>2, <2>7, <2>8, WordStays
  <2> QED BY <1>2, <2>1, <2>5, <2>6, <2>9 DEF ShownInv
<1> QED BY <1>5, <1>6

LEMMA ShownExit ==
  ASSUME ServerTypes, ChannelInv, ShownInv, Exit(0) \/ Exit(1) \/ Killed
  PROVE  ShownInv'
<1> DEFINE r == reporter
<1>1. /\ running \in Operations /\ outcome[running] = "alive"
      /\ running' = running /\ queue' = queue /\ toServer' = toServer /\ known' = known
  BY ExitEffect
<1>2. PICK m \in Messages :
        /\ Post(r, m) /\ m.kind = "exit" /\ m.op = running /\ m.queue = <<>>
        /\ m.exitCode # 0 => outcome'[running] = "bad"
  BY ExitTells
<1>3. shown' = shown /\ reporter' = reporter
  BY ExitTells
<1>4. toClient[r] \in Seq(Messages) /\ toClient'[r] = Append(toClient[r], m)
  BY <1>2, PostedTo DEF ChannelInv, ShownInv
<1>5. HasFailed = FALSE
  BY <1>1 DEF HasFailed
<1>6. CASE m.exitCode # 0
  <2>1. Tells(m) /\ HasFailed'
    BY <1>1, <1>2, <1>6, NoneIsNoOperation DEF Tells, HasFailed
  <2>2. Told(m, queue, known[r], HasFailed')
    BY <1>2, <2>1 DEF Told
  <2>3. IsShown(Append(toClient[r], m), toServer[r], queue, shown[r], known[r], HasFailed')
    BY <1>4, <2>1, <2>2, NewWord
  <2> QED BY <1>1, <1>3, <1>4, <2>3 DEF ShownInv
<1>7. CASE m.exitCode = 0
  <2>1. ~Tells(m)
    BY <1>2, <1>7 DEF Tells
  <2>2. IsShown(toClient[r], toServer[r], queue, shown[r], known[r], FALSE)
    BY <1>5 DEF ShownInv
  <2>3. IsShown(Append(toClient[r], m), toServer[r], queue, shown[r], known[r], HasFailed')
    BY <1>4, <2>1, <2>2, NoNewWord
  <2> QED BY <1>1, <1>3, <1>4, <2>3 DEF ShownInv
<1> QED BY <1>6, <1>7

LEMMA ShownSucceed ==
  ASSUME ServerTypes, ChannelInv, ShownInv, Succeed
  PROVE  ShownInv'
<1> DEFINE r == reporter
<1>1. /\ outcome[running] = "ok" /\ toServer' = toServer /\ known' = known
      /\ queue = <<>> => queue' = queue
  BY SucceedEffect
<1>2. shown' = shown /\ reporter' = reporter
  BY SucceedTells
<1>3. CASE queue = <<>> /\ toClient' = toClient
  <2>1. HasFailed = FALSE
    BY <1>1 DEF HasFailed
  <2>2. IsShown(toClient[r], toServer[r], queue, shown[r], known[r], FALSE)
    BY <2>1 DEF ShownInv
  <2>3. IsShown(toClient[r], toServer[r], queue, shown[r], known[r], HasFailed')
    BY <2>2, WordStays
  <2> QED BY <1>1, <1>2, <1>3, <2>3 DEF ShownInv
<1>4. ASSUME NEW m \in Messages, Post(r, m), m.kind = "spawn", m.queue = queue'
      PROVE  ShownInv'
  <2>1. toClient[r] \in Seq(Messages) /\ toClient'[r] = Append(toClient[r], m)
    BY <1>4, PostedTo DEF ChannelInv, ShownInv
  <2>2. Tells(m) /\ Told(m, queue', known[r], HasFailed')
    BY <1>4 DEF Tells, Told
  <2>3. IsShown(Append(toClient[r], m), toServer[r], queue', shown[r], known[r], HasFailed')
    BY <2>1, <2>2, NewWord
  <2> QED BY <1>1, <1>2, <2>1, <2>3 DEF ShownInv
<1> QED BY <1>3, <1>4, SucceedTells

LEMMA ShownFail ==
  ASSUME ServerTypes, ChannelInv, ShownInv, Fail
  PROVE  ShownInv'
<1> DEFINE r == reporter
<1>1. queue' = <<>> /\ toServer' = toServer /\ known' = known
  BY FailEffect
<1>2. PICK m \in Messages : Post(r, m) /\ m.kind = "error" /\ m.queue = <<>>
  BY FailTells
<1>3. shown' = shown /\ reporter' = reporter
  BY FailTells
<1>4. toClient[r] \in Seq(Messages) /\ toClient'[r] = Append(toClient[r], m)
  BY <1>2, PostedTo DEF ChannelInv, ShownInv
<1>5. Tells(m) /\ Told(m, queue', known[r], HasFailed')
  BY <1>1, <1>2, NoneAreKnown DEF Tells, Told
<1>6. IsShown(Append(toClient[r], m), toServer[r], queue', shown[r], known[r], HasFailed')
  BY <1>4, <1>5, NewWord
<1> QED BY <1>1, <1>3, <1>4, <1>6 DEF ShownInv

LEMMA ShownStep ==
  ASSUME ServerTypes, OrderInv, ChannelInv, KnownInv, ShownInv, [Next]_vars
  PROVE  ShownInv'
<1>1. CASE UNCHANGED vars
  BY <1>1 DEF vars, server, client, ShownInv, HasFailed
<1>2. CASE \E c \in Clients, o \in Operations : RunOperation(c, o)
  BY <1>2, ShownAsk
<1>3. CASE \E c \in Clients : AbortOperation(c)
  BY <1>3, ShownAbort
<1>4. CASE \E c \in Clients : Receive(c)
  BY <1>4, ShownProgress, ShownRun, ShownAbort DEF Receive
<1>5. CASE Settle
  BY <1>5, ShownExit, ShownSucceed, ShownFail DEF Settle
<1> QED BY <1>1, <1>2, <1>3, <1>4, <1>5 DEF Next

LEMMA ShownInit == Init => ChannelInv /\ KnownInv /\ ShownInv
<1> SUFFICES ASSUME Init PROVE ChannelInv /\ KnownInv /\ ShownInv
  OBVIOUS
<1>1. /\ reporter \in Clients /\ queue = <<>> /\ running = None /\ DOMAIN shown = Clients
      /\ \A c \in Clients : /\ toClient[c] = <<>> /\ toServer[c] = <<>>
                            /\ shown[c] = <<>> /\ known[c] = {}
      /\ toClient \in [Clients -> Seq(Messages)]
  BY DEF Init
<1>2. ChannelInv /\ KnownInv
  BY <1>1 DEF ChannelInv, KnownInv, RightChannel
<1>3. KnownAmong(queue, known[reporter]) = shown[reporter]
  BY <1>1, NoneAreKnown
<1>4. \A k : ~LastWord(toClient[reporter], k)
  BY <1>1 DEF LastWord
<1>5. IsShown(toClient[reporter], toServer[reporter], queue,
              shown[reporter], known[reporter], HasFailed)
  BY <1>3, <1>4 DEF IsShown
<1> QED BY <1>1, <1>2, <1>5 DEF ShownInv

\* Once the messages have been received, the window the server reports to
\* shows the queue of the server, as far as it knows the operations in it: no
\* operation it queued before the server answered stays there, nor one that an
\* error dropped.
THEOREM ShownQueuesAreReal == Spec => []ShownQueueIsReal
<1>1. Init => ChannelInv /\ KnownInv /\ ShownInv
  BY ShownInit
<1>2. /\ ServerTypes /\ OrderInv /\ ServerTypes' /\ OrderInv'
      /\ ChannelInv /\ KnownInv /\ ShownInv /\ [Next]_vars
      => ChannelInv' /\ KnownInv' /\ ShownInv'
  <2>1. ShownInv => reporter \in Clients
    BY DEF ShownInv
  <2> QED BY <2>1, ChannelStep, KnownStep, ShownStep
<1>3. ServerTypes /\ ShownInv => ShownQueueIsReal
  <2> SUFFICES ASSUME ServerTypes, ShownInv, AtRest
               PROVE  shown[reporter] = KnownAmong(queue, known[reporter])
    BY DEF ShownQueueIsReal
  <2>1. reporter \in Clients /\ toClient[reporter] = <<>> /\ toServer[reporter] = <<>>
    BY DEF AtRest, ShownInv
  <2>2. ~HasFailed /\ ~Asks(toServer[reporter])
    BY <2>1 DEF AtRest, HasFailed, Asks
  <2>3. \A k \in DOMAIN toClient[reporter] : ~Tells(toClient[reporter][k])
    BY <2>1
  <2> QED BY <2>2, <2>3 DEF ShownInv, IsShown
<1> QED BY <1>1, <1>2, <1>3, OrderIsInductive, PTL DEF Spec
=============================================================================
