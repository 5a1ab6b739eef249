----------------------------- MODULE MessageBus -----------------------------
(***************************************************************************)
(* A GTI window in a browser and its connection to the server.             *)
(*                                                                         *)
(* LocalWebSocketEventBus opens a WebSocket, keeps the messages posted     *)
(* while there is none, and opens another one when it closes.  After every *)
(* reconnection the effects of the window subscribe again to what they     *)
(* show (onConnectOrReconnect).  The server gives each socket a            *)
(* ServerToClientAPI, which lets messages wait until its Repository is     *)
(* loaded; the Repository publishes what it fetches to all subscriptions.  *)
(* The network may lose a connection at any time: what is on its way may   *)
(* then still arrive or not, what is sent later is lost without an error,  *)
(* and each end is told about it at a time of its own.                     *)
(***************************************************************************)
EXTENDS Naturals, Sequences, FiniteSets, SequencesExt

CONSTANTS
  Effects,      \* the subscriptions of the window
  MaxSockets,   \* bound: sockets the window opens; the last one is never lost
  MaxPosts,     \* bound: messages its users post
  MaxVersions   \* bound: how often the Repository publishes

ASSUME BoundsAreNumbers == {MaxSockets, MaxPosts, MaxVersions} \subseteq Nat

\* A message of the users is a number, a subscribe message an effect.
Posts == 1..MaxPosts

ASSUME EffectsAreNames == IsFiniteSet(Effects) /\ Effects \cap Posts = {}

VARIABLES
  status,          \* the status of the bus
  queuedMessages,  \* its messages that wait for a connection
  timer,           \* whether a reconnection is scheduled
  disposed,        \* whether dispose() was called
  sockets,         \* every WebSocket the window has opened; the last is this.websocket
  reconnecting,    \* the variable of onConnectOrReconnect, for each effect there is
  shown,           \* what the window shows for each subscription
  apis,            \* the server's end of each socket
  version,         \* what the Repository has published last
  tokenIsValid,    \* whether the server is the one the window was opened on
  posted,          \* history: how many messages the users have posted
  sent,            \* history: the socket each of them was sent on
  handled          \* history: the messages the server has handled, in its order

vars == <<status, queuedMessages, timer, disposed, sockets, reconnecting, shown,
          apis, version, tokenIsValid, posted, sent, handled>>

NotSent == 0
this == Len(sockets)

\* toServer and toClient hold what is on its way; toClient holds
\* subscriptionResults.
NewSocket == [state |-> "connecting", toServer |-> <<>>, toClient |-> <<>>]
NoApi     == [state |-> "none", queuedMessages |-> <<>>, subscriptions |-> {}]
ClosedApi == [state |-> "closed", queuedMessages |-> <<>>, subscriptions |-> {}]

Init ==
  /\ status = "initializing" /\ queuedMessages = <<>> /\ timer = FALSE /\ disposed = FALSE
  /\ sockets = <<NewSocket>> /\ apis = <<NoApi>>
  /\ reconnecting = [e \in {} |-> TRUE]
  /\ shown = [e \in Effects |-> 0]
  /\ version = 0 /\ tokenIsValid = TRUE
  /\ posted = 0 /\ sent = [n \in Posts |-> NotSent] /\ handled = <<>>

----------------------------------------------------------------------------
(* The window.                                                             *)

\* WebSocket.send, once for each message.
Send(messages, socket) ==
  [socket EXCEPT !.toServer = IF socket.state = "open" THEN @ \o messages ELSE @]

SentNow(messages) == [n \in Posts |-> IF Contains(messages, n) THEN this ELSE sent[n]]

\* Mutant: only an open connection is good enough, but nothing waits for one.
PostOrForget(message) ==
  /\ sockets' = [sockets EXCEPT ![this] = Send(<<message>>, @)]
  /\ sent' = IF status = "open" THEN SentNow(<<message>>) ELSE sent
  /\ UNCHANGED queuedMessages

PostMessage(message) ==
  IF status = "open"
  THEN /\ sockets' = [sockets EXCEPT ![this] = Send(<<message>>, @)]
       /\ sent' = SentNow(<<message>>)
       /\ UNCHANGED queuedMessages
  ELSE /\ queuedMessages' = Append(queuedMessages, message)
       /\ UNCHANGED <<sockets, sent>>

\* A user does something the server must be told.
Post ==
  /\ posted < MaxPosts
  /\ posted' = posted + 1
  /\ PostMessage(posted + 1)
  /\ UNCHANGED <<status, timer, disposed, reconnecting, shown, apis, version, tokenIsValid, handled>>

\* A part of the window is used for the first time: its effect is told the
\* present status, and subscribes at once if that is "open".
CreateEffect(e) ==
  /\ e \notin DOMAIN reconnecting
  /\ reconnecting' = [x \in DOMAIN reconnecting \cup {e} |->
                       IF x = e THEN status # "open" ELSE reconnecting[x]]
  /\ IF status = "open" THEN PostMessage(e) ELSE UNCHANGED <<sockets, sent, queuedMessages>>
  /\ UNCHANGED <<status, timer, disposed, shown, apis, version, tokenIsValid, posted, handled>>

\* Mutant: an effect asks for its first connection only.
AskingOnce == IF this > 1 THEN {} ELSE DOMAIN reconnecting

\* The effects whose callback is called when the status becomes "open".
Asking == {e \in DOMAIN reconnecting : reconnecting[e]}

\* Mutant: messages are not dequeued when they have been sent.
KeepQueued == UNCHANGED queuedMessages

Dequeue == queuedMessages' = <<>>

\* The "open" event: what waited is sent, then the handlers of the status are
\* called.  The server has accepted the socket, whatever its token.
Opened ==
  /\ sockets[this].state = "connecting"
  /\ LET messages == queuedMessages \o SetToSeq(Asking)
     IN  /\ sockets' = [sockets EXCEPT ![this] = Send(messages, [@ EXCEPT !.state = "open"])]
         /\ sent' = SentNow(messages)
  /\ apis' = [apis EXCEPT ![this].state = IF tokenIsValid THEN "loading" ELSE "rejected"]
  /\ Dequeue
  /\ status' = "open"
  /\ reconnecting' = [e \in DOMAIN reconnecting |-> FALSE]
  /\ UNCHANGED <<timer, disposed, shown, version, tokenIsValid, posted, handled>>

\* The "close" event, and scheduleReconnect unless the server said it is no use
\* or the window gave the bus up.
CloseEvent(reject) ==
  /\ sockets' = [sockets EXCEPT ![this].state = "closed"]
  /\ IF reject THEN status' = "error" /\ UNCHANGED <<timer, reconnecting>>
     ELSE IF disposed THEN UNCHANGED <<status, timer, reconnecting>>
     ELSE /\ status' = "reconnecting" /\ timer' = TRUE
          /\ reconnecting' = [e \in DOMAIN reconnecting |-> TRUE]
  /\ UNCHANGED <<queuedMessages, disposed, shown, apis, version, tokenIsValid,
                 posted, sent, handled>>

\* The connection could not be made, or is known to be lost.
Closed ==
  /\ \/ sockets[this].state = "connecting" /\ this < MaxSockets
     \/ sockets[this].state \in {"broken", "closing"}
  /\ CloseEvent(FALSE)

\* CLOSED_AND_SHOULD_NOT_RECONNECT_CODE: the token was not the server's.
Rejected ==
  /\ sockets[this].state = "open" /\ apis[this].state = "rejected"
  /\ CloseEvent(TRUE)

\* The timer of scheduleReconnect: startConnection.
StartConnection ==
  /\ timer /\ timer' = FALSE
  /\ sockets' = Append(sockets, NewSocket)
  /\ apis' = Append(apis, NoApi)
  /\ UNCHANGED <<status, queuedMessages, disposed, reconnecting, shown, version,
                 tokenIsValid, posted, sent, handled>>

Dispose ==
  /\ ~disposed /\ disposed' = TRUE
  /\ sockets' = [sockets EXCEPT ![this].state = IF @ = "closed" THEN @ ELSE "closing"]
  /\ UNCHANGED <<status, queuedMessages, timer, reconnecting, shown, apis, version,
                 tokenIsValid, posted, sent, handled>>

\* A subscriptionResult.
ReceiveResult ==
  /\ sockets[this].state \in {"open", "broken"} /\ sockets[this].toClient # <<>>
  /\ LET result == Head(sockets[this].toClient)
     IN  shown' = [shown EXCEPT ![result.effect] = result.version]
  /\ sockets' = [sockets EXCEPT ![this].toClient = Tail(@)]
  /\ UNCHANGED <<status, queuedMessages, timer, disposed, reconnecting, apis, version,
                 tokenIsValid, posted, sent, handled>>

----------------------------------------------------------------------------
(* The server.                                                             *)

\* The server's end of socket i is used as long as it has not seen it close.
InUse(i) == apis[i].state \in {"loading", "repo"}

Results(effects, v) == SetToSeq({[effect |-> e, version |-> v] : e \in effects})

Reply(socket, results) ==
  [socket EXCEPT !.toClient = IF socket.state = "open" THEN @ \o results ELSE @]

\* handleIncomingMessageWithRepo for messages: subscribe posts what is known
\* and listens from now on.
Handle(i, messages) ==
  LET effects == ToSet(messages) \ Posts
      rest    == IF apis[i].state = "repo" THEN Tail(sockets[i].toServer)
                 ELSE sockets[i].toServer
  IN  /\ apis' = [apis EXCEPT ![i] =
           [state |-> "repo", queuedMessages |-> <<>>,
            subscriptions |-> apis[i].subscriptions \cup effects]]
      /\ sockets' = [sockets EXCEPT ![i] =
           Reply([sockets[i] EXCEPT !.toServer = rest],
                 Results(IF version = 0 THEN {} ELSE effects, version))]
      /\ handled' = handled \o messages

QueueWhileLoading(i, message) ==
  apis' = [apis EXCEPT ![i].queuedMessages = Append(@, message)]

\* connection.onDidReceiveMessage.
ServerReceives(i) ==
  /\ InUse(i) /\ sockets[i].toServer # <<>>
  /\ IF apis[i].state = "repo" THEN Handle(i, <<Head(sockets[i].toServer)>>)
     ELSE /\ QueueWhileLoading(i, Head(sockets[i].toServer))
          /\ sockets' = [sockets EXCEPT ![i].toServer = Tail(@)]
          /\ UNCHANGED handled
  /\ UNCHANGED <<status, queuedMessages, timer, disposed, reconnecting, shown, version,
                 tokenIsValid, posted, sent>>

\* setCurrentRepo and processQueuedMessages.
RepositoryLoaded(i) ==
  /\ apis[i].state = "loading"
  /\ Handle(i, apis[i].queuedMessages)
  /\ UNCHANGED <<status, queuedMessages, timer, disposed, reconnecting, shown, version,
                 tokenIsValid, posted, sent>>

\* The Repository has fetched something new.
Publish ==
  /\ version < MaxVersions
  /\ version' = version + 1
  /\ sockets' = [i \in DOMAIN sockets |->
                  IF InUse(i) THEN Reply(sockets[i], Results(apis[i].subscriptions, version'))
                  ELSE sockets[i]]
  /\ UNCHANGED <<status, queuedMessages, timer, disposed, reconnecting, shown, apis,
                 tokenIsValid, posted, sent, handled>>

\* The server is told that a socket has closed: ServerToClientAPI.dispose.
ServerCloses(i) ==
  /\ InUse(i) /\ sockets[i].state \in {"broken", "closing", "closed"}
  /\ apis' = [apis EXCEPT ![i] = ClosedApi]
  /\ UNCHANGED <<status, queuedMessages, timer, disposed, sockets, reconnecting, shown,
                 version, tokenIsValid, posted, sent, handled>>

----------------------------------------------------------------------------
(* The network and the server's process.                                   *)

Break ==
  /\ this < MaxSockets /\ sockets[this].state = "open"
  /\ sockets' = [sockets EXCEPT ![this].state = "broken"]
  /\ UNCHANGED <<status, queuedMessages, timer, disposed, reconnecting, shown, apis,
                 version, tokenIsValid, posted, sent, handled>>

\* The server is stopped and another one, with a token of its own, started.
RestartServer ==
  /\ this < MaxSockets /\ tokenIsValid /\ tokenIsValid' = FALSE
  /\ sockets' = [sockets EXCEPT ![this].state = IF @ = "open" THEN "broken" ELSE @]
  /\ apis' = [i \in DOMAIN apis |-> IF InUse(i) THEN ClosedApi ELSE apis[i]]
  /\ UNCHANGED <<status, queuedMessages, timer, disposed, reconnecting, shown, version,
                 posted, sent, handled>>

Next ==
  \/ Post \/ Opened \/ Closed \/ Rejected \/ StartConnection \/ Dispose \/ ReceiveResult
  \/ \E e \in Effects : CreateEffect(e)
  \/ \E i \in DOMAIN sockets : ServerReceives(i) \/ RepositoryLoaded(i) \/ ServerCloses(i)
  \/ Publish \/ Break \/ RestartServer

\* Timers and events of the sockets come in the end, a message on a connection
\* that lasts arrives, and the Repository of a connection that lasts is loaded.
\* Nothing is assumed of the users, and not that the network is ever at fault.
Fairness ==
  /\ WF_vars(Opened \/ Closed \/ Rejected) /\ WF_vars(StartConnection)
  /\ WF_vars(ReceiveResult)
  /\ WF_vars(\E i \in DOMAIN sockets : i = this /\ (ServerReceives(i) \/ RepositoryLoaded(i)))

Spec == Init /\ [][Next]_vars /\ Fairness

----------------------------------------------------------------------------
(* What must be true of it.                                                *)

\* However often the connection is lost, no message is handled twice, and those
\* that went over one connection are handled in the order they were posted.
AtMostOnceInOrder ==
  \A i, j \in DOMAIN handled :
    i < j /\ {handled[i], handled[j]} \subseteq Posts =>
             /\ handled[i] # handled[j]
             /\ sent[handled[i]] = sent[handled[j]] => handled[i] < handled[j]

Waiting(n) == Contains(queuedMessages, n)

OnItsWay(n, i) == Contains(sockets[i].toServer \o apis[i].queuedMessages, n)

GoesOn(i) == sockets[i].state = "open" /\ apis[i].state # "rejected"

\* A message that was posted is handled, or waits in the window, or is on its
\* way, or was sent over a connection that did not last: no message gets lost
\* between the two ends (the queue is emptied before the status is "open", and
\* "only dequeue after successfully sending the message").
LostOnlyWithItsConnection ==
  \A n \in 1..posted :
    \/ Contains(handled, n)
    \/ Waiting(n) /\ sent[n] = NotSent
    \/ sent[n] # NotSent /\ (GoesOn(sent[n]) => OnItsWay(n, sent[n]))

\* Messages are lost with the connection they were sent over, and not otherwise.
DeliveredOrLostTogether == AtMostOnceInOrder /\ LostOnlyWithItsConnection

\* Whatever connections were lost, and whenever an effect was created, a window
\* that keeps its connection in the end shows what the Repository has published
\* in the end; otherwise it says that it is in error.
WindowCatchesUp ==
  <>[](\/ disposed \/ status = "error"
       \/ status = "open" /\ \A e \in DOMAIN reconnecting : shown[e] = version)
=============================================================================
