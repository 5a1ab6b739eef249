------------------------------ MODULE Watchman ------------------------------
(***************************************************************************)
(* The connection of a Repository to the watchman service (watchman.ts),   *)
(* and the two subscriptions WatchForChanges sets up through it.           *)
(*                                                                         *)
(* A lost connection is replaced by a loop of attempts that               *)
(* serializeAsyncCall (utils.ts) keeps to one at a time: a call made while *)
(* the loop runs schedules one more.  Commands of an ended client fail.    *)
(* The delays between attempts are left out: each is finite.               *)
(***************************************************************************)
EXTENDS Naturals, Sequences, FiniteSets

CONSTANT Failures   \* how many commands the service answers with an error,
                    \* and how often a stream of changes cannot be read

ASSUME FailuresAssumption == Failures \in Nat

VARIABLES
  service,        \* whether watchman runs
  status,         \* Watchman.status
  listening,      \* whether the current client still has its handlers
  subscriptions,  \* the keys of Watchman.subscriptions
  subscribed,     \* those watchman sends changes for to the current client
  setup,          \* the next step of setupWatchmanSubscriptions
  heard,          \* the subscriptions whose emitter has its listeners
  reconnect,      \* the pending call of serializedReconnect
  scheduled,      \* whether another call is scheduled after it
  failures        \* how many failures are left

watchmanVars == <<service, status, listening, subscriptions, subscribed, setup,
                  heard, reconnect, scheduled, failures>>

\* In the order setupWatchmanSubscriptions asks for them.
Names == <<"dirstate", "files">>

Query(n) == [name |-> Names[n], step |-> "query"]
Subscribe(n) == [name |-> Names[n], step |-> "subscribe"]
Done == [name |-> "none", step |-> "done"]
Failed == [name |-> "none", step |-> "failed"]

WatchmanInit ==
  /\ service \in BOOLEAN /\ status = "initializing" /\ listening = TRUE
  /\ subscriptions = {} /\ subscribed = {} /\ setup = Query(1) /\ heard = {}
  /\ reconnect = "idle" /\ scheduled = FALSE /\ failures = Failures

-----------------------------------------------------------------------------
(* setupWatchmanSubscriptions and watchDirectoryRecursive.                 *)

\* watch-project and clock have been answered.
SetupQueried == \E n \in 1..2 :
  /\ service /\ setup = Query(n)
  /\ subscriptions' = subscriptions \cup {Names[n]} /\ setup' = Subscribe(n)
  /\ UNCHANGED <<service, status, listening, subscribed, heard, reconnect,
                 scheduled, failures>>

SetupSubscribed == \E n \in 1..2 :
  /\ service /\ setup = Subscribe(n)
  /\ subscribed' = subscribed \cup {Names[n]} /\ heard' = heard \cup {Names[n]}
  /\ status' = "healthy" /\ setup' = IF n = 2 THEN Done ELSE Query(n + 1)
  /\ UNCHANGED <<service, listening, subscriptions, reconnect, scheduled, failures>>

SetupEnded == setup \in {Done, Failed}

\* What becomes of the setup when its command fails.
SetupCancelled == IF SetupEnded THEN setup ELSE Failed

SetupRefused ==
  /\ service /\ failures > 0 /\ ~SetupEnded
  /\ setup' = Failed /\ failures' = failures - 1
  /\ UNCHANGED <<service, status, listening, subscriptions, subscribed, heard,
                 reconnect, scheduled>>

-----------------------------------------------------------------------------
(* reconnectClient and the loop around it.                                 *)

\* With its commands cancelled an attempt goes to sleep before the next; one
\* that waits for the file system to settle has no command and goes on.
AttemptCancelled ==
  IF reconnect \in {"watching", "subscribing"} THEN "sleeping" ELSE reconnect

\* The end of reconnectClient's synchronous part.
NewAttempt ==
  /\ status' = "reconnecting" /\ listening' = TRUE /\ subscribed' = {}
  /\ reconnect' = "watching"

\* Another call forgets what it was called for when one is already pending.
SerializedReconnectDropped(st) ==
  IF reconnect = "idle"
  THEN NewAttempt /\ UNCHANGED scheduled
  ELSE /\ reconnect' = AttemptCancelled /\ UNCHANGED scheduled
       /\ status' = st /\ listening' = FALSE /\ subscribed' = {}

\* The serialized function is called when the client is gone; st is the status
\* the handler has set.
SerializedReconnect(st) ==
  IF reconnect = "idle" /\ ~scheduled
  THEN NewAttempt /\ UNCHANGED scheduled
  ELSE /\ scheduled' = TRUE /\ reconnect' = AttemptCancelled
       /\ status' = st /\ listening' = FALSE /\ subscribed' = {}

\* The "end" event: the service closes the connection, or cancels a subscription.
ClientEnd ==
  /\ listening /\ setup' = SetupCancelled
  /\ SerializedReconnect("ended")
  /\ UNCHANGED <<subscriptions, heard>>

\* The "error" event.  While initializing it is taken for a missing watchman.
ClientError ==
  /\ listening /\ setup' = SetupCancelled
  /\ IF status = "initializing"
     THEN /\ status' = "errored" /\ listening' = FALSE /\ subscribed' = {}
          /\ UNCHANGED <<reconnect, scheduled>>
     ELSE SerializedReconnect("errored")
  /\ UNCHANGED <<subscriptions, heard>>

ServiceStops ==
  /\ service /\ service' = FALSE /\ UNCHANGED failures
  /\ IF listening THEN ClientEnd
     ELSE /\ subscribed' = {} /\ setup' = SetupCancelled
          /\ reconnect' = AttemptCancelled
          /\ UNCHANGED <<status, listening, subscriptions, heard, scheduled>>

ServiceStarts ==
  /\ ~service /\ service' = TRUE
  /\ UNCHANGED <<status, listening, subscriptions, subscribed, setup, heard,
                 reconnect, scheduled, failures>>

\* A command waits for a connection that cannot be made.
ConnectionFails ==
  /\ ~service /\ (~SetupEnded \/ reconnect \in {"watching", "subscribing"})
  /\ ClientError /\ UNCHANGED <<service, failures>>

StreamFails ==
  /\ service /\ failures > 0 /\ failures' = failures - 1 /\ ClientError
  /\ UNCHANGED service

SubscriptionCancelled ==
  /\ service /\ failures > 0 /\ failures' = failures - 1 /\ subscribed # {}
  /\ ClientEnd /\ UNCHANGED service

-----------------------------------------------------------------------------
(* restoreSubscriptions, and what follows it.                              *)

Watched ==
  /\ reconnect = "watching" /\ (service \/ subscriptions = {})
  /\ reconnect' = IF subscriptions = {} THEN "restored" ELSE "settling"
  /\ UNCHANGED <<service, status, listening, subscriptions, subscribed, setup,
                 heard, scheduled, failures>>

Settled ==
  /\ reconnect = "settling" /\ reconnect' = "subscribing"
  /\ UNCHANGED <<service, status, listening, subscriptions, subscribed, setup,
                 heard, scheduled, failures>>

\* A client whose handlers are gone connects again for the command.
Resubscribed ==
  /\ reconnect = "subscribing" /\ service
  /\ subscribed' = subscribed \cup subscriptions
  /\ status' = "healthy" /\ reconnect' = "restored"
  /\ UNCHANGED <<service, listening, subscriptions, setup, heard, scheduled, failures>>

\* The attempt fails: the service refuses, or its client has been ended.
AttemptFails ==
  /\ reconnect \in {"watching", "subscribing"} /\ subscriptions # {}
  /\ \/ service /\ failures > 0 /\ failures' = failures - 1
     \/ ~service /\ ~listening /\ UNCHANGED failures
  /\ reconnect' = "sleeping"
  /\ UNCHANGED <<service, status, listening, subscriptions, subscribed, setup,
                 heard, scheduled>>

Retry ==
  /\ reconnect = "sleeping" /\ NewAttempt
  /\ UNCHANGED <<service, subscriptions, setup, heard, scheduled, failures>>

\* The call is over; the scheduled one follows.
ReconnectReturns ==
  /\ reconnect = "restored"
  /\ IF scheduled
     THEN NewAttempt /\ scheduled' = FALSE
     ELSE reconnect' = "idle" /\ UNCHANGED <<status, listening, subscribed, scheduled>>
  /\ UNCHANGED <<service, subscriptions, setup, heard, failures>>

WatchmanNext ==
  \/ SetupQueried \/ SetupSubscribed \/ SetupRefused
  \/ ServiceStops \/ ServiceStarts \/ ConnectionFails \/ StreamFails
  \/ SubscriptionCancelled
  \/ Watched \/ Settled \/ Resubscribed \/ AttemptFails \/ Retry \/ ReconnectReturns

\* Every command is answered or fails, every sleep ends, and an attempt to
\* connect is refused in the end by a service that stays away.
WatchmanProgress ==
  \/ SetupQueried \/ SetupSubscribed \/ ConnectionFails
  \/ Watched \/ Settled \/ Resubscribed \/ Retry \/ ReconnectReturns
  \/ ~service /\ AttemptFails
=============================================================================
