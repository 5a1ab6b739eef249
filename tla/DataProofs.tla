----------------------------- MODULE DataProofs -----------------------------
(***************************************************************************)
(* Theorems about what windows are shown of a repository that changes.     *)
(* FetchedData: it is never taken back by the data of an older fetch, for  *)
(* any operations and edits and any number of fetches, failures and        *)
(* subscriptions.  DiffContent: no document of a diff is forgotten, for    *)
(* any folders, repositories, documents, commits and failures.             *)
(***************************************************************************)
EXTENDS FetchedData, DiffContent, FiniteSetTheorems, SequenceTheorems, TLAPS

Contents == SUBSET (Ops \cup Edits)

Results == [start : Nat, seen : Contents, error : BOOLEAN]

\* A message is about an operation or carries the result of a fetch.
ProgressMessages ==
  [type : {"spawn"}, op : Ops, queue : Seq(Ops)] \cup [type : {"queue"}, queue : Seq(Ops)]
  \cup [type : {"exit"}, failed : BOOLEAN, end : Nat] \cup [type : {"error"}]

Messages == [type : {"data"}, data : Results] \cup ProgressMessages

----------------------------------------------------------------------------
(***************************************************************************)
(* The invariant.  What was read grows along the way of the data: from the *)
(* window over the messages, in their order, and what the Repository has   *)
(* stored, to the fetch that runs and the repository itself.  The messages *)
(* of failed fetches carry no content and are left out.                    *)
(***************************************************************************)
\* What a message says the repository contains.
Carries(m) == m.type = "data" /\ ~m.data.error

FetchTypes ==
  /\ now \in Nat
  /\ disk \in Contents
  /\ fetches \subseteq [start : Nat, seen : Contents \cup {NotRead}]
  /\ stored \in Results /\ ~stored.error
  /\ asked \in Seq(Ops)
  /\ data \in Results
  /\ toClient \in Seq(Messages)

\* serializeAsyncCall: one fetch runs at a time.
OneFetchRuns == \A f, g \in fetches : f = g

\* The Repository has stored nothing newer than a running fetch has read.
StoredIsRead ==
  /\ stored.seen \subseteq disk
  /\ \A f \in fetches : f.seen # NotRead => stored.seen \subseteq f.seen /\ f.seen \subseteq disk

\* Messages arrive in the order of what they carry.
MessagesGrow ==
  \A i \in DOMAIN toClient : Carries(toClient[i]) =>
    /\ data.seen \subseteq toClient[i].data.seen
    /\ toClient[i].data.seen \subseteq stored.seen
    /\ \A j \in DOMAIN toClient :
         i < j /\ Carries(toClient[j]) => toClient[i].data.seen \subseteq toClient[j].data.seen

WindowIsBehind == data.seen \subseteq stored.seen

GrowthInv ==
  FetchTypes /\ OneFetchRuns /\ StoredIsRead /\ MessagesGrow /\ WindowIsBehind

----------------------------------------------------------------------------
(***************************************************************************)
(* Contents and marks                                                      *)
(***************************************************************************)
LEMMA MarkIsNoContent == NotRead \notin Contents
BY ConstantsAssumption DEF NotRead, Contents

\* What a fetch reports is a result.
LEMMA FetchedIsResult ==
  ASSUME NEW start \in Nat, NEW seen \in Contents, NEW error \in BOOLEAN
  PROVE  /\ Fetched(start, seen, error) \in Results
         /\ Fetched(start, seen, error).seen = seen
         /\ Fetched(start, seen, error).error = error
BY DEF Fetched, Results

\* The messages about operations carry no content.
LEMMA ProgressCarriesNothing ==
  ASSUME NEW m \in ProgressMessages
  PROVE  m \in Messages /\ ~Carries(m)
BY DEF ProgressMessages, Messages, Carries

----------------------------------------------------------------------------
(***************************************************************************)
(* Messages                                                                *)
(***************************************************************************)
\* A result is sent that is an error, or is what is stored from now on and
\* contains all that was stored before.
LEMMA SendingData ==
  ASSUME FetchTypes, MessagesGrow, WindowIsBehind,
         NEW r \in Results, SendData(r), data' = data,
         stored.seen \subseteq stored'.seen,
         ~r.error => r.seen = stored'.seen
  PROVE  toClient' \in Seq(Messages) /\ MessagesGrow'
<1> DEFINE m == [type |-> "data", data |-> r]
<1>1. m \in Messages /\ m.data = r /\ (Carries(m) <=> ~r.error)
  BY DEF Messages, Carries
<1>2. toClient \in Seq(Messages) /\ toClient' = toClient \o <<m>>
  BY DEF FetchTypes, SendData, Send
<1> HIDE DEF m
<1>3. /\ toClient' \in Seq(Messages)
      /\ DOMAIN toClient = 1..Len(toClient) /\ Len(toClient) \in Nat
      /\ DOMAIN toClient' = 1..(Len(toClient) + 1)
      /\ \A i \in 1..Len(toClient) : toClient'[i] = toClient[i]
      /\ toClient'[Len(toClient) + 1] = m
  BY <1>1, <1>2
<1>4. ASSUME NEW i \in DOMAIN toClient', Carries(toClient'[i])
      PROVE  /\ data.seen \subseteq toClient'[i].data.seen
             /\ toClient'[i].data.seen \subseteq stored'.seen
             /\ \A j \in DOMAIN toClient' : i < j /\ Carries(toClient'[j]) =>
                  toClient'[i].data.seen \subseteq toClient'[j].data.seen
  <2>1. CASE i = Len(toClient) + 1
    BY <2>1, <1>1, <1>3, <1>4 DEF WindowIsBehind
  <2>2. CASE i \in 1..Len(toClient)
    <3>1. /\ data.seen \subseteq toClient[i].data.seen
          /\ toClient[i].data.seen \subseteq stored.seen
      BY <2>2, <1>3, <1>4 DEF MessagesGrow
    <3>2. ASSUME NEW j \in DOMAIN toClient', i < j, Carries(toClient'[j])
          PROVE  toClient'[i].data.seen \subseteq toClient'[j].data.seen
      <4>1. CASE j = Len(toClient) + 1
        BY <4>1, <3>1, <3>2, <2>2, <1>1, <1>3
      <4>2. CASE j \in 1..Len(toClient)
        BY <4>2, <3>2, <2>2, <1>3, <1>4 DEF MessagesGrow
      <4> QED BY <4>1, <4>2, <1>3
    <3> QED BY <3>1, <3>2, <2>2, <1>3
  <2> QED BY <2>1, <2>2, <1>3
<1> QED BY <1>3, <1>4 DEF MessagesGrow

\* The messages about operations go between the data and change nothing.
LEMMA SendingProgress ==
  ASSUME FetchTypes, MessagesGrow, data' = data, stored' = stored,
         NEW ms \in Seq(ProgressMessages), Send(ms)
  PROVE  toClient' \in Seq(Messages) /\ MessagesGrow'
<1>1. toClient \in Seq(Messages) /\ toClient' = toClient \o ms /\ ms \in Seq(Messages)
  BY ProgressCarriesNothing DEF FetchTypes, Send
<1>2. /\ toClient' \in Seq(Messages)
      /\ DOMAIN toClient = 1..Len(toClient) /\ Len(toClient) \in Nat /\ Len(ms) \in Nat
      /\ DOMAIN toClient' = 1..(Len(toClient) + Len(ms))
      /\ \A i \in 1..Len(toClient) : toClient'[i] = toClient[i]
      /\ \A i \in 1..Len(ms) : toClient'[Len(toClient) + i] = ms[i]
  BY <1>1
<1>3. \A i \in DOMAIN toClient' : Carries(toClient'[i]) => i \in 1..Len(toClient)
  <2> SUFFICES ASSUME NEW i \in DOMAIN toClient', Carries(toClient'[i]), i > Len(toClient)
               PROVE  FALSE
    BY <1>2
  <2>1. i - Len(toClient) \in 1..Len(ms) /\ toClient'[i] = ms[i - Len(toClient)]
    BY <1>2
  <2>2. ms[i - Len(toClient)] \in ProgressMessages
    BY <2>1
  <2> QED BY <2>1, <2>2, ProgressCarriesNothing
<1> QED BY <1>2, <1>3 DEF MessagesGrow

----------------------------------------------------------------------------
(***************************************************************************)
(* Fetches                                                                 *)
(***************************************************************************)
\* A fetch that returns may start the next one, which has read nothing yet.
LEMMA ReturningStartsAnother ==
  ASSUME FetchTypes, OneFetchRuns, NEW fetch \in fetches, Returned(fetch)
  PROVE  \/ fetches' = {}
         \/ fetches' = {[start |-> now, seen |-> NotRead]}
<1>1. fetches \ {fetch} = {}
  BY DEF OneFetchRuns
<1> QED BY <1>1 DEF Returned, StartAsyncCall

\* A call starts a fetch only where none runs.
LEMMA CallingKeepsFetches ==
  ASSUME Call
  PROVE  \/ fetches' = fetches
         \/ fetches' = {[start |-> now, seen |-> NotRead]}
BY DEF Call, StartAsyncCall

----------------------------------------------------------------------------
(***************************************************************************)
(* The invariant holds                                                     *)
(***************************************************************************)
LEMMA InitGrowth == Init => GrowthInv
<1> SUFFICES ASSUME Init PROVE GrowthInv
  OBVIOUS
<1>1. FetchTypes
  <2>1. NoData \in Results /\ ~NoData.error /\ NoData.seen = {}
    BY DEF NoData, Results, Contents
  <2> QED BY <2>1 DEF Init, FetchTypes, Contents
<1>2. StoredIsRead /\ WindowIsBehind
  BY DEF Init, NoData, StoredIsRead, WindowIsBehind
<1>3. OneFetchRuns /\ MessagesGrow
  BY DEF Init, OneFetchRuns, MessagesGrow
<1> QED BY <1>1, <1>2, <1>3 DEF GrowthInv

LEMMA ReadRepositoryGrowth ==
  ASSUME GrowthInv, ReadRepository
  PROVE  GrowthInv'
<1> USE DEF GrowthInv
<1>1. PICK f \in fetches :
        fetches' = (fetches \ {f}) \cup {[f EXCEPT !.seen = disk]}
  BY DEF ReadRepository
<1>2. fetches' = {[f EXCEPT !.seen = disk]}
  BY <1>1 DEF OneFetchRuns
<1>3. f \in [start : Nat, seen : Contents \cup {NotRead}] /\ disk \in Contents
  BY DEF FetchTypes
<1>4. /\ [f EXCEPT !.seen = disk] \in [start : Nat, seen : Contents \cup {NotRead}]
      /\ [f EXCEPT !.seen = disk].seen = disk
  BY <1>3
<1>5. UNCHANGED <<now, disk, stored, asked, toClient, data>>
  BY DEF ReadRepository
<1>6. FetchTypes'
  BY <1>2, <1>4, <1>5 DEF FetchTypes
<1>7. OneFetchRuns'
  BY <1>2 DEF OneFetchRuns
<1>8. StoredIsRead'
  BY <1>2, <1>4, <1>5 DEF StoredIsRead
<1>9. MessagesGrow' /\ WindowIsBehind'
  BY <1>5 DEF MessagesGrow, WindowIsBehind
<1> QED BY <1>6, <1>7, <1>8, <1>9

LEMMA FetchSucceedsGrowth ==
  ASSUME GrowthInv, FetchSucceeds
  PROVE  GrowthInv'
<1> USE DEF GrowthInv
<1>1. PICK f \in fetches :
        /\ f.seen # NotRead /\ Returned(f)
        /\ stored' = Fetched(f.start, f.seen, FALSE)
        /\ SendData(stored')
  BY DEF FetchSucceeds
<1>2. UNCHANGED <<now, disk, asked, data>>
  BY DEF FetchSucceeds
<1>3. f.start \in Nat /\ f.seen \in Contents
  BY <1>1 DEF FetchTypes
<1>4. stored' \in Results /\ stored'.seen = f.seen /\ ~stored'.error
  BY <1>1, <1>3, FetchedIsResult
<1>5. stored.seen \subseteq stored'.seen /\ stored'.seen \subseteq disk
  BY <1>1, <1>4 DEF StoredIsRead
<1>6. toClient' \in Seq(Messages) /\ MessagesGrow'
  <2>1. PICK r \in Results : r = stored'
    BY <1>4
  <2>2. SendData(r) /\ (~r.error => r.seen = stored'.seen)
    BY <2>1, <1>1
  <2> QED BY <2>2, <1>2, <1>5, SendingData
<1>7. fetches' = {} \/ fetches' = {[start |-> now, seen |-> NotRead]}
  BY <1>1, ReturningStartsAnother
<1>8. /\ fetches' \subseteq [start : Nat, seen : Contents \cup {NotRead}]
      /\ OneFetchRuns' /\ StoredIsRead'
  BY <1>7, <1>5, <1>2 DEF FetchTypes, OneFetchRuns, StoredIsRead
<1>9. WindowIsBehind'
  BY <1>2, <1>5 DEF WindowIsBehind
<1> QED BY <1>2, <1>4, <1>6, <1>8, <1>9 DEF FetchTypes

LEMMA FetchFailsGrowth ==
  ASSUME GrowthInv, FetchFails
  PROVE  GrowthInv'
<1> USE DEF GrowthInv
<1>1. PICK f \in fetches : Returned(f) /\ SendData(Fetched(f.start, {}, TRUE))
  BY DEF FetchFails
<1>2. UNCHANGED <<now, disk, stored, asked, data>>
  BY DEF FetchFails
<1>3. f.start \in Nat /\ {} \in Contents
  BY DEF FetchTypes, Contents
<1>4. Fetched(f.start, {}, TRUE) \in Results /\ Fetched(f.start, {}, TRUE).error
  BY <1>3, FetchedIsResult
<1>5. toClient' \in Seq(Messages) /\ MessagesGrow'
  BY <1>1, <1>2, <1>4, SendingData
<1>6. fetches' = {} \/ fetches' = {[start |-> now, seen |-> NotRead]}
  BY <1>1, ReturningStartsAnother
<1>7. /\ fetches' \subseteq [start : Nat, seen : Contents \cup {NotRead}]
      /\ OneFetchRuns' /\ StoredIsRead'
  BY <1>6, <1>2 DEF FetchTypes, OneFetchRuns, StoredIsRead
<1>8. WindowIsBehind'
  BY <1>2 DEF WindowIsBehind
<1> QED BY <1>2, <1>5, <1>7, <1>8 DEF FetchTypes

LEMMA FetchIsIgnoredGrowth ==
  ASSUME GrowthInv, FetchIsIgnored
  PROVE  GrowthInv'
<1> USE DEF GrowthInv
<1>1. PICK f \in fetches : Returned(f)
  BY DEF FetchIsIgnored
<1>2. UNCHANGED <<now, disk, stored, asked, toClient, data>>
  BY DEF FetchIsIgnored
<1>3. fetches' = {} \/ fetches' = {[start |-> now, seen |-> NotRead]}
  BY <1>1, ReturningStartsAnother
<1>4. /\ fetches' \subseteq [start : Nat, seen : Contents \cup {NotRead}]
      /\ OneFetchRuns' /\ StoredIsRead'
  BY <1>3, <1>2 DEF FetchTypes, OneFetchRuns, StoredIsRead
<1>5. MessagesGrow' /\ WindowIsBehind'
  BY <1>2 DEF MessagesGrow, WindowIsBehind
<1> QED BY <1>2, <1>4, <1>5 DEF FetchTypes

LEMMA PollGrowth ==
  ASSUME GrowthInv, Poll
  PROVE  GrowthInv'
<1> USE DEF GrowthInv
<1>1. UNCHANGED <<now, disk, stored, asked, toClient, data>>
  BY DEF Poll
<1>2. /\ fetches' \subseteq [start : Nat, seen : Contents \cup {NotRead}]
      /\ OneFetchRuns' /\ StoredIsRead'
  BY <1>1, CallingKeepsFetches DEF Poll, FetchTypes, OneFetchRuns, StoredIsRead
<1>3. MessagesGrow' /\ WindowIsBehind'
  BY <1>1 DEF MessagesGrow, WindowIsBehind
<1> QED BY <1>1, <1>2, <1>3 DEF FetchTypes

LEMMA SubscribeGrowth ==
  ASSUME GrowthInv, Subscribe
  PROVE  GrowthInv'
<1> USE DEF GrowthInv
<1>1. UNCHANGED <<now, disk, stored, asked, data>> /\ SendData(stored) /\ Call
  BY DEF Subscribe
<1>2. /\ fetches' \subseteq [start : Nat, seen : Contents \cup {NotRead}]
      /\ OneFetchRuns' /\ StoredIsRead'
  BY <1>1, CallingKeepsFetches DEF FetchTypes, OneFetchRuns, StoredIsRead
<1>3. toClient' \in Seq(Messages) /\ MessagesGrow'
  BY <1>1, SendingData DEF FetchTypes
<1>4. WindowIsBehind'
  BY <1>1 DEF WindowIsBehind
<1> QED BY <1>1, <1>2, <1>3, <1>4 DEF FetchTypes

\* What an operation or somebody else does is added to the repository.
LEMMA ChangingGrowth ==
  ASSUME GrowthInv, OperationActs \/ Edit
  PROVE  GrowthInv'
<1> USE DEF GrowthInv
<1>1. UNCHANGED <<now, fetches, stored, asked, toClient, data>>
  BY DEF OperationActs, Edit
<1>2. disk' \in Contents /\ disk \subseteq disk'
  BY DEF OperationActs, Edit, FetchTypes, Contents
<1>3. FetchTypes' /\ OneFetchRuns' /\ StoredIsRead'
  BY <1>1, <1>2 DEF FetchTypes, OneFetchRuns, StoredIsRead
<1>4. MessagesGrow' /\ WindowIsBehind'
  BY <1>1 DEF MessagesGrow, WindowIsBehind
<1> QED BY <1>3, <1>4

\* A queue of operations announces its first one.
LEMMA SpawnedIsProgress ==
  ASSUME NEW queue \in Seq(Ops), queue # <<>>
  PROVE  Spawned(queue) \in ProgressMessages
<1>1. Head(queue) \in Ops /\ Tail(queue) \in Seq(Ops)
  OBVIOUS
<1> QED BY <1>1 DEF Spawned, ProgressMessages

\* The queue of the server changes, and the window is told of it.
LEMMA QueueGrowth ==
  ASSUME GrowthInv, UNCHANGED <<now, disk, fetches, stored, data>>, asked' \in Seq(Ops),
         NEW ms \in Seq(ProgressMessages), Send(ms)
  PROVE  GrowthInv'
<1> USE DEF GrowthInv
<1>1. toClient' \in Seq(Messages) /\ MessagesGrow'
  BY SendingProgress
<1>2. FetchTypes' /\ OneFetchRuns' /\ StoredIsRead' /\ WindowIsBehind'
  BY <1>1 DEF FetchTypes, OneFetchRuns, StoredIsRead, WindowIsBehind
<1> QED BY <1>1, <1>2

LEMMA ProcessExitsGrowth ==
  ASSUME GrowthInv, ProcessExits
  PROVE  GrowthInv'
<1>1. PICK failed \in BOOLEAN :
        Send(<<[type |-> "exit", failed |-> failed, end |-> now]>>)
  BY DEF ProcessExits
<1>2. PICK exit : exit = [type |-> "exit", failed |-> failed, end |-> now]
  OBVIOUS
<1>3. exit \in ProgressMessages
  BY <1>2 DEF GrowthInv, FetchTypes, ProgressMessages
<1>4. <<exit>> \in Seq(ProgressMessages) /\ Send(<<exit>>)
  BY <1>1, <1>2, <1>3
<1>5. UNCHANGED <<now, disk, fetches, stored, data>> /\ asked' \in Seq(Ops)
  BY DEF ProcessExits, GrowthInv, FetchTypes
<1> QED BY <1>4, <1>5, QueueGrowth

\* The promise of an operation is resolved or rejected.
LEMMA OperationEndsGrowth ==
  ASSUME GrowthInv, OperationResolves \/ OperationRejects \/ SpawnFails
  PROVE  GrowthInv'
<1>1. CASE OperationResolves
  <2>1. /\ UNCHANGED <<now, disk, fetches, stored, data>> /\ asked' = Tail(asked) /\ asked # <<>>
        /\ Send(IF asked' = <<>> THEN <<>> ELSE <<Spawned(asked')>>)
    BY <1>1 DEF OperationResolves
  <2>2. asked' \in Seq(Ops)
    BY <2>1 DEF GrowthInv, FetchTypes
  <2>3. CASE asked' = <<>>
    <3>1. <<>> \in Seq(ProgressMessages) /\ Send(<<>>)
      BY <2>1, <2>3
    <3> QED BY <2>1, <2>2, <3>1, QueueGrowth
  <2>4. CASE asked' # <<>>
    <3>1. PICK queue \in Seq(Ops) : queue = asked'
      BY <2>2
    <3>2. Spawned(queue) \in ProgressMessages /\ Send(<<Spawned(queue)>>)
      BY <2>1, <2>4, <3>1, SpawnedIsProgress
    <3>3. <<Spawned(queue)>> \in Seq(ProgressMessages)
      BY <3>2
    <3> QED BY <2>1, <2>2, <3>2, <3>3, QueueGrowth
  <2> QED BY <2>3, <2>4
<1>2. CASE OperationRejects \/ SpawnFails
  <2>1. /\ UNCHANGED <<now, disk, fetches, stored, data>> /\ asked' = <<>>
        /\ Send(<<[type |-> "error"]>>)
    BY <1>2 DEF OperationRejects, SpawnFails, Reject
  <2>2. PICK error : error = [type |-> "error"]
    OBVIOUS
  <2>3. error \in ProgressMessages
    BY <2>2 DEF ProgressMessages
  <2>4. <<error>> \in Seq(ProgressMessages) /\ Send(<<error>>) /\ asked' \in Seq(Ops)
    BY <2>1, <2>2, <2>3
  <2> QED BY <2>1, <2>4, QueueGrowth
<1> QED BY <1>1, <1>2

LEMMA RunOperationGrowth ==
  ASSUME GrowthInv, RunOperation
  PROVE  GrowthInv'
<1>1. /\ UNCHANGED <<now, disk, fetches, stored, data>>
      /\ \E o \in Ops : asked' = Append(asked, o)
      /\ Send(<<IF asked = <<>> THEN Spawned(asked')
                ELSE [type |-> "queue", queue |-> Tail(asked')]>>)
  BY DEF RunOperation
<1>2. asked \in Seq(Ops)
  BY DEF GrowthInv, FetchTypes
<1>3. PICK queue \in Seq(Ops) : queue = asked' /\ queue # <<>>
  BY <1>1, <1>2
<1>4. PICK m : m = IF asked = <<>> THEN Spawned(queue) ELSE [type |-> "queue", queue |-> Tail(queue)]
  OBVIOUS
<1>5. m \in ProgressMessages
  <2>1. CASE asked = <<>>
    BY <1>3, <1>4, <2>1, SpawnedIsProgress
  <2>2. CASE asked # <<>>
    <3>1. Tail(queue) \in Seq(Ops)
      BY <1>3
    <3> QED BY <1>4, <2>2, <3>1 DEF ProgressMessages
  <2> QED BY <2>1, <2>2
<1>6. <<m>> \in Seq(ProgressMessages) /\ Send(<<m>>)
  BY <1>1, <1>3, <1>4, <1>5
<1> QED BY <1>1, <1>3, <1>6, QueueGrowth

\* What remains of the messages after the first one.
LEMMA Remaining ==
  ASSUME FetchTypes, toClient # <<>>, toClient' = Tail(toClient)
  PROVE  /\ toClient' \in Seq(Messages)
         /\ 1 \in DOMAIN toClient /\ Head(toClient) = toClient[1]
         /\ \A i \in DOMAIN toClient' :
              i + 1 \in DOMAIN toClient /\ toClient'[i] = toClient[i + 1]
         /\ \A i, j \in DOMAIN toClient' : i < j => i + 1 < j + 1
         /\ \A i \in DOMAIN toClient' : 1 < i + 1
BY DEF FetchTypes

LEMMA ReceiveDataGrowth ==
  ASSUME GrowthInv, ReceiveData
  PROVE  GrowthInv' /\ data.seen \subseteq data'.seen
<1> USE DEF GrowthInv
<1>1. /\ UNCHANGED <<now, disk, fetches, stored, asked>>
      /\ toClient # <<>> /\ toClient' = Tail(toClient) /\ Head(toClient).type = "data"
  BY DEF ReceiveData
<1> DEFINE new == Head(toClient).data
<1>2. Head(toClient) = toClient[1] /\ toClient[1] \in Messages /\ new \in Results
  BY <1>1 DEF FetchTypes, Messages, ProgressMessages
<1>3. data' = IF new.error THEN [new EXCEPT !.seen = data.seen] ELSE new
  BY DEF ReceiveData
<1> HIDE DEF new
<1>4. data' \in Results /\ (data'.seen = IF new.error THEN data.seen ELSE new.seen)
  BY <1>2, <1>3 DEF FetchTypes, Results
<1>5. ~new.error => Carries(toClient[1]) /\ toClient[1].data = new
  BY <1>1, <1>2 DEF Carries, new
<1>6. data.seen \subseteq data'.seen /\ WindowIsBehind'
  BY <1>1, <1>4, <1>5, Remaining DEF MessagesGrow, WindowIsBehind
<1>7. MessagesGrow'
  <2> SUFFICES ASSUME NEW i \in DOMAIN toClient', Carries(toClient'[i])
               PROVE  /\ data'.seen \subseteq toClient'[i].data.seen
                      /\ toClient'[i].data.seen \subseteq stored'.seen
                      /\ \A j \in DOMAIN toClient' : i < j /\ Carries(toClient'[j]) =>
                           toClient'[i].data.seen \subseteq toClient'[j].data.seen
    BY DEF MessagesGrow
  <2>1. i + 1 \in DOMAIN toClient /\ toClient'[i] = toClient[i + 1] /\ 1 < i + 1
    BY <1>1, Remaining
  <2>2. data'.seen \subseteq toClient'[i].data.seen
    BY <1>1, <1>4, <1>5, <2>1, Remaining DEF MessagesGrow
  <2>3. toClient'[i].data.seen \subseteq stored'.seen
    BY <1>1, <2>1 DEF MessagesGrow
  <2>4. ASSUME NEW j \in DOMAIN toClient', i < j, Carries(toClient'[j])
        PROVE  toClient'[i].data.seen \subseteq toClient'[j].data.seen
    BY <1>1, <2>1, <2>4, Remaining DEF MessagesGrow
  <2> QED BY <2>2, <2>3, <2>4
<1>8. FetchTypes' /\ OneFetchRuns' /\ StoredIsRead'
  BY <1>1, <1>4, Remaining DEF FetchTypes, OneFetchRuns, StoredIsRead
<1> QED BY <1>6, <1>7, <1>8

LEMMA ReceiveProgressGrowth ==
  ASSUME GrowthInv, ReceiveProgress
  PROVE  GrowthInv'
<1> USE DEF GrowthInv
<1>1. /\ UNCHANGED <<now, disk, fetches, stored, asked, data>>
      /\ toClient # <<>> /\ toClient' = Tail(toClient)
  BY DEF ReceiveProgress
<1>2. FetchTypes' /\ OneFetchRuns' /\ StoredIsRead' /\ WindowIsBehind'
  BY <1>1, Remaining DEF FetchTypes, OneFetchRuns, StoredIsRead, WindowIsBehind
<1>3. MessagesGrow'
  BY <1>1, Remaining DEF MessagesGrow
<1> QED BY <1>2, <1>3

\* Time passes and the window renders.
LEMMA OthersGrowth ==
  ASSUME GrowthInv, Tick \/ MarkOperationsCompleted \/ UNCHANGED vars
  PROVE  GrowthInv'
<1> USE DEF GrowthInv
<1>1. UNCHANGED <<disk, fetches, stored, asked, toClient, data>> /\ now' \in Nat
  BY DEF Tick, MarkOperationsCompleted, vars, FetchTypes
<1>2. FetchTypes' /\ OneFetchRuns' /\ StoredIsRead' /\ WindowIsBehind'
  BY <1>1 DEF FetchTypes, OneFetchRuns, StoredIsRead, WindowIsBehind
<1>3. MessagesGrow'
  BY <1>1 DEF MessagesGrow
<1> QED BY <1>2, <1>3

LEMMA NextGrowth == GrowthInv /\ [Next]_vars => GrowthInv'
<1> SUFFICES ASSUME GrowthInv, [Next]_vars PROVE GrowthInv'
  OBVIOUS
<1>1. CASE ReadRepository BY <1>1, ReadRepositoryGrowth
<1>2. CASE FetchSucceeds BY <1>2, FetchSucceedsGrowth
<1>3. CASE FetchFails BY <1>3, FetchFailsGrowth
<1>4. CASE FetchIsIgnored BY <1>4, FetchIsIgnoredGrowth
<1>5. CASE Poll BY <1>5, PollGrowth
<1>6. CASE Subscribe BY <1>6, SubscribeGrowth
<1>7. CASE OperationActs \/ Edit BY <1>7, ChangingGrowth
<1>8. CASE ProcessExits BY <1>8, ProcessExitsGrowth
<1>9. CASE RunOperation BY <1>9, RunOperationGrowth
<1>10. CASE ReceiveData BY <1>10, ReceiveDataGrowth
<1>11. CASE ReceiveProgress BY <1>11, ReceiveProgressGrowth
<1>12. CASE Tick \/ MarkOperationsCompleted \/ UNCHANGED vars BY <1>12, OthersGrowth
<1>13. CASE OperationResolves \/ OperationRejects \/ SpawnFails BY <1>13, OperationEndsGrowth
<1> QED
  BY <1>1, <1>2, <1>3, <1>4, <1>5, <1>6, <1>7, <1>8, <1>9, <1>10, <1>11, <1>12, <1>13 DEF Next

\* The data of the window changes only with a message.
LEMMA DataOnlyGrows == GrowthInv /\ [Next]_vars => data.seen \subseteq data'.seen
<1> SUFFICES ASSUME GrowthInv, [Next]_vars PROVE data.seen \subseteq data'.seen
  OBVIOUS
<1>1. CASE ReceiveData
  BY <1>1, ReceiveDataGrowth
<1>2. CASE ~ReceiveData
  <2>1. UNCHANGED data
    BY <1>2 DEF Next, vars, ReadRepository, FetchSucceeds, FetchFails, FetchIsIgnored, Poll,
      Subscribe, OperationActs, ProcessExits, OperationResolves, OperationRejects, SpawnFails,
      Reject, Edit, Tick, RunOperation, ReceiveProgress, MarkOperationsCompleted
  <2> QED BY <2>1
<1> QED BY <1>1, <1>2

\* The way of the data, from the repository to the window (Repository.ts,
\* serializeAsyncCall.ts, the order of the messages): what comes later has
\* seen all that what came before has seen.
THEOREM DataGrowsOnItsWay == Spec => []GrowthInv
BY InitGrowth, NextGrowth, PTL DEF Spec

\* No fetch that runs late, fails, is sent again to a window that subscribes
\* or arrives with others makes the window show the repository as it was
\* before (serverAPIState.ts, latestUncommittedChangesData).
THEOREM DataIsNeverTakenBack == Spec => DataNeverGoesBack
<1>1. GrowthInv /\ [Next]_vars => [data.seen \subseteq data'.seen]_vars
  BY DataOnlyGrows
<1> QED BY <1>1, DataGrowsOnItsWay, PTL DEF Spec, DataNeverGoesBack

----------------------------------------------------------------------------
(***************************************************************************)
(* The documents of diffs.  First numbers                                  *)
(***************************************************************************)
LEMMA SmallestOf ==
  ASSUME NEW T, T \subseteq Nat, T # {}
  PROVE  \E m \in T : \A n \in T : m <= n
<1> DEFINE R == OpToRel(<, Nat)
<1>1. IsWellFoundedOn(R, Nat) BY NatLessThanWellFounded
<1>2. PICK x \in T : \A y \in T : ~ (<<y, x>> \in R)
  <2> HIDE DEF R
  <2> QED BY <1>1, WFMin
<1>3. ASSUME NEW y \in T PROVE x <= y
  <2>1. ~(<<y, x>> \in R) BY <1>2
  <2>2. x \in Nat /\ y \in Nat OBVIOUS
  <2>3. ~(y < x) BY <2>1, <2>2, Zenon DEF OpToRel
  <2> HIDE DEF R
  <2> QED BY <2>2, <2>3
<1> HIDE DEF R
<1> QED BY <1>3

\* What the smallest and the largest number of a set are.
LEMMA MinIsIn ==
  ASSUME NEW T, T \subseteq Nat, T # {}
  PROVE  Min(T) \in T /\ \A n \in T : Min(T) <= n
BY SmallestOf DEF Min

LEMMA MaxIsIn ==
  ASSUME NEW T, T \subseteq Nat, T # {}, NEW bound \in Nat, \A n \in T : n <= bound
  PROVE  Max(T) \in T /\ \A n \in T : n <= Max(T)
<1> DEFINE Above == {m \in Nat : \A n \in T : n <= m}
<1>1. PICK m \in Above : \A k \in Above : m <= k
  <2>1. bound \in Above /\ Above \subseteq Nat
    OBVIOUS
  <2> HIDE DEF Above
  <2> QED BY <2>1, SmallestOf
<1>2. m \in T
  <2> SUFFICES ASSUME m \notin T PROVE FALSE
    OBVIOUS
  <2>1. \A n \in T : n <= m - 1
    BY <1>1
  <2>2. m # 0
    <3>1. PICK n \in T : TRUE
      OBVIOUS
    <3> QED BY <3>1, <2>1
  <2>3. m - 1 \in Above
    BY <2>1, <2>2, <1>1
  <2> QED BY <2>3, <1>1
<1>3. \A n \in T : m >= n
  BY <1>1
<1>4. \E x \in T : \A y \in T : x >= y
  BY <1>2, <1>3
<1>5. Max(T) \in T /\ \A y \in T : Max(T) >= y
  <2> HIDE DEF Above
  <2> QED BY <1>4 DEF Max
<1> QED BY <1>5

----------------------------------------------------------------------------
(***************************************************************************)
(* Sequences                                                               *)
(***************************************************************************)
\* RemoveAt, by its places.
LEMMA RemoveAtIs ==
  ASSUME NEW S, NEW q \in Seq(S), NEW k \in 1..Len(q)
  PROVE  /\ RemoveAt(q, k) \in Seq(S)
         /\ Len(RemoveAt(q, k)) = Len(q) - 1
         /\ \A j \in 1..Len(q) - 1 : RemoveAt(q, k)[j] = IF j < k THEN q[j] ELSE q[j + 1]
<1> DEFINE a == SubSeq(q, 1, k - 1)
           b == SubSeq(q, k + 1, Len(q))
<1>1. a \in Seq(S) /\ Len(a) = k - 1 /\ \A j \in 1..(k - 1) : a[j] = q[j]
  BY SubSeqProperties
<1>2. b \in Seq(S) /\ Len(b) = Len(q) - k /\ \A j \in 1..(Len(q) - k) : b[j] = q[k + j]
  BY SubSeqProperties
<1>3. RemoveAt(q, k) = a \o b
  BY DEF RemoveAt
<1> HIDE DEF a, b
<1>4. a \o b \in Seq(S) /\ Len(a \o b) = Len(a) + Len(b)
      /\ \A j \in 1..(Len(a) + Len(b)) : (a \o b)[j] = IF j <= Len(a) THEN a[j] ELSE b[j - Len(a)]
  BY <1>1, <1>2, ConcatProperties
<1>5. Len(a \o b) = Len(q) - 1
  BY <1>1, <1>2, <1>4
<1>6. ASSUME NEW j \in 1..Len(q) - 1
      PROVE  (a \o b)[j] = IF j < k THEN q[j] ELSE q[j + 1]
  <2>1. (a \o b)[j] = IF j <= k - 1 THEN a[j] ELSE b[j - (k - 1)]
    BY <1>1, <1>2, <1>4
  <2>2. CASE j < k
    BY <2>1, <2>2, <1>1
  <2>3. CASE ~(j < k)
    <3>1. j - (k - 1) \in 1..(Len(q) - k) /\ k + (j - (k - 1)) = j + 1
      BY <2>3
    <3>2. b[j - (k - 1)] = q[k + (j - (k - 1))]
      BY <3>1, <1>2
    <3> QED BY <3>1, <3>2, <2>1, <2>3
  <2> QED BY <2>2, <2>3
<1> QED BY <1>3, <1>4, <1>5, <1>6

\* Whatever is put at a place, if there is one.
LEMMA PutInSeq ==
  ASSUME NEW S, NEW q \in Seq(S), NEW i, NEW e, i \in DOMAIN q => e \in S
  PROVE  /\ [q EXCEPT ![i] = e] \in Seq(S)
         /\ DOMAIN [q EXCEPT ![i] = e] = DOMAIN q
         /\ Len([q EXCEPT ![i] = e]) = Len(q)
         /\ \A j \in DOMAIN q : [q EXCEPT ![i] = e][j] = IF j = i THEN e ELSE q[j]
<1>1. DOMAIN q = 1..Len(q) /\ \A j \in DOMAIN q : q[j] \in S
  BY LenProperties, ElementOfSeq
<1> DEFINE p == [q EXCEPT ![i] = e]
<1>2. p = [j \in DOMAIN q |-> IF j = i THEN e ELSE q[j]]
  OBVIOUS
<1>3. p \in [1..Len(q) -> S]
  BY <1>1, <1>2
<1>4. Len(q) \in Nat
  BY LenProperties
<1>5. p \in Seq(S)
  BY <1>3, <1>4, SeqDef
<1>6. Len(p) = Len(q) /\ DOMAIN p = DOMAIN q
  BY <1>1, <1>3, <1>4, <1>5, LenProperties
<1> QED BY <1>2, <1>5, <1>6

\* Append, by its places.
LEMMA AppendedIs ==
  ASSUME NEW S, NEW q \in Seq(S), NEW e \in S
  PROVE  /\ Append(q, e) \in Seq(S)
         /\ Len(Append(q, e)) = Len(q) + 1
         /\ DOMAIN Append(q, e) = 1..(Len(q) + 1)
         /\ \A j \in DOMAIN q : Append(q, e)[j] = q[j]
         /\ Append(q, e)[Len(q) + 1] = e
BY AppendProperties, LenProperties

----------------------------------------------------------------------------
(***************************************************************************)
(* The cache of Repositories, as a record                                  *)
(***************************************************************************)
CachedRepositories == [root : Roots, references : Int, isDisposed : BOOLEAN]

HeldReferences ==
  [client : {"workspace"}, cwd : Cwds, disposed : BOOLEAN, holds : Nat, value : Nat,
   promise : {"pending", "resolved", "settled"}]

Caches ==
  [repositories : Seq(CachedRepositories), reposByRoot : Seq(Nat),
   references : Seq(HeldReferences)]

\* What is in the Map exists.
IsCache(s) ==
  s \in Caches /\ \A k \in DOMAIN s.reposByRoot : s.reposByRoot[k] \in DOMAIN s.repositories

\* No Repository is found for a path.
NotFound(s, path) ==
  \A k \in DOMAIN s.reposByRoot :
    ~(Live(s, s.reposByRoot[k]) /\ path \in Inside[s.repositories[s.reposByRoot[k]].root])

\* A step of the cache finds no more than before, or creates a Repository.
Follows(s, t) ==
  \/ Len(t.repositories) = Len(s.repositories) + 1
  \/ /\ Len(t.repositories) = Len(s.repositories) /\ t.reposByRoot = s.reposByRoot
     /\ \A i \in DOMAIN s.repositories :
          /\ t.repositories[i].root = s.repositories[i].root
          /\ s.repositories[i].isDisposed => t.repositories[i].isDisposed

\* The fields of a cache.
LEMMA CacheFields ==
  ASSUME NEW s, IsCache(s)
  PROVE  /\ s.repositories \in Seq(CachedRepositories)
         /\ s.reposByRoot \in Seq(Nat)
         /\ s.references \in Seq(HeldReferences)
         /\ DOMAIN s.repositories = 1..Len(s.repositories) /\ Len(s.repositories) \in Nat
         /\ DOMAIN s.reposByRoot = 1..Len(s.reposByRoot) /\ Len(s.reposByRoot) \in Nat
         /\ DOMAIN s.references = 1..Len(s.references) /\ Len(s.references) \in Nat
<1>1. s.repositories \in Seq(CachedRepositories) /\ s.reposByRoot \in Seq(Nat)
      /\ s.references \in Seq(HeldReferences)
  BY DEF IsCache, Caches
<1> QED BY <1>1, LenProperties

\* lookup gives a Repository back unless none is found.
LEMMA LookupIsFound ==
  ASSUME NEW s, IsCache(s), NEW path
  PROVE  /\ Lookup(s, path) \in 0..Len(s.repositories)
         /\ Lookup(s, path) = None <=> NotFound(s, path)
<1> DEFINE places ==
      {k \in DOMAIN s.reposByRoot :
         Live(s, s.reposByRoot[k]) /\ path \in Inside[s.repositories[s.reposByRoot[k]].root]}
<1>1. Lookup(s, path) = IF places = {} THEN None ELSE s.reposByRoot[Min(places)]
  BY DEF Lookup
<1>2. NotFound(s, path) <=> places = {}
  BY DEF NotFound
<1>3. CASE places = {}
  <2>1. Len(s.repositories) \in Nat
    BY CacheFields
  <2> HIDE DEF places
  <2>2. Lookup(s, path) = 0 /\ NotFound(s, path)
    BY <1>1, <1>2, <1>3 DEF None
  <2> QED BY <2>1, <2>2 DEF None
<1>4. CASE places # {}
  <2>1. places \subseteq Nat
    BY CacheFields
  <2>2. Min(places) \in places
    <3> HIDE DEF places
    <3> QED BY <1>4, <2>1, MinIsIn
  <2>3. s.reposByRoot[Min(places)] \in 1..Len(s.repositories)
    BY <2>2, CacheFields DEF IsCache
  <2> HIDE DEF places
  <2> QED BY <2>3, <1>1, <1>2, <1>4, CacheFields DEF None
<1> QED BY <1>3, <1>4

\* While none is created, a path without a Repository stays one.
LEMMA LessIsFound ==
  ASSUME NEW s, NEW t, IsCache(s), Follows(s, t),
         Len(t.repositories) = Len(s.repositories), NEW path, NotFound(s, path)
  PROVE  NotFound(t, path)
<1>1. t.reposByRoot = s.reposByRoot
      /\ \A i \in DOMAIN s.repositories :
          /\ t.repositories[i].root = s.repositories[i].root
          /\ s.repositories[i].isDisposed => t.repositories[i].isDisposed
  BY CacheFields DEF Follows
<1>2. ASSUME NEW k \in DOMAIN t.reposByRoot
      PROVE  ~(Live(t, t.reposByRoot[k]) /\ path \in Inside[t.repositories[t.reposByRoot[k]].root])
  BY <1>1, <1>2 DEF NotFound, Live, IsCache
<1> QED BY <1>2 DEF NotFound

\* The parts of the operations: references alone, and one Repository.
LEMMA ReferencesChange ==
  ASSUME NEW s, IsCache(s), NEW refs \in Seq(HeldReferences)
  PROVE  IsCache([s EXCEPT !.references = refs]) /\ Follows(s, [s EXCEPT !.references = refs])
<1> DEFINE t == [s EXCEPT !.references = refs]
<1>1. t \in Caches
  BY DEF IsCache, Caches
<1>2. t.repositories = s.repositories /\ t.reposByRoot = s.reposByRoot
  BY DEF IsCache, Caches
<1> HIDE DEF t
<1>3. IsCache(t) /\ Follows(s, t)
  BY <1>1, <1>2 DEF IsCache, Follows
<1> QED BY <1>3 DEF t

LEMMA RepositoryChanges ==
  ASSUME NEW s, IsCache(s), NEW i, NEW x,
         i \in DOMAIN s.repositories =>
           /\ x \in CachedRepositories /\ x.root = s.repositories[i].root
           /\ s.repositories[i].isDisposed => x.isDisposed
  PROVE  /\ IsCache([s EXCEPT !.repositories = [@ EXCEPT ![i] = x]])
         /\ Follows(s, [s EXCEPT !.repositories = [@ EXCEPT ![i] = x]])
<1> DEFINE t == [s EXCEPT !.repositories = [@ EXCEPT ![i] = x]]
           q == [s.repositories EXCEPT ![i] = x]
<1>1. q \in Seq(CachedRepositories) /\ DOMAIN q = DOMAIN s.repositories
      /\ Len(q) = Len(s.repositories)
      /\ \A j \in DOMAIN s.repositories : q[j] = IF j = i THEN x ELSE s.repositories[j]
  <2>1. s.repositories \in Seq(CachedRepositories)
    BY CacheFields
  <2>2. i \in DOMAIN s.repositories => x \in CachedRepositories
    OBVIOUS
  <2>3. PICK was : was = s.repositories
    OBVIOUS
  <2>4. q = [was EXCEPT ![i] = x] /\ was \in Seq(CachedRepositories)
    BY <2>1, <2>3
  <2>5. i \in DOMAIN was => x \in CachedRepositories
    BY <2>2, <2>3
  <2> HIDE DEF q
  <2>6. /\ q \in Seq(CachedRepositories) /\ DOMAIN q = DOMAIN was /\ Len(q) = Len(was)
        /\ \A j \in DOMAIN was : q[j] = IF j = i THEN x ELSE was[j]
    BY <2>4, <2>5, PutInSeq
  <2> QED BY <2>3, <2>6
<1> HIDE DEF q
<1>2. t = [s EXCEPT !.repositories = q]
  BY DEF q
<1>3. t \in Caches
  BY <1>1, <1>2 DEF IsCache, Caches
<1>4. t.repositories = q /\ t.reposByRoot = s.reposByRoot
  BY <1>2 DEF IsCache, Caches
<1> HIDE DEF t
<1>5. IsCache(t)
  BY <1>1, <1>3, <1>4 DEF IsCache
<1>6. Follows(s, t)
  BY <1>1, <1>4 DEF Follows
<1> QED BY <1>5, <1>6 DEF t

\* RefCounted.ref and RefCounted.dispose.
LEMMA ReferenceIsAdded ==
  ASSUME NEW s, IsCache(s), NEW i
  PROVE  /\ IsCache(AddReference(s, i)) /\ Follows(s, AddReference(s, i))
         /\ AddReference(s, i).references = s.references
         /\ Len(AddReference(s, i).repositories) = Len(s.repositories)
<1> DEFINE x == [s.repositories[i] EXCEPT !.references = @ + 1]
           t == [s EXCEPT !.repositories = [@ EXCEPT ![i] = x]]
<1>1. AddReference(s, i) = t
  BY DEF AddReference
<1>2. ASSUME i \in DOMAIN s.repositories
      PROVE  /\ x \in CachedRepositories /\ x.root = s.repositories[i].root
             /\ s.repositories[i].isDisposed => x.isDisposed
  <2>1. s.repositories[i] \in CachedRepositories
    BY <1>2, CacheFields, ElementOfSeq
  <2> QED BY <2>1 DEF CachedRepositories
<1>3. t.references = s.references
  BY DEF IsCache, Caches
<1>4. t.repositories = [s.repositories EXCEPT ![i] = x]
  BY DEF IsCache, Caches
<1> HIDE DEF x
<1>5. IsCache(t) /\ Follows(s, t)
  BY <1>2, RepositoryChanges
<1>6. Len(t.repositories) = Len(s.repositories)
  BY <1>4, <1>2, PutInSeq, CacheFields
<1> QED BY <1>1, <1>3, <1>5, <1>6

LEMMA ReferenceIsDropped ==
  ASSUME NEW s, IsCache(s), NEW i
  PROVE  IsCache(DropReference(s, i)) /\ Follows(s, DropReference(s, i))
<1> DEFINE left == s.repositories[i].references - 1
           x == [s.repositories[i] EXCEPT !.references = left, !.isDisposed = @ \/ left = 0]
           t == [s EXCEPT !.repositories = [@ EXCEPT ![i] = x]]
<1>1. DropReference(s, i) = t
  BY DEF DropReference
<1>2. ASSUME i \in DOMAIN s.repositories
      PROVE  /\ x \in CachedRepositories /\ x.root = s.repositories[i].root
             /\ s.repositories[i].isDisposed => x.isDisposed
  <2>1. s.repositories[i] \in CachedRepositories
    BY <1>2, CacheFields, ElementOfSeq
  <2>2. left \in Int
    BY <2>1 DEF CachedRepositories
  <2> HIDE DEF left
  <2>3. x \in CachedRepositories
    BY <2>1, <2>2 DEF CachedRepositories
  <2>4. x.root = s.repositories[i].root
    BY <2>1 DEF CachedRepositories
  <2>5. s.repositories[i].isDisposed => x.isDisposed
    BY <2>1 DEF CachedRepositories
  <2> QED BY <2>3, <2>4, <2>5
<1> HIDE DEF x
<1>3. IsCache(t) /\ Follows(s, t)
  BY <1>2, RepositoryChanges
<1> QED BY <1>1, <1>3

\* A reference gets its Repository, or is disposed of.
LEMMA NumberedReference ==
  ASSUME NEW s, IsCache(s), NEW r, NEW i \in Nat
  PROVE  /\ IsCache(Resolve(s, r, i)) /\ Follows(s, Resolve(s, r, i))
         /\ Resolve(s, r, i).repositories = s.repositories
         /\ Resolve(s, r, i).reposByRoot = s.reposByRoot
<1> DEFINE x == [s.references[r] EXCEPT !.promise = "resolved", !.value = i, !.holds = i]
           refs == [s.references EXCEPT ![r] = x]
<1>1. ASSUME r \in DOMAIN s.references
      PROVE  x \in HeldReferences
  <2>1. s.references[r] \in HeldReferences
    BY <1>1, CacheFields, ElementOfSeq
  <2> QED BY <2>1 DEF HeldReferences
<1>2. Resolve(s, r, i) = [s EXCEPT !.references = refs]
  BY DEF Resolve
<1>3. refs \in Seq(HeldReferences)
  <2> HIDE DEF x
  <2> QED BY <1>1, CacheFields, PutInSeq
<1>4. [s EXCEPT !.references = refs].repositories = s.repositories
      /\ [s EXCEPT !.references = refs].reposByRoot = s.reposByRoot
  BY DEF IsCache, Caches
<1> HIDE DEF refs
<1> QED BY <1>2, <1>3, <1>4, ReferencesChange

LEMMA DisposedReference ==
  ASSUME NEW s, IsCache(s), NEW r
  PROVE  LET t == [s EXCEPT !.references[r].disposed = TRUE]
         IN  /\ IsCache(t) /\ t.repositories = s.repositories /\ t.reposByRoot = s.reposByRoot
<1> DEFINE x == [s.references[r] EXCEPT !.disposed = TRUE]
           refs == [s.references EXCEPT ![r] = x]
<1>1. ASSUME r \in DOMAIN s.references
      PROVE  x \in HeldReferences
  <2>1. s.references[r] \in HeldReferences
    BY <1>1, CacheFields, ElementOfSeq
  <2> QED BY <2>1 DEF HeldReferences
<1>2. [s EXCEPT !.references[r].disposed = TRUE] = [s EXCEPT !.references = refs]
  OBVIOUS
<1>3. refs \in Seq(HeldReferences)
  <2> HIDE DEF x
  <2> QED BY <1>1, CacheFields, PutInSeq
<1>4. [s EXCEPT !.references = refs].repositories = s.repositories
      /\ [s EXCEPT !.references = refs].reposByRoot = s.reposByRoot
  BY DEF IsCache, Caches
<1> HIDE DEF refs
<1> QED BY <1>2, <1>3, <1>4, ReferencesChange

\* getOrCreate and unref.
LEMMA ReferenceIsGiven ==
  ASSUME NEW s, IsCache(s), NEW c \in {"workspace"}, NEW cwd \in Cwds
  PROVE  IsCache(GetOrCreate(s, c, cwd)) /\ Follows(s, GetOrCreate(s, c, cwd))
<1> DEFINE i == Lookup(s, cwd)
           t == IF i = None THEN s ELSE AddReference(s, i)
           refs == Append(t.references, Reference(c, cwd, i))
           u == [t EXCEPT !.references = refs]
<1>1. GetOrCreate(s, c, cwd) = u
  BY DEF GetOrCreate
<1>2. i \in Nat
  BY LookupIsFound, CacheFields
<1> HIDE DEF i
<1>3. IsCache(t) /\ Follows(s, t) /\ Len(t.repositories) = Len(s.repositories)
  BY ReferenceIsAdded DEF Follows
<1> HIDE DEF t
<1>4. Reference(c, cwd, i) \in HeldReferences
  BY <1>2 DEF Reference, HeldReferences
<1>5. refs \in Seq(HeldReferences)
  BY <1>3, <1>4, CacheFields, AppendedIs
<1> HIDE DEF refs
<1>6. IsCache(u) /\ u.repositories = t.repositories /\ u.reposByRoot = t.reposByRoot
  BY <1>3, <1>5, ReferencesChange DEF IsCache, Caches
<1> HIDE DEF u
<1>7. Follows(s, u)
  BY <1>3, <1>6 DEF Follows
<1> QED BY <1>1, <1>6, <1>7

LEMMA ReferenceIsReturned ==
  ASSUME NEW s, IsCache(s), NEW r
  PROVE  IsCache(Unref(s, r)) /\ Follows(s, Unref(s, r))
<1> DEFINE t == [s EXCEPT !.references[r].disposed = TRUE]
           i == s.references[r].holds
<1>1. IsCache(t) /\ t.repositories = s.repositories /\ t.reposByRoot = s.reposByRoot
  BY DisposedReference
<1>2. Unref(s, r) = IF s.references[r].disposed THEN s
                    ELSE IF i = None THEN t ELSE DropReference(t, i)
  BY DEF Unref
<1> HIDE DEF t, i
<1>3. IsCache(DropReference(t, i)) /\ Follows(t, DropReference(t, i))
  BY <1>1, ReferenceIsDropped
<1>4. Follows(s, DropReference(t, i)) /\ Follows(s, t) /\ Follows(s, s)
  BY <1>1, <1>3 DEF Follows
<1> QED BY <1>1, <1>2, <1>3, <1>4

\* lookupRepoInfoAndReuseIfPossible, by its two ends.
LEMMA RepositoryIsCreated ==
  ASSUME NEW s, IsCache(s), NEW r, NEW root \in Roots
  PROVE  IsCache(Create(s, r, root)) /\ Follows(s, Create(s, r, root))
<1> DEFINE i == Len(s.repositories) + 1
           t == SetByRoot(s, root, i)
           places == {k \in DOMAIN s.reposByRoot : s.repositories[s.reposByRoot[k]].root = root}
           x == [root |-> root, references |-> 1, isDisposed |-> FALSE]
           repos == Append(t.repositories, x)
           u == [t EXCEPT !.repositories = repos]
<1>1. Create(s, r, root) = Resolve(u, r, i)
  BY DEF Create
<1>2. i \in Nat
  BY CacheFields
<1>3. \E q \in Seq(Nat) :
        /\ t = [s EXCEPT !.reposByRoot = q]
        /\ \A k \in DOMAIN q : q[k] \in 1..i
  <2> DEFINE f == s.reposByRoot
  <2>1. f \in Seq(Nat) /\ \A k \in DOMAIN f : f[k] \in 1..i
    BY CacheFields DEF IsCache
  <2>2. t = IF places = {} THEN [s EXCEPT !.reposByRoot = Append(f, i)]
            ELSE [s EXCEPT !.reposByRoot = [f EXCEPT ![Min(places)] = i]]
    BY DEF SetByRoot
  <2> HIDE DEF f, places, t
  <2>3. Append(f, i) \in Seq(Nat) /\ \A k \in DOMAIN Append(f, i) : Append(f, i)[k] \in 1..i
    <3> HIDE DEF i
    <3>1. i \in 1..i /\ DOMAIN f = 1..Len(f) /\ Len(f) \in Nat
      BY <1>2, <2>1, LenProperties, CacheFields DEF i
    <3> QED BY <1>2, <2>1, <3>1, AppendedIs
  <2>4. [f EXCEPT ![Min(places)] = i] \in Seq(Nat)
        /\ \A k \in DOMAIN [f EXCEPT ![Min(places)] = i] : [f EXCEPT ![Min(places)] = i][k] \in 1..i
    <3>1. i \in 1..i
      BY CacheFields
    <3> HIDE DEF i
    <3> QED BY <1>2, <2>1, <3>1, PutInSeq
  <2> QED BY <2>2, <2>3, <2>4
<1>4. PICK q \in Seq(Nat) :
        /\ t = [s EXCEPT !.reposByRoot = q]
        /\ \A k \in DOMAIN q : q[k] \in 1..i
  BY <1>3
<1> HIDE DEF t
<1>5. t \in Caches /\ t.repositories = s.repositories /\ t.reposByRoot = q
  BY <1>4 DEF IsCache, Caches
<1>6. x \in CachedRepositories
  BY DEF CachedRepositories
<1> HIDE DEF x
<1>7. repos \in Seq(CachedRepositories) /\ Len(repos) = i /\ DOMAIN repos = 1..i
  BY <1>5, <1>6, CacheFields, AppendedIs
<1> HIDE DEF repos
<1>8. u \in Caches /\ u.repositories = repos /\ u.reposByRoot = q
  BY <1>5, <1>7 DEF Caches
<1> HIDE DEF u
<1>9. IsCache(u)
  BY <1>4, <1>7, <1>8 DEF IsCache
<1>10. IsCache(Resolve(u, r, i)) /\ Resolve(u, r, i).repositories = u.repositories
  BY <1>2, <1>9, NumberedReference
<1> QED BY <1>1, <1>7, <1>8, <1>10 DEF Follows

LEMMA RepositoryIsTaken ==
  ASSUME NEW s, IsCache(s), NEW r, NEW root \in Roots
  PROVE  IsCache(CreateForReference(s, r, root)) /\ Follows(s, CreateForReference(s, r, root))
<1> DEFINE i == Lookup(s, root)
<1>1. i \in Nat
  BY LookupIsFound, CacheFields
<1>2. IsCache(Resolve(s, r, None)) /\ Follows(s, Resolve(s, r, None))
  BY NumberedReference DEF None
<1>3. IsCache(AddReference(s, i)) /\ Follows(s, AddReference(s, i))
      /\ Len(AddReference(s, i).repositories) = Len(s.repositories)
  BY ReferenceIsAdded
<1>4. CreateForReference(s, r, root) =
        IF s.references[r].disposed THEN Resolve(s, r, None)
        ELSE IF i # None THEN Resolve(AddReference(s, i), r, i) ELSE Create(s, r, root)
  BY DEF CreateForReference
<1> HIDE DEF i
<1>5. /\ IsCache(Resolve(AddReference(s, i), r, i))
      /\ Resolve(AddReference(s, i), r, i).repositories = AddReference(s, i).repositories
      /\ Resolve(AddReference(s, i), r, i).reposByRoot = AddReference(s, i).reposByRoot
  BY <1>1, <1>3, NumberedReference
<1>6. Follows(s, Resolve(AddReference(s, i), r, i))
  BY <1>3, <1>5 DEF Follows
<1>7. IsCache(Create(s, r, root)) /\ Follows(s, Create(s, r, root))
  BY RepositoryIsCreated
<1> QED BY <1>2, <1>4, <1>5, <1>6, <1>7

----------------------------------------------------------------------------
(***************************************************************************)
(* The invariant: a document that shows nothing is to be asked for again,  *)
(* is waited for, or is remembered as one without a Repository.            *)
(***************************************************************************)
CatResults == Nat \cup {Failed}

Entries == [uri : Documents, content : CatResults]

Calls == [uri : Documents, content : CatResults, wanted : BOOLEAN]

GitTypes ==
  /\ head \in [Roots -> DiffBranches]
  /\ commits \in [Roots -> [DiffBranches -> Seq(Nat)]]
  /\ \A root \in Roots, b \in DiffBranches :
       /\ commits[root][b] # <<>>
       /\ \A k \in DOMAIN commits[root][b] : commits[root][b][k] <= MaxCommits + 3

ProviderTypes ==
  /\ activeUris \in [0..Len(repositories) -> SUBSET Documents]
  /\ fileContents \in Seq(Entries)
  /\ cats \in Seq(Seq(Calls)) /\ Len(cats) = Len(repositories)
  /\ open \subseteq Documents /\ shown \in [Documents -> Int]

IsAwaited(u) ==
  \E i \in DOMAIN cats : \E k \in DOMAIN cats[i] : cats[i][k].uri = u /\ cats[i][k].wanted

IsRemembered(u) == u \in activeUris[None] /\ NotFound(Cache, u.file)

NoneForgotten ==
  \A u \in open : shown[u] = Nothing => u \in told \/ IsAwaited(u) \/ IsRemembered(u)

DiffInv == GitTypes /\ IsCache(Cache) /\ ProviderTypes /\ NoneForgotten

----------------------------------------------------------------------------
(***************************************************************************)
(* The commits of git                                                      *)
(***************************************************************************)
\* There is a last commit, so that the next one has a number.
LEMMA LastCommitIs ==
  ASSUME GitTypes, MaxCommits \in Nat, NEW root0 \in Roots, NEW b0 \in DiffBranches
  PROVE  LastCommit \in Nat
<1> DEFINE all == UNION {Range(commits[x[1]][x[2]]) : x \in Roots \X DiffBranches}
<1>1. ASSUME NEW n \in all
      PROVE  n \in Nat /\ n <= MaxCommits + 3
  <2>1. PICK x \in Roots \X DiffBranches : n \in Range(commits[x[1]][x[2]])
    OBVIOUS
  <2>2. PICK k \in DOMAIN commits[x[1]][x[2]] : n = commits[x[1]][x[2]][k]
    BY <2>1 DEF Range
  <2>3. x[1] \in Roots /\ x[2] \in DiffBranches
    OBVIOUS
  <2>4. commits[x[1]][x[2]] \in Seq(Nat)
    BY <2>3 DEF GitTypes
  <2>5. n \in Nat
    BY <2>2, <2>4, ElementOfSeq, LenProperties
  <2>6. n <= MaxCommits + 3
    BY <2>2, <2>3 DEF GitTypes
  <2> QED BY <2>5, <2>6
<1>2. all # {}
  <2>1. commits[root0][b0] \in Seq(Nat) /\ commits[root0][b0] # <<>>
    BY DEF GitTypes
  <2>2. 1 \in DOMAIN commits[root0][b0]
    <3> DEFINE q == commits[root0][b0]
    <3>1. q \in Seq(Nat) /\ q # <<>>
      BY <2>1
    <3> HIDE DEF q
    <3>2. Len(q) # 0
      BY <3>1, EmptySeq
    <3>3. 1 \in DOMAIN q
      BY <3>1, <3>2, LenProperties
    <3> QED BY <3>3 DEF q
  <2>3. commits[root0][b0][1] \in Range(commits[root0][b0])
    BY <2>2 DEF Range
  <2>4. <<root0, b0>> \in Roots \X DiffBranches /\ <<root0, b0>>[1] = root0 /\ <<root0, b0>>[2] = b0
    OBVIOUS
  <2> QED BY <2>3, <2>4
<1>3. MaxCommits + 3 \in Nat
  OBVIOUS
<1> HIDE DEF all
<1>4. Max(all) \in all
  <2>1. all \subseteq Nat /\ \A n \in all : n <= MaxCommits + 3
    BY <1>1
  <2> QED BY <2>1, <1>2, <1>3, MaxIsIn
<1> QED BY <1>1, <1>4 DEF LastCommit, all

\* The last commit of a branch, and those before it.
LEMMA LastIsNumber ==
  ASSUME NEW q \in Seq(Nat), q # <<>>
  PROVE  /\ Len(q) \in Nat \ {0} /\ DOMAIN q = 1..Len(q) /\ \A k \in 1..Len(q) : q[k] \in Nat
         /\ Last(q) \in Nat
<1>1. Len(q) \in Nat \ {0} /\ DOMAIN q = 1..Len(q)
  BY EmptySeq, LenProperties
<1>2. \A k \in 1..Len(q) : q[k] \in Nat
  BY ElementOfSeq
<1>3. Last(q) = q[Len(q)]
  BY DEF Last
<1> QED BY <1>1, <1>2, <1>3

LEMMA FrontIs ==
  ASSUME NEW q \in Seq(Nat), q # <<>>
  PROVE  /\ Front(q) \in Seq(Nat) /\ DOMAIN Front(q) = 1..(Len(q) - 1)
         /\ \A k \in 1..(Len(q) - 1) : Front(q)[k] = q[k]
<1>1. Len(q) \in Nat \ {0}
  BY LastIsNumber
<1>2. PICK k \in 1..Len(q) : k = Len(q)
  BY <1>1
<1> DEFINE a == SubSeq(q, 1, k - 1)
<1>3. a \in Seq(Nat) /\ Len(a) = k - 1 /\ \A j \in 1..(k - 1) : a[j] = q[j]
  BY SubSeqProperties
<1>4. a \in Seq(Nat) /\ Len(a) = Len(q) - 1 /\ \A j \in 1..(Len(q) - 1) : a[j] = q[j]
  BY <1>2, <1>3
<1>5. Front(q) = a
  BY <1>2 DEF Front
<1> HIDE DEF a
<1> QED BY <1>4, <1>5, LenProperties

\* git finds a commit for whatever is compared.
LEMMA RelativeCatIs ==
  ASSUME GitTypes, DiffAssumption, NEW root \in Roots, NEW u \in Documents
  PROVE  RelativeCat(root, u) \in Nat
<1> DEFINE b == IF u.ref = NoRef THEN head[root] ELSE u.ref
           own == commits[root][b]
           before == IF Len(own) > 1 THEN own[Len(own) - 1] ELSE commits[root][DiffTrunk][1]
<1>1. u.ref \in DiffBranches \cup {NoRef} /\ u.type \in {"uncommitted", "head", "stack"}
      /\ DiffTrunk \in DiffBranches
  BY DEF DiffAssumption
<1>2. b \in DiffBranches /\ head[root] \in DiffBranches
  BY <1>1 DEF GitTypes
<1>3. ASSUME NEW c \in DiffBranches
      PROVE  commits[root][c] \in Seq(Nat) /\ commits[root][c] # <<>>
  BY DEF GitTypes
<1>4. Tip(root, head[root]) \in Nat /\ Tip(root, DiffTrunk) \in Nat
  BY <1>1, <1>2, <1>3, LastIsNumber DEF Tip
<1> HIDE DEF b
<1>5. own \in Seq(Nat) /\ own # <<>>
  BY <1>2, <1>3
<1>6. commits[root][DiffTrunk][1] \in Nat
  <2>1. commits[root][DiffTrunk] \in Seq(Nat) /\ commits[root][DiffTrunk] # <<>>
    BY <1>1, <1>3
  <2>2. 1 \in 1..Len(commits[root][DiffTrunk])
    BY <2>1, LastIsNumber
  <2> QED BY <2>1, <2>2, LastIsNumber
<1> HIDE DEF own
<1>7. before \in Nat
  BY <1>5, <1>6, LastIsNumber
<1>8. RelativeCat(root, u) =
        CASE u.type = "uncommitted" -> Tip(root, head[root])
          [] u.type = "head" -> before
          [] u.type = "stack" -> IF b = DiffTrunk THEN before ELSE Tip(root, DiffTrunk)
  BY DEF RelativeCat, own, b
<1> HIDE DEF before
<1>9. RelativeCat(root, u) \in {Tip(root, head[root]), before, Tip(root, DiffTrunk)}
  BY <1>1, <1>8
<1> QED BY <1>4, <1>7, <1>9

\* A commit, or an amended one, leaves no branch empty.
LEMMA CommitsAreKept ==
  ASSUME GitTypes, MaxCommits \in Nat, NEW root \in Roots, NEW amend \in BOOLEAN, Commit(root, amend)
  PROVE  GitTypes'
<1> DEFINE old == commits[root][head[root]]
           below == IF amend THEN Front(old) ELSE old
           new == Append(below, LastCommit + 1)
<1>1. head[root] \in DiffBranches
  BY DEF GitTypes
<1>2. old \in Seq(Nat) /\ old # <<>> /\ \A k \in DOMAIN old : old[k] <= MaxCommits + 3
  BY <1>1 DEF GitTypes
<1>3. LastCommit \in Nat /\ LastCommit + 1 \in Nat /\ LastCommit + 1 <= MaxCommits + 3
  <2>1. LastCommit \in Nat
    BY <1>1, LastCommitIs
  <2>2. LastCommit < MaxCommits + 3
    BY DEF Commit
  <2> QED BY <2>1, <2>2
<1>4. commits' = [commits EXCEPT ![root][head[root]] = new] /\ head' = head
  BY DEF Commit
<1> HIDE DEF old
<1>5. below \in Seq(Nat) /\ \A k \in DOMAIN below : below[k] <= MaxCommits + 3
  <2>1. CASE ~amend
    BY <1>2, <2>1
  <2>2. CASE amend
    <3>1. below = Front(old)
      BY <2>2
    <3>2. DOMAIN old = 1..Len(old) /\ Len(old) \in Nat
      BY <1>2, LastIsNumber
    <3>3. /\ Front(old) \in Seq(Nat) /\ DOMAIN Front(old) = 1..(Len(old) - 1)
          /\ \A k \in 1..(Len(old) - 1) : Front(old)[k] = old[k]
      BY <1>2, FrontIs
    <3>4. ASSUME NEW k \in DOMAIN Front(old) PROVE Front(old)[k] <= MaxCommits + 3
      <4> HIDE DEF below
      <4>1. k \in 1..(Len(old) - 1) /\ k \in DOMAIN old
        BY <3>2, <3>3
      <4>2. Front(old)[k] = old[k]
        BY <3>3, <4>1
      <4> QED BY <1>2, <4>1, <4>2
    <3> HIDE DEF below
    <3> QED BY <3>1, <3>3, <3>4
  <2> QED BY <2>1, <2>2
<1> HIDE DEF below
<1>6. new \in Seq(Nat) /\ new # <<>> /\ \A k \in DOMAIN new : new[k] <= MaxCommits + 3
  <2>1. new \in Seq(Nat) /\ Len(new) = Len(below) + 1 /\ DOMAIN new = 1..(Len(below) + 1)
        /\ (\A k \in DOMAIN below : new[k] = below[k]) /\ new[Len(below) + 1] = LastCommit + 1
    BY <1>3, <1>5, AppendedIs
  <2>2. DOMAIN below = 1..Len(below) /\ Len(below) \in Nat
    BY <1>5, LenProperties
  <2>3. Len(new) # 0 /\ Len(<<>>) = 0
    BY <2>1, <2>2
  <2> HIDE DEF new
  <2>4. new # <<>>
    BY <2>3
  <2>5. ASSUME NEW k \in DOMAIN new PROVE new[k] <= MaxCommits + 3
    <3>1. CASE k = Len(below) + 1
      BY <1>3, <2>1, <3>1
    <3>2. CASE k # Len(below) + 1
      <4>1. k \in DOMAIN below
        BY <2>1, <2>2, <3>2
      <4> QED BY <1>5, <2>1, <4>1
    <3> QED BY <3>1, <3>2
  <2> QED BY <2>1, <2>4, <2>5
<1> HIDE DEF new
<1>7. commits' = [commits EXCEPT ![root] = [commits[root] EXCEPT ![head[root]] = new]]
  BY <1>4
<1>8. commits' \in [Roots -> [DiffBranches -> Seq(Nat)]]
  BY <1>1, <1>6, <1>7 DEF GitTypes
<1>9. ASSUME NEW x \in Roots, NEW b \in DiffBranches
      PROVE  commits'[x][b] = IF x = root /\ b = head[root] THEN new ELSE commits[x][b]
  BY <1>7, <1>1 DEF GitTypes
<1>10. head' \in [Roots -> DiffBranches]
  BY <1>4 DEF GitTypes
<1>11. ASSUME NEW x \in Roots, NEW b \in DiffBranches
       PROVE  /\ commits'[x][b] # <<>>
              /\ \A k \in DOMAIN commits'[x][b] : commits'[x][b][k] <= MaxCommits + 3
  <2>1. CASE x = root /\ b = head[root]
    <3>1. commits'[x][b] = new
      BY <1>9, <2>1
    <3> QED BY <1>6, <3>1
  <2>2. CASE ~(x = root /\ b = head[root])
    <3>1. commits'[x][b] = commits[x][b]
      BY <1>9, <2>2
    <3> QED BY <3>1 DEF GitTypes
  <2> QED BY <2>1, <2>2
<1> QED BY <1>8, <1>10, <1>11 DEF GitTypes

----------------------------------------------------------------------------
(***************************************************************************)
(* The LRU and the calls                                                   *)
(***************************************************************************)
\* The LRU holds what was stored: an answer of it is one of `cat`.
LEMMA LruIs ==
  ASSUME NEW lru \in Seq(Entries), NEW u \in Documents, NEW content \in CatResults
  PROVE  /\ IsCached(lru, u) => Place(lru, u) \in 1..Len(lru) /\ lru[Place(lru, u)].content \in CatResults
         /\ Refreshed(lru, u) \in Seq(Entries)
         /\ Stored(lru, u, content) \in Seq(Entries)
<1>1. DOMAIN lru = 1..Len(lru) /\ Len(lru) \in Nat
  BY LenProperties
<1>2. ASSUME IsCached(lru, u)
      PROVE  Place(lru, u) \in 1..Len(lru) /\ lru[Place(lru, u)] \in Entries
  <2>1. Place(lru, u) \in 1..Len(lru)
    BY <1>1, <1>2, Zenon DEF IsCached, Place
  <2> QED BY <2>1, ElementOfSeq
<1>3. Without(lru, u) \in Seq(Entries)
  BY <1>2, RemoveAtIs DEF Without
<1>4. Refreshed(lru, u) \in Seq(Entries)
  BY <1>2, <1>3, AppendedIs DEF Refreshed
<1>5. Stored(lru, u, content) \in Seq(Entries)
  <2> DEFINE x == [uri |-> u, content |-> content]
             all == Append(Without(lru, u), x)
  <2>1. x \in Entries
    BY DEF Entries
  <2> HIDE DEF x
  <2>2. all \in Seq(Entries) /\ Len(all) = Len(Without(lru, u)) + 1
    BY <1>3, <2>1, AppendedIs
  <2>3. Stored(lru, u, content) = IF Len(all) > MaxItems THEN Tail(all) ELSE all
    BY DEF Stored, x
  <2>4. all # <<>>
    BY <2>2, <1>3, LenProperties, EmptySeq
  <2> HIDE DEF all
  <2>5. Tail(all) \in Seq(Entries)
    BY <2>2, <2>4, HeadTailProperties
  <2> QED BY <2>2, <2>3, <2>5
<1>6. IsCached(lru, u) => lru[Place(lru, u)].content \in CatResults
  BY <1>2 DEF Entries
<1> QED BY <1>2, <1>4, <1>5, <1>6

\* The calls of a Repository, and those of them that run.
LEMMA CatsAre ==
  ASSUME ProviderTypes, NEW i \in DOMAIN cats
  PROVE  /\ i \in 1..Len(cats) /\ cats[i] \in Seq(Calls) /\ DOMAIN cats[i] = 1..Len(cats[i])
         /\ Len(cats[i]) \in Nat
         /\ \A k \in DOMAIN cats[i] : cats[i][k] \in Calls
<1>1. i \in 1..Len(cats) /\ cats[i] \in Seq(Calls)
  BY LenProperties, ElementOfSeq DEF ProviderTypes
<1> QED BY <1>1, LenProperties, ElementOfSeq

LEMMA RunningIs ==
  ASSUME ProviderTypes, DiffAssumption, NEW i \in DOMAIN cats, NEW k \in Running(i)
  PROVE  k \in 1..Len(cats[i])
<1> DEFINE T == {MaxCats, Len(cats[i])}
<1>1. MaxCats \in Nat /\ Len(cats[i]) \in Nat
  BY CatsAre DEF DiffAssumption
<1>2. Min(T) \in T /\ Min(T) <= Len(cats[i])
  <2>1. T \subseteq Nat /\ T # {}
    BY <1>1
  <2>2. Len(cats[i]) \in T
    OBVIOUS
  <2> HIDE DEF T
  <2> QED BY <2>1, <2>2, MinIsIn
<1>3. k \in 1..Min(T)
  BY DEF Running
<1>4. Min(T) \in Nat
  BY <1>1, <1>2
<1> HIDE DEF T
<1> QED BY <1>1, <1>2, <1>3, <1>4

\* The queue of one Repository changes.
LEMMA RowIsPut ==
  ASSUME NEW q \in Seq(Seq(Calls)), NEW i, NEW row \in Seq(Calls)
  PROVE  /\ [q EXCEPT ![i] = row] \in Seq(Seq(Calls))
         /\ DOMAIN [q EXCEPT ![i] = row] = DOMAIN q
         /\ Len([q EXCEPT ![i] = row]) = Len(q)
         /\ \A j \in DOMAIN q : [q EXCEPT ![i] = row][j] = IF j = i THEN row ELSE q[j]
<1>1. PICK S : S = Seq(Calls)
  OBVIOUS
<1>2. q \in Seq(S) /\ (i \in DOMAIN q => row \in S)
  BY <1>1
<1>3. /\ [q EXCEPT ![i] = row] \in Seq(S)
      /\ DOMAIN [q EXCEPT ![i] = row] = DOMAIN q
      /\ Len([q EXCEPT ![i] = row]) = Len(q)
      /\ \A j \in DOMAIN q : [q EXCEPT ![i] = row][j] = IF j = i THEN row ELSE q[j]
  BY <1>2, PutInSeq
<1> QED BY <1>1, <1>3

\* Other documents are waited for as before.
LEMMA ForgetIs ==
  ASSUME ProviderTypes, NEW u
  PROVE  /\ Forget(u) \in Seq(Seq(Calls)) /\ Len(Forget(u)) = Len(cats)
         /\ DOMAIN Forget(u) = DOMAIN cats
         /\ \A i \in DOMAIN cats :
              /\ Forget(u)[i] \in Seq(Calls) /\ DOMAIN Forget(u)[i] = DOMAIN cats[i]
              /\ \A k \in DOMAIN cats[i] :
                   /\ Forget(u)[i][k].uri = cats[i][k].uri
                   /\ cats[i][k].wanted /\ cats[i][k].uri # u => Forget(u)[i][k].wanted
<1> DEFINE row(i) == [k \in DOMAIN cats[i] |->
                        [cats[i][k] EXCEPT !.wanted = @ /\ cats[i][k].uri # u]]
<1>1. Forget(u) = [i \in DOMAIN cats |-> row(i)]
  BY DEF Forget
<1>2. ASSUME NEW c \in Calls
      PROVE  LET x == [c EXCEPT !.wanted = @ /\ c.uri # u]
             IN  x \in Calls /\ x.uri = c.uri /\ (c.wanted /\ c.uri # u => x.wanted)
  BY DEF Calls
<1>3. ASSUME NEW i \in DOMAIN cats
      PROVE  /\ row(i) \in Seq(Calls) /\ DOMAIN row(i) = DOMAIN cats[i]
             /\ \A k \in DOMAIN cats[i] :
                  /\ row(i)[k].uri = cats[i][k].uri
                  /\ cats[i][k].wanted /\ cats[i][k].uri # u => row(i)[k].wanted
  <2>1. DOMAIN cats[i] = 1..Len(cats[i]) /\ Len(cats[i]) \in Nat
    BY CatsAre
  <2>2. ASSUME NEW k \in DOMAIN cats[i]
        PROVE  /\ row(i)[k] \in Calls /\ row(i)[k].uri = cats[i][k].uri
               /\ cats[i][k].wanted /\ cats[i][k].uri # u => row(i)[k].wanted
    <3>1. cats[i][k] \in Calls
      BY CatsAre
    <3>2. row(i)[k] = [cats[i][k] EXCEPT !.wanted = @ /\ cats[i][k].uri # u]
      OBVIOUS
    <3> HIDE DEF row
    <3> QED BY <1>2, <3>1, <3>2
  <2>3. DOMAIN row(i) = DOMAIN cats[i] /\ row(i) = [k \in DOMAIN row(i) |-> row(i)[k]]
    OBVIOUS
  <2> HIDE DEF row
  <2>4. row(i) \in [1..Len(cats[i]) -> Calls]
    BY <2>1, <2>2, <2>3
  <2>5. row(i) \in Seq(Calls)
    BY <2>1, <2>4, SeqDef
  <2> QED BY <2>2, <2>3, <2>5
<1> HIDE DEF row
<1>4. DOMAIN cats = 1..Len(cats) /\ Len(cats) \in Nat
  BY LenProperties DEF ProviderTypes
<1>5. Forget(u) \in [1..Len(cats) -> Seq(Calls)]
  BY <1>1, <1>3, <1>4
<1>6. Forget(u) \in Seq(Seq(Calls))
  BY <1>4, <1>5, SeqDef
<1>7. Len(Forget(u)) = Len(cats) /\ DOMAIN Forget(u) = DOMAIN cats
  BY <1>1, <1>4, <1>6, LenProperties
<1> QED BY <1>1, <1>3, <1>6, <1>7

----------------------------------------------------------------------------
(***************************************************************************)
(* Every step                                                              *)
(***************************************************************************)
\* The invariant holds at first.
LEMMA DiffStarts ==
  ASSUME DiffAssumption, DiffInit
  PROVE  DiffInv
<1>1. GitTypes
  <2>1. head \in [Roots -> DiffBranches]
    BY DEF DiffInit, DiffAssumption
  <2>2. <<1, 2>> \in Seq(Nat) /\ <<3>> \in Seq(Nat) /\ <<1, 2>> # <<>> /\ <<3>> # <<>>
    OBVIOUS
  <2>3. commits \in [Roots -> [DiffBranches -> Seq(Nat)]]
    BY <2>2 DEF DiffInit
  <2>4. MaxCommits \in Nat
    BY DEF DiffAssumption
  <2>5. ASSUME NEW root \in Roots, NEW b \in DiffBranches
        PROVE  /\ commits[root][b] # <<>>
               /\ \A k \in DOMAIN commits[root][b] : commits[root][b][k] <= MaxCommits + 3
    <3>1. commits[root][b] = IF b = DiffTrunk THEN <<1, 2>> ELSE <<3>>
      BY DEF DiffInit
    <3>2. CASE b = DiffTrunk
      <4>1. commits[root][b] = <<1, 2>>
        BY <3>1, <3>2
      <4>2. \A k \in DOMAIN <<1, 2>> : <<1, 2>>[k] <= MaxCommits + 3
        BY <2>4
      <4> QED BY <2>2, <4>1, <4>2
    <3>3. CASE b # DiffTrunk
      <4>1. commits[root][b] = <<3>>
        BY <3>1, <3>3
      <4>2. \A k \in DOMAIN <<3>> : <<3>>[k] <= MaxCommits + 3
        BY <2>4
      <4> QED BY <2>2, <4>1, <4>2
    <3> QED BY <3>2, <3>3
  <2> QED BY <2>1, <2>3, <2>5 DEF GitTypes
<1>2. IsCache(Cache)
  <2>1. Cache.repositories = <<>> /\ Cache.reposByRoot = <<>> /\ Cache.references = <<>>
    BY DEF DiffInit, Cache
  <2>2. Cache \in Caches
    BY EmptySeq DEF DiffInit, Cache, Caches
  <2>3. DOMAIN Cache.reposByRoot = {}
    BY <2>1
  <2> QED BY <2>2, <2>3 DEF IsCache
<1>3. ProviderTypes
  <2>1. Len(repositories) = 0 /\ repositories = <<>> /\ cats = <<>> /\ fileContents = <<>>
    BY DEF DiffInit
  <2>2. activeUris \in [0..Len(repositories) -> SUBSET Documents]
    BY <2>1 DEF DiffInit, None
  <2>3. fileContents \in Seq(Entries) /\ cats \in Seq(Seq(Calls)) /\ Len(cats) = Len(repositories)
    BY <2>1
  <2>4. open \subseteq Documents /\ shown \in [Documents -> Int]
    BY DEF DiffInit, Nothing
  <2> QED BY <2>2, <2>3, <2>4 DEF ProviderTypes
<1>4. NoneForgotten
  BY DEF DiffInit, NoneForgotten
<1> QED BY <1>1, <1>2, <1>3, <1>4 DEF DiffInv

\* git moves on.
LEMMA GitMovesOn ==
  ASSUME DiffInv, DiffAssumption, NEW root \in Roots,
         (\E b \in DiffBranches : CheckoutIn(root, b)) \/ (\E amend \in BOOLEAN : Commit(root, amend))
  PROVE  DiffInv'
<1>1. GitTypes'
  <2>1. CASE \E b \in DiffBranches : CheckoutIn(root, b)
    <3>1. PICK b \in DiffBranches : CheckoutIn(root, b)
      BY <2>1
    <3>2. head' = [head EXCEPT ![root] = b] /\ commits' = commits
      BY <3>1 DEF CheckoutIn
    <3> QED BY <3>2 DEF DiffInv, GitTypes
  <2>2. CASE \E amend \in BOOLEAN : Commit(root, amend)
    <3>1. MaxCommits \in Nat
      BY DEF DiffAssumption
    <3> QED BY <2>2, <3>1, CommitsAreKept DEF DiffInv
  <2> QED BY <2>1, <2>2
<1>2. UNCHANGED <<repositoryVars, providerVars, cats, editorVars>>
  BY DEF CheckoutIn, Commit
<1>3. Cache' = Cache /\ UNCHANGED <<activeUris, fileContents, cats, open, shown, told, repositories>>
  BY <1>2 DEF Cache, repositoryVars, providerVars, editorVars
<1>4. IsCache(Cache)'
  BY <1>3 DEF DiffInv
<1>5. ProviderTypes'
  BY <1>3 DEF DiffInv, ProviderTypes
<1>6. NoneForgotten'
  BY <1>3 DEF DiffInv, NoneForgotten, IsAwaited, IsRemembered
<1> QED BY <1>1, <1>4, <1>5, <1>6 DEF DiffInv

\* The cache is the one that was kept.
LEMMA KeptIs ==
  ASSUME NEW s, IsCache(s), Keep(s)
  PROVE  Cache' = s
<1>1. s \in Caches
  BY DEF IsCache
<1>2. s = [repositories |-> s.repositories, reposByRoot |-> s.reposByRoot, references |-> s.references]
  BY <1>1 DEF Caches
<1>3. Cache' = [repositories |-> s.repositories, reposByRoot |-> s.reposByRoot,
                references |-> s.references]
  BY DEF Cache, Keep
<1> QED BY <1>2, <1>3

\* The cache changes; a Repository that is created is announced.
LEMMA CacheGoesOn ==
  ASSUME DiffInv, NEW s, IsCache(s), Follows(Cache, s), BecomesCache(s),
         UNCHANGED <<gitVars, open, shown>>
  PROVE  DiffInv'
<1>1. GitTypes'
  BY DEF DiffInv, GitTypes, gitVars
<1>2. Cache' = s /\ repositories' = s.repositories /\ IsCache(Cache)
  BY KeptIs DEF BecomesCache, Keep, DiffInv
<1>3. IsCache(Cache)'
  BY <1>2
<1>4. Cache.repositories = repositories /\ open' = open /\ shown' = shown
  BY DEF Cache
<1>5. CASE Len(s.repositories) = Len(repositories)
  <2>1. UNCHANGED <<activeUris, fileContents, cats, told>>
    BY <1>5 DEF BecomesCache, providerVars
  <2>2. ProviderTypes'
    BY <1>2, <1>4, <1>5, <2>1 DEF DiffInv, ProviderTypes
  <2>3. ASSUME NEW path, NotFound(Cache, path)
        PROVE  NotFound(Cache', path)
    <3>1. PICK c : c = Cache
      OBVIOUS
    <3>2. IsCache(c) /\ Follows(c, s) /\ Len(s.repositories) = Len(c.repositories) /\ NotFound(c, path)
      BY <1>2, <1>4, <1>5, <2>3, <3>1
    <3> QED BY <3>2, <1>2, LessIsFound
  <2>4. NoneForgotten'
    <3>1. ASSUME NEW u \in open, shown[u] = Nothing
          PROVE  (u \in told \/ IsAwaited(u) \/ IsRemembered(u))'
      <4>1. u \in told \/ IsAwaited(u) \/ IsRemembered(u)
        BY <3>1 DEF DiffInv, NoneForgotten
      <4>2. IsAwaited(u) => IsAwaited(u)'
        BY <2>1 DEF IsAwaited
      <4>3. IsRemembered(u) => IsRemembered(u)'
        BY <2>1, <2>3 DEF IsRemembered
      <4> QED BY <2>1, <4>1, <4>2, <4>3
    <3> QED BY <3>1, <1>4 DEF NoneForgotten
  <2> QED BY <1>1, <1>3, <2>2, <2>4 DEF DiffInv
<1>6. CASE Len(s.repositories) # Len(repositories)
  <2>1. OnChangeActiveRepos(s) /\ cats' = Append(cats, <<>>)
    BY <1>6 DEF BecomesCache
  <2>2. Len(s.repositories) = Len(repositories) + 1 /\ Len(repositories) \in Nat
        /\ DOMAIN s.repositories = 1..Len(s.repositories)
    <3>1. PICK c : c = Cache
      OBVIOUS
    <3>2. Len(c.repositories) \in Nat
      BY <1>2, <3>1, CacheFields
    <3>3. DOMAIN s.repositories = 1..Len(s.repositories)
      BY CacheFields
    <3> QED BY <1>4, <1>6, <3>1, <3>2, <3>3 DEF Follows
  <2> DEFINE fixed == OwnedBy(s, activeUris[None])
  <2>3. /\ activeUris' = [i \in DOMAIN activeUris \cup DOMAIN s.repositories |->
                          IF i = None THEN activeUris[None] \ fixed
                          ELSE IF i \in DOMAIN activeUris THEN activeUris[i] ELSE {}]
        /\ fileContents' = fileContents \/ fileContents' = <<>>
        /\ told \subseteq told' /\ open \cap fixed \subseteq told'
    BY <2>1 DEF OnChangeActiveRepos
  <2>4. DOMAIN activeUris = 0..Len(repositories) /\ activeUris \in [0..Len(repositories) -> SUBSET Documents]
    BY DEF DiffInv, ProviderTypes
  <2>5. DOMAIN activeUris \cup DOMAIN s.repositories = 0..Len(repositories')
    BY <1>2, <2>2, <2>4
  <2>6. activeUris' \in [0..Len(repositories') -> SUBSET Documents]
    <3>1. 0 \in 0..Len(repositories)
      BY <2>2
    <3>2. activeUris[None] \ fixed \subseteq Documents
      BY <2>4, <3>1 DEF None
    <3> HIDE DEF fixed
    <3> QED BY <2>3, <2>4, <2>5, <3>2
  <2>7. cats \in Seq(Seq(Calls)) /\ Len(cats) = Len(repositories)
    BY DEF DiffInv, ProviderTypes
  <2>8. /\ cats' \in Seq(Seq(Calls)) /\ Len(cats') = Len(cats) + 1
        /\ DOMAIN cats' = 1..(Len(cats) + 1) /\ \A j \in DOMAIN cats : cats'[j] = cats[j]
    <3>1. PICK c \in Seq(Seq(Calls)) : c = cats
      BY <2>7
    <3>2. <<>> \in Seq(Calls)
      OBVIOUS
    <3> QED BY <2>1, <3>1, <3>2, AppendedIs
  <2>9. ProviderTypes'
    <3>1. fileContents' \in Seq(Entries)
      BY <2>3, EmptySeq DEF DiffInv, ProviderTypes
    <3>2. Len(cats') = Len(repositories')
      BY <1>2, <2>2, <2>7, <2>8
    <3>3. open' \subseteq Documents /\ shown' \in [Documents -> Int]
      BY <1>4 DEF DiffInv, ProviderTypes
    <3> QED BY <2>6, <2>8, <3>1, <3>2, <3>3 DEF ProviderTypes
  <2>10. NoneForgotten'
    <3>1. ASSUME NEW u \in open, shown[u] = Nothing
          PROVE  (u \in told \/ IsAwaited(u) \/ IsRemembered(u))'
      <4>1. u \in told \/ IsAwaited(u) \/ IsRemembered(u)
        BY <3>1 DEF DiffInv, NoneForgotten
      <4>2. IsAwaited(u) => IsAwaited(u)'
        <5>1. DOMAIN cats = 1..Len(cats) /\ Len(cats) \in Nat
          BY <2>7, LenProperties
        <5> QED BY <2>8, <5>1 DEF IsAwaited
      <4>3. IsRemembered(u) => u \in told' \/ IsRemembered(u)'
        <5> SUFFICES ASSUME IsRemembered(u), u \notin fixed PROVE IsRemembered(u)'
          BY <2>3, <3>1
        <5>1. u \in activeUris[None]
          BY DEF IsRemembered
        <5>2. None \in DOMAIN activeUris \cup DOMAIN s.repositories
          BY <2>2, <2>4 DEF None
        <5>3. activeUris'[None] = activeUris[None] \ fixed
          <6> HIDE DEF fixed
          <6> QED BY <2>3, <5>2
        <5>4. \A root \in KnownRoots(s) : u.file \notin Inside[root]
          BY <5>1 DEF OwnedBy
        <5>5. NotFound(s, u.file)
          <6>1. ASSUME NEW k \in DOMAIN s.reposByRoot
                PROVE  u.file \notin Inside[s.repositories[s.reposByRoot[k]].root]
            <7>1. s.reposByRoot[k] \in Range(s.reposByRoot)
              BY DEF Range
            <7> QED BY <5>4, <7>1 DEF KnownRoots
          <6> QED BY <6>1 DEF NotFound
        <5>6. u \in activeUris'[None]
          <6> HIDE DEF fixed
          <6> QED BY <5>1, <5>3
        <5> QED BY <1>2, <5>5, <5>6 DEF IsRemembered
      <4> QED BY <2>3, <4>1, <4>2, <4>3
    <3> QED BY <3>1, <1>4 DEF NoneForgotten
  <2> QED BY <1>1, <1>3, <2>9, <2>10 DEF DiffInv
<1> QED BY <1>5, <1>6

\* A folder is added or removed, and getRepoInfo ends.
LEMMA FoldersChange ==
  ASSUME DiffInv, DiffAssumption, NEW f \in Folders, AddFolder(f) \/ RemoveFolder(f)
  PROVE  DiffInv'
<1>1. PICK c : c = Cache
  OBVIOUS
<1>2. IsCache(c)
  BY <1>1 DEF DiffInv
<1>3. CASE AddFolder(f)
  <2>1. PICK s : s = GetOrCreate(c, "workspace", f)
    OBVIOUS
  <2>2. f \in Cwds
    BY DEF DiffAssumption
  <2>3. PICK w \in {"workspace"} : w = "workspace"
    OBVIOUS
  <2>4. IsCache(s) /\ Follows(c, s)
    BY <1>2, <2>1, <2>2, <2>3, ReferenceIsGiven
  <2>5. BecomesCache(s) /\ UNCHANGED <<gitVars, open, shown>>
    BY <1>1, <1>3, <2>1 DEF AddFolder
  <2> QED BY <1>1, <2>4, <2>5, CacheGoesOn
<1>4. CASE RemoveFolder(f)
  <2>1. PICK r : r = knownRepos[f]
    OBVIOUS
  <2>2. PICK s : s = Unref(c, r)
    OBVIOUS
  <2>3. IsCache(s) /\ Follows(c, s)
    BY <1>2, <2>2, ReferenceIsReturned
  <2>4. BecomesCache(s) /\ UNCHANGED <<gitVars, open, shown>>
    BY <1>1, <1>4, <2>1, <2>2 DEF RemoveFolder
  <2> QED BY <1>1, <2>3, <2>4, CacheGoesOn
<1> QED BY <1>3, <1>4

LEMMA RepoInfoArrives ==
  ASSUME DiffInv, DiffAssumption, NEW r \in DOMAIN references, GetRepoInfoEnds(r)
  PROVE  DiffInv'
<1>1. PICK c : c = Cache
  OBVIOUS
<1>2. IsCache(c) /\ c.references = references
  BY <1>1 DEF DiffInv, Cache
<1>3. PICK root : root = RootOf[references[r].cwd]
  OBVIOUS
<1>4. references[r] \in HeldReferences
  BY <1>2, CacheFields, ElementOfSeq
<1>5. root \in Roots \cup {NoRoot}
  BY <1>3, <1>4, PathsAssumption DEF HeldReferences
<1>6. PICK s : s = IF root = NoRoot THEN Resolve(c, r, None) ELSE CreateForReference(c, r, root)
  OBVIOUS
<1>7. IsCache(s) /\ Follows(c, s)
  <2>1. CASE root = NoRoot
    BY <1>2, <1>6, <2>1, NumberedReference DEF None
  <2>2. CASE root # NoRoot
    BY <1>2, <1>5, <1>6, <2>2, RepositoryIsTaken
  <2> QED BY <2>1, <2>2
<1>8. BecomesCache(s) /\ UNCHANGED <<gitVars, open, shown>>
  BY <1>1, <1>3, <1>6 DEF GetRepoInfoEnds
<1> QED BY <1>1, <1>7, <1>8, CacheGoesOn

\* A document is asked for.
LEMMA ContentIsProvided ==
  ASSUME DiffInv, DiffAssumption, NEW u \in Documents, ProvideTextDocumentContent(u),
         open' = open \/ open' = open \cup {u}
  PROVE  DiffInv'
<1>1. PICK i : i = Lookup(Cache, u.file)
  OBVIOUS
<1> DEFINE hit == i # None /\ IsCached(fileContents, u)
           answer == IF hit THEN fileContents[Place(fileContents, u)].content ELSE Nothing
           call == [uri |-> u, content |-> Unread, wanted |-> TRUE]
<1>2. /\ activeUris' = [activeUris EXCEPT ![i] = @ \cup {u}]
      /\ fileContents' = IF i = None THEN fileContents ELSE Refreshed(fileContents, u)
      /\ IF i = None \/ hit THEN cats' = Forget(u) /\ shown' = [shown EXCEPT ![u] = answer]
         ELSE cats' = [Forget(u) EXCEPT ![i] = Append(@, call)] /\ UNCHANGED shown
      /\ told' = told \ {u}
      /\ UNCHANGED <<gitVars, repositoryVars>>
  BY <1>1 DEF ProvideTextDocumentContent, Remembered
<1>3. GitTypes'
  BY <1>2 DEF DiffInv, GitTypes, gitVars
<1>4. Cache' = Cache /\ repositories' = repositories /\ IsCache(Cache) /\ IsCache(Cache)'
  BY <1>2 DEF DiffInv, Cache, repositoryVars
<1>5. i \in 0..Len(repositories) /\ Len(repositories) \in Nat /\ (i = None <=> NotFound(Cache, u.file))
  <2>1. PICK c : c = Cache
    OBVIOUS
  <2>2. c.repositories = repositories /\ IsCache(c)
    BY <1>4, <2>1 DEF Cache
  <2> QED BY <1>1, <2>1, <2>2, LookupIsFound, CacheFields
<1>6. ProviderTypes
  BY DEF DiffInv
<1>7. DOMAIN cats = 1..Len(cats) /\ Len(cats) = Len(repositories)
  BY <1>6, LenProperties DEF ProviderTypes
<1>8. IsCached(fileContents, u) => fileContents[Place(fileContents, u)].content \in CatResults
  <2>1. PICK lru \in Seq(Entries) : lru = fileContents
    BY <1>6 DEF ProviderTypes
  <2>2. Failed \in CatResults
    BY DEF CatResults
  <2> QED BY <2>1, <2>2, LruIs
<1>9. fileContents' \in Seq(Entries)
  <2>1. PICK lru \in Seq(Entries) : lru = fileContents
    BY <1>6 DEF ProviderTypes
  <2>2. Failed \in CatResults
    BY DEF CatResults
  <2> QED BY <1>2, <2>1, <2>2, LruIs
<1>10. answer \in Int /\ (hit => answer # Nothing)
  BY <1>8 DEF CatResults, Failed, Nothing
<1>11. call \in Calls /\ call.uri = u /\ call.wanted
  BY DEF Calls, CatResults, Unread
<1> HIDE DEF answer, call
<1>12. PICK forgotten : forgotten = Forget(u)
  OBVIOUS
<1>13. /\ forgotten \in Seq(Seq(Calls)) /\ Len(forgotten) = Len(cats) /\ DOMAIN forgotten = DOMAIN cats
       /\ \A j \in DOMAIN cats :
            /\ forgotten[j] \in Seq(Calls) /\ DOMAIN forgotten[j] = DOMAIN cats[j]
            /\ \A k \in DOMAIN cats[j] :
                 /\ forgotten[j][k].uri = cats[j][k].uri
                 /\ cats[j][k].wanted /\ cats[j][k].uri # u => forgotten[j][k].wanted
  BY <1>6, <1>12, ForgetIs
\* The calls for other documents stay, and the new one is the last.
<1>14. /\ cats' \in Seq(Seq(Calls)) /\ Len(cats') = Len(cats)
       /\ \A v : v # u /\ IsAwaited(v) => IsAwaited(v)'
       /\ i # None /\ ~hit => IsAwaited(u)'
  <2>1. CASE i = None \/ hit
    <3>1. cats' = forgotten
      BY <1>2, <1>12, <2>1
    <3>2. ASSUME NEW v, v # u, IsAwaited(v)
          PROVE  IsAwaited(v)'
      <4>1. PICK j \in DOMAIN cats : \E k \in DOMAIN cats[j] : cats[j][k].uri = v /\ cats[j][k].wanted
        BY <3>2 DEF IsAwaited
      <4>2. PICK k \in DOMAIN cats[j] : cats[j][k].uri = v /\ cats[j][k].wanted
        BY <4>1
      <4>3. forgotten[j][k].uri = v /\ forgotten[j][k].wanted
        BY <1>13, <3>2, <4>2
      <4> QED BY <1>13, <3>1, <4>3 DEF IsAwaited
    <3> QED BY <1>13, <2>1, <3>1, <3>2
  <2>2. CASE ~(i = None \/ hit)
    <3>1. i \in DOMAIN cats
      BY <1>5, <1>7, <2>2 DEF None
    <3>2. PICK row : row = Append(forgotten[i], call)
      OBVIOUS
    <3>3. cats' = [forgotten EXCEPT ![i] = row]
      BY <1>2, <1>12, <2>2, <3>2
    <3>4. forgotten[i] \in Seq(Calls)
      BY <1>13, <3>1
    <3>5. /\ row \in Seq(Calls) /\ DOMAIN row = 1..(Len(forgotten[i]) + 1)
          /\ (\A k \in DOMAIN forgotten[i] : row[k] = forgotten[i][k])
          /\ row[Len(forgotten[i]) + 1] = call
          /\ DOMAIN forgotten[i] = 1..Len(forgotten[i]) /\ Len(forgotten[i]) \in Nat
      BY <1>11, <3>4, <3>2, AppendedIs, LenProperties
    <3>6. /\ cats' \in Seq(Seq(Calls)) /\ Len(cats') = Len(forgotten) /\ DOMAIN cats' = DOMAIN forgotten
          /\ \A j \in DOMAIN forgotten : cats'[j] = IF j = i THEN row ELSE forgotten[j]
      <4>1. forgotten \in Seq(Seq(Calls)) /\ row \in Seq(Calls)
        BY <1>13, <3>5
      <4> QED BY <3>3, <4>1, RowIsPut
    <3>7. ASSUME NEW v, v # u, IsAwaited(v)
          PROVE  IsAwaited(v)'
      <4>1. PICK j \in DOMAIN cats : \E k \in DOMAIN cats[j] : cats[j][k].uri = v /\ cats[j][k].wanted
        BY <3>7 DEF IsAwaited
      <4>2. PICK k \in DOMAIN cats[j] : cats[j][k].uri = v /\ cats[j][k].wanted
        BY <4>1
      <4>3. forgotten[j][k].uri = v /\ forgotten[j][k].wanted /\ k \in DOMAIN forgotten[j]
        BY <1>13, <3>7, <4>2
      <4>4. cats'[j][k] = forgotten[j][k] /\ k \in DOMAIN cats'[j]
        <5>1. j \in DOMAIN forgotten
          BY <1>13
        <5>2. CASE j = i
          BY <3>5, <3>6, <4>3, <5>1, <5>2
        <5>3. CASE j # i
          BY <3>6, <4>3, <5>1, <5>3
        <5> QED BY <5>2, <5>3
      <4> QED BY <1>13, <3>6, <4>3, <4>4 DEF IsAwaited
    <3>8. IsAwaited(u)'
      <4>1. Len(forgotten[i]) + 1 \in DOMAIN row
        BY <3>5
      <4>2. cats'[i] = row /\ i \in DOMAIN cats'
        BY <1>13, <3>1, <3>6
      <4> QED BY <1>11, <3>5, <4>1, <4>2 DEF IsAwaited
    <3> QED BY <1>13, <3>6, <3>7, <3>8
  <2> QED BY <2>1, <2>2
<1>15. activeUris \in [0..Len(repositories) -> SUBSET Documents]
  BY <1>6 DEF ProviderTypes
<1>16. /\ activeUris' \in [0..Len(repositories') -> SUBSET Documents]
       /\ activeUris[None] \subseteq activeUris'[None]
       /\ i = None => u \in activeUris'[None]
  <2>1. None \in 0..Len(repositories)
    BY <1>5 DEF None
  <2>2. activeUris' \in [0..Len(repositories) -> SUBSET Documents]
    BY <1>2, <1>5, <1>15
  <2> QED BY <1>2, <1>4, <1>5, <1>15, <2>1, <2>2
<1>17. shown' \in [Documents -> Int] /\ \A v \in Documents : v # u => shown'[v] = shown[v]
  BY <1>2, <1>6, <1>10 DEF ProviderTypes
<1>18. ProviderTypes'
  BY <1>4, <1>6, <1>9, <1>14, <1>16, <1>17 DEF ProviderTypes
<1>19. ASSUME NEW v \in open', shown'[v] = Nothing
       PROVE  (v \in told \/ IsAwaited(v) \/ IsRemembered(v))'
  <2>1. CASE v # u
    <3>1. v \in open /\ v \in Documents
      BY <1>6, <2>1 DEF ProviderTypes
    <3>2. v \in told \/ IsAwaited(v) \/ IsRemembered(v)
      BY <1>17, <1>19, <2>1, <3>1 DEF DiffInv, NoneForgotten
    <3>3. IsRemembered(v) => IsRemembered(v)'
      BY <1>4, <1>16 DEF IsRemembered
    <3>4. IsAwaited(v) => IsAwaited(v)'
      BY <1>14, <2>1
    <3> QED BY <1>2, <2>1, <3>2, <3>3, <3>4
  <2>2. CASE v = u /\ i = None
    <3>1. IsRemembered(u)'
      BY <1>4, <1>5, <1>16, <2>2 DEF IsRemembered
    <3> QED BY <2>2, <3>1
  <2>3. CASE v = u /\ i # None /\ ~hit
    BY <1>14, <2>3
  <2>4. CASE v = u /\ hit
    <3>1. shown'[u] = answer
      BY <1>2, <1>6, <2>4 DEF ProviderTypes
    <3> QED BY <1>10, <1>19, <2>4, <3>1
  <2> QED BY <2>1, <2>2, <2>3, <2>4
<1>20. NoneForgotten'
  BY <1>19 DEF NoneForgotten
<1> QED BY <1>3, <1>4, <1>18, <1>20 DEF DiffInv

\* A document is closed.
LEMMA DocumentCloses ==
  ASSUME DiffInv, NEW u \in Documents, Close(u)
  PROVE  DiffInv'
<1>1. /\ open' = open \ {u} /\ told' = told \ {u} /\ shown' = [shown EXCEPT ![u] = Nothing]
      /\ cats' = Forget(u)
      /\ activeUris' = [i \in DOMAIN activeUris |-> activeUris[i] \ {u}]
      /\ UNCHANGED <<gitVars, repositoryVars, fileContents>>
  BY DEF Close
<1>2. GitTypes'
  BY <1>1 DEF DiffInv, GitTypes, gitVars
<1>3. Cache' = Cache /\ repositories' = repositories /\ IsCache(Cache)'
  BY <1>1 DEF DiffInv, Cache, repositoryVars
<1>4. ProviderTypes
  BY DEF DiffInv
<1>5. PICK forgotten : forgotten = Forget(u)
  OBVIOUS
<1>6. /\ forgotten \in Seq(Seq(Calls)) /\ Len(forgotten) = Len(cats) /\ DOMAIN forgotten = DOMAIN cats
      /\ \A j \in DOMAIN cats :
           /\ DOMAIN forgotten[j] = DOMAIN cats[j]
           /\ \A k \in DOMAIN cats[j] :
                /\ forgotten[j][k].uri = cats[j][k].uri
                /\ cats[j][k].wanted /\ cats[j][k].uri # u => forgotten[j][k].wanted
  BY <1>4, <1>5, ForgetIs
<1>7. cats' = forgotten
  BY <1>1, <1>5
<1>8. activeUris \in [0..Len(repositories) -> SUBSET Documents]
  BY <1>4 DEF ProviderTypes
<1>9. activeUris' \in [0..Len(repositories') -> SUBSET Documents]
  BY <1>1, <1>3, <1>8
<1>10. shown' \in [Documents -> Int] /\ \A v \in Documents : v # u => shown'[v] = shown[v]
  BY <1>1, <1>4 DEF ProviderTypes, Nothing
<1>11. ProviderTypes'
  BY <1>1, <1>3, <1>4, <1>6, <1>7, <1>9, <1>10 DEF ProviderTypes
<1>12. ASSUME NEW v \in open', shown'[v] = Nothing
       PROVE  (v \in told \/ IsAwaited(v) \/ IsRemembered(v))'
  <2>1. v \in open /\ v # u /\ v \in Documents
    BY <1>1, <1>4 DEF ProviderTypes
  <2>2. v \in told \/ IsAwaited(v) \/ IsRemembered(v)
    BY <1>10, <1>12, <2>1 DEF DiffInv, NoneForgotten
  <2>3. ASSUME IsAwaited(v)
        PROVE  IsAwaited(v)'
    <3>1. PICK j \in DOMAIN cats : \E k \in DOMAIN cats[j] : cats[j][k].uri = v /\ cats[j][k].wanted
      BY <2>3 DEF IsAwaited
    <3>2. PICK k \in DOMAIN cats[j] : cats[j][k].uri = v /\ cats[j][k].wanted
      BY <3>1
    <3>3. forgotten[j][k].uri = v /\ forgotten[j][k].wanted
      BY <1>6, <2>1, <3>2
    <3> QED BY <1>6, <1>7, <3>3 DEF IsAwaited
  <2>4. IsRemembered(v) => IsRemembered(v)'
    <3>1. None \in DOMAIN activeUris
      <4>1. PICK c : c = Cache
        OBVIOUS
      <4>2. Len(c.repositories) \in Nat /\ c.repositories = repositories
        BY <4>1, CacheFields DEF DiffInv, Cache
      <4> QED BY <1>8, <4>2 DEF None
    <3>2. activeUris'[None] = activeUris[None] \ {u}
      BY <1>1, <3>1
    <3> QED BY <1>3, <2>1, <3>2 DEF IsRemembered
  <2> QED BY <1>1, <2>1, <2>2, <2>3, <2>4
<1>13. NoneForgotten'
  BY <1>12 DEF NoneForgotten
<1> QED BY <1>2, <1>3, <1>11, <1>13 DEF DiffInv

\* git reads a file, and the call ends.
LEMMA FileIsRead ==
  ASSUME DiffInv, DiffAssumption, NEW i \in DOMAIN cats, NEW k \in Running(i), ReadFile(i, k)
  PROVE  DiffInv'
<1>1. ProviderTypes /\ GitTypes /\ IsCache(Cache)
  BY DEF DiffInv
<1>2. PICK content \in {RelativeCat(repositories[i].root, cats[i][k].uri), Failed} :
        cats' = [cats EXCEPT ![i][k].content = content]
  BY DEF ReadFile
<1>3. UNCHANGED <<gitVars, repositoryVars, providerVars, editorVars>>
  BY DEF ReadFile
<1>4. UNCHANGED <<activeUris, fileContents, open, shown, told, repositories, head, commits>> /\ Cache' = Cache
  BY <1>3 DEF gitVars, repositoryVars, providerVars, editorVars, Cache
<1>5. k \in DOMAIN cats[i] /\ cats[i][k] \in Calls
  BY <1>1, CatsAre, RunningIs
<1>6. content \in CatResults
  <2>1. repositories[i].root \in Roots
    <3>1. PICK c : c = Cache
      OBVIOUS
    <3>2. repositories \in Seq(CachedRepositories)
      BY <1>1, <3>1, CacheFields DEF Cache
    <3>3. i \in 1..Len(repositories)
      BY <1>1, CatsAre DEF ProviderTypes
    <3>4. repositories[i] \in CachedRepositories
      BY <3>2, <3>3, ElementOfSeq
    <3> QED BY <3>4 DEF CachedRepositories
  <2>2. cats[i][k].uri \in Documents
    BY <1>5 DEF Calls
  <2>3. RelativeCat(repositories[i].root, cats[i][k].uri) \in Nat
    <3>1. PICK root \in Roots, u \in Documents : root = repositories[i].root /\ u = cats[i][k].uri
      BY <2>1, <2>2
    <3>2. RelativeCat(root, u) \in Nat
      BY <1>1, RelativeCatIs
    <3> QED BY <3>1, <3>2
  <2> QED BY <2>3 DEF CatResults
<1>7. PICK call : call = [cats[i][k] EXCEPT !.content = content]
  OBVIOUS
<1>8. call \in Calls /\ call.uri = cats[i][k].uri /\ call.wanted = cats[i][k].wanted
  BY <1>5, <1>6, <1>7 DEF Calls
<1>9. PICK row : row = [cats[i] EXCEPT ![k] = call]
  OBVIOUS
<1>10. cats' = [cats EXCEPT ![i] = row]
  BY <1>2, <1>7, <1>9
<1>11. /\ row \in Seq(Calls) /\ DOMAIN row = DOMAIN cats[i]
       /\ \A j \in DOMAIN cats[i] : row[j] = IF j = k THEN call ELSE cats[i][j]
  <2>1. PICK q \in Seq(Calls) : q = cats[i]
    BY <1>1, CatsAre
  <2> QED BY <1>8, <1>9, <2>1, PutInSeq
<1>12. /\ cats' \in Seq(Seq(Calls)) /\ DOMAIN cats' = DOMAIN cats /\ Len(cats') = Len(cats)
       /\ \A j \in DOMAIN cats : cats'[j] = IF j = i THEN row ELSE cats[j]
  <2>1. PICK q \in Seq(Seq(Calls)) : q = cats
    BY <1>1 DEF ProviderTypes
  <2> QED BY <1>10, <1>11, <2>1, PutInSeq
<1>13. ASSUME NEW u, IsAwaited(u)
       PROVE  IsAwaited(u)'
  <2>1. PICK j \in DOMAIN cats : \E n \in DOMAIN cats[j] : cats[j][n].uri = u /\ cats[j][n].wanted
    BY <1>13 DEF IsAwaited
  <2>2. PICK n \in DOMAIN cats[j] : cats[j][n].uri = u /\ cats[j][n].wanted
    BY <2>1
  <2>3. n \in DOMAIN cats'[j] /\ cats'[j][n].uri = u /\ cats'[j][n].wanted
    <3>1. CASE j = i
      BY <1>8, <1>11, <1>12, <2>2, <3>1
    <3>2. CASE j # i
      BY <1>12, <2>2, <3>2
    <3> QED BY <3>1, <3>2
  <2> QED BY <1>12, <2>3 DEF IsAwaited
<1>14. GitTypes' /\ IsCache(Cache)'
  BY <1>1, <1>4 DEF GitTypes
<1>15. ProviderTypes'
  BY <1>1, <1>4, <1>12 DEF ProviderTypes
<1>16. NoneForgotten'
  BY <1>4, <1>13 DEF DiffInv, NoneForgotten, IsRemembered
<1> QED BY <1>14, <1>15, <1>16 DEF DiffInv

LEMMA CatEnds ==
  ASSUME DiffInv, DiffAssumption, NEW i \in DOMAIN cats, NEW k \in Running(i), EndCat(i, k)
  PROVE  DiffInv'
<1>1. ProviderTypes /\ GitTypes /\ IsCache(Cache)
  BY DEF DiffInv
<1>2. PICK call : call = cats[i][k]
  OBVIOUS
<1>3. /\ fileContents' = Stored(fileContents, call.uri, call.content)
      /\ shown' = IF call.wanted THEN [shown EXCEPT ![call.uri] = call.content] ELSE shown
      /\ cats' = [cats EXCEPT ![i] = RemoveAt(@, k)]
      /\ UNCHANGED <<gitVars, repositoryVars, activeUris, open, told>>
  BY <1>2 DEF EndCat
<1>4. UNCHANGED <<head, commits, repositories>> /\ Cache' = Cache
  BY <1>3 DEF gitVars, repositoryVars, Cache
<1>5. k \in 1..Len(cats[i]) /\ call \in Calls
  BY <1>1, <1>2, CatsAre, RunningIs
<1>6. call.uri \in Documents /\ call.content \in CatResults
  BY <1>5 DEF Calls
<1>7. fileContents' \in Seq(Entries)
  <2>1. PICK lru \in Seq(Entries) : lru = fileContents
    BY <1>1 DEF ProviderTypes
  <2> QED BY <1>3, <1>6, <2>1, LruIs
<1>8. shown' \in [Documents -> Int]
      /\ (call.wanted => shown'[call.uri] # Nothing)
      /\ \A v \in Documents : v # call.uri \/ ~call.wanted => shown'[v] = shown[v]
  <2>1. call.content \in Int /\ call.content # Nothing
    BY <1>6 DEF CatResults, Failed, Nothing
  <2> QED BY <1>1, <1>3, <1>6, <2>1 DEF ProviderTypes
<1>9. PICK row : row = RemoveAt(cats[i], k)
  OBVIOUS
<1>10. /\ row \in Seq(Calls) /\ DOMAIN row = 1..(Len(cats[i]) - 1)
       /\ \A j \in 1..(Len(cats[i]) - 1) : row[j] = IF j < k THEN cats[i][j] ELSE cats[i][j + 1]
  <2>1. PICK q \in Seq(Calls) : q = cats[i]
    BY <1>1, CatsAre
  <2>2. k \in 1..Len(q)
    BY <1>5, <2>1
  <2>3. /\ row \in Seq(Calls) /\ Len(row) = Len(q) - 1
        /\ \A j \in 1..(Len(q) - 1) : row[j] = IF j < k THEN q[j] ELSE q[j + 1]
    BY <1>9, <2>1, <2>2, RemoveAtIs
  <2> QED BY <2>1, <2>3, LenProperties
<1>11. cats' = [cats EXCEPT ![i] = row]
  BY <1>3, <1>9
<1>12. /\ cats' \in Seq(Seq(Calls)) /\ DOMAIN cats' = DOMAIN cats /\ Len(cats') = Len(cats)
       /\ \A j \in DOMAIN cats : cats'[j] = IF j = i THEN row ELSE cats[j]
  <2>1. PICK q \in Seq(Seq(Calls)) : q = cats
    BY <1>1 DEF ProviderTypes
  <2> QED BY <1>10, <1>11, <2>1, PutInSeq
\* Who waits for this call is shown its content, the others wait on.
<1>13. ASSUME NEW u, IsAwaited(u), ~(call.wanted /\ call.uri = u)
       PROVE  IsAwaited(u)'
  <2>1. PICK j \in DOMAIN cats : \E n \in DOMAIN cats[j] : cats[j][n].uri = u /\ cats[j][n].wanted
    BY <1>13 DEF IsAwaited
  <2>2. PICK n \in DOMAIN cats[j] : cats[j][n].uri = u /\ cats[j][n].wanted
    BY <2>1
  <2>3. \E m \in DOMAIN cats'[j] : cats'[j][m] = cats[j][n]
    <3>1. CASE j = i
      <4>1. n \in 1..Len(cats[i]) /\ Len(cats[i]) \in Nat
        BY <1>1, <2>2, <3>1, CatsAre
      <4>2. n # k
        BY <1>2, <1>13, <2>2, <3>1
      <4>3. CASE n < k
        <5>1. n \in 1..(Len(cats[i]) - 1)
          BY <1>5, <4>1, <4>3
        <5>2. row[n] = cats[i][n]
          BY <1>10, <4>3, <5>1
        <5> QED BY <1>10, <1>12, <3>1, <5>1, <5>2
      <4>4. CASE n > k
        <5>1. n - 1 \in 1..(Len(cats[i]) - 1) /\ ~(n - 1 < k) /\ (n - 1) + 1 = n
          BY <1>5, <4>1, <4>4
        <5>2. row[n - 1] = cats[i][n]
          BY <1>10, <5>1
        <5> QED BY <1>10, <1>12, <3>1, <5>1, <5>2
      <4> QED BY <1>5, <4>1, <4>2, <4>3, <4>4
    <3>2. CASE j # i
      BY <1>12, <2>2, <3>2
    <3> QED BY <3>1, <3>2
  <2> QED BY <1>12, <2>2, <2>3 DEF IsAwaited
<1>14. GitTypes' /\ IsCache(Cache)'
  BY <1>1, <1>4 DEF GitTypes
<1>15. ProviderTypes'
  BY <1>1, <1>3, <1>4, <1>7, <1>8, <1>12 DEF ProviderTypes
<1>16. NoneForgotten'
  <2>1. ASSUME NEW u \in open, shown'[u] = Nothing
        PROVE  (u \in told \/ IsAwaited(u) \/ IsRemembered(u))'
    <3>1. u \in Documents
      BY <1>1 DEF ProviderTypes
    <3>2. ~(call.wanted /\ call.uri = u)
      BY <1>8, <2>1
    <3>3. u \in told \/ IsAwaited(u) \/ IsRemembered(u)
      BY <1>8, <2>1, <3>1, <3>2 DEF DiffInv, NoneForgotten
    <3>4. IsAwaited(u) => IsAwaited(u)'
      BY <1>13, <3>2
    <3>5. IsRemembered(u) => IsRemembered(u)'
      BY <1>3, <1>4 DEF IsRemembered
    <3> QED BY <1>3, <3>3, <3>4, <3>5
  <2> QED BY <1>3, <2>1 DEF NoneForgotten
<1> QED BY <1>14, <1>15, <1>16 DEF DiffInv

\* Another head is fetched: what is open in its Repository is told.
LEMMA CommitsAreFetched ==
  ASSUME DiffInv, NEW i \in DOMAIN cats, FetchSmartlogCommits(i)
  PROVE  DiffInv'
<1>1. /\ UNCHANGED <<gitVars, repositoryVars, activeUris, cats, open, shown>>
      /\ fileContents' = fileContents \/ fileContents' = <<>>
      /\ told \subseteq told'
  BY DEF FetchSmartlogCommits, OnHeadCommit
<1>2. UNCHANGED <<head, commits, repositories>> /\ Cache' = Cache
  BY <1>1 DEF gitVars, repositoryVars, Cache
<1>3. GitTypes' /\ IsCache(Cache)'
  BY <1>2 DEF DiffInv, GitTypes
<1>4. ProviderTypes'
  BY <1>1, <1>2, EmptySeq DEF DiffInv, ProviderTypes
<1>5. NoneForgotten'
  BY <1>1, <1>2 DEF DiffInv, NoneForgotten, IsAwaited, IsRemembered
<1> QED BY <1>3, <1>4, <1>5 DEF DiffInv

\* No step forgets a document.
LEMMA NothingIsForgotten ==
  ASSUME DiffInv, DiffAssumption, [DiffNext]_diffVars
  PROVE  DiffInv'
<1>1. CASE \E root \in Roots :
             (\E b \in DiffBranches : CheckoutIn(root, b)) \/ (\E amend \in BOOLEAN : Commit(root, amend))
  BY <1>1, GitMovesOn
<1>2. CASE \E f \in Folders : AddFolder(f) \/ RemoveFolder(f)
  BY <1>2, FoldersChange
<1>3. CASE \E r \in DOMAIN references : GetRepoInfoEnds(r)
  BY <1>3, RepoInfoArrives
<1>4. CASE \E u \in Documents : Show(u) \/ ShowChange(u)
  BY <1>4, ContentIsProvided DEF Show, ShowChange
<1>5. CASE \E u \in Documents : Close(u)
  BY <1>5, DocumentCloses
<1>6. CASE \E i \in DOMAIN cats : FetchSmartlogCommits(i)
  BY <1>6, CommitsAreFetched
<1>7. CASE \E i \in DOMAIN cats : \E k \in Running(i) : ReadFile(i, k)
  BY <1>7, FileIsRead
<1>8. CASE \E i \in DOMAIN cats : \E k \in Running(i) : EndCat(i, k)
  BY <1>8, CatEnds
<1>9. CASE UNCHANGED diffVars
  <2>1. UNCHANGED <<head, commits, repositories, activeUris, fileContents, cats, open, shown, told>>
        /\ Cache' = Cache
    BY <1>9 DEF diffVars, gitVars, repositoryVars, providerVars, editorVars, Cache
  <2> QED BY <2>1 DEF DiffInv, GitTypes, ProviderTypes, NoneForgotten, IsAwaited, IsRemembered
<1> QED BY <1>1, <1>2, <1>3, <1>4, <1>5, <1>6, <1>7, <1>8, <1>9 DEF DiffNext

\* The inductive invariant: every open document that shows nothing has been
\* told to VS Code as changed, is waited for in the queue of a Repository, or
\* is remembered under "unknown" while no Repository of its file is found
\* (activeUrisByRepo, DiffContentProvider.ts:38-72).
THEOREM DiffInvHolds ==
  ASSUME DiffAssumption
  PROVE  DiffSpec => []DiffInv
<1>1. DiffInit => DiffInv
  BY DiffStarts
<1>2. DiffInv /\ [DiffNext]_diffVars => DiffInv'
  BY NothingIsForgotten
<1> QED BY <1>1, <1>2, PTL DEF DiffSpec

\* ShownOnceFound: when nothing is on its way, every open document whose file
\* has a Repository shows a content, whether it was opened before, while or
\* after the Repository was set up, and whatever folders were added and
\* removed, commits made, reads failed and entries dropped from the LRU in
\* between; for any folders, repositories, documents and sizes.
THEOREM ForgetsNoDocument ==
  ASSUME DiffAssumption
  PROVE  DiffSpec => []ShownOnceFound
<1>1. DiffInv => ShownOnceFound
  <2> SUFFICES ASSUME DiffInv, IsQuiet, NEW u \in open, shown[u] = Nothing
               PROVE  Lookup(Cache, u.file) = None
    BY DEF ShownOnceFound
  <2>1. u \in told \/ IsAwaited(u) \/ IsRemembered(u)
    BY DEF DiffInv, NoneForgotten
  <2>2. u \notin told
    BY DEF IsQuiet
  <2>3. ~IsAwaited(u)
    <3>1. ASSUME NEW i \in DOMAIN cats
          PROVE  DOMAIN cats[i] = {}
      BY DEF IsQuiet
    <3> QED BY <3>1 DEF IsAwaited
  <2>4. NotFound(Cache, u.file)
    BY <2>1, <2>2, <2>3 DEF IsRemembered
  <2>5. PICK c : c = Cache
    OBVIOUS
  <2>6. IsCache(c)
    BY <2>5 DEF DiffInv
  <2> QED BY <2>4, <2>5, <2>6, LookupIsFound
<1> QED BY <1>1, DiffInvHolds, PTL

=============================================================================
