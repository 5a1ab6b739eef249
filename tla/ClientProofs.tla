---------------------------- MODULE ClientProofs ----------------------------
(***************************************************************************)
(* Theorems about a GTI window, for any number of sockets, messages,       *)
(* versions, files, branches and operations.  Its connection: the types of *)
(* its state, and that a message is lost only with the connection it was   *)
(* sent over.  Its form for a commit: that it sends what it shows.  The    *)
(* conflicts of a rebase: that it shows them as they are.                  *)
(***************************************************************************)
EXTENDS MessageBus, CommitForm, MergeConflicts, FiniteSetTheorems, SequenceTheorems, TLAPS

----------------------------------------------------------------------------
(***************************************************************************)
(* Sequences.                                                              *)
(***************************************************************************)
Members(s) == {s[a] : a \in 1..Len(s)}

\* The members of s that are in the set of numbers S get larger and larger.
Increasing(s, S) ==
  \A a, b \in 1..Len(s) : a < b /\ s[a] \in S /\ s[b] \in S => s[a] < s[b]

LEMMA ConcatMembers ==
  ASSUME NEW M, NEW s \in Seq(M), NEW t \in Seq(M)
  PROVE  s \o t \in Seq(M) /\ Members(s \o t) = Members(s) \cup Members(t)
<1> DEFINE u == s \o t
<1>1. /\ u \in Seq(M) /\ Len(u) = Len(s) + Len(t) /\ Len(s) \in Nat /\ Len(t) \in Nat
      /\ \A a \in 1..Len(s) : u[a] = s[a]
      /\ \A a \in 1..Len(t) : u[Len(s) + a] = t[a]
  OBVIOUS
<1> HIDE DEF u
<1>2. ASSUME NEW x \in Members(u) PROVE x \in Members(s) \cup Members(t)
  <2>1. PICK a \in 1..Len(u) : x = u[a]
    BY DEF Members
  <2>2. CASE a <= Len(s)
    BY <1>1, <2>1, <2>2 DEF Members
  <2>3. CASE a > Len(s)
    <3>1. a - Len(s) \in 1..Len(t) /\ u[Len(s) + (a - Len(s))] = x
      BY <1>1, <2>1, <2>3
    <3> QED BY <1>1, <3>1 DEF Members
  <2> QED BY <1>1, <2>1, <2>2, <2>3
<1>3. ASSUME NEW x \in Members(s) PROVE x \in Members(u)
  <2>1. PICK a \in 1..Len(s) : x = s[a]
    BY DEF Members
  <2>2. a \in 1..Len(u) /\ x = u[a]
    BY <1>1, <2>1
  <2> QED BY <2>2 DEF Members
<1>4. ASSUME NEW x \in Members(t) PROVE x \in Members(u)
  <2>1. PICK a \in 1..Len(t) : x = t[a]
    BY DEF Members
  <2>2. Len(s) + a \in 1..Len(u)
    BY <1>1, <2>1
  <2> QED BY <1>1, <2>1, <2>2 DEF Members
<1> QED BY <1>1, <1>2, <1>3, <1>4 DEF u

LEMMA ConcatIncreasing ==
  ASSUME NEW M, NEW S, S \subseteq Nat, NEW s \in Seq(M), NEW t \in Seq(M)
  PROVE  Increasing(s \o t, S) <=>
           /\ Increasing(s, S) /\ Increasing(t, S)
           /\ \A x \in Members(s) \cap S, y \in Members(t) \cap S : x < y
<1> DEFINE u == s \o t
<1>1. /\ Len(u) = Len(s) + Len(t) /\ Len(s) \in Nat /\ Len(t) \in Nat
      /\ \A a \in 1..Len(s) : u[a] = s[a]
      /\ \A a \in 1..Len(t) : u[Len(s) + a] = t[a]
  OBVIOUS
<1> HIDE DEF u
<1>2. ASSUME Increasing(u, S)
      PROVE  /\ Increasing(s, S) /\ Increasing(t, S)
             /\ \A x \in Members(s) \cap S, y \in Members(t) \cap S : x < y
  <2>1. Increasing(s, S)
    BY <1>1, <1>2 DEF Increasing
  <2>2. ASSUME NEW a \in 1..Len(t), NEW b \in 1..Len(t), a < b, t[a] \in S, t[b] \in S
        PROVE  t[a] < t[b]
    <3>1. Len(s) + a \in 1..Len(u) /\ Len(s) + b \in 1..Len(u) /\ Len(s) + a < Len(s) + b
      BY <1>1, <2>2
    <3> QED BY <1>1, <1>2, <2>2, <3>1 DEF Increasing
  <2>3. ASSUME NEW a \in 1..Len(s), NEW b \in 1..Len(t), s[a] \in S, t[b] \in S
        PROVE  s[a] < t[b]
    <3>1. a \in 1..Len(u) /\ Len(s) + b \in 1..Len(u) /\ a < Len(s) + b
      BY <1>1, <2>3
    <3> QED BY <1>1, <1>2, <2>3, <3>1 DEF Increasing
  <2> QED BY <2>1, <2>2, <2>3 DEF Increasing, Members
<1>3. ASSUME Increasing(s, S), Increasing(t, S),
             \A x \in Members(s) \cap S, y \in Members(t) \cap S : x < y,
             NEW a \in 1..Len(u), NEW b \in 1..Len(u), a < b, u[a] \in S, u[b] \in S
      PROVE  u[a] < u[b]
  <2>1. CASE b <= Len(s)
    BY <1>1, <1>3, <2>1 DEF Increasing
  <2>2. CASE a > Len(s)
    <3>1. /\ a - Len(s) \in 1..Len(t) /\ u[Len(s) + (a - Len(s))] = u[a]
          /\ b - Len(s) \in 1..Len(t) /\ u[Len(s) + (b - Len(s))] = u[b]
          /\ a - Len(s) < b - Len(s)
      BY <1>1, <1>3, <2>2
    <3> QED BY <1>1, <1>3, <3>1 DEF Increasing
  <2>3. CASE a <= Len(s) /\ b > Len(s)
    <3>1. b - Len(s) \in 1..Len(t) /\ u[Len(s) + (b - Len(s))] = u[b] /\ a \in 1..Len(s)
      BY <1>1, <1>3, <2>3
    <3>2. u[a] \in Members(s) /\ u[b] \in Members(t)
      BY <1>1, <3>1 DEF Members
    <3> QED BY <1>3, <3>2
  <2> QED BY <1>1, <1>3, <2>1, <2>2, <2>3
<1> QED BY <1>2, <1>3 DEF u, Increasing

LEMMA SetToSeqType ==
  ASSUME NEW S, IsFiniteSet(S)
  PROVE  SetToSeq(S) \in Seq(S)
<1> DEFINE n == Cardinality(S)
<1>1. n \in Nat /\ ExistsBijection(1..n, S)
  BY FS_CardinalityType
<1>2. PICK f \in [1..n -> S] : IsInjective(f)
  BY <1>1 DEF ExistsBijection, Bijection, Injection, IsInjective
<1>3. SetToSeq(S) \in [1..n -> S]
  BY <1>2, Zenon DEF SetToSeq
<1> QED BY <1>1, <1>3

LEMMA EmptyConcat ==
  ASSUME NEW M, NEW s \in Seq(M), NEW t \in Seq(M), s \o t = <<>>
  PROVE  s = <<>> /\ t = <<>>
<1>1. Len(s \o t) = Len(s) + Len(t) /\ Len(s \o t) = 0 /\ Len(s) \in Nat /\ Len(t) \in Nat
  OBVIOUS
<1>2. Len(s) = 0 /\ Len(t) = 0
  BY <1>1
<1> QED BY <1>2

\* What is taken off the front of l is added to the end of h.
LEMMA TakenOff ==
  ASSUME NEW M, NEW h \in Seq(M), NEW m \in Seq(M), NEW rest \in Seq(M), NEW l, l = m \o rest
  PROVE  (h \o m) \o rest = h \o l /\ (l = <<>> => rest = <<>>)
BY ConcatAssociative, EmptyConcat

\* Taking the first of a sequence.
LEMMA HeadAndTail ==
  ASSUME NEW M, NEW s \in Seq(M), s # <<>>
  PROVE  /\ Head(s) \in M /\ Tail(s) \in Seq(M)
         /\ s = <<Head(s)>> \o Tail(s)
OBVIOUS

----------------------------------------------------------------------------
(***************************************************************************)
(* Types.                                                                  *)
(***************************************************************************)
Messages == Posts \cup Effects
Result   == [effect : Effects, version : Nat]
Sockets  == [state : {"connecting", "open", "broken", "closing", "closed"},
             toServer : Seq(Messages), toClient : Seq(Result)]
Apis     == [state : {"none", "loading", "repo", "rejected", "closed"},
             queuedMessages : Seq(Messages), subscriptions : SUBSET Effects]

TypeOK ==
  /\ status \in {"initializing", "open", "reconnecting", "error"}
  /\ queuedMessages \in Seq(Posts)
  /\ timer \in BOOLEAN /\ disposed \in BOOLEAN /\ tokenIsValid \in BOOLEAN
  /\ sockets \in Seq(Sockets) /\ sockets # <<>>
  /\ apis \in Seq(Apis) /\ Len(apis) = Len(sockets)
  /\ DOMAIN reconnecting \subseteq Effects
  /\ shown \in [Effects -> Nat] /\ version \in Nat
  /\ posted \in 0..MaxPosts /\ sent \in [Posts -> 0..this]
  /\ handled \in Seq(Messages)

LEMMA PostsAreNumbers == MaxPosts \in Nat /\ Posts \subseteq Nat /\ 0 \notin Posts
BY BoundsAreNumbers DEF Posts

\* The last socket.
LEMMA ThisType ==
  ASSUME TypeOK
  PROVE  /\ this \in Nat \ {0} /\ this \in 1..this
         /\ DOMAIN sockets = 1..this /\ DOMAIN apis = 1..this
         /\ \A i \in 1..this : sockets[i] \in Sockets /\ apis[i] \in Apis
BY DEF TypeOK, this

LEMMA ClosedApiType ==
  NoApi \in Apis /\ ClosedApi \in Apis /\ ClosedApi.state = "closed" /\ ClosedApi.queuedMessages = <<>>
BY DEF NoApi, ClosedApi, Apis

\* Replacing one socket or one API keeps their types.
LEMMA SocketChanged ==
  ASSUME TypeOK, NEW i \in 1..this, NEW x \in Sockets
  PROVE  /\ [sockets EXCEPT ![i] = x] \in Seq(Sockets)
         /\ Len([sockets EXCEPT ![i] = x]) = this
         /\ [sockets EXCEPT ![i] = x] # <<>>
BY ThisType DEF TypeOK, this

LEMMA ApiChanged ==
  ASSUME TypeOK, NEW i \in 1..this, NEW x \in Apis
  PROVE  /\ [apis EXCEPT ![i] = x] \in Seq(Apis)
         /\ Len([apis EXCEPT ![i] = x]) = this
BY ThisType DEF TypeOK, this

LEMMA SendType ==
  ASSUME NEW x \in Sockets, NEW messages \in Seq(Messages)
  PROVE  /\ Send(messages, x) \in Sockets
         /\ Send(messages, x).state = x.state
         /\ Send(messages, x).toServer
              = IF x.state = "open" THEN x.toServer \o messages ELSE x.toServer
<1>1. x.toServer \in Seq(Messages) /\ x.toServer \o messages \in Seq(Messages)
  BY DEF Sockets
<1> QED BY <1>1 DEF Send, Sockets

LEMMA ReplyType ==
  ASSUME NEW x \in Sockets, NEW results \in Seq(Result)
  PROVE  /\ Reply(x, results) \in Sockets
         /\ Reply(x, results).state = x.state
         /\ Reply(x, results).toServer = x.toServer
<1>1. x.toClient \in Seq(Result) /\ x.toClient \o results \in Seq(Result)
  BY DEF Sockets
<1> QED BY <1>1 DEF Reply, Sockets

LEMMA ResultsType ==
  ASSUME NEW effects, effects \subseteq Effects, NEW v \in Nat
  PROVE  Results(effects, v) \in Seq(Result)
<1> DEFINE S == {[effect |-> e, version |-> v] : e \in effects}
           f == [e \in effects |-> [effect |-> e, version |-> v]]
<1>1. IsFiniteSet(effects)
  BY EffectsAreNames, FS_Subset
<1>2. f \in Surjection(effects, S)
  BY DEF Surjection
<1>3. IsFiniteSet(S) /\ S \subseteq Result
  BY <1>1, <1>2, FS_Surjection DEF Result
<1> HIDE DEF S
<1>4. SetToSeq(S) \in Seq(S)
  BY <1>3, SetToSeqType
<1> QED BY <1>3, <1>4 DEF Results, S

LEMMA AskingType == TypeOK => SetToSeq(Asking) \in Seq(Effects)
<1> SUFFICES ASSUME TypeOK PROVE SetToSeq(Asking) \in Seq(Effects)
  OBVIOUS
<1>1. Asking \subseteq Effects
  BY DEF Asking, TypeOK
<1>2. IsFiniteSet(Asking)
  BY <1>1, EffectsAreNames, FS_Subset
<1>3. SetToSeq(Asking) \in Seq(Asking)
  BY <1>2, SetToSeqType
<1> QED BY <1>1, <1>3

\* What a message of the window does to the bus, the socket and the history.
LEMMA PostMessageType ==
  ASSUME TypeOK, NEW message \in Messages, message \in Posts \/ status = "open",
         PostMessage(message)
  PROVE  /\ queuedMessages' \in Seq(Posts)
         /\ sockets' \in Seq(Sockets) /\ Len(sockets') = this /\ sockets' # <<>>
         /\ sent' \in [Posts -> 0..this]
<1>1. CASE status = "open"
  <2>0. <<message>> \in Seq(Messages)
    OBVIOUS
  <2>1. Send(<<message>>, sockets[this]) \in Sockets
    BY <2>0, ThisType, SendType
  <2>2. /\ sockets' = [sockets EXCEPT ![this] = Send(<<message>>, sockets[this])]
        /\ sent' = SentNow(<<message>>) /\ queuedMessages' = queuedMessages
    BY <1>1 DEF PostMessage
  <2>3. SentNow(<<message>>) \in [Posts -> 0..this]
    BY ThisType DEF SentNow, TypeOK
  <2> QED BY <2>1, <2>2, <2>3, ThisType, SocketChanged DEF TypeOK
<1>2. CASE status # "open"
  <2>1. queuedMessages' = Append(queuedMessages, message) /\ UNCHANGED <<sockets, sent>>
    BY <1>2 DEF PostMessage
  <2>2. message \in Posts /\ queuedMessages \in Seq(Posts)
    BY <1>2 DEF TypeOK
  <2> QED BY <2>1, <2>2 DEF TypeOK, this
<1> QED BY <1>1, <1>2

\* The messages handled leave the server's end and enter the history.
LEMMA HandleType ==
  ASSUME TypeOK, NEW i \in 1..this, NEW messages \in Seq(Messages), Handle(i, messages),
         apis[i].state = "repo" => sockets[i].toServer # <<>>
  PROVE  /\ apis' \in Seq(Apis) /\ Len(apis') = this
         /\ sockets' \in Seq(Sockets) /\ Len(sockets') = this /\ sockets' # <<>>
         /\ handled' \in Seq(Messages)
         /\ handled' = handled \o messages
         /\ \A j \in 1..this \ {i} : apis'[j] = apis[j] /\ sockets'[j] = sockets[j]
         /\ apis'[i].state = "repo" /\ apis'[i].queuedMessages = <<>>
         /\ sockets'[i].state = sockets[i].state
         /\ sockets'[i].toServer = IF apis[i].state = "repo" THEN Tail(sockets[i].toServer)
                                   ELSE sockets[i].toServer
<1> DEFINE effects == ToSet(messages) \ Posts
           api  == [state |-> "repo", queuedMessages |-> <<>>,
                    subscriptions |-> apis[i].subscriptions \cup effects]
           left ==  IF apis[i].state = "repo" THEN Tail(sockets[i].toServer)
                   ELSE sockets[i].toServer
           rest == [sockets[i] EXCEPT !.toServer = left]
           results == Results(IF version = 0 THEN {} ELSE effects, version)
<1>1. effects \subseteq Effects
  BY DEF ToSet, Messages
<1>2. results \in Seq(Result)
  BY <1>1, ResultsType DEF TypeOK
<1>3. sockets[i] \in Sockets /\ apis[i] \in Apis
  BY ThisType
<1>4. api \in Apis /\ api.state = "repo" /\ api.queuedMessages = <<>>
  BY <1>1, <1>3 DEF Apis
<1>5. /\ rest \in Sockets /\ rest.state = sockets[i].state
      /\ rest.toServer = left
  <2>1. left \in Seq(Messages)
    BY <1>3 DEF Sockets
  <2> QED BY <1>3, <2>1 DEF Sockets
<1>6. /\ apis' = [apis EXCEPT ![i] = api]
      /\ sockets' = [sockets EXCEPT ![i] = Reply(rest, results)]
      /\ handled' = handled \o messages
  BY DEF Handle
<1> HIDE DEF api, rest, results
<1>7. /\ Reply(rest, results) \in Sockets /\ Reply(rest, results).state = sockets[i].state
      /\ Reply(rest, results).toServer = rest.toServer
  BY <1>2, <1>5, ReplyType
<1>8. handled' \in Seq(Messages)
  BY <1>6 DEF TypeOK
<1>9. apis' \in Seq(Apis) /\ Len(apis') = this
  BY <1>4, <1>6, ApiChanged
<1>10. sockets' \in Seq(Sockets) /\ Len(sockets') = this /\ sockets' # <<>>
  BY <1>6, <1>7, SocketChanged
<1> QED BY <1>4, <1>5, <1>6, <1>7, <1>8, <1>9, <1>10, ThisType

\* One socket, or all of them, changed into others.
LEMMA SocketsAreTyped ==
  ASSUME TypeOK, DOMAIN sockets' = 1..this, \A i \in 1..this : sockets'[i] \in Sockets,
         NEW f, sockets' = [i \in 1..this |-> f[i]]
  PROVE  sockets' \in Seq(Sockets) /\ Len(sockets') = this /\ sockets' # <<>>
<1>1. sockets' \in [1..this -> Sockets]
  OBVIOUS
<1> QED BY <1>1, ThisType

\* Every step keeps the types.
LEMMA TypeStep == TypeOK /\ [Next]_vars => TypeOK'
<1> SUFFICES ASSUME TypeOK, [Next]_vars PROVE TypeOK'
  OBVIOUS
<1> USE PostsAreNumbers, ThisType
<1>0. \A x \in Sockets, st \in {"connecting", "open", "broken", "closing", "closed"} :
        [x EXCEPT !.state = st] \in Sockets
  BY DEF Sockets
<1>1. CASE Post
  <2>1. posted + 1 \in Posts /\ posted + 1 \in Messages
    BY <1>1 DEF Post, TypeOK, Posts, Messages
  <2>2. posted' = posted + 1 /\ posted' \in 0..MaxPosts /\ PostMessage(posted + 1)
    BY <1>1 DEF Post, TypeOK
  <2> QED BY <1>1, <2>1, <2>2, PostMessageType DEF Post, TypeOK, this
<1>2. ASSUME NEW e \in Effects, CreateEffect(e) PROVE TypeOK'
  <2>1. DOMAIN reconnecting' \subseteq Effects
    BY <1>2 DEF CreateEffect, TypeOK
  <2>2. CASE status = "open"
    BY <1>2, <2>1, <2>2, PostMessageType DEF CreateEffect, TypeOK, this, Messages
  <2>3. CASE status # "open"
    BY <1>2, <2>1, <2>3 DEF CreateEffect, TypeOK, this
  <2> QED BY <2>2, <2>3
<1>3. CASE Opened
  <2> DEFINE messages == queuedMessages \o SetToSeq(Asking)
             opened == [sockets[this] EXCEPT !.state = "open"]
             api == [apis[this] EXCEPT !.state = IF tokenIsValid THEN "loading" ELSE "rejected"]
  <2>1. messages \in Seq(Messages)
    BY AskingType DEF TypeOK, Messages
  <2>2. opened \in Sockets /\ api \in Apis
    BY <1>0 DEF Apis
  <2>3. /\ sockets' = [sockets EXCEPT ![this] = Send(messages, opened)]
        /\ apis' = [apis EXCEPT ![this] = api] /\ sent' = SentNow(messages)
        /\ queuedMessages' = <<>> /\ status' = "open"
        /\ reconnecting' = [e \in DOMAIN reconnecting |-> FALSE]
        /\ UNCHANGED <<timer, disposed, shown, version, tokenIsValid, posted, handled>>
    BY <1>3 DEF Opened, Dequeue
  <2> HIDE DEF messages, opened, api
  <2>4. sockets' \in Seq(Sockets) /\ Len(sockets') = this /\ sockets' # <<>>
    BY <2>1, <2>2, <2>3, SendType, SocketChanged
  <2>5. apis' \in Seq(Apis) /\ Len(apis') = this
    BY <2>2, <2>3, ApiChanged
  <2>6. sent' \in [Posts -> 0..this]
    BY <2>3 DEF SentNow, TypeOK
  <2> QED BY <2>3, <2>4, <2>5, <2>6 DEF TypeOK, this
<1>4. ASSUME NEW reject, CloseEvent(reject) PROVE TypeOK'
  <2>1. sockets' = [sockets EXCEPT ![this] = [sockets[this] EXCEPT !.state = "closed"]]
    BY <1>4 DEF CloseEvent
  <2>2. sockets' \in Seq(Sockets) /\ Len(sockets') = this /\ sockets' # <<>>
    BY <1>0, <2>1, SocketChanged
  <2> QED BY <1>4, <2>2 DEF CloseEvent, TypeOK, this
<1>5. CASE StartConnection
  <2>1. NewSocket \in Sockets /\ NoApi \in Apis
    BY DEF NewSocket, NoApi, Sockets, Apis
  <2>2. sockets' = Append(sockets, NewSocket) /\ apis' = Append(apis, NoApi)
    BY <1>5 DEF StartConnection
  <2>3. /\ sockets' \in Seq(Sockets) /\ Len(sockets') = this + 1 /\ sockets' # <<>>
        /\ apis' \in Seq(Apis) /\ Len(apis') = this + 1
    <3>1. sockets \in Seq(Sockets) /\ apis \in Seq(Apis) /\ Len(sockets) = this /\ Len(apis) = this
      BY DEF TypeOK, this
    <3>2. sockets' \in Seq(Sockets) /\ Len(sockets') = this + 1
      BY <2>1, <2>2, <3>1
    <3>3. apis' \in Seq(Apis) /\ Len(apis') = this + 1
      BY <2>1, <2>2, <3>1
    <3> QED BY <3>2, <3>3
  <2>4. sent' \in [Posts -> 0..(this + 1)]
    <3>1. 0..this \subseteq 0..(this + 1)
      OBVIOUS
    <3> QED BY <1>5, <3>1 DEF StartConnection, TypeOK
  <2> QED BY <1>5, <2>3, <2>4 DEF StartConnection, TypeOK, this
<1>6. CASE Dispose
  <2>1. sockets' = [sockets EXCEPT ![this] = [sockets[this] EXCEPT !.state =
                     IF @ = "closed" THEN @ ELSE "closing"]]
    BY <1>6 DEF Dispose
  <2>2. [sockets[this] EXCEPT !.state = IF @ = "closed" THEN @ ELSE "closing"] \in Sockets
    BY DEF Sockets
  <2>3. sockets' \in Seq(Sockets) /\ Len(sockets') = this /\ sockets' # <<>>
    BY <2>1, <2>2, SocketChanged
  <2> QED BY <1>6, <2>3 DEF Dispose, TypeOK, this
<1>7. CASE ReceiveResult
  <2>1. /\ sockets[this].toClient # <<>>
        /\ shown' = [shown EXCEPT ![Head(sockets[this].toClient).effect]
                                    = Head(sockets[this].toClient).version]
        /\ sockets' = [sockets EXCEPT ![this] =
                        [sockets[this] EXCEPT !.toClient = Tail(sockets[this].toClient)]]
    BY <1>7 DEF ReceiveResult
  <2>2. sockets[this].toClient \in Seq(Result)
    BY DEF Sockets
  <2>3. Head(sockets[this].toClient) \in Result /\ Tail(sockets[this].toClient) \in Seq(Result)
    BY <2>1, <2>2
  <2>4. [sockets[this] EXCEPT !.toClient = Tail(sockets[this].toClient)] \in Sockets
    BY <2>3 DEF Sockets
  <2>5. sockets' \in Seq(Sockets) /\ Len(sockets') = this /\ sockets' # <<>>
    BY <2>1, <2>4, SocketChanged
  <2>6. shown' \in [Effects -> Nat]
    BY <2>1, <2>3 DEF Result, TypeOK
  <2> QED BY <1>7, <2>5, <2>6 DEF ReceiveResult, TypeOK, this
<1>8. ASSUME NEW i \in 1..this, ServerReceives(i) PROVE TypeOK'
  <2> DEFINE first == Head(sockets[i].toServer)
  <2>1. /\ sockets[i].toServer \in Seq(Messages) /\ sockets[i].toServer # <<>>
        /\ apis[i].queuedMessages \in Seq(Messages)
    BY <1>8 DEF ServerReceives, Sockets, Apis
  <2>2. first \in Messages /\ Tail(sockets[i].toServer) \in Seq(Messages)
    BY <2>1
  <2>3. CASE apis[i].state = "repo"
    <3>1. Handle(i, <<first>>) /\ <<first>> \in Seq(Messages)
      BY <1>8, <2>2, <2>3 DEF ServerReceives
    <3> HIDE DEF first
    <3> QED BY <1>8, <2>1, <3>1, HandleType DEF ServerReceives, TypeOK, this
  <2>4. CASE apis[i].state # "repo"
    <3>1. /\ apis' = [apis EXCEPT ![i] =
                       [apis[i] EXCEPT !.queuedMessages = Append(apis[i].queuedMessages, first)]]
          /\ sockets' = [sockets EXCEPT ![i] =
                          [sockets[i] EXCEPT !.toServer = Tail(sockets[i].toServer)]]
          /\ handled' = handled
      BY <1>8, <2>4 DEF ServerReceives, QueueWhileLoading
    <3>2. Append(apis[i].queuedMessages, first) \in Seq(Messages)
      BY <2>1, <2>2
    <3>3. /\ [apis[i] EXCEPT !.queuedMessages = Append(apis[i].queuedMessages, first)] \in Apis
          /\ [sockets[i] EXCEPT !.toServer = Tail(sockets[i].toServer)] \in Sockets
      BY <2>2, <3>2 DEF Apis, Sockets
    <3> HIDE DEF first
    <3>4. sockets' \in Seq(Sockets) /\ Len(sockets') = this /\ sockets' # <<>>
      BY <3>1, <3>3, SocketChanged
    <3>5. apis' \in Seq(Apis) /\ Len(apis') = this
      BY <3>1, <3>3, ApiChanged
    <3> QED BY <1>8, <3>1, <3>4, <3>5 DEF ServerReceives, TypeOK, this
  <2> QED BY <2>3, <2>4
<1>9. ASSUME NEW i \in 1..this, RepositoryLoaded(i) PROVE TypeOK'
  <2>1. /\ Handle(i, apis[i].queuedMessages) /\ apis[i].state = "loading"
        /\ apis[i].queuedMessages \in Seq(Messages)
    BY <1>9 DEF RepositoryLoaded, Apis
  <2> QED BY <1>9, <2>1, HandleType DEF RepositoryLoaded, TypeOK, this
<1>10. ASSUME NEW i \in 1..this, ServerCloses(i) PROVE TypeOK'
  <2>1. ClosedApi \in Apis
    BY ClosedApiType
  <2>2. apis' = [apis EXCEPT ![i] = ClosedApi]
    BY <1>10 DEF ServerCloses
  <2>3. apis' \in Seq(Apis) /\ Len(apis') = this
    BY <2>1, <2>2, ApiChanged
  <2> QED BY <1>10, <2>3 DEF ServerCloses, TypeOK, this
<1>11. CASE Publish
  <2> DEFINE next(i) == IF InUse(i) THEN Reply(sockets[i], Results(apis[i].subscriptions, version'))
                        ELSE sockets[i]
  <2>1. version' \in Nat
    BY <1>11 DEF Publish, TypeOK
  <2>2. ASSUME NEW i \in 1..this PROVE next(i) \in Sockets
    <3>1. apis[i].subscriptions \subseteq Effects
      BY DEF Apis
    <3>2. Results(apis[i].subscriptions, version') \in Seq(Result)
      BY <2>1, <3>1, ResultsType
    <3> QED BY <3>2, ReplyType
  <2>3. sockets' = [i \in 1..this |-> next(i)]
    BY <1>11 DEF Publish
  <2> HIDE DEF next
  <2>4. sockets' \in [1..this -> Sockets]
    BY <2>2, <2>3
  <2>5. sockets' \in Seq(Sockets) /\ Len(sockets') = this /\ sockets' # <<>>
    BY <2>4
  <2> QED BY <1>11, <2>1, <2>5 DEF Publish, TypeOK, this
<1>12. CASE Break
  <2>1. sockets' = [sockets EXCEPT ![this] = [sockets[this] EXCEPT !.state = "broken"]]
    BY <1>12 DEF Break
  <2>2. sockets' \in Seq(Sockets) /\ Len(sockets') = this /\ sockets' # <<>>
    BY <1>0, <2>1, SocketChanged
  <2> QED BY <1>12, <2>2 DEF Break, TypeOK, this
<1>13. CASE RestartServer
  <2>1. sockets' = [sockets EXCEPT ![this] = [sockets[this] EXCEPT !.state =
                      IF @ = "open" THEN "broken" ELSE @]]
    BY <1>13 DEF RestartServer
  <2>2. [sockets[this] EXCEPT !.state = IF @ = "open" THEN "broken" ELSE @] \in Sockets
    BY DEF Sockets
  <2>3. sockets' \in Seq(Sockets) /\ Len(sockets') = this /\ sockets' # <<>>
    BY <2>1, <2>2, SocketChanged
  <2>4. ClosedApi \in Apis
    BY ClosedApiType
  <2>5. apis' \in [1..this -> Apis]
    BY <1>13, <2>4 DEF RestartServer
  <2>6. apis' \in Seq(Apis) /\ Len(apis') = this
    BY <2>5
  <2> QED BY <1>13, <2>3, <2>6 DEF RestartServer, TypeOK, this
<1>14. CASE UNCHANGED vars
  BY <1>14 DEF vars, TypeOK, this
<1> QED BY <1>1, <1>2, <1>3, <1>4, <1>5, <1>6, <1>7, <1>8, <1>9, <1>10, <1>11, <1>12, <1>13,
           <1>14 DEF Next, Closed, Rejected

----------------------------------------------------------------------------
(***************************************************************************)
(* The invariant.                                                          *)
(***************************************************************************)
\* What the server has still to handle of a socket.
Line(i) == apis[i].queuedMessages \o sockets[i].toServer

SentOn(i) == {n \in Posts : sent[n] = i}

\* Only the last socket is in use; messages wait in the window only while the
\* bus is not open, and nothing is sent on a socket before it is.
ConnectionInv ==
  /\ \A i \in 1..this : i # this \/ timer => sockets[i].state = "closed"
  /\ timer \/ sockets[this].state = "connecting" => status # "open"
  /\ status = "open" => queuedMessages = <<>>
  /\ \A i \in 1..this : /\ sockets[i].state = "connecting" => Line(i) = <<>> /\ SentOn(i) = {}
                        /\ apis[i].state # "loading" => apis[i].queuedMessages = <<>>

\* The messages of a socket are handled in the order in which they were
\* posted: what has been handled, followed by what is on its way, increases.
OrderInv ==
  /\ Increasing(queuedMessages, Posts)
  /\ Members(queuedMessages) \subseteq SentOn(NotSent) \cap 1..posted
  /\ \A n \in Posts : n > posted => sent[n] = NotSent
  /\ \A n \in Members(handled) \cap Posts : sent[n] # NotSent
  /\ \A i \in 1..this : /\ Members(Line(i)) \cap Posts \subseteq SentOn(i)
                        /\ Increasing(handled \o Line(i), SentOn(i))

\* Where a posted message is.
IsSomewhere(n) ==
  \/ n \in Members(handled)
  \/ n \in Members(queuedMessages)
  \/ sent[n] # NotSent /\ (GoesOn(sent[n]) => n \in Members(Line(sent[n])))

PlaceInv == \A n \in 1..posted : IsSomewhere(n)

BusInv == TypeOK /\ ConnectionInv /\ OrderInv /\ PlaceInv

LEMMA LineType ==
  ASSUME TypeOK, NEW i \in 1..this
  PROVE  /\ apis[i].queuedMessages \in Seq(Messages) /\ sockets[i].toServer \in Seq(Messages)
         /\ Line(i) \in Seq(Messages)
BY ThisType DEF Line, Sockets, Apis

LEMMA LinesAreTyped == TypeOK => \A i \in 1..this : Line(i) \in Seq(Messages)
BY LineType

\* The same in the next state.
LEMMA LinesAreTypedNext == TypeOK' => (\A i \in 1..this : Line(i) \in Seq(Messages))'
BY LinesAreTyped, PTL

\* A posted message has a number, and was sent on a socket there is if at all.
LEMMA PostedType ==
  ASSUME TypeOK, NEW n \in 1..posted
  PROVE  n \in Posts /\ sent[n] \in 0..this
BY PostsAreNumbers DEF TypeOK, Posts

LEMMA SentOnProperties ==
  \A i : SentOn(i) \subseteq Nat /\ SentOn(i) \subseteq Posts
BY PostsAreNumbers DEF SentOn

\* A step that neither sends nor handles anything: lines stay as they are, or
\* their server's part is dropped with the connection.
LEMMA QuietKeepsOrder ==
  ASSUME TypeOK, TypeOK', OrderInv, PlaceInv, this' \in {this, this + 1},
         UNCHANGED <<queuedMessages, posted, sent, handled>>,
         \A i \in 1..this : /\ \/ Line(i)' = Line(i)
                               \/ Line(i)' = sockets[i].toServer /\ ~GoesOn(i)'
                            /\ GoesOn(i)' => GoesOn(i),
         \A i \in 1..this' : i \notin 1..this => Line(i)' = <<>>
  PROVE  OrderInv' /\ PlaceInv'
<1>1. \A j : SentOn(j)' = SentOn(j)
  BY DEF SentOn
<1>2. handled \in Seq(Messages) /\ Members(<<>>) = {}
  BY DEF TypeOK, Members
<1>3. ASSUME NEW i \in 1..this'
      PROVE  /\ Members(Line(i)') \cap Posts \subseteq SentOn(i)
             /\ Increasing(handled \o Line(i)', SentOn(i))
  <2>1. CASE i \in 1..this /\ Line(i)' = Line(i)
    BY <2>1 DEF OrderInv
  <2>2. CASE i \in 1..this /\ Line(i)' # Line(i)
    <3> DEFINE q == apis[i].queuedMessages
               t == sockets[i].toServer
    <3>1. /\ Line(i)' = t /\ Line(i) = q \o t
          /\ q \in Seq(Messages) /\ t \in Seq(Messages) /\ Line(i) \in Seq(Messages)
      BY <2>2, LineType DEF Line
    <3> HIDE DEF q, t
    <3>2. Members(Line(i)) = Members(q) \cup Members(t)
      BY <3>1, ConcatMembers
    <3>3. /\ Increasing(handled, SentOn(i)) /\ Increasing(Line(i), SentOn(i))
          /\ \A x \in Members(handled) \cap SentOn(i), y \in Members(Line(i)) \cap SentOn(i) : x < y
      BY <1>2, <2>2, <3>1, ConcatIncreasing, SentOnProperties DEF OrderInv
    <3>4. Increasing(t, SentOn(i))
      BY <3>1, <3>3, ConcatIncreasing, SentOnProperties
    <3>5. Increasing(handled \o t, SentOn(i))
      BY <1>2, <3>1, <3>2, <3>3, <3>4, ConcatIncreasing, SentOnProperties
    <3>6. Members(t) \cap Posts \subseteq SentOn(i)
      BY <2>2, <3>2 DEF OrderInv
    <3> QED BY <3>1, <3>5, <3>6
  <2>3. CASE i \notin 1..this
    <3>1. Line(i)' = <<>> /\ SentOn(i) = {}
      BY <2>3, ThisType DEF SentOn, TypeOK
    <3> QED BY <1>2, <3>1 DEF Increasing
  <2> QED BY <2>1, <2>2, <2>3
<1>4. OrderInv'
  BY <1>1, <1>3 DEF OrderInv
<1>5. ASSUME NEW n \in 1..posted PROVE IsSomewhere(n)'
  <2>1. n \in Posts /\ sent[n] \in 0..this
    BY PostedType
  <2>2. CASE sent[n] = NotSent
    BY <2>2 DEF PlaceInv, IsSomewhere
  <2>3. CASE sent[n] # NotSent
    <3>1. sent[n] \in 1..this
      BY <2>1, <2>3 DEF NotSent
    <3>2. \/ Line(sent[n])' = Line(sent[n]) /\ (GoesOn(sent[n])' => GoesOn(sent[n]))
          \/ ~GoesOn(sent[n])'
      BY <3>1
    <3> QED BY <2>3, <3>2 DEF PlaceInv, IsSomewhere
  <2> QED BY <2>2, <2>3
<1> QED BY <1>4, <1>5 DEF PlaceInv

\* Lines of one socket only change, if any.
LEMMA ConnectionKept ==
  ASSUME TypeOK, TypeOK', ConnectionInv, this' = this,
         UNCHANGED <<timer, status, queuedMessages, sent>>,
         \A i \in 1..this :
           /\ sockets[i].state = "closed" => sockets'[i].state = "closed"
           /\ sockets'[i].state = "connecting" => /\ sockets[i].state = "connecting"
                                                  /\ Line(i) = <<>> => Line(i)' = <<>>
           /\ apis'[i].state # "loading" => apis'[i].queuedMessages = <<>>
  PROVE  ConnectionInv'
<1>1. \A j : SentOn(j)' = SentOn(j)
  BY DEF SentOn
<1> QED BY <1>1, ThisType DEF ConnectionInv

\* Handling messages takes them off the line into the history.
LEMMA HandleKeeps ==
  ASSUME BusInv, TypeOK', NEW i \in 1..this, NEW messages \in Seq(Messages), Handle(i, messages),
         \/ /\ apis[i].state = "repo" /\ sockets[i].toServer # <<>>
            /\ messages = <<Head(sockets[i].toServer)>>
         \/ apis[i].state = "loading" /\ messages = apis[i].queuedMessages,
         UNCHANGED <<status, timer, queuedMessages, posted, sent>>
  PROVE  ConnectionInv' /\ OrderInv' /\ PlaceInv'
<1>1. TypeOK /\ ConnectionInv /\ OrderInv /\ PlaceInv
  BY DEF BusInv
<1>2. /\ handled' = handled \o messages
      /\ \A j \in 1..this \ {i} : apis'[j] = apis[j] /\ sockets'[j] = sockets[j]
      /\ apis'[i].state = "repo" /\ apis'[i].queuedMessages = <<>>
      /\ sockets'[i].state = sockets[i].state
      /\ sockets'[i].toServer = IF apis[i].state = "repo" THEN Tail(sockets[i].toServer)
                                ELSE sockets[i].toServer
      /\ Len(sockets') = this
  BY <1>1, HandleType
<1>3. this' = this /\ \A j : SentOn(j)' = SentOn(j)
  BY <1>2 DEF this, SentOn
<1>4. \A j \in 1..this \ {i} : Line(j)' = Line(j)
  BY <1>2 DEF Line
<1>5. /\ handled \in Seq(Messages) /\ Line(i) \in Seq(Messages) /\ Line(i)' \in Seq(Messages)
      /\ apis[i].queuedMessages \in Seq(Messages) /\ sockets[i].toServer \in Seq(Messages)
  BY <1>1, <1>3, LineType, LinesAreTypedNext DEF TypeOK
<1>6. Line(i) = messages \o Line(i)'
  <2>1. CASE apis[i].state = "repo"
    <3>1. apis[i].queuedMessages = <<>>
      BY <1>1, <2>1 DEF ConnectionInv
    <3>2. Line(i)' = Tail(sockets[i].toServer) /\ Line(i) = sockets[i].toServer
      BY <1>2, <1>5, <2>1, <3>1 DEF Line
    <3> QED BY <1>5, <2>1, <3>2, HeadAndTail
  <2>2. CASE apis[i].state = "loading"
    <3>1. messages = apis[i].queuedMessages
      BY <2>2
    <3>2. Line(i)' = sockets[i].toServer
      BY <1>2, <1>5, <2>2 DEF Line
    <3> QED BY <3>1, <3>2 DEF Line
  <2> QED BY <2>1, <2>2
<1>7. /\ Members(Line(i)) = Members(messages) \cup Members(Line(i)')
      /\ Members(handled') = Members(handled) \cup Members(messages)
  BY <1>2, <1>5, <1>6, ConcatMembers
<1>8. ConnectionInv'
  <2>1. Line(i) = <<>> => Line(i)' = <<>>
    <3> DEFINE l == Line(i)
               rest == Line(i)'
    <3>1. l = messages \o rest /\ rest \in Seq(Messages)
      BY <1>5, <1>6
    <3> HIDE DEF l, rest
    <3>2. ASSUME l = <<>> PROVE rest = <<>>
      <4>1. messages \o rest = <<>>
        BY <3>1, <3>2
      <4> QED BY <3>1, <4>1, EmptyConcat
    <3> QED BY <3>2 DEF l, rest
  <2> QED BY <1>1, <1>2, <1>3, <1>4, <2>1, ConnectionKept DEF ConnectionInv
<1>9. ASSUME NEW j \in 1..this PROVE Increasing(handled' \o Line(j)', SentOn(j))
  <2>1. Increasing(handled \o Line(j), SentOn(j))
    BY <1>1 DEF OrderInv
  <2>2. CASE j = i
    <3>1. handled' \o Line(i)' = handled \o Line(i)
      <4> DEFINE l == Line(i)
                 rest == Line(i)'
      <4>1. l = messages \o rest /\ rest \in Seq(Messages) /\ handled \in Seq(Messages)
        BY <1>5, <1>6
      <4> HIDE DEF l, rest
      <4>2. (handled \o messages) \o rest = handled \o l
        BY <4>1, TakenOff
      <4> QED BY <1>2, <4>2 DEF l, rest
    <3> QED BY <2>1, <2>2, <3>1
  <2>3. CASE j # i
    <3>1. Members(messages) \cap SentOn(j) = {}
      BY <1>1, <1>7, <2>3, SentOnProperties DEF OrderInv, SentOn
    <3>2. Line(j) \in Seq(Messages) /\ Line(j)' = Line(j)
      BY <1>1, <1>4, <2>3, LineType
    <3>3. /\ Increasing(handled, SentOn(j)) /\ Increasing(Line(j), SentOn(j))
          /\ \A x \in Members(handled) \cap SentOn(j), y \in Members(Line(j)) \cap SentOn(j) : x < y
      BY <1>5, <2>1, <3>2, ConcatIncreasing, SentOnProperties
    <3>4. Increasing(messages, SentOn(j))
      BY <3>1 DEF Increasing, Members
    <3>5. Increasing(handled', SentOn(j))
      BY <1>2, <1>5, <3>1, <3>3, <3>4, ConcatIncreasing, SentOnProperties
    <3>6. handled' \in Seq(Messages)
      BY DEF TypeOK
    <3> QED BY <1>7, <3>1, <3>2, <3>3, <3>5, <3>6, ConcatIncreasing, SentOnProperties
  <2> QED BY <2>2, <2>3
<1>10. OrderInv'
  <2>1. ASSUME NEW j \in 1..this PROVE Members(Line(j)') \cap Posts \subseteq SentOn(j)
    BY <1>1, <1>4, <1>7 DEF OrderInv
  <2>2. \A n \in Members(handled') \cap Posts : sent[n] # NotSent
    <3>1. Members(Line(i)) \cap Posts \subseteq SentOn(i) /\ i # NotSent
      BY <1>1 DEF OrderInv, NotSent
    <3> QED BY <1>1, <1>7, <3>1 DEF OrderInv, SentOn
  <2> QED BY <1>1, <1>3, <1>9, <2>1, <2>2 DEF OrderInv
<1>11. PlaceInv'
  <2> SUFFICES ASSUME NEW n \in 1..posted PROVE IsSomewhere(n)'
    BY DEF PlaceInv
  <2>1. n \in Posts /\ sent[n] \in 0..this /\ IsSomewhere(n)
    BY <1>1, PostedType DEF PlaceInv
  <2>2. CASE n \in Members(handled) \/ n \in Members(queuedMessages)
    BY <1>7, <2>2 DEF IsSomewhere
  <2>3. CASE sent[n] # NotSent /\ (GoesOn(sent[n]) => n \in Members(Line(sent[n])))
    <3>1. sent[n] \in 1..this
      BY <2>1, <2>3 DEF NotSent
    <3>2. GoesOn(sent[n])' => GoesOn(sent[n])
      BY <1>2, <3>1 DEF GoesOn
    <3>3. n \in Members(Line(sent[n])) => n \in Members(Line(sent[n])') \cup Members(handled')
      BY <1>4, <1>7, <3>1
    <3> QED BY <2>3, <3>2, <3>3 DEF IsSomewhere
  <2> QED BY <2>1, <2>2, <2>3 DEF IsSomewhere
<1> QED BY <1>8, <1>10, <1>11

\* More numbers that are no members.
LEMMA IncreasingInMore ==
  ASSUME NEW s, NEW S, NEW T, Increasing(s, S), Members(s) \cap T \subseteq S
  PROVE  Increasing(s, T)
BY DEF Increasing, Members

\* Messages are sent on the last socket, and there they arrive if it goes on.
LEMMA SendKeepsOrder ==
  ASSUME TypeOK, TypeOK', OrderInv, PlaceInv, this' = this,
         NEW messages \in Seq(Messages),
         Increasing(messages, Posts),
         Members(messages) \cap Posts \subseteq SentOn(NotSent) \cap 1..posted',
         \A x \in SentOn(this), y \in Members(messages) \cap Posts : x < y,
         Members(queuedMessages) \subseteq Members(messages), queuedMessages' = <<>>,
         posted' \in Nat, posted <= posted',
         \A n \in 1..posted' : n \in 1..posted \/ n \in Members(messages),
         sent' = SentNow(messages), handled' = handled,
         \A i \in 1..this \ {this} : Line(i)' = Line(i) /\ (GoesOn(i)' => GoesOn(i)),
         Line(this)' \in {Line(this), Line(this) \o messages},
         GoesOn(this)' => /\ Line(this)' = Line(this) \o messages
                          /\ GoesOn(this) \/ SentOn(this) = {}
  PROVE  OrderInv' /\ PlaceInv'
<1> DEFINE N == Members(messages) \cap Posts
           last == Line(this)
           now  == Line(this)'
<1>1. this \in 1..this /\ this # NotSent
  BY ThisType DEF NotSent
<1>2. \A n \in Posts : sent'[n] = IF n \in N THEN this ELSE sent[n]
  BY DEF SentNow, Contains, Members
<1>3. /\ SentOn(this)' = SentOn(this) \cup N
      /\ \A i \in 1..this \ {this} : SentOn(i)' = SentOn(i)
  <2>1. SentOn(this)' = SentOn(this) \cup N
    BY <1>2 DEF SentOn
  <2>2. ASSUME NEW i \in 1..this, i # this PROVE SentOn(i)' = SentOn(i)
    <3>1. i # NotSent
      BY ThisType DEF NotSent
    <3> QED BY <1>2, <2>2, <3>1 DEF SentOn
  <2> QED BY <2>1, <2>2
<1>4. /\ handled \in Seq(Messages) /\ last \in Seq(Messages) /\ now \in Seq(Messages)
      /\ last \o messages \in Seq(Messages)
      /\ Members(last \o messages) = Members(last) \cup Members(messages)
  <2>1. handled \in Seq(Messages) /\ last \in Seq(Messages)
    BY <1>1, LineType DEF TypeOK
  <2> HIDE DEF last
  <2>2. /\ last \o messages \in Seq(Messages)
        /\ Members(last \o messages) = Members(last) \cup Members(messages)
    BY <2>1, ConcatMembers
  <2> QED BY <2>1, <2>2 DEF last
<1>5. Members(last) \cap Posts \subseteq SentOn(this) /\ Increasing(handled \o last, SentOn(this))
  BY <1>1 DEF OrderInv
<1>6. /\ handled \o last \in Seq(Messages)
      /\ Members(handled \o last) = Members(handled) \cup Members(last)
  BY <1>4, ConcatMembers
<1>7. Members(now) \cap Posts \subseteq SentOn(this) \cup N
  BY <1>4, <1>5
<1>8. Members(handled \o last) \cap (SentOn(this) \cup N) \subseteq SentOn(this)
  <2>1. Members(handled) \cap N = {}
    BY DEF OrderInv, SentOn
  <2> QED BY <1>5, <1>6, <2>1
<1>9. Increasing(handled \o last, SentOn(this) \cup N)
  BY <1>5, <1>8, IncreasingInMore
<1>10. Increasing(handled \o now, SentOn(this) \cup N)
  <2>1. CASE now = last
    BY <1>9, <2>1
  <2>2. CASE now = last \o messages
    <3> DEFINE h == handled \o last
               S == SentOn(this) \cup N
    <3>1. handled \o now = h \o messages
      BY <1>4, <2>2, ConcatAssociative
    <3>2. S \subseteq Nat /\ S \subseteq Posts
      BY SentOnProperties, PostsAreNumbers
    <3>3. Increasing(messages, S)
      BY <3>2, IncreasingInMore
    <3>4. \A x \in Members(h) \cap S, y \in Members(messages) \cap S : x < y
      <4>1. Members(h) \cap S \subseteq SentOn(this)
        BY <1>8
      <4>2. Members(messages) \cap S \subseteq N
        BY <3>2
      <4> QED BY <4>1, <4>2
    <3>5. h \in Seq(Messages) /\ Increasing(h, S)
      BY <1>6, <1>9
    <3> HIDE DEF h, S
    <3>6. Increasing(h \o messages, S)
      BY <3>2, <3>3, <3>4, <3>5, ConcatIncreasing
    <3> QED BY <3>1, <3>6 DEF S
  <2> QED BY <2>1, <2>2
<1>11. OrderInv'
  <2>1. Increasing(queuedMessages', Posts) /\ Members(queuedMessages') = {}
    BY DEF Increasing, Members
  <2>2. \A n \in Posts : n > posted' => sent'[n] = NotSent
    <3> SUFFICES ASSUME NEW n \in Posts, n > posted' PROVE sent'[n] = NotSent
      OBVIOUS
    <3>1. posted \in Nat /\ n \in Nat
      BY PostsAreNumbers DEF TypeOK
    <3>2. n \notin N
      BY <3>1
    <3>3. n > posted
      BY <3>1
    <3> QED BY <1>2, <3>2, <3>3 DEF OrderInv
  <2>3. \A n \in Members(handled') \cap Posts : sent'[n] # NotSent
    BY <1>1, <1>2 DEF OrderInv
  <2>4. ASSUME NEW i \in 1..this
        PROVE  /\ Members(Line(i)') \cap Posts \subseteq SentOn(i)'
               /\ Increasing(handled' \o Line(i)', SentOn(i)')
    <3>1. CASE i = this
      BY <1>3, <1>7, <1>10, <3>1
    <3>2. CASE i # this
      BY <1>3, <3>2 DEF OrderInv
    <3> QED BY <3>1, <3>2
  <2> QED BY <2>1, <2>2, <2>3, <2>4 DEF OrderInv
<1>12. ASSUME NEW n \in 1..posted' PROVE IsSomewhere(n)'
  <2>1. CASE n \in Members(messages)
    <3>1. n \in N
      <4>1. n \in Posts
        BY PostsAreNumbers DEF TypeOK, Posts
      <4> QED BY <2>1, <4>1
    <3>2. sent'[n] = this
      BY <1>2, <3>1
    <3>3. GoesOn(this)' => n \in Members(Line(this)')
      BY <1>4, <2>1
    <3> QED BY <1>1, <3>2, <3>3 DEF IsSomewhere
  <2>2. CASE n \notin Members(messages)
    <3>1. n \in 1..posted /\ n \in Posts /\ sent[n] \in 0..this /\ n \notin Members(queuedMessages)
      BY <2>2, PostedType
    <3>2. sent'[n] = sent[n] /\ IsSomewhere(n)
      BY <1>2, <2>2, <3>1 DEF PlaceInv
    <3>3. CASE n \in Members(handled)
      BY <3>3 DEF IsSomewhere
    <3>4. CASE sent[n] # NotSent /\ (GoesOn(sent[n]) => n \in Members(Line(sent[n])))
      <4>1. PICK i \in 1..this : sent[n] = i
        BY <3>1, <3>4 DEF NotSent
      <4>2. CASE i = this
        <5>1. n \in SentOn(this)
          BY <3>1, <4>1, <4>2 DEF SentOn
        <5>2. GoesOn(this)' => n \in Members(Line(this)')
          BY <1>4, <3>4, <4>1, <4>2, <5>1
        <5> QED BY <3>2, <3>4, <4>1, <4>2, <5>2 DEF IsSomewhere
      <4>3. CASE i # this
        <5>1. GoesOn(i)' => n \in Members(Line(i)')
          BY <3>4, <4>1, <4>3
        <5> QED BY <3>2, <3>4, <4>1, <5>1 DEF IsSomewhere
      <4> QED BY <4>2, <4>3
    <3> QED BY <3>1, <3>2, <3>3, <3>4 DEF IsSomewhere
  <2> QED BY <2>1, <2>2
<1> QED BY <1>11, <1>12 DEF PlaceInv

----------------------------------------------------------------------------
(***************************************************************************)
(* The steps.                                                              *)
(***************************************************************************)
\* A message is posted while the bus is open: it is sent at once.
LEMMA SendAtOnce ==
  ASSUME BusInv, TypeOK', status = "open", NEW message \in Messages, PostMessage(message),
         message \in Posts => message = posted + 1,
         posted' = IF message \in Posts THEN posted + 1 ELSE posted,
         UNCHANGED <<status, timer, apis, handled>>
  PROVE  ConnectionInv' /\ OrderInv' /\ PlaceInv'
<1> DEFINE messages == <<message>>
<1>1. TypeOK /\ ConnectionInv /\ OrderInv /\ PlaceInv
  BY DEF BusInv
<1>2. messages \in Seq(Messages) /\ Members(messages) = {message}
  BY DEF Members
<1>3. /\ sockets' = [sockets EXCEPT ![this] = Send(messages, sockets[this])]
      /\ sent' = SentNow(messages) /\ queuedMessages' = queuedMessages
  BY DEF PostMessage
<1>4. queuedMessages = <<>> /\ sockets[this].state # "connecting"
  BY <1>1 DEF ConnectionInv
<1> HIDE DEF messages
<1>5. /\ Send(messages, sockets[this]) \in Sockets
      /\ Send(messages, sockets[this]).state = sockets[this].state
      /\ Send(messages, sockets[this]).toServer
           = IF sockets[this].state = "open" THEN sockets[this].toServer \o messages
             ELSE sockets[this].toServer
  BY <1>1, <1>2, ThisType, SendType
<1>6. /\ this' = this /\ this \in 1..this
      /\ sockets'[this].state = sockets[this].state
      /\ sockets'[this].toServer = IF sockets[this].state = "open"
                                   THEN sockets[this].toServer \o messages
                                   ELSE sockets[this].toServer
      /\ \A i \in 1..this \ {this} : sockets'[i] = sockets[i]
  <2> DEFINE x == Send(messages, sockets[this])
  <2>1. sockets' = [sockets EXCEPT ![this] = x] /\ x \in Sockets
    BY <1>3, <1>5
  <2> HIDE DEF x
  <2>2. this \in 1..this /\ DOMAIN sockets = 1..this
    BY <1>1, ThisType
  <2>3. Len(sockets') = this
    BY <1>1, <2>1, <2>2, SocketChanged
  <2>4. sockets'[this] = x /\ \A i \in 1..this \ {this} : sockets'[i] = sockets[i]
    BY <2>1, <2>2
  <2> QED BY <1>5, <2>2, <2>3, <2>4 DEF this, x
<1>7. /\ \A i \in 1..this \ {this} : Line(i)' = Line(i) /\ GoesOn(i)' = GoesOn(i)
      /\ GoesOn(this)' = GoesOn(this)
  BY <1>6 DEF Line, GoesOn
<1>8. Line(this)' = IF sockets[this].state = "open" THEN Line(this) \o messages ELSE Line(this)
  <2> DEFINE q == apis[this].queuedMessages
             t == sockets[this].toServer
  <2>1. q \in Seq(Messages) /\ t \in Seq(Messages) /\ Line(this) = q \o t
    BY <1>1, <1>6, LineType DEF Line
  <2>2. Line(this)' = q \o sockets'[this].toServer
    BY <1>6 DEF Line
  <2>3. sockets'[this].toServer = IF sockets[this].state = "open" THEN t \o messages ELSE t
    BY <1>6
  <2> HIDE DEF q, t
  <2> QED BY <1>2, <2>1, <2>2, <2>3, ConcatAssociative
<1>9. /\ posted \in Nat /\ posted' \in Nat /\ posted <= posted'
      /\ message \in Posts => posted' = posted + 1
      /\ message \notin Posts => posted' = posted
  BY <1>1 DEF TypeOK
<1>10. ConnectionInv'
  <2>1. \A i \in 1..this : /\ sockets[i].state = "connecting" => i = this
                           /\ sockets'[i].state = sockets[i].state
    BY <1>1, <1>6 DEF ConnectionInv
  <2> QED BY <1>1, <1>3, <1>4, <1>6, <2>1 DEF ConnectionInv
<1>11. Increasing(messages, Posts)
  BY DEF Increasing, messages
<1>12. Members(messages) \cap Posts \subseteq SentOn(NotSent) \cap 1..posted'
  BY <1>1, <1>2, <1>9 DEF OrderInv, SentOn
<1>13. \A x \in SentOn(this), y \in Members(messages) \cap Posts : x < y
  <2> SUFFICES ASSUME NEW x \in SentOn(this), message \in Posts PROVE x < posted + 1
    BY <1>2
  <2>1. x \in Nat /\ x \in Posts /\ sent[x] # NotSent
    BY <1>6, SentOnProperties DEF SentOn, NotSent
  <2>2. ~(x > posted)
    BY <1>1, <2>1 DEF OrderInv
  <2> QED BY <1>9, <2>1, <2>2
<1>14. \A n \in 1..posted' : n \in 1..posted \/ n \in Members(messages)
  BY <1>2, <1>9
<1>15. Members(queuedMessages) \subseteq Members(messages)
  BY <1>4 DEF Members
<1>16. GoesOn(this)' => Line(this)' = Line(this) \o messages
  BY <1>6, <1>8 DEF GoesOn
<1> QED BY <1>1, <1>2, <1>3, <1>4, <1>6, <1>7, <1>8, <1>9, <1>10, <1>11, <1>12, <1>13, <1>14,
           <1>15, <1>16, SendKeepsOrder

\* A message is posted while the bus is not open: it waits.
LEMMA WaitKeeps ==
  ASSUME BusInv, TypeOK', status # "open", Post
  PROVE  ConnectionInv' /\ OrderInv' /\ PlaceInv'
<1>1. TypeOK /\ ConnectionInv /\ OrderInv /\ PlaceInv
  BY DEF BusInv
<1>2. /\ queuedMessages' = Append(queuedMessages, posted + 1) /\ posted' = posted + 1
      /\ UNCHANGED <<sockets, sent, apis, status, timer, handled>>
  BY DEF Post, PostMessage
<1>3. /\ posted \in Nat /\ posted + 1 \in Posts /\ sent[posted + 1] = NotSent
      /\ queuedMessages \in Seq(Posts) /\ <<posted + 1>> \in Seq(Posts)
  <2>1. posted \in Nat /\ posted + 1 \in Posts
    BY <1>1, PostsAreNumbers DEF Post, TypeOK, Posts
  <2> QED BY <1>1, <2>1 DEF OrderInv, TypeOK
<1>4. /\ this' = this /\ \A i : SentOn(i)' = SentOn(i) /\ Line(i)' = Line(i) /\ GoesOn(i)' = GoesOn(i)
  BY <1>2 DEF this, SentOn, Line, GoesOn
<1> DEFINE one == <<posted + 1>>
<1>5. queuedMessages' = queuedMessages \o one /\ one \in Seq(Posts)
  BY <1>2, <1>3, AppendIsConcat
<1>6. Members(one) = {posted + 1} /\ Increasing(one, Posts)
  BY DEF Members, Increasing
<1> HIDE DEF one
<1>7. Members(queuedMessages') = Members(queuedMessages) \cup {posted + 1}
  BY <1>3, <1>5, <1>6, ConcatMembers
<1>8. Increasing(queuedMessages', Posts)
  <2>1. Increasing(queuedMessages, Posts)
    BY <1>1 DEF OrderInv
  <2>2. \A x \in Members(queuedMessages) \cap Posts, y \in Members(one) \cap Posts : x < y
    <3>1. Members(queuedMessages) \subseteq 1..posted
      BY <1>1 DEF OrderInv
    <3> QED BY <1>3, <1>6, <3>1
  <2>3. Increasing(queuedMessages \o one, Posts)
    BY <1>3, <1>5, <1>6, <2>1, <2>2, ConcatIncreasing, PostsAreNumbers
  <2> QED BY <1>5, <2>3
<1>9. ConnectionInv'
  BY <1>1, <1>2, <1>4 DEF ConnectionInv
<1>10. OrderInv'
  <2>1. Members(queuedMessages') \subseteq SentOn(NotSent) \cap 1..posted'
    BY <1>1, <1>2, <1>3, <1>7 DEF OrderInv, SentOn
  <2>2. \A n \in Posts : n > posted' => sent'[n] = NotSent
    <3> SUFFICES ASSUME NEW n \in Posts, n > posted + 1 PROVE sent[n] = NotSent
      BY <1>2
    <3>1. n > posted
      BY <1>3, PostsAreNumbers
    <3> QED BY <1>1, <3>1 DEF OrderInv
  <2> QED BY <1>1, <1>2, <1>4, <1>8, <2>1, <2>2 DEF OrderInv
<1>11. PlaceInv'
  <2> SUFFICES ASSUME NEW n \in 1..posted' PROVE IsSomewhere(n)'
    BY DEF PlaceInv
  <2>1. CASE n = posted + 1
    BY <1>7, <2>1 DEF IsSomewhere
  <2>2. CASE n # posted + 1
    <3>1. n \in 1..posted
      BY <1>2, <1>3, <2>2
    <3> QED BY <1>1, <1>2, <1>4, <1>7, <3>1 DEF PlaceInv, IsSomewhere
  <2> QED BY <2>1, <2>2
<1> QED BY <1>9, <1>10, <1>11

\* The connection opens: what waited is sent, and the effects subscribe.
LEMMA OpenedKeeps ==
  ASSUME BusInv, TypeOK', Opened
  PROVE  ConnectionInv' /\ OrderInv' /\ PlaceInv'
<1> DEFINE asking == SetToSeq(Asking)
           messages == queuedMessages \o asking
           opened == [sockets[this] EXCEPT !.state = "open"]
           api == [apis[this] EXCEPT !.state = IF tokenIsValid THEN "loading" ELSE "rejected"]
<1>1. TypeOK /\ ConnectionInv /\ OrderInv /\ PlaceInv
  BY DEF BusInv
<1>2. /\ sockets[this].state = "connecting"
      /\ sockets' = [sockets EXCEPT ![this] = Send(messages, opened)]
      /\ apis' = [apis EXCEPT ![this] = api] /\ sent' = SentNow(messages)
      /\ queuedMessages' = <<>> /\ status' = "open"
      /\ UNCHANGED <<timer, posted, handled>>
  BY DEF Opened, Dequeue
<1>3. /\ queuedMessages \in Seq(Messages) /\ asking \in Seq(Messages) /\ asking \in Seq(Effects)
      /\ queuedMessages \in Seq(Posts)
  BY <1>1, AskingType DEF TypeOK, Messages
<1>4. /\ opened \in Sockets /\ opened.state = "open" /\ opened.toServer = sockets[this].toServer
      /\ api.queuedMessages = apis[this].queuedMessages
  BY <1>1, ThisType DEF Sockets, Apis
<1> HIDE DEF asking, opened, api
<1>5. /\ messages \in Seq(Messages)
      /\ Members(messages) = Members(queuedMessages) \cup Members(asking)
  BY <1>3, ConcatMembers
<1>6. Members(asking) \cap Posts = {} /\ Members(queuedMessages) \subseteq Posts
  <2>1. Members(asking) \subseteq Effects
    BY <1>3 DEF Members
  <2>2. Members(queuedMessages) \subseteq Posts
    BY <1>3 DEF Members
  <2> QED BY <2>1, <2>2, EffectsAreNames
<1>7. Increasing(messages, Posts)
  <2>1. Increasing(asking, Posts)
    BY <1>6 DEF Increasing, Members
  <2>2. Increasing(queuedMessages, Posts)
    BY <1>1 DEF OrderInv
  <2> QED BY <1>3, <1>6, <2>1, <2>2, ConcatIncreasing, PostsAreNumbers
<1> HIDE DEF messages
<1>8. this \in 1..this /\ Line(this) = <<>> /\ SentOn(this) = {} /\ ~timer
  BY <1>1, <1>2, ThisType DEF ConnectionInv
<1>9. apis[this].queuedMessages = <<>> /\ sockets[this].toServer = <<>>
  <2> DEFINE q == apis[this].queuedMessages
             t == sockets[this].toServer
  <2>1. q \in Seq(Messages) /\ t \in Seq(Messages) /\ q \o t = <<>>
    BY <1>1, <1>8, LineType DEF Line
  <2> HIDE DEF q, t
  <2>2. q = <<>> /\ t = <<>>
    BY <2>1, ConcatEqualIffEmpty
  <2> QED BY <2>2 DEF q, t
<1>10. /\ Send(messages, opened).state = "open"
       /\ Send(messages, opened).toServer = messages
  <2>1. Send(messages, opened).toServer = <<>> \o messages /\ Send(messages, opened).state = "open"
    <3>1. /\ Send(messages, opened).state = opened.state
          /\ Send(messages, opened).toServer
               = IF opened.state = "open" THEN opened.toServer \o messages ELSE opened.toServer
      BY <1>4, <1>5, SendType
    <3> QED BY <1>4, <1>9, <3>1
  <2> QED BY <1>5, <2>1
<1>11. /\ this' = this
       /\ \A i \in 1..this \ {this} : sockets'[i] = sockets[i] /\ apis'[i] = apis[i]
       /\ sockets'[this].state = "open" /\ sockets'[this].toServer = messages
       /\ apis'[this].queuedMessages = <<>>
  <2> DEFINE x == Send(messages, opened)
  <2>1. sockets' = [sockets EXCEPT ![this] = x] /\ x \in Sockets
    BY <1>2, <1>4, <1>5, SendType
  <2> HIDE DEF x
  <2>2. this \in 1..this /\ DOMAIN sockets = 1..this /\ DOMAIN apis = 1..this
    BY <1>1, ThisType
  <2>3. Len(sockets') = this
    BY <1>1, <2>1, <2>2, SocketChanged
  <2>4. /\ sockets'[this] = x /\ \A i \in 1..this \ {this} : sockets'[i] = sockets[i]
        /\ apis'[this] = api /\ \A i \in 1..this \ {this} : apis'[i] = apis[i]
    BY <1>2, <2>1, <2>2
  <2> QED BY <1>4, <1>9, <1>10, <2>3, <2>4 DEF this, x
<1>12. \A i \in 1..this \ {this} : Line(i)' = Line(i) /\ GoesOn(i)' = GoesOn(i)
  BY <1>11 DEF Line, GoesOn
<1>13. Line(this)' = Line(this) \o messages
  <2>1. Line(this)' = <<>> \o messages
    BY <1>11 DEF Line
  <2> QED BY <1>8, <2>1
<1>14. ConnectionInv'
  <2>1. \A i \in 1..this : sockets'[i].state # "connecting"
    BY <1>1, <1>2, <1>11 DEF ConnectionInv
  <2> QED BY <1>1, <1>2, <1>8, <1>11, <2>1 DEF ConnectionInv
<1>15. Members(messages) \cap Posts \subseteq SentOn(NotSent) \cap 1..posted'
  BY <1>1, <1>2, <1>5, <1>6 DEF OrderInv
<1>16. posted \in Nat /\ posted <= posted
  BY <1>1 DEF TypeOK
<1> QED BY <1>1, <1>2, <1>5, <1>7, <1>8, <1>11, <1>12, <1>13, <1>14, <1>15, <1>16, SendKeepsOrder

\* A step that leaves the status of the bus alone, and neither sends nor
\* handles anything.
LEMMA QuietKeeps ==
  ASSUME BusInv, TypeOK', this' = this,
         UNCHANGED <<timer, status, queuedMessages, posted, sent, handled>>,
         \A i \in 1..this :
           /\ sockets[i].state = "closed" => sockets'[i].state = "closed"
           /\ sockets'[i].state = "connecting" => sockets[i].state = "connecting"
           /\ apis'[i].state # "loading" => apis'[i].queuedMessages = <<>>
           /\ \/ Line(i)' = Line(i)
              \/ Line(i)' = sockets[i].toServer /\ ~GoesOn(i)'
           /\ GoesOn(i)' => GoesOn(i)
  PROVE  ConnectionInv' /\ OrderInv' /\ PlaceInv'
<1>1. TypeOK /\ ConnectionInv /\ OrderInv /\ PlaceInv
  BY DEF BusInv
<1>2. OrderInv' /\ PlaceInv'
  BY <1>1, QuietKeepsOrder
<1>3. ASSUME NEW i \in 1..this, Line(i) = <<>> PROVE Line(i)' = <<>>
  <2> DEFINE q == apis[i].queuedMessages
             t == sockets[i].toServer
  <2>1. q \in Seq(Messages) /\ t \in Seq(Messages) /\ q \o t = <<>>
    BY <1>1, <1>3, LineType DEF Line
  <2> HIDE DEF q, t
  <2>2. t = <<>>
    BY <2>1, EmptyConcat
  <2> QED BY <1>3, <2>2 DEF t
<1>4. ConnectionInv'
  BY <1>1, <1>3, ConnectionKept
<1> QED BY <1>2, <1>4

\* The steps of the sockets' far end and of the network.
LEMMA ServerReceivesKeeps ==
  ASSUME BusInv, TypeOK', NEW i \in 1..this, ServerReceives(i)
  PROVE  ConnectionInv' /\ OrderInv' /\ PlaceInv'
<1> DEFINE first == Head(sockets[i].toServer)
<1>1. /\ TypeOK /\ apis[i].state \in {"loading", "repo"} /\ sockets[i].toServer # <<>>
      /\ UNCHANGED <<status, timer, queuedMessages, posted, sent>>
      /\ sockets[i].toServer \in Seq(Messages) /\ apis[i].queuedMessages \in Seq(Messages)
  BY LineType DEF BusInv, ServerReceives, InUse
<1>2. CASE apis[i].state = "repo"
  <2>1. Handle(i, <<first>>) /\ first \in Messages
    BY <1>1, <1>2, HeadAndTail DEF ServerReceives
  <2>2. <<first>> \in Seq(Messages)
    BY <2>1
  <2> QED BY <1>1, <1>2, <2>1, <2>2, HandleKeeps
<1>3. CASE apis[i].state = "loading"
  <2> DEFINE q == apis[i].queuedMessages
             t == sockets[i].toServer
             api == [apis[i] EXCEPT !.queuedMessages = Append(q, first)]
             socket == [sockets[i] EXCEPT !.toServer = Tail(t)]
  <2>1. apis' = [apis EXCEPT ![i] = api] /\ sockets' = [sockets EXCEPT ![i] = socket] /\ handled' = handled
    BY <1>3 DEF ServerReceives, QueueWhileLoading
  <2>2. sockets[i] \in Sockets /\ apis[i] \in Apis /\ DOMAIN sockets = 1..this /\ DOMAIN apis = 1..this
    BY <1>1, ThisType
  <2>3. /\ api.state = apis[i].state /\ api.queuedMessages = Append(q, first)
        /\ socket.state = sockets[i].state /\ socket.toServer = Tail(t)
    BY <2>2 DEF Sockets, Apis
  <2>4. q \in Seq(Messages) /\ t \in Seq(Messages) /\ t # <<>> /\ first = Head(t)
    BY <1>1
  <2> HIDE DEF api, socket, q, t, first
  <2>5. /\ apis'[i] = api /\ sockets'[i] = socket
        /\ \A j \in 1..this \ {i} : apis'[j] = apis[j] /\ sockets'[j] = sockets[j]
    BY <2>1, <2>2
  <2>6. this' = this
    BY <2>1 DEF this
  <2>7. Append(q, first) \o Tail(t) = q \o t
    <3>1. first \in Messages /\ Tail(t) \in Seq(Messages) /\ t = <<first>> \o Tail(t)
      BY <2>4, HeadAndTail
    <3>2. Append(q, first) = q \o <<first>>
      BY <2>4, <3>1, AppendIsConcat
    <3> DEFINE r == Tail(t)
               o == <<first>>
    <3>3. r \in Seq(Messages) /\ o \in Seq(Messages) /\ t = o \o r /\ Append(q, first) = q \o o
      BY <3>1, <3>2
    <3> HIDE DEF r, o
    <3>4. (q \o o) \o r = q \o (o \o r)
      BY <2>4, <3>3, ConcatAssociative
    <3> QED BY <3>3, <3>4 DEF r
  <2>8. Line(i)' = Line(i)
    BY <2>3, <2>5, <2>7 DEF Line, q, t
  <2>9. \A j \in 1..this : /\ Line(j)' = Line(j) /\ GoesOn(j)' = GoesOn(j)
                           /\ sockets'[j].state = sockets[j].state
                           /\ apis'[j].state = apis[j].state
                           /\ j # i => apis'[j] = apis[j]
    BY <2>3, <2>5, <2>8 DEF Line, GoesOn
  <2>10. \A j \in 1..this : apis[j].state # "loading" => apis[j].queuedMessages = <<>>
    BY DEF BusInv, ConnectionInv
  <2> QED BY <1>1, <1>3, <2>1, <2>6, <2>9, <2>10, QuietKeeps
<1> QED BY <1>1, <1>2, <1>3

LEMMA ServerClosesKeeps ==
  ASSUME BusInv, TypeOK', NEW i \in 1..this, ServerCloses(i)
  PROVE  ConnectionInv' /\ OrderInv' /\ PlaceInv'
<1>1. TypeOK /\ ConnectionInv
  BY DEF BusInv
<1>2. /\ sockets[i].state # "open" /\ apis' = [apis EXCEPT ![i] = ClosedApi]
      /\ UNCHANGED <<sockets, status, timer, queuedMessages, posted, sent, handled>>
  BY DEF ServerCloses
<1>3. /\ this' = this /\ DOMAIN apis = 1..this
      /\ sockets[i].toServer \in Seq(Messages)
  BY <1>1, <1>2, ThisType, LineType DEF this
<1>4. apis'[i] = ClosedApi /\ \A j \in 1..this \ {i} : apis'[j] = apis[j]
  BY <1>2, <1>3
<1>5. Line(i)' = sockets[i].toServer /\ ~GoesOn(i)' /\ apis'[i].queuedMessages = <<>>
  <2>1. Line(i)' = <<>> \o sockets[i].toServer
    BY <1>2, <1>4, ClosedApiType DEF Line
  <2> QED BY <1>2, <1>3, <1>4, <2>1, ClosedApiType DEF GoesOn
<1>6. \A j \in 1..this \ {i} : /\ Line(j)' = Line(j) /\ GoesOn(j)' = GoesOn(j)
                               /\ apis[j].state # "loading" => apis[j].queuedMessages = <<>>
  BY <1>1, <1>2, <1>4 DEF Line, GoesOn, ConnectionInv
<1> QED BY <1>2, <1>3, <1>4, <1>5, <1>6, QuietKeeps

LEMMA RestartServerKeeps ==
  ASSUME BusInv, TypeOK', RestartServer
  PROVE  ConnectionInv' /\ OrderInv' /\ PlaceInv'
<1> DEFINE socket == [sockets[this] EXCEPT !.state = IF @ = "open" THEN "broken" ELSE @]
<1>1. TypeOK /\ ConnectionInv
  BY DEF BusInv
<1>2. /\ sockets' = [sockets EXCEPT ![this] = socket]
      /\ apis' = [i \in DOMAIN apis |-> IF InUse(i) THEN ClosedApi ELSE apis[i]]
      /\ UNCHANGED <<status, timer, queuedMessages, posted, sent, handled>>
  BY DEF RestartServer
<1>3. /\ socket.toServer = sockets[this].toServer
      /\ socket.state = IF sockets[this].state = "open" THEN "broken" ELSE sockets[this].state
  BY <1>1, ThisType DEF Sockets
<1> HIDE DEF socket
<1>4. /\ this' = this /\ this \in 1..this /\ DOMAIN apis = 1..this /\ DOMAIN sockets = 1..this
      /\ \A i \in 1..this : sockets[i].toServer \in Seq(Messages)
  BY <1>1, <1>2, ThisType, LineType DEF this
<1>5. \A i \in 1..this :
        /\ sockets'[i].toServer = sockets[i].toServer
        /\ sockets'[i].state = IF i = this THEN socket.state ELSE sockets[i].state
        /\ apis'[i] = IF InUse(i) THEN ClosedApi ELSE apis[i]
  BY <1>2, <1>3, <1>4
<1>6. \A i \in 1..this : /\ sockets'[i].state # "open"
                         /\ sockets'[i].state \in {sockets[i].state, "broken"}
                         /\ sockets[i].state = "closed" => sockets'[i].state = "closed"
  BY <1>1, <1>3, <1>4, <1>5 DEF ConnectionInv
<1>7. ASSUME NEW i \in 1..this PROVE Line(i)' \in {Line(i), sockets[i].toServer}
  <2>1. CASE InUse(i)
    <3>1. Line(i)' = <<>> \o sockets[i].toServer
      BY <1>5, <2>1, ClosedApiType DEF Line
    <3> QED BY <1>4, <3>1
  <2>2. CASE ~InUse(i)
    BY <1>5, <2>2 DEF Line
  <2> QED BY <2>1, <2>2
<1>8. \A i \in 1..this : apis'[i].state # "loading" => apis'[i].queuedMessages = <<>>
  BY <1>1, <1>5, ClosedApiType DEF ConnectionInv
<1>9. \A i \in 1..this : ~GoesOn(i)'
  BY <1>6 DEF GoesOn
<1> QED BY <1>2, <1>4, <1>6, <1>7, <1>8, <1>9, QuietKeeps

\* What is received, published or lost leaves the lines as they are.
LEMMA NetworkKeeps ==
  ASSUME BusInv, TypeOK', this' = this, apis' = apis,
         UNCHANGED <<timer, status, queuedMessages, posted, sent, handled>>,
         \A i \in 1..this :
           /\ sockets'[i].toServer = sockets[i].toServer
           /\ \/ sockets'[i].state = sockets[i].state
              \/ sockets'[i].state \in {"broken", "closing"} /\ sockets[i].state # "closed"
  PROVE  ConnectionInv' /\ OrderInv' /\ PlaceInv'
<1>1. \A i \in 1..this : Line(i)' = Line(i) /\ (GoesOn(i)' => GoesOn(i))
  BY DEF Line, GoesOn
<1>2. \A i \in 1..this : apis[i].state # "loading" => apis[i].queuedMessages = <<>>
  BY DEF BusInv, ConnectionInv
<1> QED BY <1>1, <1>2, QuietKeeps

LEMMA ReceiveResultKeeps ==
  ASSUME BusInv, TypeOK', ReceiveResult
  PROVE  ConnectionInv' /\ OrderInv' /\ PlaceInv'
<1>1. /\ sockets' = [sockets EXCEPT ![this] =
                      [sockets[this] EXCEPT !.toClient = Tail(sockets[this].toClient)]]
      /\ UNCHANGED <<apis, timer, status, queuedMessages, posted, sent, handled>>
  BY DEF ReceiveResult
<1>2. this' = this /\ DOMAIN sockets = 1..this /\ \A i \in 1..this : sockets[i] \in Sockets
  BY <1>1, ThisType DEF this, BusInv
<1>3. \A i \in 1..this : /\ sockets'[i].toServer = sockets[i].toServer
                         /\ sockets'[i].state = sockets[i].state
  BY <1>1, <1>2 DEF Sockets
<1> QED BY <1>1, <1>2, <1>3, NetworkKeeps

LEMMA DisposeKeeps ==
  ASSUME BusInv, TypeOK', Dispose
  PROVE  ConnectionInv' /\ OrderInv' /\ PlaceInv'
<1>1. /\ sockets' = [sockets EXCEPT ![this] =
                      [sockets[this] EXCEPT !.state = IF @ = "closed" THEN @ ELSE "closing"]]
      /\ UNCHANGED <<apis, timer, status, queuedMessages, posted, sent, handled>>
  BY DEF Dispose
<1>2. this' = this /\ DOMAIN sockets = 1..this /\ \A i \in 1..this : sockets[i] \in Sockets
  BY <1>1, ThisType DEF this, BusInv
<1>3. \A i \in 1..this : /\ sockets'[i].toServer = sockets[i].toServer
                         /\ \/ sockets'[i].state = sockets[i].state
                            \/ sockets'[i].state = "closing" /\ sockets[i].state # "closed"
  BY <1>1, <1>2 DEF Sockets
<1> QED BY <1>1, <1>2, <1>3, NetworkKeeps

LEMMA BreakKeeps ==
  ASSUME BusInv, TypeOK', Break
  PROVE  ConnectionInv' /\ OrderInv' /\ PlaceInv'
<1>1. /\ sockets' = [sockets EXCEPT ![this] = [sockets[this] EXCEPT !.state = "broken"]]
      /\ sockets[this].state = "open"
      /\ UNCHANGED <<apis, timer, status, queuedMessages, posted, sent, handled>>
  BY DEF Break
<1>2. this' = this /\ DOMAIN sockets = 1..this /\ \A i \in 1..this : sockets[i] \in Sockets
  BY <1>1, ThisType DEF this, BusInv
<1>3. \A i \in 1..this : /\ sockets'[i].toServer = sockets[i].toServer
                         /\ \/ sockets'[i].state = sockets[i].state
                            \/ sockets'[i].state = "broken" /\ sockets[i].state # "closed"
  BY <1>1, <1>2 DEF Sockets
<1> QED BY <1>1, <1>2, <1>3, NetworkKeeps

LEMMA PublishKeeps ==
  ASSUME BusInv, TypeOK', Publish
  PROVE  ConnectionInv' /\ OrderInv' /\ PlaceInv'
<1> DEFINE results(i) == Results(apis[i].subscriptions, version')
           next(i) == IF InUse(i) THEN Reply(sockets[i], results(i)) ELSE sockets[i]
<1>1. /\ sockets' = [i \in DOMAIN sockets |-> next(i)]
      /\ UNCHANGED <<apis, timer, status, queuedMessages, posted, sent, handled>>
  BY DEF Publish
<1>2. TypeOK /\ DOMAIN sockets = 1..this /\ this \in Nat
  BY ThisType DEF BusInv
<1>3. ASSUME NEW i \in 1..this
      PROVE  next(i).state = sockets[i].state /\ next(i).toServer = sockets[i].toServer
  <2>1. apis[i].subscriptions \subseteq Effects /\ version' \in Nat
    BY <1>2, ThisType DEF Apis, TypeOK
  <2>2. results(i) \in Seq(Result)
    BY <2>1, ResultsType
  <2> HIDE DEF results
  <2> QED BY <1>2, <2>2, ThisType, ReplyType
<1> HIDE DEF next
<1>4. Len(sockets') = this
  <2>1. sockets' \in Seq(Sockets)
    BY DEF TypeOK
  <2> QED BY <1>1, <1>2, <2>1
<1>5. \A i \in 1..this : /\ sockets'[i].toServer = sockets[i].toServer
                         /\ sockets'[i].state = sockets[i].state
  BY <1>1, <1>2, <1>3
<1>6. this' = this
  BY <1>4 DEF this
<1> QED BY <1>1, <1>5, <1>6, NetworkKeeps

LEMMA CloseEventKeeps ==
  ASSUME BusInv, TypeOK', NEW reject, CloseEvent(reject)
  PROVE  ConnectionInv' /\ OrderInv' /\ PlaceInv'
<1>1. TypeOK /\ ConnectionInv /\ OrderInv /\ PlaceInv
  BY DEF BusInv
<1>2. /\ sockets' = [sockets EXCEPT ![this] = [sockets[this] EXCEPT !.state = "closed"]]
      /\ UNCHANGED <<apis, queuedMessages, posted, sent, handled>>
      /\ \/ status' = "error" /\ timer' = timer
         \/ status' = status /\ timer' = timer
         \/ status' = "reconnecting" /\ timer' = TRUE
  BY DEF CloseEvent
<1>3. /\ this' = this /\ DOMAIN sockets = 1..this /\ this \in 1..this
      /\ \A i \in 1..this : sockets[i] \in Sockets
  BY <1>1, <1>2, ThisType DEF this
<1>4. /\ \A i \in 1..this : /\ sockets'[i].toServer = sockets[i].toServer
                            /\ sockets'[i].state = "closed"
  BY <1>1, <1>2, <1>3 DEF Sockets, ConnectionInv
<1>5. \A i \in 1..this : Line(i)' = Line(i) /\ ~GoesOn(i)'
  BY <1>2, <1>4 DEF Line, GoesOn
<1>6. OrderInv' /\ PlaceInv'
  BY <1>1, <1>2, <1>3, <1>5, QuietKeepsOrder
<1>7. ConnectionInv'
  BY <1>1, <1>2, <1>3, <1>4 DEF ConnectionInv
<1> QED BY <1>6, <1>7

LEMMA StartConnectionKeeps ==
  ASSUME BusInv, TypeOK', StartConnection
  PROVE  ConnectionInv' /\ OrderInv' /\ PlaceInv'
<1>1. TypeOK /\ ConnectionInv /\ OrderInv /\ PlaceInv
  BY DEF BusInv
<1>2. /\ timer /\ ~timer'
      /\ sockets' = Append(sockets, NewSocket) /\ apis' = Append(apis, NoApi)
      /\ UNCHANGED <<status, queuedMessages, posted, sent, handled>>
  BY DEF StartConnection
<1>3. /\ this \in Nat /\ sockets \in Seq(Sockets) /\ Len(sockets) = this
      /\ apis \in Seq(Apis) /\ Len(apis) = this
  BY <1>1, ThisType DEF TypeOK, this
<1>4. /\ this' = this + 1
      /\ \A i \in 1..this : sockets'[i] = sockets[i] /\ apis'[i] = apis[i]
      /\ sockets'[this + 1] = NewSocket /\ apis'[this + 1] = NoApi
  BY <1>2, <1>3 DEF this
<1>5. \A i \in 1..this : /\ Line(i)' = Line(i) /\ GoesOn(i)' = GoesOn(i)
                         /\ sockets'[i].state = "closed"
                         /\ apis'[i].state # "loading" => apis'[i].queuedMessages = <<>>
  BY <1>1, <1>2, <1>4 DEF Line, GoesOn, ConnectionInv
<1> PICK new \in Nat : new = this + 1
  BY <1>3
<1>6. new # 0 /\ \A i \in 1..new : i \in 1..this \/ i = new
  BY <1>3
<1>7. sockets'[new] = NewSocket /\ apis'[new] = NoApi /\ this' = new /\ new \notin 1..this
  BY <1>3, <1>4
<1>8. Line(new)' = <<>>
  <2>1. Line(new)' = apis'[new].queuedMessages \o sockets'[new].toServer
    BY DEF Line
  <2>2. apis'[new].queuedMessages = <<>> /\ sockets'[new].toServer = <<>>
    BY <1>7 DEF NewSocket, NoApi
  <2> QED BY <2>1, <2>2
<1>9. SentOn(new)' = {}
  <2>1. new \notin 0..this
    BY <1>3
  <2>2. \A n \in Posts : sent'[n] # new
    BY <1>1, <1>2, <2>1 DEF TypeOK
  <2> QED BY <2>2 DEF SentOn
<1>10. OrderInv' /\ PlaceInv'
  <2>1. this' \in {this, this + 1}
    BY <1>4
  <2>2. \A i \in 1..this' : i \notin 1..this => Line(i)' = <<>>
    BY <1>6, <1>7, <1>8
  <2> QED BY <1>1, <1>2, <1>5, <2>1, <2>2, QuietKeepsOrder
<1>11. ConnectionInv'
  <2>1. status' # "open"
    BY <1>1, <1>2 DEF ConnectionInv
  <2>2. ASSUME NEW i \in 1..this'
        PROVE  /\ i # this' \/ timer' => sockets'[i].state = "closed"
               /\ sockets'[i].state = "connecting" => Line(i)' = <<>> /\ SentOn(i)' = {}
               /\ apis'[i].state # "loading" => apis'[i].queuedMessages = <<>>
    <3>1. CASE i \in 1..this
      BY <1>5, <3>1
    <3>2. CASE i = new
      <4>1. ~timer' /\ i = this'
        BY <1>2, <1>7, <3>2
      <4>2. apis'[i].queuedMessages = <<>>
        BY <1>7, <3>2 DEF NoApi
      <4> QED BY <1>8, <1>9, <3>2, <4>1, <4>2
    <3> QED BY <1>6, <1>7, <3>1, <3>2
  <2> QED BY <2>1, <2>2 DEF ConnectionInv
<1> QED BY <1>10, <1>11

\* Every step of the window, the server and the network.
LEMMA BusStep == BusInv /\ [Next]_vars => BusInv'
<1> SUFFICES ASSUME BusInv, [Next]_vars PROVE BusInv'
  OBVIOUS
<1>1. TypeOK /\ TypeOK'
  BY TypeStep DEF BusInv
<1> DEFINE Kept == ConnectionInv' /\ OrderInv' /\ PlaceInv'
<1> SUFFICES Kept
  BY <1>1 DEF BusInv
<1> HIDE DEF Kept
<1>2. CASE Post
  <2>1. posted + 1 \in Posts /\ posted + 1 \in Messages
    BY <1>1, <1>2, PostsAreNumbers DEF Post, TypeOK, Posts, Messages
  <2>2. /\ PostMessage(posted + 1) /\ posted' = posted + 1
        /\ UNCHANGED <<status, timer, apis, handled>>
    BY <1>2 DEF Post
  <2>3. CASE status = "open"
    <3> DEFINE message == posted + 1
    <3>1. message \in Posts /\ message \in Messages /\ PostMessage(message) /\ posted' = message
      BY <2>1, <2>2
    <3>2. message \in Posts => message = posted + 1
      OBVIOUS
    <3>3. posted' = IF message \in Posts THEN posted + 1 ELSE posted
      BY <3>1
    <3> HIDE DEF message
    <3> QED BY <1>1, <2>2, <2>3, <3>1, <3>2, <3>3, SendAtOnce DEF Kept
  <2>4. CASE status # "open"
    BY <1>1, <1>2, <2>4, WaitKeeps DEF Kept
  <2> QED BY <2>3, <2>4
<1>3. ASSUME NEW e \in Effects, CreateEffect(e) PROVE Kept
  <2>1. CASE status = "open"
    <3>1. e \notin Posts /\ e \in Messages
      BY EffectsAreNames DEF Messages
    <3> QED BY <1>1, <1>3, <2>1, <3>1, SendAtOnce DEF CreateEffect, Kept
  <2>2. CASE status # "open"
    <3>1. UNCHANGED <<sockets, apis, timer, status, queuedMessages, posted, sent, handled>>
      BY <1>3, <2>2 DEF CreateEffect
    <3>2. this' = this
      BY <3>1 DEF this
    <3> QED BY <1>1, <3>1, <3>2, NetworkKeeps DEF Kept
  <2> QED BY <2>1, <2>2
<1>4. ASSUME NEW i \in 1..this, RepositoryLoaded(i) PROVE Kept
  <2>1. /\ Handle(i, apis[i].queuedMessages) /\ apis[i].state = "loading"
        /\ UNCHANGED <<status, timer, queuedMessages, posted, sent>>
    BY <1>4 DEF RepositoryLoaded
  <2>2. apis[i].queuedMessages \in Seq(Messages)
    BY <1>1, LineType
  <2> QED BY <1>1, <2>1, <2>2, HandleKeeps DEF Kept
<1>5. CASE UNCHANGED vars
  <2>1. this' = this /\ UNCHANGED <<sockets, apis, timer, status, queuedMessages, posted, sent, handled>>
    BY <1>5 DEF vars, this
  <2> QED BY <1>1, <2>1, NetworkKeeps DEF Kept
<1>6. CASE Opened \/ Closed \/ Rejected \/ StartConnection \/ Dispose \/ ReceiveResult
           \/ Publish \/ Break \/ RestartServer
  BY <1>1, <1>6, OpenedKeeps, CloseEventKeeps, StartConnectionKeeps, DisposeKeeps,
     ReceiveResultKeeps, PublishKeeps, BreakKeeps, RestartServerKeeps
     DEF Closed, Rejected, Kept
<1>7. ASSUME NEW i \in 1..this, ServerReceives(i) \/ ServerCloses(i) PROVE Kept
  BY <1>1, <1>7, ServerReceivesKeeps, ServerClosesKeeps DEF Kept
<1>8. DOMAIN sockets = 1..this
  BY <1>1, ThisType
<1> QED BY <1>2, <1>3, <1>4, <1>5, <1>6, <1>7, <1>8 DEF Next

LEMMA InitTypeOK == Init => TypeOK
<1> SUFFICES ASSUME Init PROVE TypeOK
  OBVIOUS
<1>1. NewSocket \in Sockets /\ NoApi \in Apis
  BY DEF NewSocket, NoApi, Sockets, Apis
<1>2. /\ sockets \in Seq(Sockets) /\ Len(sockets) = 1 /\ sockets # <<>>
      /\ apis \in Seq(Apis) /\ Len(apis) = 1
  BY <1>1 DEF Init
<1>3. sent \in [Posts -> 0..this] /\ posted \in 0..MaxPosts
  BY <1>2, PostsAreNumbers DEF Init, NotSent, this
<1>4. DOMAIN reconnecting \subseteq Effects /\ shown \in [Effects -> Nat] /\ version \in Nat
  BY DEF Init
<1>5. queuedMessages \in Seq(Posts) /\ handled \in Seq(Messages)
  BY DEF Init
<1>6. /\ status \in {"initializing", "open", "reconnecting", "error"}
      /\ timer \in BOOLEAN /\ disposed \in BOOLEAN /\ tokenIsValid \in BOOLEAN
  BY DEF Init
<1> QED BY <1>2, <1>3, <1>4, <1>5, <1>6 DEF TypeOK

LEMMA InitBusInv == Init => BusInv
<1> SUFFICES ASSUME Init PROVE BusInv
  OBVIOUS
<1>1. TypeOK
  BY InitTypeOK
<1>2. /\ this = 1 /\ sockets[1] = NewSocket /\ apis[1] = NoApi
      /\ queuedMessages = <<>> /\ handled = <<>> /\ posted = 0 /\ status # "open" /\ ~timer
      /\ \A n \in Posts : sent[n] = 0
  BY DEF Init, this, NotSent
<1>3. Members(<<>>) = {} /\ \A S : Increasing(<<>>, S)
  BY DEF Members, Increasing
<1>4. Line(1) = <<>> /\ SentOn(1) = {}
  BY <1>2 DEF Line, SentOn, NewSocket, NoApi
<1>5. ConnectionInv
  BY <1>2, <1>4 DEF ConnectionInv, NewSocket, NoApi
<1>6. OrderInv
  <2>1. handled \o Line(1) = <<>>
    BY <1>2, <1>4
  <2> QED BY <1>2, <1>3, <1>4, <2>1 DEF OrderInv, NotSent
<1>7. PlaceInv
  BY <1>2 DEF PlaceInv
<1> QED BY <1>1, <1>5, <1>6, <1>7 DEF BusInv

----------------------------------------------------------------------------
(***************************************************************************)
(* What the invariant says of the messages.                                *)
(***************************************************************************)
LEMMA ContainsMembers ==
  ASSUME NEW s, NEW x
  PROVE  Contains(s, x) <=> x \in Members(s)
BY DEF Contains, Members

\* Two places of the history.
LEMMA HandledInOrder ==
  ASSUME BusInv, NEW a \in DOMAIN handled, NEW b \in DOMAIN handled, a < b,
         handled[a] \in Posts, handled[b] \in Posts
  PROVE  /\ handled[a] # handled[b]
         /\ sent[handled[a]] = sent[handled[b]] => handled[a] < handled[b]
<1>1. TypeOK /\ OrderInv
  BY DEF BusInv
<1>2. /\ handled \in Seq(Messages) /\ DOMAIN handled = 1..Len(handled)
      /\ sent[handled[a]] \in 0..this /\ sent[handled[b]] \in 0..this
  BY <1>1 DEF TypeOK
<1>3. handled[a] \in Members(handled) /\ handled[b] \in Members(handled)
  BY <1>2 DEF Members
<1>4. ASSUME sent[handled[a]] = sent[handled[b]] PROVE handled[a] < handled[b]
  <2>1. sent[handled[a]] \in 1..this
    BY <1>1, <1>2, <1>3 DEF OrderInv, NotSent
  <2>2. PICK i \in 1..this : sent[handled[a]] = i
    BY <2>1
  <2>3. handled[a] \in SentOn(i) /\ handled[b] \in SentOn(i)
    BY <1>4, <2>2 DEF SentOn
  <2>4. Increasing(handled \o Line(i), SentOn(i)) /\ Line(i) \in Seq(Messages)
    BY <1>1, LineType DEF OrderInv
  <2>5. Increasing(handled, SentOn(i))
    BY <1>2, <2>4, ConcatIncreasing, SentOnProperties
  <2> QED BY <1>2, <2>3, <2>5 DEF Increasing
<1>5. handled[a] # handled[b]
  <2>1. \A x \in Posts : ~(x < x)
    BY PostsAreNumbers
  <2>2. ASSUME handled[a] = handled[b] PROVE FALSE
    <3>1. handled[a] < handled[b]
      BY <1>4, <2>2
    <3>2. handled[b] < handled[b]
      BY <2>2, <3>1
    <3> QED BY <2>1, <3>2
  <2> QED BY <2>2
<1> QED BY <1>4, <1>5

LEMMA InOrderFromInv == BusInv => AtMostOnceInOrder
BY HandledInOrder DEF AtMostOnceInOrder

LEMMA LostFromInv == BusInv => LostOnlyWithItsConnection
<1> SUFFICES ASSUME BusInv, NEW n \in 1..posted
             PROVE  \/ Contains(handled, n)
                    \/ Waiting(n) /\ sent[n] = NotSent
                    \/ sent[n] # NotSent /\ (GoesOn(sent[n]) => OnItsWay(n, sent[n]))
  BY DEF LostOnlyWithItsConnection
<1>1. TypeOK /\ OrderInv /\ IsSomewhere(n)
  BY DEF BusInv, PlaceInv
<1>2. n \in Posts /\ sent[n] \in 0..this
  BY <1>1, PostedType
<1>3. CASE n \in Members(handled)
  BY <1>3, ContainsMembers
<1>4. CASE n \in Members(queuedMessages)
  <2>1. Waiting(n)
    BY <1>4, ContainsMembers DEF Waiting
  <2>2. sent[n] = NotSent
    BY <1>1, <1>4 DEF OrderInv, SentOn
  <2> QED BY <2>1, <2>2
<1>5. CASE sent[n] # NotSent /\ (GoesOn(sent[n]) => n \in Members(Line(sent[n])))
  <2>1. PICK i \in 1..this : sent[n] = i
    BY <1>2, <1>5 DEF NotSent
  <2>2. n \in Members(Line(i)) => OnItsWay(n, i)
    <3> DEFINE q == apis[i].queuedMessages
               t == sockets[i].toServer
    <3>1. q \in Seq(Messages) /\ t \in Seq(Messages)
      BY <1>1, LineType
    <3> HIDE DEF q, t
    <3>2. n \in Members(q \o t) => n \in Members(t \o q)
      BY <3>1, ConcatMembers
    <3>3. n \in Members(t \o q) => Contains(t \o q, n)
      BY ContainsMembers
    <3> QED BY <3>2, <3>3 DEF Line, OnItsWay, q, t
  <2> QED BY <1>5, <2>1, <2>2
<1> QED BY <1>1, <1>3, <1>4, <1>5 DEF IsSomewhere

----------------------------------------------------------------------------
(***************************************************************************)
(* Theorems.                                                               *)
(***************************************************************************)
\* The state of the window, the server's ends and the network has its types
\* throughout.
THEOREM TypeCorrect == Spec => []TypeOK
<1>1. Init => TypeOK
  BY InitTypeOK
<1>2. TypeOK /\ [Next]_vars => TypeOK'
  BY TypeStep
<1> QED BY <1>1, <1>2, PTL DEF Spec

\* LocalWebSocketEventBus and ServerToClientAPI: only the last socket is ever
\* in use, messages wait in the window only while the bus is not open, and what
\* has been handled of a socket followed by what is on its way is in the order
\* in which the users posted it.
THEOREM BusInvHolds == Spec => []BusInv
<1>1. Init => BusInv
  BY InitBusInv
<1>2. BusInv /\ [Next]_vars => BusInv'
  BY BusStep
<1> QED BY <1>1, <1>2, PTL DEF Spec

\* postMessage, the queue of the bus and the queue of the server's end: whatever
\* the network does, however often the server is restarted and whenever the
\* window is used, a posted message is handled once at most, those of one
\* connection are handled in order, and a message is lost with the connection
\* it was sent over and not otherwise.
THEOREM NoneIsLostOnItsOwn == Spec => []DeliveredOrLostTogether
<1>1. BusInv => DeliveredOrLostTogether
  BY InOrderFromInv, LostFromInv DEF DeliveredOrLostTogether
<1> QED BY <1>1, BusInvHolds, PTL

----------------------------------------------------------------------------
(***************************************************************************)
(* The form for a commit                                                   *)
(***************************************************************************)
Titles == Branches \cup Typed
Names == Branches \cup Typed \cup {New}
Modes == {"commit", "amend"}

\* A repository: its branches have names, and titles that are not empty.
RepoOk(r) ==
  /\ r = [titles |-> r.titles, parents |-> r.parents, head |-> r.head, dirty |-> r.dirty]
  /\ r.titles = [b \in DOMAIN r.titles |-> r.titles[b]]
  /\ Branches \subseteq DOMAIN r.titles /\ DOMAIN r.titles \subseteq Names
  /\ r.head \in DOMAIN r.titles
  /\ \A b \in DOMAIN r.titles : r.titles[b] \in Titles

\* Only the branch that is being created has a message that cannot be edited,
\* and only that of a new branch may be empty.
MessagesOk(r, msgs) ==
  /\ msgs = [k \in DOMAIN msgs |-> msgs[k]]
  /\ \A k \in DOMAIN msgs :
       /\ k = "head" => msgs[k] \in Titles \cup {""}
       /\ k \in DOMAIN r.titles => msgs[k] \in Titles \cup {Optimistic}
       /\ k \in Branches => msgs[k] # Optimistic
       /\ k \notin DOMAIN r.titles \cup {"head"} => msgs[k] = Optimistic

\* An operation has a title; a new branch that is called like another one is
\* known to be doubtful.
OpOk(r, o, d) ==
  /\ o.kind \in {"none", "commit", "amend", "reword", "submit"}
  /\ o.kind = "none" => o = NoOp
  /\ o.kind \in {"amend", "reword"} => o.branch \in DOMAIN r.titles /\ o.title \in Titles
  /\ o.kind = "commit" => /\ o.title \in Titles \cup {""}
                          /\ o.title \in DOMAIN r.titles => o.title \in d

\* The bar of a new branch was mounted on the trunk.
BarOk(view, m, b) ==
  /\ b.isCommitMode => b.branch = Trunk
  /\ b = NoView => IsPublic(view, m)

\* A new branch has a form to fill in.
FieldsOk(view, fs) ==
  /\ fs \in [edited : BOOLEAN, forceWhileOnHead : BOOLEAN]
  /\ fs.forceWhileOnHead => fs.edited
  /\ view.isCommitMode => fs.edited

\* ShownIsSent, of any state.
ShownIn(r, o, m, s, msgs, fs, d) ==
  LET view == View(r, o, m, s)
      message == msgs[Key(view)]
  IN  message # Optimistic /\ ~IsPublic(view, m) /\ Key(view) \notin d
        => fs.edited \/ message = Tree(r, o).titles[view.branch]

\* The invariant of the form.
FormInv ==
  /\ RepoOk(repo)
  /\ MessagesOk(repo, commitMessages) /\ Key(Here) \in DOMAIN commitMessages
  /\ OpOk(repo, operation, doubtful)
  /\ mode \in Modes /\ selected # Trunk
  /\ BarOk(Here, mode, bar)
  /\ FieldsOk(Here, fields)
  /\ ShownIn(repo, operation, mode, selected, commitMessages, fields, doubtful)

----------------------------------------------------------------------------
LEMMA ShownIsShownIn ==
  ShownIsSent <=> ShownIn(repo, operation, mode, selected, commitMessages, fields, doubtful)
BY DEF ShownIsSent, ShownIn, Message, Here, Title

\* The tree of a preview.
LEMMA TreeFacts ==
  ASSUME FormAssumption, NEW r, NEW o, NEW d, RepoOk(r), OpOk(r, o, d)
  PROVE  /\ o.kind = "commit" =>
              /\ DOMAIN Tree(r, o).titles = DOMAIN r.titles \cup {o.title}
              /\ Tree(r, o).head = o.title
              /\ \A b \in DOMAIN r.titles \cup {o.title} :
                   Tree(r, o).titles[b] = IF b = o.title THEN o.title ELSE r.titles[b]
         /\ o.kind # "commit" =>
              DOMAIN Tree(r, o).titles = DOMAIN r.titles /\ Tree(r, o).head = r.head
         /\ o.kind \in {"amend", "reword"} =>
              \A b \in DOMAIN r.titles :
                Tree(r, o).titles[b] = IF b = o.branch THEN o.title ELSE r.titles[b]
         /\ o.kind \in {"none", "submit"} => Tree(r, o).titles = r.titles
         /\ Tree(r, o).head \in DOMAIN Tree(r, o).titles
<1>1. CASE o.kind = "commit"
  <2>1. Tree(r, o) = [titles |-> [b \in DOMAIN r.titles \cup {o.title} |->
                                    IF b = o.title THEN o.title ELSE r.titles[b]],
                      head |-> o.title]
    BY <1>1 DEF Tree
  <2> QED
    BY <1>1, <2>1
<1>2. CASE o.kind \in {"amend", "reword"}
  <2>1. Tree(r, o) = [titles |-> [r.titles EXCEPT ![o.branch] = o.title], head |-> r.head]
    BY <1>2 DEF Tree
  <2>2. \A b \in DOMAIN r.titles :
          Tree(r, o).titles[b] = IF b = o.branch THEN o.title ELSE r.titles[b]
    BY <2>1
  <2>3. r.head \in DOMAIN r.titles
    BY DEF RepoOk
  <2> QED
    BY <1>2, <2>1, <2>2, <2>3
<1>3. CASE o.kind \in {"none", "submit"}
  <2>1. Tree(r, o) = [titles |-> r.titles, head |-> r.head]
    BY <1>3 DEF Tree
  <2>2. r.head \in DOMAIN r.titles
    BY DEF RepoOk
  <2> QED
    BY <1>3, <2>1, <2>2
<1>4. o.kind \in {"none", "commit", "amend", "reword", "submit"}
  BY DEF OpOk
<1> QED
  BY <1>1, <1>2, <1>3, <1>4

\* What is shown is there: the selected branch, or the head.
ViewOk(view, tree, m, s) ==
  /\ view.branch \in DOMAIN tree.titles
  /\ (view.branch = "" \/ view.branch \in Names) /\ view.branch # "head"
  /\ view.isHead <=> view.branch = tree.head
  /\ view.isCommitMode <=> view.isHead /\ m = "commit"
  /\ view.isHead \in BOOLEAN /\ view.isCommitMode \in BOOLEAN
  /\ s = NoBranch \/ view.branch # s => view.isHead
  /\ view # NoView

LEMMA ViewFacts ==
  ASSUME FormAssumption, NEW r, NEW o, NEW d, NEW m, NEW s, RepoOk(r), OpOk(r, o, d)
  PROVE  ViewOk(View(r, o, m, s), Tree(r, o), m, s)
<1> DEFINE tree == Tree(r, o)
           seen == IF s \in DOMAIN tree.titles THEN s ELSE tree.head
<1>1. View(r, o, m, s) = [branch |-> seen, isCommitMode |-> seen = tree.head /\ m = "commit",
                          isHead |-> seen = tree.head]
  BY DEF View
<1>2. /\ tree.head \in DOMAIN tree.titles
      /\ DOMAIN tree.titles = DOMAIN r.titles \/ (/\ DOMAIN tree.titles = DOMAIN r.titles \cup {o.title}
                                                  /\ tree.head = o.title /\ o.title \in Titles \cup {""})
  <2> HIDE DEF tree
  <2>1. tree.head \in DOMAIN tree.titles
    BY TreeFacts DEF tree
  <2>2. CASE o.kind = "commit"
    <3>1. DOMAIN tree.titles = DOMAIN r.titles \cup {o.title} /\ tree.head = o.title
      BY <2>2, TreeFacts DEF tree
    <3>2. o.title \in Titles \cup {""}
      BY <2>2 DEF OpOk
    <3> QED
      BY <2>1, <3>1, <3>2
  <2>3. CASE o.kind # "commit"
    <3>1. DOMAIN tree.titles = DOMAIN r.titles
      BY <2>3, TreeFacts DEF tree
    <3> QED
      BY <2>1, <3>1
  <2> QED
    BY <2>2, <2>3
<1>3. /\ DOMAIN r.titles \subseteq Names /\ Titles \subseteq Names
      /\ NoBranch \notin Names /\ "" \notin Names /\ "head" \notin Names
  BY DEF RepoOk, FormAssumption, Names, Titles
<1> HIDE DEF tree
<1>4. seen \in DOMAIN tree.titles
  BY <1>2
<1>5. s = NoBranch => seen = tree.head
  BY <1>2, <1>3
<1>6. seen \in Names \cup {""} /\ seen # "head"
  BY <1>2, <1>3, <1>4
<1>7. seen = NoBranch => seen = tree.head
  BY <1>2, <1>3, <1>4
<1>8. seen # s => seen = tree.head
  OBVIOUS
<1> HIDE DEF seen
<1> DEFINE view == View(r, o, m, s)
<1>9. /\ view.branch = seen
      /\ view.isHead = (seen = tree.head)
      /\ view.isCommitMode = (seen = tree.head /\ m = "commit")
  BY <1>1
<1>10. NoView.branch = NoBranch /\ NoView.isHead = FALSE
  BY DEF NoView
<1> HIDE DEF view
<1>11. view # NoView
  BY <1>7, <1>9, <1>10
<1>12. view.branch \in DOMAIN tree.titles
  BY <1>4, <1>9
<1>13. view.isHead <=> view.branch = tree.head
  BY <1>9
<1>14. view.isCommitMode <=> view.isHead /\ m = "commit"
  BY <1>9
<1>15. view.isHead \in BOOLEAN /\ view.isCommitMode \in BOOLEAN
  BY <1>9
<1>16. s = NoBranch => view.isHead
  BY <1>5, <1>9
<1>17. (view.branch = "" \/ view.branch \in Names) /\ view.branch # "head"
  BY <1>6, <1>9
<1>18. view.branch # s => view.isHead
  BY <1>8, <1>9
<1> QED
  BY <1>11, <1>12, <1>13, <1>14, <1>15, <1>16, <1>17, <1>18 DEF tree, view, ViewOk

\* A look up changes no message, and finds the right ones.
LEMMA LookUpFacts ==
  ASSUME FormAssumption, NEW r, NEW msgs, NEW key, RepoOk(r), MessagesOk(r, msgs)
  PROVE  /\ MessagesOk(r, LookUp(r, msgs, key))
         /\ key \in DOMAIN LookUp(r, msgs, key)
         /\ \A k \in DOMAIN msgs :
              k \in DOMAIN LookUp(r, msgs, key) /\ LookUp(r, msgs, key)[k] = msgs[k]
<1> DEFINE looked == LookUp(r, msgs, key)
<1>1. /\ looked = [k \in DOMAIN looked |-> looked[k]]
      /\ DOMAIN looked = DOMAIN msgs \cup {key}
      /\ \A k \in DOMAIN msgs : looked[k] = msgs[k]
      /\ key \notin DOMAIN msgs => looked[key] = Default(r, key)
  BY DEF LookUp
<1>2. "head" \notin DOMAIN r.titles /\ Branches \subseteq DOMAIN r.titles
  BY DEF RepoOk, FormAssumption, Names
<1>3. /\ key = "head" => Default(r, key) = ""
      /\ key \in DOMAIN r.titles => Default(r, key) \in Titles
      /\ key \notin DOMAIN r.titles \cup {"head"} => Default(r, key) = Optimistic
  BY <1>2 DEF Default, RepoOk
<1>4. Optimistic \notin Titles
  BY DEF FormAssumption, Titles
<1> HIDE DEF looked
<1>5. ASSUME NEW k \in DOMAIN looked
      PROVE  /\ k = "head" => looked[k] \in Titles \cup {""}
             /\ k \in DOMAIN r.titles => looked[k] \in Titles \cup {Optimistic}
             /\ k \in Branches => looked[k] # Optimistic
             /\ k \notin DOMAIN r.titles \cup {"head"} => looked[k] = Optimistic
  <2>1. CASE k \in DOMAIN msgs
    <3>1. looked[k] = msgs[k]
      BY <1>1, <2>1
    <3> QED
      BY <2>1, <3>1 DEF MessagesOk
  <2>2. CASE k = key /\ k \notin DOMAIN msgs
    <3>1. looked[k] = Default(r, key)
      BY <1>1, <2>2
    <3> QED
      BY <1>2, <1>3, <1>4, <2>2, <3>1
  <2> QED
    BY <1>1, <2>1, <2>2
<1>6. MessagesOk(r, looked)
  BY <1>1, <1>5 DEF MessagesOk
<1> QED
  BY <1>1, <1>6 DEF looked

\* The window is drawn again.  When the effect of the fields runs, they show
\* what is edited; else what was shown must still be right.
LEMMA RenderKeeps ==
  ASSUME FormAssumption, FormInv,
         NEW r, NEW o, NEW m, NEW s, NEW msgs, NEW fs, NEW d, NEW view, NEW looked,
         Render(r, o, m, s, msgs, fs), doubtful' = d,
         view = View(r, o, m, s), looked = LookUp(r, msgs, Key(view)),
         RepoOk(r), MessagesOk(r, msgs), OpOk(r, o, d), m \in Modes, s # Trunk,
         fs \in [edited : BOOLEAN, forceWhileOnHead : BOOLEAN], fs.forceWhileOnHead => fs.edited,
         bar = NoView /\ view.isCommitMode => view.branch = Trunk,
         (Here.branch = view.branch /\ Here.isCommitMode = view.isCommitMode)
           => (view.isCommitMode => fs.edited) /\ ShownIn(r, o, m, s, looked, fs, d)
  PROVE  FormInv'
<1> DEFINE seen == Here.branch = view.branch /\ Here.isCommitMode = view.isCommitMode
           title == Tree(r, o).titles[view.branch]
<1>1. /\ repo' = r /\ operation' = o /\ mode' = m /\ selected' = s /\ commitMessages' = looked
      /\ fields' = IF seen THEN fs ELSE Reset(view, fs, looked[Key(view)], title)
      /\ bar' = IF IsPublic(view, m) THEN NoView ELSE IF bar = NoView THEN view ELSE bar
  BY DEF Render, Here
<1>2. /\ MessagesOk(r, looked) /\ Key(view) \in DOMAIN looked
  <2>1. PICK key : key = Key(view)
    OBVIOUS
  <2>2. MessagesOk(r, LookUp(r, msgs, key)) /\ key \in DOMAIN LookUp(r, msgs, key)
    BY LookUpFacts
  <2> QED
    BY <2>1, <2>2
<1>3. view.isHead \in BOOLEAN /\ view.isCommitMode \in BOOLEAN /\ view # NoView
  BY ViewFacts DEF ViewOk
<1>4. Key(view) = "head" => looked[Key(view)] # Optimistic
  BY <1>2 DEF MessagesOk, FormAssumption, Titles, Optimistic
<1>5. view.isCommitMode => Key(view) = "head"
  BY DEF Key
<1> HIDE DEF seen, title
<1>6. /\ FieldsOk(view, fields')
      /\ ShownIn(r, o, m, s, looked, fields', d)
  <2>1. CASE seen
    BY <1>1, <2>1 DEF FieldsOk, seen
  <2>2. CASE ~seen
    <3>1. fields' = Reset(view, fs, looked[Key(view)], title)
      BY <1>1, <2>2
    <3>2. CASE looked[Key(view)] = Optimistic
      <4>1. fields' = NoFields
        BY <3>1, <3>2 DEF Reset
      <4> QED
        BY <1>4, <1>5, <3>2, <4>1 DEF FieldsOk, NoFields, ShownIn
    <3>3. CASE looked[Key(view)] # Optimistic /\ fs.forceWhileOnHead /\ view.isHead
      <4>1. fields' = fs
        BY <3>1, <3>3 DEF Reset
      <4> QED
        BY <3>3, <4>1 DEF FieldsOk, ShownIn
    <3>4. CASE looked[Key(view)] # Optimistic /\ ~(fs.forceWhileOnHead /\ view.isHead)
      <4>1. fields' = [edited |-> view.isCommitMode \/ looked[Key(view)] # title, forceWhileOnHead |-> FALSE]
        BY <3>1, <3>4 DEF Reset
      <4>2. /\ fields' \in [edited : BOOLEAN, forceWhileOnHead : BOOLEAN]
            /\ ~fields'.forceWhileOnHead
            /\ fields'.edited <=> view.isCommitMode \/ looked[Key(view)] # title
        BY <1>3, <4>1
      <4>3. FieldsOk(view, fields')
        BY <4>2 DEF FieldsOk
      <4>4. fields'.edited \/ looked[Key(view)] = title
        BY <4>2
      <4>5. ShownIn(r, o, m, s, looked, fields', d)
        BY <4>4 DEF ShownIn, title
      <4> QED
        BY <4>3, <4>5
    <3> QED
      BY <3>2, <3>3, <3>4
  <2> QED
    BY <2>1, <2>2
<1>7. BarOk(view, m, bar')
  <2>1. BarOk(Here, mode, bar)
    BY DEF FormInv
  <2>2. CASE IsPublic(view, m)
    <3>1. bar' = NoView
      BY <1>1, <2>2
    <3> QED
      BY <2>2, <3>1 DEF BarOk, NoView
  <2>3. CASE ~IsPublic(view, m) /\ bar = NoView
    <3>1. bar' = view
      BY <1>1, <2>3
    <3> QED
      BY <1>3, <2>3, <3>1 DEF BarOk
  <2>4. CASE ~IsPublic(view, m) /\ bar # NoView
    <3>1. bar' = bar
      BY <1>1, <2>4
    <3> QED
      BY <2>1, <2>4, <3>1 DEF BarOk
  <2> QED
    BY <2>2, <2>3, <2>4
<1>8. Here' = view
  BY <1>1 DEF Here, View, Tree
<1>9. RepoOk(repo)'
  BY <1>1 DEF RepoOk
<1>10. MessagesOk(repo, commitMessages)' /\ (Key(Here) \in DOMAIN commitMessages)'
  <2>1. MessagesOk(repo, commitMessages)'
    <3>1. MessagesOk(repo', commitMessages')
      BY <1>1, <1>2
    <3> QED
      BY <3>1 DEF MessagesOk
  <2>2. Key(Here)' = Key(view)
    BY <1>8 DEF Key
  <2>3. commitMessages' = looked /\ Key(view) \in DOMAIN looked
    BY <1>1, <1>2
  <2>4. (Key(Here) \in DOMAIN commitMessages)'
    BY <2>2, <2>3
  <2> QED
    BY <2>1, <2>4
<1>11. OpOk(repo, operation, doubtful)'
  BY <1>1 DEF OpOk
<1>12. (mode \in Modes /\ selected # Trunk)'
  BY <1>1 DEF Modes
<1>13. BarOk(Here, mode, bar)'
  BY <1>1, <1>7, <1>8 DEF BarOk, IsPublic
<1>14. FieldsOk(Here, fields)'
  BY <1>6, <1>8 DEF FieldsOk
<1>15. ShownIn(repo, operation, mode, selected, commitMessages, fields, doubtful)'
  <2>1. ShownIn(repo', operation', mode', selected', commitMessages', fields', doubtful')
    BY <1>1, <1>6
  <2> QED
    BY <2>1 DEF ShownIn, View, Tree, Key, IsPublic
<1> QED
  BY <1>9, <1>10, <1>11, <1>12, <1>13, <1>14, <1>15 DEF FormInv

\* What is shown in a state of the invariant.
LEMMA HereFacts ==
  ASSUME FormAssumption, FormInv
  PROVE  ViewOk(Here, Tree(repo, operation), mode, selected)
<1>1. PICK r, o, m, s, d : r = repo /\ o = operation /\ m = mode /\ s = selected /\ d = doubtful
  OBVIOUS
<1>2. RepoOk(r) /\ OpOk(r, o, d)
  BY <1>1 DEF FormInv
<1>3. ViewOk(View(r, o, m, s), Tree(r, o), m, s)
  BY <1>2, ViewFacts
<1> QED
  BY <1>1, <1>3 DEF Here

\* What is drawn again for the same view is still right if it is under edit, or
\* is what it was, or the message is the title.
LEMMA DrawKeeps ==
  ASSUME FormAssumption, FormInv,
         NEW r, NEW o, NEW m, NEW s, NEW msgs, NEW fs, NEW d, NEW view,
         Render(r, o, m, s, msgs, fs), doubtful' = d, view = View(r, o, m, s),
         RepoOk(r), MessagesOk(r, msgs), OpOk(r, o, d), m \in Modes, s # Trunk,
         fs \in [edited : BOOLEAN, forceWhileOnHead : BOOLEAN], fs.forceWhileOnHead => fs.edited,
         bar = NoView /\ view.isCommitMode => view.branch = Trunk,
         Key(Here) \in DOMAIN msgs,
         (Here.branch = view.branch /\ Here.isCommitMode = view.isCommitMode) =>
           /\ Here.isCommitMode => fs.edited
           /\ \/ fs.edited \/ Key(Here) \in d
              \/ msgs[Key(Here)] = Tree(r, o).titles[Here.branch]
              \/ /\ msgs[Key(Here)] = Message /\ Tree(r, o).titles[Here.branch] = Title
                 /\ fs = fields /\ m = mode /\ doubtful \subseteq d
  PROVE  FormInv'
<1>1. PICK looked, key : looked = LookUp(r, msgs, key) /\ key = Key(view)
  OBVIOUS
<1>2. \A k \in DOMAIN msgs : looked[k] = msgs[k]
  BY <1>1, LookUpFacts
<1>3. ASSUME Here.branch = view.branch, Here.isCommitMode = view.isCommitMode
      PROVE  ShownIn(r, o, m, s, looked, fs, d)
  <2>1. Key(Here) = Key(view) /\ (IsPublic(Here, mode) /\ m = mode => IsPublic(view, m))
    BY <1>3 DEF Key, IsPublic
  <2>2. looked[Key(view)] = msgs[Key(Here)]
    BY <1>2, <2>1
  <2>3. SUFFICES ASSUME looked[Key(view)] # Optimistic, ~IsPublic(view, m), Key(view) \notin d
                 PROVE  fs.edited \/ looked[Key(view)] = Tree(r, o).titles[view.branch]
    BY DEF ShownIn
  <2>4. ASSUME msgs[Key(Here)] = Message, Tree(r, o).titles[Here.branch] = Title,
               fs = fields, m = mode, doubtful \subseteq d
        PROVE  fs.edited \/ looked[Key(view)] = Tree(r, o).titles[view.branch]
    <3>1. ShownIsSent
      BY ShownIsShownIn DEF FormInv
    <3>2. Message # Optimistic /\ ~IsPublic(Here, mode) /\ Key(Here) \notin doubtful
      BY <2>1, <2>2, <2>3, <2>4
    <3> QED
      BY <1>3, <2>2, <2>4, <3>1, <3>2 DEF ShownIsSent
  <2> QED
    BY <1>3, <2>1, <2>2, <2>3, <2>4
<1>4. looked = LookUp(r, msgs, Key(view))
  BY <1>1
<1> QED
  BY <1>3, <1>4, RenderKeeps

\* In the mode that there was, the bar is right as well.
LEMMA SameModeKeeps ==
  ASSUME FormAssumption, FormInv,
         NEW r, NEW o, NEW m, NEW s, NEW msgs, NEW fs, NEW d, NEW view,
         Render(r, o, m, s, msgs, fs), doubtful' = d, view = View(r, o, m, s), m = mode,
         RepoOk(r), MessagesOk(r, msgs), OpOk(r, o, d), s # Trunk,
         fs \in [edited : BOOLEAN, forceWhileOnHead : BOOLEAN], fs.forceWhileOnHead => fs.edited,
         Key(Here) \in DOMAIN msgs,
         (Here.branch = view.branch /\ Here.isCommitMode = view.isCommitMode) =>
           /\ Here.isCommitMode => fs.edited
           /\ \/ fs.edited \/ Key(Here) \in d
              \/ msgs[Key(Here)] = Tree(r, o).titles[Here.branch]
              \/ /\ msgs[Key(Here)] = Message /\ Tree(r, o).titles[Here.branch] = Title
                 /\ fs = fields /\ doubtful \subseteq d
  PROVE  FormInv'
<1>1. m \in Modes
  BY DEF FormInv
<1>2. bar = NoView => m = "amend"
  BY DEF FormInv, BarOk, IsPublic
<1>3. view.isCommitMode => m = "commit"
  BY ViewFacts DEF ViewOk
<1> QED
  BY <1>1, <1>2, <1>3, DrawKeeps

----------------------------------------------------------------------------
(***************************************************************************)
(* The user                                                                *)
(***************************************************************************)
LEMMA SelectKeeps ==
  ASSUME FormAssumption, FormInv, NEW b, Select(b)
  PROVE  FormInv'
<1>1. PICK r, o, m, s, msgs, fs, d :
        /\ r = repo /\ o = operation /\ m = mode /\ s = (IF selected = b THEN NoBranch ELSE b)
        /\ msgs = commitMessages /\ fs = fields /\ d = doubtful
  OBVIOUS
<1>2. Render(r, o, m, s, msgs, fs) /\ doubtful' = d /\ b # Trunk
  BY <1>1 DEF Select, Draw
<1>3. /\ RepoOk(r) /\ MessagesOk(r, msgs) /\ OpOk(r, o, d) /\ Key(Here) \in DOMAIN msgs
      /\ fs \in [edited : BOOLEAN, forceWhileOnHead : BOOLEAN] /\ (fs.forceWhileOnHead => fs.edited)
      /\ Here.isCommitMode => fs.edited
  BY <1>1 DEF FormInv, FieldsOk
<1>4. msgs[Key(Here)] = Message /\ Tree(r, o).titles[Here.branch] = Title
  BY <1>1 DEF Message, Title
<1>5. s # Trunk
  BY <1>1, <1>2 DEF FormAssumption
<1> QED
  BY <1>1, <1>2, <1>3, <1>4, <1>5, SameModeKeeps

LEMMA SetCommitModeKeeps ==
  ASSUME FormAssumption, FormInv, NEW n \in Modes, SetCommitMode(n)
  PROVE  FormInv'
<1>1. PICK r, o, m, s, msgs, fs, d :
        /\ r = repo /\ o = operation /\ m = n /\ s = selected
        /\ msgs = commitMessages /\ fs = fields /\ d = doubtful
  OBVIOUS
<1>2. Render(r, o, m, s, msgs, fs) /\ doubtful' = d /\ Here.isHead /\ m # mode
  BY <1>1 DEF SetCommitMode, Draw
<1>3. /\ RepoOk(r) /\ MessagesOk(r, msgs) /\ OpOk(r, o, d) /\ Key(Here) \in DOMAIN msgs
      /\ fs \in [edited : BOOLEAN, forceWhileOnHead : BOOLEAN] /\ (fs.forceWhileOnHead => fs.edited)
      /\ mode \in Modes /\ m \in Modes /\ s # Trunk
  BY <1>1 DEF FormInv, FieldsOk
<1>4. PICK view : view = View(r, o, m, s)
  OBVIOUS
<1>5. view.branch = Here.branch /\ (view.isCommitMode <=> Here.isHead /\ m = "commit")
  BY <1>1, <1>4 DEF Here, View
<1>6. Here.isCommitMode <=> Here.isHead /\ mode = "commit"
  BY HereFacts DEF ViewOk
<1>7. view.isCommitMode # Here.isCommitMode
  BY <1>2, <1>3, <1>5, <1>6 DEF Modes
<1>8. bar = NoView /\ view.isCommitMode => view.branch = Trunk
  BY <1>5 DEF FormInv, BarOk, IsPublic
<1> QED
  BY <1>2, <1>3, <1>4, <1>7, <1>8, DrawKeeps

\* A message that the user may give it.
LEMMA EditFacts ==
  ASSUME FormAssumption, NEW r, NEW msgs, NEW key, NEW text, RepoOk(r), MessagesOk(r, msgs),
         key \in DOMAIN msgs,
         key = "head" => text \in Titles \cup {""},
         key # "head" => key \in DOMAIN r.titles /\ text \in Titles
  PROVE  MessagesOk(r, [msgs EXCEPT ![key] = text])
<1> DEFINE edited == [msgs EXCEPT ![key] = text]
<1>1. /\ edited = [k \in DOMAIN edited |-> edited[k]]
      /\ DOMAIN edited = DOMAIN msgs
      /\ \A k \in DOMAIN msgs : edited[k] = IF k = key THEN text ELSE msgs[k]
  OBVIOUS
<1> HIDE DEF edited
<1>2. Optimistic \notin Titles /\ "head" \notin DOMAIN r.titles /\ "head" \notin Branches
  BY DEF FormAssumption, Titles, RepoOk, Names
<1>3. ASSUME NEW k \in DOMAIN edited
      PROVE  /\ k = "head" => edited[k] \in Titles \cup {""}
             /\ k \in DOMAIN r.titles => edited[k] \in Titles \cup {Optimistic}
             /\ k \in Branches => edited[k] # Optimistic
             /\ k \notin DOMAIN r.titles \cup {"head"} => edited[k] = Optimistic
  <2>1. CASE k = key
    BY <1>1, <1>2, <2>1
  <2>2. CASE k # key
    <3>1. edited[k] = msgs[k] /\ k \in DOMAIN msgs
      BY <1>1, <2>2
    <3> QED
      BY <3>1 DEF MessagesOk
  <2> QED
    BY <2>1, <2>2
<1>4. MessagesOk(r, edited)
  BY <1>1, <1>3 DEF MessagesOk
<1> QED
  BY <1>4 DEF edited

\* The buttons change no message but that of a new branch.
LEMMA ClearedFacts ==
  ASSUME FormAssumption, FormInv
  PROVE  /\ MessagesOk(repo, Cleared)
         /\ Key(Here) \in DOMAIN Cleared
         /\ Key(Here) = "head" \/ Cleared[Key(Here)] = Message
<1>1. PICK r, b, key, own : r = repo /\ b = bar /\ key = Key(b) /\ own = Key(Here)
  OBVIOUS
<1>2. PICK msgs, once : msgs = commitMessages /\ once = LookUp(r, msgs, key)
  OBVIOUS
<1>3. PICK looked : looked = LookUp(r, once, b.branch)
  OBVIOUS
<1>4. Cleared = [looked EXCEPT ![key] = looked[b.branch]]
  BY <1>1, <1>2, <1>3 DEF Cleared
<1>5. RepoOk(r) /\ MessagesOk(r, msgs) /\ own \in DOMAIN msgs /\ (b.isCommitMode => b.branch = Trunk)
  BY <1>1, <1>2 DEF FormInv, BarOk
<1>6. /\ MessagesOk(r, once) /\ key \in DOMAIN once
      /\ \A k \in DOMAIN msgs : k \in DOMAIN once /\ once[k] = msgs[k]
  BY <1>2, <1>5, LookUpFacts
<1>7. /\ MessagesOk(r, looked) /\ b.branch \in DOMAIN looked
      /\ \A k \in DOMAIN once : k \in DOMAIN looked /\ looked[k] = once[k]
  BY <1>3, <1>5, <1>6, LookUpFacts
<1>8. own \in DOMAIN looked /\ looked[own] = Message
  BY <1>1, <1>2, <1>5, <1>6, <1>7 DEF Message
<1>9. key = IF b.isCommitMode THEN "head" ELSE b.branch
  BY <1>1 DEF Key
<1>10. CASE b.isCommitMode
  <2>1. Trunk \in Branches /\ Trunk \in DOMAIN r.titles /\ b.branch = Trunk
    BY <1>5, <1>10 DEF FormAssumption, RepoOk
  <2>2. looked[b.branch] \in Titles
    BY <1>7, <2>1 DEF MessagesOk
  <2>3. MessagesOk(r, [looked EXCEPT ![key] = looked[b.branch]])
    BY <1>5, <1>6, <1>7, <1>9, <1>10, <2>2, EditFacts
  <2> QED
    BY <1>1, <1>4, <1>8, <1>9, <1>10, <2>3
<1>11. CASE ~b.isCommitMode
  <2>1. looked = [k \in DOMAIN looked |-> looked[k]]
    BY <1>7 DEF MessagesOk
  <2>2. [looked EXCEPT ![key] = looked[b.branch]] = looked
    BY <1>9, <1>11, <2>1
  <2> QED
    BY <1>1, <1>4, <1>7, <1>8, <2>2
<1> QED
  BY <1>10, <1>11

LEMMA OpenCommitFormKeeps ==
  ASSUME FormAssumption, FormInv, NEW which \in Modes, NEW text \in Typed \cup {""},
         OpenCommitForm(which, text)
  PROVE  FormInv'
<1>1. PICK r, o, m, s, looked, msgs, fs, d :
        /\ r = repo /\ o = operation /\ m = which /\ s = NoBranch
        /\ looked = LookUp(r, commitMessages, "head")
        /\ msgs = (IF which = "commit" /\ text # "" THEN [looked EXCEPT !["head"] = text] ELSE commitMessages)
        /\ fs = (IF which = "amend" THEN [edited |-> TRUE, forceWhileOnHead |-> TRUE] ELSE fields)
        /\ d = doubtful
  OBVIOUS
<1>2. Render(r, o, m, s, msgs, fs) /\ doubtful' = d
  BY <1>1 DEF OpenCommitForm, Draw
<1>3. /\ RepoOk(r) /\ OpOk(r, o, d) /\ MessagesOk(r, commitMessages) /\ Key(Here) \in DOMAIN commitMessages
      /\ fs \in [edited : BOOLEAN, forceWhileOnHead : BOOLEAN] /\ (fs.forceWhileOnHead => fs.edited)
      /\ Here.isCommitMode => fs.edited
      /\ m \in Modes /\ selected # Trunk /\ s # Trunk
  BY <1>1 DEF FormInv, FieldsOk, FormAssumption
<1>4. MessagesOk(r, msgs) /\ Key(Here) \in DOMAIN msgs
  <2>1. CASE msgs = commitMessages
    BY <1>3, <2>1
  <2>2. CASE msgs = [looked EXCEPT !["head"] = text] /\ text # ""
    <3>1. PICK old : old = commitMessages
      OBVIOUS
    <3>2. /\ MessagesOk(r, looked) /\ "head" \in DOMAIN looked
          /\ \A k \in DOMAIN old : k \in DOMAIN looked
      BY <1>1, <1>3, <3>1, LookUpFacts
    <3>3. text \in Titles
      BY <2>2 DEF Titles
    <3>4. MessagesOk(r, [looked EXCEPT !["head"] = text])
      BY <1>3, <3>2, <3>3, EditFacts
    <3> QED
      BY <1>3, <2>2, <3>1, <3>2, <3>4
  <2> QED
    BY <1>1, <2>1, <2>2
<1>5. PICK view : view = View(r, o, m, s)
  OBVIOUS
<1>6. ViewOk(view, Tree(r, o), m, s)
  BY <1>3, <1>5, ViewFacts
<1>7. ViewOk(Here, Tree(r, o), mode, selected)
  BY <1>1, HereFacts
<1>8. view.isHead /\ (m = "commit" => view.isCommitMode)
  BY <1>1, <1>6 DEF ViewOk
<1>9. bar = NoView => view.branch = Trunk
  <2>1. bar = NoView => Here.branch = Trunk
    BY DEF FormInv, BarOk, IsPublic
  <2>2. Here.branch = Trunk => Here.branch = Tree(r, o).head
    BY <1>3, <1>7 DEF ViewOk
  <2>3. view.branch = Tree(r, o).head
    BY <1>6, <1>8 DEF ViewOk
  <2> QED
    BY <2>1, <2>2, <2>3
<1>10. fs.edited \/ m = "commit"
  BY <1>1 DEF Modes
<1>11. Here.isCommitMode = view.isCommitMode => fs.edited
  BY <1>3, <1>8, <1>10
<1> QED
  BY <1>2, <1>3, <1>4, <1>5, <1>9, <1>11, DrawKeeps

LEMMA StartEditingFieldKeeps ==
  ASSUME FormAssumption, FormInv, StartEditingField
  PROVE  FormInv'
<1>1. PICK r, o, m, s, msgs, fs, d :
        /\ r = repo /\ o = operation /\ m = mode /\ s = selected
        /\ msgs = commitMessages /\ fs = [fields EXCEPT !.edited = TRUE] /\ d = doubtful
  OBVIOUS
<1>2. Render(r, o, m, s, msgs, fs) /\ doubtful' = d
  BY <1>1 DEF StartEditingField, Draw
<1>3. /\ RepoOk(r) /\ MessagesOk(r, msgs) /\ OpOk(r, o, d) /\ Key(Here) \in DOMAIN msgs
      /\ s # Trunk /\ fields \in [edited : BOOLEAN, forceWhileOnHead : BOOLEAN]
  BY <1>1 DEF FormInv, FieldsOk
<1>4. fs \in [edited : BOOLEAN, forceWhileOnHead : BOOLEAN] /\ fs.edited
  BY <1>1, <1>3
<1> QED
  BY <1>1, <1>2, <1>3, <1>4, SameModeKeeps

LEMMA SetEditedFieldKeeps ==
  ASSUME FormAssumption, FormInv, NEW text \in Typed, SetEditedField(text)
  PROVE  FormInv'
<1>1. PICK r, o, m, s, old, own, msgs, fs, d :
        /\ r = repo /\ o = operation /\ m = mode /\ s = selected /\ old = commitMessages /\ own = Key(Here)
        /\ msgs = [old EXCEPT ![own] = text] /\ fs = fields /\ d = doubtful
  OBVIOUS
<1>2. Render(r, o, m, s, msgs, fs) /\ doubtful' = d /\ fs.edited /\ old[own] # Optimistic
  BY <1>1 DEF SetEditedField, Draw, Message
<1>3. /\ RepoOk(r) /\ MessagesOk(r, old) /\ OpOk(r, o, d) /\ own \in DOMAIN old
      /\ s # Trunk /\ fs \in [edited : BOOLEAN, forceWhileOnHead : BOOLEAN]
  BY <1>1 DEF FormInv, FieldsOk
<1>4. text \in Titles
  BY DEF Titles
<1>5. own # "head" => own \in DOMAIN r.titles
  BY <1>2, <1>3 DEF MessagesOk
<1>6. MessagesOk(r, [old EXCEPT ![own] = text])
  BY <1>3, <1>4, <1>5, EditFacts
<1>7. MessagesOk(r, msgs) /\ Key(Here) \in DOMAIN msgs
  BY <1>1, <1>3, <1>6
<1> QED
  BY <1>1, <1>2, <1>3, <1>7, SameModeKeeps

LEMMA CancelKeeps ==
  ASSUME FormAssumption, FormInv, Cancel
  PROVE  FormInv'
<1>1. PICK r, o, m, s, own, msgs, fs, d :
        /\ r = repo /\ o = operation /\ m = mode /\ s = selected /\ own = Key(Here)
        /\ msgs = Cleared /\ fs = NoFields
        /\ d = doubtful \cup (IF Message = Title THEN {} ELSE {Here.branch})
  OBVIOUS
<1>2. Render(r, o, m, s, msgs, fs) /\ doubtful' = d /\ ~Here.isCommitMode
  BY <1>1 DEF Cancel, Draw
<1>3. RepoOk(r) /\ OpOk(repo, operation, doubtful) /\ s # Trunk
  BY <1>1 DEF FormInv
<1>4. OpOk(r, o, d)
  BY <1>1, <1>3 DEF OpOk
<1>5. MessagesOk(r, msgs) /\ own \in DOMAIN msgs /\ (own = "head" \/ msgs[own] = Message)
  BY <1>1, ClearedFacts
<1>6. fs = [edited |-> FALSE, forceWhileOnHead |-> FALSE]
  BY <1>1 DEF NoFields
<1>7. own = Here.branch /\ own # "head"
  BY <1>1, <1>2, HereFacts DEF Key, ViewOk
<1>8. own \in d \/ msgs[own] = Tree(r, o).titles[Here.branch]
  BY <1>1, <1>5, <1>7 DEF Title
<1> QED
  BY <1>1, <1>2, <1>3, <1>4, <1>5, <1>6, <1>8, SameModeKeeps

LEMMA KeepEditingKeeps ==
  ASSUME FormAssumption, FormInv, KeepEditing
  PROVE  FormInv'
<1>1. PICK r, o, m, s, old, own, key, msgs, fs, d :
        /\ r = repo /\ o = operation /\ m = mode /\ s = selected /\ old = commitMessages /\ own = Key(Here)
        /\ key = Key(bar) /\ msgs = LookUp(r, old, key) /\ fs = fields /\ d = doubtful
  OBVIOUS
<1>2. Render(r, o, m, s, msgs, fs) /\ doubtful' = d /\ fs.edited
  BY <1>1 DEF KeepEditing, Draw
<1>3. /\ RepoOk(r) /\ MessagesOk(r, old) /\ OpOk(r, o, d) /\ own \in DOMAIN old
      /\ s # Trunk /\ fs \in [edited : BOOLEAN, forceWhileOnHead : BOOLEAN]
  BY <1>1 DEF FormInv, FieldsOk
<1>4. MessagesOk(r, msgs) /\ own \in DOMAIN msgs
  BY <1>1, <1>3, LookUpFacts
<1> QED
  BY <1>1, <1>2, <1>3, <1>4, SameModeKeeps

\* While nothing runs, the tree is the repository.
LEMMA NoPreview ==
  ASSUME FormAssumption, FormInv, operation = NoOp
  PROVE  Tree(repo, operation).titles = repo.titles /\ Tree(repo, operation).head = repo.head
BY DEF Tree, NoOp

LEMMA DoAmendOrCommitKeeps ==
  ASSUME FormAssumption, FormInv, DoAmendOrCommit
  PROVE  FormInv'
<1>1. PICK r, o, m, s, old, own, branch, msgs, fs, d :
        /\ r = repo /\ m = "amend" /\ s = DeselectIfHeadIsSelected
        /\ own = Key(Here) /\ branch = Here.branch
        /\ o = [kind |-> IF Here.isCommitMode THEN "commit" ELSE "amend", branch |-> branch, title |-> Message]
        /\ msgs = Cleared /\ fs = NoFields /\ old = commitMessages
        /\ d = doubtful \cup (IF Here.isCommitMode THEN {Message} \cap DOMAIN repo.titles ELSE {})
  OBVIOUS
<1>2. Render(r, o, m, s, msgs, fs) /\ doubtful' = d /\ operation = NoOp /\ Message # Optimistic
  BY <1>1 DEF DoAmendOrCommit, Draw, Run
<1>3. RepoOk(r) /\ MessagesOk(r, old) /\ own \in DOMAIN old /\ s # Trunk /\ m \in Modes
  BY <1>1 DEF FormInv, DeselectIfHeadIsSelected, FormAssumption, Modes
<1>4. MessagesOk(r, msgs) /\ own \in DOMAIN msgs /\ (own = "head" \/ msgs[own] = Message)
  BY <1>1, ClearedFacts
<1>5. fs \in [edited : BOOLEAN, forceWhileOnHead : BOOLEAN] /\ ~fs.forceWhileOnHead
  BY <1>1 DEF NoFields
<1>6. branch \in DOMAIN r.titles /\ branch # "head" /\ own = IF Here.isCommitMode THEN "head" ELSE branch
  BY <1>1, <1>2, HereFacts, NoPreview DEF ViewOk, Key
<1>7. Message = old[own] /\ old[own] # Optimistic
  BY <1>1, <1>2 DEF Message
<1>8. OpOk(r, o, d)
  <2>1. CASE Here.isCommitMode
    <3>1. /\ o.kind = "commit" /\ o.title = Message
          /\ Message \in DOMAIN r.titles => Message \in d
      BY <1>1, <2>1
    <3>2. Message \in Titles \cup {""}
      BY <1>3, <1>6, <1>7, <2>1 DEF MessagesOk
    <3> QED
      BY <3>1, <3>2 DEF OpOk
  <2>2. CASE ~Here.isCommitMode
    <3>1. o.kind = "amend" /\ o.title = Message /\ o.branch = branch
      BY <1>1, <2>2
    <3>2. Message \in Titles
      BY <1>3, <1>6, <1>7, <2>2 DEF MessagesOk
    <3> QED
      BY <1>6, <3>1, <3>2 DEF OpOk
  <2> QED
    BY <2>1, <2>2
<1>9. PICK view : view = View(r, o, m, s)
  OBVIOUS
<1>10. ~view.isCommitMode /\ view.isCommitMode \in BOOLEAN
  <2>1. ViewOk(view, Tree(r, o), m, s)
    BY <1>3, <1>8, <1>9, ViewFacts
  <2>2. m # "commit"
    BY <1>1
  <2> QED
    BY <2>1, <2>2 DEF ViewOk
<1>11. ASSUME Here.isCommitMode = view.isCommitMode
       PROVE  ~Here.isCommitMode /\ msgs[own] = Tree(r, o).titles[branch]
  <2>1. ~Here.isCommitMode
    BY <1>10, <1>11
  <2>2. o.kind = "amend" /\ o.title = Message /\ o.branch = branch
    BY <1>1, <2>1
  <2>3. \A b \in DOMAIN r.titles : Tree(r, o).titles[b] = IF b = o.branch THEN o.title ELSE r.titles[b]
    BY <1>3, <1>8, <2>2, TreeFacts
  <2> QED
    BY <1>4, <1>6, <2>1, <2>2, <2>3
<1>12. Render(r, o, m, s, msgs, fs) /\ doubtful' = d
  BY <1>2
<1>13. own = Key(Here) /\ branch = Here.branch
  BY <1>1
<1> QED
  BY <1>3, <1>4, <1>5, <1>8, <1>9, <1>10, <1>11, <1>12, <1>13, DrawKeeps

LEMMA AmendMessageKeeps ==
  ASSUME FormAssumption, FormInv, AmendMessage
  PROVE  FormInv'
<1>1. PICK r, o, m, s, old, own, branch, msgs, fs, d :
        /\ r = repo /\ m = mode /\ s = selected /\ own = Key(Here) /\ branch = Here.branch
        /\ o = [kind |-> "reword", branch |-> branch, title |-> Message]
        /\ msgs = Cleared /\ fs = NoFields /\ old = commitMessages /\ d = doubtful
  OBVIOUS
<1>2. Render(r, o, m, s, msgs, fs) /\ doubtful' = d /\ operation = NoOp /\ Message # Optimistic /\ ~Here.isHead
  BY <1>1 DEF AmendMessage, Draw, Run
<1>3. RepoOk(r) /\ MessagesOk(r, old) /\ own \in DOMAIN old /\ s # Trunk
  BY <1>1 DEF FormInv
<1>4. MessagesOk(r, msgs) /\ own \in DOMAIN msgs /\ (own = "head" \/ msgs[own] = Message)
  BY <1>1, ClearedFacts
<1>5. fs \in [edited : BOOLEAN, forceWhileOnHead : BOOLEAN] /\ ~fs.forceWhileOnHead
  BY <1>1 DEF NoFields
<1>6. branch \in DOMAIN r.titles /\ branch # "head" /\ own = branch /\ ~Here.isCommitMode
  BY <1>1, <1>2, HereFacts, NoPreview DEF ViewOk, Key
<1>7. Message = old[own] /\ old[own] # Optimistic
  BY <1>1, <1>2 DEF Message
<1>8. OpOk(r, o, d) /\ o.kind = "reword"
  <2>1. Message \in Titles
    BY <1>3, <1>6, <1>7 DEF MessagesOk
  <2> QED
    BY <1>1, <1>6, <2>1 DEF OpOk
<1>9. msgs[own] = Tree(r, o).titles[branch]
  <2>1. \A b \in DOMAIN r.titles : Tree(r, o).titles[b] = IF b = o.branch THEN o.title ELSE r.titles[b]
    BY <1>3, <1>8, TreeFacts
  <2> QED
    BY <1>1, <1>4, <1>6, <2>1
<1>10. Render(r, o, m, s, msgs, fs) /\ doubtful' = d
  BY <1>2
<1>11. own = Key(Here) /\ branch = Here.branch /\ m = mode /\ ~Here.isCommitMode
  BY <1>1, <1>6
<1> QED
  BY <1>3, <1>4, <1>5, <1>8, <1>9, <1>10, <1>11, SameModeKeeps

LEMMA SubmitKeeps ==
  ASSUME FormAssumption, FormInv, Submit
  PROVE  FormInv'
<1>1. PICK r, o, m, s, msgs, fs, d :
        /\ r = repo /\ m = mode /\ s = selected /\ o = [kind |-> "submit", branch |-> Here.branch, title |-> ""]
        /\ msgs = commitMessages /\ fs = fields /\ d = doubtful
  OBVIOUS
<1>2. Render(r, o, m, s, msgs, fs) /\ doubtful' = d /\ operation = NoOp
  BY <1>1 DEF Submit, Draw, Run
<1>3. /\ RepoOk(r) /\ MessagesOk(r, msgs) /\ Key(Here) \in DOMAIN msgs /\ s # Trunk
      /\ fs \in [edited : BOOLEAN, forceWhileOnHead : BOOLEAN] /\ (fs.forceWhileOnHead => fs.edited)
      /\ Here.isCommitMode => fs.edited
  BY <1>1 DEF FormInv, FieldsOk
<1>4. OpOk(r, o, d) /\ Tree(r, o).titles = r.titles
  BY <1>1 DEF OpOk, Tree
<1>5. msgs[Key(Here)] = Message /\ Tree(r, o).titles[Here.branch] = Title
  BY <1>1, <1>2, <1>4, NoPreview DEF Message, Title
<1> QED
  BY <1>1, <1>2, <1>3, <1>4, <1>5, SameModeKeeps

----------------------------------------------------------------------------
(***************************************************************************)
(* The repository                                                          *)
(***************************************************************************)
\* The messages stay right while branches are added.
LEMMA MessagesGrow ==
  ASSUME NEW r, NEW then, NEW msgs, MessagesOk(r, msgs), RepoOk(then), FormAssumption,
         DOMAIN r.titles \subseteq DOMAIN then.titles
  PROVE  MessagesOk(then, msgs)
<1>1. "head" \notin DOMAIN then.titles
  BY DEF RepoOk, FormAssumption, Names
<1> QED
  BY <1>1 DEF MessagesOk

\* A command leaves a repository with the branches that were there, and with
\* the titles that it was given.
EffectOk(before, run, then, name) ==
  /\ RepoOk(then) /\ DOMAIN before.titles \subseteq DOMAIN then.titles
  /\ run.kind = "commit" =>
       /\ DOMAIN then.titles = DOMAIN before.titles \cup {name}
       /\ \A b \in DOMAIN then.titles : then.titles[b] = IF b = name THEN run.title ELSE before.titles[b]
  /\ run.kind \in {"amend", "reword"} =>
       \A b \in DOMAIN before.titles : then.titles[b] = IF b = run.branch THEN run.title ELSE before.titles[b]
  /\ run.kind \notin {"commit", "amend", "reword"} => then = before

LEMMA EffectFacts ==
  ASSUME FormAssumption, FormInv, NEW name,
         operation.kind = "commit" => operation.title # "" /\ name \in {New, operation.title}
  PROVE  EffectOk(repo, operation, Effect(name), name)
<1>1. PICK r, o, e : r = repo /\ o = operation /\ e = Effect(name)
  OBVIOUS
<1>2. /\ RepoOk(r)
      /\ o.kind \in {"amend", "reword"} => o.branch \in DOMAIN r.titles /\ o.title \in Titles
      /\ o.kind = "commit" => o.title \in Titles /\ name \in {New, o.title}
  BY <1>1 DEF FormInv, OpOk
<1>3. ASSUME o.kind = "commit"
      PROVE  EffectOk(r, o, e, name)
  <2>1. e = [titles |-> [b \in DOMAIN r.titles \cup {name} |-> IF b = name THEN o.title ELSE r.titles[b]],
             parents |-> r.parents, head |-> name, dirty |-> FALSE]
    BY <1>1, <1>3 DEF Effect
  <2>2. /\ DOMAIN e.titles = DOMAIN r.titles \cup {name}
        /\ \A b \in DOMAIN e.titles : e.titles[b] = IF b = name THEN o.title ELSE r.titles[b]
        /\ e.head = name
    BY <2>1
  <2>3. name \in Names
    BY <1>2, <1>3 DEF Names, Titles
  <2>4. /\ e = [titles |-> e.titles, parents |-> e.parents, head |-> e.head, dirty |-> e.dirty]
        /\ e.titles = [b \in DOMAIN e.titles |-> e.titles[b]]
    BY <2>1
  <2>5. RepoOk(e)
    BY <1>2, <1>3, <2>2, <2>3, <2>4 DEF RepoOk
  <2> QED
    BY <1>3, <2>2, <2>5 DEF EffectOk
<1>4. ASSUME o.kind \in {"amend", "reword"}
      PROVE  /\ DOMAIN e.titles = DOMAIN r.titles
             /\ \A b \in DOMAIN r.titles : e.titles[b] = IF b = o.branch THEN o.title ELSE r.titles[b]
             /\ RepoOk(e)
  <2>1. o.branch \in DOMAIN r.titles /\ o.title \in Titles /\ o.title # ""
    BY <1>2, <1>4 DEF FormAssumption, Titles
  <2>2. r = [titles |-> r.titles, parents |-> r.parents, head |-> r.head, dirty |-> r.dirty]
    BY <1>2 DEF RepoOk
  <2>3. PICK dirt : e = [titles |-> [r.titles EXCEPT ![o.branch] = o.title],
                         parents |-> r.parents, head |-> r.head, dirty |-> dirt]
    <3>1. CASE o.kind = "amend"
      <4>1. e = [r EXCEPT !.titles[o.branch] = o.title, !.dirty = FALSE]
        BY <1>1, <2>1, <3>1 DEF Effect
      <4> QED
        BY <2>2, <4>1
    <3>2. CASE o.kind = "reword"
      <4>1. e = [r EXCEPT !.titles[o.branch] = o.title]
        BY <1>1, <3>2 DEF Effect
      <4> QED
        BY <2>2, <4>1
    <3> QED
      BY <1>4, <3>1, <3>2
  <2>4. /\ DOMAIN e.titles = DOMAIN r.titles /\ e.head = r.head
        /\ \A b \in DOMAIN r.titles : e.titles[b] = IF b = o.branch THEN o.title ELSE r.titles[b]
        /\ e = [titles |-> e.titles, parents |-> e.parents, head |-> e.head, dirty |-> e.dirty]
        /\ e.titles = [b \in DOMAIN e.titles |-> e.titles[b]]
    BY <2>3
  <2>5. RepoOk(e)
    BY <1>2, <2>1, <2>4 DEF RepoOk
  <2> QED
    BY <2>4, <2>5
<1>5. ASSUME o.kind \notin {"commit", "amend", "reword"}
      PROVE  EffectOk(r, o, e, name)
  <2>1. e = r
    BY <1>1, <1>5 DEF Effect
  <2> QED
    BY <1>2, <1>5, <2>1 DEF EffectOk
<1>6. EffectOk(r, o, e, name)
  BY <1>3, <1>4, <1>5 DEF EffectOk
<1> QED
  BY <1>1, <1>6

LEMMA SucceedKeeps ==
  ASSUME FormAssumption, FormInv, NEW name \in {New, operation.title}, Succeed(name)
  PROVE  FormInv'
<1>1. PICK before, run, r, o, m, s, branch, msgs, fs, d :
        /\ before = repo /\ run = operation /\ branch = Here.branch
        /\ r = Effect(name) /\ o = NoOp /\ m = mode /\ s = selected
        /\ msgs = commitMessages /\ fs = fields /\ d = doubtful
  OBVIOUS
<1>2. Render(r, o, m, s, msgs, fs) /\ doubtful' = d
  BY <1>1 DEF Succeed
<1>3. run.kind = "commit" => run.title # "" /\ name \notin DOMAIN before.titles /\ name \in {New, run.title}
  BY <1>1 DEF Succeed
<1>4. /\ RepoOk(before) /\ OpOk(before, run, d) /\ MessagesOk(before, msgs) /\ Key(Here) \in DOMAIN msgs
      /\ fs \in [edited : BOOLEAN, forceWhileOnHead : BOOLEAN] /\ (fs.forceWhileOnHead => fs.edited)
      /\ Here.isCommitMode => fs.edited
      /\ s # Trunk
  BY <1>1 DEF FormInv, FieldsOk
<1>5. RepoOk(r) /\ EffectOk(before, run, r, name)
  <2>1. operation.kind = "commit" => operation.title # "" /\ name \in {New, operation.title}
    BY <1>1, <1>3
  <2>2. EffectOk(repo, operation, Effect(name), name)
    BY <2>1, EffectFacts
  <2> QED
    BY <1>1, <2>2 DEF EffectOk
<1>6. MessagesOk(r, msgs)
  BY <1>4, <1>5, MessagesGrow DEF EffectOk
<1>7. OpOk(r, o, d) /\ o.kind = "none"
  BY <1>1 DEF OpOk, NoOp
<1>8. PICK view : view = View(r, o, m, s)
  OBVIOUS
<1>9. view.branch \in DOMAIN r.titles /\ Tree(r, o).titles = r.titles
  <2>1. ViewOk(view, Tree(r, o), m, s)
    BY <1>5, <1>7, <1>8, ViewFacts
  <2>2. Tree(r, o).titles = r.titles
    BY <1>5, <1>7, TreeFacts
  <2> QED
    BY <2>1, <2>2 DEF ViewOk
<1>10. Title = Tree(before, run).titles[branch] /\ branch \in DOMAIN Tree(before, run).titles
  BY <1>1, HereFacts DEF Title, ViewOk
<1>11. ASSUME branch = view.branch
       PROVE  branch \in d \/ Tree(r, o).titles[branch] = Title
  <2>1. CASE run.kind = "commit"
    <3>1. /\ DOMAIN Tree(before, run).titles = DOMAIN before.titles \cup {run.title}
          /\ \A b \in DOMAIN before.titles \cup {run.title} :
               Tree(before, run).titles[b] = IF b = run.title THEN run.title ELSE before.titles[b]
      BY <1>4, <2>1, TreeFacts
    <3>2. run.title \in DOMAIN before.titles => run.title \in d
      BY <1>4, <2>1 DEF OpOk
    <3>3. /\ DOMAIN r.titles = DOMAIN before.titles \cup {name}
          /\ \A b \in DOMAIN r.titles : r.titles[b] = IF b = name THEN run.title ELSE before.titles[b]
      BY <1>5, <2>1 DEF EffectOk
    <3>4. name \notin DOMAIN before.titles
      BY <1>3, <2>1
    <3>5. branch \in DOMAIN r.titles /\ Tree(r, o).titles[branch] = r.titles[branch]
      BY <1>9, <1>11
    <3>6. /\ branch \in DOMAIN before.titles \cup {run.title}
          /\ Title = IF branch = run.title THEN run.title ELSE before.titles[branch]
      BY <1>10, <3>1
    <3>7. CASE branch = name
      BY <3>3, <3>4, <3>5, <3>6, <3>7
    <3>8. CASE branch # name /\ branch = run.title
      BY <3>2, <3>3, <3>5, <3>8
    <3>9. CASE branch # name /\ branch # run.title
      BY <3>3, <3>5, <3>6, <3>9
    <3> QED
      BY <3>7, <3>8, <3>9
  <2>2. CASE run.kind \in {"amend", "reword"}
    <3>1. /\ DOMAIN Tree(before, run).titles = DOMAIN before.titles
          /\ \A b \in DOMAIN before.titles :
               Tree(before, run).titles[b] = IF b = run.branch THEN run.title ELSE before.titles[b]
      BY <1>4, <2>2, TreeFacts
    <3> QED
      BY <1>5, <1>9, <1>10, <2>2, <3>1 DEF EffectOk
  <2>3. CASE run.kind \in {"none", "submit"}
    <3>1. Tree(before, run).titles = before.titles
      BY <1>4, <2>3, TreeFacts
    <3> QED
      BY <1>5, <1>9, <1>10, <2>3, <3>1 DEF EffectOk
  <2>4. run.kind \in {"none", "commit", "amend", "reword", "submit"}
    BY <1>4 DEF OpOk
  <2> QED
    BY <2>1, <2>2, <2>3, <2>4
<1>12. Key(Here) = branch \/ fs.edited
  BY <1>1, <1>4 DEF Key
<1>13. msgs[Key(Here)] = Message /\ branch = Here.branch /\ fs = fields /\ m = mode /\ doubtful \subseteq d
  BY <1>1 DEF Message
<1> QED
  BY <1>2, <1>4, <1>5, <1>6, <1>7, <1>8, <1>11, <1>12, <1>13, SameModeKeeps

LEMMA FailKeeps ==
  ASSUME FormAssumption, FormInv, Fail
  PROVE  FormInv'
<1>1. PICK run, r, o, m, s, branch, msgs, fs, d :
        /\ run = operation /\ branch = Here.branch
        /\ r = repo /\ o = NoOp /\ m = mode /\ s = selected /\ msgs = commitMessages /\ fs = fields
        /\ d = doubtful \cup (IF operation.kind \in {"amend", "reword"} THEN {operation.branch} ELSE {})
  OBVIOUS
<1>2. Render(r, o, m, s, msgs, fs) /\ doubtful' = d
  BY <1>1 DEF Fail
<1>3. /\ RepoOk(r) /\ OpOk(r, run, doubtful) /\ MessagesOk(r, msgs) /\ Key(Here) \in DOMAIN msgs
      /\ fs \in [edited : BOOLEAN, forceWhileOnHead : BOOLEAN] /\ (fs.forceWhileOnHead => fs.edited)
      /\ Here.isCommitMode => fs.edited
      /\ s # Trunk
  BY <1>1 DEF FormInv, FieldsOk
<1>4. doubtful \subseteq d /\ (run.kind \in {"amend", "reword"} => run.branch \in d)
  BY <1>1
<1>5. OpOk(r, run, d)
  BY <1>3, <1>4 DEF OpOk
<1>6. OpOk(r, o, d) /\ o.kind = "none"
  BY <1>1 DEF OpOk, NoOp
<1>7. PICK view : view = View(r, o, m, s)
  OBVIOUS
<1>8. view.branch \in DOMAIN r.titles /\ Tree(r, o).titles = r.titles
  <2>1. ViewOk(view, Tree(r, o), m, s)
    BY <1>3, <1>6, <1>7, ViewFacts
  <2>2. Tree(r, o).titles = r.titles
    BY <1>3, <1>6, TreeFacts
  <2> QED
    BY <2>1, <2>2 DEF ViewOk
<1>9. Title = Tree(r, run).titles[branch]
  BY <1>1 DEF Title
<1>10. ASSUME branch = view.branch
       PROVE  branch \in d \/ Tree(r, o).titles[branch] = Title
  <2>1. CASE run.kind = "commit"
    <3>1. \A b \in DOMAIN r.titles \cup {run.title} :
            Tree(r, run).titles[b] = IF b = run.title THEN run.title ELSE r.titles[b]
      BY <1>3, <1>5, <2>1, TreeFacts
    <3>2. run.title \in DOMAIN r.titles => run.title \in d
      BY <1>5, <2>1 DEF OpOk
    <3> QED
      BY <1>8, <1>9, <1>10, <3>1, <3>2
  <2>2. CASE run.kind \in {"amend", "reword"}
    <3>1. \A b \in DOMAIN r.titles :
            Tree(r, run).titles[b] = IF b = run.branch THEN run.title ELSE r.titles[b]
      BY <1>3, <1>5, <2>2, TreeFacts
    <3> QED
      BY <1>4, <1>8, <1>9, <1>10, <2>2, <3>1
  <2>3. CASE run.kind \in {"none", "submit"}
    <3>1. Tree(r, run).titles = r.titles
      BY <1>3, <1>5, <2>3, TreeFacts
    <3> QED
      BY <1>8, <1>9, <3>1
  <2>4. run.kind \in {"none", "commit", "amend", "reword", "submit"}
    BY <1>5 DEF OpOk
  <2> QED
    BY <2>1, <2>2, <2>3, <2>4
<1>11. Key(Here) = branch \/ fs.edited
  BY <1>1, <1>3 DEF Key
<1>12. msgs[Key(Here)] = Message /\ branch = Here.branch /\ fs = fields /\ m = mode
  BY <1>1 DEF Message
<1> QED
  BY <1>2, <1>3, <1>4, <1>6, <1>7, <1>10, <1>11, <1>12, SameModeKeeps

LEMMA RenameKeeps ==
  ASSUME FormAssumption, FormInv, NEW b \in DOMAIN repo.titles, NEW text \in Typed, Rename(b, text)
  PROVE  FormInv'
<1>1. PICK before, r, o, m, s, branch, msgs, fs, d :
        /\ before = repo /\ branch = Here.branch
        /\ r = [before EXCEPT !.titles[b] = text] /\ o = operation /\ m = mode /\ s = selected
        /\ msgs = commitMessages /\ fs = fields /\ d = doubtful \cup {b}
  OBVIOUS
<1>2. Render(r, o, m, s, msgs, fs) /\ doubtful' = d /\ operation = NoOp
  BY <1>1 DEF Rename
<1>3. /\ RepoOk(before) /\ OpOk(before, o, doubtful) /\ MessagesOk(before, msgs) /\ Key(Here) \in DOMAIN msgs
      /\ fs \in [edited : BOOLEAN, forceWhileOnHead : BOOLEAN] /\ (fs.forceWhileOnHead => fs.edited)
      /\ Here.isCommitMode => fs.edited
      /\ s # Trunk
  BY <1>1 DEF FormInv, FieldsOk
<1>4. /\ RepoOk(r) /\ DOMAIN r.titles = DOMAIN before.titles
      /\ \A c \in DOMAIN before.titles : c # b => r.titles[c] = before.titles[c]
  <2>1. before = [titles |-> before.titles, parents |-> before.parents, head |-> before.head, dirty |-> before.dirty]
    BY <1>3 DEF RepoOk
  <2>2. r = [titles |-> [before.titles EXCEPT ![b] = text],
             parents |-> before.parents, head |-> before.head, dirty |-> before.dirty]
    BY <1>1, <2>1
  <2>3. /\ DOMAIN r.titles = DOMAIN before.titles /\ r.head = before.head
        /\ \A c \in DOMAIN before.titles : r.titles[c] = IF c = b THEN text ELSE before.titles[c]
        /\ r = [titles |-> r.titles, parents |-> r.parents, head |-> r.head, dirty |-> r.dirty]
        /\ r.titles = [c \in DOMAIN r.titles |-> r.titles[c]]
    BY <2>2
  <2>4. text \in Titles
    BY DEF Titles
  <2> QED
    BY <1>3, <2>3, <2>4 DEF RepoOk
<1>5. MessagesOk(r, msgs)
  BY <1>3, <1>4, MessagesGrow
<1>6. OpOk(r, o, d) /\ Tree(r, o).titles = r.titles
  BY <1>1, <1>2 DEF OpOk, NoOp, Tree
<1>7. Title = before.titles[branch] /\ branch \in DOMAIN before.titles
  BY <1>1, <1>2, NoPreview, HereFacts DEF Title, ViewOk
<1>8. branch \in d \/ Tree(r, o).titles[branch] = Title
  BY <1>1, <1>4, <1>6, <1>7
<1>9. Key(Here) = branch \/ fs.edited
  BY <1>1, <1>3 DEF Key
<1>10. msgs[Key(Here)] = Message /\ branch = Here.branch /\ fs = fields /\ m = mode /\ doubtful \subseteq d
  BY <1>1 DEF Message
<1>11. Render(r, o, m, s, msgs, fs) /\ doubtful' = d
  BY <1>2
<1> QED
  BY <1>3, <1>4, <1>5, <1>6, <1>8, <1>9, <1>10, <1>11, SameModeKeeps

\* What others do to the head and to the files changes nothing that is edited.
LEMMA OthersKeep ==
  ASSUME FormAssumption, FormInv, NEW r, operation = NoOp, UNCHANGED doubtful,
         Render(r, operation, mode, selected, commitMessages, fields),
         RepoOk(r), r.titles = repo.titles
  PROVE  FormInv'
<1>1. PICK o, m, s, msgs, fs, d :
        /\ o = operation /\ m = mode /\ s = selected /\ msgs = commitMessages /\ fs = fields /\ d = doubtful
  OBVIOUS
<1>2. Render(r, o, m, s, msgs, fs) /\ doubtful' = d
  BY <1>1
<1>3. /\ OpOk(r, o, d) /\ MessagesOk(r, msgs) /\ Key(Here) \in DOMAIN msgs
      /\ fs \in [edited : BOOLEAN, forceWhileOnHead : BOOLEAN] /\ (fs.forceWhileOnHead => fs.edited)
      /\ Here.isCommitMode => fs.edited
      /\ s # Trunk
  BY <1>1 DEF FormInv, FieldsOk, OpOk, MessagesOk
<1>4. Tree(r, o).titles = r.titles
  BY <1>1 DEF NoOp, Tree
<1>5. msgs[Key(Here)] = Message /\ Tree(r, o).titles[Here.branch] = Title
  BY <1>1, <1>4, NoPreview DEF Message, Title
<1> QED
  BY <1>1, <1>2, <1>3, <1>5, SameModeKeeps

LEMMA CheckoutKeeps ==
  ASSUME FormAssumption, FormInv, NEW b \in DOMAIN repo.titles, Checkout(b)
  PROVE  FormInv'
<1>1. PICK before, r : before = repo /\ r = [before EXCEPT !.head = b]
  OBVIOUS
<1>2. RepoOk(before)
  BY <1>1 DEF FormInv
<1>3. r = [titles |-> before.titles, parents |-> before.parents, head |-> b, dirty |-> before.dirty]
  BY <1>1, <1>2 DEF RepoOk
<1>4. RepoOk(r) /\ r.titles = repo.titles
  BY <1>1, <1>2, <1>3 DEF RepoOk
<1>5. Render(r, operation, mode, selected, commitMessages, fields) /\ UNCHANGED doubtful /\ operation = NoOp
  BY <1>1 DEF Checkout
<1> QED
  BY <1>4, <1>5, OthersKeep

LEMMA EditFilesKeeps ==
  ASSUME FormAssumption, FormInv, EditFiles
  PROVE  FormInv'
<1>1. PICK before, r : before = repo /\ r = [before EXCEPT !.dirty = TRUE]
  OBVIOUS
<1>2. RepoOk(before)
  BY <1>1 DEF FormInv
<1>3. r = [titles |-> before.titles, parents |-> before.parents, head |-> before.head, dirty |-> TRUE]
  BY <1>1, <1>2 DEF RepoOk
<1>4. RepoOk(r) /\ r.titles = repo.titles
  BY <1>1, <1>2, <1>3 DEF RepoOk
<1>5. Render(r, operation, mode, selected, commitMessages, fields) /\ UNCHANGED doubtful /\ operation = NoOp
  BY <1>1 DEF EditFiles
<1> QED
  BY <1>4, <1>5, OthersKeep

----------------------------------------------------------------------------
LEMMA FormInvAtFirst ==
  ASSUME FormAssumption, FormInit
  PROVE  FormInv
<1>1. PICK h \in Branches, d \in BOOLEAN :
        repo = [titles |-> [b \in Branches |-> b], parents |-> ParentOf, head |-> h, dirty |-> d]
  BY DEF FormInit
<1>2. RepoOk(repo) /\ DOMAIN repo.titles = Branches
  BY <1>1 DEF RepoOk, Names, Titles
<1>3. OpOk(repo, operation, doubtful)
  BY DEF FormInit, OpOk, NoOp
<1>4. mode \in Modes /\ selected # Trunk
  BY DEF FormInit, Modes, FormAssumption
<1>5. PICK r, o, m, s, none : r = repo /\ o = operation /\ m = mode /\ s = selected /\ none = doubtful
  OBVIOUS
<1>6. PICK view, first, key : view = View(r, o, m, s) /\ first = LookUp(r, <<>>, key) /\ key = Key(view)
  OBVIOUS
<1>7. Here = view /\ commitMessages = first
  BY <1>5, <1>6 DEF FormInit, Here
<1>8. ViewOk(view, Tree(r, o), m, s)
  BY <1>2, <1>3, <1>5, <1>6, ViewFacts
<1>9. /\ ~view.isCommitMode /\ view.isCommitMode \in BOOLEAN /\ view # NoView
      /\ view.branch \in Branches /\ key = view.branch
  <2>1. m # "commit"
    BY <1>5 DEF FormInit
  <2>2. Tree(r, o).titles = repo.titles
    BY <1>5 DEF FormInit, Tree, NoOp
  <2>3. ~view.isCommitMode
    BY <1>8, <2>1 DEF ViewOk
  <2> QED
    BY <1>2, <1>6, <1>8, <2>2, <2>3 DEF ViewOk, Key
<1>10. MessagesOk(r, first) /\ key \in DOMAIN first /\ first[key] = key
  <2>1. MessagesOk(r, <<>>)
    BY DEF MessagesOk
  <2>2. MessagesOk(r, first) /\ key \in DOMAIN first
    BY <1>2, <1>5, <1>6, <2>1, LookUpFacts
  <2>3. first[key] = Default(r, key)
    BY <1>6 DEF LookUp
  <2>4. Default(r, key) = key
    BY <1>1, <1>5, <1>9 DEF Default, FormAssumption
  <2> QED
    BY <2>2, <2>3, <2>4
<1>11. BarOk(Here, mode, bar)
  <2>1. bar = IF IsPublic(Here, mode) THEN NoView ELSE view
    BY <1>7 DEF FormInit
  <2> QED
    BY <1>9, <2>1 DEF BarOk, NoView
<1>12. FieldsOk(Here, fields)
  BY <1>7, <1>9 DEF FieldsOk, FormInit, NoFields
<1>13. ShownIn(repo, operation, mode, selected, commitMessages, fields, doubtful)
  <2>1. Message = Title
    <3>1. Title = repo.titles[view.branch]
      BY <1>7 DEF Title, FormInit, Tree, NoOp
    <3> QED
      BY <1>1, <1>6, <1>7, <1>9, <1>10, <3>1 DEF Message
  <2> QED
    BY <2>1, ShownIsShownIn DEF ShownIsSent
<1>14. MessagesOk(repo, commitMessages) /\ Key(Here) \in DOMAIN commitMessages
  BY <1>5, <1>6, <1>7, <1>10
<1> QED
  BY <1>2, <1>3, <1>4, <1>11, <1>12, <1>13, <1>14 DEF FormInv

LEMMA FormStepKeeps ==
  ASSUME FormAssumption, FormInv, [FormNext]_formVars
  PROVE  FormInv'
<1>1. CASE FormNext
  BY <1>1, SelectKeeps, SetCommitModeKeeps, OpenCommitFormKeeps, StartEditingFieldKeeps, CancelKeeps,
     KeepEditingKeeps, SetEditedFieldKeeps, DoAmendOrCommitKeeps, AmendMessageKeeps, SubmitKeeps,
     SucceedKeeps, FailKeeps, EditFilesKeeps, CheckoutKeeps, RenameKeeps DEF FormNext, Modes
<1>2. CASE UNCHANGED formVars
  <2>1. Here' = Here
    BY <1>2 DEF formVars, Here, View, Tree
  <2>2. RepoOk(repo)' /\ MessagesOk(repo, commitMessages)' /\ OpOk(repo, operation, doubtful)'
    BY <1>2 DEF formVars, FormInv, RepoOk, MessagesOk, OpOk
  <2>3. (Key(Here) \in DOMAIN commitMessages)' /\ BarOk(Here, mode, bar)' /\ FieldsOk(Here, fields)'
    BY <1>2, <2>1 DEF formVars, FormInv, Key, BarOk, FieldsOk, IsPublic
  <2>4. ShownIn(repo, operation, mode, selected, commitMessages, fields, doubtful)'
    <3>1. ShownIn(repo', operation', mode', selected', commitMessages', fields', doubtful')
      BY <1>2 DEF formVars, FormInv
    <3> QED
      BY <3>1 DEF ShownIn, View, Tree, Key, IsPublic
  <2> QED
    BY <1>2, <2>2, <2>3, <2>4 DEF formVars, FormInv
<1> QED
  BY <1>1, <1>2

\* CommitInfoDetails, editedCommitMessages and the operations: the messages that
\* were looked up, the fields that are edited, what the buttons see and the
\* operation that runs fit the repository.
THEOREM FormInvHolds ==
  ASSUME FormAssumption
  PROVE  FormSpec => []FormInv
<1>1. FormInit => FormInv
  BY FormInvAtFirst
<1>2. FormInv /\ [FormNext]_formVars => FormInv'
  BY FormStepKeeps
<1> QED
  BY <1>1, <1>2, PTL DEF FormSpec

\* CommitInfoDetails and ActionsBar: whatever is typed, selected, committed,
\* cancelled or changed in a terminal, and whether commands succeed or not, the
\* message that a button would send is what the form shows, but for the branches
\* whose message is known to be doubtful.
THEOREM FormShowsWhatItSends ==
  ASSUME FormAssumption
  PROVE  FormSpec => []ShownIsSent
<1>1. FormInv => ShownIsSent
  BY ShownIsShownIn DEF FormInv
<1> QED
  BY <1>1, FormInvHolds, PTL

----------------------------------------------------------------------------
(***************************************************************************)
(* The conflicts of a rebase                                               *)
(***************************************************************************)
Rebases == {NotInConflict} \cup SUBSET Files
Listings == UNION {[set -> {"RESOLVED", "UNRESOLVED"}] : set \in SUBSET Files}
Known == [state : {"none", "loading", "loaded"}, files : Listings, after : Nat]
Operations == [id : Nat, tool : {"mark", "unmark", "take"}, file : Files]
              \cup [id : Nat, tool : {"continue", "abort"}, file : {""}]
Entries == [op : Operations, status : {"running", "ok", "failed"}, ended : Nat, done : BOOLEAN]
MessagesToWindow ==
  [kind : {"conflicts"}, value : Known] \cup [kind : {"spawn"}, op : Operations, queue : Seq(Operations)]
  \cup [kind : {"queue"}, queue : Seq(Operations)] \cup [kind : {"exit"}, op : Operations, ok : BOOLEAN]
Checks == [phase : {"idle", "dir", "status", "parse"}, again : BOOLEAN, after : Nat, output : Rebases]

\* What is known of a repository is so.
Reflects(known, r) ==
  IF r = NotInConflict THEN known = NoConflicts
  ELSE known.state = "loaded" /\ \A file \in DOMAIN known.files : known.files[file] = "RESOLVED" <=> file \notin r

\* After what is on its way the window knows the conflicts, unless it missed
\* that they are gone.
IsTold(messages, known, value, miss) ==
  \/ \E i \in DOMAIN messages :
       /\ messages[i].kind = "conflicts" /\ messages[i].value = value
       /\ \A j \in DOMAIN messages : j > i => messages[j].kind # "conflicts"
  \/ /\ \A i \in DOMAIN messages : messages[i].kind # "conflicts"
     /\ known = value \/ (miss /\ value = NoConflicts)

\* After it the window has the queue that the server has.
TellsQueue(message) ==
  message.kind \in {"spawn", "queue"} \/ (message.kind = "exit" /\ ~message.ok)

QueueOf(message) == IF message.kind = "exit" THEN <<>> ELSE message.queue

WaitsFor(messages, known, value) ==
  \/ \E i \in DOMAIN messages :
       /\ TellsQueue(messages[i]) /\ QueueOf(messages[i]) = value
       /\ \A j \in DOMAIN messages : j > i => ~TellsQueue(messages[j])
  \/ (\A i \in DOMAIN messages : ~TellsQueue(messages[i])) /\ known = value

Behind(queue) == IF queue = <<>> THEN <<>> ELSE Tail(queue)

\* What has nothing left to show is marked.
AllMarked(ops, known) ==
  \A i \in DOMAIN ops :
    (/\ ops[i].status # "running"
     /\ ops[i].status = "failed" \/ ~HasApplier(ops[i].op, known) \/ known.after >= ops[i].ended)
    => ops[i].done

\* A check that is not made again has begun after the last operation, and what
\* it left behind is marked with it.
CheckOk(c, now, n) ==
  /\ c.phase = "dir" => now = NoConflicts
  /\ c.phase \in {"status", "parse"} /\ ~c.again => c.after = n
  /\ c.phase = "idle" /\ now.state = "loaded" => now.after = n

\* The last check has found the repository as it is.
FreshOk(c, now, r) ==
  /\ c.phase = "parse" => c.output = r
  /\ c.phase # "parse" => Reflects(now, r)

ConflictTypes ==
  /\ rebase \in Rebases /\ running \in Seq(Operations) /\ ended \in Nat
  /\ conflicts \in Known /\ fetched \in Known /\ check \in Checks
  /\ channel \in Seq(MessagesToWindow) /\ list \in Seq(Entries) /\ queued \in Seq(Operations)
  /\ fresh \in BOOLEAN /\ missed \in BOOLEAN

\* Operations are numbered as they end.
NumbersOk(queue, n, messages, ops) ==
  /\ \A k \in DOMAIN queue : queue[k].id = n + k
  /\ \A i \in DOMAIN messages : messages[i].kind = "exit" => messages[i].op.id <= n
  /\ \A i \in DOMAIN ops : ops[i].ended <= n

\* The invariant of the conflicts.
ConflictInv ==
  /\ ConflictTypes
  /\ CheckOk(check, conflicts, ended)
  /\ fresh => FreshOk(check, conflicts, rebase)
  /\ IsTold(channel, fetched, conflicts, missed)
  /\ WaitsFor(channel, queued, Behind(running))
  /\ NumbersOk(running, ended, channel, list)
  /\ AllMarked(list, fetched)

----------------------------------------------------------------------------
LEMMA ConflictsAreKnown ==
  NoConflicts \in Known /\ Loading \in Known /\ NoConflicts.state = "none" /\ Loading.state = "loading"
<1>1. NoFiles \in Listings
  <2>1. NoFiles \in [{} -> {"RESOLVED", "UNRESOLVED"}]
    BY DEF NoFiles
  <2> QED
    BY <2>1 DEF Listings
<1> QED
  BY <1>1 DEF NoConflicts, Loading, Known

LEMMA MessagesAre ==
  ASSUME NEW m \in MessagesToWindow
  PROVE  /\ m.kind = "conflicts" => m.value \in Known
         /\ m.kind = "spawn" => m.op \in Operations /\ m.queue \in Seq(Operations)
         /\ m.kind = "queue" => m.queue \in Seq(Operations)
         /\ m.kind = "exit" => m.op \in Operations /\ m.ok \in BOOLEAN
         /\ m.kind \in {"conflicts", "spawn", "queue", "exit"}
<1>1. CASE m \in [kind : {"conflicts"}, value : Known]
  BY <1>1
<1>2. CASE m \in [kind : {"spawn"}, op : Operations, queue : Seq(Operations)]
  BY <1>2
<1>3. CASE m \in [kind : {"queue"}, queue : Seq(Operations)]
  BY <1>3
<1>4. CASE m \in [kind : {"exit"}, op : Operations, ok : BOOLEAN]
  BY <1>4
<1> QED
  BY <1>1, <1>2, <1>3, <1>4 DEF MessagesToWindow

LEMMA OperationsAre ==
  ASSUME NEW op \in Operations
  PROVE  /\ op.id \in Nat /\ op.tool \in {"mark", "unmark", "take", "continue", "abort"}
         /\ op.tool \in {"mark", "unmark", "take"} => op.file \in Files
BY DEF Operations

\* A message is appended.
LEMMA ToldAppend ==
  ASSUME NEW messages \in Seq(MessagesToWindow), NEW m \in MessagesToWindow, NEW known, NEW value, NEW miss
  PROVE  /\ m.kind = "conflicts" => IsTold(Append(messages, m), known, m.value, miss)
         /\ m.kind # "conflicts" /\ IsTold(messages, known, value, miss) =>
              IsTold(Append(messages, m), known, value, miss)
<1> DEFINE more == Append(messages, m)
<1>1. /\ DOMAIN messages = 1..Len(messages) /\ Len(messages) \in Nat
      /\ DOMAIN more = 1..Len(messages) + 1 /\ more[Len(messages) + 1] = m
      /\ \A i \in 1..Len(messages) : more[i] = messages[i]
  OBVIOUS
<1> HIDE DEF more
<1>2. ASSUME m.kind = "conflicts"
      PROVE  IsTold(more, known, m.value, miss)
  <2>1. Len(messages) + 1 \in DOMAIN more /\ \A j \in DOMAIN more : ~(j > Len(messages) + 1)
    BY <1>1
  <2> QED
    BY <1>1, <1>2, <2>1 DEF IsTold
<1>3. ASSUME m.kind # "conflicts", IsTold(messages, known, value, miss)
      PROVE  IsTold(more, known, value, miss)
  <2>1. CASE \A i \in DOMAIN messages : messages[i].kind # "conflicts"
    <3>1. \A i \in DOMAIN more : more[i].kind # "conflicts"
      BY <1>1, <1>3, <2>1
    <3> QED
      BY <1>3, <2>1, <3>1 DEF IsTold
  <2>2. ASSUME NEW i \in DOMAIN messages, messages[i].kind = "conflicts", messages[i].value = value,
               \A j \in DOMAIN messages : j > i => messages[j].kind # "conflicts"
        PROVE  IsTold(more, known, value, miss)
    <3>1. i \in DOMAIN more /\ more[i] = messages[i]
      BY <1>1
    <3>2. \A j \in DOMAIN more : j > i => more[j].kind # "conflicts"
      BY <1>1, <1>3, <2>2
    <3> QED
      BY <2>2, <3>1, <3>2 DEF IsTold
  <2> QED
    BY <1>3, <2>1, <2>2 DEF IsTold
<1> QED
  BY <1>2, <1>3 DEF more

LEMMA WaitsAppend ==
  ASSUME NEW messages \in Seq(MessagesToWindow), NEW m \in MessagesToWindow, NEW known, NEW value
  PROVE  /\ TellsQueue(m) => WaitsFor(Append(messages, m), known, QueueOf(m))
         /\ ~TellsQueue(m) /\ WaitsFor(messages, known, value) => WaitsFor(Append(messages, m), known, value)
<1> DEFINE more == Append(messages, m)
<1>1. /\ DOMAIN messages = 1..Len(messages) /\ Len(messages) \in Nat
      /\ DOMAIN more = 1..Len(messages) + 1 /\ more[Len(messages) + 1] = m
      /\ \A i \in 1..Len(messages) : more[i] = messages[i]
  OBVIOUS
<1> HIDE DEF more
<1>2. ASSUME TellsQueue(m)
      PROVE  WaitsFor(more, known, QueueOf(m))
  <2>1. Len(messages) + 1 \in DOMAIN more /\ \A j \in DOMAIN more : ~(j > Len(messages) + 1)
    BY <1>1
  <2> QED
    BY <1>1, <1>2, <2>1 DEF WaitsFor
<1>3. ASSUME ~TellsQueue(m), WaitsFor(messages, known, value)
      PROVE  WaitsFor(more, known, value)
  <2>1. CASE \A i \in DOMAIN messages : ~TellsQueue(messages[i])
    <3>1. \A i \in DOMAIN more : ~TellsQueue(more[i])
      BY <1>1, <1>3, <2>1
    <3> QED
      BY <1>3, <2>1, <3>1 DEF WaitsFor
  <2>2. ASSUME NEW i \in DOMAIN messages, TellsQueue(messages[i]), QueueOf(messages[i]) = value,
               \A j \in DOMAIN messages : j > i => ~TellsQueue(messages[j])
        PROVE  WaitsFor(more, known, value)
    <3>1. i \in DOMAIN more /\ more[i] = messages[i]
      BY <1>1
    <3>2. \A j \in DOMAIN more : j > i => ~TellsQueue(more[j])
      BY <1>1, <1>3, <2>2
    <3> QED
      BY <2>2, <3>1, <3>2 DEF WaitsFor
  <2> QED
    BY <1>3, <2>1, <2>2 DEF WaitsFor
<1> QED
  BY <1>2, <1>3 DEF more

\* The first message arrives.
LEMMA ToldTail ==
  ASSUME NEW messages \in Seq(MessagesToWindow), messages # <<>>, NEW known, NEW value, NEW miss,
         IsTold(messages, known, value, miss)
  PROVE  /\ Head(messages).kind = "conflicts" => IsTold(Tail(messages), Head(messages).value, value, FALSE)
         /\ Head(messages).kind # "conflicts" => IsTold(Tail(messages), known, value, miss)
<1> DEFINE rest == Tail(messages)
           m == Head(messages)
<1>1. /\ DOMAIN messages = 1..Len(messages) /\ Len(messages) \in Nat \ {0}
      /\ DOMAIN rest = 1..Len(messages) - 1 /\ m = messages[1]
      /\ \A i \in 1..Len(messages) - 1 : rest[i] = messages[i + 1]
  OBVIOUS
<1> HIDE DEF rest, m
<1>2. CASE \A i \in DOMAIN messages : messages[i].kind # "conflicts"
  <2>1. m.kind # "conflicts" /\ \A i \in DOMAIN rest : rest[i].kind # "conflicts"
    BY <1>1, <1>2
  <2>2. known = value \/ (miss /\ value = NoConflicts)
    BY <1>2 DEF IsTold
  <2> QED
    BY <2>1, <2>2 DEF IsTold, rest, m
<1>3. ASSUME NEW i \in DOMAIN messages, messages[i].kind = "conflicts", messages[i].value = value,
             \A j \in DOMAIN messages : j > i => messages[j].kind # "conflicts"
      PROVE  /\ m.kind = "conflicts" => IsTold(rest, m.value, value, FALSE)
             /\ m.kind # "conflicts" => IsTold(rest, known, value, miss)
  <2>1. CASE i = 1
    <3>1. \A j \in DOMAIN rest : rest[j].kind # "conflicts"
      BY <1>1, <1>3, <2>1
    <3> QED
      BY <1>1, <1>3, <2>1, <3>1 DEF IsTold
  <2>2. CASE i # 1
    <3>1. i - 1 \in DOMAIN rest /\ rest[i - 1] = messages[i]
      BY <1>1, <2>2
    <3>2. \A j \in DOMAIN rest : j > i - 1 => rest[j].kind # "conflicts"
      BY <1>1, <1>3
    <3> QED
      BY <1>3, <3>1, <3>2 DEF IsTold
  <2> QED
    BY <2>1, <2>2
<1> QED
  BY <1>2, <1>3 DEF IsTold, rest, m

LEMMA WaitsTail ==
  ASSUME NEW messages \in Seq(MessagesToWindow), messages # <<>>, NEW known, NEW value,
         WaitsFor(messages, known, value)
  PROVE  /\ TellsQueue(Head(messages)) => WaitsFor(Tail(messages), QueueOf(Head(messages)), value)
         /\ ~TellsQueue(Head(messages)) => WaitsFor(Tail(messages), known, value)
<1> DEFINE rest == Tail(messages)
           m == Head(messages)
<1>1. /\ DOMAIN messages = 1..Len(messages) /\ Len(messages) \in Nat \ {0}
      /\ DOMAIN rest = 1..Len(messages) - 1 /\ m = messages[1]
      /\ \A i \in 1..Len(messages) - 1 : rest[i] = messages[i + 1]
  OBVIOUS
<1> HIDE DEF rest, m
<1>2. CASE \A i \in DOMAIN messages : ~TellsQueue(messages[i])
  <2>1. ~TellsQueue(m) /\ \A i \in DOMAIN rest : ~TellsQueue(rest[i])
    BY <1>1, <1>2
  <2>2. known = value
    BY <1>2 DEF WaitsFor
  <2> QED
    BY <2>1, <2>2 DEF WaitsFor, rest, m
<1>3. ASSUME NEW i \in DOMAIN messages, TellsQueue(messages[i]), QueueOf(messages[i]) = value,
             \A j \in DOMAIN messages : j > i => ~TellsQueue(messages[j])
      PROVE  /\ TellsQueue(m) => WaitsFor(rest, QueueOf(m), value)
             /\ ~TellsQueue(m) => WaitsFor(rest, known, value)
  <2>1. CASE i = 1
    <3>1. \A j \in DOMAIN rest : ~TellsQueue(rest[j])
      BY <1>1, <1>3, <2>1
    <3> QED
      BY <1>1, <1>3, <2>1, <3>1 DEF WaitsFor
  <2>2. CASE i # 1
    <3>1. i - 1 \in DOMAIN rest /\ rest[i - 1] = messages[i]
      BY <1>1, <2>2
    <3>2. \A j \in DOMAIN rest : j > i - 1 => ~TellsQueue(rest[j])
      BY <1>1, <1>3
    <3> QED
      BY <1>3, <3>1, <3>2 DEF WaitsFor
  <2> QED
    BY <2>1, <2>2
<1> QED
  BY <1>2, <1>3 DEF WaitsFor, rest, m

----------------------------------------------------------------------------
(***************************************************************************)
(* The server                                                              *)
(***************************************************************************)
LEMMA CheckEndedFacts ==
  ASSUME ConflictInv, NEW now \in Known, check.phase # "idle", check.phase = "dir" => now = NoConflicts,
         now.state = "loaded" /\ check.phase \in {"status", "parse"} => now.after = check.after
  PROVE  CheckEnded(now) \in Checks /\ CheckOk(CheckEnded(now), now, ended) /\ CheckEnded(now).phase # "parse"
<1>1. PICK c, n, was : c = CheckEnded(now) /\ n = ended /\ was = check
  OBVIOUS
<1>2. /\ was \in Checks /\ n \in Nat /\ NotInConflict \in Rebases
      /\ was.phase \in {"status", "parse"} /\ ~was.again => was.after = n
  BY <1>1 DEF ConflictInv, ConflictTypes, CheckOk, Rebases
<1>3. was.phase \in {"dir", "status", "parse"}
  BY <1>1, <1>2 DEF Checks
<1>4. Idle = [phase |-> "idle", again |-> FALSE, after |-> 0, output |-> NotInConflict]
  BY DEF Idle
<1>5. CASE ~was.again
  <2>1. c = Idle
    BY <1>1, <1>5 DEF CheckEnded
  <2>2. now.state = "loaded" => now.after = n
    BY <1>1, <1>2, <1>3, <1>5, ConflictsAreKnown
  <2>3. c.phase = "idle"
    BY <1>4, <2>1
  <2>4. c \in Checks
    BY <1>2, <1>4, <2>1 DEF Checks
  <2> QED
    BY <1>1, <2>2, <2>3, <2>4 DEF CheckOk
<1>6. CASE was.again
  <2>1. c = [phase |-> IF now = NoConflicts THEN "dir" ELSE "status", again |-> FALSE, after |-> n,
             output |-> NotInConflict]
    BY <1>1, <1>4, <1>6 DEF CheckEnded
  <2>2. c.phase = (IF now = NoConflicts THEN "dir" ELSE "status") /\ c.after = n
    BY <2>1
  <2>3. c \in Checks
    BY <1>2, <2>1 DEF Checks
  <2> QED
    BY <1>1, <2>2, <2>3 DEF CheckOk
<1> QED
  BY <1>2, <1>5, <1>6 DEF Checks

\* The repository or the check of the server goes on, and nobody is told.
LEMMA SilentKeeps ==
  ASSUME ConflictInv,
         UNCHANGED <<running, ended, conflicts, channel, fetched, list, queued, missed>>,
         rebase' \in Rebases, check' \in Checks, CheckOk(check', conflicts, ended),
         fresh' \in BOOLEAN, fresh' => FreshOk(check', conflicts, rebase')
  PROVE  ConflictInv'
<1>1. ConflictTypes'
  BY DEF ConflictInv, ConflictTypes
<1>2. CheckOk(check, conflicts, ended)' /\ (fresh => FreshOk(check, conflicts, rebase))'
  BY DEF CheckOk, FreshOk, Reflects
<1>3. IsTold(channel, fetched, conflicts, missed)' /\ WaitsFor(channel, queued, Behind(running))'
  BY DEF ConflictInv, IsTold, WaitsFor, Behind
<1>4. NumbersOk(running, ended, channel, list)' /\ AllMarked(list, fetched)'
  BY DEF ConflictInv, NumbersOk, AllMarked, HasApplier
<1> QED
  BY <1>1, <1>2, <1>3, <1>4 DEF ConflictInv

LEMMA PollKeeps ==
  ASSUME ConflictInv, Poll
  PROVE  ConflictInv'
<1>1. PICK was, c, n, now : was = check /\ c = Called(check) /\ n = ended /\ now = conflicts
  OBVIOUS
<1>2. /\ was \in Checks /\ n \in Nat /\ NotInConflict \in Rebases /\ CheckOk(was, now, n)
  BY <1>1 DEF ConflictInv, ConflictTypes, Rebases
<1>3. c \in Checks /\ CheckOk(c, now, n)
  <2>1. CASE was.phase # "idle"
    <3>1. c = [phase |-> was.phase, again |-> TRUE, after |-> was.after, output |-> was.output]
      BY <1>1, <1>2, <2>1 DEF Called, Checks
    <3>2. c.phase = was.phase /\ c.again
      BY <3>1
    <3>3. c \in Checks
      BY <1>2, <3>1 DEF Checks
    <3> QED
      BY <1>2, <2>1, <3>2, <3>3 DEF CheckOk
  <2>2. CASE was.phase = "idle"
    <3>1. c = [phase |-> IF now = NoConflicts THEN "dir" ELSE "status", again |-> FALSE, after |-> n,
               output |-> NotInConflict]
      BY <1>1, <2>2 DEF Called, Idle
    <3>2. c.phase = (IF now = NoConflicts THEN "dir" ELSE "status") /\ c.after = n
      BY <3>1
    <3>3. c \in Checks
      BY <1>2, <3>1 DEF Checks
    <3> QED
      BY <3>2, <3>3 DEF CheckOk
  <2> QED
    BY <2>1, <2>2
<1>4. /\ check' = c /\ ~fresh
      /\ UNCHANGED <<rebase, running, ended, conflicts, channel, fetched, list, queued, fresh, missed>>
  BY <1>1 DEF Poll, window
<1>5. /\ rebase' \in Rebases /\ check' \in Checks /\ CheckOk(check', conflicts, ended)
      /\ ~fresh' /\ fresh' \in BOOLEAN
  BY <1>1, <1>3, <1>4 DEF ConflictInv, ConflictTypes
<1> QED
  BY <1>4, <1>5, SilentKeeps

\* The server has found something, and tells the window.
LEMMA TellKeeps ==
  ASSUME ConflictInv, NEW now \in Known,
         conflicts' = now, channel' = Append(channel, Emitted(now)),
         UNCHANGED <<rebase, running, ended, fetched, list, queued, missed>>,
         check' \in Checks, CheckOk(check', now, ended), fresh' \in BOOLEAN, fresh' => FreshOk(check', now, rebase)
  PROVE  ConflictInv'
<1>1. PICK old, m, n, r : old = channel /\ m = Emitted(now) /\ n = ended /\ r = rebase
  OBVIOUS
<1>2. m = [kind |-> "conflicts", value |-> now] /\ m \in MessagesToWindow /\ old \in Seq(MessagesToWindow)
  BY <1>1 DEF Emitted, MessagesToWindow, ConflictInv, ConflictTypes
<1>3. PICK known, miss, waiting, behind :
        known = fetched /\ miss = missed /\ waiting = queued /\ behind = Behind(running)
  OBVIOUS
<1>4. PICK more : more = Append(old, m)
  OBVIOUS
<1>5. IsTold(more, known, now, miss)
  BY <1>2, <1>4, ToldAppend
<1>6. WaitsFor(more, waiting, behind)
  <2>1. ~TellsQueue(m)
    BY <1>2 DEF TellsQueue
  <2>2. WaitsFor(old, waiting, behind)
    BY <1>1, <1>3 DEF ConflictInv
  <2> QED
    BY <1>2, <1>4, <2>1, <2>2, WaitsAppend
<1>7. /\ more \in Seq(MessagesToWindow)
      /\ \A i \in DOMAIN more : more[i].kind = "exit" => i \in DOMAIN old /\ more[i] = old[i]
  BY <1>2, <1>4
<1>8. ConflictTypes'
  BY <1>1, <1>4, <1>7 DEF ConflictInv, ConflictTypes
<1>9. CheckOk(check, conflicts, ended)' /\ (fresh => FreshOk(check, conflicts, rebase))'
  BY DEF CheckOk, FreshOk, Reflects
<1>10. IsTold(channel, fetched, conflicts, missed)'
  BY <1>1, <1>3, <1>4, <1>5 DEF IsTold
<1>11. WaitsFor(channel, queued, Behind(running))'
  BY <1>1, <1>3, <1>4, <1>6 DEF WaitsFor, Behind
<1>12. NumbersOk(running, ended, channel, list)'
  <2>1. NumbersOk(running, ended, old, list)
    BY <1>1 DEF ConflictInv
  <2> QED
    BY <1>1, <1>4, <1>7, <2>1 DEF NumbersOk
<1>13. AllMarked(list, fetched)'
  BY DEF ConflictInv, AllMarked, HasApplier
<1> QED
  BY <1>8, <1>9, <1>10, <1>11, <1>12, <1>13 DEF ConflictInv

LEMMA LookForDirectoryKeeps ==
  ASSUME ConflictInv, LookForDirectory
  PROVE  ConflictInv'
<1>1. /\ conflicts = NoConflicts /\ conflicts \in Known /\ check \in Checks /\ check.phase = "dir"
      /\ rebase \in Rebases /\ ended \in Nat /\ fresh \in BOOLEAN
      /\ fresh => FreshOk(check, conflicts, rebase)
  BY DEF LookForDirectory, ConflictInv, ConflictTypes, CheckOk
<1>2. UNCHANGED <<rebase, running, ended, fetched, list, queued, missed>>
  BY DEF LookForDirectory, window
<1>3. CASE rebase = NotInConflict
  <2>1. check' = CheckEnded(conflicts) /\ fresh' = TRUE /\ UNCHANGED <<conflicts, channel>>
    BY <1>3 DEF LookForDirectory
  <2>2. PICK now, c : now = conflicts /\ c = CheckEnded(now)
    OBVIOUS
  <2>3. c \in Checks /\ CheckOk(c, now, ended) /\ c.phase # "parse"
    BY <1>1, <2>2, CheckEndedFacts, ConflictsAreKnown
  <2>4. FreshOk(c, now, rebase)
    BY <1>1, <1>3, <2>2, <2>3 DEF FreshOk, Reflects
  <2>5. check' = c /\ rebase' = rebase
    BY <1>2, <2>1, <2>2
  <2> QED
    BY <1>1, <1>2, <2>1, <2>2, <2>3, <2>4, <2>5, SilentKeeps
<1>4. CASE rebase # NotInConflict
  <2>1. /\ check' = [check EXCEPT !.phase = "status", !.after = ended]
        /\ conflicts' = Loading /\ channel' = Append(channel, Emitted(Loading)) /\ fresh' = fresh
    BY <1>4 DEF LookForDirectory
  <2>2. ~fresh
    BY <1>1, <1>4, ConflictsAreKnown DEF FreshOk, Reflects
  <2>3. PICK was, n, c : was = check /\ n = ended /\ c = [was EXCEPT !.phase = "status", !.after = n]
    OBVIOUS
  <2>4. c \in Checks /\ c.phase = "status" /\ c.after = n
    BY <1>1, <2>3 DEF Checks
  <2>5. CheckOk(c, Loading, n)
    BY <2>4 DEF CheckOk
  <2>6. check' \in Checks /\ CheckOk(check', Loading, ended)
    BY <2>1, <2>3, <2>4, <2>5
  <2> QED
    BY <1>1, <1>2, <2>1, <2>2, <2>6, ConflictsAreKnown, TellKeeps
<1> QED
  BY <1>3, <1>4

LEMMA RunStatusKeeps ==
  ASSUME ConflictInv, RunStatus
  PROVE  ConflictInv'
<1>1. PICK was, n, now, r, c :
        /\ was = check /\ n = ended /\ now = conflicts /\ r = rebase
        /\ c = [was EXCEPT !.phase = "parse", !.output = r]
  OBVIOUS
<1>2. was \in Checks /\ r \in Rebases /\ CheckOk(was, now, n) /\ was.phase = "status"
  BY <1>1 DEF RunStatus, ConflictInv, ConflictTypes
<1>3. c = [phase |-> "parse", again |-> was.again, after |-> was.after, output |-> r]
  BY <1>1, <1>2 DEF Checks
<1>4. c \in Checks /\ CheckOk(c, now, n) /\ FreshOk(c, now, r)
  BY <1>2, <1>3 DEF Checks, CheckOk, FreshOk
<1>5. /\ check' = c /\ fresh' = TRUE
      /\ UNCHANGED <<rebase, running, ended, conflicts, channel, fetched, list, queued, missed>>
  BY <1>1 DEF RunStatus, window
<1>6. rebase' = r
  BY <1>1, <1>5
<1> QED
  BY <1>1, <1>2, <1>4, <1>5, <1>6, SilentKeeps

LEMMA NewConflictsFacts ==
  ASSUME NEW previous \in Known, NEW output \in Rebases, NEW after \in Nat
  PROVE  /\ ComputeNewConflicts(previous, output, after) \in Known
         /\ Reflects(ComputeNewConflicts(previous, output, after), output)
         /\ ComputeNewConflicts(previous, output, after).state = "loaded" =>
              ComputeNewConflicts(previous, output, after).after = after
<1> DEFINE now == ComputeNewConflicts(previous, output, after)
           names == IF DOMAIN previous.files # {} THEN DOMAIN previous.files ELSE output
           files == [f \in names |-> IF f \in output THEN "UNRESOLVED" ELSE "RESOLVED"]
<1>1. CASE output = NotInConflict
  <2>1. now = NoConflicts
    BY <1>1 DEF ComputeNewConflicts
  <2> QED
    BY <1>1, <2>1, ConflictsAreKnown DEF Reflects
<1>2. CASE output # NotInConflict
  <2>1. now = [state |-> "loaded", after |-> after, files |-> files]
    BY <1>2 DEF ComputeNewConflicts
  <2>2. PICK set \in SUBSET Files : previous.files \in [set -> {"RESOLVED", "UNRESOLVED"}]
    BY DEF Known, Listings
  <2>3. names \in SUBSET Files
    BY <1>2, <2>2 DEF Rebases
  <2>4. files \in Listings
    <3> HIDE DEF names
    <3>1. files \in [names -> {"RESOLVED", "UNRESOLVED"}]
      OBVIOUS
    <3> QED
      BY <2>3, <3>1 DEF Listings
  <2>5. \A f \in DOMAIN files : files[f] = "RESOLVED" <=> f \notin output
    OBVIOUS
  <2> HIDE DEF files
  <2>6. now \in Known
    BY <2>1, <2>4 DEF Known
  <2> QED
    BY <1>2, <2>1, <2>5, <2>6 DEF Reflects
<1> QED
  BY <1>1, <1>2

LEMMA ParseStatusKeeps ==
  ASSUME ConflictInv, ParseStatus
  PROVE  ConflictInv'
<1>1. PICK was, n, r, now, c :
        /\ was = check /\ n = ended /\ r = rebase
        /\ now = ComputeNewConflicts(conflicts, was.output, was.after) /\ c = CheckEnded(now)
  OBVIOUS
<1>2. /\ was \in Checks /\ was.phase = "parse" /\ conflicts \in Known /\ fresh \in BOOLEAN
      /\ fresh => FreshOk(was, conflicts, r)
  BY <1>1 DEF ParseStatus, ConflictInv, ConflictTypes
<1>3. was.output \in Rebases /\ was.after \in Nat
  BY <1>2 DEF Checks
<1>4. now \in Known /\ Reflects(now, was.output) /\ (now.state = "loaded" => now.after = was.after)
  BY <1>1, <1>2, <1>3, NewConflictsFacts
<1>5. c \in Checks /\ CheckOk(c, now, n) /\ c.phase # "parse"
  BY <1>1, <1>2, <1>4, CheckEndedFacts
<1>6. fresh => FreshOk(c, now, r)
  BY <1>2, <1>4, <1>5 DEF FreshOk
<1>7. /\ conflicts' = now /\ channel' = Append(channel, Emitted(now)) /\ check' = c
      /\ UNCHANGED <<rebase, running, ended, fetched, list, queued, missed, fresh>>
  BY <1>1 DEF ParseStatus, EndCheck, window
<1>8. /\ check' \in Checks /\ CheckOk(check', now, ended)
      /\ (fresh' => FreshOk(check', now, rebase)) /\ fresh' \in BOOLEAN
  BY <1>1, <1>2, <1>5, <1>6, <1>7
<1> QED
  BY <1>4, <1>7, <1>8, TellKeeps

LEMMA FailStatusKeeps ==
  ASSUME ConflictInv, FailStatus
  PROVE  ConflictInv'
<1>1. PICK now, n, c : now = NoConflicts /\ n = ended /\ c = CheckEnded(now)
  OBVIOUS
<1>2. now \in Known /\ now.state # "loaded" /\ check.phase = "status"
  BY <1>1, ConflictsAreKnown DEF FailStatus
<1>3. c \in Checks /\ CheckOk(c, now, n)
  BY <1>1, <1>2, CheckEndedFacts
<1>4. /\ conflicts' = now /\ channel' = Append(channel, Emitted(now)) /\ check' = c
      /\ fresh' = FALSE
      /\ UNCHANGED <<rebase, running, ended, fetched, list, queued, missed>>
  BY <1>1 DEF FailStatus, EndCheck, window
<1>5. check' \in Checks /\ CheckOk(check', now, ended) /\ ~fresh' /\ fresh' \in BOOLEAN
  BY <1>1, <1>3, <1>4
<1> QED
  BY <1>2, <1>4, <1>5, TellKeeps

LEMMA InTerminalKeeps ==
  ASSUME ConflictInv, InTerminal
  PROVE  ConflictInv'
<1>1. /\ UNCHANGED <<running, ended, conflicts, check, channel, fetched, list, queued, missed>>
      /\ rebase' \in Rebases /\ fresh' = FALSE
  BY DEF InTerminal, server, window, Rebases
<1>2. check' \in Checks /\ CheckOk(check', conflicts, ended)
  BY <1>1 DEF ConflictInv, ConflictTypes
<1> QED
  BY <1>1, <1>2, SilentKeeps

----------------------------------------------------------------------------
(***************************************************************************)
(* The commands and the window                                             *)
(***************************************************************************)
LEMMA OutcomesFacts ==
  ASSUME rebase \in SUBSET Files, NEW op \in Operations, NEW r \in Outcomes(op)
  PROVE  r.ok \in BOOLEAN /\ r.rebase \in Rebases
<1>1. op.tool \in {"mark", "unmark", "take", "continue", "abort"}
      /\ (op.tool \in {"mark", "unmark", "take"} => op.file \in Files)
  BY OperationsAre
<1>2. \A set \in SUBSET Files : set \in Rebases
  BY DEF Rebases
<1>3. NotInConflict \in Rebases
  BY DEF Rebases
<1>4. SUFFICES \E ok \in BOOLEAN, then \in Rebases : r = [ok |-> ok, rebase |-> then]
  OBVIOUS
<1>5. CASE op.tool = "mark"
  <2>1. r = [ok |-> TRUE, rebase |-> rebase \ {op.file}]
    BY <1>5 DEF Outcomes
  <2>2. rebase \ {op.file} \in Rebases
    BY <1>2
  <2> QED
    BY <2>1, <2>2
<1>6. CASE op.tool = "unmark"
  <2>1. r = [ok |-> TRUE, rebase |-> rebase \cup {op.file}]
    BY <1>6 DEF Outcomes
  <2>2. rebase \cup {op.file} \in Rebases
    BY <1>1, <1>2, <1>6
  <2> QED
    BY <2>1, <2>2
<1>7. CASE op.tool = "take"
  <2>1. r = [ok |-> TRUE, rebase |-> rebase]
    BY <1>7 DEF Outcomes
  <2> QED
    BY <1>2, <2>1
<1>8. CASE op.tool = "abort"
  <2>1. r = [ok |-> TRUE, rebase |-> NotInConflict]
    BY <1>8 DEF Outcomes
  <2> QED
    BY <1>3, <2>1
<1>9. CASE op.tool = "continue"
  <2>1. \/ r = [ok |-> FALSE, rebase |-> rebase] \/ r = [ok |-> TRUE, rebase |-> NotInConflict]
        \/ \E s \in SUBSET Files : r = [ok |-> FALSE, rebase |-> s]
    BY <1>9 DEF Outcomes
  <2> QED
    BY <1>2, <1>3, <2>1
<1> QED
  BY <1>1, <1>5, <1>6, <1>7, <1>8, <1>9

LEMMA EndOperationKeeps ==
  ASSUME ConflictInv, EndOperation
  PROVE  ConflictInv'
<1>1. PICK queue, n, old, was, now, known, waiting, miss, ops :
        /\ queue = running /\ n = ended /\ old = channel /\ was = check /\ now = conflicts
        /\ known = fetched /\ waiting = queued /\ miss = missed /\ ops = list
  OBVIOUS
<1>2. /\ queue \in Seq(Operations) /\ n \in Nat /\ old \in Seq(MessagesToWindow) /\ was \in Checks
      /\ CheckOk(was, now, n) /\ IsTold(old, known, now, miss) /\ WaitsFor(old, waiting, Behind(queue))
      /\ NumbersOk(queue, n, old, ops) /\ rebase \in Rebases /\ ops \in Seq(Entries)
  BY <1>1 DEF ConflictInv, ConflictTypes
<1>3. queue # <<>>
  BY <1>1 DEF EndOperation
<1>4. PICK op : op = Head(queue)
  OBVIOUS
<1>5. op \in Operations /\ op = queue[1] /\ Len(queue) \in Nat \ {0} /\ op.id = n + 1 /\ op.id \in Nat
  <2>1. op \in Operations /\ op = queue[1] /\ Len(queue) \in Nat \ {0} /\ 1 \in DOMAIN queue
    BY <1>2, <1>3, <1>4
  <2> QED
    BY <1>2, <2>1 DEF NumbersOk
<1>6. PICK r : /\ r.ok \in BOOLEAN /\ r.rebase \in Rebases
               /\ rebase' = r.rebase /\ running' = (IF r.ok THEN Tail(queue) ELSE <<>>)
               /\ ended' = (IF r.ok THEN n + 1 ELSE n + Len(queue))
               /\ channel' = Append(old, [kind |-> "exit", op |-> op, ok |-> r.ok])
                               \o Started(IF r.ok THEN Tail(queue) ELSE <<>>)
  <2>1. PICK r \in IF rebase = NotInConflict THEN {[ok |-> FALSE, rebase |-> rebase]} ELSE Outcomes(op) :
               /\ rebase' = r.rebase /\ running' = (IF r.ok THEN Tail(queue) ELSE <<>>)
               /\ ended' = (IF r.ok THEN n + 1 ELSE n + Len(queue))
               /\ channel' = Append(old, [kind |-> "exit", op |-> op, ok |-> r.ok])
                               \o Started(IF r.ok THEN Tail(queue) ELSE <<>>)
    BY <1>1, <1>4 DEF EndOperation
  <2>2. CASE rebase = NotInConflict
    BY <2>1, <2>2 DEF Rebases
  <2>3. CASE rebase # NotInConflict
    <3>1. rebase \in SUBSET Files /\ r \in Outcomes(op)
      BY <1>2, <2>1, <2>3 DEF Rebases
    <3>2. r.ok \in BOOLEAN /\ r.rebase \in Rebases
      BY <1>5, <3>1, OutcomesFacts
    <3> QED
      BY <2>1, <3>2
  <2> QED
    BY <2>2, <2>3
<1>7. PICK rest, then, m, mid, more :
        /\ rest = (IF r.ok THEN Tail(queue) ELSE <<>>) /\ then = (IF r.ok THEN n + 1 ELSE n + Len(queue))
        /\ m = [kind |-> "exit", op |-> op, ok |-> r.ok]
        /\ mid = Append(old, m) /\ more = mid \o Started(rest)
  OBVIOUS
<1>8. /\ rest \in Seq(Operations) /\ then \in Nat /\ n + 1 <= then
      /\ m \in MessagesToWindow /\ mid \in Seq(MessagesToWindow)
  BY <1>2, <1>3, <1>5, <1>6, <1>7 DEF MessagesToWindow
<1>9. \A k \in DOMAIN rest : rest[k].id = then + k
  <2>1. CASE r.ok
    <3>1. \A k \in DOMAIN rest : k \in Nat /\ k + 1 \in DOMAIN queue /\ rest[k] = queue[k + 1]
      BY <1>2, <1>3, <1>7, <2>1
    <3>2. \A k \in DOMAIN queue : queue[k].id = n + k
      BY <1>2 DEF NumbersOk
    <3> QED
      BY <1>2, <1>7, <2>1, <3>1, <3>2
  <2>2. CASE ~r.ok
    BY <1>7, <2>2
  <2> QED
    BY <2>1, <2>2
<1>10. /\ IsTold(mid, known, now, miss)
       /\ r.ok => WaitsFor(mid, waiting, Tail(queue))
       /\ ~r.ok => WaitsFor(mid, waiting, <<>>)
       /\ \A i \in DOMAIN mid : mid[i].kind = "exit" => mid[i].op.id <= then
  <2>1. m.kind = "exit" /\ m.ok = r.ok /\ m.op = op
    BY <1>7
  <2>2. IsTold(mid, known, now, miss)
    BY <1>2, <1>7, <1>8, <2>1, ToldAppend
  <2>3. ~r.ok => WaitsFor(mid, waiting, <<>>)
    <3>1. ~r.ok => TellsQueue(m) /\ QueueOf(m) = <<>>
      BY <2>1 DEF TellsQueue, QueueOf
    <3> QED
      BY <1>2, <1>7, <1>8, <3>1, WaitsAppend
  <2>4. r.ok => WaitsFor(mid, waiting, Tail(queue))
    <3>1. r.ok => ~TellsQueue(m)
      BY <2>1 DEF TellsQueue
    <3>2. WaitsFor(old, waiting, Tail(queue))
      BY <1>2, <1>3 DEF Behind
    <3> QED
      BY <1>2, <1>7, <1>8, <3>1, <3>2, WaitsAppend
  <2>5. \A i \in DOMAIN mid : (i \in DOMAIN old /\ mid[i] = old[i]) \/ mid[i] = m
    BY <1>2, <1>7, <1>8
  <2>6. ASSUME NEW i \in DOMAIN old, old[i].kind = "exit"
        PROVE  old[i].op.id <= then
    <3>1. old[i] \in MessagesToWindow
      BY <1>2
    <3>2. old[i].op \in Operations
      BY <2>6, <3>1, MessagesAre
    <3>3. old[i].op.id \in Nat
      BY <3>2, OperationsAre
    <3>4. old[i].op.id <= n
      BY <1>2, <2>6 DEF NumbersOk
    <3> QED
      BY <1>2, <1>8, <3>3, <3>4
  <2>7. \A i \in DOMAIN mid : mid[i].kind = "exit" => mid[i].op.id <= then
    <3>1. m.op.id <= then
      BY <1>5, <1>8, <2>1
    <3> QED
      BY <2>5, <2>6, <3>1
  <2> QED
    BY <2>2, <2>3, <2>4, <2>7
<1>11. /\ more \in Seq(MessagesToWindow)
       /\ IsTold(more, known, now, miss) /\ WaitsFor(more, waiting, Behind(rest))
       /\ \A i \in DOMAIN more : more[i].kind = "exit" => more[i].op.id <= then
  <2>1. CASE rest = <<>>
    <3>1. more = mid
      BY <1>7, <1>8, <2>1 DEF Started
    <3>2. WaitsFor(mid, waiting, Behind(rest))
      <4>1. Behind(rest) = <<>>
        BY <2>1 DEF Behind
      <4>2. r.ok => Tail(queue) = <<>>
        BY <1>7, <2>1
      <4> QED
        BY <1>6, <1>10, <4>1, <4>2
    <3> QED
      BY <1>8, <1>10, <3>1, <3>2
  <2>2. CASE rest # <<>>
    <3>1. PICK s : s = [kind |-> "spawn", op |-> Head(rest), queue |-> Tail(rest)]
      OBVIOUS
    <3>2. s \in MessagesToWindow /\ s.kind = "spawn" /\ s.queue = Tail(rest)
      BY <1>8, <2>2, <3>1 DEF MessagesToWindow
    <3>3. more = Append(mid, s)
      <4>1. Started(rest) = <<s>>
        BY <2>2, <3>1 DEF Started
      <4>2. mid \in Seq(MessagesToWindow) /\ s \in MessagesToWindow
        BY <1>8, <3>2
      <4>3. mid \o <<s>> = Append(mid, s)
        BY ONLY <4>2
      <4> QED
        BY <1>7, <4>1, <4>3
    <3>4. IsTold(more, known, now, miss)
      BY <1>8, <1>10, <3>2, <3>3, ToldAppend
    <3>5. WaitsFor(more, waiting, Behind(rest))
      <4>1. TellsQueue(s) /\ QueueOf(s) = Tail(rest)
        BY <3>2 DEF TellsQueue, QueueOf
      <4>2. Behind(rest) = Tail(rest)
        BY <2>2 DEF Behind
      <4> QED
        BY <1>8, <3>2, <3>3, <4>1, <4>2, WaitsAppend
    <3>6. \A i \in DOMAIN more : (i \in DOMAIN mid /\ more[i] = mid[i]) \/ more[i] = s
      BY <1>8, <3>2, <3>3
    <3>7. more \in Seq(MessagesToWindow)
      BY <1>8, <3>2, <3>3
    <3> QED
      BY <1>10, <3>2, <3>4, <3>5, <3>6, <3>7
  <2> QED
    BY <2>1, <2>2
<1>12. PICK c : c = IF was.phase # "idle" THEN [was EXCEPT !.again = TRUE]
                    ELSE [Idle EXCEPT !.phase = IF now = NoConflicts THEN "dir" ELSE "status", !.after = then]
  OBVIOUS
<1>13. c \in Checks /\ CheckOk(c, now, then)
  <2>1. CASE was.phase # "idle"
    <3>1. c = [phase |-> was.phase, again |-> TRUE, after |-> was.after, output |-> was.output]
      BY <1>2, <1>12, <2>1 DEF Checks
    <3>2. c \in Checks /\ c.phase = was.phase /\ c.again
      BY <1>2, <3>1 DEF Checks
    <3> QED
      BY <1>2, <2>1, <3>2 DEF CheckOk
  <2>2. CASE was.phase = "idle"
    <3>1. c = [phase |-> IF now = NoConflicts THEN "dir" ELSE "status", again |-> FALSE, after |-> then,
               output |-> NotInConflict]
      BY <1>12, <2>2 DEF Idle
    <3>2. c \in Checks /\ c.phase = (IF now = NoConflicts THEN "dir" ELSE "status") /\ c.after = then
      BY <1>8, <3>1 DEF Checks, Rebases
    <3> QED
      BY <3>2 DEF CheckOk
  <2> QED
    BY <2>1, <2>2
<1>14. /\ rebase' \in Rebases /\ running' = rest /\ ended' = then /\ channel' = more /\ check' = c /\ fresh' = FALSE
       /\ UNCHANGED <<conflicts, fetched, list, queued, missed>>
  <2>1. ended' = then
    BY <1>6, <1>7
  <2> QED
    BY <1>1, <1>6, <1>7, <1>12, <2>1 DEF EndOperation, window
<1>15. ConflictTypes'
  BY <1>8, <1>11, <1>13, <1>14 DEF ConflictInv, ConflictTypes
<1>16. CheckOk(check, conflicts, ended)' /\ ~fresh'
  BY <1>1, <1>13, <1>14 DEF CheckOk
<1>17. IsTold(channel, fetched, conflicts, missed)'
  BY <1>1, <1>11, <1>14 DEF IsTold
<1>18. WaitsFor(channel, queued, Behind(running))'
  BY <1>1, <1>11, <1>14 DEF WaitsFor, Behind
<1>19. NumbersOk(running, ended, channel, list)'
  <2>1. \A i \in DOMAIN ops : ops[i].ended <= n /\ ops[i].ended \in Nat
    <3>1. \A i \in DOMAIN ops : ops[i] \in Entries
      BY <1>2
    <3>2. \A o \in Entries : o.ended \in Nat
      BY DEF Entries
    <3> QED
      BY <1>2, <3>1, <3>2 DEF NumbersOk
  <2>2. \A i \in DOMAIN ops : ops[i].ended <= then
    BY <1>2, <1>8, <2>1
  <2> QED
    BY <1>1, <1>9, <1>11, <1>14, <2>2 DEF NumbersOk
<1>20. AllMarked(list, fetched)'
  BY <1>14 DEF ConflictInv, AllMarked, HasApplier
<1> QED
  BY <1>15, <1>16, <1>17, <1>18, <1>19, <1>20 DEF ConflictInv

LEMMA EntriesAre ==
  ASSUME NEW o \in Entries
  PROVE  /\ o.op \in Operations /\ o.status \in {"running", "ok", "failed"} /\ o.ended \in Nat
         /\ [o EXCEPT !.done = TRUE] \in Entries /\ [o EXCEPT !.done = TRUE].op = o.op
         /\ [o EXCEPT !.done = TRUE].status = o.status /\ [o EXCEPT !.done = TRUE].ended = o.ended
         /\ [o EXCEPT !.done = TRUE].done
BY DEF Entries

\* useMarkOperationsCompleted marks what has nothing left to show.
LEMMA MarkedFacts ==
  ASSUME NEW ops \in Seq(Entries), NEW known \in Known
  PROVE  /\ Marked(ops, known) \in Seq(Entries) /\ AllMarked(Marked(ops, known), known)
         /\ DOMAIN Marked(ops, known) = DOMAIN ops
         /\ \A i \in DOMAIN ops : Marked(ops, known)[i].ended = ops[i].ended
<1> DEFINE ends(o) ==
             /\ o.status # "running"
             /\ o.status = "failed" \/ ~HasApplier(o.op, known) \/ known.after >= o.ended
           entry(o) == IF ends(o) THEN [o EXCEPT !.done = TRUE] ELSE o
           marked == Marked(ops, known)
<1>1. marked = [i \in DOMAIN ops |-> entry(ops[i])]
  BY DEF Marked
<1>2. ASSUME NEW o \in Entries
      PROVE  /\ entry(o) \in Entries /\ entry(o).ended = o.ended /\ entry(o).status = o.status /\ entry(o).op = o.op
             /\ ends(o) => entry(o).done
  <2> HIDE DEF ends
  <2>3. CASE ends(o)
    BY <2>3, EntriesAre
  <2>4. CASE ~ends(o)
    BY <2>4
  <2> QED
    BY <2>3, <2>4
<1> HIDE DEF entry, marked
<1>3. DOMAIN ops = 1..Len(ops) /\ Len(ops) \in Nat /\ \A i \in DOMAIN ops : ops[i] \in Entries
  OBVIOUS
<1>4. DOMAIN marked = DOMAIN ops /\ \A i \in DOMAIN ops : marked[i] = entry(ops[i])
  BY <1>1
<1>5. marked \in Seq(Entries)
  <2>1. marked \in [1..Len(ops) -> Entries]
    BY <1>1, <1>2, <1>3
  <2> QED
    BY <1>3, <2>1
<1>6. AllMarked(marked, known)
  BY <1>2, <1>3, <1>4 DEF AllMarked
<1> QED
  BY <1>2, <1>3, <1>4, <1>5, <1>6 DEF marked

\* The window changes, and with it the queue or what is on its way.
LEMMA WindowKeeps ==
  ASSUME ConflictInv, NEW known \in Known, NEW ops \in Seq(Entries), NEW waiting \in Seq(Operations),
         Update(known, ops, waiting), UNCHANGED <<rebase, ended, conflicts, check, fresh>>,
         running' \in Seq(Operations), channel' \in Seq(MessagesToWindow), missed' \in BOOLEAN,
         IsTold(channel', known, conflicts, missed'), WaitsFor(channel', waiting, Behind(running)'),
         NumbersOk(running', ended, channel', ops)
  PROVE  ConflictInv'
<1>1. PICK marked : marked = Marked(ops, known)
  OBVIOUS
<1>2. /\ marked \in Seq(Entries) /\ AllMarked(marked, known) /\ DOMAIN marked = DOMAIN ops
      /\ \A i \in DOMAIN ops : marked[i].ended = ops[i].ended
  BY <1>1, MarkedFacts
<1>3. fetched' = known /\ list' = marked /\ queued' = waiting
  BY <1>1 DEF Update
<1>4. ConflictTypes'
  BY <1>2, <1>3 DEF ConflictInv, ConflictTypes
<1>5. CheckOk(check, conflicts, ended)' /\ (fresh => FreshOk(check, conflicts, rebase))'
  BY DEF ConflictInv, CheckOk, FreshOk, Reflects
<1>6. IsTold(channel, fetched, conflicts, missed)'
  BY <1>3 DEF IsTold
<1>7. WaitsFor(channel, queued, Behind(running))'
  BY <1>3 DEF WaitsFor, Behind
<1>8. NumbersOk(running, ended, channel, list)'
  BY <1>2, <1>3 DEF NumbersOk
<1>9. AllMarked(list, fetched)'
  BY <1>2, <1>3 DEF AllMarked, HasApplier
<1> QED
  BY <1>4, <1>5, <1>6, <1>7, <1>8, <1>9 DEF ConflictInv

LEMMA RunOperationKeeps ==
  ASSUME ConflictInv, NEW tool, NEW file, RunOperation(tool, file),
         \A id \in Nat : [id |-> id, tool |-> tool, file |-> file] \in Operations
  PROVE  ConflictInv'
<1>1. PICK queue, n, old, known, ops, waiting, now, miss :
        /\ queue = running /\ n = ended /\ old = channel /\ known = fetched /\ ops = list
        /\ waiting = queued /\ now = conflicts /\ miss = missed
  OBVIOUS
<1>2. /\ queue \in Seq(Operations) /\ n \in Nat /\ old \in Seq(MessagesToWindow) /\ known \in Known
      /\ ops \in Seq(Entries) /\ waiting \in Seq(Operations) /\ miss \in BOOLEAN
      /\ IsTold(old, known, now, miss) /\ WaitsFor(old, waiting, Behind(queue)) /\ NumbersOk(queue, n, old, ops)
  BY <1>1 DEF ConflictInv, ConflictTypes
<1>3. PICK op : op = [id |-> n + Len(queue) + 1, tool |-> tool, file |-> file]
  OBVIOUS
<1>4. op \in Operations /\ op.id = n + Len(queue) + 1
  <2>1. n + Len(queue) + 1 \in Nat
    BY <1>2
  <2> QED
    BY <1>3, <2>1
<1>5. PICK entry : entry = [op |-> op, status |-> "running", ended |-> 0, done |-> FALSE]
  OBVIOUS
<1>6. entry \in Entries /\ entry.ended = 0
  BY <1>4, <1>5 DEF Entries
<1>7. PICK m : m = IF queue = <<>> THEN [kind |-> "spawn", op |-> op, queue |-> <<>>]
                   ELSE [kind |-> "queue", queue |-> Append(Tail(queue), op)]
  OBVIOUS
<1>8. PICK then, more : then = Append(queue, op) /\ more = Append(old, m)
  OBVIOUS
<1>9. then \in Seq(Operations) /\ Behind(then) = Tail(then)
      /\ Tail(then) = IF queue = <<>> THEN <<>> ELSE Append(Tail(queue), op)
  <2>1. then \in Seq(Operations) /\ then # <<>>
    BY <1>2, <1>4, <1>8, AppendProperties
  <2>2. Tail(then) = IF queue = <<>> THEN <<>> ELSE Append(Tail(queue), op)
    BY <1>2, <1>4, <1>8, HeadTailAppend
  <2> QED
    BY <2>1, <2>2 DEF Behind
<1>10. /\ m \in MessagesToWindow /\ m.kind \in {"spawn", "queue"} /\ m.queue = Behind(then)
  <2>1. CASE queue = <<>>
    <3>1. m = [kind |-> "spawn", op |-> op, queue |-> <<>>] /\ Behind(then) = <<>>
      BY <1>7, <1>9, <2>1
    <3>2. <<>> \in Seq(Operations)
      OBVIOUS
    <3> QED
      BY <1>4, <3>1, <3>2 DEF MessagesToWindow
  <2>2. CASE queue # <<>>
    <3>1. m = [kind |-> "queue", queue |-> Append(Tail(queue), op)] /\ Behind(then) = Append(Tail(queue), op)
      BY <1>7, <1>9, <2>2
    <3>2. Append(Tail(queue), op) \in Seq(Operations)
      BY <1>2, <1>4, <2>2
    <3> QED
      BY <3>1, <3>2 DEF MessagesToWindow
  <2> QED
    BY <2>1, <2>2
<1>11. running' = then /\ channel' = more /\ UNCHANGED <<rebase, ended, conflicts, check, fresh, missed>>
  <2>1. /\ running' = Append(queue, op)
        /\ channel' = old \o (IF queue = <<>> THEN Started(<<op>>)
                              ELSE <<[kind |-> "queue", queue |-> Append(Tail(queue), op)]>>)
        /\ UNCHANGED <<rebase, ended, conflicts, check, fresh, missed>>
    BY <1>1, <1>3 DEF RunOperation
  <2>2. Started(<<op>>) = <<[kind |-> "spawn", op |-> op, queue |-> <<>>]>>
    <3>1. <<op>> # <<>> /\ Head(<<op>>) = op /\ Tail(<<op>>) = <<>>
      OBVIOUS
    <3> QED
      BY <3>1 DEF Started
  <2>3. channel' = old \o <<m>>
    BY <1>7, <2>1, <2>2
  <2>4. old \in Seq(MessagesToWindow) /\ m \in MessagesToWindow
    BY <1>2, <1>10
  <2>5. old \o <<m>> = Append(old, m)
    BY ONLY <2>4
  <2> QED
    BY <1>8, <2>1, <2>3, <2>5
<1>12. \/ Update(known, ops, Append(waiting, op))
       \/ Update(known, Append(ops, entry), waiting)
  BY <1>1, <1>3, <1>5 DEF RunOperation, StartNew
<1>13. IsTold(more, known, now, miss)
  BY <1>2, <1>8, <1>10, ToldAppend
<1>14. \A w : WaitsFor(more, w, Behind(then))
  <2> TAKE w
  <2>1. TellsQueue(m) /\ QueueOf(m) = Behind(then)
    BY <1>10 DEF TellsQueue, QueueOf
  <2> QED
    BY <1>2, <1>8, <1>10, <2>1, WaitsAppend
<1>15. /\ more \in Seq(MessagesToWindow)
       /\ \A i \in DOMAIN more : more[i].kind = "exit" => i \in DOMAIN old /\ more[i] = old[i]
  BY <1>2, <1>8, <1>10
<1>16. \A k \in DOMAIN then : then[k].id = n + k
  <2>1. \A k \in DOMAIN queue : queue[k].id = n + k
    BY <1>2 DEF NumbersOk
  <2>2. \A k \in DOMAIN then : (k \in DOMAIN queue /\ then[k] = queue[k]) \/ (k = Len(queue) + 1 /\ then[k] = op)
    BY <1>2, <1>4, <1>8
  <2> QED
    BY <1>2, <1>4, <2>1, <2>2
<1>17. \A i \in DOMAIN more : more[i].kind = "exit" => more[i].op.id <= n
  BY <1>2, <1>15 DEF NumbersOk
<1>18. CASE Update(known, ops, Append(waiting, op))
  <2>1. PICK waits : waits = Append(waiting, op)
    OBVIOUS
  <2>2. waits \in Seq(Operations) /\ Update(known, ops, waits)
    BY <1>2, <1>4, <1>18, <2>1
  <2>3. NumbersOk(then, n, more, ops)
    BY <1>2, <1>16, <1>17 DEF NumbersOk
  <2>4. /\ IsTold(channel', known, conflicts, missed') /\ WaitsFor(channel', waits, Behind(running)')
        /\ NumbersOk(running', ended, channel', ops)
    BY <1>1, <1>11, <1>13, <1>14, <2>3 DEF Behind
  <2>5. running' \in Seq(Operations) /\ channel' \in Seq(MessagesToWindow) /\ missed' \in BOOLEAN
    BY <1>1, <1>2, <1>9, <1>11, <1>15
  <2> QED
    BY <1>2, <1>11, <2>2, <2>4, <2>5, WindowKeeps
<1>19. CASE Update(known, Append(ops, entry), waiting)
  <2>1. PICK runs : runs = Append(ops, entry)
    OBVIOUS
  <2>2. runs \in Seq(Entries) /\ Update(known, runs, waiting)
    BY <1>2, <1>6, <1>19, <2>1
  <2>3. \A i \in DOMAIN runs : runs[i].ended <= n
    <3>1. \A i \in DOMAIN runs : (i \in DOMAIN ops /\ runs[i] = ops[i]) \/ runs[i] = entry
      BY <1>2, <1>6, <2>1
    <3>2. \A i \in DOMAIN ops : ops[i].ended <= n
      BY <1>2 DEF NumbersOk
    <3> QED
      BY <1>2, <1>6, <3>1, <3>2
  <2>4. NumbersOk(then, n, more, runs)
    BY <1>16, <1>17, <2>3 DEF NumbersOk
  <2>5. /\ IsTold(channel', known, conflicts, missed') /\ WaitsFor(channel', waiting, Behind(running)')
        /\ NumbersOk(running', ended, channel', runs)
    BY <1>1, <1>11, <1>13, <1>14, <2>4 DEF Behind
  <2>6. running' \in Seq(Operations) /\ channel' \in Seq(MessagesToWindow) /\ missed' \in BOOLEAN
    BY <1>1, <1>2, <1>9, <1>11, <1>15
  <2> QED
    BY <1>2, <1>11, <2>2, <2>5, <2>6, WindowKeeps
<1> QED
  BY <1>12, <1>18, <1>19

\* The exit of the operation that the window takes for the last.
LEMMA ExitedFacts ==
  ASSUME NEW ops \in Seq(Entries), NEW result \in {"ok", "failed"}, NEW n \in Nat, NEW id \in Nat, id <= n,
         \A i \in DOMAIN ops : ops[i].ended <= n
  PROVE  LET then == [ops EXCEPT ![Len(ops)].status = result, ![Len(ops)].ended = id]
         IN  then \in Seq(Entries) /\ \A i \in DOMAIN then : then[i].ended <= n
<1> DEFINE then == [ops EXCEPT ![Len(ops)].status = result, ![Len(ops)].ended = id]
<1>1. DOMAIN ops = 1..Len(ops) /\ Len(ops) \in Nat /\ \A i \in DOMAIN ops : ops[i] \in Entries
  OBVIOUS
<1>2. DOMAIN then = DOMAIN ops
  OBVIOUS
<1>3. ASSUME NEW i \in DOMAIN ops
      PROVE  then[i] \in Entries /\ then[i].ended <= n
  <2>1. CASE i # Len(ops)
    <3>1. then[i] = ops[i]
      BY <2>1
    <3> QED
      BY <1>1, <3>1
  <2>2. CASE i = Len(ops)
    <3>1. PICK o : o = ops[Len(ops)]
      OBVIOUS
    <3>2. o \in Entries
      BY <1>1, <2>2, <3>1
    <3>3. then[i] = [o EXCEPT !.status = result, !.ended = id]
      BY <2>2, <3>1
    <3>4. [o EXCEPT !.status = result, !.ended = id] \in Entries
          /\ [o EXCEPT !.status = result, !.ended = id].ended = id
      BY <3>2 DEF Entries
    <3> QED
      BY <3>3, <3>4
  <2> QED
    BY <2>1, <2>2
<1>4. then = [i \in 1..Len(ops) |-> then[i]]
  BY <1>1, <1>2
<1> HIDE DEF then
<1>5. then \in Seq(Entries)
  <2>1. then \in [1..Len(ops) -> Entries]
    BY <1>1, <1>3, <1>4
  <2> QED
    BY <1>1, <2>1
<1>6. \A i \in DOMAIN then : then[i].ended <= n
  BY <1>2, <1>3
<1> QED
  BY <1>5, <1>6 DEF then

LEMMA ReceiveKeeps ==
  ASSUME ConflictInv, Receive
  PROVE  ConflictInv'
<1>1. PICK queue, n, old, known, ops, waiting, now, miss :
        /\ queue = running /\ n = ended /\ old = channel /\ known = fetched /\ ops = list
        /\ waiting = queued /\ now = conflicts /\ miss = missed
  OBVIOUS
<1>2. /\ queue \in Seq(Operations) /\ n \in Nat /\ old \in Seq(MessagesToWindow) /\ known \in Known
      /\ ops \in Seq(Entries) /\ waiting \in Seq(Operations) /\ miss \in BOOLEAN
      /\ IsTold(old, known, now, miss) /\ WaitsFor(old, waiting, Behind(queue)) /\ NumbersOk(queue, n, old, ops)
  BY <1>1 DEF ConflictInv, ConflictTypes
<1>3. PICK m, more : m = Head(old) /\ more = Tail(old)
  OBVIOUS
<1>4. /\ old # <<>> /\ channel' = more /\ UNCHANGED <<rebase, running, ended, conflicts, check, fresh>>
      /\ ReceiveConflicts(m) \/ ReceiveSpawn(m) \/ ReceiveQueue(m) \/ ReceiveExit(m)
  BY <1>1, <1>3 DEF Receive, server
<1>5. /\ m \in MessagesToWindow /\ more \in Seq(MessagesToWindow) /\ 1 \in DOMAIN old /\ m = old[1]
      /\ \A i \in DOMAIN more : i + 1 \in DOMAIN old /\ more[i] = old[i + 1]
  BY <1>2, <1>3, <1>4
<1>6. /\ m.kind = "conflicts" => IsTold(more, m.value, now, FALSE)
      /\ m.kind # "conflicts" => IsTold(more, known, now, miss)
  BY <1>2, <1>3, <1>4, ToldTail
<1>7. /\ TellsQueue(m) => WaitsFor(more, QueueOf(m), Behind(queue))
      /\ ~TellsQueue(m) => WaitsFor(more, waiting, Behind(queue))
  BY <1>2, <1>3, <1>4, WaitsTail
<1>8. /\ \A k \in DOMAIN queue : queue[k].id = n + k
      /\ \A i \in DOMAIN more : more[i].kind = "exit" => more[i].op.id <= n
      /\ \A i \in DOMAIN ops : ops[i].ended <= n
      /\ m.kind = "exit" => m.op.id <= n
  BY <1>2, <1>5 DEF NumbersOk
<1>9. ASSUME NEW told \in Known, NEW then \in Seq(Entries), NEW waits \in Seq(Operations), NEW misses \in BOOLEAN,
             Update(told, then, waits), missed' = misses,
             IsTold(more, told, now, misses), WaitsFor(more, waits, Behind(queue)),
             \A i \in DOMAIN then : then[i].ended <= n
      PROVE  ConflictInv'
  <2>1. NumbersOk(queue, n, more, then)
    BY <1>8, <1>9 DEF NumbersOk
  <2>2. /\ IsTold(channel', told, conflicts, missed') /\ WaitsFor(channel', waits, Behind(running)')
        /\ NumbersOk(running', ended, channel', then)
    BY <1>1, <1>4, <1>9, <2>1 DEF Behind
  <2>3. running' \in Seq(Operations) /\ channel' \in Seq(MessagesToWindow) /\ missed' \in BOOLEAN
    BY <1>1, <1>2, <1>4, <1>5, <1>9
  <2> QED
    BY <1>4, <1>9, <2>2, <2>3, WindowKeeps
<1>10. CASE ReceiveConflicts(m)
  <2>1. m.kind = "conflicts" /\ Update(m.value, ops, waiting) /\ missed' = FALSE
    BY <1>1, <1>10 DEF ReceiveConflicts
  <2>2. m.value \in Known /\ ~TellsQueue(m)
    BY <1>5, <2>1, MessagesAre DEF TellsQueue
  <2> QED
    BY <1>2, <1>6, <1>7, <1>8, <1>9, <2>1, <2>2
<1>11. CASE ReceiveSpawn(m)
  <2>1. PICK then : then = IF ops # <<>> /\ ops[Len(ops)].op = m.op THEN ops
                           ELSE Append(ops, [op |-> m.op, status |-> "running", ended |-> 0, done |-> FALSE])
    OBVIOUS
  <2>2. m.kind = "spawn" /\ Update(known, then, m.queue) /\ missed' = miss
    BY <1>1, <1>11, <2>1 DEF ReceiveSpawn, LastRun, StartNew
  <2>3. m.op \in Operations /\ m.queue \in Seq(Operations) /\ TellsQueue(m) /\ QueueOf(m) = m.queue
    BY <1>5, <2>2, MessagesAre DEF TellsQueue, QueueOf
  <2>4. PICK entry : entry = [op |-> m.op, status |-> "running", ended |-> 0, done |-> FALSE]
    OBVIOUS
  <2>5. entry \in Entries /\ entry.ended = 0
    BY <2>3, <2>4 DEF Entries
  <2>6. then = ops \/ then = Append(ops, entry)
    BY <2>1, <2>4
  <2>7. then \in Seq(Entries) /\ \A i \in DOMAIN then : (i \in DOMAIN ops /\ then[i] = ops[i]) \/ then[i] = entry
    <3>1. CASE then = ops
      BY <1>2, <3>1
    <3>2. CASE then = Append(ops, entry)
      BY <1>2, <2>5, <3>2
    <3> QED
      BY <2>6, <3>1, <3>2
  <2>8. \A i \in DOMAIN then : then[i].ended <= n
    BY <1>2, <1>8, <2>5, <2>7
  <2> QED
    BY <1>2, <1>6, <1>7, <1>9, <2>2, <2>3, <2>7, <2>8
<1>12. CASE ReceiveQueue(m)
  <2>1. m.kind = "queue" /\ Update(known, ops, m.queue) /\ missed' = miss
    BY <1>1, <1>12 DEF ReceiveQueue
  <2>2. m.queue \in Seq(Operations) /\ TellsQueue(m) /\ QueueOf(m) = m.queue
    BY <1>5, <2>1, MessagesAre DEF TellsQueue, QueueOf
  <2> QED
    BY <1>2, <1>6, <1>7, <1>8, <1>9, <2>1, <2>2
<1>13. CASE ReceiveExit(m)
  <2>1. PICK result, id : result = (IF m.ok THEN "ok" ELSE "failed") /\ id = m.op.id
    OBVIOUS
  <2>2. PICK then, waits :
          /\ then = [ops EXCEPT ![Len(ops)].status = result, ![Len(ops)].ended = id]
          /\ waits = IF m.ok THEN waiting ELSE <<>>
    OBVIOUS
  <2>3. m.kind = "exit" /\ Update(known, then, waits) /\ missed' = miss
    BY <1>1, <1>13, <2>1, <2>2 DEF ReceiveExit
  <2>4. m.op \in Operations /\ m.ok \in BOOLEAN
    BY <1>5, <2>3, MessagesAre
  <2>5. id \in Nat /\ id <= n /\ result \in {"ok", "failed"}
    BY <1>8, <2>1, <2>3, <2>4, OperationsAre
  <2>6. then \in Seq(Entries) /\ \A i \in DOMAIN then : then[i].ended <= n
    BY <1>2, <1>8, <2>2, <2>5, ExitedFacts
  <2>7. waits \in Seq(Operations) /\ WaitsFor(more, waits, Behind(queue))
    <3>1. CASE m.ok
      BY <1>2, <1>7, <2>2, <2>3, <3>1 DEF TellsQueue
    <3>2. CASE ~m.ok
      <4>1. TellsQueue(m) /\ QueueOf(m) = <<>> /\ waits = <<>>
        BY <2>2, <2>3, <3>2 DEF TellsQueue, QueueOf
      <4> QED
        BY <1>7, <4>1
    <3> QED
      BY <3>1, <3>2
  <2> QED
    BY <1>2, <1>6, <1>9, <2>3, <2>6, <2>7
<1> QED
  BY <1>4, <1>10, <1>11, <1>12, <1>13

LEMMA ReconnectKeeps ==
  ASSUME ConflictInv, Reconnect
  PROVE  ConflictInv'
<1>1. PICK known, now, miss : known = fetched /\ now = conflicts /\ miss = missed
  OBVIOUS
<1>2. /\ channel = <<>> /\ running = <<>> /\ now \in Known /\ miss \in BOOLEAN
      /\ IsTold(<<>>, known, now, miss) /\ WaitsFor(<<>>, queued, Behind(running))
      /\ UNCHANGED <<rebase, running, ended, conflicts, check, fetched, list, queued, fresh>>
  BY <1>1 DEF Reconnect, ConflictInv, ConflictTypes, server, window
<1>3. known = now \/ (miss /\ now = NoConflicts)
  BY <1>2 DEF IsTold
<1>4. queued = Behind(running)
  BY <1>2 DEF WaitsFor
<1>5. PICK m : m = Emitted(now)
  OBVIOUS
<1>6. m \in MessagesToWindow /\ m.kind = "conflicts" /\ m.value = now
  BY <1>2, <1>5 DEF Emitted, MessagesToWindow
<1>7. PICK more : more = channel'
  OBVIOUS
<1>8. /\ more \in Seq(MessagesToWindow) /\ missed' \in BOOLEAN /\ IsTold(more, known, now, missed')
      /\ \A i \in DOMAIN more : more[i].kind = "conflicts"
  <2>1. CASE conflicts = NoConflicts
    <3>1. more = <<>> /\ missed' = (known # NoConflicts) /\ now = NoConflicts
      BY <1>1, <1>2, <1>7, <2>1 DEF Reconnect
    <3>2. more \in Seq(MessagesToWindow) /\ DOMAIN more = {}
      BY <3>1
    <3>3. missed' \in BOOLEAN /\ (known = NoConflicts \/ missed')
      BY <3>1
    <3>4. IsTold(more, known, now, missed')
      BY <3>1, <3>2, <3>3 DEF IsTold
    <3> QED
      BY <3>2, <3>3, <3>4
  <2>2. CASE conflicts # NoConflicts
    <3>1. more = <<m>> /\ missed' = miss
      BY <1>1, <1>5, <1>7, <2>2 DEF Reconnect
    <3>2. more \in Seq(MessagesToWindow) /\ DOMAIN more = {1} /\ more[1] = m
      BY <1>6, <3>1
    <3> QED
      BY <1>2, <1>6, <3>1, <3>2 DEF IsTold
  <2> QED
    BY <2>1, <2>2
<1>9. \A i \in DOMAIN more : ~TellsQueue(more[i]) /\ more[i].kind # "exit"
  BY <1>8 DEF TellsQueue
<1>10. ConflictTypes'
  BY <1>2, <1>7, <1>8 DEF ConflictInv, ConflictTypes
<1>11. CheckOk(check, conflicts, ended)' /\ (fresh => FreshOk(check, conflicts, rebase))'
  BY <1>2 DEF ConflictInv, CheckOk, FreshOk, Reflects
<1>12. IsTold(channel, fetched, conflicts, missed)'
  BY <1>1, <1>2, <1>7, <1>8 DEF IsTold
<1>13. WaitsFor(channel, queued, Behind(running))'
  BY <1>2, <1>4, <1>7, <1>9 DEF WaitsFor, Behind
<1>14. NumbersOk(running, ended, channel, list)'
  BY <1>2, <1>7, <1>9 DEF ConflictInv, NumbersOk
<1>15. AllMarked(list, fetched)'
  BY <1>2 DEF ConflictInv, AllMarked, HasApplier
<1> QED
  BY <1>10, <1>11, <1>12, <1>13, <1>14, <1>15 DEF ConflictInv

LEMMA ConflictInvAtFirst ==
  ConflictsInit => ConflictInv
<1> SUFFICES ASSUME ConflictsInit
             PROVE  ConflictInv
  OBVIOUS
<1>1. /\ rebase \in Rebases /\ running = <<>> /\ ended = 0 /\ conflicts = NoConflicts /\ channel = <<>>
      /\ fetched = NoConflicts /\ list = <<>> /\ queued = <<>> /\ fresh = FALSE /\ missed = FALSE
      /\ check = [Idle EXCEPT !.phase = "dir"]
  BY DEF ConflictsInit, Rebases
<1>2. check = [phase |-> "dir", again |-> FALSE, after |-> 0, output |-> NotInConflict]
  BY <1>1 DEF Idle
<1>3. check \in Checks /\ check.phase = "dir"
  BY <1>2 DEF Checks, Rebases
<1>4. ConflictTypes
  <2>1. running \in Seq(Operations) /\ queued \in Seq(Operations)
    BY <1>1
  <2>2. channel \in Seq(MessagesToWindow) /\ list \in Seq(Entries)
    BY <1>1
  <2>3. conflicts \in Known /\ fetched \in Known
    BY <1>1, ConflictsAreKnown
  <2>4. ended \in Nat /\ fresh \in BOOLEAN /\ missed \in BOOLEAN
    BY <1>1
  <2> QED
    BY <1>1, <1>3, <2>1, <2>2, <2>3, <2>4 DEF ConflictTypes
<1>5. CheckOk(check, conflicts, ended)
  BY <1>1, <1>3 DEF CheckOk
<1>6. IsTold(channel, fetched, conflicts, missed) /\ WaitsFor(channel, queued, Behind(running))
  BY <1>1 DEF IsTold, WaitsFor, Behind
<1>7. NumbersOk(running, ended, channel, list) /\ AllMarked(list, fetched)
  BY <1>1 DEF NumbersOk, AllMarked
<1> QED
  BY <1>1, <1>4, <1>5, <1>6, <1>7 DEF ConflictInv

LEMMA ConflictInvKept ==
  ConflictInv /\ [ConflictsNext]_conflictVars => ConflictInv'
<1> SUFFICES ASSUME ConflictInv, [ConflictsNext]_conflictVars
             PROVE  ConflictInv'
  OBVIOUS
<1>1. ASSUME NEW f \in Files, FileAction(f)
      PROVE  ConflictInv'
  <2>1. PICK tool \in {"mark", "unmark", "take"} : RunOperation(tool, f)
    BY <1>1 DEF FileAction
  <2>2. \A id \in Nat : [id |-> id, tool |-> tool, file |-> f] \in Operations
    BY DEF Operations
  <2> QED
    BY <2>1, <2>2, RunOperationKeeps
<1>2. ASSUME NEW tool \in {"continue", "abort"}, RunOperation(tool, "")
      PROVE  ConflictInv'
  <2>1. \A id \in Nat : [id |-> id, tool |-> tool, file |-> ""] \in Operations
    BY DEF Operations
  <2> QED
    BY <1>2, <2>1, RunOperationKeeps
<1>3. CASE Continue \/ Abort
  BY <1>2, <1>3 DEF Continue, Abort
<1>4. CASE UNCHANGED conflictVars
  <2>1. UNCHANGED <<rebase, running, ended, conflicts, check, channel, fetched, list, queued, fresh, missed>>
    BY <1>4 DEF conflictVars, server, window
  <2>2. /\ rebase' \in Rebases /\ check' \in Checks /\ CheckOk(check', conflicts, ended)
        /\ fresh' \in BOOLEAN /\ (fresh' => FreshOk(check', conflicts, rebase'))
    BY <2>1 DEF ConflictInv, ConflictTypes
  <2> QED
    BY <2>1, <2>2, SilentKeeps
<1> QED
  BY <1>1, <1>3, <1>4, PollKeeps, LookForDirectoryKeeps, RunStatusKeeps, ParseStatusKeeps, FailStatusKeeps,
     EndOperationKeeps, InTerminalKeeps, ReceiveKeeps, ReconnectKeeps DEF ConflictsNext

\* Repository.checkForMergeConflicts and the window: a check knows what has ended
\* before it began, the last of what is on its way to the window is what the
\* server has found and the queue it has, operations are numbered as they end,
\* and those with nothing left to show are marked.
THEOREM ConflictInvHolds ==
  ConflictsSpec => []ConflictInv
<1> QED
  BY ConflictInvAtFirst, ConflictInvKept, PTL DEF ConflictsSpec

\* When nothing is under way, the window shows what the repository is like.
LEMMA ConflictsShown ==
  ConflictInv => ShownAsItIs
<1> SUFFICES ASSUME ConflictInv, Quiet, \A i \in DOMAIN list : list[i].status # "running"
             PROVE  /\ rebase = NotInConflict => Shown = NoConflicts \/ missed
                    /\ rebase # NotInConflict =>
                         /\ Shown.state = "loaded"
                         /\ \A f \in DOMAIN Shown.files : Shown.files[f] = "RESOLVED" <=> f \notin rebase
  BY DEF ShownAsItIs
<1>1. fresh /\ check = Idle /\ channel = <<>> /\ running = <<>>
  BY DEF Quiet
<1>2. check.phase = "idle"
  BY <1>1 DEF Idle
<1>3. Reflects(conflicts, rebase)
  BY <1>1, <1>2 DEF ConflictInv, FreshOk
<1>4. fetched = conflicts \/ (missed /\ conflicts = NoConflicts)
  BY <1>1 DEF ConflictInv, IsTold
<1>5. queued = <<>>
  BY <1>1 DEF ConflictInv, WaitsFor, Behind
<1>6. CASE rebase = NotInConflict
  <2>1. fetched = NoConflicts \/ missed
    BY <1>3, <1>4, <1>6 DEF Reflects
  <2>2. fetched = NoConflicts => Shown = NoConflicts
    BY ConflictsAreKnown DEF Shown
  <2> QED
    BY <1>6, <2>1, <2>2
<1>7. CASE rebase # NotInConflict
  <2>1. conflicts.state = "loaded"
        /\ \A f \in DOMAIN conflicts.files : conflicts.files[f] = "RESOLVED" <=> f \notin rebase
    BY <1>3, <1>7 DEF Reflects
  <2>2. fetched = conflicts
    BY <1>4, <2>1, ConflictsAreKnown
  <2>3. fetched.after = ended
    BY <1>2, <2>1, <2>2 DEF ConflictInv, CheckOk
  <2>4. \A i \in DOMAIN list : list[i].done
    <3> SUFFICES ASSUME NEW i \in DOMAIN list
                 PROVE  list[i].done
      OBVIOUS
    <3>1. list[i] \in Entries /\ ended \in Nat
      BY DEF ConflictInv, ConflictTypes
    <3>2. list[i].ended \in Nat /\ list[i].ended <= ended
      BY <3>1, EntriesAre DEF ConflictInv, NumbersOk
    <3>3. fetched.after >= list[i].ended
      BY <2>3, <3>1, <3>2
    <3> QED
      BY <3>3 DEF ConflictInv, AllMarked
  <2>5. Pending(list, fetched) = {}
    BY <2>4 DEF Pending, ToSet
  <2>6. {op \in ToSet(queued) : HasApplier(op, fetched)} = {}
    BY <1>5 DEF ToSet
  <2>7. PICK known : known = fetched
    OBVIOUS
  <2>8. known \in Known /\ known.state = "loaded"
    BY <2>1, <2>2, <2>7 DEF ConflictInv, ConflictTypes
  <2>9. Shown = [known EXCEPT !.files = [f \in DOMAIN @ |-> @[f]]]
    BY <2>5, <2>6, <2>7, <2>8 DEF Shown
  <2>10. Shown.state = "loaded" /\ Shown.files = [f \in DOMAIN known.files |-> known.files[f]]
    BY <2>8, <2>9 DEF Known
  <2> QED
    BY <1>7, <2>1, <2>2, <2>7, <2>10
<1> QED
  BY <1>6, <1>7

\* ResolveOperation and the list of conflicts: however checks, operations and a
\* terminal take turns, once nothing is under way the window shows a conflict if
\* there is one, and a file as resolved if it is.
THEOREM ConflictsShownAsTheyAre ==
  ConflictsSpec => []ShownAsItIs
<1> QED
  BY ConflictInvHolds, ConflictsShown, PTL
=============================================================================
