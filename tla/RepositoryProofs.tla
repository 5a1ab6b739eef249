-------------------------- MODULE RepositoryProofs --------------------------
(***************************************************************************)
(* Theorems about ServerToClientAPI and RepositoryCache: reference counts  *)
(* are exact and a root has one Repository, for any windows, directories   *)
(* and roots and any interleaving of connections, messages and answers of  *)
(* git; and users who wait for a Repository are served in it.              *)
(***************************************************************************)
EXTENDS ServerToClientAPI, FiniteSetTheorems, TLAPS

----------------------------------------------------------------------------
(***************************************************************************)
(* Numbers and the messages that waited.  Induction over numbers takes the *)
(* form of a least counterexample.                                         *)
(***************************************************************************)
LEMMA SmallestNumber ==
  ASSUME NEW T, T \subseteq Nat, T # {}
  PROVE  \E m \in T : \A n \in T : m <= n
<1> DEFINE R == OpToRel(<, Nat)
<1>1. IsWellFoundedOn(R, Nat) BY NatLessThanWellFounded
<1>2. PICK x \in T : \A y \in T : ~ (<<y, x>> \in R)
  <2> HIDE DEF R
  <2> QED BY <1>1, WFMin
<1>3. ASSUME NEW y \in T PROVE x <= y
  <2>1. ~(<<y, x>> \in R) BY <1>2
  <2>2. x \in Nat /\ y \in Nat OBVIOUS
  <2>3. ~(y < x) BY <2>1, <2>2, Zenon DEF OpToRel
  <2> HIDE DEF R
  <2> QED BY <2>2, <2>3
<1> HIDE DEF R
<1> QED BY <1>3

LEMMA MinIsSmallest ==
  ASSUME NEW T, T \subseteq Nat, T # {}
  PROVE  Min(T) \in T
BY SmallestNumber DEF Min

\* The servers that the messages of a queue lead to, one after the other.
IsHandled(h, s, c, queue, n) ==
  h = [k \in 0..n |-> IF k = 0 THEN s ELSE HandleIncomingMessage(h[k - 1], c, queue[k])]

\* They exist for a queue of any length.
LEMMA HandlingExists ==
  ASSUME NEW s, NEW c, NEW queue, NEW n \in Nat
  PROVE  \E h : IsHandled(h, s, c, queue, n)
<1> DEFINE T == {k \in Nat : ~ \E h : IsHandled(h, s, c, queue, k)}
<1> SUFFICES ASSUME T # {} PROVE FALSE
  OBVIOUS
<1>1. PICK m \in T : \A k \in T : m <= k
  BY SmallestNumber
<1>2. m # 0
  <2>1. IsHandled([k \in 0..0 |-> s], s, c, queue, 0)
    BY DEF IsHandled
  <2> QED BY <2>1
<1>3. m - 1 \in Nat /\ m - 1 \notin T
  BY <1>1, <1>2
<1>4. PICK g : IsHandled(g, s, c, queue, m - 1)
  BY <1>3
<1> DEFINE h == [k \in 0..m |->
                   IF k = m THEN HandleIncomingMessage(g[m - 1], c, queue[m]) ELSE g[k]]
<1>5. IsHandled(h, s, c, queue, m)
  <2>1. ASSUME NEW k \in 0..m
        PROVE  h[k] = IF k = 0 THEN s ELSE HandleIncomingMessage(h[k - 1], c, queue[k])
    <3>1. CASE k = 0
      BY <3>1, <1>2, <1>3, <1>4 DEF IsHandled
    <3>2. CASE k # 0 /\ k = m
      BY <3>2, <1>2, <1>3
    <3>3. CASE k # 0 /\ k # m
      <4>1. k \in 0..(m - 1) /\ k - 1 \in 0..m /\ k - 1 # m
        BY <3>3
      <4>2. h[k] = g[k] /\ h[k - 1] = g[k - 1]
        BY <3>3, <4>1
      <4>3. g[k] = HandleIncomingMessage(g[k - 1], c, queue[k])
        BY <3>3, <4>1, <1>4 DEF IsHandled
      <4> QED BY <3>3, <4>2, <4>3
    <3> QED BY <3>1, <3>2, <3>3
  <2> QED BY <2>1, Zenon DEF IsHandled
<1> QED BY <1>5

LEMMA QueueIsHandled ==
  ASSUME NEW s, NEW c, Len(s.api[c].queuedMessages) \in Nat
  PROVE  \E h :
           /\ IsHandled(h, s, c, s.api[c].queuedMessages, Len(s.api[c].queuedMessages))
           /\ ProcessQueuedMessages(s, c)
                = [h[Len(s.api[c].queuedMessages)] EXCEPT !.api[c].queuedMessages = <<>>]
<1> DEFINE queue == s.api[c].queuedMessages
           h == CHOOSE g : IsHandled(g, s, c, queue, Len(queue))
<1>1. IsHandled(h, s, c, queue, Len(queue))
  <2>1. \E g : IsHandled(g, s, c, queue, Len(queue))
    BY HandlingExists
  <2> HIDE DEF queue
  <2> QED BY <2>1
<1>2. ProcessQueuedMessages(s, c) = [h[Len(queue)] EXCEPT !.api[c].queuedMessages = <<>>]
  BY DEF ProcessQueuedMessages, IsHandled
<1> QED BY <1>1, <1>2

----------------------------------------------------------------------------
(***************************************************************************)
(* The invariant of the repositories, of a server as a record              *)
(***************************************************************************)
RepositoryRecords == [root : Roots, references : Int, isDisposed : BOOLEAN]

ReferenceRecords ==
  [client : Clients, cwd : Cwds, disposed : BOOLEAN, holds : Nat, value : Nat,
   promise : {"pending", "resolved", "settled"}]

Messages == [type : {"changeCwd", "request"}, cwd : Cwds]

States == [type : {"loading", "repo", "error"}, repo : Nat, cwd : Cwds \cup {NoCwd}]

Apis ==
  [connection : {"none", "open", "closed"}, currentState : States,
   queuedMessages : Seq(Messages), activeRepoRef : Nat]

Servers ==
  [repositories : Seq(RepositoryRecords), reposByRoot : Seq(Nat),
   references : Seq(ReferenceRecords), api : [Clients -> Apis], astray : SUBSET Cwds]

HoldersIn(s, i) ==
  {r \in DOMAIN s.references : ~s.references[r].disposed /\ s.references[r].holds = i}

\* What is named exists, and a reference holds nothing while getRepoInfo runs.
NamesExist(s) ==
  /\ \A k \in DOMAIN s.reposByRoot : s.reposByRoot[k] \in DOMAIN s.repositories
  /\ \A r \in DOMAIN s.references :
       /\ s.references[r].holds \in 0..Len(s.repositories)
       /\ s.references[r].promise = "pending" => s.references[r].holds = None

CountsAreExact(s) ==
  \A i \in DOMAIN s.repositories :
    /\ s.repositories[i].references = Cardinality(HoldersIn(s, i))
    /\ s.repositories[i].isDisposed <=> HoldersIn(s, i) = {}

\* lookup finds every Repository that lives: none has lost its place in the
\* Map to another one of its root.
LiveAreFound(s) ==
  \A i \in DOMAIN s.repositories :
    Live(s, i) => \E k \in DOMAIN s.reposByRoot : s.reposByRoot[k] = i

OneOfARoot(s) ==
  \A i, j \in DOMAIN s.repositories :
    Live(s, i) /\ Live(s, j) /\ s.repositories[i].root = s.repositories[j].root => i = j

CacheInv(s) ==
  NamesExist(s) /\ CountsAreExact(s) /\ LiveAreFound(s) /\ OneOfARoot(s)

\* The references of the windows exist.
ApisHaveReferences(s) ==
  \A c \in Clients : s.api[c].activeRepoRef \in 0..Len(s.references)

ServerInv(s) == s \in Servers /\ CacheInv(s) /\ ApisHaveReferences(s)

----------------------------------------------------------------------------
(***************************************************************************)
(* What the operations of the cache look at and how holders change         *)
(***************************************************************************)
LEMMA HoldersAreFinite ==
  ASSUME NEW s \in Servers, NEW i
  PROVE  IsFiniteSet(HoldersIn(s, i)) /\ HoldersIn(s, i) \subseteq DOMAIN s.references
<1>1. s.references \in Seq(ReferenceRecords)
  BY DEF Servers
<1>2. DOMAIN s.references = 1..Len(s.references) /\ Len(s.references) \in Nat
  BY <1>1
<1>3. IsFiniteSet(DOMAIN s.references)
  BY <1>2, FS_Interval
<1>4. HoldersIn(s, i) \subseteq DOMAIN s.references
  BY DEF HoldersIn
<1> QED BY <1>3, <1>4, FS_Subset

\* lookup gives a Repository that lives, or there is none for the path.
LEMMA LookupFinds ==
  ASSUME NEW s \in Servers, NamesExist(s), NEW path
  PROVE  \/ /\ Lookup(s, path) \in DOMAIN s.repositories
            /\ Lookup(s, path) # None
            /\ Live(s, Lookup(s, path))
         \/ /\ Lookup(s, path) = None
            /\ \A k \in DOMAIN s.reposByRoot :
                 LET i == s.reposByRoot[k]
                 IN  ~(Live(s, i) /\ path \in Inside[s.repositories[i].root])
<1> DEFINE places == {k \in DOMAIN s.reposByRoot :
                        LET i == s.reposByRoot[k]
                        IN  Live(s, i) /\ path \in Inside[s.repositories[i].root]}
<1>1. Lookup(s, path) = IF places = {} THEN None ELSE s.reposByRoot[Min(places)]
  BY DEF Lookup
<1>2. CASE places = {}
  BY <1>1, <1>2
<1>3. CASE places # {}
  <2>1. s.reposByRoot \in Seq(Nat) /\ s.repositories \in Seq(RepositoryRecords)
    BY DEF Servers
  <2>2. places \subseteq Nat
    BY <2>1
  <2>3. Min(places) \in places
    BY <1>3, <2>2, MinIsSmallest
  <2>4. /\ Lookup(s, path) = s.reposByRoot[Min(places)]
        /\ Min(places) \in DOMAIN s.reposByRoot
        /\ Live(s, s.reposByRoot[Min(places)])
    BY <1>1, <1>3, <2>3
  <2>5. Lookup(s, path) \in DOMAIN s.repositories
    BY <2>4 DEF NamesExist
  <2>6. Lookup(s, path) # None
    BY <2>1, <2>5 DEF None
  <2> QED BY <2>4, <2>5, <2>6
<1> QED BY <1>2, <1>3

\* The Repositories stay as they are and so do their holders.
LEMMA SameHolders ==
  ASSUME NEW s \in Servers, NEW t \in Servers, CacheInv(s), NamesExist(t),
         t.repositories = s.repositories, t.reposByRoot = s.reposByRoot,
         \A i \in DOMAIN s.repositories : HoldersIn(t, i) = HoldersIn(s, i)
  PROVE  CacheInv(t)
BY DEF CacheInv, CountsAreExact, LiveAreFound, OneOfARoot, Live

\* RefCounted.ref: a Repository that lives has one more holder.
LEMMA OneMoreHolder ==
  ASSUME NEW s \in Servers, NEW t \in Servers, CacheInv(s), NamesExist(t),
         NEW i \in DOMAIN s.repositories, Live(s, i),
         t.repositories = [s.repositories EXCEPT ![i].references = @ + 1],
         t.reposByRoot = s.reposByRoot,
         NEW r, r \notin HoldersIn(s, i), HoldersIn(t, i) = HoldersIn(s, i) \cup {r},
         \A j \in DOMAIN s.repositories \ {i} : HoldersIn(t, j) = HoldersIn(s, j)
  PROVE  CacheInv(t)
<1>1. s.repositories \in Seq(RepositoryRecords)
  BY DEF Servers
<1>2. /\ DOMAIN t.repositories = DOMAIN s.repositories
      /\ t.repositories[i].references = s.repositories[i].references + 1
      /\ \A j \in DOMAIN s.repositories :
           /\ t.repositories[j].root = s.repositories[j].root
           /\ t.repositories[j].isDisposed = s.repositories[j].isDisposed
           /\ j # i => t.repositories[j].references = s.repositories[j].references
  BY <1>1 DEF RepositoryRecords
<1>3. Cardinality(HoldersIn(t, i)) = Cardinality(HoldersIn(s, i)) + 1
  BY HoldersAreFinite, FS_AddElement
<1>4. CountsAreExact(t)
  <2> SUFFICES ASSUME NEW j \in DOMAIN s.repositories
               PROVE  /\ t.repositories[j].references = Cardinality(HoldersIn(t, j))
                      /\ t.repositories[j].isDisposed <=> HoldersIn(t, j) = {}
    BY <1>2 DEF CountsAreExact
  <2>1. CASE j = i
    BY <2>1, <1>2, <1>3 DEF CacheInv, CountsAreExact, Live
  <2>2. CASE j # i
    BY <2>2, <1>2 DEF CacheInv, CountsAreExact
  <2> QED BY <2>1, <2>2
<1>5. LiveAreFound(t) /\ OneOfARoot(t)
  BY <1>2 DEF CacheInv, LiveAreFound, OneOfARoot, Live
<1> QED BY <1>4, <1>5 DEF CacheInv

\* RefCounted.dispose: the Repository that loses its last holder is disposed.
LEMMA OneHolderLess ==
  ASSUME NEW s \in Servers, NEW t \in Servers, CacheInv(s), NamesExist(t),
         NEW i \in DOMAIN s.repositories, NEW left \in Int,
         left = s.repositories[i].references - 1,
         t.repositories = [s.repositories EXCEPT ![i].references = left,
                                                 ![i].isDisposed = @ \/ left = 0],
         t.reposByRoot = s.reposByRoot,
         NEW r, r \in HoldersIn(s, i), HoldersIn(t, i) = HoldersIn(s, i) \ {r},
         \A j \in DOMAIN s.repositories \ {i} : HoldersIn(t, j) = HoldersIn(s, j)
  PROVE  CacheInv(t)
<1>1. s.repositories \in Seq(RepositoryRecords)
  BY DEF Servers
<1>2. /\ DOMAIN t.repositories = DOMAIN s.repositories
      /\ t.repositories[i].references = left
      /\ t.repositories[i].isDisposed = (s.repositories[i].isDisposed \/ left = 0)
      /\ \A j \in DOMAIN s.repositories :
           /\ t.repositories[j].root = s.repositories[j].root
           /\ j # i => /\ t.repositories[j].references = s.repositories[j].references
                       /\ t.repositories[j].isDisposed = s.repositories[j].isDisposed
  BY <1>1 DEF RepositoryRecords
<1>3. /\ IsFiniteSet(HoldersIn(s, i)) /\ IsFiniteSet(HoldersIn(t, i))
      /\ Cardinality(HoldersIn(t, i)) = Cardinality(HoldersIn(s, i)) - 1
  BY HoldersAreFinite, FS_RemoveElement
<1>4. /\ s.repositories[i].references = Cardinality(HoldersIn(s, i))
      /\ ~s.repositories[i].isDisposed
  BY DEF CacheInv, CountsAreExact
<1>5. left = Cardinality(HoldersIn(t, i)) /\ (left = 0 <=> HoldersIn(t, i) = {})
  BY <1>3, <1>4, FS_EmptySet
<1>6. CountsAreExact(t)
  <2> SUFFICES ASSUME NEW j \in DOMAIN s.repositories
               PROVE  /\ t.repositories[j].references = Cardinality(HoldersIn(t, j))
                      /\ t.repositories[j].isDisposed <=> HoldersIn(t, j) = {}
    BY <1>2 DEF CountsAreExact
  <2>1. CASE j = i
    BY <2>1, <1>2, <1>4, <1>5
  <2>2. CASE j # i
    BY <2>2, <1>2 DEF CacheInv, CountsAreExact
  <2> QED BY <2>1, <2>2
<1>7. \A j \in DOMAIN s.repositories : Live(t, j) => Live(s, j)
  BY <1>2, <1>4 DEF Live
<1>8. LiveAreFound(t)
  <2>1. LiveAreFound(s) /\ t.reposByRoot = s.reposByRoot
    BY DEF CacheInv
  <2> QED BY <1>2, <1>7, <2>1 DEF LiveAreFound
<1>9. OneOfARoot(t)
  <2>1. OneOfARoot(s)
    BY DEF CacheInv
  <2> QED BY <1>2, <1>7, <2>1 DEF OneOfARoot
<1> QED BY <1>6, <1>8, <1>9 DEF CacheInv

----------------------------------------------------------------------------
(***************************************************************************)
(* The operations of the cache keep the invariant                          *)
(***************************************************************************)
\* RefCounted.ref counts one more and changes nothing else.
LEMMA AddingReference ==
  ASSUME NEW s, s \in Servers, NEW i \in DOMAIN s.repositories
  PROVE  LET t == AddReference(s, i)
         IN  /\ t \in Servers
             /\ t.repositories = [s.repositories EXCEPT ![i].references = @ + 1]
             /\ Len(t.repositories) = Len(s.repositories)
             /\ t.reposByRoot = s.reposByRoot /\ t.references = s.references
             /\ t.api = s.api /\ t.astray = s.astray
<1> DEFINE counted == [s.repositories[i] EXCEPT !.references = @ + 1]
           t == [s EXCEPT !.repositories = [s.repositories EXCEPT ![i] = counted]]
<1>1. s.repositories \in Seq(RepositoryRecords) /\ s.repositories[i] \in RepositoryRecords
  BY DEF Servers
<1>2. counted \in RepositoryRecords
  BY <1>1 DEF RepositoryRecords
<1>3. AddReference(s, i) = t
  BY DEF AddReference
<1>4. [s.repositories EXCEPT ![i].references = @ + 1] = [s.repositories EXCEPT ![i] = counted]
  OBVIOUS
<1> HIDE DEF counted
<1>5. [s.repositories EXCEPT ![i] = counted] \in Seq(RepositoryRecords)
      /\ Len([s.repositories EXCEPT ![i] = counted]) = Len(s.repositories)
  BY <1>1, <1>2
<1>6. /\ t \in Servers /\ t.repositories = [s.repositories EXCEPT ![i] = counted]
      /\ t.reposByRoot = s.reposByRoot /\ t.references = s.references
      /\ t.api = s.api /\ t.astray = s.astray
  BY <1>5 DEF Servers
<1> HIDE DEF t
<1> QED BY <1>3, <1>4, <1>5, <1>6

\* A reference is handed out; at once it holds the Repository that was found.
LEMMA GettingKeepsCache ==
  ASSUME NEW s, s \in Servers, CacheInv(s), NEW c \in Clients, NEW cwd \in Cwds
  PROVE  LET u == GetOrCreate(s, c, cwd)
         IN  /\ u \in Servers /\ CacheInv(u)
             /\ u.api = s.api /\ u.astray = s.astray
             /\ u.references = Append(s.references, Reference(c, cwd, Lookup(s, cwd)))
<1> DEFINE i == Lookup(s, cwd)
           new == Reference(c, cwd, i)
           t == IF i = None THEN s ELSE AddReference(s, i)
           u == GetOrCreate(s, c, cwd)
           n == Len(s.references) + 1
<1>1. /\ s.repositories \in Seq(RepositoryRecords) /\ s.references \in Seq(ReferenceRecords)
      /\ s.reposByRoot \in Seq(Nat) /\ s.api \in [Clients -> Apis] /\ s.astray \in SUBSET Cwds
      /\ s = [repositories |-> s.repositories, reposByRoot |-> s.reposByRoot,
              references |-> s.references, api |-> s.api, astray |-> s.astray]
  BY DEF Servers
<1>2. \/ i \in DOMAIN s.repositories /\ i # None /\ Live(s, i)
      \/ i = None
  BY LookupFinds DEF CacheInv
<1>3. /\ new \in ReferenceRecords /\ new.holds = i /\ ~new.disposed
      /\ (new.promise = "pending" => i = None)
  BY <1>1, <1>2 DEF Reference, ReferenceRecords, None
<1>4. /\ t \in Servers /\ t.reposByRoot = s.reposByRoot /\ t.references = s.references
      /\ t.api = s.api /\ t.astray = s.astray
      /\ t.repositories = IF i = None THEN s.repositories
                          ELSE [s.repositories EXCEPT ![i].references = @ + 1]
      /\ Len(t.repositories) = Len(s.repositories)
  <2>1. CASE i = None
    BY <2>1
  <2>2. CASE i # None
    <3>1. i \in DOMAIN s.repositories
      BY <1>2, <2>2
    <3> HIDE DEF i
    <3> QED BY <2>2, <3>1, AddingReference
  <2> QED BY <2>1, <2>2
<1>5. /\ u = [t EXCEPT !.references = Append(s.references, new)]
      /\ t.repositories \in Seq(RepositoryRecords)
  BY <1>4 DEF GetOrCreate, Servers
<1> HIDE DEF i, new, u, t
<1>6. /\ u.references \in Seq(ReferenceRecords) /\ DOMAIN u.references = DOMAIN s.references \cup {n}
      /\ n \notin DOMAIN s.references /\ u.references[n] = new
      /\ \A r \in DOMAIN s.references : u.references[r] = s.references[r]
  <2>1. Append(s.references, new) \in Seq(ReferenceRecords)
    BY <1>1, <1>3
  <2>2. u.references = Append(s.references, new)
    BY <1>4, <1>5 DEF Servers
  <2> QED BY <1>1, <2>1, <2>2
<1>7. /\ u \in Servers /\ u.references = Append(s.references, new)
      /\ u.repositories = t.repositories /\ u.reposByRoot = s.reposByRoot
      /\ u.api = s.api /\ u.astray = s.astray
  <2>1. Append(s.references, new) \in Seq(ReferenceRecords)
    BY <1>1, <1>3
  <2> QED BY <2>1, <1>4, <1>5 DEF Servers
<1>8. NamesExist(u)
  <2>1. /\ i \in 0..Len(u.repositories) /\ DOMAIN u.repositories = DOMAIN s.repositories
        /\ Len(u.repositories) = Len(s.repositories)
    BY <1>1, <1>2, <1>4, <1>5, <1>7 DEF None
  <2> QED BY <2>1, <1>3, <1>6, <1>7 DEF CacheInv, NamesExist
<1>9. \A j : HoldersIn(u, j) = IF j = i THEN HoldersIn(s, j) \cup {n} ELSE HoldersIn(s, j)
  BY <1>3, <1>6 DEF HoldersIn
<1>10. n \notin HoldersIn(s, i)
  BY <1>6 DEF HoldersIn
<1>11. CacheInv(u)
  <2>1. CASE i = None
    <3>1. \A j \in DOMAIN s.repositories : HoldersIn(u, j) = HoldersIn(s, j)
      BY <2>1, <1>1, <1>9 DEF None
    <3> QED BY <2>1, <3>1, <1>4, <1>7, <1>8, SameHolders
  <2>2. CASE i # None
    BY <2>2, <1>2, <1>4, <1>7, <1>8, <1>9, <1>10, OneMoreHolder
  <2> QED BY <2>1, <2>2
<1> QED BY <1>7, <1>11 DEF i, new, u

\* A reference is given back, once.
LEMMA GivingBackKeepsCache ==
  ASSUME NEW s, s \in Servers, CacheInv(s), NEW r \in DOMAIN s.references
  PROVE  LET u == Unref(s, r)
         IN  /\ u \in Servers /\ CacheInv(u)
             /\ u.api = s.api /\ u.astray = s.astray
             /\ u.references = [s.references EXCEPT ![r].disposed = TRUE]
<1> DEFINE i == s.references[r].holds
           u == Unref(s, r)
           left == s.repositories[i].references - 1
<1>1. /\ s.repositories \in Seq(RepositoryRecords) /\ s.references \in Seq(ReferenceRecords)
      /\ s.reposByRoot \in Seq(Nat) /\ s.api \in [Clients -> Apis] /\ s.astray \in SUBSET Cwds
      /\ s = [repositories |-> s.repositories, reposByRoot |-> s.reposByRoot,
              references |-> s.references, api |-> s.api, astray |-> s.astray]
  BY DEF Servers
<1>2. i \in 0..Len(s.repositories) /\ DOMAIN s.repositories = 1..Len(s.repositories)
  BY <1>1 DEF CacheInv, NamesExist
<1> DEFINE given == [s.references[r] EXCEPT !.disposed = TRUE]
<1>a. /\ s.references[r] \in ReferenceRecords /\ given \in ReferenceRecords /\ given.disposed
      /\ given.holds = s.references[r].holds /\ given.promise = s.references[r].promise
      /\ s.references[r].disposed => given = s.references[r]
  <2>1. s.references[r] \in ReferenceRecords
    BY <1>1
  <2> QED BY <2>1 DEF ReferenceRecords
<1>b. [s.references EXCEPT ![r].disposed = TRUE] = [s.references EXCEPT ![r] = given]
  OBVIOUS
<1>3. CASE s.references[r].disposed
  <2>1. u = s
    BY <1>3 DEF Unref
  <2>2. s.references = [s.references EXCEPT ![r] = given]
    BY <1>1, <1>3, <1>a
  <2> QED BY <2>1, <2>2, <1>b
<1>4. CASE ~s.references[r].disposed
  <2>1. /\ u.reposByRoot = s.reposByRoot /\ u.api = s.api /\ u.astray = s.astray
        /\ u.references = [s.references EXCEPT ![r].disposed = TRUE]
        /\ u.repositories = IF i = None THEN s.repositories
                            ELSE [s.repositories EXCEPT ![i].references = left,
                                                        ![i].isDisposed = @ \/ left = 0]
        /\ u = [repositories |-> u.repositories, reposByRoot |-> u.reposByRoot,
                references |-> u.references, api |-> u.api, astray |-> u.astray]
    BY <1>1, <1>4 DEF Unref, DropReference
  <2> HIDE DEF u
  <2>2. /\ u.references \in Seq(ReferenceRecords) /\ DOMAIN u.references = DOMAIN s.references
        /\ u.references[r].disposed
        /\ \A q \in DOMAIN s.references :
             /\ u.references[q].holds = s.references[q].holds
             /\ u.references[q].promise = s.references[q].promise
             /\ q # r => u.references[q].disposed = s.references[q].disposed
    <3>1. u.references = [s.references EXCEPT ![r] = given]
      BY <2>1, <1>b
    <3> HIDE DEF given
    <3> QED BY <1>1, <1>a, <3>1
  <2>3. \A j : HoldersIn(u, j) = IF j = i THEN HoldersIn(s, j) \ {r} ELSE HoldersIn(s, j)
    BY <2>2 DEF HoldersIn
  <2>4. r \in HoldersIn(s, i)
    BY <1>4 DEF HoldersIn
  <2>5. CASE i = None
    <3>1. u \in Servers
      BY <1>1, <2>1, <2>2, <2>5 DEF Servers
    <3>2. NamesExist(u)
      BY <2>1, <2>2, <2>5 DEF CacheInv, NamesExist
    <3>3. \A j \in DOMAIN s.repositories : HoldersIn(u, j) = HoldersIn(s, j)
      BY <1>2, <2>3, <2>5 DEF None
    <3> QED BY <2>1, <2>5, <3>1, <3>2, <3>3, SameHolders DEF u
  <2>6. CASE i # None
    <3>1. i \in DOMAIN s.repositories
      BY <1>2, <2>6 DEF None
    <3>2. s.repositories[i] \in RepositoryRecords /\ left \in Int
      <4>1. s.repositories[i] \in RepositoryRecords
        BY <1>1, <3>1
      <4> HIDE DEF i
      <4> QED BY <4>1 DEF RepositoryRecords
    <3> HIDE DEF left
    <3>3. u.repositories \in Seq(RepositoryRecords)
          /\ Len(u.repositories) = Len(s.repositories)
      <4>1. [s.repositories[i] EXCEPT !.references = left, !.isDisposed = @ \/ left = 0]
              \in RepositoryRecords
        BY <3>2 DEF RepositoryRecords
      <4> QED BY <1>1, <2>1, <2>6, <3>1, <4>1
    <3>4. u \in Servers
      BY <1>1, <2>1, <2>2, <3>3 DEF Servers
    <3>5. NamesExist(u)
      <4>1. NamesExist(s)
        BY DEF CacheInv
      <4>2. DOMAIN u.repositories = DOMAIN s.repositories
        BY <1>1, <3>3
      <4> HIDE DEF i
      <4>3. \A k \in DOMAIN u.reposByRoot : u.reposByRoot[k] \in DOMAIN u.repositories
        BY <2>1, <4>1, <4>2 DEF NamesExist
      <4>4. \A q \in DOMAIN u.references :
              /\ u.references[q].holds \in 0..Len(u.repositories)
              /\ u.references[q].promise = "pending" => u.references[q].holds = None
        BY <2>2, <3>3, <4>1 DEF NamesExist
      <4> QED BY <4>3, <4>4 DEF NamesExist
    <3>6. left = s.repositories[i].references - 1
      BY DEF left
    <3>7. CacheInv(u)
      BY <2>1, <2>3, <2>4, <2>6, <3>1, <3>2, <3>4, <3>5, <3>6, OneHolderLess
    <3> QED BY <2>1, <3>4, <3>7 DEF u
  <2> QED BY <2>5, <2>6
<1> QED BY <1>3, <1>4

\* The promise of a reference is resolved, and the reference holds its value.
LEMMA ResolvingReference ==
  ASSUME NEW s, s \in Servers, NEW r \in DOMAIN s.references, NEW i \in Nat
  PROVE  LET t == Resolve(s, r, i)
         IN  /\ t \in Servers
             /\ t.repositories = s.repositories /\ t.reposByRoot = s.reposByRoot
             /\ t.api = s.api /\ t.astray = s.astray
             /\ DOMAIN t.references = DOMAIN s.references
             /\ Len(t.references) = Len(s.references)
             /\ t.references[r].promise = "resolved" /\ t.references[r].holds = i
             /\ \A q \in DOMAIN s.references :
                  /\ t.references[q].disposed = s.references[q].disposed
                  /\ t.references[q].client = s.references[q].client
                  /\ t.references[q].cwd = s.references[q].cwd
                  /\ q # r => t.references[q] = s.references[q]
<1> DEFINE given == [s.references[r] EXCEPT !.promise = "resolved", !.value = i, !.holds = i]
           t == [s EXCEPT !.references = [s.references EXCEPT ![r] = given]]
<1>1. s.references \in Seq(ReferenceRecords) /\ s.references[r] \in ReferenceRecords
  BY DEF Servers
<1>2. /\ given \in ReferenceRecords /\ given.promise = "resolved" /\ given.holds = i
      /\ given.disposed = s.references[r].disposed /\ given.client = s.references[r].client
      /\ given.cwd = s.references[r].cwd
  BY <1>1 DEF ReferenceRecords
<1>3. Resolve(s, r, i) = t
  BY DEF Resolve
<1> HIDE DEF given
<1>4. /\ [s.references EXCEPT ![r] = given] \in Seq(ReferenceRecords)
      /\ Len([s.references EXCEPT ![r] = given]) = Len(s.references)
  BY <1>1, <1>2
<1>5. /\ t \in Servers /\ t.references = [s.references EXCEPT ![r] = given]
      /\ t.repositories = s.repositories /\ t.reposByRoot = s.reposByRoot
      /\ t.api = s.api /\ t.astray = s.astray
  BY <1>4 DEF Servers
<1> HIDE DEF t
<1> QED BY <1>1, <1>2, <1>3, <1>4, <1>5

\* A pending reference that resolves to an error holds nothing as before.
LEMMA FailingKeepsCache ==
  ASSUME NEW s, s \in Servers, CacheInv(s), NEW r \in DOMAIN s.references,
         s.references[r].promise = "pending"
  PROVE  CacheInv(Resolve(s, r, None))
<1> DEFINE t == Resolve(s, r, None)
<1>1. /\ t \in Servers
      /\ t.repositories = s.repositories /\ t.reposByRoot = s.reposByRoot
      /\ DOMAIN t.references = DOMAIN s.references
      /\ t.references[r].promise = "resolved" /\ t.references[r].holds = None
      /\ \A q \in DOMAIN s.references :
           /\ t.references[q].disposed = s.references[q].disposed
           /\ q # r => t.references[q] = s.references[q]
  BY ResolvingReference DEF None
<1> HIDE DEF t
<1>2. s.references[r].holds = None
  BY DEF CacheInv, NamesExist
<1>3. \A q \in DOMAIN s.references : t.references[q].holds = s.references[q].holds
  BY <1>1, <1>2
<1>4. \A i \in DOMAIN s.repositories : HoldersIn(t, i) = HoldersIn(s, i)
  BY <1>1, <1>3 DEF HoldersIn
<1>5. NamesExist(t)
  BY <1>1, <1>3 DEF CacheInv, NamesExist
<1> QED BY <1>1, <1>4, <1>5, SameHolders DEF t

\* A Repository that was created meanwhile is re-used.
LEMMA ReusingKeepsCache ==
  ASSUME NEW s, s \in Servers, CacheInv(s), NEW r \in DOMAIN s.references,
         s.references[r].promise = "pending", ~s.references[r].disposed,
         NEW i \in DOMAIN s.repositories, Live(s, i)
  PROVE  LET t == Resolve(AddReference(s, i), r, i)
         IN  /\ t \in Servers /\ CacheInv(t)
             /\ t.api = s.api /\ t.astray = s.astray
             /\ Len(t.references) = Len(s.references)
             /\ t.references[r].promise = "resolved"
             /\ \A q \in DOMAIN s.references :
                  /\ t.references[q].client = s.references[q].client
                  /\ t.references[q].cwd = s.references[q].cwd
                  /\ q # r => t.references[q] = s.references[q]
<1> DEFINE u == AddReference(s, i)
           t == Resolve(u, r, i)
<1>1. /\ u \in Servers
      /\ u.repositories = [s.repositories EXCEPT ![i].references = @ + 1]
      /\ Len(u.repositories) = Len(s.repositories)
      /\ u.reposByRoot = s.reposByRoot /\ u.references = s.references
      /\ u.api = s.api /\ u.astray = s.astray
  BY AddingReference
<1> HIDE DEF u
<1>2. s.repositories \in Seq(RepositoryRecords) /\ i \in 1..Len(s.repositories) /\ i \in Nat
      /\ DOMAIN u.repositories = DOMAIN s.repositories
  BY <1>1 DEF Servers
<1>3. /\ t \in Servers
      /\ t.repositories = u.repositories /\ t.reposByRoot = s.reposByRoot
      /\ t.api = s.api /\ t.astray = s.astray
      /\ DOMAIN t.references = DOMAIN s.references
      /\ Len(t.references) = Len(s.references)
      /\ t.references[r].promise = "resolved" /\ t.references[r].holds = i
      /\ \A q \in DOMAIN s.references :
           /\ t.references[q].disposed = s.references[q].disposed
           /\ t.references[q].client = s.references[q].client
           /\ t.references[q].cwd = s.references[q].cwd
           /\ q # r => t.references[q] = s.references[q]
  BY <1>1, <1>2, ResolvingReference
<1> HIDE DEF t
<1>4. s.references[r].holds = None /\ i # None
  BY <1>2 DEF CacheInv, NamesExist, None
<1>5. r \notin HoldersIn(s, i) /\ HoldersIn(t, i) = HoldersIn(s, i) \cup {r}
  BY <1>3, <1>4 DEF HoldersIn
<1>6. \A j \in DOMAIN s.repositories \ {i} : HoldersIn(t, j) = HoldersIn(s, j)
  <2> SUFFICES ASSUME NEW j \in DOMAIN s.repositories, j # i
               PROVE  HoldersIn(t, j) = HoldersIn(s, j)
    OBVIOUS
  <2>1. j # None
    BY <1>2 DEF None
  <2> QED BY <2>1, <1>3, <1>4 DEF HoldersIn
<1>7. NamesExist(t)
  BY <1>1, <1>2, <1>3 DEF CacheInv, NamesExist
<1>8. CacheInv(t)
  BY <1>1, <1>3, <1>5, <1>6, <1>7, OneMoreHolder
<1> QED BY <1>3, <1>8 DEF t, u

\* The Map names the new Repository for its root; every other Repository keeps
\* its place, unless it has the same root.
LEMMA SettingByRoot ==
  ASSUME NEW s, s \in Servers, NEW root, NEW i \in Nat
  PROVE  LET t == SetByRoot(s, root, i)
         IN  /\ t \in Servers
             /\ t.repositories = s.repositories /\ t.references = s.references
             /\ t.api = s.api /\ t.astray = s.astray
             /\ \E k \in DOMAIN t.reposByRoot : t.reposByRoot[k] = i
             /\ \A k \in DOMAIN s.reposByRoot :
                  s.repositories[s.reposByRoot[k]].root # root
                    => k \in DOMAIN t.reposByRoot /\ t.reposByRoot[k] = s.reposByRoot[k]
             /\ \A k \in DOMAIN t.reposByRoot :
                  \/ t.reposByRoot[k] = i
                  \/ k \in DOMAIN s.reposByRoot /\ t.reposByRoot[k] = s.reposByRoot[k]
<1> DEFINE places ==
             {k \in DOMAIN s.reposByRoot : s.repositories[s.reposByRoot[k]].root = root}
           set == IF places = {} THEN Append(s.reposByRoot, i)
                  ELSE [s.reposByRoot EXCEPT ![Min(places)] = i]
           t == [s EXCEPT !.reposByRoot = set]
<1>1. s.reposByRoot \in Seq(Nat)
  BY DEF Servers
<1>2. SetByRoot(s, root, i) = t
  BY DEF SetByRoot
<1>3. /\ set \in Seq(Nat)
      /\ \E k \in DOMAIN set : set[k] = i
      /\ \A k \in DOMAIN s.reposByRoot :
           s.repositories[s.reposByRoot[k]].root # root
             => k \in DOMAIN set /\ set[k] = s.reposByRoot[k]
      /\ \A k \in DOMAIN set :
           set[k] = i \/ (k \in DOMAIN s.reposByRoot /\ set[k] = s.reposByRoot[k])
  <2>1. CASE places = {}
    <3>1. set = Append(s.reposByRoot, i)
      BY <2>1
    <3>2. /\ set \in Seq(Nat)
          /\ DOMAIN set = DOMAIN s.reposByRoot \cup {Len(s.reposByRoot) + 1}
          /\ set[Len(s.reposByRoot) + 1] = i
          /\ \A k \in DOMAIN s.reposByRoot : set[k] = s.reposByRoot[k]
      <4>1. PICK q \in Seq(Nat) : q = s.reposByRoot
        BY <1>1
      <4> HIDE DEF set, places
      <4>2. set = Append(q, i)
        BY <3>1, <4>1
      <4>3. /\ set \in Seq(Nat) /\ DOMAIN set = DOMAIN q \cup {Len(q) + 1}
            /\ set[Len(q) + 1] = i /\ \A k \in DOMAIN q : set[k] = q[k]
        BY <4>2
      <4> QED BY <4>1, <4>3
    <3> HIDE DEF set
    <3> QED BY <3>2
  <2>2. CASE places # {}
    <3>1. places \subseteq Nat
      BY <1>1
    <3>2. Min(places) \in places
      BY <2>2, <3>1, MinIsSmallest
    <3>3. Min(places) \in DOMAIN s.reposByRoot
          /\ s.repositories[s.reposByRoot[Min(places)]].root = root
      BY <3>2
    <3>4. set = [s.reposByRoot EXCEPT ![Min(places)] = i]
      BY <2>2
    <3> HIDE DEF set, places
    <3> QED BY <1>1, <3>3, <3>4
  <2> QED BY <2>1, <2>2
<1> HIDE DEF set
<1>4. /\ t \in Servers /\ t.reposByRoot = set
      /\ t.repositories = s.repositories /\ t.references = s.references
      /\ t.api = s.api /\ t.astray = s.astray
  BY <1>3 DEF Servers
<1> HIDE DEF t
<1> QED BY <1>2, <1>3, <1>4

\* Where lookup finds nothing for a root, no Repository of the root lives, and
\* a new one may take its place in the Map.
LEMMA CreatingKeepsCache ==
  ASSUME NEW s, s \in Servers, CacheInv(s), NEW r \in DOMAIN s.references,
         s.references[r].promise = "pending", ~s.references[r].disposed,
         NEW root \in Roots, Lookup(s, root) = None
  PROVE  LET t == Create(s, r, root)
         IN  /\ t \in Servers /\ CacheInv(t)
             /\ t.api = s.api /\ t.astray = s.astray
             /\ Len(t.references) = Len(s.references)
             /\ t.references[r].promise = "resolved"
             /\ \A q \in DOMAIN s.references :
                  /\ t.references[q].client = s.references[q].client
                  /\ t.references[q].cwd = s.references[q].cwd
                  /\ q # r => t.references[q] = s.references[q]
<1> DEFINE i == Len(s.repositories) + 1
           u == SetByRoot(s, root, i)
           repository == [root |-> root, references |-> 1, isDisposed |-> FALSE]
           v == [u EXCEPT !.repositories = Append(@, repository)]
           t == Resolve(v, r, i)
<1>1. /\ s.repositories \in Seq(RepositoryRecords) /\ s.references \in Seq(ReferenceRecords)
      /\ s.reposByRoot \in Seq(Nat) /\ i \in Nat /\ i # None /\ i \notin DOMAIN s.repositories
      /\ i = Len(s.repositories) + 1 /\ Len(s.repositories) \in Nat
      /\ DOMAIN s.repositories = 1..Len(s.repositories)
  BY DEF Servers, None
<1> HIDE DEF i
<1>2. /\ u \in Servers
      /\ u.repositories = s.repositories /\ u.references = s.references
      /\ u.api = s.api /\ u.astray = s.astray
      /\ \E k \in DOMAIN u.reposByRoot : u.reposByRoot[k] = i
      /\ \A k \in DOMAIN s.reposByRoot :
           s.repositories[s.reposByRoot[k]].root # root
             => k \in DOMAIN u.reposByRoot /\ u.reposByRoot[k] = s.reposByRoot[k]
      /\ \A k \in DOMAIN u.reposByRoot :
           \/ u.reposByRoot[k] = i
           \/ k \in DOMAIN s.reposByRoot /\ u.reposByRoot[k] = s.reposByRoot[k]
  BY <1>1, SettingByRoot
<1> HIDE DEF u
<1>3. repository \in RepositoryRecords
  BY DEF RepositoryRecords
<1>4. /\ Append(s.repositories, repository) \in Seq(RepositoryRecords)
      /\ DOMAIN Append(s.repositories, repository) = DOMAIN s.repositories \cup {i}
      /\ Len(Append(s.repositories, repository)) = i
      /\ Append(s.repositories, repository)[i] = repository
      /\ \A j \in DOMAIN s.repositories :
           Append(s.repositories, repository)[j] = s.repositories[j]
  <2> HIDE DEF repository
  <2> QED BY <1>1, <1>3
<1>5. /\ v \in Servers /\ v.repositories = Append(s.repositories, repository)
      /\ v.reposByRoot = u.reposByRoot /\ v.references = s.references
      /\ v.api = s.api /\ v.astray = s.astray
  BY <1>2, <1>4 DEF Servers
<1>6. Create(s, r, root) = t
  BY DEF Create, i, u
<1>7. repository.root = root /\ repository.references = 1 /\ ~repository.isDisposed
  OBVIOUS
<1> HIDE DEF v, repository
<1>8. /\ t \in Servers
      /\ t.repositories = v.repositories /\ t.reposByRoot = u.reposByRoot
      /\ t.api = s.api /\ t.astray = s.astray
      /\ DOMAIN t.references = DOMAIN s.references
      /\ Len(t.references) = Len(s.references)
      /\ t.references[r].promise = "resolved" /\ t.references[r].holds = i
      /\ \A q \in DOMAIN s.references :
           /\ t.references[q].disposed = s.references[q].disposed
           /\ t.references[q].client = s.references[q].client
           /\ t.references[q].cwd = s.references[q].cwd
           /\ q # r => t.references[q] = s.references[q]
  <2>1. v \in Servers /\ r \in DOMAIN v.references /\ i \in Nat
    BY <1>1, <1>5
  <2>2. /\ t \in Servers
        /\ t.repositories = v.repositories /\ t.reposByRoot = v.reposByRoot
        /\ t.api = v.api /\ t.astray = v.astray
        /\ DOMAIN t.references = DOMAIN v.references
        /\ Len(t.references) = Len(v.references)
        /\ t.references[r].promise = "resolved" /\ t.references[r].holds = i
        /\ \A q \in DOMAIN v.references :
             /\ t.references[q].disposed = v.references[q].disposed
             /\ t.references[q].client = v.references[q].client
             /\ t.references[q].cwd = v.references[q].cwd
             /\ q # r => t.references[q] = v.references[q]
    BY <2>1, ResolvingReference
  <2> HIDE DEF t
  <2> QED BY <1>5, <2>2
<1> HIDE DEF t
<1>9. /\ DOMAIN t.repositories = DOMAIN s.repositories \cup {i} /\ Len(t.repositories) = i
      /\ t.repositories[i] = repository
      /\ \A j \in DOMAIN s.repositories : t.repositories[j] = s.repositories[j]
  BY <1>4, <1>5, <1>8
<1>10. NamesExist(t)
  <2>1. \A k \in DOMAIN t.reposByRoot : t.reposByRoot[k] \in DOMAIN t.repositories
    BY <1>2, <1>8, <1>9 DEF CacheInv, NamesExist
  <2>2. \A q \in DOMAIN t.references :
          /\ t.references[q].holds \in 0..Len(t.repositories)
          /\ t.references[q].promise = "pending" => t.references[q].holds = None
    <3> SUFFICES ASSUME NEW q \in DOMAIN s.references
                 PROVE  /\ t.references[q].holds \in 0..Len(t.repositories)
                        /\ t.references[q].promise = "pending" => t.references[q].holds = None
      BY <1>8
    <3>1. CASE q = r
      BY <3>1, <1>1, <1>8, <1>9
    <3>2. CASE q # r
      <4>1. /\ s.references[q].holds \in 0..Len(s.repositories)
            /\ s.references[q].promise = "pending" => s.references[q].holds = None
        BY DEF CacheInv, NamesExist
      <4> QED BY <3>2, <4>1, <1>1, <1>8, <1>9
    <3> QED BY <3>1, <3>2
  <2> QED BY <2>1, <2>2 DEF NamesExist
<1>11. s.references[r].holds = None
  BY DEF CacheInv, NamesExist
<1>12. HoldersIn(t, i) = {r}
  <2>1. \A q \in DOMAIN s.references : s.references[q].holds # i
    BY <1>1 DEF CacheInv, NamesExist
  <2> QED BY <2>1, <1>8 DEF HoldersIn
<1>13. \A j \in DOMAIN s.repositories : HoldersIn(t, j) = HoldersIn(s, j)
  <2> SUFFICES ASSUME NEW j \in DOMAIN s.repositories
               PROVE  HoldersIn(t, j) = HoldersIn(s, j)
    OBVIOUS
  <2>1. j # None /\ j # i
    BY <1>1 DEF None
  <2> QED BY <2>1, <1>8, <1>11 DEF HoldersIn
<1>14. CountsAreExact(t)
  <2> SUFFICES ASSUME NEW j \in DOMAIN t.repositories
               PROVE  /\ t.repositories[j].references = Cardinality(HoldersIn(t, j))
                      /\ t.repositories[j].isDisposed <=> HoldersIn(t, j) = {}
    BY DEF CountsAreExact
  <2>1. CASE j = i
    BY <2>1, <1>7, <1>9, <1>12, FS_Singleton
  <2>2. CASE j \in DOMAIN s.repositories
    BY <2>2, <1>9, <1>13 DEF CacheInv, CountsAreExact
  <2> QED BY <2>1, <2>2, <1>9
<1>15. \A j \in DOMAIN s.repositories : Live(s, j) => s.repositories[j].root # root
  <2> SUFFICES ASSUME NEW j \in DOMAIN s.repositories, Live(s, j),
                      s.repositories[j].root = root
               PROVE  FALSE
    OBVIOUS
  <2>1. PICK k \in DOMAIN s.reposByRoot : s.reposByRoot[k] = j
    BY DEF CacheInv, LiveAreFound
  <2>2. root \in Inside[root]
    BY PathsAssumption
  <2>3. Lookup(s, root) # None
    BY <2>1, <2>2, LookupFinds DEF CacheInv
  <2> QED BY <2>3
<1>16. LiveAreFound(t)
  <2> SUFFICES ASSUME NEW j \in DOMAIN t.repositories, Live(t, j)
               PROVE  \E k \in DOMAIN t.reposByRoot : t.reposByRoot[k] = j
    BY DEF LiveAreFound
  <2>1. CASE j = i
    BY <2>1, <1>2, <1>8
  <2>2. CASE j \in DOMAIN s.repositories
    <3>1. Live(s, j)
      BY <2>2, <1>9 DEF Live
    <3>2. PICK k \in DOMAIN s.reposByRoot : s.reposByRoot[k] = j
      BY <2>2, <3>1 DEF CacheInv, LiveAreFound
    <3> QED BY <2>2, <3>1, <3>2, <1>2, <1>8, <1>15
  <2> QED BY <2>1, <2>2, <1>9
<1>17. OneOfARoot(t)
  <2> SUFFICES ASSUME NEW j \in DOMAIN t.repositories, NEW k \in DOMAIN t.repositories,
                      Live(t, j), Live(t, k), t.repositories[j].root = t.repositories[k].root
               PROVE  j = k
    BY DEF OneOfARoot
  <2>1. CASE j \in DOMAIN s.repositories /\ k \in DOMAIN s.repositories
    BY <2>1, <1>9 DEF CacheInv, OneOfARoot, Live
  <2>2. CASE j = i /\ k \in DOMAIN s.repositories
    BY <2>2, <1>7, <1>9, <1>15 DEF Live
  <2>3. CASE k = i /\ j \in DOMAIN s.repositories
    BY <2>3, <1>7, <1>9, <1>15 DEF Live
  <2> QED BY <2>1, <2>2, <2>3, <1>9
<1> QED BY <1>6, <1>8, <1>10, <1>14, <1>16, <1>17 DEF CacheInv

\* getRepoInfo has found the root of a directory.
LEMMA FindingKeepsCache ==
  ASSUME NEW s, s \in Servers, CacheInv(s), NEW r \in DOMAIN s.references,
         s.references[r].promise = "pending", NEW root \in Roots
  PROVE  LET t == CreateForReference(s, r, root)
         IN  /\ t \in Servers /\ CacheInv(t)
             /\ t.api = s.api /\ t.astray = s.astray
             /\ Len(t.references) = Len(s.references)
             /\ t.references[r].promise = "resolved"
             /\ \A q \in DOMAIN s.references :
                  /\ t.references[q].client = s.references[q].client
                  /\ t.references[q].cwd = s.references[q].cwd
                  /\ q # r => t.references[q] = s.references[q]
<1>1. CASE s.references[r].disposed
  <2>1. CreateForReference(s, r, root) = Resolve(s, r, None)
    BY <1>1 DEF CreateForReference
  <2>2. None \in Nat
    BY DEF None
  <2> QED BY <2>1, <2>2, FailingKeepsCache, ResolvingReference
<1>2. CASE ~s.references[r].disposed /\ Lookup(s, root) # None
  <2>1. CreateForReference(s, r, root)
          = Resolve(AddReference(s, Lookup(s, root)), r, Lookup(s, root))
    BY <1>2 DEF CreateForReference
  <2>2. Lookup(s, root) \in DOMAIN s.repositories /\ Live(s, Lookup(s, root))
    BY <1>2, LookupFinds DEF CacheInv
  <2> QED BY <1>2, <2>1, <2>2, ReusingKeepsCache
<1>3. CASE ~s.references[r].disposed /\ Lookup(s, root) = None
  <2>1. CreateForReference(s, r, root) = Create(s, r, root)
    BY <1>3 DEF CreateForReference
  <2> QED BY <1>3, <2>1, CreatingKeepsCache
<1> QED BY <1>1, <1>2, <1>3

----------------------------------------------------------------------------
(***************************************************************************)
(* The operations of ServerToClientAPI                                     *)
(***************************************************************************)
\* The cache does not look at the windows.
LEMMA CacheIsApart ==
  ASSUME NEW s, NEW t, CacheInv(s), t.repositories = s.repositories,
         t.reposByRoot = s.reposByRoot, t.references = s.references
  PROVE  CacheInv(t)
<1>1. \A i : HoldersIn(t, i) = HoldersIn(s, i)
  BY DEF HoldersIn
<1>2. NamesExist(t)
  BY DEF CacheInv, NamesExist
<1>3. CountsAreExact(t)
  BY <1>1 DEF CacheInv, CountsAreExact
<1>4. LiveAreFound(t) /\ OneOfARoot(t)
  BY DEF CacheInv, LiveAreFound, OneOfARoot, Live
<1> QED BY <1>2, <1>3, <1>4 DEF CacheInv

\* One window changes.
LEMMA ChangingWindow ==
  ASSUME NEW s, s \in Servers, CacheInv(s), NEW c \in Clients, NEW a \in Apis
  PROVE  LET t == [s EXCEPT !.api[c] = a]
         IN  /\ t \in Servers /\ CacheInv(t)
             /\ t.repositories = s.repositories /\ t.reposByRoot = s.reposByRoot
             /\ t.references = s.references /\ t.astray = s.astray
             /\ t.api = [s.api EXCEPT ![c] = a]
<1> DEFINE t == [s EXCEPT !.api = [s.api EXCEPT ![c] = a]]
<1>1. s.api \in [Clients -> Apis] /\ [s.api EXCEPT ![c] = a] \in [Clients -> Apis]
  BY DEF Servers
<1>2. /\ t \in Servers
      /\ t.repositories = s.repositories /\ t.reposByRoot = s.reposByRoot
      /\ t.references = s.references /\ t.astray = s.astray
      /\ t.api = [s.api EXCEPT ![c] = a]
  BY <1>1 DEF Servers
<1>3. [s EXCEPT !.api[c] = a] = t
  OBVIOUS
<1> HIDE DEF t
<1> QED BY <1>2, <1>3, CacheIsApart

LEMMA LoadingIsAState == Loading \in States
BY DEF Loading, States, None, NoCwd

\* No connection opens or closes, and no window is left without a reference.
SameConnections(s, t) ==
  \A d \in Clients :
    /\ t.api[d].connection = s.api[d].connection
    /\ s.api[d].activeRepoRef # None => t.api[d].activeRepoRef # None

\* From s to w the window has given back its reference and been handed out
\* another one, whose Repository it loads.
LoadsAnother(s, c, cwd, w, n) ==
  /\ w.astray = s.astray
  /\ DOMAIN w.references = DOMAIN s.references \cup {n} /\ Len(w.references) = n
  /\ w.references[n].client = c /\ w.references[n].cwd = cwd
  /\ w.references[n].promise \in {"pending", "resolved"}
  /\ \A q \in DOMAIN s.references :
       /\ w.references[q].client = s.references[q].client
       /\ w.references[q].cwd = s.references[q].cwd
       /\ w.references[q].promise = s.references[q].promise
  /\ w.api = [s.api EXCEPT
                ![c] = [s.api[c] EXCEPT !.currentState = Loading, !.activeRepoRef = n]]

LEMMA SettingActiveRepo ==
  ASSUME NEW s, ServerInv(s), NEW c \in Clients, NEW cwd \in Cwds
  PROVE  LET w == SetActiveRepoForCwd(s, c, cwd)
         IN  /\ ServerInv(w) /\ SameConnections(s, w)
             /\ LoadsAnother(s, c, cwd, w, Len(s.references) + 1)
<1> USE DEF ServerInv
<1> DEFINE n == Len(s.references) + 1
           old == s.api[c].activeRepoRef
           t == IF old = None THEN s ELSE Unref(s, old)
           loading == [t EXCEPT !.api[c].currentState = Loading]
           u == GetOrCreate(loading, c, cwd)
           w == [u EXCEPT !.api[c].activeRepoRef = Len(u.references)]
<1>1. /\ s.references \in Seq(ReferenceRecords) /\ s.api \in [Clients -> Apis]
      /\ s.api[c] \in Apis /\ n \in Nat /\ n = Len(s.references) + 1
      /\ DOMAIN s.references = 1..Len(s.references)
  BY DEF Servers
<1> HIDE DEF n
<1>2. /\ t \in Servers /\ CacheInv(t) /\ t.api = s.api /\ t.astray = s.astray
      /\ Len(t.references) = Len(s.references)
      /\ \A q \in DOMAIN s.references :
           /\ t.references[q].client = s.references[q].client
           /\ t.references[q].cwd = s.references[q].cwd
           /\ t.references[q].promise = s.references[q].promise
  <2>1. CASE old = None
    BY <2>1
  <2>2. CASE old # None
    <3>1. old \in DOMAIN s.references
      BY <2>2, <1>1 DEF ApisHaveReferences, None
    <3>2. t = Unref(s, old)
      BY <2>2
    <3> HIDE DEF old, t
    <3>3. /\ t \in Servers /\ CacheInv(t) /\ t.api = s.api /\ t.astray = s.astray
          /\ t.references = [s.references EXCEPT ![old].disposed = TRUE]
      BY <3>1, <3>2, GivingBackKeepsCache
    <3>4. Len(t.references) = Len(s.references)
      BY <1>1, <3>3
    <3>5. s.references[old] \in ReferenceRecords
      BY <1>1, <3>1
    <3>6. ASSUME NEW q \in DOMAIN s.references
          PROVE  /\ t.references[q].client = s.references[q].client
                 /\ t.references[q].cwd = s.references[q].cwd
                 /\ t.references[q].promise = s.references[q].promise
      BY <1>1, <3>3, <3>5 DEF ReferenceRecords
    <3> QED BY <3>3, <3>4, <3>6
  <2> QED BY <2>1, <2>2
<1> HIDE DEF t, old
<1> DEFINE atLoading == [s.api[c] EXCEPT !.currentState = Loading]
<1>3. atLoading \in Apis
  BY <1>1, LoadingIsAState DEF Apis
<1>4. loading = [t EXCEPT !.api[c] = atLoading]
  BY <1>2 DEF Servers
<1> HIDE DEF loading, atLoading
<1>5. /\ loading \in Servers /\ CacheInv(loading)
      /\ loading.references = t.references /\ loading.astray = s.astray
      /\ loading.api = [s.api EXCEPT ![c] = atLoading]
  BY <1>2, <1>3, <1>4, ChangingWindow
<1> DEFINE new == Reference(c, cwd, Lookup(loading, cwd))
<1>6. /\ u \in Servers /\ CacheInv(u) /\ u.api = loading.api /\ u.astray = s.astray
      /\ u.references = Append(t.references, new)
  BY <1>5, GettingKeepsCache
<1>7. new.client = c /\ new.cwd = cwd /\ new.promise \in {"pending", "resolved"}
  BY DEF Reference
<1> HIDE DEF u, new
<1>8. /\ Len(u.references) = n /\ DOMAIN u.references = DOMAIN s.references \cup {n}
      /\ u.references[n] = new
      /\ \A q \in DOMAIN s.references : u.references[q] = t.references[q]
  <2>1. t.references \in Seq(ReferenceRecords)
    BY <1>2 DEF Servers
  <2> QED BY <1>1, <1>2, <1>6, <2>1
<1> DEFINE active == [s.api[c] EXCEPT !.currentState = Loading, !.activeRepoRef = n]
<1>9. active \in Apis /\ active.activeRepoRef = n /\ [atLoading EXCEPT !.activeRepoRef = n] = active
  BY <1>1, LoadingIsAState DEF Apis, atLoading
<1>10. w = [u EXCEPT !.api[c] = active]
  <2>1. u.api[c] = atLoading
    BY <1>1, <1>5, <1>6
  <2> HIDE DEF active
  <2> QED BY <1>8, <1>9, <2>1
<1>11. active.connection = s.api[c].connection
  BY <1>1 DEF Apis
<1> HIDE DEF w, active
<1>12. /\ w \in Servers /\ CacheInv(w)
       /\ w.references = u.references /\ w.astray = s.astray
       /\ w.api = [u.api EXCEPT ![c] = active]
  BY <1>6, <1>9, <1>10, ChangingWindow
<1>13. w.api = [s.api EXCEPT ![c] = active]
  BY <1>1, <1>5, <1>6, <1>12
<1>14. ApisHaveReferences(w)
  <2> SUFFICES ASSUME NEW d \in Clients
               PROVE  w.api[d].activeRepoRef \in 0..n
    BY <1>8, <1>12 DEF ApisHaveReferences
  <2>1. CASE d = c
    BY <2>1, <1>1, <1>9, <1>13
  <2>2. CASE d # c
    <3>1. w.api[d] = s.api[d]
      BY <2>2, <1>1, <1>13
    <3>2. s.api[d].activeRepoRef \in 0..Len(s.references)
      BY DEF ApisHaveReferences
    <3> QED BY <3>1, <3>2, <1>1
  <2> QED BY <2>1, <2>2
<1>15. SetActiveRepoForCwd(s, c, cwd) = w
  BY DEF SetActiveRepoForCwd, w, u, loading, t, old
<1>16. SameConnections(s, w)
  BY <1>1, <1>9, <1>11, <1>13 DEF SameConnections, None
<1>17. LoadsAnother(s, c, cwd, w, n)
  BY <1>2, <1>7, <1>8, <1>12, <1>13 DEF LoadsAnother, active
<1> QED BY <1>12, <1>14, <1>15, <1>16, <1>17 DEF n

\* A message, whatever the state of the window.
LEMMA HandlingKeepsInv ==
  ASSUME NEW s, ServerInv(s), NEW c \in Clients, NEW m \in Messages
  PROVE  LET t == HandleIncomingMessage(s, c, m) IN ServerInv(t) /\ SameConnections(s, t)
<1>1. CASE m.type = "changeCwd"
  <2>1. HandleIncomingMessage(s, c, m) = SetActiveRepoForCwd(s, c, m.cwd)
    BY <1>1 DEF HandleIncomingMessage
  <2>2. m.cwd \in Cwds
    BY DEF Messages
  <2>3. ASSUME NEW cwd \in Cwds
        PROVE  LET t == SetActiveRepoForCwd(s, c, cwd) IN ServerInv(t) /\ SameConnections(s, t)
    BY SettingActiveRepo
  <2> QED BY <2>1, <2>2, <2>3
<1>2. CASE m.type # "changeCwd"
  <2> DEFINE meant == s.astray \cup ({m.cwd} \ {s.api[c].currentState.cwd})
             t == [s EXCEPT !.astray = meant]
  <2>1. HandleIncomingMessage(s, c, m) = t
    BY <1>2 DEF HandleIncomingMessage
  <2>2. meant \in SUBSET Cwds
    BY DEF Messages, ServerInv, Servers
  <2> HIDE DEF meant
  <2>3. /\ t \in Servers
        /\ t.repositories = s.repositories /\ t.reposByRoot = s.reposByRoot
        /\ t.references = s.references /\ t.api = s.api
    BY <2>2 DEF ServerInv, Servers
  <2> HIDE DEF t
  <2>4. CacheInv(t)
    BY <2>3, CacheIsApart DEF ServerInv
  <2>5. ApisHaveReferences(t) /\ SameConnections(s, t)
    BY <2>3 DEF ServerInv, ApisHaveReferences, SameConnections
  <2> QED BY <2>1, <2>3, <2>4, <2>5 DEF ServerInv
<1> QED BY <1>1, <1>2

\* All messages that waited are handled and forgotten.
LEMMA ProcessingKeepsInv ==
  ASSUME NEW s, ServerInv(s), NEW c \in Clients
  PROVE  LET t == ProcessQueuedMessages(s, c) IN ServerInv(t) /\ SameConnections(s, t)
<1> DEFINE queue == s.api[c].queuedMessages
           Kept(t) == ServerInv(t) /\ SameConnections(s, t)
<1>1. queue \in Seq(Messages)
  BY DEF ServerInv, Servers, Apis
<1>2. Len(queue) \in Nat
  BY <1>1
<1>3. PICK h :
        /\ IsHandled(h, s, c, queue, Len(queue))
        /\ ProcessQueuedMessages(s, c) = [h[Len(queue)] EXCEPT !.api[c].queuedMessages = <<>>]
  BY <1>2, QueueIsHandled
<1> HIDE DEF queue
<1> DEFINE T == {n \in 0..Len(queue) : ~Kept(h[n])}
<1>4. T = {}
  <2> SUFFICES ASSUME T # {} PROVE FALSE
    OBVIOUS
  <2>1. T \subseteq Nat
    BY <1>2
  <2>2. PICK m \in T : \A n \in T : m <= n
    BY <2>1, SmallestNumber
  <2>3. h[0] = s
    BY <1>2, <1>3 DEF IsHandled
  <2>4. m # 0
    BY <2>2, <2>3 DEF SameConnections
  <2>5. m - 1 \in 0..Len(queue) /\ m \in 1..Len(queue) /\ m - 1 \notin T
    BY <1>2, <2>2, <2>4
  <2>6. h[m] = HandleIncomingMessage(h[m - 1], c, queue[m])
    BY <1>2, <1>3, <2>4, <2>5 DEF IsHandled
  <2>7. Kept(h[m - 1]) /\ queue[m] \in Messages
    BY <1>1, <2>5
  <2>8. ServerInv(h[m]) /\ SameConnections(h[m - 1], h[m])
    BY <2>6, <2>7, HandlingKeepsInv
  <2>9. Kept(h[m])
    BY <2>7, <2>8 DEF SameConnections
  <2> QED BY <2>2, <2>9
<1>5. Kept(h[Len(queue)])
  BY <1>2, <1>4
<1> DEFINE u == h[Len(queue)]
           emptied == [u.api[c] EXCEPT !.queuedMessages = <<>>]
           t == [u EXCEPT !.api[c] = emptied]
<1>6. u.api \in [Clients -> Apis] /\ u.api[c] \in Apis /\ u \in Servers /\ CacheInv(u)
  BY <1>5 DEF ServerInv, Servers
<1> HIDE DEF u
<1>7. /\ emptied \in Apis /\ emptied.activeRepoRef = u.api[c].activeRepoRef
      /\ emptied.connection = u.api[c].connection
  <2>1. <<>> \in Seq(Messages)
    OBVIOUS
  <2>2. u.api[c] \in Apis
    BY <1>6
  <2> HIDE DEF Messages
  <2> QED BY <2>1, <2>2 DEF Apis
<1>8. ProcessQueuedMessages(s, c) = t
  BY <1>3 DEF u
<1> HIDE DEF emptied, t
<1>9. t \in Servers /\ CacheInv(t) /\ t.references = u.references
      /\ t.api = [u.api EXCEPT ![c] = emptied]
  BY <1>6, <1>7, ChangingWindow DEF t
<1>10. ApisHaveReferences(u)
  BY <1>5 DEF u, ServerInv
<1>11. ApisHaveReferences(t)
  BY <1>6, <1>7, <1>9, <1>10 DEF ApisHaveReferences
<1>12. SameConnections(s, t)
  <2>1. SameConnections(s, u)
    BY <1>5 DEF u
  <2> QED BY <2>1, <1>6, <1>7, <1>9 DEF SameConnections
<1> QED BY <1>8, <1>9, <1>11, <1>12 DEF ServerInv

----------------------------------------------------------------------------
(***************************************************************************)
(* The steps of the server                                                 *)
(***************************************************************************)
\* The windows that are or were connected have asked for a directory, and have
\* a reference.
AskedTypes ==
  /\ asked \in [Clients -> Cwds \cup {NoCwd}]
  /\ \A c \in Clients : api[c].connection # "none" =>
       asked[c] \in Cwds /\ api[c].activeRepoRef # None

RepositoriesInv == ServerInv(Server) /\ AskedTypes

LEMMA FieldsOfServer ==
  /\ Server.repositories = repositories /\ Server.reposByRoot = reposByRoot
  /\ Server.references = references /\ Server.api = api /\ Server.astray = astray
BY DEF Server

LEMMA BecomingServer ==
  ASSUME NEW new, new \in Servers, Becomes(new)
  PROVE  Server' = new
<1>1. /\ repositories' = new.repositories /\ reposByRoot' = new.reposByRoot
      /\ references' = new.references /\ api' = new.api /\ astray' = new.astray
  BY DEF Becomes
<1>2. new = [repositories |-> new.repositories, reposByRoot |-> new.reposByRoot,
             references |-> new.references, api |-> new.api, astray |-> new.astray]
  BY DEF Servers
<1> HIDE DEF Servers
<1> QED BY <1>1, <1>2 DEF Server

\* At most one window asks for a directory.
OneAsks ==
  asked' = asked \/ \E c \in Clients, cwd \in Cwds : asked' = [asked EXCEPT ![c] = cwd]

LEMMA BecomingKeepsInv ==
  ASSUME RepositoriesInv, NEW new, ServerInv(new), SameConnections(Server, new),
         Becomes(new), OneAsks
  PROVE  RepositoriesInv'
<1>1. Server' = new /\ api' = new.api
  BY BecomingServer DEF ServerInv, Becomes
<1>2. /\ asked' \in [Clients -> Cwds \cup {NoCwd}]
      /\ \A c \in Clients : asked'[c] = asked[c] \/ asked'[c] \in Cwds
  BY DEF OneAsks, RepositoriesInv, AskedTypes
<1>3. AskedTypes'
  BY <1>1, <1>2, FieldsOfServer DEF RepositoriesInv, AskedTypes, SameConnections
<1> QED BY <1>1, <1>3 DEF RepositoriesInv

\* A window whose promise has settled, and its state.
LEMMA SettlingReference ==
  ASSUME NEW s, ServerInv(s), NEW r \in DOMAIN s.references
  PROVE  LET t == [s EXCEPT !.references[r].promise = "settled"]
         IN  /\ ServerInv(t) /\ t.api = s.api /\ t.astray = s.astray
             /\ DOMAIN t.references = DOMAIN s.references
             /\ t.references[r].promise = "settled"
             /\ \A q \in DOMAIN s.references :
                  /\ t.references[q].client = s.references[q].client
                  /\ t.references[q].cwd = s.references[q].cwd
                  /\ q # r => t.references[q] = s.references[q]
<1> USE DEF ServerInv
<1> DEFINE given == [s.references[r] EXCEPT !.promise = "settled"]
           t == [s EXCEPT !.references = [s.references EXCEPT ![r] = given]]
<1>1. s.references \in Seq(ReferenceRecords) /\ s.references[r] \in ReferenceRecords
  BY DEF Servers
<1>2. /\ given \in ReferenceRecords /\ given.promise = "settled"
      /\ given.holds = s.references[r].holds
      /\ given.disposed = s.references[r].disposed /\ given.client = s.references[r].client
      /\ given.cwd = s.references[r].cwd
  BY <1>1 DEF ReferenceRecords
<1>3. [s EXCEPT !.references[r].promise = "settled"] = t
  OBVIOUS
<1> HIDE DEF given
<1>4. /\ [s.references EXCEPT ![r] = given] \in Seq(ReferenceRecords)
      /\ Len([s.references EXCEPT ![r] = given]) = Len(s.references)
  BY <1>1, <1>2
<1>5. /\ t \in Servers /\ t.references = [s.references EXCEPT ![r] = given]
      /\ t.repositories = s.repositories /\ t.reposByRoot = s.reposByRoot
      /\ t.api = s.api /\ t.astray = s.astray
  BY <1>4 DEF Servers
<1> HIDE DEF t
<1>6. /\ DOMAIN t.references = DOMAIN s.references /\ Len(t.references) = Len(s.references)
      /\ t.references[r] = given
      /\ \A q \in DOMAIN s.references : q # r => t.references[q] = s.references[q]
  BY <1>1, <1>4, <1>5
<1>7. NamesExist(t)
  BY <1>2, <1>5, <1>6 DEF CacheInv, NamesExist
<1>8. \A i \in DOMAIN s.repositories : HoldersIn(t, i) = HoldersIn(s, i)
  BY <1>2, <1>6 DEF HoldersIn
<1>9. CacheInv(t)
  BY <1>5, <1>7, <1>8, SameHolders
<1>10. ApisHaveReferences(t)
  BY <1>5, <1>6 DEF ApisHaveReferences
<1> QED BY <1>2, <1>3, <1>5, <1>6, <1>9, <1>10

LEMMA InitRepositories == Init => RepositoriesInv
<1> SUFFICES ASSUME Init PROVE RepositoriesInv
  OBVIOUS
<1> DEFINE a == [connection |-> "none", currentState |-> Loading,
                 queuedMessages |-> <<>>, activeRepoRef |-> None]
<1>1. /\ repositories = <<>> /\ reposByRoot = <<>> /\ references = <<>>
      /\ api = [c \in Clients |-> a] /\ asked = [c \in Clients |-> NoCwd] /\ astray = {}
  BY DEF Init
<1>2. a \in Apis /\ a.connection = "none" /\ a.activeRepoRef = 0
  <2>1. <<>> \in Seq(Messages) /\ None \in Nat /\ None = 0
    BY DEF None
  <2> HIDE DEF Messages
  <2> QED BY <2>1, LoadingIsAState DEF Apis
<1> HIDE DEF a
<1>3. Server \in Servers
  <2>1. api \in [Clients -> Apis]
    BY <1>1, <1>2
  <2>2. /\ repositories \in Seq(RepositoryRecords) /\ reposByRoot \in Seq(Nat)
        /\ references \in Seq(ReferenceRecords) /\ astray \in SUBSET Cwds
    BY <1>1
  <2> QED BY <2>1, <2>2 DEF Server, Servers
<1>4. CacheInv(Server)
  BY <1>1, FieldsOfServer DEF CacheInv, NamesExist, CountsAreExact, LiveAreFound, OneOfARoot
<1>5. ApisHaveReferences(Server)
  BY <1>1, <1>2, FieldsOfServer DEF ApisHaveReferences
<1>6. AskedTypes
  BY <1>1, <1>2 DEF AskedTypes
<1> QED BY <1>3, <1>4, <1>5, <1>6 DEF RepositoriesInv, ServerInv

\* The references whose promise was resolved have a first one.
LEMMA FirstIsResolved ==
  ASSUME ServerInv(Server), Resolved # {}
  PROVE  /\ Min(Resolved) \in DOMAIN references
         /\ references[Min(Resolved)].promise = "resolved"
         /\ references[Min(Resolved)] \in ReferenceRecords
<1>1. references \in Seq(ReferenceRecords)
  BY FieldsOfServer DEF ServerInv, Servers
<1>2. Resolved \subseteq Nat
  BY <1>1 DEF Resolved
<1>3. Min(Resolved) \in Resolved
  BY <1>2, MinIsSmallest
<1> QED BY <1>1, <1>3 DEF Resolved

\* A Repository, or the error, is set, and what waited is handled.
LEMMA SettingStateKeepsInv ==
  ASSUME NEW s, ServerInv(s), NEW c \in Clients, NEW state \in States
  PROVE  LET t == [s EXCEPT !.api[c].currentState = state]
             p == ProcessQueuedMessages(t, c)
         IN  /\ ServerInv(t) /\ ServerInv(p) /\ SameConnections(s, p)
             /\ t.references = s.references /\ t.astray = s.astray
             /\ t.api = [s.api EXCEPT ![c] = [s.api[c] EXCEPT !.currentState = state]]
<1> DEFINE a == [s.api[c] EXCEPT !.currentState = state]
           t == [s EXCEPT !.api[c] = a]
<1>1. s.api \in [Clients -> Apis] /\ s.api[c] \in Apis /\ s \in Servers /\ CacheInv(s)
  BY DEF ServerInv, Servers
<1>2. /\ a \in Apis /\ a.activeRepoRef = s.api[c].activeRepoRef
      /\ a.connection = s.api[c].connection
  BY <1>1 DEF Apis
<1>3. [s EXCEPT !.api[c].currentState = state] = t
  OBVIOUS
<1> HIDE DEF a
<1>4. /\ t \in Servers /\ CacheInv(t) /\ t.references = s.references /\ t.astray = s.astray
      /\ t.api = [s.api EXCEPT ![c] = a]
  BY <1>1, <1>2, ChangingWindow
<1> HIDE DEF t
<1>5. ServerInv(t) /\ SameConnections(s, t)
  BY <1>1, <1>2, <1>4 DEF ServerInv, ApisHaveReferences, SameConnections
<1>6. ServerInv(ProcessQueuedMessages(t, c)) /\ SameConnections(t, ProcessQueuedMessages(t, c))
  BY <1>5, ProcessingKeepsInv
<1>7. SameConnections(s, ProcessQueuedMessages(t, c))
  BY <1>5, <1>6 DEF SameConnections
<1> QED BY <1>3, <1>4, <1>5, <1>6, <1>7 DEF a

LEMMA StatesAreTyped ==
  ASSUME NEW i \in Nat, NEW cwd \in Cwds
  PROVE  State(i, cwd) \in States
BY DEF State, States

LEMMA DeliverKeepsInv ==
  ASSUME RepositoriesInv, Deliver
  PROVE  RepositoriesInv'
<1> DEFINE r == Min(Resolved)
           s == [Server EXCEPT !.references[r].promise = "settled"]
           c == references[r].client
           state == State(references[r].value, references[r].cwd)
           p == ProcessQueuedMessages([s EXCEPT !.api[c].currentState = state], c)
<1>1. ServerInv(Server) /\ AskedTypes
  BY DEF RepositoriesInv
<1>2. r \in DOMAIN references /\ references[r] \in ReferenceRecords
  BY <1>1, FirstIsResolved DEF Deliver
<1> HIDE DEF r
<1>3. c \in Clients /\ state \in States
  BY <1>2, StatesAreTyped DEF ReferenceRecords
<1>4. ServerInv(s) /\ s.api = api
  BY <1>1, <1>2, SettlingReference, FieldsOfServer
<1>5. Becomes(p) /\ asked' = asked
  BY DEF Deliver, SetCurrentState, r
<1> HIDE DEF s, c, state
<1>6. ServerInv(p) /\ SameConnections(s, p)
  BY <1>3, <1>4, SettingStateKeepsInv
<1> HIDE DEF p
<1>7. SameConnections(Server, p)
  BY <1>4, <1>6, FieldsOfServer DEF SameConnections
<1> QED BY <1>5, <1>6, <1>7, BecomingKeepsInv DEF OneAsks

LEMMA ConnectKeepsInv ==
  ASSUME RepositoriesInv, NEW c \in Clients, NEW cwd \in Cwds, Connect(c, cwd)
  PROVE  RepositoriesInv'
<1> DEFINE a == [api[c] EXCEPT !.connection = "open"]
           s == [Server EXCEPT !.api[c].connection = "open"]
           n == Len(s.references) + 1
           w == SetActiveRepoForCwd(s, c, cwd)
<1>1. ServerInv(Server) /\ AskedTypes
  BY DEF RepositoriesInv
<1>2. Server \in Servers /\ CacheInv(Server) /\ api \in [Clients -> Apis] /\ api[c] \in Apis
  BY <1>1, FieldsOfServer DEF ServerInv, Servers
<1>3. a \in Apis /\ a.activeRepoRef = api[c].activeRepoRef
  BY <1>2 DEF Apis
<1>4. s = [Server EXCEPT !.api[c] = a]
  BY FieldsOfServer
<1>5. asked' = [asked EXCEPT ![c] = cwd] /\ Becomes(w)
  BY DEF Connect
<1> HIDE DEF a, s
<1>6. /\ s \in Servers /\ CacheInv(s) /\ s.references = references
      /\ s.api = [api EXCEPT ![c] = a]
  BY <1>2, <1>3, <1>4, ChangingWindow, FieldsOfServer
<1>7. ServerInv(s)
  BY <1>1, <1>2, <1>3, <1>6, FieldsOfServer DEF ServerInv, ApisHaveReferences
<1>8. ServerInv(w) /\ SameConnections(s, w) /\ LoadsAnother(s, c, cwd, w, n)
  BY <1>7, SettingActiveRepo
<1>9. n \in Nat /\ n # None /\ s.api[c] \in Apis
  BY <1>6 DEF Servers, None
<1> HIDE DEF w, n
<1>10. w.api[c].activeRepoRef = n
  BY <1>2, <1>6, <1>8, <1>9 DEF LoadsAnother, Apis
<1>11. Server' = w /\ api' = w.api
  BY <1>5, <1>8, BecomingServer DEF ServerInv, Becomes
<1>12. AskedTypes'
  <2>1. asked' \in [Clients -> Cwds \cup {NoCwd}]
    BY <1>1, <1>5 DEF AskedTypes
  <2>2. ASSUME NEW d \in Clients, w.api[d].connection # "none"
        PROVE  asked'[d] \in Cwds /\ w.api[d].activeRepoRef # None
    <3>1. CASE d = c
      BY <3>1, <1>1, <1>5, <1>9, <1>10 DEF AskedTypes
    <3>2. CASE d # c
      BY <3>2, <2>2, <1>1, <1>2, <1>5, <1>6, <1>8 DEF AskedTypes, SameConnections
    <3> QED BY <3>1, <3>2
  <2> QED BY <2>1, <2>2, <1>11 DEF AskedTypes
<1> QED BY <1>8, <1>11, <1>12 DEF RepositoriesInv

\* A message is handled or waits.
LEMMA ReceiveKeepsInv ==
  ASSUME RepositoriesInv, NEW c \in Clients, NEW m \in Messages, Receive(c, m),
         OneAsks
  PROVE  RepositoriesInv'
<1>1. ServerInv(Server)
  BY DEF RepositoriesInv
<1>2. CASE api[c].currentState.type = "loading"
  <2> DEFINE a == [api[c] EXCEPT !.queuedMessages = Append(@, m)]
             t == [Server EXCEPT !.api[c].queuedMessages = Append(@, m)]
  <2>1. Server \in Servers /\ CacheInv(Server) /\ api \in [Clients -> Apis] /\ api[c] \in Apis
    BY <1>1, FieldsOfServer DEF ServerInv, Servers
  <2>2. /\ a \in Apis /\ a.activeRepoRef = api[c].activeRepoRef
        /\ a.connection = api[c].connection
    <3>1. Append(api[c].queuedMessages, m) \in Seq(Messages)
      BY <2>1 DEF Apis
    <3> HIDE DEF Messages
    <3> QED BY <2>1, <3>1 DEF Apis
  <2>3. t = [Server EXCEPT !.api[c] = a]
    BY FieldsOfServer
  <2>4. Becomes(t)
    BY <1>2 DEF Receive
  <2> HIDE DEF a, t
  <2>5. /\ t \in Servers /\ CacheInv(t) /\ t.references = references
        /\ t.api = [api EXCEPT ![c] = a]
    BY <2>1, <2>2, <2>3, ChangingWindow, FieldsOfServer
  <2>6. ServerInv(t) /\ SameConnections(Server, t)
    BY <1>1, <2>1, <2>2, <2>5, FieldsOfServer DEF ServerInv, ApisHaveReferences,
       SameConnections
  <2> QED BY <2>4, <2>6, BecomingKeepsInv
<1>3. CASE api[c].currentState.type # "loading"
  <2> DEFINE t == HandleIncomingMessage(Server, c, m)
  <2>1. ServerInv(t) /\ SameConnections(Server, t)
    BY <1>1, HandlingKeepsInv
  <2>2. Becomes(t)
    BY <1>3 DEF Receive
  <2> HIDE DEF t
  <2> QED BY <2>1, <2>2, BecomingKeepsInv
<1> QED BY <1>2, <1>3

LEMMA WindowsKeepInv ==
  ASSUME RepositoriesInv, NEW c \in Clients
  PROVE  /\ \A cwd \in Cwds : ChangeCwd(c, cwd) => RepositoriesInv'
         /\ Request(c) => RepositoriesInv'
<1>1. ASSUME NEW cwd \in Cwds, ChangeCwd(c, cwd) PROVE RepositoriesInv'
  <2>1. [type |-> "changeCwd", cwd |-> cwd] \in Messages
    BY DEF Messages
  <2>2. OneAsks
    BY <1>1 DEF ChangeCwd, OneAsks
  <2>3. Receive(c, [type |-> "changeCwd", cwd |-> cwd])
    BY <1>1 DEF ChangeCwd
  <2> QED BY <2>1, <2>2, <2>3, ReceiveKeepsInv
<1>2. ASSUME Request(c) PROVE RepositoriesInv'
  <2>1. Receive(c, [type |-> "request", cwd |-> asked[c]])
    BY <1>2 DEF Request
  <2>2. asked[c] \in Cwds
    BY <2>1 DEF Receive, RepositoriesInv, AskedTypes
  <2>3. [type |-> "request", cwd |-> asked[c]] \in Messages
    BY <2>2 DEF Messages
  <2>4. OneAsks
    BY <1>2 DEF Request, OneAsks
  <2> QED BY <2>1, <2>3, <2>4, ReceiveKeepsInv
<1> QED BY <1>1, <1>2

LEMMA DisconnectKeepsInv ==
  ASSUME RepositoriesInv, NEW c \in Clients, Disconnect(c)
  PROVE  RepositoriesInv'
<1> DEFINE r == api[c].activeRepoRef
           s == Unref(Server, r)
           a == [s.api[c] EXCEPT !.connection = "closed"]
           t == [s EXCEPT !.api[c].connection = "closed"]
<1>1. ServerInv(Server) /\ AskedTypes /\ Server \in Servers /\ CacheInv(Server)
  BY DEF RepositoriesInv, ServerInv
<1>2. api \in [Clients -> Apis] /\ references \in Seq(ReferenceRecords) /\ api[c] \in Apis
  BY <1>1, FieldsOfServer DEF Servers
<1>3. r \in DOMAIN Server.references
  <2>1. r \in 0..Len(references) /\ r # None
    BY <1>1, FieldsOfServer DEF Disconnect, AskedTypes, ServerInv, ApisHaveReferences
  <2> QED BY <1>2, <2>1, FieldsOfServer DEF None
<1>4. Becomes(t) /\ asked' = asked /\ api[c].connection # "none"
  BY DEF Disconnect
<1> HIDE DEF r
<1>5. /\ s \in Servers /\ CacheInv(s) /\ s.api = api
      /\ s.references = [references EXCEPT ![r].disposed = TRUE]
  BY <1>1, <1>3, GivingBackKeepsCache, FieldsOfServer
<1>6. t = [s EXCEPT !.api[c] = a]
  OBVIOUS
<1> HIDE DEF s
<1>7. /\ a \in Apis /\ a.activeRepoRef = api[c].activeRepoRef /\ a.connection = "closed"
  BY <1>2, <1>5 DEF Apis
<1> HIDE DEF a, t
<1>8. /\ t \in Servers /\ CacheInv(t) /\ t.references = s.references
      /\ t.api = [api EXCEPT ![c] = a]
  BY <1>5, <1>6, <1>7, ChangingWindow
<1>9. Len(t.references) = Len(references)
  BY <1>2, <1>5, <1>8
<1>10. ServerInv(t)
  BY <1>1, <1>2, <1>7, <1>8, <1>9, FieldsOfServer DEF ServerInv, ApisHaveReferences
<1>11. Server' = t /\ api' = t.api
  BY <1>4, <1>8, BecomingServer DEF Becomes
<1>12. AskedTypes'
  BY <1>1, <1>2, <1>4, <1>7, <1>8, <1>11 DEF AskedTypes
<1> QED BY <1>10, <1>11, <1>12 DEF RepositoriesInv

LEMMA GetRepoInfoKeepsInv ==
  ASSUME RepositoriesInv, NEW r \in DOMAIN references, GetRepoInfo(r)
  PROVE  RepositoriesInv'
<1>1. ServerInv(Server) /\ Server \in Servers /\ CacheInv(Server) /\ r \in DOMAIN Server.references
  BY FieldsOfServer DEF RepositoriesInv, ServerInv
<1>2. Server.references[r].promise = "pending" /\ references[r] \in ReferenceRecords
  BY <1>1, FieldsOfServer DEF GetRepoInfo, Servers
<1>3. OneAsks
  BY DEF GetRepoInfo, OneAsks
<1>4. CASE Becomes(Resolve(Server, r, None))
  <2> DEFINE t == Resolve(Server, r, None)
  <2>1. /\ t \in Servers /\ CacheInv(t) /\ t.api = Server.api
        /\ Len(t.references) = Len(Server.references)
    BY <1>1, <1>2, ResolvingReference, FailingKeepsCache DEF None
  <2> HIDE DEF t
  <2>2. ServerInv(t) /\ SameConnections(Server, t)
    BY <1>1, <2>1 DEF ServerInv, ApisHaveReferences, SameConnections
  <2> QED BY <1>3, <1>4, <2>2, BecomingKeepsInv DEF t
<1>5. CASE /\ RootOf[references[r].cwd] # NoRoot
           /\ Becomes(CreateForReference(Server, r, RootOf[references[r].cwd]))
  <2> DEFINE root == RootOf[references[r].cwd]
             t == CreateForReference(Server, r, root)
  <2>1. root \in Roots
    BY <1>2, <1>5, PathsAssumption DEF ReferenceRecords
  <2>2. Becomes(t)
    BY <1>5
  <2> HIDE DEF root
  <2>3. /\ t \in Servers /\ CacheInv(t) /\ t.api = Server.api
        /\ Len(t.references) = Len(Server.references)
    BY <1>1, <1>2, <2>1, FindingKeepsCache
  <2> HIDE DEF t
  <2>4. ServerInv(t) /\ SameConnections(Server, t)
    BY <1>1, <2>3 DEF ServerInv, ApisHaveReferences, SameConnections
  <2> QED BY <1>3, <2>2, <2>4, BecomingKeepsInv
<1> QED BY <1>4, <1>5 DEF GetRepoInfo

LEMMA NextRepositories == RepositoriesInv /\ [Next]_vars => RepositoriesInv'
<1> SUFFICES ASSUME RepositoriesInv, [Next]_vars PROVE RepositoriesInv'
  OBVIOUS
<1>1. CASE Deliver BY <1>1, DeliverKeepsInv
<1>2. CASE \E c \in Clients, cwd \in Cwds : Connect(c, cwd) \/ ChangeCwd(c, cwd)
  BY <1>2, ConnectKeepsInv, WindowsKeepInv
<1>3. CASE \E c \in Clients : Request(c) \/ Disconnect(c)
  BY <1>3, WindowsKeepInv, DisconnectKeepsInv
<1>4. CASE \E r \in DOMAIN references : GetRepoInfo(r)
  BY <1>4, GetRepoInfoKeepsInv
<1>5. CASE UNCHANGED vars
  <2>1. Server' = Server /\ asked' = asked /\ api' = api
    BY <1>5 DEF vars, Server
  <2> QED BY <2>1 DEF RepositoriesInv, AskedTypes
<1> QED BY <1>1, <1>2, <1>3, <1>4, <1>5 DEF Next

\* The invariant of the server: what the windows, the references and the Map
\* name exists, and lookup finds every Repository that lives.
THEOREM RepositoriesInvHolds == Spec => []RepositoriesInv
BY InitRepositories, NextRepositories, PTL DEF Spec

\* A Repository counts its references exactly and lives as long as one is left,
\* and no two live on one root, whatever windows do while getRepoInfo runs
\* (RepositoryCache.getOrCreate, RefCounted, ServerToClientAPI).
THEOREM RepositoriesStayShared == Spec => []RepositoriesAreShared
<1>1. RepositoriesInv => RepositoriesAreShared
  <2> SUFFICES ASSUME RepositoriesInv PROVE RepositoriesAreShared
    OBVIOUS
  <2>1. CountsAreExact(Server) /\ OneOfARoot(Server)
    BY DEF RepositoriesInv, ServerInv, CacheInv
  <2>2. \A i : Holders(i) = HoldersIn(Server, i)
    BY FieldsOfServer DEF Holders, HoldersIn
  <2>3. RefCountsAreExact
    BY <2>1, <2>2, FieldsOfServer DEF RefCountsAreExact, CountsAreExact
  <2>4. OneRepositoryPerRoot
    BY <2>1, FieldsOfServer DEF OneRepositoryPerRoot, OneOfARoot
  <2> QED BY <2>3, <2>4 DEF RepositoriesAreShared
<1> QED BY <1>1, RepositoriesInvHolds, PTL

----------------------------------------------------------------------------
(***************************************************************************)
(* Users who wait for a Repository before they change directory.  What a   *)
(* window is waiting for is the Repository of the directory it has asked   *)
(* for last: no older promise of it is left to set another one, and all    *)
(* that waits was meant for it.                                            *)
(***************************************************************************)
WaitsInPlace(s, c, cwd) ==
  /\ \A n \in DOMAIN s.api[c].queuedMessages :
       s.api[c].queuedMessages[n] = [type |-> "request", cwd |-> cwd]
  /\ \A r \in DOMAIN s.references : s.references[r].client = c =>
       /\ s.api[c].connection # "none"
       /\ s.references[r].promise # "settled" =>
            r = s.api[c].activeRepoRef /\ s.api[c].currentState.type = "loading"
  /\ s.api[c].connection = "none" => s.api[c].queuedMessages = <<>>
  /\ s.api[c].connection # "none" => s.references[s.api[c].activeRepoRef].cwd = cwd
  /\ s.api[c].connection # "none" /\ s.api[c].currentState.type # "loading" =>
       s.api[c].currentState.cwd = cwd /\ s.api[c].queuedMessages = <<>>

PatientInv ==
  patient => astray = {} /\ \A c \in Clients : WaitsInPlace(Server, c, asked[c])

LEMMA InitPatient == Init => PatientInv
<1> SUFFICES ASSUME Init
             PROVE  astray = {} /\ \A c \in Clients : WaitsInPlace(Server, c, asked[c])
  BY DEF PatientInv
<1> DEFINE a == [connection |-> "none", currentState |-> Loading,
                 queuedMessages |-> <<>>, activeRepoRef |-> None]
<1>1. references = <<>> /\ api = [d \in Clients |-> a] /\ astray = {}
  BY DEF Init
<1>2. a.connection = "none" /\ a.queuedMessages = <<>>
  OBVIOUS
<1> HIDE DEF a
<1>3. ASSUME NEW c \in Clients PROVE WaitsInPlace(Server, c, asked[c])
  <2>1. Server.references = <<>> /\ Server.api[c] = a
    BY <1>1, FieldsOfServer
  <2> QED BY <2>1, <1>2 DEF WaitsInPlace
<1> QED BY <1>1, <1>3

\* A request is handled in the directory of the Repository.
LEMMA RequestInPlace ==
  ASSUME NEW s, s \in Servers, NEW c \in Clients, NEW m, m.type = "request",
         m.cwd = s.api[c].currentState.cwd
  PROVE  HandleIncomingMessage(s, c, m) = s
<1>1. HandleIncomingMessage(s, c, m)
        = [s EXCEPT !.astray = @ \cup ({m.cwd} \ {s.api[c].currentState.cwd})]
  BY DEF HandleIncomingMessage
<1>2. s.astray \cup ({m.cwd} \ {s.api[c].currentState.cwd}) = s.astray
  OBVIOUS
<1>3. [s EXCEPT !.astray = s.astray] = s
  BY DEF Servers
<1> QED BY <1>1, <1>2, <1>3

\* So are all that waited for it.
LEMMA RequestsInPlace ==
  ASSUME NEW s, s \in Servers, NEW c \in Clients, NEW cwd,
         s.api[c].currentState.cwd = cwd,
         \A n \in DOMAIN s.api[c].queuedMessages :
           s.api[c].queuedMessages[n] = [type |-> "request", cwd |-> cwd]
  PROVE  ProcessQueuedMessages(s, c) = [s EXCEPT !.api[c].queuedMessages = <<>>]
<1> DEFINE queue == s.api[c].queuedMessages
<1>1. queue \in Seq(Messages)
  BY DEF Servers, Apis
<1>2. Len(queue) \in Nat /\ DOMAIN queue = 1..Len(queue)
  BY <1>1
<1>3. PICK h :
        /\ IsHandled(h, s, c, queue, Len(queue))
        /\ ProcessQueuedMessages(s, c) = [h[Len(queue)] EXCEPT !.api[c].queuedMessages = <<>>]
  BY <1>2, QueueIsHandled
<1>4. \A n \in DOMAIN queue : queue[n].type = "request" /\ queue[n].cwd = cwd
  OBVIOUS
<1> HIDE DEF queue
<1> DEFINE T == {n \in 0..Len(queue) : h[n] # s}
<1>5. T = {}
  <2> SUFFICES ASSUME T # {} PROVE FALSE
    OBVIOUS
  <2>1. T \subseteq Nat
    BY <1>2
  <2>2. PICK m \in T : \A n \in T : m <= n
    BY <2>1, SmallestNumber
  <2>3. h[0] = s
    BY <1>2, <1>3 DEF IsHandled
  <2>4. m # 0
    BY <2>2, <2>3
  <2>5. m - 1 \in 0..Len(queue) /\ m \in 1..Len(queue) /\ m - 1 \notin T
    BY <1>2, <2>2, <2>4
  <2>6. h[m] = HandleIncomingMessage(h[m - 1], c, queue[m])
    BY <1>2, <1>3, <2>4, <2>5 DEF IsHandled
  <2>7. h[m - 1] = s
    BY <2>5
  <2>8. h[m] = s
    BY <1>2, <1>4, <2>5, <2>6, <2>7, RequestInPlace
  <2> QED BY <2>2, <2>8
<1>6. h[Len(queue)] = s
  BY <1>2, <1>5
<1> QED BY <1>3, <1>6

\* From s to t only what the window c is waiting for may change.
OthersStay(s, t, c) ==
  /\ \A d \in Clients \ {c} : t.api[d] = s.api[d]
  /\ DOMAIN s.references \subseteq DOMAIN t.references
  /\ \A q \in DOMAIN s.references :
       /\ t.references[q].client = s.references[q].client
       /\ t.references[q].cwd = s.references[q].cwd
       /\ s.references[q].client # c /\ t.references[q].promise # "settled" =>
            s.references[q].promise # "settled"
  /\ \A q \in DOMAIN t.references \ DOMAIN s.references : t.references[q].client = c

\* The other windows do not notice when one of them changes.
LEMMA OthersWaitInPlace ==
  ASSUME NEW s, NEW t, NEW c \in Clients, NEW d \in Clients, d # c, NEW cwd,
         WaitsInPlace(s, d, cwd), OthersStay(s, t, c),
         s.api[d].connection # "none" => s.api[d].activeRepoRef \in DOMAIN s.references
  PROVE  WaitsInPlace(t, d, cwd)
BY DEF WaitsInPlace, OthersStay

LEMMA ActiveRepoIsKnown ==
  ASSUME RepositoriesInv, NEW d \in Clients, api[d].connection # "none"
  PROVE  api[d].activeRepoRef \in DOMAIN references
<1>1. references \in Seq(ReferenceRecords)
  BY FieldsOfServer DEF RepositoriesInv, ServerInv, Servers
<1>2. api[d].activeRepoRef \in 0..Len(references) /\ api[d].activeRepoRef # None
  BY FieldsOfServer DEF RepositoriesInv, ServerInv, ApisHaveReferences, AskedTypes
<1> QED BY <1>1, <1>2 DEF None

\* A step of one window that leaves it in place.
LEMMA OneMoves ==
  ASSUME RepositoriesInv, PatientInv, patient, NEW c \in Clients, NEW t, t \in Servers,
         Becomes(t), t.astray = astray, OthersStay(Server, t, c),
         WaitsInPlace(t, c, asked'[c]),
         \A d \in Clients \ {c} : asked'[d] = asked[d]
  PROVE  PatientInv'
<1>1. Server' = t /\ astray' = {} /\ \A d \in Clients : WaitsInPlace(Server, d, asked[d])
  BY BecomingServer DEF Becomes, PatientInv
<1>2. ASSUME NEW d \in Clients PROVE WaitsInPlace(t, d, asked'[d])
  <2>1. CASE d = c
    BY <2>1
  <2>2. CASE d # c
    <3>1. Server.api[d].connection # "none" => Server.api[d].activeRepoRef \in DOMAIN Server.references
      BY ActiveRepoIsKnown, FieldsOfServer
    <3>2. WaitsInPlace(Server, d, asked[d]) /\ asked'[d] = asked[d]
      BY <1>1, <2>2
    <3> HIDE DEF Server
    <3> QED BY <2>2, <3>1, <3>2, OthersWaitInPlace
  <2> QED BY <2>1, <2>2
<1> QED BY <1>1, <1>2 DEF PatientInv

\* The window whose Repository has come is in the directory it has asked for.
LEMMA DeliverInPlace ==
  ASSUME RepositoriesInv, PatientInv, patient, Deliver
  PROVE  PatientInv'
<1> DEFINE r == Min(Resolved)
           s == [Server EXCEPT !.references[r].promise = "settled"]
           c == references[r].client
           cwd == references[r].cwd
           state == State(references[r].value, cwd)
           t == [s EXCEPT !.api[c].currentState = state]
           p == ProcessQueuedMessages(t, c)
<1>1. ServerInv(Server) /\ AskedTypes
  BY DEF RepositoriesInv
<1>2. /\ r \in DOMAIN references /\ references[r] \in ReferenceRecords
      /\ references[r].promise = "resolved"
  BY <1>1, FirstIsResolved DEF Deliver
<1> HIDE DEF r, c, cwd, state, t, p
<1>3. c \in Clients /\ state \in States /\ state.type # "loading" /\ state.cwd = cwd
  BY <1>2, StatesAreTyped DEF ReferenceRecords, State, c, cwd, state
<1>4. /\ ServerInv(s) /\ s.api = api /\ s.astray = astray
      /\ DOMAIN s.references = DOMAIN references /\ s.references[r].promise = "settled"
      /\ \A q \in DOMAIN references :
           /\ s.references[q].client = references[q].client
           /\ s.references[q].cwd = references[q].cwd
           /\ q # r => s.references[q] = references[q]
  <2>1. r \in DOMAIN Server.references
    BY <1>2, FieldsOfServer
  <2>2. /\ ServerInv(s) /\ s.api = Server.api /\ s.astray = Server.astray
        /\ DOMAIN s.references = DOMAIN Server.references
        /\ s.references[r].promise = "settled"
        /\ \A q \in DOMAIN Server.references :
             /\ s.references[q].client = Server.references[q].client
             /\ s.references[q].cwd = Server.references[q].cwd
             /\ q # r => s.references[q] = Server.references[q]
    BY <1>1, <2>1, SettlingReference
  <2> HIDE DEF s
  <2> QED BY <2>2, FieldsOfServer
<1>5. Becomes(p) /\ UNCHANGED <<asked, patient>>
  BY DEF Deliver, SetCurrentState, r, c, cwd, state, t, p
<1>6. WaitsInPlace(Server, c, asked[c])
  BY <1>3 DEF PatientInv
<1> HIDE DEF s
<1>7. /\ api[c].connection # "none" /\ r = api[c].activeRepoRef /\ cwd = asked[c]
      /\ \A q \in DOMAIN references :
           references[q].client = c /\ references[q].promise # "settled" => q = r
      /\ \A n \in DOMAIN api[c].queuedMessages :
           api[c].queuedMessages[n] = [type |-> "request", cwd |-> cwd]
  BY <1>2, <1>6, FieldsOfServer DEF WaitsInPlace, c, cwd
<1>8. /\ ServerInv(t) /\ ServerInv(p)
      /\ t.references = s.references /\ t.astray = astray
      /\ t.api = [api EXCEPT ![c] = [api[c] EXCEPT !.currentState = state]]
  BY <1>3, <1>4, SettingStateKeepsInv DEF t, p
<1>9. api \in [Clients -> Apis] /\ api[c] \in Apis
  BY <1>1, <1>3, FieldsOfServer DEF ServerInv, Servers
<1>10. /\ t.api[c].currentState = state /\ t.api[c].queuedMessages = api[c].queuedMessages
       /\ t.api[c].connection = api[c].connection
       /\ t.api[c].activeRepoRef = api[c].activeRepoRef
       /\ \A d \in Clients : d # c => t.api[d] = api[d]
  BY <1>3, <1>8, <1>9 DEF Apis
<1>11. p = [t EXCEPT !.api[c].queuedMessages = <<>>]
  <2>1. t \in Servers /\ t.api[c].currentState.cwd = cwd
    BY <1>3, <1>8, <1>10 DEF ServerInv
  <2>2. \A n \in DOMAIN t.api[c].queuedMessages :
          t.api[c].queuedMessages[n] = [type |-> "request", cwd |-> cwd]
    BY <1>7, <1>10
  <2> QED BY <1>3, <2>1, <2>2, RequestsInPlace DEF p
<1> DEFINE emptied == [t.api[c] EXCEPT !.queuedMessages = <<>>]
<1>12. t \in Servers /\ t.api \in [Clients -> Apis] /\ t.api[c] \in Apis
  BY <1>3, <1>8 DEF ServerInv, Servers
<1>13. /\ emptied.currentState = state /\ emptied.queuedMessages = <<>>
       /\ emptied.connection = api[c].connection /\ emptied.activeRepoRef = r
  BY <1>7, <1>10, <1>12 DEF Apis
<1>14. p = [t EXCEPT !.api[c] = emptied]
  BY <1>11
<1> HIDE DEF emptied
<1>15. p.references = s.references /\ p.astray = astray /\ p.api = [t.api EXCEPT ![c] = emptied]
  BY <1>8, <1>12, <1>14 DEF Servers
<1>16. WaitsInPlace(p, c, asked[c])
  <2>1. p.api[c] = emptied
    BY <1>3, <1>12, <1>15
  <2>2. DOMAIN <<>> = {}
    OBVIOUS
  <2>3. \A q \in DOMAIN p.references : p.references[q].client = c => p.references[q].promise = "settled"
    BY <1>4, <1>7, <1>15
  <2>4. p.references[r].cwd = asked[c]
    BY <1>2, <1>4, <1>7, <1>15 DEF cwd
  <2>5. emptied.connection # "none" /\ emptied.currentState.cwd = asked[c]
    BY <1>3, <1>7, <1>13
  <2> QED BY <2>1, <2>2, <2>3, <2>4, <2>5, <1>13 DEF WaitsInPlace
<1>17. OthersStay(Server, p, c)
  BY <1>4, <1>10, <1>12, <1>15, FieldsOfServer DEF OthersStay, c
<1> QED BY <1>3, <1>5, <1>8, <1>15, <1>16, <1>17, OneMoves DEF ServerInv

\* A window that waits for another Repository, and for nothing else.
LEMMA LoadingInPlace ==
  ASSUME NEW s, ServerInv(s), NEW c \in Clients, NEW cwd, NEW w,
         LoadsAnother(s, c, cwd, w, Len(s.references) + 1),
         s.api[c].connection # "none", s.api[c].queuedMessages = <<>>,
         \A q \in DOMAIN s.references :
           s.references[q].client = c => s.references[q].promise = "settled"
  PROVE  WaitsInPlace(w, c, cwd) /\ OthersStay(s, w, c)
<1> DEFINE n == Len(s.references) + 1
           a == [s.api[c] EXCEPT !.currentState = Loading, !.activeRepoRef = n]
<1>1. /\ s.references \in Seq(ReferenceRecords) /\ s.api \in [Clients -> Apis]
      /\ s.api[c] \in Apis
  BY DEF ServerInv, Servers
<1>2. /\ a.connection # "none" /\ a.queuedMessages = <<>> /\ a.activeRepoRef = n
      /\ a.currentState.type = "loading"
  BY <1>1 DEF Apis, Loading
<1>3. n \notin DOMAIN s.references
  BY <1>1
<1>4. w.api = [s.api EXCEPT ![c] = a]
  BY DEF LoadsAnother
<1> HIDE DEF a, n
<1>5. w.api[c] = a /\ \A d \in Clients \ {c} : w.api[d] = s.api[d]
  BY <1>1, <1>4
<1>6. /\ DOMAIN w.references = DOMAIN s.references \cup {n}
      /\ w.references[n].client = c /\ w.references[n].cwd = cwd
      /\ \A q \in DOMAIN s.references :
           /\ w.references[q].client = s.references[q].client
           /\ w.references[q].cwd = s.references[q].cwd
           /\ w.references[q].promise = s.references[q].promise
  BY DEF LoadsAnother, n
<1>7. DOMAIN <<>> = {}
  OBVIOUS
<1>8. WaitsInPlace(w, c, cwd)
  BY <1>2, <1>5, <1>6, <1>7 DEF WaitsInPlace
<1>9. OthersStay(s, w, c)
  BY <1>5, <1>6 DEF OthersStay
<1> QED BY <1>8, <1>9

LEMMA ConnectInPlace ==
  ASSUME RepositoriesInv, PatientInv, patient, NEW c \in Clients, NEW cwd \in Cwds,
         Connect(c, cwd)
  PROVE  PatientInv'
<1> DEFINE a == [api[c] EXCEPT !.connection = "open"]
           s == [Server EXCEPT !.api[c].connection = "open"]
           w == SetActiveRepoForCwd(s, c, cwd)
<1>1. ServerInv(Server) /\ AskedTypes /\ WaitsInPlace(Server, c, asked[c])
  BY DEF RepositoriesInv, PatientInv
<1>2. Server \in Servers /\ CacheInv(Server) /\ api \in [Clients -> Apis] /\ api[c] \in Apis
  BY <1>1, FieldsOfServer DEF ServerInv, Servers
<1>3. /\ a \in Apis /\ a.activeRepoRef = api[c].activeRepoRef /\ a.connection # "none"
      /\ a.queuedMessages = api[c].queuedMessages
  BY <1>2 DEF Apis
<1>4. s = [Server EXCEPT !.api[c] = a]
  BY FieldsOfServer
<1>5. asked' = [asked EXCEPT ![c] = cwd] /\ Becomes(w) /\ api[c].connection = "none"
  BY DEF Connect
<1> HIDE DEF a, s, w
<1>6. /\ s \in Servers /\ CacheInv(s) /\ s.references = references /\ s.astray = astray
      /\ s.api = [api EXCEPT ![c] = a]
  <2>1. PICK was : was = Server
    OBVIOUS
  <2>2. was \in Servers /\ CacheInv(was) /\ a \in Apis /\ s = [was EXCEPT !.api[c] = a]
    BY <1>2, <1>3, <1>4, <2>1
  <2>3. /\ s \in Servers /\ CacheInv(s) /\ s.references = was.references /\ s.astray = was.astray
        /\ s.api = [was.api EXCEPT ![c] = a]
    BY <2>2, ChangingWindow
  <2> QED BY <2>1, <2>3, FieldsOfServer
<1>7. ServerInv(s)
  BY <1>1, <1>2, <1>3, <1>6, FieldsOfServer DEF ServerInv, ApisHaveReferences
<1>8. ServerInv(w) /\ LoadsAnother(s, c, cwd, w, Len(s.references) + 1)
  BY <1>7, SettingActiveRepo DEF w
<1>9. s.api[c] = a /\ \A d \in Clients \ {c} : s.api[d] = api[d]
  BY <1>2, <1>6
<1>10. \A q \in DOMAIN s.references : s.references[q].client # c
  BY <1>1, <1>5, <1>6, FieldsOfServer DEF WaitsInPlace
<1>11. api[c].queuedMessages = <<>>
  BY <1>1, <1>5, FieldsOfServer DEF WaitsInPlace
<1>12. WaitsInPlace(w, c, cwd) /\ OthersStay(s, w, c)
  BY <1>3, <1>7, <1>8, <1>9, <1>10, <1>11, LoadingInPlace
<1>13. OthersStay(Server, w, c)
  BY <1>6, <1>9, <1>12, FieldsOfServer DEF OthersStay
<1>14. asked'[c] = cwd /\ \A d \in Clients \ {c} : asked'[d] = asked[d]
  BY <1>1, <1>5 DEF AskedTypes
<1>15. w.astray = astray /\ w \in Servers
  BY <1>6, <1>8 DEF LoadsAnother, ServerInv
<1> QED BY <1>5, <1>12, <1>13, <1>14, <1>15, OneMoves

LEMMA ChangeCwdInPlace ==
  ASSUME RepositoriesInv, PatientInv, patient, NEW c \in Clients, NEW cwd \in Cwds,
         ChangeCwd(c, cwd)
  PROVE  PatientInv'
<1> DEFINE m == [type |-> "changeCwd", cwd |-> cwd]
           w == SetActiveRepoForCwd(Server, c, cwd)
<1>1. ServerInv(Server) /\ AskedTypes /\ WaitsInPlace(Server, c, asked[c])
  BY DEF RepositoriesInv, PatientInv
<1>2. api[c].currentState.type # "loading" /\ api[c].connection # "none"
  BY DEF ChangeCwd, Receive
<1>3. asked' = [asked EXCEPT ![c] = cwd] /\ Becomes(HandleIncomingMessage(Server, c, m))
  BY <1>2 DEF ChangeCwd, Receive
<1>4. HandleIncomingMessage(Server, c, m) = w
  BY DEF HandleIncomingMessage
<1>5. ServerInv(w) /\ LoadsAnother(Server, c, cwd, w, Len(Server.references) + 1)
  BY <1>1, SettingActiveRepo
<1> HIDE DEF m, w
<1>6. /\ Server.api[c].connection # "none" /\ Server.api[c].queuedMessages = <<>>
      /\ \A q \in DOMAIN Server.references :
           Server.references[q].client = c => Server.references[q].promise = "settled"
  BY <1>1, <1>2, FieldsOfServer DEF WaitsInPlace
<1>7. WaitsInPlace(w, c, cwd) /\ OthersStay(Server, w, c)
  BY <1>1, <1>5, <1>6, LoadingInPlace
<1>8. asked'[c] = cwd /\ \A d \in Clients \ {c} : asked'[d] = asked[d]
  BY <1>1, <1>3 DEF AskedTypes
<1>9. w.astray = astray /\ w \in Servers
  BY <1>5, FieldsOfServer DEF LoadsAnother, ServerInv
<1> QED BY <1>3, <1>4, <1>7, <1>8, <1>9, OneMoves

LEMMA WaitingInPlace ==
  ASSUME RepositoriesInv, PatientInv, patient, NEW c \in Clients, Request(c)
  PROVE  PatientInv'
<1> DEFINE m == [type |-> "request", cwd |-> asked[c]]
<1>1. ServerInv(Server) /\ WaitsInPlace(Server, c, asked[c])
  BY DEF RepositoriesInv, PatientInv
<1>2. Server \in Servers /\ CacheInv(Server) /\ api \in [Clients -> Apis] /\ api[c] \in Apis
  BY <1>1, FieldsOfServer DEF ServerInv, Servers
<1>3. api[c].connection # "none" /\ asked' = asked
  BY DEF Request, Receive
<1>4. m \in Messages /\ m.type = "request" /\ m.cwd = asked[c]
  BY <1>3 DEF Messages, RepositoriesInv, AskedTypes
<1>5. CASE api[c].currentState.type = "loading"
  <2> DEFINE queue == Append(api[c].queuedMessages, m)
             a == [api[c] EXCEPT !.queuedMessages = queue]
             t == [Server EXCEPT !.api[c].queuedMessages = Append(@, m)]
  <2>1. queue \in Seq(Messages) /\ \A k \in DOMAIN queue : queue[k] = m
    <3>1. api[c].queuedMessages \in Seq(Messages)
      BY <1>2 DEF Apis
    <3>2. \A k \in DOMAIN api[c].queuedMessages : api[c].queuedMessages[k] = m
      BY <1>1, FieldsOfServer DEF WaitsInPlace
    <3> HIDE DEF Messages, m
    <3> QED BY <1>4, <3>1, <3>2
  <2>2. t = [Server EXCEPT !.api[c] = a] /\ Becomes(t)
    BY <1>5, FieldsOfServer DEF Request, Receive
  <2> HIDE DEF queue, t
  <2>3. /\ a \in Apis /\ a.queuedMessages = queue /\ a.connection = api[c].connection
        /\ a.activeRepoRef = api[c].activeRepoRef /\ a.currentState = api[c].currentState
    BY <1>2, <2>1 DEF Apis
  <2> HIDE DEF a, m
  <2>4. /\ t \in Servers /\ t.references = references /\ t.astray = astray
        /\ t.api = [api EXCEPT ![c] = a]
    <3>1. Server \in Servers /\ CacheInv(Server) /\ a \in Apis /\ t = [Server EXCEPT !.api[c] = a]
      BY <1>2, <2>2, <2>3
    <3>2. /\ t \in Servers /\ t.references = Server.references
          /\ t.astray = Server.astray /\ t.api = [Server.api EXCEPT ![c] = a]
      BY <3>1, ChangingWindow
    <3> QED BY <3>2, FieldsOfServer
  <2>5. t.api[c] = a /\ \A d \in Clients \ {c} : t.api[d] = api[d]
    BY <1>2, <2>4
  <2>6. WaitsInPlace(t, c, asked'[c])
    BY <1>1, <1>3, <1>5, <2>1, <2>3, <2>4, <2>5, FieldsOfServer DEF WaitsInPlace, m
  <2>7. OthersStay(Server, t, c)
    BY <2>4, <2>5, FieldsOfServer DEF OthersStay
  <2> QED BY <1>3, <2>2, <2>4, <2>6, <2>7, OneMoves
<1>6. CASE api[c].currentState.type # "loading"
  <2>1. m.cwd = Server.api[c].currentState.cwd
    BY <1>1, <1>3, <1>4, <1>6, FieldsOfServer DEF WaitsInPlace
  <2>2. HandleIncomingMessage(Server, c, m) = Server
    BY <1>2, <1>4, <2>1, RequestInPlace
  <2>3. Becomes(Server)
    BY <1>6, <2>2 DEF Request, Receive
  <2>4. OthersStay(Server, Server, c)
    BY DEF OthersStay
  <2> QED BY <1>1, <1>2, <1>3, <2>3, <2>4, FieldsOfServer, OneMoves
<1> QED BY <1>5, <1>6

LEMMA DisconnectInPlace ==
  ASSUME RepositoriesInv, PatientInv, patient, NEW c \in Clients, Disconnect(c)
  PROVE  PatientInv'
<1> DEFINE r == api[c].activeRepoRef
           s == Unref(Server, r)
           a == [s.api[c] EXCEPT !.connection = "closed"]
           t == [s EXCEPT !.api[c].connection = "closed"]
<1>1. /\ ServerInv(Server) /\ Server \in Servers /\ CacheInv(Server)
      /\ WaitsInPlace(Server, c, asked[c])
  BY DEF RepositoriesInv, ServerInv, PatientInv
<1>2. api \in [Clients -> Apis] /\ references \in Seq(ReferenceRecords) /\ api[c] \in Apis
  BY <1>1, FieldsOfServer DEF Servers
<1>3. r \in DOMAIN Server.references
  BY ActiveRepoIsKnown, FieldsOfServer DEF Disconnect
<1>4. Becomes(t) /\ asked' = asked /\ api[c].connection # "none"
  BY DEF Disconnect
<1> HIDE DEF r
<1>5. /\ s \in Servers /\ CacheInv(s) /\ s.api = api /\ s.astray = astray
      /\ s.references = [references EXCEPT ![r].disposed = TRUE]
  BY <1>1, <1>3, GivingBackKeepsCache, FieldsOfServer
<1>6. t = [s EXCEPT !.api[c] = a]
  OBVIOUS
<1> HIDE DEF s
<1>7. /\ a \in Apis /\ a.activeRepoRef = api[c].activeRepoRef /\ a.connection = "closed"
      /\ a.queuedMessages = api[c].queuedMessages /\ a.currentState = api[c].currentState
  BY <1>2, <1>5 DEF Apis
<1> HIDE DEF a, t
<1>8. /\ t \in Servers /\ t.references = s.references /\ t.astray = astray
      /\ t.api = [api EXCEPT ![c] = a]
  BY <1>5, <1>6, <1>7, ChangingWindow
<1>9. /\ DOMAIN t.references = DOMAIN references
      /\ \A q \in DOMAIN references :
           /\ t.references[q].client = references[q].client
           /\ t.references[q].cwd = references[q].cwd
           /\ t.references[q].promise = references[q].promise
  <2> DEFINE given == [references[r] EXCEPT !.disposed = TRUE]
  <2>1. r \in DOMAIN references /\ references[r] \in ReferenceRecords
    BY <1>2, <1>3, FieldsOfServer
  <2>2. /\ given.client = references[r].client /\ given.cwd = references[r].cwd
        /\ given.promise = references[r].promise
    BY <2>1 DEF ReferenceRecords
  <2>3. t.references = [references EXCEPT ![r] = given]
    BY <1>5, <1>8
  <2> HIDE DEF given
  <2> QED BY <1>2, <2>1, <2>2, <2>3
<1>10. t.api[c] = a /\ \A d \in Clients \ {c} : t.api[d] = api[d]
  BY <1>2, <1>8
<1>11. WaitsInPlace(t, c, asked'[c])
  <2>1. t.references[r].cwd = asked[c]
    BY <1>1, <1>3, <1>4, <1>9, FieldsOfServer DEF WaitsInPlace, r
  <2> QED BY <1>1, <1>4, <1>7, <1>9, <1>10, <2>1, FieldsOfServer DEF WaitsInPlace, r
<1>12. OthersStay(Server, t, c)
  BY <1>9, <1>10, FieldsOfServer DEF OthersStay
<1> QED BY <1>4, <1>8, <1>11, <1>12, OneMoves

\* A promise that is resolved is still waited for.
LEMMA ResolvedInPlace ==
  ASSUME RepositoriesInv, PatientInv, patient, NEW r \in DOMAIN references,
         references[r].promise = "pending", NEW t, t \in Servers, Becomes(t),
         asked' = asked, t.api = api, t.astray = astray,
         Len(t.references) = Len(references),
         \A q \in DOMAIN references :
           /\ t.references[q].client = references[q].client
           /\ t.references[q].cwd = references[q].cwd
           /\ q # r => t.references[q] = references[q]
  PROVE  PatientInv'
<1> DEFINE c == references[r].client
<1>1. references \in Seq(ReferenceRecords) /\ t.references \in Seq(ReferenceRecords)
  BY FieldsOfServer DEF RepositoriesInv, ServerInv, Servers
<1>2. c \in Clients /\ DOMAIN t.references = DOMAIN references
  <2>1. references[r] \in ReferenceRecords
    BY <1>1
  <2>2. c \in Clients
    BY <2>1 DEF ReferenceRecords
  <2>3. DOMAIN t.references = DOMAIN references
    BY <1>1
  <2> QED BY <2>2, <2>3
<1>3. WaitsInPlace(Server, c, asked[c])
  BY <1>2 DEF PatientInv
<1>4. OthersStay(Server, t, c)
  BY <1>2, FieldsOfServer DEF OthersStay
<1>5. api[c].connection # "none" => api[c].activeRepoRef \in DOMAIN references
  BY <1>2, ActiveRepoIsKnown
<1> HIDE DEF c
<1>6. WaitsInPlace(t, c, asked[c])
  <2>1. \A q \in DOMAIN references :
          t.references[q].promise # "settled" => references[q].promise # "settled"
    OBVIOUS
  <2> QED BY <1>2, <1>3, <1>5, <2>1, FieldsOfServer DEF WaitsInPlace
<1> QED BY <1>2, <1>4, <1>6, OneMoves

LEMMA GetRepoInfoInPlace ==
  ASSUME RepositoriesInv, PatientInv, patient, NEW r \in DOMAIN references, GetRepoInfo(r)
  PROVE  PatientInv'
<1>1. Server \in Servers /\ CacheInv(Server) /\ r \in DOMAIN Server.references
  BY FieldsOfServer DEF RepositoriesInv, ServerInv
<1>2. /\ Server.references[r].promise = "pending" /\ references[r] \in ReferenceRecords
      /\ asked' = asked
  BY <1>1, FieldsOfServer DEF GetRepoInfo, Servers
<1>3. CASE Becomes(Resolve(Server, r, None))
  <2> DEFINE t == Resolve(Server, r, None)
  <2>1. /\ t \in Servers /\ t.api = Server.api /\ t.astray = Server.astray
        /\ Len(t.references) = Len(Server.references)
        /\ \A q \in DOMAIN Server.references :
             /\ t.references[q].client = Server.references[q].client
             /\ t.references[q].cwd = Server.references[q].cwd
             /\ q # r => t.references[q] = Server.references[q]
    BY <1>1, ResolvingReference DEF None
  <2> HIDE DEF t
  <2> QED BY <1>2, <1>3, <2>1, FieldsOfServer, ResolvedInPlace DEF t
<1>4. CASE /\ RootOf[references[r].cwd] # NoRoot
           /\ Becomes(CreateForReference(Server, r, RootOf[references[r].cwd]))
  <2> DEFINE root == RootOf[references[r].cwd]
             t == CreateForReference(Server, r, root)
  <2>1. root \in Roots
    BY <1>2, <1>4, PathsAssumption DEF ReferenceRecords
  <2>2. Becomes(t)
    BY <1>4
  <2> HIDE DEF root
  <2>3. /\ t \in Servers /\ t.api = Server.api /\ t.astray = Server.astray
        /\ Len(t.references) = Len(Server.references)
        /\ \A q \in DOMAIN Server.references :
             /\ t.references[q].client = Server.references[q].client
             /\ t.references[q].cwd = Server.references[q].cwd
             /\ q # r => t.references[q] = Server.references[q]
    BY <1>1, <1>2, <2>1, FindingKeepsCache
  <2> HIDE DEF t
  <2> QED BY <1>2, <2>2, <2>3, FieldsOfServer, ResolvedInPlace
<1> QED BY <1>3, <1>4 DEF GetRepoInfo

LEMMA NextInPlace == RepositoriesInv /\ PatientInv /\ [Next]_vars => PatientInv'
<1> SUFFICES ASSUME RepositoriesInv, PatientInv, [Next]_vars PROVE PatientInv'
  OBVIOUS
<1>1. patient' = patient
  BY DEF Next, vars, Deliver, Connect, ChangeCwd, Request, Disconnect, GetRepoInfo
<1>2. CASE ~patient
  BY <1>1, <1>2 DEF PatientInv
<1>3. CASE patient
  <2>1. CASE Deliver BY <1>3, <2>1, DeliverInPlace
  <2>2. CASE \E c \in Clients, cwd \in Cwds : Connect(c, cwd) \/ ChangeCwd(c, cwd)
    BY <1>3, <2>2, ConnectInPlace, ChangeCwdInPlace
  <2>3. CASE \E c \in Clients : Request(c) \/ Disconnect(c)
    BY <1>3, <2>3, WaitingInPlace, DisconnectInPlace
  <2>4. CASE \E r \in DOMAIN references : GetRepoInfo(r)
    BY <1>3, <2>4, GetRepoInfoInPlace
  <2>5. CASE UNCHANGED vars
    <3>1. Server' = Server /\ asked' = asked /\ astray' = astray
      BY <2>5 DEF vars, Server
    <3> QED BY <1>1, <3>1 DEF PatientInv
  <2> QED BY <2>1, <2>2, <2>3, <2>4, <2>5 DEF Next
<1> QED BY <1>2, <1>3

\* What a user who waits for a Repository asks for is handled with the
\* Repository it was meant for, however the messages, the promises and the end
\* of the connections interleave (ServerToClientAPI.setActiveRepoForCwd and
\* processQueuedMessages).
THEOREM RequestsReachTheirRepository == Spec => []HandledWithTheNewRepository
<1>1. Init => RepositoriesInv /\ PatientInv
  BY InitRepositories, InitPatient
<1>2. RepositoriesInv /\ PatientInv /\ [Next]_vars => (RepositoriesInv /\ PatientInv)'
  BY NextRepositories, NextInPlace
<1>3. PatientInv => HandledWithTheNewRepository
  BY DEF PatientInv, HandledWithTheNewRepository
<1> QED BY <1>1, <1>2, <1>3, PTL DEF Spec
=============================================================================
