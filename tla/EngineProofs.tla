---------------------------- MODULE EngineProofs ----------------------------
(***************************************************************************)
(* What is proved of the engine, for any branches, metadata and histories  *)
(* and for every command, sync and get included:                           *)
(*                                                                         *)
(*   - a process goes on with what it has written (WritesThrough), after   *)
(*     each operation and each step of a restack;                          *)
(*   - a continuation is about the rebase that is stopped                  *)
(*     (ContinuesOnItsBase), which follows from it: the revision that is   *)
(*     persisted comes from the cache, the one git rebases onto from git.  *)
(*                                                                         *)
(*   - the parents that are stored never go round in a circle              *)
(*     (NoCycleOnDisk), whatever is renamed, folded, moved, restacked,     *)
(*     synced or got, and wherever a process is stopped or crashes.        *)
(*                                                                         *)
(* The operations of StackOps are functions on sessions.  Each has a lemma *)
(* that says for which branches the session it returns agrees with the     *)
(* disk; nothing is assumed of lists of children, of names or of commits,  *)
(* so the lemmas hold of sessions in which an exception was thrown, too.   *)
(***************************************************************************)
EXTENDS Sync, EngineProperties, FiniteSetTheorems, NaturalsInduction, WellFoundedInduction, TLAPS

----------------------------------------------------------------------------
(***************************************************************************)
(* Numbers                                                                 *)
(***************************************************************************)
LEMMA CountIsNumber == Cardinality(Branches) \in Nat
BY BranchNames, FS_CardinalityType

\* What holds of 0 and goes from each number to the next holds of all.
LEMMA EveryNumber ==
  ASSUME NEW T, T \subseteq Nat, \A n \in T : n # 0 /\ n - 1 \in T
  PROVE  T = {}
<1> DEFINE R == OpToRel(<, Nat)
<1> SUFFICES ASSUME T # {} PROVE FALSE
  OBVIOUS
<1>1. IsWellFoundedOn(R, Nat)
  BY NatLessThanWellFounded
<1>2. PICK x \in T : \A y \in T : ~ (<<y, x>> \in R)
  <2> HIDE DEF R
  <2> QED BY <1>1, WFMin
<1>3. x - 1 \in T /\ x - 1 \in Nat /\ x \in Nat /\ x - 1 < x
  OBVIOUS
<1>4. <<x - 1, x>> \in R
  BY <1>3, Zenon DEF OpToRel
<1> QED BY <1>2, <1>3, <1>4

----------------------------------------------------------------------------
(***************************************************************************)
(* Sessions                                                                *)
(***************************************************************************)
IsMeta(m) == m = [parent |-> m.parent, rev |-> m.rev]

IsEntry(e) == {"result", "parent", "prev", "rev", "children"} \subseteq DOMAIN e

IsCache(known) == DOMAIN known = Branches /\ \A c \in Branches : IsEntry(known[c])

IsDisk(heads, stored) ==
  DOMAIN heads = Branches /\ DOMAIN stored = Branches /\ \A c \in Branches : IsMeta(stored[c])

IsSession(s) ==
  /\ {"refs", "meta", "head", "rebase", "cache", "current", "failed"} \subseteq DOMAIN s
  /\ IsDisk(s.refs, s.meta)
  /\ IsCache(s.cache)

\* What s has in its cache is on disk, but perhaps for the branches of X.
WrittenBut(s, X) == IsSession(s) /\ \A c \in Branches \ X : Agrees(s, c)

Written(s) == WrittenBut(s, {})

LEMMA MoreBranches ==
  ASSUME NEW s, NEW X, NEW Y, WrittenBut(s, X), X \subseteq Y
  PROVE  WrittenBut(s, Y)
BY DEF WrittenBut

\* Neither HEAD nor the current branch nor an exception matters.
LEMMA OtherFields ==
  ASSUME NEW s, NEW X, WrittenBut(s, X), NEW h, NEW u, NEW f
  PROVE  /\ WrittenBut([s EXCEPT !.head = h], X)
         /\ WrittenBut([s EXCEPT !.current = u], X)
         /\ WrittenBut([s EXCEPT !.failed = f], X)
         /\ WrittenBut([s EXCEPT !.head = h, !.current = u], X)
BY DEF WrittenBut, IsSession, Agrees

LEMMA FailIsWritten ==
  ASSUME NEW s, NEW X, WrittenBut(s, X)
  PROVE  WrittenBut(Fail(s), X)
BY OtherFields DEF Fail

\* A session whose cache differs in lists of children only.
LEMMA OtherChildren ==
  ASSUME NEW s, NEW X, WrittenBut(s, X), NEW p, NEW kids
  PROVE  WrittenBut([s EXCEPT !.cache[p].children = kids], X)
<1> DEFINE new == [s.cache EXCEPT ![p].children = kids]
           t == [s EXCEPT !.cache = new]
<1>1. IsSession(s) /\ \A c \in Branches \ X : Agrees(s, c)
  BY DEF WrittenBut
<1>2. DOMAIN new = Branches
      /\ \A c \in Branches : new[c] = IF c = p THEN [s.cache[c] EXCEPT !.children = kids]
                                      ELSE s.cache[c]
  BY <1>1 DEF IsSession, IsCache
<1> HIDE DEF new
<1>3. \A c \in Branches : /\ IsEntry(new[c]) /\ new[c].result = s.cache[c].result
                          /\ new[c].parent = s.cache[c].parent /\ new[c].prev = s.cache[c].prev
                          /\ new[c].rev = s.cache[c].rev
  BY <1>1, <1>2 DEF IsSession, IsCache, IsEntry
<1>4. t.refs = s.refs /\ t.meta = s.meta /\ t.cache = new /\ DOMAIN t = DOMAIN s
  BY <1>1 DEF IsSession
<1>5. [s EXCEPT !.cache[p].children = kids] = t
  BY <1>1 DEF IsSession, new
<1> HIDE DEF t
<1>6. IsSession(t)
  BY <1>1, <1>2, <1>3, <1>4 DEF IsSession, IsCache
<1>7. \A c \in Branches \ X : Agrees(t, c)
  BY <1>1, <1>3, <1>4 DEF Agrees
<1> QED BY <1>5, <1>6, <1>7 DEF WrittenBut

\* MoveChild changes nothing but lists of children.
SameButChildren(new, old) ==
  /\ IsCache(new)
  /\ \A c \in Branches : /\ new[c].rev = old[c].rev /\ new[c].result = old[c].result
                         /\ new[c].parent = old[c].parent /\ new[c].prev = old[c].prev

LEMMA MoveChildKeeps ==
  ASSUME NEW old, IsCache(old), NEW b, NEW p, NEW q
  PROVE  SameButChildren(MoveChild(old, b, p, q), old)
<1> DEFINE one == [old EXCEPT ![p].children = Without(@, b)]
           left == IF p \in {NoBranch, q} THEN old ELSE one
           two == [left EXCEPT ![q].children = Append(@, b)]
<1>1. SameButChildren(old, old)
  BY DEF SameButChildren
<1>2. SameButChildren(one, old)
  <2>1. DOMAIN one = Branches
        /\ \A c \in Branches : \E kids : one[c] \in {old[c], [old[c] EXCEPT !.children = kids]}
    BY DEF IsCache
  <2> HIDE DEF one
  <2> QED BY <2>1 DEF SameButChildren, IsCache, IsEntry
<1> HIDE DEF one
<1>3. SameButChildren(left, old)
  BY <1>1, <1>2
<1> HIDE DEF left
<1>4. SameButChildren(two, old)
  <2>1. DOMAIN two = Branches
        /\ \A c \in Branches : \E kids : two[c] \in {left[c], [left[c] EXCEPT !.children = kids]}
    BY <1>3 DEF SameButChildren, IsCache
  <2> HIDE DEF two
  <2> QED BY <1>3, <2>1 DEF SameButChildren, IsCache, IsEntry
<1> HIDE DEF two
<1>5. MoveChild(old, b, p, q) \in {left, two}
  BY DEF MoveChild, left, two, one
<1> QED BY <1>3, <1>4, <1>5

LEMMA RevalidatedEntry ==
  ASSUME NEW known, NEW c, IsEntry(known[c])
  PROVE  IsEntry(Revalidated(known, c)) /\ Revalidated(known, c).rev = known[c].rev
BY DEF Revalidated, IsEntry

\* The branches that are valid again are written.
LEMMA RevalidateIsWritten ==
  ASSUME NEW s, NEW X, WrittenBut(s, X), NEW kids
  PROVE  WrittenBut(RevalidateChildren(s, kids), X)
<1> DEFINE inv == Invalidated(s.cache, kids)
           new == [c \in Branches |->
                    IF c \in inv THEN Revalidated(s.cache, c) ELSE s.cache[c]]
           stored == [c \in Branches |->
                     IF c \in inv /\ new[c].result = "VALID"
                     THEN [parent |-> new[c].parent, rev |-> new[c].prev] ELSE s.meta[c]]
           t == [s EXCEPT !.cache = new, !.meta = stored]
<1>1. IsSession(s) /\ \A c \in Branches \ X : Agrees(s, c)
  BY DEF WrittenBut
<1>2. \A c \in Branches : /\ IsEntry(Revalidated(s.cache, c))
                          /\ Revalidated(s.cache, c).rev = s.cache[c].rev
  BY <1>1, RevalidatedEntry DEF IsSession, IsCache
<1>3. /\ DOMAIN new = Branches
      /\ \A c \in Branches : new[c] = IF c \in inv THEN Revalidated(s.cache, c) ELSE s.cache[c]
  OBVIOUS
<1>4. RevalidateChildren(s, kids) = t
  BY <1>1 DEF RevalidateChildren, IsSession, IsDisk
<1> HIDE DEF new, inv
<1>5. IsCache(new) /\ \A c \in Branches : new[c].rev = s.cache[c].rev
  BY <1>1, <1>2, <1>3 DEF IsSession, IsCache
<1>6. /\ DOMAIN stored = Branches
      /\ \A c \in Branches :
           stored[c] = IF c \in inv /\ new[c].result = "VALID"
                       THEN [parent |-> new[c].parent, rev |-> new[c].prev] ELSE s.meta[c]
  OBVIOUS
<1> HIDE DEF stored
<1>7. IsDisk(s.refs, stored)
  <2>1. \A q, v : IsMeta([parent |-> q, rev |-> v])
    BY DEF IsMeta
  <2>2. \A c \in Branches : IsMeta(stored[c])
    BY <1>1, <1>6, <2>1 DEF IsSession, IsDisk
  <2> QED BY <1>1, <1>6, <2>2 DEF IsSession, IsDisk
<1>8. t.refs = s.refs /\ t.meta = stored /\ t.cache = new /\ DOMAIN t = DOMAIN s
  BY <1>1 DEF IsSession
<1> HIDE DEF t
<1>9. IsSession(t)
  BY <1>1, <1>5, <1>7, <1>8 DEF IsSession
<1>10. ASSUME NEW c \in Branches \ X PROVE Agrees(t, c)
  BY <1>1, <1>3, <1>5, <1>6, <1>8 DEF Agrees
<1> QED BY <1>4, <1>9, <1>10 DEF WrittenBut

\* updateMeta writes what it puts into the cache.
LEMMA UpdateIsWritten ==
  ASSUME NEW s, NEW X, NEW Y, NEW b, NEW entry, WrittenBut(s, Y), Y \subseteq X \cup {b},
         b \in Branches => IsEntry(entry) /\ (b \in X \/ entry.rev = s.refs[b])
  PROVE  WrittenBut(UpdateMeta(s, b, entry), X)
<1> DEFINE old == s.cache[b]
           oldParent == IF old.result \in {"NONE", "BAD_PARENT_NAME"} THEN NoBranch ELSE old.parent
           put == [s.cache EXCEPT ![b] = entry]
           new == MoveChild(put, b, oldParent, entry.parent)
           stored == [s.meta EXCEPT ![b] = [parent |-> entry.parent, rev |-> entry.prev]]
           t == [s EXCEPT !.cache = new, !.meta = stored]
<1>1. IsSession(s) /\ \A c \in Branches \ (X \cup {b}) : Agrees(s, c)
  BY DEF WrittenBut
<1>2. IsCache(put) /\ \A c \in Branches : put[c] = IF c = b THEN entry ELSE s.cache[c]
  BY <1>1 DEF IsSession, IsCache
<1>3. SameButChildren(new, put)
  <2> HIDE DEF put, oldParent
  <2> QED BY <1>2, MoveChildKeeps
<1>4. IsDisk(s.refs, stored)
      /\ \A c \in Branches : stored[c] = IF c = b THEN [parent |-> entry.parent, rev |-> entry.prev]
                                         ELSE s.meta[c]
  BY <1>1 DEF IsSession, IsDisk, IsMeta
<1>5. UpdateMeta(s, b, entry) = IF old.result = "VALID" THEN t
                                ELSE RevalidateChildren(t, ToSet(entry.children))
  BY <1>1 DEF UpdateMeta, IsSession
<1> HIDE DEF put, new, stored
<1>6. t.refs = s.refs /\ t.meta = stored /\ t.cache = new /\ DOMAIN t = DOMAIN s
  BY <1>1 DEF IsSession
<1> HIDE DEF t
<1>7. IsSession(t)
  BY <1>1, <1>3, <1>4, <1>6 DEF IsSession, SameButChildren
<1>8. ASSUME NEW c \in Branches \ X PROVE Agrees(t, c)
  BY <1>1, <1>2, <1>3, <1>4, <1>6 DEF Agrees, SameButChildren
<1>9. WrittenBut(t, X)
  BY <1>7, <1>8 DEF WrittenBut
<1> QED BY <1>5, <1>9, RevalidateIsWritten

----------------------------------------------------------------------------
(***************************************************************************)
(* Operations of the engine                                                *)
(***************************************************************************)
LEMMA SetParentIsWritten ==
  ASSUME NEW s, NEW X, WrittenBut(s, X), NEW b, NEW p
  PROVE  WrittenBut(SetParent(s, b, p), X)
<1> DEFINE entry == [s.cache[b] EXCEPT !.parent = p]
<1>1. b \in Branches => IsEntry(entry) /\ (b \in X \/ entry.rev = s.refs[b])
  BY DEF WrittenBut, IsSession, IsCache, IsEntry, Agrees
<1>2. SetParent(s, b, p) \in {Fail(s), s, UpdateMeta(s, b, entry)}
  BY DEF SetParent
<1> HIDE DEF entry
<1>4. WrittenBut(UpdateMeta(s, b, entry), X)
  BY <1>1, UpdateIsWritten
<1>5. WrittenBut(Fail(s), X)
  BY FailIsWritten
<1> QED BY <1>2, <1>4, <1>5

LEMMA CheckoutIsWritten ==
  ASSUME NEW s, NEW X, WrittenBut(s, X), NEW b
  PROVE  WrittenBut(CheckoutBranch(s, b), X)
BY OtherFields, FailIsWritten DEF CheckoutBranch

\* A branch that is forgotten agrees: it has no ref and no entry.
LEMMA ForgetIsWritten ==
  ASSUME NEW s, NEW X, NEW Y, NEW b, WrittenBut(s, Y), Y \subseteq X \cup {b}
  PROVE  WrittenBut(Forget(s, b), X)
<1> DEFINE heads == [s.refs EXCEPT ![b] = NoCommit]
           stored == [s.meta EXCEPT ![b] = NoMeta]
           new == [s.cache EXCEPT ![b] = NoEntry]
           t == [s EXCEPT !.refs = heads, !.meta = stored, !.cache = new]
<1>1. IsSession(s) /\ \A c \in Branches \ (X \cup {b}) : Agrees(s, c)
  BY DEF WrittenBut
<1>2. Forget(s, b) = t
  BY <1>1 DEF Forget, IsSession
<1>3. /\ DOMAIN heads = Branches /\ DOMAIN stored = Branches /\ DOMAIN new = Branches
      /\ \A c \in Branches : heads[c] = IF c = b THEN NoCommit ELSE s.refs[c]
      /\ \A c \in Branches : stored[c] = IF c = b THEN NoMeta ELSE s.meta[c]
      /\ \A c \in Branches : new[c] = IF c = b THEN NoEntry ELSE s.cache[c]
  BY <1>1 DEF IsSession, IsDisk, IsCache
<1>4. /\ IsMeta(NoMeta) /\ IsEntry(NoEntry) /\ NoEntry.rev = NoCommit /\ NoEntry.result # "VALID"
  BY DEF IsMeta, IsEntry, NoMeta, NoEntry
<1> HIDE DEF heads, stored, new
<1>5. t.refs = heads /\ t.meta = stored /\ t.cache = new /\ DOMAIN t = DOMAIN s
  BY <1>1 DEF IsSession
<1> HIDE DEF t
<1>6. IsSession(t)
  BY <1>1, <1>3, <1>4, <1>5 DEF IsSession, IsDisk, IsCache
<1>7. ASSUME NEW c \in Branches \ X PROVE Agrees(t, c)
  BY <1>1, <1>3, <1>4, <1>5 DEF Agrees
<1> QED BY <1>2, <1>6, <1>7 DEF WrittenBut

LEMMA DeleteDataIsWritten ==
  ASSUME NEW s, NEW X, NEW b, WrittenBut(s, X)
  PROVE  WrittenBut(DeleteAllBranchData(s, b), X)
<1> DEFINE p == s.cache[b].parent
           left == [s EXCEPT !.cache[p].children = Without(@, b)]
<1>1. \E kids : left = [s EXCEPT !.cache[p].children = kids]
  BY DEF WrittenBut, IsSession
<1> HIDE DEF left
<1>2. WrittenBut(left, X)
  <2>1. PICK kids : left = [s EXCEPT !.cache[p].children = kids]
    BY <1>1
  <2> HIDE DEF p
  <2> QED BY <2>1, OtherChildren
<1>3. DeleteAllBranchData(s, b) \in {Fail(s), Fail(left), Forget(left, b)}
  BY DEF DeleteAllBranchData, left
<1> QED BY <1>2, <1>3, FailIsWritten, ForgetIsWritten

----------------------------------------------------------------------------
(***************************************************************************)
(* children.forEach(c => setParent(c, p))                                  *)
(***************************************************************************)
\* f[i] is the session after the first i children.
IsAdopted(f, s, kids, p, n) ==
  f = [i \in 0..n |-> IF i = 0 THEN s
                      ELSE IF i \in DOMAIN kids THEN SetParent(f[i-1], kids[i], p)
                      ELSE f[i-1]]

LEMMA AdoptedExists ==
  ASSUME NEW s, NEW kids, NEW p, NEW n \in Nat
  PROVE  \E f : IsAdopted(f, s, kids, p, n)
<1> DEFINE T == {k \in Nat : ~ \E f : IsAdopted(f, s, kids, p, k)}
<1>1. ASSUME NEW m \in T PROVE m # 0 /\ m - 1 \in T
  <2>1. m # 0
    <3>1. IsAdopted([i \in 0..0 |-> s], s, kids, p, 0)
      BY DEF IsAdopted
    <3> QED BY <3>1
  <2>2. ASSUME NEW g, IsAdopted(g, s, kids, p, m - 1) PROVE FALSE
    <3> DEFINE last == IF m \in DOMAIN kids THEN SetParent(g[m - 1], kids[m], p) ELSE g[m - 1]
               f == [i \in 0..m |-> IF i = m THEN last ELSE g[i]]
    <3>1. ASSUME NEW i \in 0..m
          PROVE  f[i] = IF i = 0 THEN s
                        ELSE IF i \in DOMAIN kids THEN SetParent(f[i-1], kids[i], p)
                        ELSE f[i-1]
      <4>1. CASE i = 0
        BY <4>1, <2>1, <2>2 DEF IsAdopted
      <4>2. CASE i # 0 /\ i = m
        BY <4>2, <2>1
      <4>3. CASE i # 0 /\ i # m
        <5>1. i \in 0..(m - 1) /\ i - 1 \in 0..m /\ i - 1 # m
          BY <4>3
        <5>2. f[i] = g[i] /\ f[i - 1] = g[i - 1]
          BY <4>3, <5>1
        <5>3. g[i] = IF i \in DOMAIN kids THEN SetParent(g[i-1], kids[i], p) ELSE g[i-1]
          BY <4>3, <5>1, <2>2 DEF IsAdopted
        <5> HIDE DEF f
        <5> QED BY <4>3, <5>2, <5>3
      <4> QED BY <4>1, <4>2, <4>3
    <3>2. IsAdopted(f, s, kids, p, m)
      BY <3>1, Zenon DEF IsAdopted
    <3> QED BY <3>2
  <2> QED BY <2>1, <2>2
<1>2. T \subseteq Nat
  OBVIOUS
<1> HIDE DEF T
<1>3. T = {}
  BY <1>1, <1>2, EveryNumber
<1> QED BY <1>3 DEF T

LEMMA AdoptIsWritten ==
  ASSUME NEW s, NEW X, WrittenBut(s, X), NEW kids, NEW p
  PROVE  WrittenBut(Adopt(s, kids, p), X)
<1> DEFINE n == Cardinality(Branches)
           f == CHOOSE g : IsAdopted(g, s, kids, p, n)
<1>1. n \in Nat
  BY CountIsNumber
<1>2. IsAdopted(f, s, kids, p, n)
  BY <1>1, AdoptedExists
<1>3. Adopt(s, kids, p) = f[n]
  BY DEF Adopt, IsAdopted
<1> HIDE DEF n, f
<1> DEFINE T == {i \in 0..n : ~ WrittenBut(f[i], X)}
<1>4. ASSUME NEW i \in T PROVE i # 0 /\ i - 1 \in T
  <2>1. f[0] = s
    BY <1>1, <1>2 DEF IsAdopted
  <2>2. i # 0 /\ i - 1 \in 0..n
    BY <1>1, <2>1
  <2>3. f[i] = IF i \in DOMAIN kids THEN SetParent(f[i-1], kids[i], p) ELSE f[i-1]
    BY <1>2, <2>2 DEF IsAdopted
  <2> QED BY <2>2, <2>3, SetParentIsWritten
<1>5. T \subseteq Nat
  BY <1>1
<1>6. T = {}
  <2> HIDE DEF T
  <2> QED BY <1>4, <1>5, EveryNumber
<1> QED BY <1>1, <1>3, <1>6

----------------------------------------------------------------------------
(***************************************************************************)
(* The other operations.  One that throws may leave a ref and an entry     *)
(* that differ, and its session is not used any more.                      *)
(***************************************************************************)
Done(s) == IsSession(s) /\ (s.failed \/ Written(s))

LEMMA WrittenIsDone ==
  ASSUME NEW s, Written(s)
  PROVE  Done(s) /\ Done(Fail(s))
BY FailIsWritten DEF Done, Written, WrittenBut

LEMMA FailIsDone ==
  ASSUME NEW s, IsSession(s)
  PROVE  Done(Fail(s))
BY DEF Done, Fail, IsSession

\* A session with other refs, for the branches of Y.
LEMMA OtherRefs ==
  ASSUME NEW s, NEW X, WrittenBut(s, X), NEW t, NEW Y, X \subseteq Y,
         DOMAIN t = DOMAIN s, t.cache = s.cache, t.meta = s.meta,
         DOMAIN t.refs = Branches, \A c \in Branches \ Y : t.refs[c] = s.refs[c]
  PROVE  WrittenBut(t, Y)
<1>1. IsSession(t)
  BY DEF WrittenBut, IsSession, IsDisk
<1>2. \A c \in Branches \ Y : Agrees(t, c)
  BY DEF WrittenBut, Agrees
<1> QED BY <1>1, <1>2 DEF WrittenBut

LEMMA NewBranchIsWritten ==
  ASSUME NEW s, NEW b, Written(s)
  PROVE  Written(CheckoutNewBranch(s, b))
<1> DEFINE p == s.current
           t == [s EXCEPT !.refs[b] = s.refs[p], !.head = b, !.current = b]
           entry == [result |-> "VALID", parent |-> p, prev |-> s.cache[p].rev,
                     rev |-> s.cache[p].rev, children |-> <<>>]
<1>1. CASE p = NoBranch \/ ~ValidOrTrunk(s, p) \/ ~CanBeParent(s, b, p)
           \/ s.refs[b] # NoCommit \/ ~CanSwitch(s)
  BY <1>1, FailIsWritten DEF CheckoutNewBranch, Written
<1>2. CASE ~(p = NoBranch \/ ~ValidOrTrunk(s, p) \/ ~CanBeParent(s, b, p)
             \/ s.refs[b] # NoCommit \/ ~CanSwitch(s))
  <2>1. p \in Branches
    BY <1>2 DEF ValidOrTrunk, HasResult
  <2>2. s.cache[p].rev = s.refs[p]
    BY <2>1 DEF Written, WrittenBut, Agrees
  <2>3. /\ DOMAIN t = DOMAIN s /\ t.cache = s.cache /\ t.meta = s.meta
        /\ DOMAIN t.refs = Branches /\ \A c \in Branches \ {b} : t.refs[c] = s.refs[c]
        /\ b \in Branches => t.refs[b] = s.refs[p]
    BY DEF Written, WrittenBut, IsSession, IsDisk
  <2>4. IsEntry(entry) /\ entry.rev = s.cache[p].rev
    BY DEF IsEntry
  <2>5. CheckoutNewBranch(s, b) = UpdateMeta(t, b, entry)
    BY <1>2 DEF CheckoutNewBranch
  <2> HIDE DEF t, entry
  <2>6. WrittenBut(t, {b})
    BY <2>3, OtherRefs DEF Written
  <2>7. WrittenBut(UpdateMeta(t, b, entry), {})
    BY <2>2, <2>3, <2>4, <2>6, UpdateIsWritten
  <2> QED BY <2>5, <2>7 DEF Written
<1> QED BY <1>1, <1>2

LEMMA DeleteIsWritten ==
  ASSUME NEW s, NEW b, Written(s)
  PROVE  Written(DeleteBranch(s, b))
<1> DEFINE parent == s.cache[b].parent
           away == IF b = s.current THEN CheckoutBranch(s, parent) ELSE s
           moved == Adopt(away, EveryOther(s.cache[b].children), parent)
<1>1. WrittenBut(away, {})
  BY CheckoutIsWritten DEF Written
<1>2. DeleteBranch(s, b) \in {Fail(s), DeleteAllBranchData(moved, b)}
  BY DEF DeleteBranch
<1> HIDE DEF away
<1>3. WrittenBut(moved, {})
  BY <1>1, AdoptIsWritten
<1> HIDE DEF moved
<1> QED BY <1>2, <1>3, DeleteDataIsWritten, FailIsWritten DEF Written

LEMMA RenameIsDone ==
  ASSUME NEW s, NEW b \in Branches, Written(s)
  PROVE  Done(RenameCurrentBranch(s, b))
<1> DEFINE cur == s.current
           moved == [s EXCEPT !.refs[b] = s.refs[cur], !.refs[cur] = NoCommit, !.head = b]
           named == UpdateMeta(moved, b, s.cache[cur])
           adopted == Adopt(named, EveryOther(s.cache[cur].children), b)
           q == s.cache[cur].parent
           left == [adopted EXCEPT !.cache[q].children = Without(@, cur)]
           t == [Forget(left, cur) EXCEPT !.current = b]
<1>1. CASE b = cur \/ cur = NoBranch \/ ~Valid(s, cur) \/ s.refs[b] # NoCommit \/ s.head # cur
  BY <1>1, WrittenIsDone DEF RenameCurrentBranch
<1>2. CASE ~(b = cur \/ cur = NoBranch \/ ~Valid(s, cur) \/ s.refs[b] # NoCommit \/ s.head # cur)
  <2>1. cur \in Branches /\ b # cur /\ IsSession(s)
    BY <1>2 DEF Valid, HasResult, Written, WrittenBut
  <2>2. RenameCurrentBranch(s, b) = IF adopted.failed THEN adopted ELSE t
    BY <1>2 DEF RenameCurrentBranch
  <2>3. /\ DOMAIN moved = DOMAIN s /\ moved.cache = s.cache /\ moved.meta = s.meta
        /\ DOMAIN moved.refs = Branches /\ moved.refs[b] = s.refs[cur]
        /\ \A c \in Branches \ {b, cur} : moved.refs[c] = s.refs[c]
    BY <2>1 DEF IsSession, IsDisk
  <2> HIDE DEF moved
  <2>6. WrittenBut(moved, {b, cur})
    BY <2>3, OtherRefs DEF Written
  <2>7. IsEntry(s.cache[cur]) /\ s.cache[cur].rev = s.refs[cur]
    BY <2>1 DEF Written, WrittenBut, Agrees, IsSession, IsCache
  <2>8. WrittenBut(named, {cur})
    BY <2>3, <2>6, <2>7, UpdateIsWritten
  <2> HIDE DEF named
  <2>9. WrittenBut(adopted, {cur})
    BY <2>8, AdoptIsWritten
  <2> HIDE DEF adopted
  <2>10. WrittenBut(left, {cur})
    <3> HIDE DEF q
    <3>1. \E kids : left = [adopted EXCEPT !.cache[q].children = kids]
      BY <2>9 DEF WrittenBut, IsSession
    <3> QED BY <2>9, <3>1, OtherChildren
  <2> HIDE DEF left
  <2>11. WrittenBut(t, {})
    <3>1. WrittenBut(Forget(left, cur), {})
      BY <2>10, ForgetIsWritten
    <3> QED BY <3>1, OtherFields
  <2> HIDE DEF t
  <2>12. IsSession(adopted) /\ IsSession(t)
    BY <2>9, <2>11 DEF WrittenBut
  <2> QED BY <2>2, <2>11, <2>12 DEF Done, Written
<1> QED BY <1>1, <1>2

LEMMA FoldKeepIsWritten ==
  ASSUME NEW s, Written(s), s.current \in Branches
  PROVE  Written(FoldKeep(s))
<1> DEFINE cur == s.current
           p == s.cache[cur].parent
           entry == [s.cache[cur] EXCEPT !.parent = s.cache[p].parent, !.prev = s.cache[p].prev]
           up == UpdateMeta(s, cur, entry)
           all == Adopt(up, Without(s.cache[p].children, cur), cur)
<1>1. FoldKeep(s) = DeleteAllBranchData(all, p)
  BY DEF FoldKeep
<1>2. IsEntry(entry) /\ entry.rev = s.refs[cur]
  BY DEF Written, WrittenBut, IsSession, IsCache, IsEntry, Agrees
<1> HIDE DEF entry, p
<1>3. WrittenBut(up, {})
  BY <1>2, UpdateIsWritten DEF Written
<1> HIDE DEF up
<1>4. WrittenBut(all, {})
  BY <1>3, AdoptIsWritten
<1> HIDE DEF all
<1> QED BY <1>1, <1>4, DeleteDataIsWritten DEF Written

LEMMA FoldIntoIsWritten ==
  ASSUME NEW s, Written(s), s.current \in Branches, s.cache[s.current].parent \in Branches
  PROVE  Written(FoldInto(s))
<1> DEFINE cur == s.current
           p == s.cache[cur].parent
           rev == s.cache[cur].rev
           t == [s EXCEPT !.refs[p] = rev, !.head = p]
           entry == [s.cache[p] EXCEPT !.rev = rev]
           up == UpdateMeta(t, p, entry)
           all == Adopt(up, EveryOther(s.cache[cur].children), p)
           out == CheckoutBranch(all, p)
<1>1. FoldInto(s) = DeleteAllBranchData(out, cur)
  BY DEF FoldInto
<1>2. IsEntry(entry) /\ entry.rev = rev
  BY DEF Written, WrittenBut, IsSession, IsCache, IsEntry
<1>3. /\ DOMAIN t = DOMAIN s /\ t.cache = s.cache /\ t.meta = s.meta
      /\ DOMAIN t.refs = Branches /\ t.refs[p] = rev
      /\ \A c \in Branches \ {p} : t.refs[c] = s.refs[c]
  BY DEF Written, WrittenBut, IsSession, IsDisk
<1> HIDE DEF t, entry, rev, p
<1>4. WrittenBut(t, {p})
  BY <1>3, OtherRefs DEF Written
<1>5. WrittenBut(up, {})
  BY <1>2, <1>3, <1>4, UpdateIsWritten
<1> HIDE DEF up
<1>6. WrittenBut(all, {})
  BY <1>5, AdoptIsWritten
<1> HIDE DEF all
<1>7. WrittenBut(out, {})
  BY <1>6, CheckoutIsWritten
<1> HIDE DEF out
<1> QED BY <1>1, <1>7, DeleteDataIsWritten DEF Written

LEMMA FoldIsWritten ==
  ASSUME NEW s, Written(s), NEW keep
  PROVE  Written(FoldCurrentBranch(s, keep))
<1>1. CASE s.current = NoBranch \/ ~Valid(s, s.current) \/ ~Valid(s, s.cache[s.current].parent)
  BY <1>1, FailIsWritten DEF FoldCurrentBranch, Written
<1>2. CASE ~(s.current = NoBranch \/ ~Valid(s, s.current) \/ ~Valid(s, s.cache[s.current].parent))
  <2>1. s.current \in Branches /\ s.cache[s.current].parent \in Branches
    BY <1>2 DEF Valid, HasResult
  <2>2. FoldCurrentBranch(s, keep) \in {FoldKeep(s), FoldInto(s), Fail(s)}
    BY <1>2 DEF FoldCurrentBranch
  <2>3. Written(Fail(s))
    BY FailIsWritten DEF Written
  <2> QED BY <2>1, <2>2, <2>3, FoldKeepIsWritten, FoldIntoIsWritten
<1> QED BY <1>1, <1>2

LEMMA UnbranchIsWritten ==
  ASSUME NEW s, Written(s)
  PROVE  Written(Unbranch(s))
<1> DEFINE off == [s EXCEPT !.head = NoBranch]
           gone == DeleteAllBranchData(off, s.current)
           t == [gone EXCEPT !.head = s.cache[s.current].parent]
<1>1. WrittenBut(off, {})
  BY OtherFields DEF Written
<1>2. Unbranch(s) \in {Fail(s), t}
  BY DEF Unbranch
<1> HIDE DEF off
<1>3. WrittenBut(gone, {})
  BY <1>1, DeleteDataIsWritten
<1> HIDE DEF gone
<1>4. WrittenBut(t, {})
  BY <1>3, OtherFields
<1> HIDE DEF t
<1> QED BY <1>2, <1>4, FailIsWritten DEF Written

\* A commit moves the ref and the entry together.
LEMMA NewTip ==
  ASSUME NEW s, Written(s), NEW b, NEW rev
  PROVE  Written([s EXCEPT !.refs[b] = rev, !.cache[b].rev = rev])
<1> DEFINE heads == [s.refs EXCEPT ![b] = rev]
           new == [s.cache EXCEPT ![b].rev = rev]
           t == [s EXCEPT !.refs = heads, !.cache = new]
<1>1. IsSession(s) /\ \A c \in Branches : Agrees(s, c)
  BY DEF Written, WrittenBut
<1>2. [s EXCEPT !.refs[b] = rev, !.cache[b].rev = rev] = t
  BY <1>1 DEF IsSession
<1>3. /\ DOMAIN heads = Branches /\ DOMAIN new = Branches
      /\ \A c \in Branches : heads[c] = IF c = b THEN rev ELSE s.refs[c]
      /\ \A c \in Branches : new[c] = IF c = b THEN [s.cache[c] EXCEPT !.rev = rev]
                                      ELSE s.cache[c]
  BY <1>1 DEF IsSession, IsDisk, IsCache
<1> HIDE DEF heads, new
<1>4. \A c \in Branches : /\ IsEntry(new[c]) /\ new[c].result = s.cache[c].result
                          /\ new[c].parent = s.cache[c].parent /\ new[c].prev = s.cache[c].prev
                          /\ new[c].rev = IF c = b THEN rev ELSE s.cache[c].rev
  BY <1>1, <1>3 DEF IsSession, IsCache, IsEntry
<1>5. t.refs = heads /\ t.meta = s.meta /\ t.cache = new /\ DOMAIN t = DOMAIN s
  BY <1>1 DEF IsSession
<1> HIDE DEF t
<1>6. IsSession(t)
  BY <1>1, <1>3, <1>4, <1>5 DEF IsSession, IsDisk, IsCache
<1>7. ASSUME NEW c \in Branches PROVE Agrees(t, c)
  BY <1>1, <1>3, <1>4, <1>5 DEF Agrees
<1> QED BY <1>2, <1>6, <1>7 DEF Written, WrittenBut

LEMMA CommitIsWritten ==
  ASSUME NEW s, Written(s), NEW rev
  PROVE  Written(CommitTo(s, rev))
<1>1. CommitTo(s, rev) \in {Fail(s), [s EXCEPT !.refs[s.current] = rev, !.cache[s.current].rev = rev]}
  BY DEF CommitTo
<1>2. Written([s EXCEPT !.refs[s.current] = rev, !.cache[s.current].rev = rev])
  <2> DEFINE cur == s.current
  <2>1. Written([s EXCEPT !.refs[cur] = rev, !.cache[cur].rev = rev])
    <3> HIDE DEF cur
    <3> QED BY NewTip
  <2> QED BY <2>1
<1>3. Written(Fail(s))
  BY FailIsWritten DEF Written
<1> QED BY <1>1, <1>2, <1>3

LEMMA TrunkAtIsWritten ==
  ASSUME NEW s, Written(s), NEW rev
  PROVE  Written(TrunkAt(s, rev))
BY NewTip DEF TrunkAt

LEMMA TrackIsWritten ==
  ASSUME NEW s, Written(s), NEW b, NEW p
  PROVE  Written(TrackBranch(s, b, p))
<1> DEFINE base == MergeBase(s.refs[b], s.refs[p])
           entry == [s.cache[b] EXCEPT !.result = "VALID", !.parent = p, !.prev = base]
<1>1. b \in Branches => IsEntry(entry) /\ entry.rev = s.refs[b]
  BY DEF Written, WrittenBut, IsSession, IsCache, IsEntry, Agrees
<1>2. TrackBranch(s, b, p) \in {Fail(s), UpdateMeta(s, b, entry)}
  BY DEF TrackBranch
<1> HIDE DEF entry
<1>3. WrittenBut(UpdateMeta(s, b, entry), {})
  BY <1>1, UpdateIsWritten DEF Written
<1> QED BY <1>2, <1>3, FailIsWritten DEF Written

LEMMA UntrackIsWritten ==
  ASSUME NEW s, Written(s), NEW b
  PROVE  Written(UntrackBranch(s, b))
<1> DEFINE kid(c) == c \in ToSet(s.cache[b].children) /\ s.cache[c].result # "BAD_PARENT_NAME"
           new == [c \in Branches |->
                    IF c = b THEN [s.cache[c] EXCEPT !.result = "BAD_PARENT_NAME"]
                    ELSE IF kid(c) THEN [s.cache[c] EXCEPT !.result = "INVALID_PARENT"]
                    ELSE s.cache[c]]
           stored == [s.meta EXCEPT ![b] = NoMeta]
           t == [s EXCEPT !.meta = stored, !.cache = new]
<1>1. IsSession(s) /\ \A c \in Branches : Agrees(s, c)
  BY DEF Written, WrittenBut
<1>2. UntrackBranch(s, b) \in {Fail(s), t}
  BY <1>1 DEF UntrackBranch, IsSession
<1>3. /\ DOMAIN new = Branches /\ DOMAIN stored = Branches
      /\ \A c \in Branches : new[c] \in {s.cache[c], [s.cache[c] EXCEPT !.result = "INVALID_PARENT"],
                                         [s.cache[c] EXCEPT !.result = "BAD_PARENT_NAME"]}
      /\ b \in Branches => new[b] = [s.cache[b] EXCEPT !.result = "BAD_PARENT_NAME"]
      /\ \A c \in Branches : stored[c] = IF c = b THEN NoMeta ELSE s.meta[c]
      /\ IsMeta(NoMeta)
  BY <1>1 DEF IsSession, IsDisk, IsMeta, NoMeta
<1> HIDE DEF new, stored
<1>4. \A c \in Branches : /\ IsEntry(new[c]) /\ new[c].rev = s.cache[c].rev
                          /\ new[c].result = "VALID" => c # b /\ new[c] = s.cache[c]
  BY <1>1, <1>3 DEF IsSession, IsCache, IsEntry
<1>5. t.refs = s.refs /\ t.meta = stored /\ t.cache = new /\ DOMAIN t = DOMAIN s
  BY <1>1 DEF IsSession
<1> HIDE DEF t
<1>6. IsSession(t)
  BY <1>1, <1>3, <1>4, <1>5 DEF IsSession, IsDisk, IsCache
<1>7. ASSUME NEW c \in Branches PROVE Agrees(t, c)
  <2>1. stored[c] = IF c = b THEN NoMeta ELSE s.meta[c]
    BY <1>3
  <2>2. new[c].rev = s.cache[c].rev /\ (new[c].result = "VALID" => c # b /\ new[c] = s.cache[c])
    BY <1>4
  <2>3. Agrees(s, c)
    BY <1>1
  <2> QED BY <1>5, <2>1, <2>2, <2>3 DEF Agrees
<1>8. Written(t)
  BY <1>6, <1>7 DEF Written, WrittenBut
<1>9. Written(Fail(s))
  BY FailIsWritten DEF Written
<1> QED BY <1>2, <1>8, <1>9

\* handleSuccessfulRebase writes what git has done.
LEMMA RecordIsDone ==
  ASSUME NEW s, NEW b, NEW base, WrittenBut(s, {b})
  PROVE  Done(HandleSuccessfulRebase(s, b, base))
<1> DEFINE entry == [s.cache[b] EXCEPT !.rev = s.refs[b], !.prev = base]
           done == UpdateMeta(s, b, entry)
           t == [done EXCEPT !.head = s.current]
<1>1. CASE ~Valid(s, b)
  BY <1>1, FailIsDone DEF HandleSuccessfulRebase, WrittenBut
<1>2. CASE Valid(s, b)
  <2>1. IsEntry(entry) /\ entry.rev = s.refs[b]
    BY <1>2 DEF Valid, HasResult, WrittenBut, IsSession, IsCache, IsEntry
  <2>2. HandleSuccessfulRebase(s, b, base) \in {done, t}
    BY <1>2 DEF HandleSuccessfulRebase
  <2> HIDE DEF entry
  <2>3. WrittenBut(done, {})
    BY <2>1, UpdateIsWritten
  <2> HIDE DEF done
  <2>4. WrittenBut(t, {})
    BY <2>3, OtherFields
  <2> HIDE DEF t
  <2> QED BY <2>2, <2>3, <2>4, WrittenIsDone DEF Written
<1> QED BY <1>1, <1>2

LEMMA FetchedIsWritten ==
  ASSUME NEW s, Written(s), NEW b, NEW p, NEW f
  PROVE  Written(CheckoutFromFetched(s, b, p, f))
<1> DEFINE t == [s EXCEPT !.refs[b] = f.head, !.head = b, !.current = b]
           entry == [result |-> "VALID", parent |-> p, prev |-> f.base,
                     rev |-> f.head, children |-> <<>>]
<1>1. CheckoutFromFetched(s, b, p, f) \in {Fail(s), UpdateMeta(t, b, entry)}
  BY DEF CheckoutFromFetched
<1>2. /\ DOMAIN t = DOMAIN s /\ t.cache = s.cache /\ t.meta = s.meta
      /\ DOMAIN t.refs = Branches /\ \A c \in Branches \ {b} : t.refs[c] = s.refs[c]
      /\ b \in Branches => t.refs[b] = f.head
  BY DEF Written, WrittenBut, IsSession, IsDisk
<1>3. IsEntry(entry) /\ entry.rev = f.head
  BY DEF IsEntry
<1> HIDE DEF t, entry
<1>4. WrittenBut(t, {b})
  BY <1>2, OtherRefs DEF Written
<1>5. WrittenBut(UpdateMeta(t, b, entry), {})
  BY <1>2, <1>3, <1>4, UpdateIsWritten
<1> QED BY <1>1, <1>5, FailIsWritten DEF Written

LEMMA CreatedIsWritten ==
  ASSUME NEW s, Written(s), NEW b, NEW staged
  PROVE  Written(Created(s, b, staged))
<1>1. Written(CheckoutNewBranch(s, b))
  BY NewBranchIsWritten
<1> DEFINE new == CheckoutNewBranch(s, b)
           rev == s.refs[s.current] \o staged
<1>2. Created(s, b, staged) \in {new, CommitTo(new, rev)}
  BY DEF Created
<1> HIDE DEF new, rev
<1>3. Written(CommitTo(new, rev))
  BY <1>1, CommitIsWritten DEF new
<1> QED BY <1>1, <1>2, <1>3 DEF new

----------------------------------------------------------------------------
(***************************************************************************)
(* Splits, reordered stacks and stacks that are tracked                    *)
(***************************************************************************)
StackStep(t, s, b, names, revs, i) ==
  UpdateMeta([t EXCEPT !.refs[names[i]] = revs[i]], names[i],
             [result |-> "VALID", parent |-> IF i = 1 THEN s.cache[b].parent ELSE names[i-1],
              prev |-> IF i = 1 THEN s.cache[b].prev ELSE revs[i-1],
              rev |-> revs[i], children |-> <<>>])

IsStacked(f, s, b, names, revs, n) ==
  f = [i \in 0..n |-> IF i = 0 THEN s
                      ELSE IF i \notin DOMAIN names THEN f[i-1]
                      ELSE StackStep(f[i-1], s, b, names, revs, i)]

LEMMA StackedExists ==
  ASSUME NEW s, NEW b, NEW names, NEW revs, NEW n \in Nat
  PROVE  \E f : IsStacked(f, s, b, names, revs, n)
<1> DEFINE T == {k \in Nat : ~ \E f : IsStacked(f, s, b, names, revs, k)}
<1>1. ASSUME NEW m \in T PROVE m # 0 /\ m - 1 \in T
  <2>1. m # 0
    <3>1. IsStacked([i \in 0..0 |-> s], s, b, names, revs, 0)
      BY DEF IsStacked
    <3> QED BY <3>1
  <2>2. ASSUME NEW g, IsStacked(g, s, b, names, revs, m - 1) PROVE FALSE
    <3> DEFINE last == IF m \notin DOMAIN names THEN g[m - 1]
                       ELSE StackStep(g[m - 1], s, b, names, revs, m)
               f == [i \in 0..m |-> IF i = m THEN last ELSE g[i]]
    <3>1. ASSUME NEW i \in 0..m
          PROVE  f[i] = IF i = 0 THEN s
                        ELSE IF i \notin DOMAIN names THEN f[i-1]
                        ELSE StackStep(f[i-1], s, b, names, revs, i)
      <4>1. CASE i = 0
        BY <4>1, <2>1, <2>2 DEF IsStacked
      <4>2. CASE i # 0 /\ i = m
        BY <4>2, <2>1
      <4>3. CASE i # 0 /\ i # m
        <5>1. i \in 0..(m - 1) /\ i - 1 \in 0..m /\ i - 1 # m
          BY <4>3
        <5>2. f[i] = g[i] /\ f[i - 1] = g[i - 1]
          BY <4>3, <5>1
        <5>3. g[i] = IF i \notin DOMAIN names THEN g[i-1]
                     ELSE StackStep(g[i-1], s, b, names, revs, i)
          BY <4>3, <5>1, <2>2 DEF IsStacked
        <5> HIDE DEF f
        <5> QED BY <4>3, <5>2, <5>3
      <4> QED BY <4>1, <4>2, <4>3
    <3>2. IsStacked(f, s, b, names, revs, m)
      BY <3>1, Zenon DEF IsStacked
    <3> QED BY <3>2
  <2> QED BY <2>1, <2>2
<1>2. T \subseteq Nat
  OBVIOUS
<1> HIDE DEF T
<1>3. T = {}
  BY <1>1, <1>2, EveryNumber
<1> QED BY <1>3 DEF T

LEMMA StackStepIsWritten ==
  ASSUME NEW t, WrittenBut(t, {}), NEW s, NEW b, NEW names, NEW revs, NEW i
  PROVE  WrittenBut(StackStep(t, s, b, names, revs, i), {})
<1> DEFINE name == names[i]
           new == [t EXCEPT !.refs[name] = revs[i]]
           entry == [result |-> "VALID", parent |-> IF i = 1 THEN s.cache[b].parent ELSE names[i-1],
                     prev |-> IF i = 1 THEN s.cache[b].prev ELSE revs[i-1],
                     rev |-> revs[i], children |-> <<>>]
<1>1. StackStep(t, s, b, names, revs, i) = UpdateMeta(new, name, entry)
  BY DEF StackStep
<1> HIDE DEF name
<1>2. /\ DOMAIN new = DOMAIN t /\ new.cache = t.cache /\ new.meta = t.meta
      /\ DOMAIN new.refs = Branches /\ \A c \in Branches \ {name} : new.refs[c] = t.refs[c]
      /\ name \in Branches => new.refs[name] = revs[i]
  BY DEF WrittenBut, IsSession, IsDisk
<1>3. IsEntry(entry) /\ entry.rev = revs[i]
  BY DEF IsEntry
<1> HIDE DEF new, entry
<1>4. WrittenBut(new, {name})
  BY <1>2, OtherRefs
<1>5. WrittenBut(UpdateMeta(new, name, entry), {})
  BY <1>2, <1>3, <1>4, UpdateIsWritten
<1> QED BY <1>1, <1>5

LEMMA StackedIsWritten ==
  ASSUME NEW s, Written(s), NEW b, NEW names, NEW revs
  PROVE  Written(Stacked(s, b, names, revs))
<1> DEFINE n == Cardinality(Branches)
           f == CHOOSE g : IsStacked(g, s, b, names, revs, n)
<1>1. n \in Nat
  BY CountIsNumber
<1>2. IsStacked(f, s, b, names, revs, n)
  BY <1>1, StackedExists
<1>3. Stacked(s, b, names, revs) = f[n]
  BY DEF Stacked, IsStacked, StackStep
<1> HIDE DEF n, f
<1> DEFINE T == {i \in 0..n : ~ WrittenBut(f[i], {})}
<1>4. ASSUME NEW i \in T PROVE i # 0 /\ i - 1 \in T
  <2>1. f[0] = s
    BY <1>1, <1>2 DEF IsStacked
  <2>2. i # 0 /\ i - 1 \in 0..n
    BY <1>1, <2>1 DEF Written
  <2>3. f[i] \in {f[i-1], StackStep(f[i-1], s, b, names, revs, i)}
    BY <1>2, <2>2 DEF IsStacked
  <2> QED BY <2>2, <2>3, StackStepIsWritten
<1>5. T \subseteq Nat
  BY <1>1
<1>6. T = {}
  <2> HIDE DEF T
  <2> QED BY <1>4, <1>5, EveryNumber
<1> QED BY <1>1, <1>3, <1>6 DEF Written

LEMMA SplitIsWritten ==
  ASSUME NEW s, Written(s), NEW names, NEW revs
  PROVE  Written(ApplySplitToCommits(s, names, revs))
<1> DEFINE b == s.current
           kids == s.cache[b].children
           top == IF names = <<>> THEN s.cache[b].parent ELSE Last(names)
           off == [s EXCEPT !.head = NoBranch]
           up == Stacked(off, b, names, revs)
           walk == IF b \in ToSet(names) THEN kids ELSE EveryOther(kids)
           all == IF top = b THEN up ELSE Adopt(up, walk, top)
           left == IF b \in ToSet(names) THEN all ELSE DeleteAllBranchData(all, b)
           t == [left EXCEPT !.head = top, !.current = top]
<1>1. ApplySplitToCommits(s, names, revs) = IF left.failed THEN left ELSE t
  BY DEF ApplySplitToCommits
<1>2. Written(off)
  BY OtherFields DEF Written
<1> HIDE DEF off
<1>3. WrittenBut(up, {})
  BY <1>2, StackedIsWritten DEF Written
<1> HIDE DEF up, walk
<1>4. WrittenBut(all, {})
  BY <1>3, AdoptIsWritten
<1> HIDE DEF all
<1>5. WrittenBut(left, {})
  BY <1>4, DeleteDataIsWritten
<1> HIDE DEF left
<1>6. WrittenBut(t, {})
  BY <1>5, OtherFields
<1> HIDE DEF t
<1> QED BY <1>1, <1>5, <1>6 DEF Written

IsReordered(f, s, names, n) ==
  f = [i \in 0..n |-> IF i = 0 THEN s
                      ELSE IF i \in DOMAIN names
                           THEN SetParent(f[i-1], names[i], IF i = 1 THEN Trunk ELSE names[i-1])
                      ELSE f[i-1]]

LEMMA ReorderedExists ==
  ASSUME NEW s, NEW names, NEW n \in Nat
  PROVE  \E f : IsReordered(f, s, names, n)
<1> DEFINE T == {k \in Nat : ~ \E f : IsReordered(f, s, names, k)}
           below(i) == IF i = 1 THEN Trunk ELSE names[i-1]
<1>1. ASSUME NEW m \in T PROVE m # 0 /\ m - 1 \in T
  <2>1. m # 0
    <3>1. IsReordered([i \in 0..0 |-> s], s, names, 0)
      BY DEF IsReordered
    <3> QED BY <3>1
  <2>2. ASSUME NEW g, IsReordered(g, s, names, m - 1) PROVE FALSE
    <3> DEFINE last == IF m \in DOMAIN names THEN SetParent(g[m - 1], names[m], below(m))
                       ELSE g[m - 1]
               f == [i \in 0..m |-> IF i = m THEN last ELSE g[i]]
    <3>1. ASSUME NEW i \in 0..m
          PROVE  f[i] = IF i = 0 THEN s
                        ELSE IF i \in DOMAIN names THEN SetParent(f[i-1], names[i], below(i))
                        ELSE f[i-1]
      <4>1. CASE i = 0
        BY <4>1, <2>1, <2>2 DEF IsReordered
      <4>2. CASE i # 0 /\ i = m
        BY <4>2, <2>1
      <4>3. CASE i # 0 /\ i # m
        <5>1. i \in 0..(m - 1) /\ i - 1 \in 0..m /\ i - 1 # m
          BY <4>3
        <5>2. f[i] = g[i] /\ f[i - 1] = g[i - 1]
          BY <4>3, <5>1
        <5>3. g[i] = IF i \in DOMAIN names THEN SetParent(g[i-1], names[i], below(i)) ELSE g[i-1]
          BY <4>3, <5>1, <2>2 DEF IsReordered
        <5> HIDE DEF f
        <5> QED BY <4>3, <5>2, <5>3
      <4> QED BY <4>1, <4>2, <4>3
    <3>2. IsReordered(f, s, names, m)
      BY <3>1, Zenon DEF IsReordered
    <3> QED BY <3>2
  <2> QED BY <2>1, <2>2
<1>2. T \subseteq Nat
  OBVIOUS
<1> HIDE DEF T
<1>3. T = {}
  BY <1>1, <1>2, EveryNumber
<1> QED BY <1>3 DEF T

LEMMA ReorderedIsWritten ==
  ASSUME NEW s, Written(s), NEW names
  PROVE  Written(Reordered(s, names))
<1> DEFINE n == Cardinality(Branches)
           f == CHOOSE g : IsReordered(g, s, names, n)
<1>1. n \in Nat
  BY CountIsNumber
<1>2. IsReordered(f, s, names, n)
  BY <1>1, ReorderedExists
<1>3. Reordered(s, names) = f[n]
  BY DEF Reordered, IsReordered
<1> HIDE DEF n, f
<1> DEFINE T == {i \in 0..n : ~ WrittenBut(f[i], {})}
<1>4. ASSUME NEW i \in T PROVE i # 0 /\ i - 1 \in T
  <2>1. f[0] = s
    BY <1>1, <1>2 DEF IsReordered
  <2>2. i # 0 /\ i - 1 \in 0..n
    BY <1>1, <2>1 DEF Written
  <2> DEFINE q == IF i = 1 THEN Trunk ELSE names[i-1]
             c == names[i]
  <2>3. f[i] \in {f[i-1], SetParent(f[i-1], c, q)}
    BY <1>2, <2>2 DEF IsReordered
  <2> HIDE DEF q, c
  <2>4. WrittenBut(f[i-1], {}) => WrittenBut(SetParent(f[i-1], c, q), {})
    BY SetParentIsWritten
  <2> QED BY <2>2, <2>3, <2>4
<1>5. T \subseteq Nat
  BY <1>1
<1>6. T = {}
  <2> HIDE DEF T
  <2> QED BY <1>4, <1>5, EveryNumber
<1> QED BY <1>1, <1>3, <1>6 DEF Written

\* What trackStack makes of the sessions before.
Tracks(before, s, c) ==
  UNION {{IF t.failed THEN t ELSE TrackBranch(t, c, p) : t \in before[p]}
         : p \in PotentialParents(s, c)}

IsTracked(f, s, n) ==
  f = [i \in 0..n |-> [c \in Branches |->
         IF i = 0 \/ s.cache[c].result \in {"TRUNK", "VALID"} THEN {s} ELSE Tracks(f[i-1], s, c)]]

LEMMA TrackedExists ==
  ASSUME NEW s, NEW n \in Nat
  PROVE  \E f : IsTracked(f, s, n)
<1> DEFINE T == {k \in Nat : ~ \E f : IsTracked(f, s, k)}
           known(c) == s.cache[c].result \in {"TRUNK", "VALID"}
<1>1. ASSUME NEW m \in T PROVE m # 0 /\ m - 1 \in T
  <2>1. m # 0
    <3>1. IsTracked([i \in 0..0 |-> [c \in Branches |-> {s}]], s, 0)
      BY DEF IsTracked
    <3> QED BY <3>1
  <2>2. ASSUME NEW g, IsTracked(g, s, m - 1) PROVE FALSE
    <3> DEFINE last == [c \in Branches |-> IF known(c) THEN {s} ELSE Tracks(g[m - 1], s, c)]
               f == [i \in 0..m |-> IF i = m THEN last ELSE g[i]]
    <3>1. ASSUME NEW i \in 0..m
          PROVE  f[i] = [c \in Branches |-> IF i = 0 \/ known(c) THEN {s} ELSE Tracks(f[i-1], s, c)]
      <4>1. CASE i = 0
        BY <4>1, <2>1, <2>2 DEF IsTracked
      <4>2. CASE i # 0 /\ i = m
        BY <4>2, <2>1
      <4>3. CASE i # 0 /\ i # m
        <5>1. i \in 0..(m - 1) /\ i - 1 \in 0..m /\ i - 1 # m
          BY <4>3
        <5>2. f[i] = g[i] /\ f[i - 1] = g[i - 1]
          BY <4>3, <5>1
        <5>3. g[i] = [c \in Branches |-> IF i = 0 \/ known(c) THEN {s} ELSE Tracks(g[i-1], s, c)]
          BY <4>3, <5>1, <2>2 DEF IsTracked
        <5> HIDE DEF f, known
        <5> QED BY <5>2, <5>3
      <4> QED BY <4>1, <4>2, <4>3
    <3>2. IsTracked(f, s, m)
      BY <3>1, Zenon DEF IsTracked
    <3> QED BY <3>2
  <2> QED BY <2>1, <2>2
<1>2. T \subseteq Nat
  OBVIOUS
<1> HIDE DEF T
<1>3. T = {}
  BY <1>1, <1>2, EveryNumber
<1> QED BY <1>3 DEF T

LEMMA TrackedAreWritten ==
  ASSUME NEW s, Written(s), NEW b \in Branches, NEW t \in TrackedStacks(s, b)
  PROVE  Written(t)
<1> DEFINE n == Cardinality(Branches)
           f == CHOOSE g : IsTracked(g, s, n)
<1>1. n \in Nat
  BY CountIsNumber
<1>2. IsTracked(f, s, n)
  BY <1>1, TrackedExists
<1>3. TrackedStacks(s, b) = f[n][b]
  BY DEF TrackedStacks, IsTracked, Tracks
<1> HIDE DEF n, f
<1> DEFINE T == {i \in 0..n : \E c \in Branches : \E u \in f[i][c] : ~ Written(u)}
<1>4. ASSUME NEW i \in T PROVE i # 0 /\ i - 1 \in T
  <2>1. PICK c \in Branches : \E u \in f[i][c] : ~ Written(u)
    OBVIOUS
  <2>2. PICK u \in f[i][c] : ~ Written(u)
    BY <2>1
  <2>3. f[i][c] = IF i = 0 \/ s.cache[c].result \in {"TRUNK", "VALID"} THEN {s}
                  ELSE Tracks(f[i-1], s, c)
    <3>1. i \in 0..n
      OBVIOUS
    <3>2. f[i] = [d \in Branches |->
                   IF i = 0 \/ s.cache[d].result \in {"TRUNK", "VALID"} THEN {s}
                   ELSE Tracks(f[i-1], s, d)]
      BY <1>2, <3>1, Zenon DEF IsTracked
    <3> QED BY <3>2, Zenon
  <2>4. i # 0 /\ u \in Tracks(f[i-1], s, c)
    BY <2>2, <2>3
  <2>5. PICK p \in PotentialParents(s, c) :
          \E v \in f[i-1][p] : u = IF v.failed THEN v ELSE TrackBranch(v, c, p)
    BY <2>4 DEF Tracks
  <2>6. PICK v \in f[i-1][p] : u = IF v.failed THEN v ELSE TrackBranch(v, c, p)
    BY <2>5
  <2>7. p \in Branches /\ ~ Written(v)
    BY <2>2, <2>6, TrackIsWritten DEF PotentialParents
  <2> QED BY <1>1, <2>4, <2>6, <2>7
<1>5. T \subseteq Nat
  BY <1>1
<1>6. T = {}
  <2> HIDE DEF T
  <2> QED BY <1>4, <1>5, EveryNumber
<1> QED BY <1>1, <1>3, <1>6

\* What trackBranchInteractive makes of the session t.
Onboards(t) ==
  {CheckoutBranch(TrackBranch(t, b, t.current), b) :
    b \in {b \in Branches : /\ b # Trunk /\ Exists(t, b) /\ ~Valid(t, b)
                            /\ t.current = Trunk \/ IsDescendantOf(t, b, t.current)}}

OnboardedOnce(S) == S \cup UNION {IF t.failed THEN {} ELSE Onboards(t) : t \in S}

IsOnboarded(f, s, n) ==
  f = [i \in 0..n |-> IF i = 0 THEN {CheckoutBranch(s, Trunk)} ELSE OnboardedOnce(f[i-1])]

LEMMA OnboardedExists ==
  ASSUME NEW s, NEW n \in Nat
  PROVE  \E f : IsOnboarded(f, s, n)
<1> DEFINE T == {k \in Nat : ~ \E f : IsOnboarded(f, s, k)}
           first == {CheckoutBranch(s, Trunk)}
<1>1. ASSUME NEW m \in T PROVE m # 0 /\ m - 1 \in T
  <2>1. m # 0
    <3>1. IsOnboarded([i \in 0..0 |-> first], s, 0)
      BY DEF IsOnboarded
    <3> QED BY <3>1
  <2>2. ASSUME NEW g, IsOnboarded(g, s, m - 1) PROVE FALSE
    <3> DEFINE last == OnboardedOnce(g[m - 1])
               f == [i \in 0..m |-> IF i = m THEN last ELSE g[i]]
    <3>1. ASSUME NEW i \in 0..m
          PROVE  f[i] = IF i = 0 THEN first ELSE OnboardedOnce(f[i-1])
      <4> HIDE DEF first
      <4>1. CASE i = 0
        <5> USE DEF first
        <5> QED BY <4>1, <2>1, <2>2 DEF IsOnboarded
      <4>2. CASE i # 0 /\ i = m
        BY <4>2, <2>1
      <4>3. CASE i # 0 /\ i # m
        <5>1. i \in 0..(m - 1) /\ i - 1 \in 0..m /\ i - 1 # m
          BY <4>3
        <5>2. f[i] = g[i] /\ f[i - 1] = g[i - 1]
          BY <4>3, <5>1
        <5>3. g[i] = OnboardedOnce(g[i-1])
          BY <4>3, <5>1, <2>2 DEF IsOnboarded
        <5> HIDE DEF f
        <5> QED BY <4>3, <5>2, <5>3
      <4> QED BY <4>1, <4>2, <4>3
    <3>2. IsOnboarded(f, s, m)
      BY <3>1, Zenon DEF IsOnboarded
    <3> QED BY <3>2
  <2> QED BY <2>1, <2>2
<1>2. T \subseteq Nat
  OBVIOUS
<1> HIDE DEF T
<1>3. T = {}
  BY <1>1, <1>2, EveryNumber
<1> QED BY <1>3 DEF T

LEMMA OnboardedAreWritten ==
  ASSUME NEW s, Written(s), NEW t \in Onboarded(s)
  PROVE  Written(t)
<1> DEFINE n == Cardinality(Branches)
           f == CHOOSE g : IsOnboarded(g, s, n)
<1>1. n \in Nat
  BY CountIsNumber
<1>2. IsOnboarded(f, s, n)
  BY <1>1, OnboardedExists
<1>3. Onboarded(s) = f[n]
  BY DEF Onboarded, IsOnboarded, OnboardedOnce, Onboards
<1> HIDE DEF n, f
<1> DEFINE T == {i \in 0..n : \E u \in f[i] : ~ Written(u)}
<1>4. ASSUME NEW i \in T PROVE i # 0 /\ i - 1 \in T
  <2>1. PICK u \in f[i] : ~ Written(u)
    OBVIOUS
  <2>2. i \in 0..n /\ f[i] = IF i = 0 THEN {CheckoutBranch(s, Trunk)} ELSE OnboardedOnce(f[i-1])
    BY <1>2 DEF IsOnboarded
  <2>3. i # 0
    BY <2>1, <2>2, CheckoutIsWritten DEF Written
  <2>4. i - 1 \in 0..n /\ u \in OnboardedOnce(f[i-1])
    BY <1>1, <2>1, <2>2, <2>3
  <2>5. CASE u \in f[i-1]
    BY <2>1, <2>3, <2>4, <2>5
  <2>6. CASE u \notin f[i-1]
    <3>1. PICK v \in f[i-1] : u \in Onboards(v)
      BY <2>4, <2>6, Zenon DEF OnboardedOnce
    <3>2. PICK b : u = CheckoutBranch(TrackBranch(v, b, v.current), b)
      BY <3>1 DEF Onboards
    <3>3. ~ Written(v)
      BY <2>1, <3>2, TrackIsWritten, CheckoutIsWritten DEF Written
    <3> QED BY <2>3, <2>4, <3>1, <3>3
  <2> QED BY <2>5, <2>6
<1>5. T \subseteq Nat
  BY <1>1
<1>6. T = {}
  <2> HIDE DEF T
  <2> QED BY <1>4, <1>5, EveryNumber
<1> QED BY <1>1, <1>3, <1>6

----------------------------------------------------------------------------
(***************************************************************************)
(* A process starts with what is on disk                                   *)
(***************************************************************************)
LEMMA LoadIsWritten ==
  ASSUME NEW heads, NEW stored, IsDisk(heads, stored), NEW order, NEW s,
         {"refs", "meta", "head", "rebase", "cache", "current", "failed"} \subseteq DOMAIN s,
         s.refs = heads, s.meta = LoadedMeta(heads, stored), s.cache = LoadedCache(heads, stored, order)
  PROVE  Written(s)
<1> DEFINE rooted == Rooted(heads, stored)
           rev(c) == RevisionFrom(heads, stored, c)
           entry(c) == LoadedEntry(heads, stored, rooted, order, c)
           kept(c) == IF heads[c] = NoCommit THEN NoMeta
                      ELSE IF c \in rooted \ {Trunk} THEN [stored[c] EXCEPT !.rev = rev(c)]
                      ELSE stored[c]
<1>1. DOMAIN s.meta = Branches /\ \A c \in Branches : s.meta[c] = kept(c)
  BY DEF LoadedMeta
<1>2. DOMAIN s.cache = Branches /\ \A c \in Branches : s.cache[c] = entry(c)
  BY DEF LoadedCache
<1> HIDE DEF rooted, rev
<1>3. \A c \in Branches : IsMeta(kept(c))
  BY DEF IsDisk, IsMeta, NoMeta
<1>4. \A c \in Branches : IsEntry(entry(c)) /\ entry(c).rev = heads[c]
  BY DEF LoadedEntry, IsEntry
<1>5. ASSUME NEW c \in Branches, entry(c).result = "VALID"
      PROVE  kept(c) = [parent |-> entry(c).parent, rev |-> entry(c).prev]
  <2>1. ResultOf(heads, stored, rooted, c) = "VALID"
    BY <1>5 DEF LoadedEntry
  <2>2. heads[c] # NoCommit /\ c # Trunk /\ HasParentName(heads, stored, c) /\ c \in rooted
    BY <2>1 DEF ResultOf
  <2>3. entry(c).parent = stored[c].parent /\ entry(c).prev = RevisionFrom(heads, stored, c)
    BY <2>1, <2>2 DEF LoadedEntry, Follows
  <2>4. kept(c) = [stored[c] EXCEPT !.rev = rev(c)]
    BY <2>2
  <2>5. [stored[c] EXCEPT !.rev = rev(c)] = [parent |-> stored[c].parent, rev |-> rev(c)]
    BY DEF IsDisk, IsMeta
  <2> HIDE DEF entry, kept
  <2> QED BY <2>3, <2>4, <2>5 DEF rev
<1> HIDE DEF entry, kept
<1>6. IsSession(s)
  BY <1>1, <1>2, <1>3, <1>4 DEF IsSession, IsDisk, IsCache
<1>7. \A c \in Branches : Agrees(s, c)
  BY <1>1, <1>2, <1>4, <1>5 DEF Agrees
<1> QED BY <1>6, <1>7 DEF Written, WrittenBut

\* init --reset: without metadata no branch is valid.
LEMMA ResetIsWritten ==
  ASSUME NEW s, Written(s), NEW stored, stored = [b \in Branches |-> NoMeta], NEW order
  PROVE  Written([s EXCEPT !.meta = stored, !.cache = LoadedCache(s.refs, stored, order)])
<1> DEFINE known == LoadedCache(s.refs, stored, order)
           rooted == Rooted(s.refs, stored)
           entry(c) == LoadedEntry(s.refs, stored, rooted, order, c)
           t == [s EXCEPT !.meta = stored, !.cache = known]
<1>1. IsSession(s)
  BY DEF Written, WrittenBut
<1>2. DOMAIN known = Branches /\ \A c \in Branches : known[c] = entry(c)
  BY DEF LoadedCache
<1> HIDE DEF known, rooted
<1>3. ASSUME NEW c \in Branches
      PROVE  IsEntry(entry(c)) /\ entry(c).rev = s.refs[c] /\ entry(c).result # "VALID"
  <2>1. ~ HasParentName(s.refs, stored, c)
    BY DEF HasParentName, NoMeta
  <2>2. ResultOf(s.refs, stored, rooted, c) # "VALID"
    BY <2>1 DEF ResultOf
  <2> QED BY <2>2 DEF LoadedEntry, IsEntry
<1> HIDE DEF entry
<1>4. t.refs = s.refs /\ t.meta = stored /\ t.cache = known /\ DOMAIN t = DOMAIN s
  BY <1>1 DEF IsSession
<1>5. IsDisk(s.refs, stored)
  BY <1>1 DEF IsSession, IsDisk, IsMeta, NoMeta
<1> HIDE DEF t
<1>6. IsSession(t)
  BY <1>1, <1>2, <1>3, <1>4, <1>5 DEF IsSession, IsCache
<1>7. \A c \in Branches : Agrees(t, c)
  BY <1>2, <1>3, <1>4 DEF Agrees
<1>8. Written(t)
  BY <1>6, <1>7 DEF Written, WrittenBut
<1> QED BY <1>8 DEF t, known

\* The operations that write metadata move no branch.
LEMMA RefsAreLeft ==
  ASSUME NEW s, IsSession(s), NEW b, NEW p, NEW entry, NEW base
  PROVE  /\ UpdateMeta(s, b, entry).refs = s.refs
         /\ SetParent(s, b, p).refs = s.refs
         /\ HandleSuccessfulRebase(s, b, base).refs = s.refs
<1>1. \A t, kids : "refs" \in DOMAIN t => RevalidateChildren(t, kids).refs = t.refs
  BY DEF RevalidateChildren
<1>2. ASSUME NEW e PROVE UpdateMeta(s, b, e).refs = s.refs /\ "refs" \in DOMAIN UpdateMeta(s, b, e)
  <2> DEFINE old == s.cache[b]
             q == IF old.result \in {"NONE", "BAD_PARENT_NAME"} THEN NoBranch ELSE old.parent
             t == [s EXCEPT !.cache = MoveChild([s.cache EXCEPT ![b] = e], b, q, e.parent),
                            !.meta[b] = [parent |-> e.parent, rev |-> e.prev]]
  <2>1. UpdateMeta(s, b, e) \in {t, RevalidateChildren(t, ToSet(e.children))}
    BY DEF UpdateMeta
  <2>2. t.refs = s.refs /\ "refs" \in DOMAIN t
    BY DEF IsSession
  <2> HIDE DEF t
  <2>3. "refs" \in DOMAIN RevalidateChildren(t, ToSet(e.children))
    BY <2>2 DEF RevalidateChildren
  <2> QED BY <1>1, <2>1, <2>2, <2>3
<1>3. SetParent(s, b, p).refs = s.refs
  <2> DEFINE e == [s.cache[b] EXCEPT !.parent = p]
  <2>1. SetParent(s, b, p) \in {Fail(s), s, UpdateMeta(s, b, e)}
    BY DEF SetParent
  <2>2. Fail(s).refs = s.refs
    BY DEF Fail, IsSession
  <2> HIDE DEF e
  <2> QED BY <1>2, <2>1, <2>2
<1>4. HandleSuccessfulRebase(s, b, base).refs = s.refs
  <2> DEFINE e == [s.cache[b] EXCEPT !.rev = s.refs[b], !.prev = base]
             done == UpdateMeta(s, b, e)
             t == [done EXCEPT !.head = s.current]
  <2>1. HandleSuccessfulRebase(s, b, base) \in {Fail(s), done, t}
    BY DEF HandleSuccessfulRebase
  <2>2. Fail(s).refs = s.refs
    BY DEF Fail, IsSession
  <2> HIDE DEF e
  <2>3. done.refs = s.refs /\ "refs" \in DOMAIN done
    BY <1>2
  <2> HIDE DEF done
  <2> QED BY <2>1, <2>2, <2>3
<1> QED BY <1>2, <1>3, <1>4

----------------------------------------------------------------------------
(***************************************************************************)
(* A process goes on with what it has written                              *)
(***************************************************************************)
\* Between two steps only the branch that git has just rebased may differ; a
\* split by hunk, which reads the disk and the cache while the user commits,
\* has none and restacks nothing meanwhile.
WriteInv ==
  /\ IsDisk(refs, meta)
  /\ process # "none" => WrittenBut(Session, {rebased.branch})
  /\ process = "split" => rebased = Nothing /\ queue = <<>>

LEMMA NothingIsUnrecorded ==
  ASSUME NEW s
  PROVE  WrittenBut(s, {Nothing.branch}) <=> Written(s)
BY BranchNames DEF Nothing, Written, WrittenBut

LEMMA SessionAsWritten ==
  ASSUME NEW s, NEW X, WrittenBut(s, X), refs' = s.refs, meta' = s.meta, cache' = s.cache
  PROVE  WrittenBut(Session', X)
BY DEF WrittenBut, IsSession, Agrees, Session

\* The first process to use what Loaded reads.
LEMMA LoadedIsWritten ==
  ASSUME WriteInv, NEW order
  PROVE  Written(Loaded(order))
BY LoadIsWritten DEF WriteInv, Loaded

LEMMA SessionIsWritten ==
  ASSUME WriteInv, process # "none", rebased = Nothing
  PROVE  Written(Session)
BY NothingIsUnrecorded DEF WriteInv

LEMMA EndKeepsWriteInv ==
  ASSUME IsDisk(refs', meta'), EndProcess
  PROVE  WriteInv'
BY DEF EndProcess, WriteInv

LEMMA StayKeepsWriteInv ==
  ASSUME WriteInv, UNCHANGED <<refs, meta, cache, rebased>>, process' \in {process, "command"},
         process' # "split"
  PROVE  process # "none" => WriteInv'
BY DEF WriteInv, Session, WrittenBut, IsSession, Agrees

LEMMA WrittenKeepsWriteInv ==
  ASSUME NEW s, Written(s), refs' = s.refs, meta' = s.meta, cache' = s.cache,
         rebased' = Nothing, process' = "split" => queue' = <<>>
  PROVE  WriteInv'
<1>1. WrittenBut(Session', {Nothing.branch})
  BY SessionAsWritten, NothingIsUnrecorded DEF Written
<1>2. IsDisk(refs', meta')
  BY DEF Written, WrittenBut, IsSession
<1> QED BY <1>1, <1>2 DEF WriteInv

LEMMA BeginKeepsWriteInv ==
  ASSUME NEW kind, NEW s, NEW q, NEW patches, BeginAs(kind, s, q, patches), Done(s),
         kind # "split" \/ q = <<>>
  PROVE  WriteInv'
<1>1. refs' = s.refs /\ meta' = s.meta
  BY DEF BeginAs
<1>2. CASE s.failed
  BY <1>1, <1>2, EndKeepsWriteInv DEF BeginAs, Done, IsSession
<1>3. CASE ~ s.failed
  BY <1>1, <1>3, WrittenKeepsWriteInv DEF BeginAs, Done
<1> QED BY <1>2, <1>3

\* A branch that git has moved waits to be recorded.
LEMMA RebasedKeepsWriteInv ==
  ASSUME NEW s, Written(s), NEW b, NEW rev, refs' = [s.refs EXCEPT ![b] = rev],
         meta' = s.meta, cache' = s.cache, rebased'.branch = b, process' # "split"
  PROVE  WriteInv'
<1> DEFINE heads == [s.refs EXCEPT ![b] = rev]
           t == [s EXCEPT !.refs = heads]
<1>1. IsSession(s) /\ WrittenBut(s, {})
  BY DEF Written, WrittenBut
<1>2. DOMAIN heads = Branches /\ \A c \in Branches \ {b} : heads[c] = s.refs[c]
  BY <1>1 DEF IsSession, IsDisk
<1>3. refs' = heads
  OBVIOUS
<1> HIDE DEF heads
<1>4. t.refs = heads /\ t.meta = s.meta /\ t.cache = s.cache /\ DOMAIN t = DOMAIN s
  BY <1>1 DEF IsSession
<1> HIDE DEF t
<1>5. WrittenBut(t, {b})
  BY <1>1, <1>2, <1>4, OtherRefs
<1>6. WrittenBut(Session', {b})
  BY <1>3, <1>4, <1>5, SessionAsWritten
<1>7. IsDisk(refs', meta')
  BY <1>3, <1>4, <1>5 DEF WrittenBut, IsSession
<1> QED BY <1>6, <1>7 DEF WriteInv

LEMMA CommandKeepsWriteInv ==
  ASSUME WriteInv, Command
  PROVE  WriteInv'
<1>2. ASSUME NEW s, NEW q, NEW patches, Begin(s, q, patches), Done(s)
      PROVE  WriteInv'
  BY <1>2, BeginKeepsWriteInv DEF Begin
<1>3. ASSUME NEW s, NEW rev, NEW patches, Written(s), CommitAndRestack(s, rev, patches)
      PROVE  WriteInv'
  <2>1. Done(CommitTo(s, rev))
    BY <1>3, CommitIsWritten, WrittenIsDone
  <2> QED BY <1>2, <1>3, <2>1 DEF CommitAndRestack
<1>4. CASE CommitCreate
  BY <1>3, <1>4, LoadedIsWritten DEF CommitCreate
<1>5. CASE CommitAmend
  BY <1>3, <1>5, LoadedIsWritten DEF CommitAmend
<1>6. CASE Squash
  BY <1>3, <1>6, LoadedIsWritten DEF Squash
<1>7. CASE Create
  <2>1. PICK order, b, staged, patches : Begin(Created(Loaded(order), b, staged), <<>>, patches)
    BY <1>7 DEF Create
  <2> QED BY <1>2, <2>1, LoadedIsWritten, CreatedIsWritten, WrittenIsDone
<1>8. CASE CreateInsert
  <2>1. PICK order, b, staged, siblings, q, patches :
          Begin(Adopt(Created(Loaded(order), b, staged), siblings, b), q, patches)
    BY <1>8 DEF CreateInsert
  <2>2. Written(Adopt(Created(Loaded(order), b, staged), siblings, b))
    BY LoadedIsWritten, CreatedIsWritten, AdoptIsWritten DEF Written
  <2> QED BY <1>2, <2>1, <2>2, WrittenIsDone
<1>9. CASE CreateFails
  <2>1. PICK order, b, s : /\ s \in {CheckoutNewBranch(Loaded(order), b),
                                     DeleteBranch(CheckoutNewBranch(Loaded(order), b), b)}
                           /\ Begin(Fail(s), <<>>, own)
    BY <1>9 DEF CreateFails
  <2>2. Written(s)
    BY <2>1, LoadedIsWritten, NewBranchIsWritten, DeleteIsWritten
  <2> QED BY <1>2, <2>1, <2>2, WrittenIsDone
<1>10. CASE Delete
  <2>1. PICK order, b, q : Begin(DeleteBranch(Loaded(order), b), q, own)
    BY <1>10 DEF Delete
  <2> QED BY <1>2, <2>1, LoadedIsWritten, DeleteIsWritten, WrittenIsDone
<1>11. CASE Fold
  <2>1. PICK order, keep, q, patches : Begin(FoldCurrentBranch(Loaded(order), keep), q, patches)
    BY <1>11 DEF Fold
  <2> QED BY <1>2, <2>1, LoadedIsWritten, FoldIsWritten, WrittenIsDone
<1>12. CASE Rename
  <2>1. PICK order, b, patches :
          b \in Branches /\ Begin(RenameCurrentBranch(Loaded(order), b), <<>>, patches)
    BY <1>12 DEF Rename
  <2> QED BY <1>2, <2>1, LoadedIsWritten, RenameIsDone
<1>13. CASE Onto
  <2>1. PICK order, b, p, q : Begin(SetParent(Loaded(order), b, p), q, own)
    BY <1>13 DEF Onto
  <2>2. Written(SetParent(Loaded(order), b, p))
    BY LoadedIsWritten, SetParentIsWritten DEF Written
  <2> QED BY <1>2, <2>1, <2>2, WrittenIsDone
<1>14. CASE UnbranchCommand
  <2>1. PICK order : Begin(Unbranch(Loaded(order)), <<>>, own)
    BY <1>14 DEF UnbranchCommand
  <2> QED BY <1>2, <2>1, LoadedIsWritten, UnbranchIsWritten, WrittenIsDone
<1>15. CASE Track
  <2>1. PICK order, b, p : Begin(TrackBranch(Loaded(order), b, p), <<>>, own)
    BY <1>15 DEF Track
  <2> QED BY <1>2, <2>1, LoadedIsWritten, TrackIsWritten, WrittenIsDone
<1>16. CASE Untrack
  <2>1. PICK order, b : Begin(UntrackBranch(Loaded(order), b), <<>>, own)
    BY <1>16 DEF Untrack
  <2> QED BY <1>2, <2>1, LoadedIsWritten, UntrackIsWritten, WrittenIsDone
<1>17. CASE Checkout
  <2>1. PICK order, b : Begin(CheckoutBranch(Loaded(order), b), <<>>, own)
    BY <1>17 DEF Checkout
  <2>2. Written(CheckoutBranch(Loaded(order), b))
    BY LoadedIsWritten, CheckoutIsWritten DEF Written
  <2> QED BY <1>2, <2>1, <2>2, WrittenIsDone
<1>18. CASE Restack
  <2>1. PICK order, q : Begin(Loaded(order), q, own)
    BY <1>18 DEF Restack
  <2> QED BY <1>2, <2>1, LoadedIsWritten, WrittenIsDone
<1> QED BY <1>4, <1>5, <1>6, <1>7, <1>8, <1>9, <1>10, <1>11, <1>12, <1>13, <1>14, <1>15, <1>16,
           <1>17, <1>18 DEF Command

LEMMA EditKeepsWriteInv ==
  ASSUME WriteInv, Edit
  PROVE  WriteInv'
<1>1. ASSUME NEW s, NEW q, NEW patches, Begin(s, q, patches), Done(s)
      PROVE  WriteInv'
  BY <1>1, BeginKeepsWriteInv DEF Begin
<1>2. ASSUME NEW s, NEW names, NEW revs, Written(s), Split(s, names, revs)
      PROVE  WriteInv'
  BY <1>1, <1>2, SplitIsWritten, WrittenIsDone DEF Split
<1>3. CASE SplitByCommit
  BY <1>2, <1>3, LoadedIsWritten DEF SplitByCommit
<1>4. CASE SplitByHunk
  <2>1. PICK order : BeginAs("split", [Loaded(order) EXCEPT !.head = NoBranch], <<>>, own)
    BY <1>4 DEF SplitByHunk
  <2>2. Written([Loaded(order) EXCEPT !.head = NoBranch])
    BY LoadedIsWritten, OtherFields DEF Written
  <2> QED BY <2>1, <2>2, WrittenIsDone, BeginKeepsWriteInv
<1>5. CASE HunksCommitted
  <2>1. process = "split" /\ \E names, revs : Split(Session, names, revs)
    BY <1>5 DEF HunksCommitted
  <2> QED BY <1>2, <2>1, SessionIsWritten DEF WriteInv
<1>6. CASE SplitInterrupted
  BY <1>6, EndKeepsWriteInv DEF SplitInterrupted, WriteInv
<1>7. CASE EditBranch
  <2>1. PICK order, rev : LET s == Loaded(order)
                          IN  /\ refs' = [refs EXCEPT ![s.current] = rev]
                              /\ meta' = s.meta /\ cache' = s.cache
                              /\ rebased' = [branch |-> s.current, base |-> s.cache[s.current].prev]
                              /\ process' = "command"
    BY <1>7 DEF EditBranch
  <2> DEFINE s == Loaded(order)
  <2>2. refs' = [s.refs EXCEPT ![s.current] = rev]
    BY <2>1 DEF Loaded
  <2>3. rebased'.branch = s.current
    BY <2>1
  <2>4. Written(s) /\ meta' = s.meta /\ cache' = s.cache /\ process' # "split"
    BY <2>1, LoadedIsWritten
  <2> HIDE DEF s
  <2> QED BY <2>2, <2>3, <2>4, RebasedKeepsWriteInv
<1>8. CASE EditStops
  <2>1. PICK order : meta' = Loaded(order).meta /\ EndProcess /\ refs' = refs
    BY <1>8 DEF EditStops
  <2>2. IsDisk(refs, Loaded(order).meta)
    BY LoadedIsWritten DEF Written, WrittenBut, IsSession, Loaded
  <2> QED BY <2>1, <2>2, EndKeepsWriteInv
<1>9. CASE GitContinue
  <2>1. process = "none" /\ UNCHANGED <<meta, process>> /\ DOMAIN refs' = DOMAIN refs
    BY <1>9 DEF GitContinue, MayGit, session
  <2> QED BY <2>1 DEF WriteInv, IsDisk
<1>10. CASE EditDownstack
  <2>1. PICK order, typo, names, q :
          IF typo THEN Begin(Fail(Reordered(Loaded(order), names)), <<>>, own)
          ELSE Begin(CheckoutBranch(Reordered(Loaded(order), names), Last(names)), q, own)
    BY <1>10 DEF EditDownstack
  <2>2. Written(Reordered(Loaded(order), names))
    BY LoadedIsWritten, ReorderedIsWritten
  <2>3. Written(CheckoutBranch(Reordered(Loaded(order), names), Last(names)))
    BY <2>2, CheckoutIsWritten DEF Written
  <2> QED BY <1>1, <2>1, <2>2, <2>3, WrittenIsDone
<1>11. CASE TrackStack
  <2>1. PICK order, b :
          b \in Branches /\ \E t \in TrackedStacks(Loaded(order), b) : Begin(t, <<>>, own)
    BY <1>11 DEF TrackStack
  <2>2. PICK t \in TrackedStacks(Loaded(order), b) : Begin(t, <<>>, own)
    BY <2>1
  <2> DEFINE s == Loaded(order)
  <2>3. Written(s) /\ b \in Branches /\ t \in TrackedStacks(s, b)
    BY <2>1, <2>2, LoadedIsWritten
  <2> HIDE DEF s
  <2>4. Written(t)
    BY <2>3, TrackedAreWritten
  <2> QED BY <1>1, <2>2, <2>4, WrittenIsDone
<1>12. CASE Reset
  <2> DEFINE stored == [b \in Branches |-> NoMeta]
             s(order) == [Loaded(order) EXCEPT !.meta = stored,
                                               !.cache = LoadedCache(refs, stored, order)]
  <2>1. PICK order, t : t \in {s(order)} \cup Onboarded(s(order)) /\ Begin(t, <<>>, own)
    BY <1>12 DEF Reset
  <2>2. Loaded(order).refs = refs
    BY DEF Loaded
  <2>3. Written(s(order))
    <3> DEFINE empty == stored
    <3>1. empty = [b \in Branches |-> NoMeta]
      OBVIOUS
    <3> HIDE DEF empty
    <3>2. Written([Loaded(order) EXCEPT !.meta = empty,
                     !.cache = LoadedCache(Loaded(order).refs, empty, order)])
      BY <3>1, LoadedIsWritten, ResetIsWritten
    <3> QED BY <2>2, <3>2 DEF empty
  <2> HIDE DEF s
  <2> QED BY <1>1, <2>1, <2>3, OnboardedAreWritten, WrittenIsDone
<1>13. CASE Navigate
  <2>1. PICK order, b : Begin(CheckoutBranch(Loaded(order), b), <<>>, own)
    BY <1>13 DEF Navigate
  <2>2. Written(CheckoutBranch(Loaded(order), b))
    BY LoadedIsWritten, CheckoutIsWritten DEF Written
  <2> QED BY <1>1, <2>1, <2>2, WrittenIsDone
<1> QED BY <1>3, <1>4, <1>5, <1>6, <1>7, <1>8, <1>9, <1>10, <1>11, <1>12, <1>13 DEF Edit

LEMMA RestackKeepsWriteInv ==
  ASSUME WriteInv, RestackBranches \/ RecordRebase \/ Exit \/ ContinueThrows \/ Crash
  PROVE  WriteInv'
<1>1. ASSUME EndProcess, UNCHANGED <<refs, meta>> PROVE WriteInv'
  BY <1>1, EndKeepsWriteInv DEF WriteInv
<1>2. CASE RestackBranches
  <2>1. PICK b \in Branches : \/ RestackUnneeded(b) \/ RestackThrows(b) \/ RestackDone(b)
                              \/ RestackConflict(b) \/ RestackBlocked(b)
    BY <1>2 DEF RestackBranches
  <2>2. CASE RestackUnneeded(b)
    <3>1. process # "none" /\ process # "split"
      BY <2>2 DEF RestackUnneeded, Shifts, WriteInv
    <3> QED BY <2>2, <3>1, StayKeepsWriteInv DEF RestackUnneeded, disk
  <2>3. CASE RestackThrows(b)
    BY <2>3, <1>1 DEF RestackThrows, disk
  <2>4. CASE RestackDone(b)
    <3>1. process # "none" /\ rebased = Nothing
      BY <2>4 DEF RestackDone, NeedsRestack, Shifts
    <3>2. PICK rev : /\ refs' = [refs EXCEPT ![b] = rev]
                     /\ rebased'.branch = b /\ UNCHANGED <<meta, cache, process>>
      BY <2>4 DEF RestackDone
    <3>3. Session.refs = refs /\ Session.meta = meta /\ Session.cache = cache
      BY DEF Session
    <3>4. Written(Session)
      BY <3>1, SessionIsWritten
    <3>5. process # "split"
      BY <2>4 DEF RestackDone, NeedsRestack, Shifts, WriteInv
    <3> QED BY <3>2, <3>3, <3>4, <3>5, RebasedKeepsWriteInv
  <2>5. CASE RestackConflict(b)
    BY <2>5, <1>1 DEF RestackConflict
  <2>6. CASE RestackBlocked(b)
    BY <2>6, <1>1 DEF RestackBlocked
  <2> QED BY <2>1, <2>2, <2>3, <2>4, <2>5, <2>6
<1>3. CASE RecordRebase
  <2> DEFINE s == HandleSuccessfulRebase(Session, rebased.branch, rebased.base)
  <2>1. WrittenBut(Session, {rebased.branch}) /\ UNCHANGED refs
    BY <1>3 DEF RecordRebase, WriteInv
  <2>2. Done(s)
    BY <2>1, RecordIsDone
  <2>3. s.refs = Session.refs
    BY <2>1, RefsAreLeft DEF WrittenBut
  <2>4. s.refs = refs
    BY <2>3 DEF Session
  <2>5. IF s.failed THEN EndProcess /\ UNCHANGED meta
        ELSE meta' = s.meta /\ cache' = s.cache /\ rebased' = Nothing /\ process' # "split"
    BY <1>3 DEF RecordRebase, WriteInv
  <2> HIDE DEF s
  <2> QED BY <1>1, <2>1, <2>2, <2>4, <2>5, WrittenKeepsWriteInv DEF Done
<1>4. CASE Exit \/ ContinueThrows \/ Crash
  BY <1>4, <1>1 DEF Exit, ContinueThrows, Crash, disk
<1> QED BY <1>2, <1>3, <1>4

LEMMA IdleKeepsWriteInv ==
  ASSUME WriteInv, NothingToContinue \/ StillInConflict \/ Git
  PROVE  WriteInv'
<1>1. IsDisk(refs, LoadedMeta(refs, meta))
  BY LoadedIsWritten DEF Written, WrittenBut, IsSession, Loaded
<1>2. process' = "none" /\ IsDisk(refs', meta')
  <2>1. CASE NothingToContinue \/ StillInConflict
    BY <1>1, <2>1 DEF NothingToContinue, StillInConflict, MayContinue, session
  <2>2. CASE Git
    <3>1. process = "none" /\ UNCHANGED <<meta, process>>
      BY <2>2 DEF Git, GitAbort, GitCommit, GitAmend, GitPullTrunk, GitDelete, GitBranch, MayGit,
                  session
    <3>2. DOMAIN refs' = DOMAIN refs
      BY <2>2 DEF Git, GitAbort, GitCommit, GitAmend, GitPullTrunk, GitDelete, GitBranch
    <3> QED BY <3>1, <3>2 DEF WriteInv, IsDisk
  <2> QED BY <2>1, <2>2
<1> QED BY <1>2 DEF WriteInv

LEMMA ContinueKeepsWriteInv ==
  ASSUME WriteInv, Continue
  PROVE  WriteInv'
<1>1. PICK order : ContinueRebase(order)
  BY DEF Continue
<1> DEFINE s == Loaded(order)
           rev == Rebased(rebase.onto, rebase.from, refs[rebase.branch])
<1>2. s.refs = refs
  BY DEF Loaded
<1>3. refs' = [refs EXCEPT ![rebase.branch] = rev] /\ meta' = s.meta /\ cache' = s.cache
      /\ process' = "continue" /\ rebased' = [branch |-> rebase.branch, base |-> cont.base]
  BY <1>1 DEF ContinueRebase
<1>4. Written(s)
  BY LoadedIsWritten
<1>5. rebased'.branch = rebase.branch /\ process' # "split"
  BY <1>3
<1> HIDE DEF s, rev
<1> QED BY <1>2, <1>3, <1>4, <1>5, RebasedKeepsWriteInv

LEMMA CleanKeepsWriteInv ==
  ASSUME WriteInv, BeginSync \/ CheckBranch \/ DeleteUnblocked \/ EndClean
  PROVE  WriteInv'
<1>1. ASSUME Cleans PROVE Written(Session)
  BY <1>1, SessionIsWritten DEF Cleans
<1>2. CASE BeginSync
  <2>1. PICK order, t : /\ t \in {Loaded(order)} \cup TrunkPulled(Loaded(order))
                        /\ BeginAs("clean", t, <<>>, OwnAfterPull(t))
    BY <1>2 DEF BeginSync
  <2> DEFINE s == Loaded(order)
  <2>2. Written(s) /\ t \in {s} \cup TrunkPulled(s)
    BY <2>1, LoadedIsWritten
  <2> HIDE DEF s
  <2>3. t \in {s, Fail(s), TrunkAt(s, remote.refs[Trunk])}
    BY <2>2 DEF TrunkPulled, PullTrunk
  <2>4. Done(t)
    BY <2>2, <2>3, TrunkAtIsWritten, WrittenIsDone
  <2> QED BY <2>1, <2>4, BeginKeepsWriteInv
<1>3. CASE CheckBranch
  <2>1. PICK b, p, t : /\ t \in {Session, Fail(Session), SetParent(Session, b, p)}
                       /\ meta' = t.meta
                       /\ IF t.failed THEN EndProcess
                          ELSE cache' = t.cache /\ UNCHANGED <<process, rebased>>
    BY <1>3 DEF CheckBranch
  <2>2. Cleans /\ refs' = refs
    BY <1>3 DEF CheckBranch
  <2>3. Written(t)
    BY <1>1, <2>1, <2>2, SetParentIsWritten, FailIsWritten DEF Written
  <2>4. t.refs = Session.refs
    <3>1. IsSession(Session)
      BY <1>1, <2>2 DEF Written, WrittenBut
    <3> QED BY <2>1, <3>1, RefsAreLeft DEF Fail, IsSession
  <2>5. t.refs = refs /\ process # "split" /\ rebased = Nothing
    BY <2>2, <2>4 DEF Session, Cleans
  <2>6. CASE t.failed
    <3>1. IsDisk(refs', meta')
      BY <2>1, <2>2, <2>3, <2>5 DEF Written, WrittenBut, IsSession
    <3> QED BY <2>1, <2>6, <3>1, EndKeepsWriteInv
  <2>7. CASE ~ t.failed
    BY <2>1, <2>2, <2>3, <2>5, <2>7, WrittenKeepsWriteInv
  <2> QED BY <2>6, <2>7
<1>4. CASE DeleteUnblocked
  <2>1. PICK b : LET t == DeleteBranch(Session, b)
                 IN  /\ refs' = t.refs /\ meta' = t.meta
                     /\ IF t.failed THEN EndProcess
                        ELSE cache' = t.cache /\ UNCHANGED <<process, rebased>>
    BY <1>4 DEF DeleteUnblocked
  <2> DEFINE t == DeleteBranch(Session, b)
  <2>2. Cleans
    BY <1>4 DEF DeleteUnblocked
  <2>3. Written(t)
    BY <1>1, <2>2, DeleteIsWritten
  <2>4. refs' = t.refs /\ meta' = t.meta
        /\ IF t.failed THEN EndProcess
           ELSE cache' = t.cache /\ process' # "split" /\ rebased' = Nothing
    BY <2>1, <2>2 DEF Cleans
  <2> HIDE DEF t
  <2>5. IsDisk(refs', meta')
    BY <2>3, <2>4 DEF Written, WrittenBut, IsSession
  <2> QED BY <2>3, <2>4, <2>5, EndKeepsWriteInv, WrittenKeepsWriteInv
<1>5. CASE EndClean
  <2>1. UNCHANGED <<refs, meta>> /\ process # "none" /\ process # "split"
    BY <1>5 DEF EndClean, Cleans, disk
  <2>2. EndProcess \/ (process' = "command" /\ UNCHANGED <<cache, rebased>>)
    BY <1>5 DEF EndClean
  <2>3. CASE EndProcess
    BY <2>1, <2>3, EndKeepsWriteInv DEF WriteInv
  <2>4. CASE process' = "command" /\ UNCHANGED <<cache, rebased>>
    BY <2>1, <2>4, StayKeepsWriteInv
  <2> QED BY <2>2, <2>3, <2>4
<1> QED BY <1>2, <1>3, <1>4, <1>5

LEMMA GetKeepsWriteInv ==
  ASSUME WriteInv, BeginGet \/ GetBranch \/ EndGet
  PROVE  WriteInv'
<1>1. ASSUME EndProcess, UNCHANGED <<refs, meta>> PROVE WriteInv'
  BY <1>1, EndKeepsWriteInv DEF WriteInv
<1>2. ASSUME NEW b, Gets(b) PROVE Written(Session) /\ process # "none" /\ process # "split"
  BY <1>2, SessionIsWritten DEF Gets
<1>3. CASE BeginGet
  <2>1. PICK order : BeginAs("get", PullTrunk(Loaded(order)), <<>>, own)
    BY <1>3 DEF BeginGet
  <2> DEFINE s == Loaded(order)
  <2>2. Written(s)
    BY LoadedIsWritten
  <2> HIDE DEF s
  <2>3. Done(PullTrunk(s))
    BY <2>2, TrunkAtIsWritten, WrittenIsDone DEF PullTrunk
  <2> QED BY <2>1, <2>3, BeginKeepsWriteInv DEF s
<1>4. CASE GetBranch
  <2>1. PICK b \in Branches : \/ FetchFails(b) \/ GetUpToDate(b) \/ GetAborted(b) \/ GetCheckout(b)
                              \/ GetRebased(b) \/ GetConflict(b)
    BY <1>4 DEF GetBranch
  <2>2. CASE FetchFails(b)
    BY <2>2, <1>1 DEF FetchFails, disk
  <2>3. CASE GetUpToDate(b)
    <3>1. Gets(b) /\ UNCHANGED <<refs, meta, cache, rebased, process>>
      BY <2>3 DEF GetUpToDate, Fetches, vars, disk, session
    <3> QED BY <3>1, <1>2, StayKeepsWriteInv
  <2>4. CASE GetAborted(b)
    BY <2>4, <1>1 DEF GetAborted, disk
  <2>5. CASE GetCheckout(b)
    <3> DEFINE t == CheckoutFromFetched(Session, b, get.parent, fetched')
    <3>1. Gets(b)
      BY <2>5 DEF GetCheckout, Fetches
    <3>2. Written(t)
      BY <1>2, <3>1, FetchedIsWritten
    <3>3. refs' = t.refs /\ meta' = t.meta
          /\ IF t.failed THEN EndProcess
             ELSE cache' = t.cache /\ process' = process /\ rebased' = rebased
      BY <2>5 DEF GetCheckout
    <3>4. process # "split" /\ rebased = Nothing
      BY <3>1 DEF Gets
    <3> HIDE DEF t
    <3>5. IsDisk(refs', meta')
      BY <3>2, <3>3 DEF Written, WrittenBut, IsSession
    <3> QED BY <3>2, <3>3, <3>4, <3>5, EndKeepsWriteInv, WrittenKeepsWriteInv
  <2>6. CASE GetRebased(b)
    <3>1. Gets(b) /\ meta' = meta /\ cache' = cache /\ process' = process
          /\ rebased' = [branch |-> b, base |-> fetched'.base]
      BY <2>6 DEF GetRebased, Fetches
    <3> DEFINE rev == Rebased(remote.refs[b], cache[b].prev, refs[b])
    <3>2. refs' = [refs EXCEPT ![b] = rev]
      BY <2>6 DEF GetRebased
    <3> HIDE DEF rev
    <3>3. Session.refs = refs /\ Session.meta = meta /\ Session.cache = cache
      BY DEF Session
    <3>4. Written(Session) /\ process' # "split" /\ rebased'.branch = b
      BY <3>1, <1>2
    <3> QED BY <3>1, <3>2, <3>3, <3>4, RebasedKeepsWriteInv
  <2>7. CASE GetConflict(b)
    BY <2>7, <1>1 DEF GetConflict
  <2> QED BY <2>1, <2>2, <2>3, <2>4, <2>5, <2>6, <2>7
<1>5. CASE EndGet
  BY <1>5, <1>1 DEF EndGet, disk
<1> QED BY <1>3, <1>4, <1>5

\* The inductive invariant holds of everything a user, fp and the remote do.
THEOREM WriteInvHolds == SyncSpec => []WriteInv
<1>1. SyncInit => WriteInv
  <2> SUFFICES ASSUME SyncInit PROVE WriteInv
    OBVIOUS
  <2>1. refs \in Refs /\ meta \in Metas /\ process = "none"
    BY ScenariosAreRepositories DEF SyncInit, Init
  <2>2. IsDisk(refs, meta)
    BY <2>1 DEF IsDisk, IsMeta, Refs, Metas, Meta
  <2> QED BY <2>1, <2>2 DEF WriteInv
<1>2. WriteInv /\ [SyncNext]_<<vars, syncVars>> => WriteInv'
  <2> SUFFICES ASSUME WriteInv, [SyncNext]_<<vars, syncVars>> PROVE WriteInv'
    OBVIOUS
  <2>1. CASE EngineStep
    <3>1. \/ Command \/ Edit
          \/ RestackBranches \/ RecordRebase \/ Exit \/ ContinueThrows \/ Crash
          \/ NothingToContinue \/ StillInConflict \/ Git
      BY <2>1 DEF EngineStep
    <3> QED BY <3>1, CommandKeepsWriteInv, EditKeepsWriteInv, RestackKeepsWriteInv, IdleKeepsWriteInv
  <2>2. CASE BeginSync \/ CheckBranch \/ DeleteUnblocked \/ EndClean
    BY <2>2, CleanKeepsWriteInv
  <2>3. CASE BeginGet \/ GetBranch \/ EndGet
    BY <2>3, GetKeepsWriteInv
  <2>4. CASE ContinueSync
    BY <2>4, ContinueKeepsWriteInv DEF ContinueSync
  <2>5. CASE UNCHANGED <<vars, syncVars>>
    BY <2>5 DEF WriteInv, Session, vars, disk, session
  <2> QED BY <2>1, <2>2, <2>3, <2>4, <2>5 DEF SyncNext
<1> QED BY <1>1, <1>2, PTL DEF SyncSpec

\* A process never decides on something that is not on disk: whatever commands,
\* conflicts, failures and crashes came before, the revisions and the valid
\* parents in the engine's cache are those it has written (writeMetadataRef
\* through updateMeta, engine.ts), but for the branch that git has just rebased.
THEOREM GoesOnWithWhatIsWritten == SyncSpec => []WritesThrough
<1>1. WriteInv => WritesThrough
  BY DEF WriteInv, WritesThrough, WrittenBut
<1> QED BY <1>1, WriteInvHolds, PTL

----------------------------------------------------------------------------
(***************************************************************************)
(* A continuation is about the rebase that is stopped                      *)
(***************************************************************************)
IsContinuation(c) == {"queue", "base", "current", "sync"} \subseteq DOMAIN c

\* No process runs in the middle of a rebase, and what is left to sync comes
\* from a get.
RebaseInv ==
  /\ LeavesStacksToFp /\ process # "none" => rebase = NoRebase
  /\ cont # NoCont => IsContinuation(cont)
  /\ "get" \notin features => /\ cont # NoCont => cont.sync = <<>>
                              /\ get # NoSync => get.toSync = <<>>
  /\ ContinuesOnItsBase

\* The local variables of a get, through a step of another kind.
GetGoesOn == get' = get \/ get' = NoSync

\* A step with neither rebase nor continuation.
LEMMA SameKeepsRebaseInv ==
  ASSUME RebaseInv, UNCHANGED <<rebase, cont, features>>, process # "none" \/ process' = "none",
         "get" \notin features => GetGoesOn
  PROVE  RebaseInv'
BY DEF RebaseInv, GetGoesOn, LeavesStacksToFp, ContinuesOnItsBase

\* A step after which no rebase is in progress.
LEMMA NoRebaseKeepsRebaseInv ==
  ASSUME RebaseInv, UNCHANGED features, LeavesStacksToFp => rebase' = NoRebase,
         cont' = cont \/ cont' = NoCont, "get" \notin features => GetGoesOn
  PROVE  RebaseInv'
BY DEF RebaseInv, GetGoesOn, LeavesStacksToFp, ContinuesOnItsBase

LEMMA BeginKeepsRebaseInv ==
  ASSUME RebaseInv, NEW kind, NEW s, NEW q, NEW patches, BeginAs(kind, s, q, patches),
         LeavesStacksToFp => rebase = NoRebase, "get" \notin features => GetGoesOn
  PROVE  RebaseInv'
<1>1. UNCHANGED features /\ rebase' = rebase /\ (cont' = cont \/ cont' = NoCont)
  BY DEF BeginAs, LoadedCont
<1> QED BY <1>1, NoRebaseKeepsRebaseInv

LEMMA CommandKeepsRebaseInv ==
  ASSUME RebaseInv, Command, GetGoesOn
  PROVE  RebaseInv'
<1>1. \E command : MayRun(command)
  BY DEF Command, CommitCreate, CommitAmend, Squash, Create, CreateInsert, CreateFails, Delete,
         Fold, Rename, Onto, UnbranchCommand, Track, Untrack, Checkout, Restack
<1>2. LeavesStacksToFp => rebase = NoRebase
  BY <1>1 DEF MayRun, LeavesStacksToFp
<1>3. \E s, q, patches : BeginAs("command", s, q, patches)
  <2>1. CASE CommitCreate \/ CommitAmend \/ Squash
    BY <2>1 DEF CommitCreate, CommitAmend, Squash, CommitAndRestack, Begin
  <2>2. CASE Create \/ CreateInsert \/ CreateFails \/ Delete
    BY <2>2 DEF Create, CreateInsert, CreateFails, Delete, Begin
  <2>3. CASE Fold \/ Rename \/ Onto \/ UnbranchCommand
    BY <2>3 DEF Fold, Rename, Onto, UnbranchCommand, Begin
  <2>4. CASE Track \/ Untrack \/ Checkout \/ Restack
    BY <2>4 DEF Track, Untrack, Checkout, Restack, Begin
  <2> QED BY <2>1, <2>2, <2>3, <2>4 DEF Command
<1> QED BY <1>2, <1>3, BeginKeepsRebaseInv

LEMMA EditKeepsRebaseInv ==
  ASSUME RebaseInv, Edit, GetGoesOn
  PROVE  RebaseInv'
<1>1. ASSUME NEW s, NEW q, NEW patches, Begin(s, q, patches), LeavesStacksToFp => rebase = NoRebase
      PROVE  RebaseInv'
  BY <1>1, BeginKeepsRebaseInv DEF Begin
<1>2. ASSUME NEW command, MayRun(command) PROVE LeavesStacksToFp => rebase = NoRebase
  BY <1>2 DEF MayRun, LeavesStacksToFp
<1>3. CASE SplitByCommit
  <2>1. \E s, q, patches : Begin(s, q, patches)
    BY <1>3 DEF SplitByCommit, Split
  <2> QED BY <1>1, <1>2, <1>3, <2>1 DEF SplitByCommit, MaySplit
<1>4. CASE SplitByHunk
  <2>1. \E s, q, patches : BeginAs("split", s, q, patches)
    BY <1>4 DEF SplitByHunk
  <2>2. LeavesStacksToFp => rebase = NoRebase
    BY <1>2, <1>4 DEF SplitByHunk, MaySplit
  <2> QED BY <2>1, <2>2, BeginKeepsRebaseInv
<1>5. CASE HunksCommitted
  <2>1. \E s, q, patches : Begin(s, q, patches)
    BY <1>5 DEF HunksCommitted, Split
  <2>2. LeavesStacksToFp => rebase = NoRebase
    BY <1>5 DEF HunksCommitted, RebaseInv
  <2> QED BY <1>1, <2>1, <2>2
<1>6. CASE SplitInterrupted
  BY <1>6, SameKeepsRebaseInv DEF SplitInterrupted, EndProcess
<1>7. CASE EditBranch
  BY <1>7, NoRebaseKeepsRebaseInv DEF EditBranch, MayEdit, LoadedCont
<1>8. CASE EditStops
  <2>1. PICK b, prev, q :
          /\ rebase = NoRebase /\ UNCHANGED features /\ process' = "none"
          /\ rebase' = [branch |-> b, onto |-> prev, from |-> prev]
          /\ \/ cont' = LoadedCont
             \/ cont' = [queue |-> q, base |-> prev, current |-> b, sync |-> <<>>]
    BY <1>8 DEF EditStops, MayEdit, EndProcess
  <2>2. cont' = NoCont \/ (cont'.base = prev /\ cont'.sync = <<>> /\ IsContinuation(cont'))
    BY <2>1 DEF LoadedCont, IsContinuation
  <2>3. rebase'.onto = prev
    BY <2>1
  <2> QED BY <2>1, <2>2, <2>3 DEF RebaseInv, GetGoesOn, ContinuesOnItsBase, LeavesStacksToFp
<1>9. CASE GitContinue
  BY <1>9, NoRebaseKeepsRebaseInv DEF GitContinue
<1>10. CASE EditDownstack
  <2>1. \E s, q, patches : Begin(s, q, patches)
    BY <1>10 DEF EditDownstack
  <2> QED BY <1>1, <1>2, <1>10, <2>1 DEF EditDownstack
<1>11. CASE TrackStack
  <2>1. \E s, q, patches : Begin(s, q, patches)
    BY <1>11 DEF TrackStack
  <2> QED BY <1>1, <1>2, <1>11, <2>1 DEF TrackStack
<1>12. CASE Reset
  <2>1. \E s, q, patches : Begin(s, q, patches)
    BY <1>12 DEF Reset
  <2> QED BY <1>1, <1>2, <1>12, <2>1 DEF Reset
<1>13. CASE Navigate
  <2>1. \E s, q, patches : Begin(s, q, patches)
    BY <1>13 DEF Navigate
  <2> QED BY <1>1, <1>2, <1>13, <2>1 DEF Navigate
<1> QED BY <1>3, <1>4, <1>5, <1>6, <1>7, <1>8, <1>9, <1>10, <1>11, <1>12, <1>13 DEF Edit

\* At a conflict the revision persisted is the engine's, and git's.
LEMMA ConflictKeepsRebaseInv ==
  ASSUME RebaseInv, WriteInv, NEW b \in Branches, RestackConflict(b), GetGoesOn
  PROVE  RebaseInv'
<1> DEFINE p == cache[b].parent
<1>1. process # "none" /\ rebased = Nothing /\ p \in Branches
  BY DEF RestackConflict, NeedsRestack, Shifts, HasParentEntry, Exists, HasResult
<1>2. Agrees(Session, p)
  BY <1>1, SessionIsWritten DEF Written, WrittenBut
<1>3. cache[p].rev = refs[p]
  BY <1>2 DEF Agrees, Session
<1>4. rebase' = [branch |-> b, onto |-> refs[p], from |-> cache[b].prev]
      /\ cont' = [queue |-> Tail(queue), base |-> cache[p].rev, current |-> current, sync |-> <<>>]
      /\ process' = "none" /\ UNCHANGED features
  BY DEF RestackConflict, PersistContinuation, EndProcess
<1>5. cont'.base = cache[p].rev /\ cont'.sync = <<>> /\ IsContinuation(cont') /\ rebase'.onto = refs[p]
  BY <1>4 DEF IsContinuation
<1> HIDE DEF p
<1> QED BY <1>3, <1>4, <1>5 DEF RebaseInv, GetGoesOn, ContinuesOnItsBase, LeavesStacksToFp

LEMMA RestackKeepsRebaseInv ==
  ASSUME RebaseInv, WriteInv, GetGoesOn,
         RestackBranches \/ RecordRebase \/ Exit \/ ContinueThrows \/ Crash
  PROVE  RebaseInv'
<1>1. CASE RestackBranches
  <2>1. PICK b \in Branches : \/ RestackUnneeded(b) \/ RestackThrows(b) \/ RestackDone(b)
                              \/ RestackConflict(b) \/ RestackBlocked(b)
    BY <1>1 DEF RestackBranches
  <2>2. CASE RestackUnneeded(b) \/ RestackThrows(b) \/ RestackDone(b)
    BY <2>2, SameKeepsRebaseInv
       DEF RestackUnneeded, RestackThrows, RestackDone, NeedsRestack, Shifts, EndProcess, disk
  <2>3. CASE RestackConflict(b)
    BY <2>3, ConflictKeepsRebaseInv
  <2>4. CASE RestackBlocked(b)
    <3>1. rebase # NoRebase /\ process # "none" /\ process' = "none" /\ UNCHANGED <<rebase, features>>
      BY <2>4 DEF RestackBlocked, NeedsRestack, Shifts, EndProcess
    <3>2. cont'.sync = <<>> /\ IsContinuation(cont')
      BY <2>4 DEF RestackBlocked, PersistContinuation, IsContinuation
    <3> QED BY <3>1, <3>2 DEF RebaseInv, GetGoesOn, ContinuesOnItsBase, LeavesStacksToFp
  <2> QED BY <2>1, <2>2, <2>3, <2>4
<1>2. CASE RecordRebase
  BY <1>2, SameKeepsRebaseInv DEF RecordRebase
<1>3. CASE Exit
  <2>1. UNCHANGED <<rebase, features>> /\ process' = "none" /\ (cont' = cont \/ cont' = NoCont)
    BY <1>3 DEF Exit, EndProcess
  <2> QED BY <2>1 DEF RebaseInv, GetGoesOn, ContinuesOnItsBase, LeavesStacksToFp
<1>4. CASE ContinueThrows \/ Crash
  BY <1>4, SameKeepsRebaseInv DEF ContinueThrows, Crash, EndProcess, disk
<1> QED BY <1>1, <1>2, <1>3, <1>4

LEMMA IdleKeepsRebaseInv ==
  ASSUME RebaseInv, GetGoesOn, NothingToContinue \/ StillInConflict \/ Git
  PROVE  RebaseInv'
<1>1. CASE NothingToContinue
  <2>1. cont' = NoCont /\ process' = "none" /\ UNCHANGED <<rebase, features>>
    BY <1>1 DEF NothingToContinue, MayContinue, session
  <2> QED BY <2>1 DEF RebaseInv, GetGoesOn, ContinuesOnItsBase, LeavesStacksToFp
<1>2. CASE StillInConflict
  <2>1. cont # NoCont /\ process' = "none" /\ UNCHANGED <<rebase, features>>
        /\ cont' = [cont EXCEPT !.sync = <<>>]
    BY <1>2 DEF StillInConflict, MayContinue, session
  <2>2. IsContinuation(cont)
    BY <2>1 DEF RebaseInv
  <2>3. cont'.base = cont.base /\ cont'.sync = <<>> /\ IsContinuation(cont')
    BY <2>1, <2>2 DEF IsContinuation
  <2> QED BY <2>1, <2>3 DEF RebaseInv, GetGoesOn, ContinuesOnItsBase, LeavesStacksToFp
<1>3. CASE GitAbort
  BY <1>3, NoRebaseKeepsRebaseInv DEF GitAbort
<1>4. CASE GitCommit \/ GitAmend \/ GitPullTrunk \/ GitDelete \/ GitBranch
  <2>1. process' = "none" /\ UNCHANGED <<rebase, cont, features>>
    BY <1>4 DEF GitCommit, GitAmend, GitPullTrunk, GitDelete, GitBranch, MayGit, session
  <2> QED BY <2>1, SameKeepsRebaseInv
<1> QED BY <1>1, <1>2, <1>3, <1>4 DEF Git

LEMMA CleanKeepsRebaseInv ==
  ASSUME RebaseInv, BeginSync \/ CheckBranch \/ DeleteUnblocked \/ EndClean
  PROVE  RebaseInv'
<1>1. CASE BeginSync
  <2>1. \E s, q, patches : BeginAs("clean", s, q, patches)
    BY <1>1 DEF BeginSync
  <2>2. rebase = NoRebase /\ GetGoesOn
    BY <1>1 DEF BeginSync, MaySync, GetGoesOn
  <2> QED BY <2>1, <2>2, BeginKeepsRebaseInv
<1>2. CASE CheckBranch \/ DeleteUnblocked \/ EndClean
  <2>1. UNCHANGED <<rebase, cont, features>> /\ process # "none"
    BY <1>2 DEF CheckBranch, DeleteUnblocked, EndClean, Cleans, disk
  <2>2. GetGoesOn
    BY <1>2 DEF CheckBranch, DeleteUnblocked, EndClean, GetGoesOn
  <2> QED BY <2>1, <2>2, SameKeepsRebaseInv
<1> QED BY <1>1, <1>2

LEMMA GetKeepsRebaseInv ==
  ASSUME RebaseInv, BeginGet \/ GetBranch \/ EndGet \/ ContinueSync
  PROVE  RebaseInv'
<1>1. CASE BeginGet
  <2>1. \E s, q, patches : BeginAs("get", s, q, patches)
    BY <1>1 DEF BeginGet
  <2>2. rebase = NoRebase /\ "get" \in features
    BY <1>1 DEF BeginGet, MaySync, MayRun
  <2> QED BY <2>1, <2>2, BeginKeepsRebaseInv
<1>2. CASE GetBranch
  <2>1. PICK b \in Branches : \/ FetchFails(b) \/ GetUpToDate(b) \/ GetAborted(b) \/ GetCheckout(b)
                              \/ GetRebased(b) \/ GetConflict(b)
    BY <1>2 DEF GetBranch
  <2>2. Gets(b)
    BY <2>1 DEF FetchFails, GetUpToDate, GetAborted, GetCheckout, GetRebased, GetConflict, Fetches
  <2>3. "get" \in features /\ process # "none"
    BY <2>2 DEF Gets, RebaseInv
  <2>4. CASE FetchFails(b) \/ GetUpToDate(b) \/ GetAborted(b) \/ GetCheckout(b) \/ GetRebased(b)
    <3>1. UNCHANGED <<rebase, cont, features>>
      BY <2>4 DEF FetchFails, GetUpToDate, GetAborted, GetCheckout, GetRebased, vars, disk
    <3> QED BY <2>3, <3>1, SameKeepsRebaseInv
  <2>5. CASE GetConflict(b)
    <3>1. cont' = [queue |-> <<>>, base |-> fetched'.base, current |-> b, sync |-> Tail(get.toSync)]
          /\ process' = "none" /\ UNCHANGED features
      BY <2>5 DEF GetConflict, EndProcess
    <3>2. IsContinuation(cont')
      BY <3>1 DEF IsContinuation
    <3> QED BY <2>3, <3>1, <3>2 DEF RebaseInv, ContinuesOnItsBase
  <2> QED BY <2>1, <2>4, <2>5
<1>3. CASE EndGet
  BY <1>3, SameKeepsRebaseInv DEF EndGet, EndProcess, Locals, GetGoesOn, disk
<1>4. CASE ContinueSync
  <2>1. rebase' = NoRebase /\ UNCHANGED <<cont, features>> /\ cont # NoCont
    BY <1>4 DEF ContinueSync, Continue, ContinueRebase
  <2>2. get'.toSync = cont.sync
    BY <1>4 DEF ContinueSync
  <2> QED BY <2>1, <2>2 DEF RebaseInv, ContinuesOnItsBase
<1> QED BY <1>1, <1>2, <1>3, <1>4

\* No process runs in the middle of a rebase that fp did not stop in, and a
\* continuation with branches to sync comes from a get.
THEOREM RebaseInvHolds == SyncSpec => []RebaseInv
<1>1. SyncInit => RebaseInv
  BY DEF SyncInit, Init, RebaseInv, ContinuesOnItsBase
<1>2. WriteInv /\ RebaseInv /\ [SyncNext]_<<vars, syncVars>> => RebaseInv'
  <2> SUFFICES ASSUME WriteInv, RebaseInv, [SyncNext]_<<vars, syncVars>> PROVE RebaseInv'
    OBVIOUS
  <2>1. CASE EngineStep
    <3>1. GetGoesOn
      BY <2>1 DEF EngineStep, Locals, GetGoesOn
    <3>2. \/ Command \/ Edit
          \/ RestackBranches \/ RecordRebase \/ Exit \/ ContinueThrows \/ Crash
          \/ NothingToContinue \/ StillInConflict \/ Git
      BY <2>1 DEF EngineStep
    <3> QED BY <3>1, <3>2, CommandKeepsRebaseInv, EditKeepsRebaseInv, RestackKeepsRebaseInv,
               IdleKeepsRebaseInv
  <2>2. CASE BeginSync \/ CheckBranch \/ DeleteUnblocked \/ EndClean
    BY <2>2, CleanKeepsRebaseInv
  <2>3. CASE BeginGet \/ GetBranch \/ EndGet \/ ContinueSync
    BY <2>3, GetKeepsRebaseInv
  <2>4. CASE UNCHANGED <<vars, syncVars>>
    BY <2>4 DEF RebaseInv, ContinuesOnItsBase, LeavesStacksToFp, vars, disk, session, syncVars
  <2> QED BY <2>1, <2>2, <2>3, <2>4 DEF SyncNext
<1> QED BY <1>1, <1>2, WriteInvHolds, PTL DEF SyncSpec

\* While a rebase is stopped, `fp continue` will record for the branch the
\* revision that git is rebasing it onto: persistContinuation (engine.ts) writes the
\* revision in the engine's cache, which is the one git was given.
THEOREM ContinuesOnTheBaseOfTheRebase == SyncSpec => []ContinuesOnItsBase
<1>1. RebaseInv => ContinuesOnItsBase
  BY DEF RebaseInv
<1> QED BY <1>1, RebaseInvHolds, PTL

----------------------------------------------------------------------------
(***************************************************************************)
(* The parents never go round in a circle                                  *)
(*                                                                         *)
(* A set of branches is whole if it contains the parents of its members.   *)
(* A branch outside a whole set can be put on a member of it, or on trunk, *)
(* and no circle comes into being.  Each operation that moves a branch has *)
(* its whole set: what is off the branch (not above it), what is valid, or *)
(* what has been put in order so far.                                      *)
(***************************************************************************)
Others == Branches \ {Trunk}

\* Every way down from a branch ends, at trunk or at a name of no branch.
Grounded(stored) ==
  \A S \in SUBSET Others : (\A b \in S : stored[b].parent \in S) => S = {}

\* Trunk and names of no branch are always in.
In(p, G) == p \in Others => p \in G

Whole(stored, G) == G \subseteq Others /\ \A b \in G : In(stored[b].parent, G)

\* The branches that are not b and not above it.
Off(stored, b) == UNION {G \in SUBSET (Others \ {b}) : Whole(stored, G)}

\* Each parent is the one before, or there is none any more.
Loosened(new, old) ==
  \A c \in Branches : new[c].parent = old[c].parent \/ new[c].parent \notin Branches

LEMMA GroundedHasNoCycle ==
  ASSUME NEW heads, NEW stored, Grounded(stored)
  PROVE  ~ IsCyclic(heads, stored)
<1> SUFFICES ASSUME NEW S \in (SUBSET Branches) \ {{}},
                    \A b \in S : Follows(heads, stored, b) /\ stored[b].parent \in S
             PROVE  FALSE
  BY DEF IsCyclic
<1>1. S \in SUBSET Others
  BY DEF Follows, Others
<1> QED BY <1>1 DEF Grounded

LEMMA LooseningKeeps ==
  ASSUME NEW old, NEW new, Loosened(new, old)
  PROVE  /\ Grounded(old) => Grounded(new)
         /\ \A G : Whole(old, G) => Whole(new, G)
BY DEF Loosened, Grounded, Whole, In, Others

\* The branch b is put on p.
LEMMA AttachKeeps ==
  ASSUME NEW old, NEW new, NEW b, NEW p, NEW G, Grounded(old), Whole(old, G), b \notin G, In(p, G),
         \A c \in Branches : new[c].parent = IF c = b THEN p ELSE old[c].parent
  PROVE  Grounded(new) /\ Whole(new, G) /\ (b \in Others => Whole(new, G \cup {b}))
<1>1. Whole(new, G) /\ (b \in Others => Whole(new, G \cup {b}))
  BY DEF Whole, In, Others
<1>2. Grounded(new)
  <2> SUFFICES ASSUME NEW S \in SUBSET Others, \A c \in S : new[c].parent \in S PROVE S = {}
    BY DEF Grounded
  <2>1. \A c \in S \cap G : old[c].parent \in S \cap G
    BY DEF Whole, In, Others
  <2>2. S \cap G = {}
    <3>1. S \cap G \in SUBSET Others
      OBVIOUS
    <3> QED BY <2>1, <3>1 DEF Grounded
  <2>3. b \notin S
    BY <2>2 DEF In, Others
  <2>4. \A c \in S : old[c].parent \in S
    BY <2>3 DEF Others
  <2> QED BY <2>4 DEF Grounded
<1> QED BY <1>1, <1>2

\* What is off a branch is whole, and the branch's own parent is in it.
LEMMA OffIsWhole ==
  ASSUME NEW stored, NEW b
  PROVE  /\ Whole(stored, Off(stored, b)) /\ b \notin Off(stored, b)
         /\ \A c \in Branches : stored[c].parent = b /\ b \in Others => c \notin Off(stored, b)
<1>1. ASSUME NEW c \in Off(stored, b)
      PROVE  c \in Others /\ c # b /\ In(stored[c].parent, Off(stored, b))
  <2>1. PICK G \in SUBSET (Others \ {b}) : Whole(stored, G) /\ c \in G
    BY <1>1 DEF Off
  <2>2. G \subseteq Off(stored, b)
    BY <2>1 DEF Off
  <2> QED BY <2>1, <2>2 DEF Whole, In
<1> QED BY <1>1 DEF Whole, In

LEMMA ParentIsOff ==
  ASSUME NEW stored, Grounded(stored), NEW b \in Others
  PROVE  In(stored[b].parent, Off(stored, b))
<1> DEFINE S == Others \ Off(stored, b)
<1> SUFFICES ASSUME ~ In(stored[b].parent, Off(stored, b)) PROVE FALSE
  OBVIOUS
<1>1. ASSUME NEW c \in S, stored[c].parent \notin S PROVE FALSE
  <2> DEFINE G == Off(stored, b) \cup {c}
  <2>1. In(stored[c].parent, Off(stored, b))
    BY <1>1 DEF In
  <2>2. c # b
    BY <2>1
  <2>3. Whole(stored, G)
    BY <2>1, OffIsWhole DEF Whole, In
  <2>4. G \in SUBSET (Others \ {b})
    BY <2>2, <2>3, OffIsWhole DEF Whole
  <2>5. c \in Off(stored, b)
    BY <2>3, <2>4 DEF Off
  <2> QED BY <1>1, <2>5
<1>2. S \in SUBSET Others /\ b \in S
  BY OffIsWhole
<1> QED BY <1>1, <1>2 DEF Grounded

\* What two whole sets share is whole.
LEMMA SharedIsWhole ==
  ASSUME NEW stored, NEW G, NEW H, Whole(stored, G), Whole(stored, H)
  PROVE  Whole(stored, G \cap H)
BY DEF Whole, In

----------------------------------------------------------------------------
(***************************************************************************)
(* Recursive functions and lists                                           *)
(***************************************************************************)
StaysIn(n, V, step) == \A i \in 1..n : \A v \in V : step[i][v] \in V

HasValues(n, V, first, step) ==
  \E f \in [0..n -> V] : f[0] = first /\ \A i \in 1..n : f[i] = step[i][f[i-1]]

\* A function is defined by its value at 0 and by the step to each number.
LEMMA RecursionExists ==
  ASSUME NEW n \in Nat, NEW V, NEW first \in V, NEW step, StaysIn(n, V, step)
  PROVE  HasValues(n, V, first, step)
<1> DEFINE Upto(f, m) == /\ f \in [0..m -> V] /\ f[0] = first
                         /\ \A i \in 1..m : f[i] = step[i][f[i-1]]
           T == {k \in 0..n : ~ \E f : Upto(f, k)}
<1>1. ASSUME NEW m \in T PROVE m # 0 /\ m - 1 \in T
  <2>1. m # 0
    <3>1. Upto([i \in 0..0 |-> first], 0)
      OBVIOUS
    <3> QED BY <3>1
  <2>2. m - 1 \in 0..n /\ m \in 1..n
    BY <2>1
  <2>3. ASSUME NEW g, Upto(g, m - 1) PROVE FALSE
    <3> DEFINE last == step[m][g[m - 1]]
               f == [i \in 0..m |-> IF i = m THEN last ELSE g[i]]
    <3>1. g[m - 1] \in V /\ last \in V
      BY <2>2, <2>3 DEF StaysIn
    <3> HIDE DEF last
    <3>2. f \in [0..m -> V] /\ f[0] = first
      BY <2>2, <2>3, <3>1
    <3>3. ASSUME NEW i \in 1..m PROVE f[i] = step[i][f[i-1]]
      <4>1. CASE i = m
        <5>1. f[i] = last /\ f[i-1] = g[m-1]
          BY <2>2, <4>1
        <5> QED BY <4>1, <5>1 DEF last
      <4>2. CASE i # m
        <5>1. i \in 1..(m-1) /\ f[i] = g[i] /\ f[i-1] = g[i-1]
          BY <2>2, <4>2
        <5>2. g[i] = step[i][g[i-1]]
          BY <2>3, <5>1
        <5> HIDE DEF f
        <5> QED BY <5>1, <5>2, Zenon
      <4> QED BY <4>1, <4>2
    <3> QED BY <2>2, <3>2, <3>3
  <2> QED BY <2>1, <2>2, <2>3
<1>2. T \subseteq Nat
  OBVIOUS
<1>3. T = {}
  <2> HIDE DEF T
  <2> QED BY <1>1, <1>2, EveryNumber
<1>4. n \in 0..n
  OBVIOUS
<1>5. \E f : Upto(f, n)
  <2> HIDE DEF Upto
  <2> QED BY <1>3, <1>4
<1> QED BY <1>5 DEF HasValues

LEMMA IsInItsSet ==
  ASSUME NEW seq, NEW i \in DOMAIN seq
  PROVE  seq[i] \in ToSet(seq)
BY DEF ToSet

LEMMA SetOfAppend ==
  ASSUME NEW V, NEW seq \in Seq(V), NEW x \in V
  PROVE  Append(seq, x) \in Seq(V) /\ ToSet(Append(seq, x)) = ToSet(seq) \cup {x}
<1>1. Append(seq, x) \in Seq(V) /\ DOMAIN Append(seq, x) = 1..(Len(seq) + 1)
      /\ Append(seq, x)[Len(seq) + 1] = x /\ \A i \in 1..Len(seq) : Append(seq, x)[i] = seq[i]
  OBVIOUS
<1>2. DOMAIN seq = 1..Len(seq) /\ Len(seq) \in Nat
  OBVIOUS
<1> QED BY <1>1, <1>2 DEF ToSet

\* Among keeps the members that are in S.
LEMMA SetOfAmong ==
  ASSUME NEW V, NEW seq \in Seq(V), NEW S
  PROVE  Among(seq, S) \in Seq(V) /\ ToSet(Among(seq, S)) = ToSet(seq) \cap S
<1> DEFINE n == Len(seq)
           W == Seq(V)
           none == <<>>
           next(i, v) == IF seq[i] \in S THEN Append(v, seq[i]) ELSE v
           step == [i \in 1..n |-> [v \in W |-> next(i, v)]]
           Is(f) == f = [i \in 0..n |-> IF i = 0 THEN none ELSE next(i, f[i-1])]
<1>1. n \in Nat /\ DOMAIN seq = 1..n /\ \A i \in 1..n : seq[i] \in V
  OBVIOUS
<1>2. \A i \in 1..n : \A v \in W : next(i, v) \in W
  BY <1>1, SetOfAppend
<1>3. Among(seq, S) = (CHOOSE h : Is(h))[n]
  BY DEF Among
<1>4. none \in W
  OBVIOUS
<1> HIDE DEF n, W, next, none
<1>5. \A i \in 1..n : \A v \in W : step[i][v] \in W
  BY <1>2
<1>6. \A i \in 1..n : \A v \in W : step[i][v] = next(i, v)
  OBVIOUS
<1> HIDE DEF step
<1>7. PICK g \in [0..n -> W] : g[0] = none /\ \A i \in 1..n : g[i] = step[i][g[i-1]]
  <2>1. n \in Nat /\ StaysIn(n, W, step)
    BY <1>1, <1>5 DEF StaysIn
  <2>2. HasValues(n, W, none, step)
    BY <2>1, <1>4, RecursionExists
  <2> QED BY <2>2 DEF HasValues
<1>8. ASSUME NEW i \in 0..n PROVE g[i] = IF i = 0 THEN none ELSE next(i, g[i-1])
  <2>1. CASE i # 0
    <3>1. i \in 1..n /\ i - 1 \in 0..n
      BY <1>1, <2>1
    <3>2. g[i-1] \in W
      BY <1>7, <3>1
    <3> QED BY <1>6, <1>7, <2>1, <3>1, <3>2, Zenon
  <2> QED BY <1>7, <2>1
<1>9. Is(g)
  BY <1>7, <1>8
<1> DEFINE f == CHOOSE h : Is(h)
<1>10. Is(f)
  BY <1>9
<1> HIDE DEF f
<1>11. f[0] = none /\ \A i \in 1..n : f[i] = next(i, f[i-1])
  BY <1>1, <1>10
<1> HIDE DEF Is
<1> DEFINE Right(i) == f[i] \in W /\ ToSet(f[i]) = {seq[j] : j \in 1..i} \cap S
           T == {i \in 0..n : ~ Right(i)}
<1>12. ASSUME NEW i \in T PROVE i # 0 /\ i - 1 \in T
  <2>1. i # 0
    BY <1>4, <1>11 DEF ToSet, none
  <2>2. i \in 1..n /\ i - 1 \in 0..n
    BY <1>1, <2>1
  <2>3. ASSUME Right(i-1) PROVE Right(i)
    <3>1. {seq[j] : j \in 1..i} = {seq[j] : j \in 1..(i-1)} \cup {seq[i]}
      BY <2>2
    <3>2. f[i] = next(i, f[i-1]) /\ seq[i] \in V /\ f[i-1] \in Seq(V)
      BY <1>1, <1>11, <2>2, <2>3 DEF W
    <3>3. CASE seq[i] \in S
      <4>1. f[i] = Append(f[i-1], seq[i])
        BY <3>2, <3>3 DEF next
      <4>2. f[i] \in W /\ ToSet(f[i]) = ToSet(f[i-1]) \cup {seq[i]}
        BY <3>2, <4>1, SetOfAppend DEF W
      <4> QED BY <2>3, <3>1, <3>3, <4>2
    <3>4. CASE seq[i] \notin S
      <4>1. f[i] = f[i-1]
        BY <3>2, <3>4 DEF next
      <4> QED BY <2>3, <3>1, <3>4, <4>1
    <3> QED BY <3>3, <3>4
  <2> QED BY <2>1, <2>2, <2>3
<1>13. T \subseteq Nat
  BY <1>1
<1>14. T = {}
  <2> HIDE DEF T
  <2> QED BY <1>12, <1>13, EveryNumber
<1>15. n \in 0..n
  BY <1>1
<1>16. Right(n)
  BY <1>14, <1>15
<1>17. ToSet(seq) = {seq[j] : j \in 1..n}
  BY <1>1 DEF ToSet
<1> QED BY <1>3, <1>16, <1>17 DEF f, W

LEMMA SetOfWithout ==
  ASSUME NEW seq \in Seq(Branches), NEW b
  PROVE  Without(seq, b) \in Seq(Branches) /\ ToSet(Without(seq, b)) = ToSet(seq) \ {b}
<1>1. ToSet(seq) \subseteq Branches
  BY DEF ToSet
<1> QED BY <1>1, SetOfAmong DEF Without

\* The children of x after b has left the list of `from` and joined that of q.
KidsAfter(kids, b, x, from, q) ==
  (kids \ {c \in {b} : x = from /\ from \notin {NoBranch, q}}) \cup {c \in {b} : x = q}

LEMMA MoveChildLists ==
  ASSUME NEW old, IsCache(old), \A x \in Branches : old[x].children \in Seq(Branches),
         NEW b \in Branches, NEW p, NEW q, NEW x \in Branches
  PROVE  /\ MoveChild(old, b, p, q)[x].children \in Seq(Branches)
         /\ ToSet(MoveChild(old, b, p, q)[x].children) = KidsAfter(ToSet(old[x].children), b, x, p, q)
<1> DEFINE one == [old EXCEPT ![p].children = Without(@, b)]
           left == IF p \in {NoBranch, q} THEN old ELSE one
           two == [left EXCEPT ![q].children = Append(@, b)]
           stays == ToSet(old[x].children) \ {c \in {b} : x = p /\ p \notin {NoBranch, q}}
<1>1. DOMAIN one = Branches /\ \A y \in Branches :
        one[y] = IF y = p THEN [old[y] EXCEPT !.children = Without(@, b)] ELSE old[y]
  BY DEF IsCache
<1>2. \A y \in Branches : "children" \in DOMAIN old[y]
  BY DEF IsCache, IsEntry
<1>3. \A y \in Branches : one[y].children = IF y = p THEN Without(old[y].children, b)
                                            ELSE old[y].children
  BY <1>1, <1>2
<1>4. DOMAIN left = Branches /\ left[x].children \in Seq(Branches) /\ ToSet(left[x].children) = stays
      /\ "children" \in DOMAIN left[x]
  <2>1. CASE p \in {NoBranch, q}
    BY <1>2, <2>1 DEF IsCache
  <2>2. CASE p \notin {NoBranch, q}
    <3>1. left = one
      BY <2>2
    <3>2. CASE x = p
      BY <1>1, <1>2, <1>3, <2>2, <3>1, <3>2, SetOfWithout
    <3>3. CASE x # p
      BY <1>1, <1>2, <1>3, <2>2, <3>1, <3>3
    <3> QED BY <3>2, <3>3
  <2> QED BY <2>1, <2>2
<1>5. MoveChild(old, b, p, q) = IF b \in ToSet(left[q].children) THEN left ELSE two
  BY DEF MoveChild
<1> HIDE DEF left, one
<1>6. two[x].children = IF x = q THEN Append(left[x].children, b) ELSE left[x].children
  BY <1>4
<1>7. ToSet(Append(left[x].children, b)) = stays \cup {b} /\ Append(left[x].children, b) \in Seq(Branches)
  BY <1>4, SetOfAppend
<1> HIDE DEF two, stays
<1>8. CASE b \in ToSet(left[q].children)
  BY <1>4, <1>5, <1>8 DEF stays, KidsAfter
<1>9. CASE b \notin ToSet(left[q].children)
  BY <1>4, <1>5, <1>6, <1>7, <1>9 DEF stays, KidsAfter
<1> QED BY <1>8, <1>9

----------------------------------------------------------------------------
(***************************************************************************)
(* Sessions whose parents never go round in a circle                       *)
(***************************************************************************)
\* The parent of a branch that is not untracked is the one on disk.
Followed == {"VALID", "INVALID_PARENT", "BAD_PARENT_REVISION"}

Named(s) ==
  \A c \in Branches : s.cache[c].result \in Followed => s.meta[c].parent = s.cache[c].parent

Lists(s) == \A x \in Branches : s.cache[x].children \in Seq(Branches)

Sound(s) == IsSession(s) /\ Named(s) /\ Lists(s) /\ Grounded(s.meta)

Kept(s, G) == Sound(s) /\ Whole(s.meta, G)

\* The branches that UpdateMeta judges again are the invalid ones.
LEMMA InvalidatedAreInvalid ==
  ASSUME NEW known, \A x \in Branches : known[x].children \in Seq(Branches),
         NEW kids, kids \subseteq Branches
  PROVE  Invalidated(known, kids) \subseteq {c \in Branches : known[c].result = "INVALID_PARENT"}
<1> DEFINE n == Cardinality(Branches)
           bad(S) == {c \in S : known[c].result = "INVALID_PARENT"}
           W == SUBSET bad(Branches)
           first == bad(kids)
           next(near) == near \cup bad(UNION {ToSet(known[c].children) : c \in near})
           step == [i \in 1..n |-> [near \in W |-> next(near)]]
           Is(f) == f = [i \in 0..n |-> IF i = 0 THEN first ELSE next(f[i-1])]
<1>1. n \in Nat
  BY CountIsNumber
<1>2. \A near \in W : next(near) \in W
  BY DEF ToSet
<1>3. first \in W
  OBVIOUS
<1>4. Invalidated(known, kids) = (CHOOSE h : Is(h))[n]
  BY DEF Invalidated
<1>5. W = SUBSET {c \in Branches : known[c].result = "INVALID_PARENT"}
  OBVIOUS
<1> HIDE DEF n, W, next, first
<1>6. StaysIn(n, W, step) /\ \A i \in 1..n : \A v \in W : step[i][v] = next(v)
  BY <1>2 DEF StaysIn
<1> HIDE DEF step
<1>7. HasValues(n, W, first, step)
  BY <1>1, <1>3, <1>6, RecursionExists
<1>8. PICK g \in [0..n -> W] : g[0] = first /\ \A i \in 1..n : g[i] = step[i][g[i-1]]
  BY <1>7 DEF HasValues
<1>9. ASSUME NEW i \in 0..n PROVE g[i] = IF i = 0 THEN first ELSE next(g[i-1])
  <2>1. CASE i # 0
    <3>1. i \in 1..n /\ i - 1 \in 0..n
      BY <1>1, <2>1
    <3>2. g[i-1] \in W
      BY <1>8, <3>1
    <3> QED BY <1>6, <1>8, <2>1, <3>1, <3>2, Zenon
  <2> QED BY <1>8, <2>1
<1>10. Is(g)
  BY <1>8, <1>9
<1> DEFINE f == CHOOSE h : Is(h)
<1>11. Is(f)
  BY <1>10
<1> HIDE DEF f
<1>12. f[0] = first /\ \A i \in 1..n : f[i] = next(f[i-1])
  BY <1>1, <1>11
<1> HIDE DEF Is
<1> DEFINE T == {i \in 0..n : f[i] \notin W}
<1>13. ASSUME NEW i \in T PROVE i # 0 /\ i - 1 \in T
  <2>1. i # 0
    BY <1>3, <1>12
  <2>2. i \in 1..n /\ i - 1 \in 0..n
    BY <1>1, <2>1
  <2> QED BY <1>2, <1>12, <2>1, <2>2
<1>14. T \subseteq Nat
  BY <1>1
<1>15. T = {}
  <2> HIDE DEF T
  <2> QED BY <1>13, <1>14, EveryNumber
<1>16. n \in 0..n
  BY <1>1
<1>17. f[n] \in W
  BY <1>15, <1>16
<1> QED BY <1>4, <1>5, <1>17 DEF f

\* The parts of a session that no operation on metadata changes.
SameElse(t, s) ==
  /\ t.refs = s.refs /\ t.head = s.head /\ t.rebase = s.rebase
  /\ t.current = s.current /\ t.failed = s.failed

\* The result of a branch that was invalid may be judged again.
Judged(new, old) ==
  new = old \/ (old = "INVALID_PARENT" /\ new \in {"VALID", "BAD_PARENT_REVISION"})

LEMMA RevalidateEffect ==
  ASSUME NEW s, IsSession(s), Named(s), Lists(s), NEW kids, kids \subseteq Branches,
         NEW t, t = RevalidateChildren(s, kids)
  PROVE  /\ IsSession(t) /\ SameElse(t, s)
         /\ \A c \in Branches : /\ t.meta[c].parent = s.meta[c].parent
                                /\ t.cache[c].parent = s.cache[c].parent
                                /\ t.cache[c].children = s.cache[c].children
                                /\ Judged(t.cache[c].result, s.cache[c].result)
<1> DEFINE inv == Invalidated(s.cache, kids)
           new == [c \in Branches |->
                    IF c \in inv THEN Revalidated(s.cache, c) ELSE s.cache[c]]
           stored == [c \in Branches |->
                     IF c \in inv /\ new[c].result = "VALID"
                     THEN [parent |-> new[c].parent, rev |-> new[c].prev] ELSE s.meta[c]]
<1>1. IsSession(t)
  <2>1. WrittenBut(s, Branches)
    BY DEF WrittenBut
  <2> QED BY <2>1, RevalidateIsWritten DEF WrittenBut
<1>2. \A c \in inv : c \in Branches => s.cache[c].result = "INVALID_PARENT"
  BY InvalidatedAreInvalid DEF Lists
<1>3. t = [s EXCEPT !.cache = new, !.meta = stored]
  BY DEF RevalidateChildren, IsSession, IsDisk
<1>4. \A c \in Branches : new[c] = IF c \in inv THEN Revalidated(s.cache, c) ELSE s.cache[c]
  OBVIOUS
<1> HIDE DEF inv, new
<1>5. \A c \in Branches : stored[c] = IF c \in inv /\ new[c].result = "VALID"
                                     THEN [parent |-> new[c].parent, rev |-> new[c].prev]
                                     ELSE s.meta[c]
  OBVIOUS
<1> HIDE DEF stored
<1>6. t.cache = new /\ t.meta = stored /\ SameElse(t, s)
  BY <1>3 DEF IsSession, SameElse
<1>7. ASSUME NEW c \in Branches
      PROVE  /\ Revalidated(s.cache, c).parent = s.cache[c].parent
             /\ Revalidated(s.cache, c).children = s.cache[c].children
             /\ Revalidated(s.cache, c).result \in {"VALID", "BAD_PARENT_REVISION"}
  BY DEF Revalidated, IsSession, IsCache, IsEntry
<1>8. ASSUME NEW c \in Branches
      PROVE  /\ new[c].parent = s.cache[c].parent
             /\ new[c].children = s.cache[c].children
             /\ Judged(new[c].result, s.cache[c].result)
  BY <1>2, <1>4, <1>7 DEF Judged
<1>9. ASSUME NEW c \in Branches PROVE stored[c].parent = s.meta[c].parent
  <2>1. c \in inv => s.meta[c].parent = s.cache[c].parent
    BY <1>2 DEF Named, Followed
  <2>2. CASE c \in inv /\ new[c].result = "VALID"
    <3>1. stored[c] = [parent |-> new[c].parent, rev |-> new[c].prev]
      BY <1>5, <2>2
    <3> QED BY <1>8, <2>1, <2>2, <3>1
  <2>3. CASE ~ (c \in inv /\ new[c].result = "VALID")
    BY <1>5, <2>3
  <2> QED BY <2>2, <2>3
<1> QED BY <1>1, <1>6, <1>8, <1>9

\* The list that b leaves, and the lists before b moves, b having the entry e.
LeftParent(s, b) ==
  IF s.cache[b].result \in {"NONE", "BAD_PARENT_NAME"} THEN NoBranch ELSE s.cache[b].parent

ListBefore(s, b, e, x) == IF x = b THEN e.children ELSE s.cache[x].children

\* The children after b, with the entry e, has been put on q.
PutOn(t, s, b, e, q) ==
  \A x \in Branches :
    ToSet(t.cache[x].children)
      = KidsAfter(ToSet(ListBefore(s, b, e, x)), b, x, LeftParent(s, b), q)

\* What updateMeta does to the parents, the lists of children and the results.
LEMMA UpdateEffect ==
  ASSUME NEW s, IsSession(s), Named(s), Lists(s), NEW b \in Branches,
         NEW e, IsEntry(e), e.result = "VALID", e.children \in Seq(Branches),
         NEW q, q = e.parent,
         NEW t, t = UpdateMeta(s, b, e)
  PROVE  /\ IsSession(t) /\ Named(t) /\ Lists(t) /\ SameElse(t, s)
         /\ \A c \in Branches : /\ t.meta[c].parent = IF c = b THEN q ELSE s.meta[c].parent
                                /\ t.cache[c].parent = IF c = b THEN q ELSE s.cache[c].parent
         /\ Valid(t, b)
         /\ \A c \in Branches \ {b} : Judged(t.cache[c].result, s.cache[c].result)
         /\ s.cache[b].result = "VALID" => \A c \in Branches : t.cache[c].result = s.cache[c].result
         /\ PutOn(t, s, b, e, q)
<1> DEFINE old == s.cache[b]
           from == IF old.result \in {"NONE", "BAD_PARENT_NAME"} THEN NoBranch ELSE old.parent
           put == [s.cache EXCEPT ![b] = e]
           new == MoveChild(put, b, from, q)
           stored == [s.meta EXCEPT ![b] = [parent |-> q, rev |-> e.prev]]
           u == [s EXCEPT !.cache = new, !.meta = stored]
           list(x) == KidsAfter(ToSet(put[x].children), b, x, from, q)
<1>1. WrittenBut(s, Branches)
  BY DEF WrittenBut
<1>2. IsCache(put) /\ \A c \in Branches : put[c] = IF c = b THEN e ELSE s.cache[c]
  BY DEF IsSession, IsCache
<1>3. SameButChildren(new, put)
  <2> HIDE DEF put, from
  <2> QED BY <1>2, MoveChildKeeps
<1>4. ASSUME NEW x \in Branches
      PROVE  new[x].children \in Seq(Branches) /\ ToSet(new[x].children) = list(x)
  <2>1. \A y \in Branches : put[y].children \in Seq(Branches)
    BY <1>2 DEF Lists
  <2> HIDE DEF put, from
  <2> QED BY <1>2, <2>1, MoveChildLists
<1>5. IsDisk(s.refs, stored)
      /\ \A c \in Branches : stored[c].parent = IF c = b THEN q ELSE s.meta[c].parent
  BY DEF IsSession, IsDisk, IsMeta
<1>6. t = IF old.result = "VALID" THEN u ELSE RevalidateChildren(u, ToSet(e.children))
  BY DEF UpdateMeta, IsSession
<1>7. \A x \in Branches : put[x].children = IF x = b THEN e.children ELSE s.cache[x].children
  BY <1>2
<1> HIDE DEF put, new, stored
<1>8. u.refs = s.refs /\ u.meta = stored /\ u.cache = new /\ DOMAIN u = DOMAIN s /\ SameElse(u, s)
  BY DEF IsSession, SameElse
<1> HIDE DEF u
<1>9. IsSession(u) /\ Lists(u)
  BY <1>3, <1>4, <1>5, <1>8 DEF IsSession, SameButChildren, Lists
<1>10. ASSUME NEW c \in Branches
       PROVE  /\ u.meta[c].parent = IF c = b THEN q ELSE s.meta[c].parent
              /\ u.cache[c].parent = IF c = b THEN q ELSE s.cache[c].parent
              /\ u.cache[c].result = IF c = b THEN "VALID" ELSE s.cache[c].result
  BY <1>2, <1>3, <1>5, <1>8 DEF SameButChildren
<1>11. Named(u)
  BY <1>10 DEF Named
<1>12. ToSet(e.children) \subseteq Branches
  BY DEF ToSet
<1>13. /\ IsSession(t) /\ SameElse(t, u)
       /\ \A c \in Branches : /\ t.meta[c].parent = u.meta[c].parent
                              /\ t.cache[c].parent = u.cache[c].parent
                              /\ t.cache[c].children = u.cache[c].children
                              /\ Judged(t.cache[c].result, u.cache[c].result)
                              /\ old.result = "VALID" => t.cache[c].result = u.cache[c].result
  <2>1. CASE old.result = "VALID"
    <3>1. t = u
      BY <1>6, <2>1
    <3> QED BY <1>9, <3>1 DEF SameElse, Judged
  <2>2. CASE old.result # "VALID"
    <3> DEFINE kids == ToSet(e.children)
    <3>1. t = RevalidateChildren(u, kids) /\ kids \subseteq Branches
      BY <1>6, <1>12, <2>2
    <3> HIDE DEF kids
    <3> QED BY <1>9, <1>11, <2>2, <3>1, RevalidateEffect
  <2> QED BY <2>1, <2>2
<1>14. Named(t)
  BY <1>11, <1>13 DEF Named, Judged, Followed
<1>15. Lists(t)
  BY <1>9, <1>13 DEF Lists
<1>16. SameElse(t, s)
  BY <1>8, <1>13 DEF SameElse
<1>17. \A x \in Branches : ToSet(t.cache[x].children) = list(x)
  BY <1>4, <1>8, <1>13
<1>18. t.cache[b].result = "VALID" /\ \A c \in Branches \ {b} : Judged(t.cache[c].result, s.cache[c].result)
  BY <1>10, <1>13 DEF Judged
<1>19. old.result = "VALID" => \A c \in Branches : t.cache[c].result = s.cache[c].result
  BY <1>10, <1>13
<1> HIDE DEF u
<1>20. from = LeftParent(s, b) /\ \A x \in Branches : put[x].children = ListBefore(s, b, e, x)
  BY <1>7 DEF LeftParent, ListBefore
<1>21. PutOn(t, s, b, e, q)
  BY <1>17, <1>20 DEF PutOn
<1>22. Valid(t, b)
  BY <1>18 DEF Valid, HasResult
<1> QED BY <1>10, <1>13, <1>14, <1>15, <1>16, <1>18, <1>19, <1>21, <1>22

\* The branch b is put on q, which it was on or which is in G.
LEMMA UpdateKeeps ==
  ASSUME NEW G, NEW s, Kept(s, G), NEW b \in Branches,
         NEW e, IsEntry(e), e.result = "VALID", e.children \in Seq(Branches),
         NEW q, q = e.parent, q = s.meta[b].parent \/ (b \notin G /\ In(q, G)),
         NEW t, t = UpdateMeta(s, b, e)
  PROVE  Kept(t, G) /\ (b \in Others /\ In(q, G) => Whole(t.meta, G \cup {b}))
<1>1. /\ IsSession(t) /\ Named(t) /\ Lists(t)
      /\ \A c \in Branches : t.meta[c].parent = IF c = b THEN q ELSE s.meta[c].parent
  BY UpdateEffect DEF Kept, Sound
<1> DEFINE old == s.meta
           new == t.meta
<1>2. Grounded(old) /\ Whole(old, G)
  BY DEF Kept, Sound
<1>3. CASE q = old[b].parent
  <2>1. Loosened(new, old)
    BY <1>1, <1>3 DEF Loosened
  <2>2. new[b].parent = q /\ \A c \in Branches : new[c].parent = old[c].parent
    BY <1>1, <1>3
  <2> HIDE DEF old, new
  <2>3. Grounded(new) /\ Whole(new, G)
    BY <1>2, <2>1, LooseningKeeps
  <2>4. b \in Others /\ In(q, G) => Whole(new, G \cup {b})
    BY <2>2, <2>3 DEF Whole, In, Others
  <2> QED BY <1>1, <2>3, <2>4 DEF Kept, Sound, new
<1>4. CASE b \notin G /\ In(q, G)
  <2>1. \A c \in Branches : new[c].parent = IF c = b THEN q ELSE old[c].parent
    BY <1>1
  <2> HIDE DEF old, new
  <2>2. Grounded(new) /\ Whole(new, G) /\ (b \in Others => Whole(new, G \cup {b}))
    BY <1>2, <1>4, <2>1, AttachKeeps
  <2> QED BY <1>1, <2>2 DEF Kept, Sound, new
<1> QED BY <1>3, <1>4

\* What an operation on the parents leaves alone.
Onward(t, s) ==
  /\ t.refs = s.refs /\ t.current = s.current /\ (s.failed => t.failed)
  /\ \A c \in Branches : Valid(s, c) => Valid(t, c)

LEMMA FailKeeps ==
  ASSUME NEW G, NEW s, Kept(s, G)
  PROVE  Kept(Fail(s), G) /\ Onward(Fail(s), s) /\ Fail(s).failed = TRUE
BY DEF Kept, Sound, IsSession, Named, Lists, Fail, Onward, Valid, HasResult

LEMMA SoundIsKept ==
  ASSUME NEW s, Sound(s)
  PROVE  Kept(s, {}) /\ Sound(Fail(s))
<1>1. Kept(s, {})
  BY DEF Kept, Whole
<1> QED BY <1>1, FailKeeps DEF Kept

LEMMA SetParentKeeps ==
  ASSUME NEW G, NEW s, Kept(s, G), NEW b, NEW p,
         ~ s.failed /\ Valid(s, b) => b \notin G /\ In(p, G),
         NEW t, t = SetParent(s, b, p)
  PROVE  /\ Kept(t, G) /\ Onward(t, s)
         /\ t.failed = TRUE \/ (b \in Branches /\ (b \in Others => Whole(t.meta, G \cup {b})))
<1> DEFINE e == [s.cache[b] EXCEPT !.parent = p]
<1>1. CASE s.failed \/ ~CanBeParent(s, b, p) \/ ~Valid(s, b)
  <2>1. t = Fail(s)
    BY <1>1 DEF SetParent
  <2> QED BY <2>1, FailKeeps
<1>2. CASE ~ (s.failed \/ ~CanBeParent(s, b, p) \/ ~Valid(s, b)) /\ s.cache[b].parent = p
  <2>1. t = s /\ Valid(s, b)
    BY <1>2 DEF SetParent
  <2>2. b \in Branches /\ s.meta[b].parent = p
    BY <1>2, <2>1 DEF Valid, HasResult, Kept, Sound, Named, Followed
  <2>3. b \in Others => Whole(s.meta, G \cup {b})
    BY <1>2, <2>1, <2>2 DEF Kept, Whole, In, Others
  <2> QED BY <2>1, <2>2, <2>3 DEF Onward
<1>3. CASE ~ (s.failed \/ ~CanBeParent(s, b, p) \/ ~Valid(s, b)) /\ s.cache[b].parent # p
           /\ ~ValidOrTrunk(s, p)
  <2>1. t = Fail(s)
    BY <1>3 DEF SetParent
  <2> QED BY <2>1, FailKeeps
<1>4. CASE ~ (s.failed \/ ~CanBeParent(s, b, p) \/ ~Valid(s, b)) /\ s.cache[b].parent # p
           /\ ValidOrTrunk(s, p)
  <2>1. t = UpdateMeta(s, b, e) /\ Valid(s, b) /\ ~ s.failed
    BY <1>4 DEF SetParent
  <2>2. b \in Branches /\ s.cache[b].result = "VALID"
    BY <2>1 DEF Valid, HasResult
  <2>3. IsEntry(e) /\ e.result = "VALID" /\ e.children \in Seq(Branches) /\ e.parent = p
    BY <2>2 DEF Kept, Sound, IsSession, IsCache, IsEntry, Lists
  <2> HIDE DEF e
  <2>4. Kept(t, G) /\ (b \in Others => Whole(t.meta, G \cup {b}))
    BY <2>1, <2>2, <2>3, UpdateKeeps
  <2>5. SameElse(t, s) /\ \A c \in Branches : t.cache[c].result = s.cache[c].result
    BY <2>1, <2>2, <2>3, UpdateEffect DEF Kept, Sound
  <2> QED BY <2>2, <2>4, <2>5 DEF Onward, SameElse, Valid, HasResult
<1> QED BY <1>1, <1>2, <1>3, <1>4

LEMMA OnwardIsTransitive ==
  ASSUME NEW s, NEW t, NEW u, Onward(t, s), Onward(u, t)
  PROVE  Onward(u, s)
BY DEF Onward

\* Branches that are not in G are put on p, which is.
LEMMA AdoptKeeps ==
  ASSUME NEW G, NEW s, Kept(s, G), NEW kids, NEW p,
         ~ s.failed => \A i \in DOMAIN kids : kids[i] \notin G /\ In(p, G),
         NEW t, t = Adopt(s, kids, p)
  PROVE  Kept(t, G) /\ Onward(t, s)
<1> DEFINE n == Cardinality(Branches)
           f == CHOOSE g : IsAdopted(g, s, kids, p, n)
           Right(u) == Kept(u, G) /\ Onward(u, s)
<1>1. n \in Nat
  BY CountIsNumber
<1>2. IsAdopted(f, s, kids, p, n)
  BY <1>1, AdoptedExists
<1>3. t = f[n]
  BY DEF Adopt, IsAdopted
<1> HIDE DEF n, f
<1> DEFINE T == {i \in 0..n : ~ Right(f[i])}
<1>4. ASSUME NEW i \in T PROVE i # 0 /\ i - 1 \in T
  <2>1. f[0] = s
    BY <1>1, <1>2 DEF IsAdopted
  <2>2. i # 0 /\ i - 1 \in 0..n
    BY <1>1, <2>1 DEF Onward
  <2>3. f[i] = IF i \in DOMAIN kids THEN SetParent(f[i-1], kids[i], p) ELSE f[i-1]
    BY <1>2, <2>2 DEF IsAdopted
  <2> DEFINE u == f[i-1]
             c == kids[i]
  <2>4. ASSUME Right(u) PROVE Right(f[i])
    <3>1. CASE i \in DOMAIN kids
      <4>1. f[i] = SetParent(u, c, p) /\ (~ u.failed => c \notin G /\ In(p, G))
        BY <2>3, <2>4, <3>1 DEF Onward
      <4> HIDE DEF u, c
      <4>2. Kept(f[i], G) /\ Onward(f[i], u)
        BY <2>4, <4>1, SetParentKeeps
      <4> QED BY <2>4, <4>2, OnwardIsTransitive
    <3>2. CASE i \notin DOMAIN kids
      BY <2>3, <2>4, <3>2
    <3> QED BY <3>1, <3>2
  <2> QED BY <2>2, <2>4
<1>5. T \subseteq Nat
  BY <1>1
<1>6. T = {}
  <2> HIDE DEF T
  <2> QED BY <1>4, <1>5, EveryNumber
<1>7. n \in 0..n
  BY <1>1
<1> QED BY <1>3, <1>6, <1>7

\* Neither HEAD nor the current branch matters, nor a commit.
LEMMA OthersKeep ==
  ASSUME NEW G, NEW s, Kept(s, G), NEW h, NEW u
  PROVE  /\ Kept([s EXCEPT !.head = h], G)
         /\ Kept([s EXCEPT !.current = u], G)
         /\ Kept([s EXCEPT !.head = h, !.current = u], G)
BY DEF Kept, Sound, IsSession, Named, Lists

LEMMA CheckoutKeeps ==
  ASSUME NEW G, NEW s, Kept(s, G), NEW b, NEW t, t = CheckoutBranch(s, b)
  PROVE  /\ Kept(t, G) /\ t.refs = s.refs /\ t.meta = s.meta /\ t.cache = s.cache
         /\ t.rebase = s.rebase
         /\ t.failed \/ t.current = b
<1> DEFINE out == [s EXCEPT !.head = b, !.current = b]
<1>1. t = Fail(s) \/ t = out \/ (t = s /\ (s.failed \/ s.current = b))
  BY DEF CheckoutBranch
<1>2. Kept(out, G) /\ Kept(Fail(s), G)
  BY OthersKeep, FailKeeps
<1>3. /\ out.refs = s.refs /\ out.meta = s.meta /\ out.cache = s.cache /\ out.rebase = s.rebase
      /\ out.current = b
      /\ Fail(s).refs = s.refs /\ Fail(s).meta = s.meta /\ Fail(s).cache = s.cache
      /\ Fail(s).rebase = s.rebase /\ Fail(s).failed = TRUE
  BY DEF Fail, Kept, Sound, IsSession
<1> HIDE DEF out
<1> QED BY <1>1, <1>2, <1>3

\* A session with other refs.
LEMMA OtherRefsKeep ==
  ASSUME NEW G, NEW s, Kept(s, G), NEW t,
         DOMAIN t = DOMAIN s, t.cache = s.cache, t.meta = s.meta, DOMAIN t.refs = Branches
  PROVE  Kept(t, G)
BY DEF Kept, Sound, IsSession, Named, Lists, IsDisk

\* A branch is forgotten.
LEMMA ForgetKeeps ==
  ASSUME NEW G, NEW s, Kept(s, G), NEW b, NEW t, t = Forget(s, b)
  PROVE  Kept(t, G)
<1> DEFINE heads == [s.refs EXCEPT ![b] = NoCommit]
           stored == [s.meta EXCEPT ![b] = NoMeta]
           new == [s.cache EXCEPT ![b] = NoEntry]
<1>1. IsSession(t)
  <2>1. WrittenBut(s, Branches)
    BY DEF WrittenBut, Kept, Sound
  <2> QED BY <2>1, ForgetIsWritten DEF WrittenBut
<1>2. t = [s EXCEPT !.refs = heads, !.meta = stored, !.cache = new]
  BY DEF Forget, Kept, Sound, IsSession
<1>3. /\ \A c \in Branches : stored[c] = IF c = b THEN NoMeta ELSE s.meta[c]
      /\ \A c \in Branches : new[c] = IF c = b THEN NoEntry ELSE s.cache[c]
  BY DEF Kept, Sound, IsSession, IsDisk, IsCache
<1> HIDE DEF heads, stored, new
<1>4. t.meta = stored /\ t.cache = new
  BY <1>2 DEF Kept, Sound, IsSession
<1>5. NoMeta.parent \notin Branches /\ NoEntry.result = "NONE" /\ NoEntry.children \in Seq(Branches)
  BY BranchNames DEF NoMeta, NoEntry
<1>6. Named(t)
  BY <1>3, <1>4, <1>5 DEF Named, Kept, Sound, Followed
<1>7. Lists(t)
  BY <1>3, <1>4, <1>5 DEF Lists, Kept, Sound
<1>8. Loosened(stored, s.meta)
  BY <1>3, <1>5 DEF Loosened
<1>9. Grounded(t.meta) /\ Whole(t.meta, G)
  BY <1>4, <1>8, LooseningKeeps DEF Kept, Sound
<1> QED BY <1>1, <1>6, <1>7, <1>9 DEF Kept, Sound

\* A list of children is another one.
LEMMA OtherListKeeps ==
  ASSUME NEW G, NEW s, Kept(s, G), NEW p, NEW kids, p \in Branches => kids \in Seq(Branches),
         NEW t, t = [s EXCEPT !.cache[p].children = kids]
  PROVE  Kept(t, G) /\ t.meta = s.meta /\ t.refs = s.refs
         /\ \A c \in Branches : t.cache[c].result = s.cache[c].result /\ t.cache[c].parent = s.cache[c].parent
<1> DEFINE new == [s.cache EXCEPT ![p].children = kids]
<1>1. IsSession(t)
  <2>1. WrittenBut(s, Branches)
    BY DEF WrittenBut, Kept, Sound
  <2> QED BY <2>1, OtherChildren DEF WrittenBut
<1>2. \A c \in Branches : new[c] = IF c = p THEN [s.cache[c] EXCEPT !.children = kids]
                                   ELSE s.cache[c]
  BY DEF Kept, Sound, IsSession, IsCache
<1>3. t.cache = new /\ t.meta = s.meta /\ t.refs = s.refs
  BY DEF Kept, Sound, IsSession
<1> HIDE DEF new
<1>4. \A c \in Branches : /\ new[c].result = s.cache[c].result /\ new[c].parent = s.cache[c].parent
                          /\ new[c].children \in Seq(Branches)
  BY <1>2 DEF Kept, Sound, IsSession, IsCache, IsEntry, Lists
<1> QED BY <1>1, <1>3, <1>4 DEF Kept, Sound, Named, Lists

LEMMA DeleteDataKeeps ==
  ASSUME NEW G, NEW s, Kept(s, G), NEW b, NEW t, t = DeleteAllBranchData(s, b)
  PROVE  Kept(t, G)
<1> DEFINE p == s.cache[b].parent
           kids == Without(s.cache[p].children, b)
           left == [s EXCEPT !.cache[p].children = kids]
<1>1. t \in {Fail(s), Fail(left), Forget(left, b)}
  BY DEF DeleteAllBranchData, Kept, Sound, IsSession
<1>2. p \in Branches => kids \in Seq(Branches)
  BY SetOfWithout DEF Kept, Sound, Lists
<1> HIDE DEF p, kids
<1>3. Kept(left, G)
  BY <1>2, OtherListKeeps
<1> HIDE DEF left
<1> QED BY <1>1, <1>3, FailKeeps, ForgetKeeps

\* The branches in the list of b are on b.
Listed(s, b) == \A c \in ToSet(s.cache[b].children) : s.meta[c].parent = b

\* A session that is as it was loaded.
Fresh(s) ==
  /\ Sound(s)
  /\ \A c \in Branches :
       /\ s.cache[c].result = "TRUNK" => c = Trunk
       /\ Valid(s, c) => /\ c # Trunk /\ s.refs[c] # NoCommit
                         /\ ValidOrTrunk(s, s.cache[c].parent)
  /\ \A x \in Branches :
       /\ Listed(s, x)
       /\ \A c \in ToSet(s.cache[x].children) : s.refs[c] # NoCommit /\ s.cache[c].result \in Followed

ValidOnes(s) == {c \in Branches : Valid(s, c)}

LEMMA ValidOnesAreWhole ==
  ASSUME NEW s, Fresh(s)
  PROVE  /\ Kept(s, ValidOnes(s))
         /\ \A p : ValidOrTrunk(s, p) => In(p, ValidOnes(s))
         /\ \A b : s.refs[b] = NoCommit => b \notin ValidOnes(s)
<1>1. ASSUME NEW c \in ValidOnes(s) PROVE c \in Others /\ In(s.meta[c].parent, ValidOnes(s))
  <2>1. s.meta[c].parent = s.cache[c].parent
    BY DEF ValidOnes, Fresh, Sound, Named, Valid, HasResult, Followed
  <2> QED BY <2>1 DEF ValidOnes, Fresh, In, Others, Valid, ValidOrTrunk, HasResult
<1>2. Kept(s, ValidOnes(s))
  BY <1>1 DEF Fresh, Kept, Whole
<1>3. \A p : ValidOrTrunk(s, p) => In(p, ValidOnes(s))
  BY DEF ValidOrTrunk, Valid, HasResult, ValidOnes, Fresh, In, Others
<1> QED BY <1>2, <1>3 DEF ValidOnes, Fresh

\* The branches above a branch, and what it is on.
LEMMA OffValid ==
  ASSUME NEW s, Sound(s), NEW b, Valid(s, b), b # Trunk
  PROVE  /\ b \in Others /\ s.meta[b].parent = s.cache[b].parent
         /\ Kept(s, Off(s.meta, b)) /\ b \notin Off(s.meta, b)
         /\ In(s.cache[b].parent, Off(s.meta, b))
         /\ \A c \in Branches : s.meta[c].parent = b => c \notin Off(s.meta, b) /\ c # b
<1>1. b \in Others /\ s.meta[b].parent = s.cache[b].parent
  BY DEF Valid, HasResult, Others, Sound, Named, Followed
<1>2. Grounded(s.meta)
  BY DEF Sound
<1>3. Whole(s.meta, Off(s.meta, b)) /\ b \notin Off(s.meta, b)
      /\ \A c \in Branches : s.meta[c].parent = b => c \notin Off(s.meta, b)
  BY <1>1, OffIsWhole
<1>4. In(s.meta[b].parent, Off(s.meta, b))
  BY <1>1, <1>2, ParentIsOff
<1>5. s.meta[b].parent # b
  BY <1>1, <1>3, <1>4 DEF In
<1> QED BY <1>1, <1>3, <1>4, <1>5 DEF Kept

LEMMA EveryOtherIsOfThem ==
  ASSUME NEW V, NEW kids \in Seq(V), NEW i \in DOMAIN EveryOther(kids)
  PROVE  EveryOther(kids)[i] \in ToSet(kids)
<1> DEFINE n == Len(kids)
<1>1. n \in Nat /\ DOMAIN kids = 1..n
  OBVIOUS
<1>2. i \in 1..((n + 1) \div 2) /\ EveryOther(kids)[i] = kids[2*i - 1]
  BY DEF EveryOther
<1> HIDE DEF n
<1>3. 2*i - 1 \in 1..n
  BY <1>1, <1>2
<1> QED BY <1>1, <1>2, <1>3 DEF ToSet

LEMMA ChildIsBranch ==
  ASSUME NEW s, Lists(s), NEW b \in Branches, NEW c \in ToSet(s.cache[b].children)
  PROVE  c \in Branches
BY DEF Lists, ToSet

LEMMA DeleteKeeps ==
  ASSUME NEW s, Sound(s), NEW b,
         Valid(s, b) => Listed(s, b) /\ (b # Trunk \/ ToSet(s.cache[b].children) = {}),
         NEW t, t = DeleteBranch(s, b)
  PROVE  Sound(t)
<1> DEFINE parent == s.cache[b].parent
           kids == EveryOther(s.cache[b].children)
           away == IF b = s.current THEN CheckoutBranch(s, parent) ELSE s
           moved == Adopt(away, kids, parent)
           G == IF b = Trunk THEN {} ELSE Off(s.meta, b)
<1>1. CASE s.failed \/ ~Valid(s, b)
  <2>1. t = Fail(s)
    BY <1>1 DEF DeleteBranch
  <2>2. Kept(s, {})
    BY DEF Kept, Whole
  <2> QED BY <2>1, <2>2, FailKeeps DEF Kept
<1>2. CASE ~ (s.failed \/ ~Valid(s, b))
  <2>1. t = DeleteAllBranchData(moved, b) /\ b \in Branches
    BY <1>2 DEF DeleteBranch, Valid, HasResult
  <2>2. Kept(s, G) /\ \A i \in DOMAIN kids : kids[i] \notin G /\ In(parent, G)
    <3>1. \A i \in DOMAIN kids : kids[i] \in ToSet(s.cache[b].children)
      BY <2>1, EveryOtherIsOfThem DEF Sound, Lists
    <3>2. \A i \in DOMAIN kids : kids[i] \in Branches /\ s.meta[kids[i]].parent = b
      BY <1>2, <2>1, <3>1, ChildIsBranch DEF Listed, Sound
    <3> HIDE DEF kids
    <3>3. CASE b = Trunk
      BY <1>2, <3>1, <3>3 DEF Kept, Whole
    <3>4. CASE b # Trunk
      BY <1>2, <3>2, <3>4, OffValid
    <3> QED BY <3>3, <3>4
  <2> HIDE DEF G, kids, parent
  <2>3. Kept(away, G)
    BY <2>2, CheckoutKeeps
  <2> HIDE DEF away
  <2>4. Kept(moved, G)
    BY <2>2, <2>3, AdoptKeeps
  <2> HIDE DEF moved
  <2>5. Kept(t, G)
    BY <2>1, <2>4, DeleteDataKeeps
  <2> QED BY <2>5 DEF Kept
<1> QED BY <1>1, <1>2

\* Nothing but revisions is different.
SameStacks(t, s) ==
  /\ t.meta = s.meta
  /\ \A c \in Branches : /\ t.cache[c].children = s.cache[c].children
                         /\ t.cache[c].result = s.cache[c].result
                         /\ t.cache[c].parent = s.cache[c].parent

\* The current branch, or trunk, has a new commit.
WithTip(s, b, rev) == [s EXCEPT !.refs[b] = rev, !.cache[b].rev = rev]

LEMMA TipKeeps ==
  ASSUME NEW G, NEW s, Kept(s, G), NEW b, NEW rev,
         NEW t, t = WithTip(s, b, rev)
  PROVE  Kept(t, G) /\ SameStacks(t, s) /\ t.failed = s.failed
<1> DEFINE heads == [s.refs EXCEPT ![b] = rev]
           new == [s.cache EXCEPT ![b].rev = rev]
<1>1. t = [s EXCEPT !.refs = heads, !.cache = new]
  BY DEF WithTip, Kept, Sound, IsSession
<1>2. /\ DOMAIN heads = Branches /\ DOMAIN new = Branches
      /\ \A c \in Branches : new[c] = IF c = b THEN [s.cache[c] EXCEPT !.rev = rev]
                                      ELSE s.cache[c]
  BY DEF Kept, Sound, IsSession, IsDisk, IsCache
<1> HIDE DEF heads, new
<1>3. \A c \in Branches : /\ IsEntry(new[c]) /\ new[c].result = s.cache[c].result
                          /\ new[c].parent = s.cache[c].parent
                          /\ new[c].children = s.cache[c].children
  BY <1>2 DEF Kept, Sound, IsSession, IsCache, IsEntry
<1>4. t.refs = heads /\ t.meta = s.meta /\ t.cache = new /\ DOMAIN t = DOMAIN s
      /\ t.failed = s.failed /\ t.current = s.current /\ t.rebase = s.rebase
  BY <1>1 DEF Kept, Sound, IsSession
<1>5. IsSession(t)
  BY <1>2, <1>3, <1>4 DEF Kept, Sound, IsSession, IsDisk, IsCache
<1> QED BY <1>3, <1>4, <1>5 DEF Kept, Sound, Named, Lists, SameStacks

LEMMA CommitKeeps ==
  ASSUME NEW G, NEW s, Kept(s, G), NEW rev, NEW t, t = CommitTo(s, rev)
  PROVE  Kept(t, G) /\ SameStacks(t, s) /\ t.failed \in {TRUE, s.failed}
<1> DEFINE b == s.current
           u == [s EXCEPT !.refs[b] = rev, !.cache[b].rev = rev]
<1>1. t \in {Fail(s), u}
  BY DEF CommitTo
<1>2. CASE t = Fail(s)
  <2>1. Fail(s).cache = s.cache /\ Fail(s).meta = s.meta
    BY DEF Fail, Kept, Sound, IsSession
  <2> QED BY <1>2, <2>1, FailKeeps DEF SameStacks
<1>3. CASE t = u
  <2> HIDE DEF b
  <2>1. t = WithTip(s, b, rev)
    BY <1>3 DEF WithTip
  <2> HIDE DEF u
  <2>2. Kept(t, G) /\ SameStacks(t, s)
    BY <2>1, TipKeeps
  <2>3. t.failed = s.failed
    BY <2>1, TipKeeps
  <2> QED BY <2>2, <2>3
<1> QED BY <1>1, <1>2, <1>3

\* The new branch b is on the current one, and has no children yet.
Branched(t, s, b, G) ==
  /\ ValidOrTrunk(s, s.current) /\ b # s.current /\ s.refs[b] = NoCommit
  /\ b \in Others => Whole(t.meta, G \cup {b})
  /\ t.current = b /\ t.failed = s.failed /\ Valid(t, b) /\ ToSet(t.cache[b].children) = {}
  /\ \A x \in Branches \ {b} :
       ToSet(t.cache[x].children) \subseteq ToSet(s.cache[x].children) \cup {b}

LEMMA CheckoutNewKeeps ==
  ASSUME NEW G, NEW s, Kept(s, G), NEW b \in Branches,
         ValidOrTrunk(s, s.current) => b \notin G /\ In(s.current, G),
         NEW t, t = CheckoutNewBranch(s, b)
  PROVE  Kept(t, G) /\ (t = Fail(s) \/ Branched(t, s, b, G))
<1> DEFINE p == s.current
           u == [s EXCEPT !.refs[b] = s.refs[p], !.head = b, !.current = b]
           e == [result |-> "VALID", parent |-> p, prev |-> s.cache[p].rev,
                 rev |-> s.cache[p].rev, children |-> <<>>]
<1>1. CASE p = NoBranch \/ ~ValidOrTrunk(s, p) \/ ~CanBeParent(s, b, p)
           \/ s.refs[b] # NoCommit \/ ~CanSwitch(s)
  <2>1. t = Fail(s)
    BY <1>1 DEF CheckoutNewBranch
  <2> QED BY <2>1, FailKeeps
<1>2. CASE ~(p = NoBranch \/ ~ValidOrTrunk(s, p) \/ ~CanBeParent(s, b, p)
             \/ s.refs[b] # NoCommit \/ ~CanSwitch(s))
  <2>1. t = UpdateMeta(u, b, e)
    BY <1>2 DEF CheckoutNewBranch
  <2>2. ValidOrTrunk(s, p) /\ b # p /\ s.refs[b] = NoCommit /\ b \notin G /\ In(p, G)
    BY <1>2 DEF CanBeParent
  <2>3. /\ DOMAIN u = DOMAIN s /\ u.cache = s.cache /\ u.meta = s.meta
        /\ DOMAIN u.refs = Branches /\ u.current = b /\ u.failed = s.failed
    BY DEF Kept, Sound, IsSession, IsDisk
  <2>4. IsEntry(e) /\ e.result = "VALID" /\ e.children = <<>> /\ e.children \in Seq(Branches)
        /\ e.parent = p
    BY DEF IsEntry
  <2>5. ToSet(e.children) = {}
    BY <2>4 DEF ToSet
  <2> HIDE DEF u, e, p
  <2>6. Kept(u, G)
    BY <2>3, OtherRefsKeep
  <2>7. Kept(t, G) /\ (b \in Others => Whole(t.meta, G \cup {b}))
    BY <2>1, <2>2, <2>4, <2>6, UpdateKeeps
  <2>8. /\ SameElse(t, u) /\ Valid(t, b)
        /\ PutOn(t, u, b, e, p)
    <3>1. IsSession(u) /\ Named(u) /\ Lists(u)
      BY <2>6 DEF Kept, Sound
    <3>2. SameElse(t, u)
      BY <2>1, <2>4, <3>1, UpdateEffect
    <3>3. PutOn(t, u, b, e, p)
      BY <2>1, <2>4, <3>1, UpdateEffect
    <3>4. Valid(t, b)
      BY <2>1, <2>4, <3>1, UpdateEffect
    <3> QED BY <3>2, <3>3, <3>4
  <2>9. ToSet(t.cache[b].children) = {}
    BY <2>2, <2>5, <2>8 DEF KidsAfter, ListBefore, PutOn
  <2>10. \A x \in Branches \ {b} :
           ToSet(t.cache[x].children) \subseteq ToSet(s.cache[x].children) \cup {b}
    BY <2>3, <2>8 DEF KidsAfter, ListBefore, PutOn
  <2> QED BY <2>2, <2>3, <2>7, <2>8, <2>9, <2>10 DEF p, SameElse, Branched
<1> QED BY <1>1, <1>2

----------------------------------------------------------------------------
(***************************************************************************)
(* The commands, on a session as it was loaded                             *)
(***************************************************************************)
\* The branches below p, with p.
Under(s, p) == IF p = Trunk THEN {} ELSE (Off(s.meta, p) \cap ValidOnes(s)) \cup {p}

LEMMA UnderIsWhole ==
  ASSUME NEW s, Fresh(s), NEW p, ValidOrTrunk(s, p)
  PROVE  /\ Kept(s, Under(s, p)) /\ In(p, Under(s, p)) /\ Under(s, p) \subseteq ValidOnes(s)
         /\ \A c \in Branches : s.meta[c].parent = p => c \notin Under(s, p)
<1>1. Kept(s, ValidOnes(s)) /\ ValidOnes(s) \subseteq Others
  BY ValidOnesAreWhole DEF Kept, Whole
<1>2. CASE p = Trunk
  BY <1>1, <1>2 DEF Under, Kept, Whole, In, Others
<1>3. CASE p # Trunk
  <2>1. Valid(s, p)
    BY <1>3 DEF ValidOrTrunk, Valid, HasResult, Fresh
  <2>2. /\ p \in Others /\ s.meta[p].parent = s.cache[p].parent
        /\ Kept(s, Off(s.meta, p)) /\ p \notin Off(s.meta, p)
        /\ In(s.cache[p].parent, Off(s.meta, p))
        /\ \A c \in Branches : s.meta[c].parent = p => c \notin Off(s.meta, p) /\ c # p
    BY <1>3, <2>1, OffValid DEF Fresh
  <2>3. In(s.cache[p].parent, ValidOnes(s))
    BY <2>1, ValidOnesAreWhole DEF Fresh, Valid, HasResult
  <2>4. Whole(s.meta, Off(s.meta, p) \cap ValidOnes(s))
    BY <1>1, <2>2, SharedIsWhole DEF Kept
  <2>5. Whole(s.meta, Under(s, p))
    BY <1>3, <2>2, <2>3, <2>4 DEF Under, Whole, In
  <2>6. p \in ValidOnes(s)
    BY <2>1 DEF ValidOnes, Valid, HasResult
  <2> QED BY <1>1, <1>3, <2>2, <2>5, <2>6 DEF Under, Kept, In
<1> QED BY <1>2, <1>3

LEMMA CreatedKeeps ==
  ASSUME NEW s, Fresh(s), NEW b \in Branches, NEW staged,
         NEW G, Kept(s, G), G \subseteq ValidOnes(s),
         ValidOrTrunk(s, s.current) => In(s.current, G),
         NEW t, t = Created(s, b, staged)
  PROVE  /\ Kept(t, G)
         /\ \/ t.failed
            \/ /\ ValidOrTrunk(s, s.current) /\ s.refs[b] = NoCommit /\ b # s.current
               /\ b \in Others => Whole(t.meta, G \cup {b})
               /\ ToSet(t.cache[s.current].children) \subseteq ToSet(s.cache[s.current].children) \cup {b}
<1> DEFINE new == CheckoutNewBranch(s, b)
           rev == s.refs[s.current] \o staged
<1>1. b \in G => s.refs[b] # NoCommit
  BY ValidOnesAreWhole
<1>2. Kept(new, G) /\ (new = Fail(s) \/ Branched(new, s, b, G))
  <2>1. CASE b \notin G
    <3> HIDE DEF new
    <3>1. new = CheckoutNewBranch(s, b)
      BY DEF new
    <3> QED BY <2>1, <3>1, CheckoutNewKeeps
  <2>2. CASE b \in G
    <3>1. new = Fail(s)
      BY <1>1, <2>2 DEF CheckoutNewBranch
    <3> QED BY <3>1, FailKeeps
  <2> QED BY <2>1, <2>2
<1>3. t \in {new, CommitTo(new, rev)} /\ (new.failed => t = new)
  BY DEF Created
<1>4. new = Fail(s) => new.failed = TRUE
  BY FailKeeps
<1> HIDE DEF new, rev
<1>5. CASE t = new
  BY <1>2, <1>4, <1>5 DEF Branched, ValidOrTrunk, HasResult
<1>6. CASE t = CommitTo(new, rev)
  <2>1. Kept(t, G) /\ SameStacks(t, new) /\ t.failed \in {TRUE, new.failed}
    BY <1>2, <1>6, CommitKeeps
  <2> QED BY <1>2, <1>4, <2>1 DEF Branched, SameStacks, ValidOrTrunk, HasResult
<1> QED BY <1>3, <1>5, <1>6

LEMMA InsertKeeps ==
  ASSUME NEW s, Fresh(s), NEW b \in Branches, NEW staged,
         NEW t, t = Created(s, b, staged),
         NEW kids, kids = Without(GetChildren(t, s.current), b),
         NEW u, u = Adopt(t, kids, b)
  PROVE  Sound(u)
<1> DEFINE p == s.current
           G == IF ValidOrTrunk(s, p) THEN Under(s, p) ELSE {}
           H == G \cup ({b} \cap Others)
<1>1. Kept(s, G) /\ G \subseteq ValidOnes(s) /\ (ValidOrTrunk(s, p) => In(p, G))
  BY UnderIsWhole DEF Fresh, Kept, Whole
<1> HIDE DEF G
<1>2. /\ Kept(t, G)
      /\ \/ t.failed
         \/ /\ ValidOrTrunk(s, p) /\ s.refs[b] = NoCommit /\ b # p
            /\ b \in Others => Whole(t.meta, G \cup {b})
            /\ ToSet(t.cache[p].children) \subseteq ToSet(s.cache[p].children) \cup {b}
  BY <1>1, CreatedKeeps
<1>3. CASE t.failed
  BY <1>2, <1>3, AdoptKeeps DEF Kept
<1>4. CASE ~ t.failed
  <2>1. b \notin Others => H = G
    OBVIOUS
  <2>2. b \in Others => H = G \cup {b}
    OBVIOUS
  <2>3. Kept(t, H)
    BY <1>2, <1>4, <2>1, <2>2 DEF Kept
  <2>4. ASSUME NEW i \in DOMAIN kids PROVE kids[i] \notin H /\ In(b, H)
    <3>1. p \in Branches
      BY <1>2, <1>4 DEF ValidOrTrunk, HasResult
    <3>2. GetChildren(t, p) \in Seq(Branches)
          /\ ToSet(GetChildren(t, p)) \subseteq ToSet(t.cache[p].children)
      BY <1>2, <3>1, SetOfAmong DEF GetChildren, Kept, Sound, Lists
    <3>3. kids[i] \in ToSet(kids) /\ ToSet(kids) = ToSet(GetChildren(t, p)) \ {b}
      BY <3>2, SetOfWithout, IsInItsSet
    <3>4. kids[i] \in ToSet(s.cache[p].children) /\ kids[i] # b
      BY <1>2, <1>4, <3>2, <3>3
    <3>5. kids[i] \in Branches /\ s.meta[kids[i]].parent = p
      BY <3>1, <3>4, ChildIsBranch DEF Fresh, Sound, Listed
    <3>6. kids[i] \notin G
      BY <1>2, <1>4, <3>5, UnderIsWhole DEF G
    <3> QED BY <3>4, <3>6 DEF In
  <2> HIDE DEF H
  <2> QED BY <2>3, <2>4, AdoptKeeps DEF Kept
<1> QED BY <1>3, <1>4

LEMMA CreateFailsKeeps ==
  ASSUME NEW s, Fresh(s), NEW b \in Branches,
         NEW new, new = CheckoutNewBranch(s, b),
         NEW t, t = IF new.failed THEN new ELSE DeleteBranch(new, b)
  PROVE  Sound(Fail(t))
<1> DEFINE G == IF ValidOrTrunk(s, s.current) /\ s.refs[b] = NoCommit THEN Under(s, s.current) ELSE {}
<1>1. Kept(s, G) /\ G \subseteq ValidOnes(s)
      /\ (ValidOrTrunk(s, s.current) /\ s.refs[b] = NoCommit => b \notin G /\ In(s.current, G))
  BY UnderIsWhole, ValidOnesAreWhole DEF Fresh, Kept, Whole
<1> HIDE DEF G
<1>2. Kept(new, G) /\ (new = Fail(s) \/ Branched(new, s, b, G))
  <2>1. CASE s.refs[b] = NoCommit
    BY <1>1, <2>1, CheckoutNewKeeps
  <2>2. CASE s.refs[b] # NoCommit
    <3>1. new = Fail(s)
      BY <2>2 DEF CheckoutNewBranch
    <3> QED BY <1>1, <3>1, FailKeeps
  <2> QED BY <2>1, <2>2
<1>3. Sound(t)
  <2>1. CASE new.failed
    BY <1>2, <2>1 DEF Kept
  <2>2. CASE ~ new.failed
    <3>1. Branched(new, s, b, G)
      BY <1>1, <1>2, <2>2, FailKeeps
    <3>2. Listed(new, b) /\ ToSet(new.cache[b].children) = {}
      BY <3>1 DEF Branched, Listed
    <3> QED BY <1>2, <2>2, <3>2, DeleteKeeps DEF Kept
  <2> QED BY <2>1, <2>2
<1> QED BY <1>3, SoundIsKept

LEMMA HeadMoves ==
  ASSUME NEW s, Sound(s), NEW h, NEW u
  PROVE  /\ Sound([s EXCEPT !.head = h]) /\ Sound([s EXCEPT !.current = u])
         /\ Sound([s EXCEPT !.head = h, !.current = u])
BY SoundIsKept, OthersKeep DEF Kept

LEMMA UnbranchKeeps ==
  ASSUME NEW s, Sound(s), NEW t, t = Unbranch(s)
  PROVE  Sound(t)
<1> DEFINE cur == s.current
           off == [s EXCEPT !.head = NoBranch]
           gone == DeleteAllBranchData(off, cur)
           h == s.cache[cur].parent
<1>1. Sound(off) /\ Kept(off, {})
  BY HeadMoves, SoundIsKept
<1>2. t \in {Fail(s), [gone EXCEPT !.head = h]}
  BY DEF Unbranch
<1> HIDE DEF off
<1>3. Kept(gone, {})
  BY <1>1, DeleteDataKeeps
<1> HIDE DEF gone, h
<1>4. Sound([gone EXCEPT !.head = h])
  BY <1>3, HeadMoves DEF Kept
<1>5. Sound(Fail(s))
  BY SoundIsKept
<1> QED BY <1>2, <1>4, <1>5

LEMMA TrunkMoves ==
  ASSUME NEW s, Sound(s), NEW rev
  PROVE  Sound(TrunkAt(s, rev)) /\ SameStacks(TrunkAt(s, rev), s)
<1>1. TrunkAt(s, rev) = WithTip(s, Trunk, rev)
  BY DEF TrunkAt, WithTip
<1>2. Kept(s, {})
  BY SoundIsKept
<1>3. Kept(TrunkAt(s, rev), {}) /\ SameStacks(TrunkAt(s, rev), s)
  BY <1>1, <1>2, TipKeeps
<1> QED BY <1>3 DEF Kept

LEMMA UntrackKeeps ==
  ASSUME NEW s, Fresh(s), NEW b \in Branches, NEW t, t = UntrackBranch(s, b)
  PROVE  Sound(t)
<1> DEFINE kid(c) == c \in ToSet(s.cache[b].children) /\ s.cache[c].result # "BAD_PARENT_NAME"
           stored == [s.meta EXCEPT ![b] = NoMeta]
           new == [c \in Branches |->
                    IF c = b THEN [s.cache[c] EXCEPT !.result = "BAD_PARENT_NAME"]
                    ELSE IF kid(c) THEN [s.cache[c] EXCEPT !.result = "INVALID_PARENT"]
                    ELSE s.cache[c]]
<1>1. CASE ~ Valid(s, b)
  BY <1>1, SoundIsKept DEF UntrackBranch, Fresh
<1>2. CASE Valid(s, b)
  <2>1. t = [s EXCEPT !.meta = stored, !.cache = new]
    BY <1>2 DEF UntrackBranch, Fresh, Sound, IsSession, IsDisk
  <2>2. \A c \in Branches : stored[c] = IF c = b THEN NoMeta ELSE s.meta[c]
    BY DEF Fresh, Sound, IsSession, IsDisk
  <2>3. DOMAIN stored = Branches /\ DOMAIN new = Branches
    BY DEF Fresh, Sound, IsSession, IsDisk
  <2>4. ASSUME NEW c \in Branches
        PROVE  /\ IsEntry(new[c]) /\ new[c].parent = s.cache[c].parent
               /\ new[c].children = s.cache[c].children
               /\ new[c].result = IF c = b THEN "BAD_PARENT_NAME"
                                  ELSE IF kid(c) THEN "INVALID_PARENT" ELSE s.cache[c].result
    BY DEF Fresh, Sound, IsSession, IsCache, IsEntry
  <2>5. IsMeta(NoMeta) /\ NoMeta.parent \notin Branches
    BY BranchNames DEF IsMeta, NoMeta
  <2>6. \A c \in Branches : kid(c) => s.cache[c].result \in Followed
    BY DEF Fresh
  <2> HIDE DEF stored, new, kid
  <2>7. t.meta = stored /\ t.cache = new /\ t.refs = s.refs /\ DOMAIN t = DOMAIN s
    BY <2>1 DEF Fresh, Sound, IsSession
  <2>8. IsSession(t)
    BY <2>2, <2>3, <2>4, <2>5, <2>7 DEF Fresh, Sound, IsSession, IsDisk, IsCache
  <2>9. Named(t)
    BY <2>2, <2>4, <2>6, <2>7 DEF Fresh, Sound, Named, Followed
  <2>10. Lists(t)
    BY <2>4, <2>7 DEF Fresh, Sound, Lists
  <2>11. Loosened(stored, s.meta)
    BY <2>2, <2>5 DEF Loosened
  <2>12. Grounded(t.meta)
    BY <2>7, <2>11, LooseningKeeps DEF Fresh, Sound
  <2> QED BY <2>8, <2>9, <2>10, <2>12 DEF Sound
<1> QED BY <1>1, <1>2

LEMMA FoldKeepKeeps ==
  ASSUME NEW s, Fresh(s), Valid(s, s.current), Valid(s, s.cache[s.current].parent),
         NEW t, t = FoldKeep(s)
  PROVE  Sound(t)
<1> DEFINE cur == s.current
           p == s.cache[cur].parent
           q == s.cache[p].parent
           e == [s.cache[cur] EXCEPT !.parent = q, !.prev = s.cache[p].prev]
           up == UpdateMeta(s, cur, e)
           kids == Without(s.cache[p].children, cur)
           moved == Adopt(up, kids, cur)
           G == Off(s.meta, p)
           H == G \cup {cur}
<1>1. t = DeleteAllBranchData(moved, p)
  BY DEF FoldKeep
<1>2. cur \in Others /\ p \in Branches /\ p # Trunk /\ s.cache[cur].result = "VALID"
  BY DEF Valid, HasResult, Fresh, Others
<1>3. s.meta[cur].parent = p
  BY <1>2 DEF Fresh, Sound, Named, Followed, Others
<1>4. /\ Kept(s, G) /\ In(q, G)
      /\ \A c \in Branches : s.meta[c].parent = p => c \notin G /\ c # p
  BY <1>2, OffValid DEF Fresh
<1>5. IsEntry(e) /\ e.result = "VALID" /\ e.children \in Seq(Branches) /\ q = e.parent
  BY <1>2 DEF Fresh, Sound, Lists, IsSession, IsCache, IsEntry, Others
<1>6. ASSUME NEW i \in DOMAIN kids PROVE kids[i] \notin H
  <2>1. kids[i] \in ToSet(s.cache[p].children) \ {cur}
    BY <1>2, SetOfWithout, IsInItsSet DEF Fresh, Sound, Lists
  <2>2. kids[i] \in Branches /\ s.meta[kids[i]].parent = p
    BY <1>2, <2>1, ChildIsBranch DEF Fresh, Sound, Listed
  <2> QED BY <1>4, <2>1, <2>2
<1>7. cur \in Branches /\ cur \notin G
  BY <1>2, <1>3, <1>4 DEF Others
<1> HIDE DEF p, q, e, kids, G
<1>8. Kept(up, G) /\ (cur \in Others /\ In(q, G) => Whole(up.meta, G \cup {cur}))
  <2>1. up = UpdateMeta(s, cur, e)
    OBVIOUS
  <2> HIDE DEF up, cur
  <2> QED BY <1>4, <1>5, <1>7, <2>1, UpdateKeeps
<1> HIDE DEF up, cur
<1>9. Kept(up, H) /\ In(cur, H)
  BY <1>2, <1>4, <1>8 DEF Kept, In
<1> HIDE DEF H
<1>10. Kept(moved, H)
  BY <1>6, <1>9, AdoptKeeps
<1> HIDE DEF moved
<1> QED BY <1>1, <1>10, DeleteDataKeeps DEF Kept

LEMMA FoldIntoKeeps ==
  ASSUME NEW s, Fresh(s), Valid(s, s.current), Valid(s, s.cache[s.current].parent),
         NEW t, t = FoldInto(s)
  PROVE  Sound(t)
<1> DEFINE cur == s.current
           p == s.cache[cur].parent
           rev == s.cache[cur].rev
           e == [s.cache[p] EXCEPT !.rev = rev]
           out == [s EXCEPT !.refs[p] = rev, !.head = p]
           up == UpdateMeta(out, p, e)
           kids == EveryOther(s.cache[cur].children)
           all == Adopt(up, kids, p)
           on == CheckoutBranch(all, p)
           G == Off(s.meta, cur)
<1>1. t = DeleteAllBranchData(on, cur)
  BY DEF FoldInto
<1>2. cur \in Branches /\ cur # Trunk /\ p \in Branches /\ s.cache[p].result = "VALID"
  BY DEF Valid, HasResult, Fresh
<1>3. s.cache[p].parent = s.meta[p].parent
  BY <1>2 DEF Fresh, Sound, Named, Followed
<1>4. /\ Kept(s, G) /\ In(p, G)
      /\ \A c \in Branches : s.meta[c].parent = cur => c \notin G /\ c # cur
  BY <1>2, OffValid DEF Fresh
<1>5. IsEntry(e) /\ e.result = "VALID" /\ e.children \in Seq(Branches) /\ e.parent = s.cache[p].parent
  BY <1>2 DEF Fresh, Sound, Lists, IsSession, IsCache, IsEntry
<1>6. ASSUME NEW i \in DOMAIN kids PROVE kids[i] \notin G
  <2>1. kids[i] \in ToSet(s.cache[cur].children)
    BY <1>2, EveryOtherIsOfThem DEF Fresh, Sound, Lists
  <2>2. kids[i] \in Branches /\ s.meta[kids[i]].parent = cur
    BY <1>2, <2>1, ChildIsBranch DEF Fresh, Sound, Listed
  <2> QED BY <1>4, <2>2
<1>7. DOMAIN out = DOMAIN s /\ out.cache = s.cache /\ out.meta = s.meta /\ DOMAIN out.refs = Branches
  BY DEF Fresh, Sound, IsSession, IsDisk
<1> HIDE DEF p, e, out, kids, G, rev
<1>8. Kept(out, G)
  BY <1>4, <1>7, OtherRefsKeep
<1>9. Kept(up, G)
  <2>1. e.parent = out.meta[p].parent
    BY <1>3, <1>5, <1>7
  <2>2. up = UpdateMeta(out, p, e)
    OBVIOUS
  <2> HIDE DEF up
  <2> QED BY <1>2, <1>5, <1>8, <2>1, <2>2, UpdateKeeps
<1> HIDE DEF up, cur
<1>10. Kept(all, G)
  BY <1>4, <1>6, <1>9, AdoptKeeps
<1> HIDE DEF all
<1>11. Kept(on, G)
  BY <1>10, CheckoutKeeps
<1> HIDE DEF on
<1> QED BY <1>1, <1>11, DeleteDataKeeps DEF Kept

LEMMA FoldKeeps ==
  ASSUME NEW s, Fresh(s), NEW keep
  PROVE  Sound(FoldCurrentBranch(s, keep))
<1>1. Sound(Fail(s))
  BY SoundIsKept DEF Fresh
<1>2. CASE Valid(s, s.current) /\ Valid(s, s.cache[s.current].parent)
  BY <1>1, <1>2, FoldKeepKeeps, FoldIntoKeeps DEF FoldCurrentBranch
<1> QED BY <1>1, <1>2 DEF FoldCurrentBranch

LEMMA RenameKeeps ==
  ASSUME NEW s, Fresh(s), NEW b \in Branches, NEW t, t = RenameCurrentBranch(s, b)
  PROVE  Sound(t)
<1> DEFINE cur == s.current
           e == s.cache[cur]
           p == e.parent
           out == [s EXCEPT !.refs[b] = s.refs[cur], !.refs[cur] = NoCommit, !.head = b]
           named == UpdateMeta(out, b, e)
           kids == EveryOther(e.children)
           adopted == Adopt(named, kids, b)
           list == Without(adopted.cache[p].children, cur)
           left == [adopted EXCEPT !.cache[p].children = list]
           gone == Forget(left, cur)
           G == Off(s.meta, cur) \cap ValidOnes(s)
           H == G \cup ({b} \cap Others)
<1>1. CASE t \in {s, Fail(s)}
  BY <1>1, SoundIsKept DEF Fresh
<1>2. CASE t \notin {s, Fail(s)}
  <2>1. Valid(s, cur) /\ s.refs[b] = NoCommit /\ t \in {adopted, [gone EXCEPT !.current = b]}
    BY <1>2 DEF RenameCurrentBranch, Fresh, Sound, IsSession
  <2>2. cur \in Branches /\ e.result = "VALID" /\ cur # Trunk /\ ValidOrTrunk(s, p)
    <3>1. cur \in Branches /\ s.cache[cur].result = "VALID"
      BY <2>1 DEF Valid, HasResult
    <3> QED BY <2>1, <3>1 DEF Fresh
  <2>3. /\ Whole(s.meta, Off(s.meta, cur)) /\ In(p, Off(s.meta, cur))
        /\ \A c \in Branches : s.meta[c].parent = cur => c \notin Off(s.meta, cur) /\ c # cur
    BY <2>1, <2>2, OffValid DEF Fresh, Kept
  <2>4. Whole(s.meta, ValidOnes(s)) /\ In(p, ValidOnes(s)) /\ b \notin ValidOnes(s)
    BY <2>1, <2>2, ValidOnesAreWhole DEF Kept
  <2>5. Kept(s, G) /\ In(p, G) /\ b \notin G
    BY <2>3, <2>4, SharedIsWhole DEF Kept, In, Fresh
  <2>6. IsEntry(e) /\ e.children \in Seq(Branches)
    BY <2>2 DEF Fresh, Sound, Lists, IsSession, IsCache
  <2>7. ASSUME NEW i \in DOMAIN kids PROVE kids[i] \notin H
    <3>1. kids[i] \in ToSet(s.cache[cur].children)
      BY <2>2, <2>6, EveryOtherIsOfThem
    <3>2. kids[i] \in Branches /\ s.meta[kids[i]].parent = cur /\ s.refs[kids[i]] # NoCommit
      BY <2>2, <3>1, ChildIsBranch DEF Fresh, Sound, Listed
    <3> QED BY <2>1, <2>3, <3>2
  <2>8. DOMAIN out = DOMAIN s /\ out.cache = s.cache /\ out.meta = s.meta /\ DOMAIN out.refs = Branches
    BY DEF Fresh, Sound, IsSession, IsDisk
  <2> HIDE DEF p, e, out, kids, G
  <2>9. Kept(out, G)
    BY <2>5, <2>8, OtherRefsKeep
  <2>10. Kept(named, G) /\ (b \in Others /\ In(p, G) => Whole(named.meta, G \cup {b}))
    <3>1. named = UpdateMeta(out, b, e) /\ p = e.parent
      BY DEF p
    <3> HIDE DEF named
    <3> QED BY <2>2, <2>5, <2>6, <2>9, <3>1, UpdateKeeps
  <2> HIDE DEF named
  <2>11. Kept(named, H) /\ In(b, H)
    <3>1. CASE b \in Others
      <4>1. H = G \cup {b}
        BY <3>1
      <4> QED BY <2>5, <2>10, <3>1, <4>1 DEF Kept, In
    <3>2. CASE b \notin Others
      <4>1. H = G
        BY <3>2
      <4> QED BY <2>10, <3>2, <4>1 DEF In
    <3> QED BY <3>1, <3>2
  <2> HIDE DEF H
  <2>12. Kept(adopted, H)
    BY <2>7, <2>11, AdoptKeeps
  <2>13. p \in Branches => list \in Seq(Branches)
    BY <2>12, SetOfWithout DEF Kept, Sound, Lists
  <2> HIDE DEF adopted, list
  <2>14. Kept(left, H)
    BY <2>12, <2>13, OtherListKeeps
  <2> HIDE DEF left
  <2>15. Sound(gone)
    BY <2>14, ForgetKeeps DEF Kept
  <2> HIDE DEF gone
  <2>16. Sound([gone EXCEPT !.current = b])
    BY <2>15, HeadMoves
  <2> QED BY <2>1, <2>12, <2>16 DEF Kept
<1> QED BY <1>1, <1>2

\* Names that are told apart are not more than the branches.
LEMMA NamesAreFew ==
  ASSUME NEW n \in Nat, NEW names \in [1..n -> Branches], IsInjective(names)
  PROVE  n <= Cardinality(Branches) /\ names \in Seq(Branches) /\ Len(names) = n
<1>1. names \in Injection(1..n, Branches)
  BY DEF Injection
<1>2. Cardinality(1..n) <= Cardinality(Branches)
  BY <1>1, FS_Injection, BranchNames
<1>3. Cardinality(1..n) = n
  BY FS_Interval
<1> QED BY <1>2, <1>3

\* The names up to i, without trunk.
UpTo(names, i) == {names[j] : j \in DOMAIN names \cap (1..i)} \cap Others

LEMMA StackStepKeeps ==
  ASSUME NEW G, NEW u, Kept(u, G), NEW s, NEW b, NEW names, NEW revs, NEW i,
         names[i] \in Branches, names[i] \notin G,
         In(IF i = 1 THEN s.cache[b].parent ELSE names[i-1], G),
         NEW t, t = StackStep(u, s, b, names, revs, i)
  PROVE  Kept(t, G) /\ (names[i] \in Others => Whole(t.meta, G \cup {names[i]}))
<1> DEFINE name == names[i]
           q == IF i = 1 THEN s.cache[b].parent ELSE names[i-1]
           v == [u EXCEPT !.refs[name] = revs[i]]
           e == [result |-> "VALID", parent |-> q,
                 prev |-> IF i = 1 THEN s.cache[b].prev ELSE revs[i-1],
                 rev |-> revs[i], children |-> <<>>]
<1>1. t = UpdateMeta(v, name, e)
  BY DEF StackStep
<1>2. name \in Branches /\ name \notin G /\ In(q, G)
  OBVIOUS
<1> HIDE DEF name, q
<1>3. DOMAIN v = DOMAIN u /\ v.cache = u.cache /\ v.meta = u.meta /\ DOMAIN v.refs = Branches
  BY DEF Kept, Sound, IsSession, IsDisk
<1>4. IsEntry(e) /\ e.result = "VALID" /\ e.children \in Seq(Branches) /\ q = e.parent
  BY DEF IsEntry
<1> HIDE DEF v, e
<1>5. Kept(v, G)
  BY <1>3, OtherRefsKeep
<1>6. Kept(t, G) /\ (name \in Others /\ In(q, G) => Whole(t.meta, G \cup {name}))
  BY <1>1, <1>2, <1>4, <1>5, UpdateKeeps
<1> QED BY <1>2, <1>6 DEF name

LEMMA StackedKeeps ==
  ASSUME NEW G, NEW s, Kept(s, G), NEW b, In(s.cache[b].parent, G),
         NEW names, IsInjective(names),
         \A i \in DOMAIN names : /\ names[i] \in Branches /\ names[i] \notin G
                                 /\ i # 1 => i - 1 \in DOMAIN names,
         NEW revs, NEW t, t = Stacked(s, b, names, revs)
  PROVE  Kept(t, G \cup UpTo(names, Cardinality(Branches)))
<1> DEFINE n == Cardinality(Branches)
           f == CHOOSE g : IsStacked(g, s, b, names, revs, n)
           H(i) == G \cup UpTo(names, i)
<1>1. n \in Nat
  BY CountIsNumber
<1>2. IsStacked(f, s, b, names, revs, n)
  BY <1>1, StackedExists
<1>3. t = f[n]
  BY DEF Stacked, IsStacked, StackStep
<1> HIDE DEF n, f
<1> DEFINE T == {i \in 0..n : ~ Kept(f[i], H(i))}
<1>4. ASSUME NEW i \in T PROVE i # 0 /\ i - 1 \in T
  <2>1. f[0] = s
    BY <1>1, <1>2 DEF IsStacked
  <2>2. Kept(f[0], H(0))
    <3>1. H(0) = G
      BY DEF UpTo
    <3> QED BY <2>1, <3>1
  <2>3. i # 0 /\ i - 1 \in 0..n
    <3> HIDE DEF H
    <3> QED BY <1>1, <2>2
  <2>4. f[i] = IF i \notin DOMAIN names THEN f[i-1] ELSE StackStep(f[i-1], s, b, names, revs, i)
    BY <1>2, <2>3 DEF IsStacked
  <2>5. 1..i = (1..(i-1)) \cup {i}
    BY <1>1, <2>3
  <2> DEFINE K == H(i-1)
             u == f[i-1]
  <2>6. ASSUME Kept(u, K) PROVE Kept(f[i], H(i))
    <3>1. CASE i \notin DOMAIN names
      <4>1. H(i) = K
        BY <2>5, <3>1 DEF UpTo
      <4> QED BY <2>4, <2>6, <3>1, <4>1
    <3>2. CASE i \in DOMAIN names
      <4>1. H(i) = K \cup ({names[i]} \cap Others)
        BY <2>5, <3>2 DEF UpTo
      <4>2. names[i] \in Branches /\ names[i] \notin K
        <5>1. \A j \in DOMAIN names \cap (1..(i-1)) : j # i
          BY <1>1, <2>3
        <5>2. \A j \in DOMAIN names \cap (1..(i-1)) : names[j] # names[i]
          BY <3>2, <5>1 DEF IsInjective
        <5> QED BY <3>2, <5>2 DEF UpTo
      <4>3. In(IF i = 1 THEN s.cache[b].parent ELSE names[i-1], K)
        <5>1. CASE i = 1
          BY <5>1 DEF In
        <5>2. CASE i # 1
          <6>1. i - 1 \in DOMAIN names \cap (1..(i-1))
            BY <1>1, <2>3, <3>2, <5>2
          <6> QED BY <5>2, <6>1 DEF In, UpTo
        <5> QED BY <5>1, <5>2
      <4>4. f[i] = StackStep(u, s, b, names, revs, i)
        BY <2>4, <3>2
      <4> DEFINE c == names[i]
      <4> HIDE DEF K, u
      <4>5. Kept(f[i], K) /\ (names[i] \in Others => Whole(f[i].meta, K \cup {names[i]}))
        BY <2>6, <4>2, <4>3, <4>4, StackStepKeeps
      <4>6. CASE c \in Others
        <5>1. H(i) = K \cup {c}
          BY <4>1, <4>6
        <5> QED BY <4>5, <4>6, <5>1 DEF Kept
      <4>7. CASE c \notin Others
        <5>1. H(i) = K
          BY <4>1, <4>7
        <5> QED BY <4>5, <5>1
      <4> QED BY <4>6, <4>7
    <3> QED BY <3>1, <3>2
  <2> QED BY <2>3, <2>6
<1>5. T \subseteq Nat
  BY <1>1
<1>6. T = {}
  <2> HIDE DEF T
  <2> QED BY <1>4, <1>5, EveryNumber
<1>7. n \in 0..n
  BY <1>1
<1> QED BY <1>3, <1>6, <1>7 DEF n

LEMMA SplitKeeps ==
  ASSUME NEW s, Fresh(s), Valid(s, s.current),
         NEW count \in Nat, NEW names \in SplitNames(s, count), NEW revs,
         NEW t, t = ApplySplitToCommits(s, names, revs)
  PROVE  Sound(t)
<1> DEFINE b == s.current
           kids == s.cache[b].children
           p == s.cache[b].parent
           top == IF names = <<>> THEN p ELSE Last(names)
           off == [s EXCEPT !.head = NoBranch]
           up == Stacked(off, b, names, revs)
           walk == IF b \in ToSet(names) THEN kids ELSE EveryOther(kids)
           all == IF top = b THEN up ELSE Adopt(up, walk, top)
           left == IF b \in ToSet(names) THEN all ELSE DeleteAllBranchData(all, b)
           G == Off(s.meta, b) \cap ValidOnes(s)
           H == G \cup UpTo(names, Cardinality(Branches))
<1>1. t \in {left, [left EXCEPT !.head = top, !.current = top]}
  BY DEF ApplySplitToCommits
<1>2. b \in Branches /\ b # Trunk /\ ValidOrTrunk(s, p)
  <2>1. b \in Branches /\ s.cache[b].result = "VALID"
    BY DEF Valid, HasResult
  <2> QED BY <2>1 DEF Fresh
<1>3. /\ names \in [1..count -> {b} \cup {c \in Branches : ~ Exists(s, c)}] /\ IsInjective(names)
      /\ names \in [1..count -> Branches]
  BY <1>2 DEF SplitNames
<1>4. count <= Cardinality(Branches) /\ names \in Seq(Branches) /\ Len(names) = count
  BY <1>3, NamesAreFew
<1>5. /\ Whole(s.meta, Off(s.meta, b)) /\ In(p, Off(s.meta, b)) /\ b \notin Off(s.meta, b)
      /\ \A c \in Branches : s.meta[c].parent = b => c \notin Off(s.meta, b) /\ c # b
  BY <1>2, OffValid DEF Fresh, Kept
<1>6. Whole(s.meta, ValidOnes(s)) /\ In(p, ValidOnes(s))
  BY <1>2, ValidOnesAreWhole DEF Kept
<1>7. Kept(s, G) /\ In(p, G)
  BY <1>5, <1>6, SharedIsWhole DEF Kept, In, Fresh
<1>8. ASSUME NEW i \in DOMAIN names
      PROVE  names[i] \in Branches /\ names[i] \notin G /\ (i # 1 => i - 1 \in DOMAIN names)
  <2>1. names[i] = b \/ (names[i] \in Branches /\ ~ Exists(s, names[i]))
    BY <1>3
  <2>2. names[i] \in ValidOnes(s) => Exists(s, names[i])
    BY DEF ValidOnes, Valid, Exists, HasResult, Results
  <2> QED BY <1>2, <1>3, <1>5, <2>1, <2>2
<1>9. Kept(off, G) /\ off.cache = s.cache
  <2>1. off.cache = s.cache
    BY DEF Fresh, Sound, IsSession
  <2> QED BY <1>7, <2>1, OthersKeep
<1>10. Kept(up, H)
  <2>1. up = Stacked(off, b, names, revs) /\ In(off.cache[b].parent, G)
    BY <1>7, <1>9
  <2> HIDE DEF up, off, b, G
  <2> QED BY <1>3, <1>8, <1>9, <2>1, StackedKeeps
<1>11. In(top, H)
  <2>1. CASE names = <<>>
    BY <1>7, <2>1 DEF In
  <2>2. CASE names # <<>>
    <3>1. count \in DOMAIN names /\ top = names[count]
      BY <1>4, <2>2 DEF Last
    <3>2. count \in 1..Cardinality(Branches)
      BY <1>4, <3>1, CountIsNumber
    <3> QED BY <3>1, <3>2 DEF In, UpTo
  <2> QED BY <2>1, <2>2
<1>12. ASSUME NEW i \in DOMAIN walk PROVE walk[i] \notin H
  <2>1. walk[i] \in ToSet(kids)
    BY <1>2, EveryOtherIsOfThem, IsInItsSet DEF Fresh, Sound, Lists
  <2> DEFINE c == walk[i]
  <2>2. c \in Branches /\ s.meta[c].parent = b /\ s.cache[c].result \in Followed
    BY <1>2, <2>1, ChildIsBranch DEF Fresh, Sound, Listed
  <2>3. Exists(s, c) /\ c # b /\ c \notin G
    BY <1>5, <2>2 DEF Exists, HasResult, Followed, Results
  <2> HIDE DEF c
  <2>4. \A j \in DOMAIN names : names[j] # c
    BY <1>3, <2>3
  <2>5. c \notin UpTo(names, Cardinality(Branches))
    BY <2>4 DEF UpTo
  <2> QED BY <2>3, <2>5 DEF c
<1> HIDE DEF up, walk, top, H, off
<1>13. Kept(all, H)
  BY <1>10, <1>11, <1>12, AdoptKeeps
<1> HIDE DEF all
<1>14. Kept(left, H)
  BY <1>13, DeleteDataKeeps
<1> HIDE DEF left
<1>15. Sound([left EXCEPT !.head = top, !.current = top])
  BY <1>14, HeadMoves DEF Kept
<1> QED BY <1>1, <1>14, <1>15 DEF Kept

LEMMA ReorderedKeeps ==
  ASSUME NEW s, Sound(s), NEW names, IsInjective(names),
         \A i \in DOMAIN names : i # 1 => i - 1 \in DOMAIN names,
         NEW t, t = Reordered(s, names)
  PROVE  Sound(t)
<1> DEFINE n == Cardinality(Branches)
           f == CHOOSE g : IsReordered(g, s, names, n)
           Right(u, i) == Sound(u) /\ (u.failed \/ Whole(u.meta, UpTo(names, i)))
<1>1. n \in Nat
  BY CountIsNumber
<1>2. IsReordered(f, s, names, n)
  BY <1>1, ReorderedExists
<1>3. t = f[n]
  BY DEF Reordered, IsReordered
<1> HIDE DEF n, f
<1> DEFINE T == {i \in 0..n : ~ Right(f[i], i)}
<1>4. ASSUME NEW i \in T PROVE i # 0 /\ i - 1 \in T
  <2>1. f[0] = s
    BY <1>1, <1>2 DEF IsReordered
  <2>2. UpTo(names, 0) = {}
    BY DEF UpTo
  <2>3. i # 0 /\ i - 1 \in 0..n
    BY <1>1, <2>1, <2>2 DEF Whole
  <2>4. 1..i = (1..(i-1)) \cup {i}
    BY <1>1, <2>3
  <2> DEFINE u == f[i-1]
             v == f[i]
             b == names[i]
             q == IF i = 1 THEN Trunk ELSE names[i-1]
             K == IF u.failed THEN {} ELSE UpTo(names, i-1)
  <2>5. v = IF i \in DOMAIN names THEN SetParent(u, b, q) ELSE u
    BY <1>2, <2>3 DEF IsReordered
  <2>6. ASSUME Right(u, i-1) PROVE Right(v, i)
    <3>1. CASE i \notin DOMAIN names
      <4>1. UpTo(names, i) = UpTo(names, i-1)
        BY <2>4, <3>1 DEF UpTo
      <4> QED BY <2>5, <2>6, <3>1, <4>1
    <3>2. CASE i \in DOMAIN names
      <4>1. UpTo(names, i) = UpTo(names, i-1) \cup ({b} \cap Others)
        BY <2>4, <3>2 DEF UpTo
      <4>2. b \notin UpTo(names, i-1)
        <5>1. \A j \in DOMAIN names \cap (1..(i-1)) : j # i
          BY <1>1, <2>3
        <5>2. \A j \in DOMAIN names \cap (1..(i-1)) : names[j] # b
          BY <3>2, <5>1 DEF IsInjective
        <5> QED BY <5>2 DEF UpTo
      <4>3. In(q, UpTo(names, i-1))
        <5>1. CASE i = 1
          BY <5>1 DEF In, Others
        <5>2. CASE i # 1
          <6>1. i - 1 \in DOMAIN names \cap (1..(i-1))
            BY <1>1, <2>3, <3>2, <5>2
          <6> QED BY <5>2, <6>1 DEF In, UpTo
        <5> QED BY <5>1, <5>2
      <4>4. v = SetParent(u, b, q)
        BY <2>5, <3>2
      <4>5. Kept(u, K) /\ (~ u.failed => K = UpTo(names, i-1))
        BY <2>6, SoundIsKept DEF Kept
      <4> HIDE DEF u, v, b, q, K
      <4>6. /\ Kept(v, K) /\ Onward(v, u)
            /\ v.failed = TRUE \/ (b \in Branches /\ (b \in Others => Whole(v.meta, K \cup {b})))
        BY <4>2, <4>3, <4>4, <4>5, SetParentKeeps
      <4>7. CASE u.failed
        BY <4>6, <4>7 DEF Kept, Onward
      <4>8. CASE ~ u.failed /\ b \in Others
        <5>1. UpTo(names, i) = K \cup {b}
          BY <4>1, <4>5, <4>8
        <5> QED BY <4>6, <4>8, <5>1 DEF Kept
      <4>9. CASE ~ u.failed /\ b \notin Others
        <5>1. UpTo(names, i) = K
          BY <4>1, <4>5, <4>9
        <5> QED BY <4>6, <5>1 DEF Kept
      <4> QED BY <4>7, <4>8, <4>9
    <3> QED BY <3>1, <3>2
  <2> QED BY <2>3, <2>6
<1>5. T \subseteq Nat
  BY <1>1
<1>6. T = {}
  <2> HIDE DEF T
  <2> QED BY <1>4, <1>5, EveryNumber
<1>7. n \in 0..n
  BY <1>1
<1> QED BY <1>3, <1>6, <1>7

----------------------------------------------------------------------------
(***************************************************************************)
(* What is above a branch                                                  *)
(***************************************************************************)
MembersOf(seqs) == UNION {ToSet(seqs[i]) : i \in DOMAIN seqs}

LEMMA SetOfConcatenation ==
  ASSUME NEW V, NEW a \in Seq(V), NEW b \in Seq(V)
  PROVE  a \o b \in Seq(V) /\ ToSet(a \o b) = ToSet(a) \cup ToSet(b)
<1>1. /\ a \o b \in Seq(V) /\ Len(a \o b) = Len(a) + Len(b) /\ DOMAIN (a \o b) = 1..(Len(a) + Len(b))
      /\ \A i \in 1..(Len(a) + Len(b)) : (a \o b)[i] = IF i <= Len(a) THEN a[i] ELSE b[i - Len(a)]
      /\ Len(a) \in Nat /\ Len(b) \in Nat /\ DOMAIN a = 1..Len(a) /\ DOMAIN b = 1..Len(b)
  OBVIOUS
<1> DEFINE c == a \o b
           m == Len(a)
           n == Len(b)
<1> HIDE DEF c, m, n
<1>2. /\ m \in Nat /\ n \in Nat /\ DOMAIN c = 1..(m + n) /\ DOMAIN a = 1..m /\ DOMAIN b = 1..n
      /\ \A i \in 1..(m + n) : c[i] = IF i <= m THEN a[i] ELSE b[i - m]
  BY <1>1 DEF c, m, n
<1>3. \A i \in 1..m : i \in 1..(m + n) /\ c[i] = a[i]
  BY <1>2
<1>4. \A i \in 1..n : i + m \in 1..(m + n) /\ c[i + m] = b[i]
  BY <1>2
<1>5. \A i \in 1..(m + n) : c[i] \in ToSet(a) \cup ToSet(b)
  <2> TAKE i \in 1..(m + n)
  <2>1. CASE i <= m
    BY <1>2, <2>1 DEF ToSet
  <2>2. CASE ~ (i <= m)
    <3>1. i - m \in 1..n /\ c[i] = b[i - m]
      BY <1>2, <2>2
    <3> QED BY <1>2, <3>1 DEF ToSet
  <2> QED BY <2>1, <2>2
<1>6. ToSet(c) \subseteq ToSet(a) \cup ToSet(b)
  <2>1. ToSet(c) = {c[i] : i \in 1..(m + n)}
    BY <1>2 DEF ToSet
  <2> QED BY <1>5, <2>1, Zenon
<1>7. ToSet(a) \subseteq ToSet(c)
  <2> SUFFICES ASSUME NEW i \in 1..m PROVE a[i] \in ToSet(c)
    BY <1>2, Zenon DEF ToSet
  <2>1. i \in 1..(m + n) /\ c[i] = a[i]
    BY <1>3
  <2> QED BY <1>2, <2>1, Zenon DEF ToSet
<1>8. ToSet(b) \subseteq ToSet(c)
  <2> SUFFICES ASSUME NEW i \in 1..n PROVE b[i] \in ToSet(c)
    BY <1>2, Zenon DEF ToSet
  <2>1. i + m \in 1..(m + n) /\ c[i + m] = b[i]
    BY <1>4
  <2> QED BY <1>2, <2>1, Zenon DEF ToSet
<1>9. ToSet(c) = ToSet(a) \cup ToSet(b)
  BY <1>6, <1>7, <1>8
<1> QED BY <1>1, <1>9 DEF c

LEMMA SetOfFlattened ==
  ASSUME NEW V, NEW seqs \in Seq(Seq(V))
  PROVE  FlattenSeq(seqs) \in Seq(V) /\ ToSet(FlattenSeq(seqs)) = MembersOf(seqs)
<1> DEFINE n == Len(seqs)
           W == Seq(V)
           Is(f) == f = [i \in 1..n |-> IF i = 1 THEN seqs[i] ELSE f[i-1] \o seqs[i]]
           Upto(i) == UNION {ToSet(seqs[j]) : j \in 1..i}
<1>1. n \in Nat /\ DOMAIN seqs = 1..n /\ \A i \in 1..n : seqs[i] \in W
  OBVIOUS
<1>2. CASE n = 0
  <2>1. seqs = <<>> /\ FlattenSeq(seqs) = seqs
    BY <1>2 DEF FlattenSeq
  <2>2. seqs \in Seq(V) /\ DOMAIN seqs = {}
    BY <1>1, <1>2, <2>1
  <2>3. ToSet(seqs) = {} /\ MembersOf(seqs) = {}
    BY <2>2 DEF ToSet, MembersOf
  <2> QED BY <2>1, <2>2, <2>3
<1>3. CASE n # 0
  <2>1. FlattenSeq(seqs) = (CHOOSE h : Is(h))[n]
    BY <1>3 DEF FlattenSeq
  <2> DEFINE m == n - 1
             step == [i \in 1..m |-> [v \in W |-> v \o seqs[i+1]]]
  <2>2. m \in Nat /\ seqs[1] \in W /\ \A i \in 1..m : seqs[i+1] \in W /\ i \in 1..n
    BY <1>1, <1>3
  <2>3. \A v \in W, u \in W : v \o u \in W /\ ToSet(v \o u) = ToSet(v) \cup ToSet(u)
    BY SetOfConcatenation
  <2> HIDE DEF W, n
  <2>4. StaysIn(m, W, step) /\ \A i \in 1..m : \A v \in W : step[i][v] = v \o seqs[i+1]
    BY <2>2, <2>3 DEF StaysIn
  <2> HIDE DEF step
  <2>5. HasValues(m, W, seqs[1], step)
    BY <2>2, <2>4, RecursionExists
  <2>6. PICK g \in [0..m -> W] : g[0] = seqs[1] /\ \A i \in 1..m : g[i] = step[i][g[i-1]]
    BY <2>5 DEF HasValues
  <2>7. \A i \in 1..m : g[i] = g[i-1] \o seqs[i+1]
    <3> TAKE i \in 1..m
    <3>1. g[i-1] \in W
      BY <2>2, <2>6
    <3> QED BY <2>4, <2>6, <3>1
  <2> DEFINE h == [i \in 1..n |-> g[i-1]]
  <2>8. ASSUME NEW i \in 1..n PROVE h[i] = IF i = 1 THEN seqs[i] ELSE h[i-1] \o seqs[i]
    <3>1. CASE i = 1
      BY <2>6, <3>1
    <3>2. CASE i # 1
      <4>1. i - 1 \in 1..m /\ i - 1 \in 1..n /\ (i - 1) + 1 = i
        BY <1>1, <3>2
      <4>2. h[i] = g[i-1] /\ h[i-1] = g[(i-1)-1]
        BY <4>1
      <4> HIDE DEF h
      <4>3. g[i-1] = g[(i-1)-1] \o seqs[(i-1)+1]
        BY <2>7, <4>1
      <4> QED BY <3>2, <4>1, <4>2, <4>3
    <3> QED BY <3>1, <3>2
  <2>9. Is(h)
    BY <2>8
  <2> DEFINE f == CHOOSE k : Is(k)
  <2>10. Is(f)
    BY <2>9
  <2> HIDE DEF f, h
  <2>11. \A i \in 1..n : f[i] = IF i = 1 THEN seqs[i] ELSE f[i-1] \o seqs[i]
    BY <2>10
  <2> HIDE DEF Is
  <2> DEFINE T == {i \in 0..m : ~ (f[i+1] \in W /\ ToSet(f[i+1]) = Upto(i+1))}
  <2>12. ASSUME NEW i \in T PROVE i # 0 /\ i - 1 \in T
    <3>1. i # 0
      <4>1. f[1] = seqs[1] /\ Upto(1) = ToSet(seqs[1])
        BY <1>1, <1>3, <2>11
      <4> QED BY <2>2, <4>1
    <3>a. i \in 0..m /\ n = m + 1 /\ m \in Nat
      BY <1>1, <2>2
    <3>b. 1..(i + 1) = (1..i) \cup {i + 1}
      BY <3>a
    <3>c. i - 1 \in 0..m /\ i + 1 \in 1..n /\ i + 1 # 1 /\ (i + 1) - 1 = i /\ (i - 1) + 1 = i
      <4> HIDE DEF m, T, Upto
      <4> QED BY <3>a, <3>1
    <3>2. /\ i - 1 \in 0..m /\ i + 1 \in 1..n /\ i + 1 # 1 /\ (i + 1) - 1 = i /\ (i - 1) + 1 = i
          /\ 1..(i + 1) = (1..i) \cup {i + 1}
      BY <3>b, <3>c
    <3>d. f[i+1] = f[i] \o seqs[i+1]
      <4> HIDE DEF Upto, T, m
      <4> QED BY <2>11, <3>2
    <3>e. Upto(i+1) = Upto(i) \cup ToSet(seqs[i+1])
      <4>1. Upto(i+1) = UNION {ToSet(seqs[j]) : j \in (1..i) \cup {i + 1}}
        BY <3>2, Zenon
      <4> QED BY <4>1, Zenon
    <3>3. f[i+1] = f[i] \o seqs[i+1] /\ Upto(i+1) = Upto(i) \cup ToSet(seqs[i+1])
      BY <3>d, <3>e
    <3>4. ASSUME f[i] \in W, ToSet(f[i]) = Upto(i) PROVE FALSE
      <4> HIDE DEF Upto
      <4> QED BY <1>1, <2>3, <3>2, <3>3, <3>4
    <3> HIDE DEF Upto
    <3> QED BY <3>1, <3>2, <3>4
  <2>13. T \subseteq Nat
    BY <2>2
  <2>14. T = {}
    <3> HIDE DEF T
    <3> QED BY <2>12, <2>13, EveryNumber
  <2>15. m \in 0..m /\ m + 1 = n
    BY <1>1, <2>2
  <2>16. f[n] \in W /\ ToSet(f[n]) = Upto(n)
    BY <2>14, <2>15
  <2>17. Upto(n) = MembersOf(seqs)
    BY <1>1 DEF MembersOf
  <2> QED BY <2>1, <2>16, <2>17 DEF f, W
<1> QED BY <1>2, <1>3

\* The children of c, and what w has above them.
OneAbove(s, w, c) == UNION {{k} \cup w[k] : k \in ToSet(GetChildren(s, c))}

\* Up to n steps above a branch.
IsAbove(up, s, n) ==
  /\ DOMAIN up = 0..n
  /\ \A c \in Branches : up[0][c] = {}
  /\ \A i \in 1..n : \A c \in Branches : up[i][c] = OneAbove(s, up[i-1], c)

LEMMA KidsAreBranches ==
  ASSUME NEW s, Lists(s), NEW c \in Branches
  PROVE  /\ GetChildren(s, c) \in Seq(Branches)
         /\ ToSet(GetChildren(s, c)) = {k \in ToSet(s.cache[c].children) : Valid(s, k)}
         /\ ToSet(GetChildren(s, c)) \subseteq Branches
<1>1. s.cache[c].children \in Seq(Branches) /\ ToSet(s.cache[c].children) \subseteq Branches
  BY DEF Lists, ToSet
<1> QED BY <1>1, SetOfAmong DEF GetChildren

\* The lists that RecursiveChildren makes one step longer.
Farther(s, v) ==
  [c \in Branches |->
    LET kids == GetChildren(s, c)
    IN  FlattenSeq([i \in DOMAIN kids |-> <<kids[i]>> \o v[kids[i]]])]

LEMMA FartherIsAbove ==
  ASSUME NEW s, Lists(s), NEW v \in [Branches -> Seq(Branches)],
         NEW w, \A k \in Branches : w[k] = ToSet(v[k])
  PROVE  /\ Farther(s, v) \in [Branches -> Seq(Branches)]
         /\ \A c \in Branches : ToSet(Farther(s, v)[c]) = OneAbove(s, w, c)
<1> SUFFICES ASSUME NEW c \in Branches
             PROVE  /\ Farther(s, v)[c] \in Seq(Branches)
                    /\ ToSet(Farther(s, v)[c]) = OneAbove(s, w, c)
  BY DEF Farther
<1> DEFINE kids == GetChildren(s, c)
           seqs == [i \in DOMAIN kids |-> <<kids[i]>> \o v[kids[i]]]
<1>1. kids \in Seq(Branches)
  BY KidsAreBranches
<1>2. Farther(s, v)[c] = FlattenSeq(seqs)
  BY DEF Farther
<1> HIDE DEF kids
<1>3. ASSUME NEW i \in DOMAIN kids
      PROVE  /\ kids[i] \in Branches
             /\ <<kids[i]>> \o v[kids[i]] \in Seq(Branches)
             /\ ToSet(<<kids[i]>> \o v[kids[i]]) = {kids[i]} \cup ToSet(v[kids[i]])
  <2> DEFINE one == <<kids[i]>>
  <2>1. kids[i] \in Branches /\ v[kids[i]] \in Seq(Branches)
    BY <1>1
  <2>2. one \in Seq(Branches) /\ DOMAIN one = {1} /\ one[1] = kids[i]
    BY <2>1
  <2> HIDE DEF one
  <2>3. ToSet(one) = {kids[i]}
    BY <2>2 DEF ToSet
  <2>4. one \o v[kids[i]] \in Seq(Branches) /\ ToSet(one \o v[kids[i]]) = ToSet(one) \cup ToSet(v[kids[i]])
    BY <2>1, <2>2, SetOfConcatenation
  <2> QED BY <2>1, <2>3, <2>4 DEF one
<1>4. seqs \in Seq(Seq(Branches)) /\ DOMAIN seqs = DOMAIN kids
  <2>1. DOMAIN kids = 1..Len(kids) /\ Len(kids) \in Nat
    BY <1>1
  <2> DEFINE m == Len(kids)
  <2> HIDE DEF m
  <2>2. m \in Nat /\ seqs \in [1..m -> Seq(Branches)]
    BY <1>3, <2>1 DEF m
  <2> HIDE DEF seqs
  <2>3. seqs \in Seq(Seq(Branches)) /\ DOMAIN seqs = 1..m
    BY <2>2
  <2> QED BY <2>1, <2>3 DEF m
<1>5. \A i \in DOMAIN kids : ToSet(seqs[i]) = {kids[i]} \cup ToSet(v[kids[i]])
  BY <1>3
<1> HIDE DEF seqs
<1>6. FlattenSeq(seqs) \in Seq(Branches) /\ ToSet(FlattenSeq(seqs)) = MembersOf(seqs)
  BY <1>4, SetOfFlattened
<1>a. \A i \in DOMAIN kids : kids[i] \in ToSet(kids) /\ w[kids[i]] = ToSet(v[kids[i]])
  BY <1>3 DEF ToSet
<1>b. \A k \in ToSet(kids) : \E i \in DOMAIN kids : k = kids[i]
  BY DEF ToSet
<1>7. MembersOf(seqs) = UNION {{k} \cup w[k] : k \in ToSet(kids)}
  <2>1. ASSUME NEW x \in MembersOf(seqs) PROVE \E k \in ToSet(kids) : x \in {k} \cup w[k]
    <3>1. PICK i \in DOMAIN kids : x \in ToSet(seqs[i])
      BY <1>4 DEF MembersOf
    <3>2. kids[i] \in ToSet(kids) /\ x \in {kids[i]} \cup w[kids[i]]
      BY <1>5, <1>a, <3>1
    <3> QED BY <3>2
  <2>2. ASSUME NEW k \in ToSet(kids), NEW x \in {k} \cup w[k] PROVE x \in MembersOf(seqs)
    <3>1. PICK i \in DOMAIN kids : k = kids[i]
      BY <1>b
    <3>2. x \in ToSet(seqs[i])
      BY <1>5, <1>a, <3>1
    <3> QED BY <1>4, <3>2 DEF MembersOf
  <2> QED BY <2>1, <2>2
<1> QED BY <1>2, <1>6, <1>7 DEF kids, OneAbove

\* What RecursiveChildren lists is what so many steps reach.
AreAbove(s) ==
  \E up : /\ IsAbove(up, s, Cardinality(Branches))
          /\ \A b \in Branches : ToSet(RecursiveChildren(s, b)) = up[Cardinality(Branches)][b]

LEMMA ListedAreAbove ==
  ASSUME NEW s, Lists(s)
  PROVE  AreAbove(s)
<1> DEFINE n == Cardinality(Branches)
           W == [Branches -> Seq(Branches)]
           first == [c \in Branches |-> <<>>]
           Is(f) == f = [i \in 0..n |->
                          [c \in Branches |->
                            IF i = 0 THEN <<>>
                            ELSE LET kids == GetChildren(s, c)
                                 IN  FlattenSeq([j \in DOMAIN kids |-> <<kids[j]>> \o f[i-1][kids[j]]])]]
           step == [i \in 1..n |-> [v \in W |-> Farther(s, v)]]
<1>1. n \in Nat
  BY CountIsNumber
<1>2. first \in W
  OBVIOUS
<1>3. \A b \in Branches : RecursiveChildren(s, b) = (CHOOSE h : Is(h))[n][b]
  BY DEF RecursiveChildren
<1>4. \A v \in W : Farther(s, v) \in W
  <2> TAKE v \in W
  <2> DEFINE w == [k \in Branches |-> ToSet(v[k])]
  <2>1. \A k \in Branches : w[k] = ToSet(v[k])
    OBVIOUS
  <2> HIDE DEF w
  <2> QED BY <2>1, FartherIsAbove
<1> HIDE DEF n, W
<1>5. StaysIn(n, W, step) /\ \A i \in 1..n : \A v \in W : step[i][v] = Farther(s, v)
  BY <1>4 DEF StaysIn
<1>a. first = [c \in Branches |-> <<>>]
  OBVIOUS
<1> HIDE DEF step, first
<1>6. HasValues(n, W, first, step)
  BY <1>1, <1>2, <1>5, RecursionExists
<1>7. PICK g \in [0..n -> W] : g[0] = first /\ \A i \in 1..n : g[i] = step[i][g[i-1]]
  BY <1>6 DEF HasValues
<1>8. ASSUME NEW f, f = [i \in 0..n |-> f[i]]
      PROVE  Is(f) <=> f[0] = first /\ \A i \in 1..n : f[i] = Farther(s, f[i-1])
  <2>1. \A i \in 0..n : i # 0 => i \in 1..n
    BY <1>1
  <2>2. \A i \in 1..n : i \in 0..n /\ i # 0
    BY <1>1
  <2>3. 0 \in 0..n
    BY <1>1
  <2> DEFINE val(i) == [c \in Branches |->
                         IF i = 0 THEN <<>>
                         ELSE LET kids == GetChildren(s, c)
                              IN  FlattenSeq([j \in DOMAIN kids |-> <<kids[j]>> \o f[i-1][kids[j]]])]
  <2>4. val(0) = first
    BY <1>a
  <2>5. \A i \in 1..n : val(i) = Farther(s, f[i-1])
    BY <2>2 DEF Farther
  <2>6. Is(f) <=> f = [i \in 0..n |-> val(i)]
    OBVIOUS
  <2> HIDE DEF Is, val
  <2>7. f = [i \in 0..n |-> val(i)] <=> \A i \in 0..n : f[i] = val(i)
    BY <1>8, Zenon
  <2> QED BY <2>1, <2>2, <2>3, <2>4, <2>5, <2>6, <2>7
<1>9. Is(g)
  <2>1. \A i \in 1..n : g[i] = Farther(s, g[i-1])
    <3> TAKE i \in 1..n
    <3>1. g[i-1] \in W
      BY <1>1, <1>7
    <3> QED BY <1>5, <1>7, <3>1
  <2>2. g = [i \in 0..n |-> g[i]]
    BY <1>7
  <2> HIDE DEF Is
  <2> QED BY <1>7, <1>8, <2>1, <2>2
<1> DEFINE f == CHOOSE h : Is(h)
<1>10. Is(f)
  BY <1>9
<1>11. f = [i \in 0..n |-> f[i]]
  <2> DEFINE v(i) == [c \in Branches |->
                            IF i = 0 THEN <<>>
                            ELSE LET kids == GetChildren(s, c)
                                 IN  FlattenSeq([j \in DOMAIN kids |-> <<kids[j]>> \o f[i-1][kids[j]]])]
  <2>1. f = [i \in 0..n |-> v(i)]
    BY <1>10
  <2> HIDE DEF f, Is, v
  <2> QED BY <2>1
<1> HIDE DEF f, Is
<1>12. f[0] = first /\ \A i \in 1..n : f[i] = Farther(s, f[i-1])
  BY <1>8, <1>10, <1>11
<1> DEFINE T == {i \in 0..n : f[i] \notin W}
<1>13. ASSUME NEW i \in T PROVE i # 0 /\ i - 1 \in T
  <2>1. i # 0
    BY <1>2, <1>12
  <2>2. i \in 1..n /\ i - 1 \in 0..n
    BY <1>1, <2>1
  <2> QED BY <1>4, <1>12, <2>1, <2>2
<1>14. T \subseteq Nat
  BY <1>1
<1>15. T = {}
  <2> HIDE DEF T
  <2> QED BY <1>13, <1>14, EveryNumber
<1>16. \A i \in 0..n : f[i] \in W
  BY <1>15
<1> DEFINE up == [i \in 0..n |-> [c \in Branches |-> ToSet(f[i][c])]]
<1>17. IsAbove(up, s, n)
  <2>1. \A c \in Branches : up[0][c] = {}
    <3>1. 0 \in 0..n
      BY <1>1
    <3>2. \A c \in Branches : f[0][c] = <<>>
      BY <1>12, <1>a
    <3> QED BY <3>1, <3>2 DEF ToSet
  <2>2. ASSUME NEW i \in 1..n, NEW c \in Branches
        PROVE  up[i][c] = OneAbove(s, up[i-1], c)
    <3>1. i \in 0..n /\ i - 1 \in 0..n
      BY <1>1
    <3>2. f[i-1] \in [Branches -> Seq(Branches)]
      BY <1>16, <3>1 DEF W
    <3>3. up[i][c] = ToSet(Farther(s, f[i-1])[c])
      BY <1>12, <3>1
    <3>4. \A k \in Branches : up[i-1][k] = ToSet(f[i-1][k])
      BY <3>1
    <3> HIDE DEF up
    <3> DEFINE v == f[i-1]
               w == up[i-1]
    <3>6. v \in [Branches -> Seq(Branches)] /\ up[i][c] = ToSet(Farther(s, v)[c])
          /\ \A k \in Branches : w[k] = ToSet(v[k])
      BY <3>2, <3>3, <3>4
    <3> HIDE DEF v, w
    <3>7. ToSet(Farther(s, v)[c]) = OneAbove(s, w, c)
      BY <3>6, FartherIsAbove
    <3> QED BY <3>6, <3>7 DEF w
  <2>3. DOMAIN up = 0..n
    OBVIOUS
  <2> HIDE DEF up
  <2> QED BY <2>1, <2>2, <2>3 DEF IsAbove
<1>18. \A b \in Branches : ToSet(RecursiveChildren(s, b)) = up[n][b]
  <2>1. n \in 0..n
    BY <1>1
  <2>2. \A b \in Branches : RecursiveChildren(s, b) = f[n][b]
    BY <1>3 DEF f, Is
  <2> QED BY <2>1, <2>2
<1> HIDE DEF up
<1> QED BY <1>17, <1>18 DEF AreAbove, n

\* More steps reach no less.
LEMMA AboveGrows ==
  ASSUME NEW s, NEW up, NEW n \in Nat, IsAbove(up, s, n), Lists(s),
         NEW i \in 1..n
  PROVE  \A c \in Branches : up[i-1][c] \subseteq up[i][c]
<1> DEFINE T == {j \in 0..n : j # 0 /\ ~ \A c \in Branches : up[j-1][c] \subseteq up[j][c]}
<1>1. ASSUME NEW j \in T PROVE j # 0 /\ j - 1 \in T
  <2>1. j \in 1..n /\ j - 1 \in 0..n
    OBVIOUS
  <2>2. PICK c \in Branches : ~ (up[j-1][c] \subseteq up[j][c])
    OBVIOUS
  <2>3. CASE j = 1
    BY <2>2, <2>3 DEF IsAbove
  <2>4. CASE j # 1
    <3>1. j - 1 \in 1..n /\ (j - 1) - 1 \in 0..n
      BY <2>1, <2>4
    <3>2. /\ up[j][c] = UNION {{k} \cup up[j-1][k] : k \in ToSet(GetChildren(s, c))}
          /\ up[j-1][c] = UNION {{k} \cup up[(j-1)-1][k] : k \in ToSet(GetChildren(s, c))}
      BY <2>1, <3>1 DEF IsAbove, OneAbove
    <3>3. ToSet(GetChildren(s, c)) \subseteq Branches
      BY KidsAreBranches
    <3>4. ~ \A k \in Branches : up[(j-1)-1][k] \subseteq up[j-1][k]
      BY <2>2, <3>2, <3>3
    <3> QED BY <2>1, <3>1, <3>4
  <2> QED BY <2>3, <2>4
<1>2. T \subseteq Nat
  OBVIOUS
<1>3. T = {}
  <2> HIDE DEF T
  <2> QED BY <1>1, <1>2, EveryNumber
<1>4. i \in 0..n /\ i # 0
  OBVIOUS
<1> QED BY <1>3, <1>4

\* A child of what m steps reach is reached in one more.
LEMMA AboveIsClosed ==
  ASSUME NEW s, NEW up, NEW n \in Nat, IsAbove(up, s, n), Lists(s),
         NEW i \in 1..n, NEW c \in Branches, NEW q \in up[i-1][c], NEW p \in ToSet(GetChildren(s, q))
  PROVE  p \in up[i][c]
<1> DEFINE T == {j \in 0..n : j # 0 /\ ~ \A d \in Branches : q \in up[j-1][d] => p \in up[j][d]}
<1>1. ASSUME NEW j \in T PROVE j # 0 /\ j - 1 \in T
  <2>1. j \in 1..n /\ j - 1 \in 0..n
    OBVIOUS
  <2>2. PICK d \in Branches : q \in up[j-1][d] /\ p \notin up[j][d]
    OBVIOUS
  <2>3. j # 1
    BY <2>2 DEF IsAbove
  <2>4. j - 1 \in 1..n /\ (j - 1) - 1 \in 0..n
    BY <2>1, <2>3
  <2>5. /\ up[j][d] = UNION {{k} \cup up[j-1][k] : k \in ToSet(GetChildren(s, d))}
        /\ up[j-1][d] = UNION {{k} \cup up[(j-1)-1][k] : k \in ToSet(GetChildren(s, d))}
    BY <2>1, <2>4 DEF IsAbove, OneAbove
  <2>6. ToSet(GetChildren(s, d)) \subseteq Branches
    BY KidsAreBranches
  <2>7. PICK k \in ToSet(GetChildren(s, d)) : q = k \/ q \in up[(j-1)-1][k]
    BY <2>2, <2>5
  <2>8. p \notin up[j-1][k] /\ k \in Branches
    BY <2>2, <2>5, <2>6
  <2>9. CASE q = k
    <3>1. up[j-1][k] = UNION {{h} \cup up[(j-1)-1][h] : h \in ToSet(GetChildren(s, k))}
      BY <2>4, <2>8 DEF IsAbove, OneAbove
    <3> QED BY <2>8, <2>9, <3>1
  <2>10. CASE q \in up[(j-1)-1][k]
    BY <2>1, <2>4, <2>8, <2>10
  <2> QED BY <2>7, <2>9, <2>10
<1>2. T \subseteq Nat
  OBVIOUS
<1>3. T = {}
  <2> HIDE DEF T
  <2> QED BY <1>1, <1>2, EveryNumber
<1>4. i \in 0..n /\ i # 0
  OBVIOUS
<1> QED BY <1>3, <1>4

----------------------------------------------------------------------------
(***************************************************************************)
(* What is loaded                                                          *)
(***************************************************************************)
\* The branches whose parent is rooted.
Grows(heads, stored, near) ==
  near \cup {b \in Branches : /\ Follows(heads, stored, b)
                              /\ stored[b].parent \in near
                              /\ RevisionFrom(heads, stored, b) # NoCommit}

IsRooted(r, heads, stored) ==
  /\ r \in [0..Cardinality(Branches) -> SUBSET Branches]
  /\ r[0] = {b \in {Trunk} : heads[b] # NoCommit}
  /\ \A i \in 1..Cardinality(Branches) : r[i] = Grows(heads, stored, r[i-1])
  /\ Rooted(heads, stored) = r[Cardinality(Branches)]

LEMMA RootedExists ==
  ASSUME NEW heads, NEW stored
  PROVE  \E r : IsRooted(r, heads, stored)
<1> DEFINE n == Cardinality(Branches)
           W == SUBSET Branches
           first == {b \in {Trunk} : heads[b] # NoCommit}
           Is(f) == f = [i \in 0..n |->
                          IF i = 0 THEN {b \in {Trunk} : heads[b] # NoCommit}
                          ELSE LET below == f[i-1]
                               IN  below \cup {b \in Branches : /\ Follows(heads, stored, b)
                                                                /\ stored[b].parent \in below
                                                                /\ RevisionFrom(heads, stored, b) # NoCommit}]
           step == [i \in 1..n |-> [v \in W |-> Grows(heads, stored, v)]]
<1>1. n \in Nat
  BY CountIsNumber
<1>2. first \in W
  BY BranchNames
<1>3. Rooted(heads, stored) = (CHOOSE h : Is(h))[n]
  BY DEF Rooted
<1>4. \A v \in W : Grows(heads, stored, v) \in W
  BY DEF Grows
<1>5. \A f : Is(f) <=> f = [i \in 0..n |-> IF i = 0 THEN first ELSE Grows(heads, stored, f[i-1])]
  BY DEF Grows
<1> HIDE DEF n, W, Is
<1>6. StaysIn(n, W, step) /\ \A i \in 1..n : \A v \in W : step[i][v] = Grows(heads, stored, v)
  BY <1>4 DEF StaysIn
<1> HIDE DEF step, first
<1>7. HasValues(n, W, first, step)
  BY <1>1, <1>2, <1>6, RecursionExists
<1>8. PICK g \in [0..n -> W] : g[0] = first /\ \A i \in 1..n : g[i] = step[i][g[i-1]]
  BY <1>7 DEF HasValues
<1>9. ASSUME NEW i \in 0..n PROVE g[i] = IF i = 0 THEN first ELSE Grows(heads, stored, g[i-1])
  <2>1. CASE i # 0
    <3>1. i \in 1..n /\ i - 1 \in 0..n
      BY <1>1, <2>1
    <3>2. g[i-1] \in W
      BY <1>8, <3>1
    <3> QED BY <1>6, <1>8, <2>1, <3>1, <3>2, Zenon
  <2> QED BY <1>8, <2>1
<1>10. Is(g)
  BY <1>5, <1>8, <1>9
<1> DEFINE f == CHOOSE h : Is(h)
<1>11. Is(f)
  BY <1>10
<1> HIDE DEF f
<1>12. f = [i \in 0..n |-> IF i = 0 THEN first ELSE Grows(heads, stored, f[i-1])]
  BY <1>5, <1>11
<1>13. f[0] = first /\ \A i \in 1..n : f[i] = Grows(heads, stored, f[i-1])
  BY <1>1, <1>12
<1> DEFINE T == {i \in 0..n : f[i] \notin W}
<1>14. ASSUME NEW i \in T PROVE i # 0 /\ i - 1 \in T
  <2>1. i # 0
    BY <1>2, <1>13
  <2>2. i \in 1..n /\ i - 1 \in 0..n
    BY <1>1, <2>1
  <2> QED BY <1>4, <1>13, <2>1, <2>2
<1>15. T \subseteq Nat
  BY <1>1
<1>16. T = {}
  <2> HIDE DEF T
  <2> QED BY <1>14, <1>15, EveryNumber
<1>17. f \in [0..n -> W]
  <2>1. DOMAIN f = 0..n /\ f = [i \in 0..n |-> f[i]]
    <3> DEFINE v(i) == IF i = 0 THEN first ELSE Grows(heads, stored, f[i-1])
    <3>1. f = [i \in 0..n |-> v(i)]
      BY <1>12
    <3> HIDE DEF v
    <3> QED BY <3>1
  <2> QED BY <1>16, <2>1
<1>18. Rooted(heads, stored) = f[n]
  BY <1>3 DEF f
<1> QED BY <1>13, <1>17, <1>18 DEF IsRooted, first, W, n

LEMMA LevelsAreRooted ==
  ASSUME NEW heads, NEW stored, NEW r, IsRooted(r, heads, stored)
  PROVE  /\ Rooted(heads, stored) \subseteq Branches
         /\ \A j \in 0..Cardinality(Branches) : r[j] \subseteq Rooted(heads, stored)
<1> DEFINE n == Cardinality(Branches)
\* How far a level is from the last.
           Far == {k \in 0..n : ~ \A q \in r[n - k] : q \in r[n]}
<1>1. n \in Nat
  BY CountIsNumber
<1>2. /\ Rooted(heads, stored) = r[n] /\ r[n] \subseteq Branches
      /\ \A i \in 1..n : r[i] = Grows(heads, stored, r[i-1])
  <2>1. n \in 0..n
    BY <1>1
  <2> QED BY <2>1 DEF IsRooted
<1> HIDE DEF n
<1>3. ASSUME NEW k \in Far PROVE k # 0 /\ k - 1 \in Far
  <2>1. k \in 0..n /\ k # 0
    BY <1>1
  <2>2. n - k \in 0..n /\ (n - k) + 1 \in 1..n /\ n - (k - 1) = (n - k) + 1 /\ ((n - k) + 1) - 1 = n - k
        /\ k - 1 \in 0..n
    BY <1>1, <2>1
  <2>3. r[(n - k) + 1] = Grows(heads, stored, r[n - k])
    BY <1>2, <2>2
  <2> QED BY <2>1, <2>2, <2>3 DEF Grows
<1>4. Far = {}
  <2>1. Far \subseteq Nat
    BY <1>1
  <2> HIDE DEF Far
  <2> QED BY <1>3, <2>1, EveryNumber
<1>5. ASSUME NEW j \in 0..n PROVE r[j] \subseteq r[n]
  <2>1. n - j \in 0..n /\ n - (n - j) = j
    BY <1>1
  <2> QED BY <1>4, <2>1
<1> QED BY <1>2, <1>5 DEF n

\* A rooted branch is trunk, or is on a rooted branch.
LEMMA RootedIsOnRooted ==
  ASSUME NEW heads, NEW stored, NEW c \in Rooted(heads, stored)
  PROVE  \/ c = Trunk /\ heads[c] # NoCommit
         \/ Follows(heads, stored, c) /\ stored[c].parent \in Rooted(heads, stored)
<1> DEFINE n == Cardinality(Branches)
<1>1. n \in Nat
  BY CountIsNumber
<1>2. PICK r : IsRooted(r, heads, stored)
  BY RootedExists
<1> DEFINE T == {i \in 0..n : ~ \A q \in r[i] : q \in r[n]}
           Bad == {i \in 0..n : \E d \in r[i] :
                     ~ (\/ d = Trunk /\ heads[d] # NoCommit
                        \/ Follows(heads, stored, d) /\ \E j \in 0..n : stored[d].parent \in r[j])}
<1>3. \A i \in 1..n : r[i] = Grows(heads, stored, r[i-1])
  BY <1>2 DEF IsRooted
<1>4. r[0] = {b \in {Trunk} : heads[b] # NoCommit}
  BY <1>2 DEF IsRooted
<1> HIDE DEF n
<1>5. ASSUME NEW i \in Bad PROVE i # 0 /\ i - 1 \in Bad
  <2>1. i # 0
    BY <1>4
  <2>2. i \in 1..n /\ i - 1 \in 0..n
    BY <1>1, <2>1
  <2>3. PICK d \in r[i] : ~ (\/ d = Trunk /\ heads[d] # NoCommit
                             \/ Follows(heads, stored, d) /\ \E j \in 0..n : stored[d].parent \in r[j])
    OBVIOUS
  <2>4. d \in r[i-1]
    BY <1>3, <2>2, <2>3 DEF Grows
  <2> QED BY <2>1, <2>2, <2>3, <2>4
<1>6. Bad = {}
  <2>1. Bad \subseteq Nat
    BY <1>1
  <2> HIDE DEF Bad
  <2> QED BY <1>5, <2>1, EveryNumber
<1>9. \A j \in 0..n : r[j] \subseteq Rooted(heads, stored)
  BY <1>2, LevelsAreRooted DEF n
<1>10. Rooted(heads, stored) = r[n] /\ n \in 0..n
  BY <1>1, <1>2 DEF IsRooted, n
<1> QED BY <1>6, <1>9, <1>10

\* Level after level, what is loaded as valid is on what was valid before.
IsLevelled(r, s, n) ==
  /\ r[0] \subseteq {Trunk}
  /\ \A i \in 1..n : \A c \in r[i] \ r[i-1] :
       /\ Valid(s, c) /\ s.cache[c].parent \in r[i-1]
       /\ c \in ToSet(GetChildren(s, s.cache[c].parent))

Levelled(s) ==
  \E r : /\ IsLevelled(r, s, Cardinality(Branches))
         /\ \A p : ValidOrTrunk(s, p) => p \in r[Cardinality(Branches)]

LEMMA LoadedIsFresh ==
  ASSUME NEW heads, NEW stored, IsDisk(heads, stored), Grounded(stored),
         NEW order \in Seq(Branches), ToSet(order) = Branches, NEW s,
         {"refs", "meta", "head", "rebase", "cache", "current", "failed"} \subseteq DOMAIN s,
         s.refs = heads, s.meta = LoadedMeta(heads, stored), s.cache = LoadedCache(heads, stored, order)
  PROVE  Fresh(s) /\ Levelled(s)
<1> DEFINE rooted == Rooted(heads, stored)
           kids(x) == {c \in Branches : Follows(heads, stored, c) /\ stored[c].parent = x}
<1>1. IsSession(s)
  BY LoadIsWritten DEF Written, WrittenBut
<1>2. ASSUME NEW c \in Branches
      PROVE  /\ s.cache[c].result = ResultOf(heads, stored, rooted, c)
             /\ s.cache[c].parent = IF Follows(heads, stored, c) THEN stored[c].parent ELSE NoBranch
             /\ s.cache[c].children = IF heads[c] = NoCommit THEN <<>> ELSE Among(order, kids(c))
  BY DEF LoadedCache, LoadedEntry
<1>3. ASSUME NEW c \in Branches
      PROVE  s.meta[c].parent = IF heads[c] = NoCommit THEN NoBranch ELSE stored[c].parent
  BY DEF LoadedMeta, NoMeta, IsDisk, IsMeta
<1>4. Loosened(s.meta, stored)
  BY <1>3, BranchNames DEF Loosened
<1>5. Grounded(s.meta)
  BY <1>4, LooseningKeeps
<1>6. ASSUME NEW x \in Branches
      PROVE  /\ s.cache[x].children \in Seq(Branches)
             /\ ToSet(s.cache[x].children) = IF heads[x] = NoCommit THEN {} ELSE kids(x)
  <2>1. CASE heads[x] = NoCommit
    <3>1. s.cache[x].children = <<>>
      BY <1>2, <2>1
    <3> QED BY <2>1, <3>1 DEF ToSet
  <2>2. CASE heads[x] # NoCommit
    <3> DEFINE K == kids(x)
    <3>1. s.cache[x].children = Among(order, K) /\ K \subseteq Branches
      BY <1>2, <2>2
    <3> HIDE DEF K
    <3>2. Among(order, K) \in Seq(Branches) /\ ToSet(Among(order, K)) = ToSet(order) \cap K
      BY SetOfAmong
    <3> QED BY <2>2, <3>1, <3>2 DEF K
  <2> QED BY <2>1, <2>2
<1>7. ASSUME NEW c \in Branches
      PROVE  /\ s.cache[c].result \in Followed => Follows(heads, stored, c)
             /\ Follows(heads, stored, c) => s.cache[c].result \in Followed
             /\ s.cache[c].result = "TRUNK" => c = Trunk
             /\ s.cache[c].result = "VALID" <=> Follows(heads, stored, c) /\ c \in rooted
             /\ c = Trunk /\ heads[c] # NoCommit => s.cache[c].result = "TRUNK"
  <2>1. s.cache[c].result = ResultOf(heads, stored, rooted, c)
    BY <1>2
  <2> QED BY <2>1 DEF ResultOf, Follows, Followed
<1>8. \A c \in rooted : c \in Branches /\ ValidOrTrunk(s, c)
  <2> TAKE c \in rooted
  <2>1. \/ c = Trunk /\ heads[c] # NoCommit
        \/ Follows(heads, stored, c) /\ stored[c].parent \in rooted
    BY RootedIsOnRooted
  <2>2. c \in Branches
    BY RootedExists, LevelsAreRooted
  <2> QED BY <1>7, <2>1, <2>2 DEF ValidOrTrunk, HasResult
<1>9. ASSUME NEW c, Valid(s, c)
      PROVE  /\ c \in Branches /\ c # Trunk /\ heads[c] # NoCommit /\ Follows(heads, stored, c)
             /\ s.cache[c].parent = stored[c].parent /\ stored[c].parent \in rooted
  <2>1. c \in Branches /\ Follows(heads, stored, c) /\ c \in rooted
    BY <1>7, <1>9 DEF Valid, HasResult
  <2>2. c # Trunk /\ heads[c] # NoCommit /\ s.cache[c].parent = stored[c].parent
    BY <1>2, <2>1 DEF Follows
  <2> QED BY <2>1, <2>2, RootedIsOnRooted
<1>10. Named(s) /\ Lists(s)
  BY <1>2, <1>3, <1>6, <1>7 DEF Named, Lists, Follows
<1>11. Fresh(s)
  <2>1. Sound(s)
    BY <1>1, <1>5, <1>10 DEF Sound
  <2>2. ASSUME NEW c \in Branches
        PROVE  /\ s.cache[c].result = "TRUNK" => c = Trunk
               /\ Valid(s, c) => /\ c # Trunk /\ s.refs[c] # NoCommit
                                 /\ ValidOrTrunk(s, s.cache[c].parent)
    BY <1>7, <1>8, <1>9
  <2>3. ASSUME NEW x \in Branches, NEW c \in ToSet(s.cache[x].children)
        PROVE  s.meta[c].parent = x /\ s.refs[c] # NoCommit /\ s.cache[c].result \in Followed
    <3>1. c \in Branches /\ Follows(heads, stored, c) /\ stored[c].parent = x
      BY <1>6
    <3> QED BY <1>3, <1>7, <3>1 DEF Follows
  <2> QED BY <2>1, <2>2, <2>3 DEF Fresh, Listed
<1>12. Levelled(s)
  <2> DEFINE n == Cardinality(Branches)
  <2>1. PICK r : IsRooted(r, heads, stored)
    BY RootedExists
  <2>2. n \in Nat
    BY CountIsNumber
  <2>3. rooted = r[n] /\ r[0] \subseteq {Trunk} /\ \A i \in 0..n : r[i] \subseteq Branches
    BY <2>1 DEF IsRooted
  <2>4. \A i \in 1..n : r[i] = Grows(heads, stored, r[i-1])
    BY <2>1 DEF IsRooted
  <2> HIDE DEF n
  <2>7. \A j \in 0..n : r[j] \subseteq r[n]
    BY <2>1, <2>3, LevelsAreRooted DEF n
  <2>8. IsLevelled(r, s, n)
    <3> SUFFICES ASSUME NEW i \in 1..n, NEW c \in r[i] \ r[i-1]
                 PROVE  /\ Valid(s, c) /\ s.cache[c].parent \in r[i-1]
                        /\ c \in ToSet(GetChildren(s, s.cache[c].parent))
      BY <2>3 DEF IsLevelled
    <3>1. c \in Branches /\ Follows(heads, stored, c) /\ stored[c].parent \in r[i-1]
      BY <2>4 DEF Grows
    <3>2. c \in rooted /\ i \in 0..n /\ i - 1 \in 0..n
      BY <2>2, <2>3, <2>7
    <3>3. Valid(s, c) /\ s.cache[c].parent = stored[c].parent
      BY <1>2, <1>7, <3>1, <3>2 DEF Valid, HasResult
    <3> DEFINE p == stored[c].parent
    <3>4. p \in Branches /\ heads[p] # NoCommit
      BY <2>3, <3>1, <3>2 DEF Follows, HasParentName
    <3>5. c \in ToSet(s.cache[p].children)
      BY <1>6, <3>1, <3>4
    <3> HIDE DEF p
    <3>6. c \in ToSet(GetChildren(s, p))
      BY <1>10, <3>3, <3>4, <3>5, KidsAreBranches
    <3> QED BY <3>1, <3>3, <3>6 DEF p
  <2>9. \A p : ValidOrTrunk(s, p) => p \in r[n]
    <3> SUFFICES ASSUME NEW p, ValidOrTrunk(s, p) PROVE p \in r[n]
      OBVIOUS
    <3>1. CASE Valid(s, p)
      BY <1>7, <2>3, <3>1 DEF Valid, HasResult
    <3>2. CASE ~ Valid(s, p)
      <4>1. p = Trunk /\ heads[p] # NoCommit
        <5>1. p \in Branches /\ s.cache[p].result = "TRUNK"
          BY <3>2 DEF Valid, ValidOrTrunk, HasResult
        <5>2. heads[p] # NoCommit
          BY <1>2, <5>1 DEF ResultOf
        <5> QED BY <1>7, <5>1, <5>2
      <4>2. p \in r[0] /\ 0 \in 0..n
        BY <2>1, <2>2, <4>1 DEF IsRooted
      <4> QED BY <2>7, <4>2
    <3> QED BY <3>1, <3>2
  <2> QED BY <2>8, <2>9 DEF Levelled, n
<1> QED BY <1>11, <1>12

\* init --reset: no branch has a parent any more.
LEMMA ResetIsSound ==
  ASSUME NEW s, Sound(s), NEW stored, stored = [b \in Branches |-> NoMeta],
         NEW order \in Seq(Branches),
         NEW t, t = [s EXCEPT !.meta = stored, !.cache = LoadedCache(s.refs, stored, order)]
  PROVE  Sound(t) /\ ValidOnes(t) = {}
<1> DEFINE known == LoadedCache(s.refs, stored, order)
           rooted == Rooted(s.refs, stored)
           kids(x) == {c \in Branches : Follows(s.refs, stored, c) /\ stored[c].parent = x}
<1>1. DOMAIN known = Branches /\ \A c \in Branches : known[c] = LoadedEntry(s.refs, stored, rooted, order, c)
  BY DEF LoadedCache
<1>2. t.refs = s.refs /\ t.meta = stored /\ t.cache = known /\ DOMAIN t = DOMAIN s
  BY DEF Sound, IsSession
<1>3. \A c \in Branches : stored[c].parent = NoBranch /\ IsMeta(stored[c])
  BY DEF NoMeta, IsMeta
<1> HIDE DEF known, rooted
<1>4. ASSUME NEW c \in Branches
      PROVE  /\ IsEntry(known[c]) /\ known[c].result \notin Followed
             /\ known[c].children \in Seq(Branches)
  <2>1. ResultOf(s.refs, stored, rooted, c) \in {"NONE", "TRUNK", "BAD_PARENT_NAME"}
    BY <1>3 DEF ResultOf, HasParentName
  <2>2. known[c].result = ResultOf(s.refs, stored, rooted, c) /\ IsEntry(known[c])
        /\ known[c].children = IF s.refs[c] = NoCommit THEN <<>> ELSE Among(order, kids(c))
    <3>1. known[c] = LoadedEntry(s.refs, stored, rooted, order, c)
      BY <1>1
    <3>2. LoadedEntry(s.refs, stored, rooted, order, c).result = ResultOf(s.refs, stored, rooted, c)
      BY DEF LoadedEntry
    <3>3. IsEntry(LoadedEntry(s.refs, stored, rooted, order, c))
      BY DEF LoadedEntry, IsEntry
    <3>4. LoadedEntry(s.refs, stored, rooted, order, c).children
            = IF s.refs[c] = NoCommit THEN <<>> ELSE Among(order, kids(c))
      BY DEF LoadedEntry
    <3> HIDE DEF kids
    <3> QED BY <3>1, <3>2, <3>3, <3>4
  <2> DEFINE K == kids(c)
  <2> HIDE DEF K
  <2>3. Among(order, K) \in Seq(Branches)
    BY SetOfAmong
  <2> QED BY <2>1, <2>2, <2>3 DEF Followed, K
<1>5. IsSession(t)
  BY <1>1, <1>2, <1>3, <1>4 DEF Sound, IsSession, IsDisk, IsCache
<1>6. Grounded(stored)
  BY <1>3, BranchNames DEF Grounded, Others
<1> QED BY <1>2, <1>4, <1>5, <1>6 DEF Sound, Named, Lists, ValidOnes, Valid, HasResult, Followed

\* validateNewParent refuses what is above the branch.
LEMMA NotAbove ==
  ASSUME NEW s, Fresh(s), Levelled(s), NEW b, Valid(s, b), NEW p, ValidOrTrunk(s, p),
         CanBeParent(s, b, p)
  PROVE  In(p, Off(s.meta, b))
<1> DEFINE n == Cardinality(Branches)
           O == Off(s.meta, b)
<1>1. n \in Nat /\ b \in Branches /\ b # Trunk /\ Lists(s) /\ b \in Others
  BY CountIsNumber DEF Valid, HasResult, Fresh, Sound, Others
<1>2. PICK r : IsLevelled(r, s, n) /\ \A q : ValidOrTrunk(s, q) => q \in r[n]
  BY DEF Levelled
<1>3. PICK up : IsAbove(up, s, n) /\ \A c \in Branches : ToSet(RecursiveChildren(s, c)) = up[n][c]
  BY <1>1, ListedAreAbove DEF AreAbove
<1>4. p # b /\ p \notin up[n][b]
  BY <1>1, <1>3 DEF CanBeParent
<1> HIDE DEF n
<1>5. Whole(s.meta, O) /\ b \notin O
  BY OffIsWhole
<1>6. ASSUME NEW c, Valid(s, c), c # b, In(s.cache[c].parent, O) PROVE c \in O
  <2>1. c \in Others /\ s.meta[c].parent = s.cache[c].parent
    BY <1>6 DEF Valid, HasResult, Fresh, Others, Sound, Named, Followed
  <2>2. Whole(s.meta, O \cup {c})
    BY <1>5, <1>6, <2>1 DEF Whole, In
  <2>3. O \cup {c} \in SUBSET (Others \ {b})
    BY <1>5, <1>6, <2>1 DEF Whole
  <2> QED BY <2>2, <2>3 DEF Off
<1> HIDE DEF O
<1> DEFINE Good(c, i) == c = Trunk \/ c = b \/ c \in O \/ c \in up[i][b]
           T == {i \in 0..n : ~ \A c \in r[i] : Good(c, i)}
<1>7. ASSUME NEW i \in T PROVE i # 0 /\ i - 1 \in T
  <2>1. i # 0
    BY <1>2 DEF IsLevelled
  <2>2. i \in 1..n /\ i - 1 \in 0..n
    BY <1>1, <2>1
  <2>3. PICK c \in r[i] : ~ Good(c, i)
    OBVIOUS
  <2>4. up[i-1][b] \subseteq up[i][b]
    BY <1>1, <1>3, <2>2, AboveGrows
  <2>5. ASSUME \A d \in r[i-1] : Good(d, i-1) PROVE FALSE
    <3>1. c \notin r[i-1]
      BY <2>3, <2>4, <2>5
    <3> DEFINE q == s.cache[c].parent
    <3>2. Valid(s, c) /\ q \in r[i-1] /\ c \in ToSet(GetChildren(s, q))
      BY <1>2, <2>2, <2>3, <3>1 DEF IsLevelled
    <3> HIDE DEF q
    <3>3. Good(q, i-1)
      BY <2>5, <3>2
    <3>4. CASE q = Trunk \/ q \in O
      <4>1. In(q, O)
        BY <3>4 DEF In, Others
      <4> QED BY <1>6, <2>3, <3>2, <4>1 DEF q
    <3>5. CASE q = b
      <4>1. c \in up[i][b]
        BY <1>1, <1>3, <2>2, <3>2, <3>5 DEF IsAbove, OneAbove
      <4> QED BY <2>3, <4>1
    <3>6. CASE q \in up[i-1][b]
      <4>1. c \in up[i][b]
        BY <1>1, <1>3, <2>2, <3>2, <3>6, AboveIsClosed
      <4> QED BY <2>3, <4>1
    <3> QED BY <3>3, <3>4, <3>5, <3>6
  <2> QED BY <2>1, <2>2, <2>5
<1>8. T = {}
  <2>1. T \subseteq Nat
    BY <1>1
  <2> HIDE DEF T
  <2> QED BY <1>7, <2>1, EveryNumber
<1>9. n \in 0..n /\ p \in r[n]
  BY <1>1, <1>2
<1>10. Good(p, n)
  BY <1>8, <1>9
<1> QED BY <1>4, <1>10 DEF In, Others, O

\* The branch b has been put on p.
Tracked(t, s, b, p, G) ==
  /\ b \in Others /\ ValidOrTrunk(s, p) /\ CanBeParent(s, b, p)
  /\ Whole(t.meta, G \cup {b})
  /\ SameElse(t, s) /\ Valid(t, b)
  /\ \A c \in Branches : Valid(s, c) => Valid(t, c)
  /\ \A x \in Branches : ToSet(s.cache[x].children) \ {b} \subseteq ToSet(t.cache[x].children)
  /\ p \in Branches /\ b \in ToSet(t.cache[p].children)

LEMMA TrackKeeps ==
  ASSUME NEW G, NEW s, Kept(s, G), NEW b, NEW p,
         ValidOrTrunk(s, p) /\ CanBeParent(s, b, p) /\ b \in Others => b \notin G /\ In(p, G),
         NEW t, t = TrackBranch(s, b, p)
  PROVE  Kept(t, G) /\ (t = Fail(s) \/ Tracked(t, s, b, p, G))
<1> DEFINE e == [s.cache[b] EXCEPT !.result = "VALID", !.parent = p,
                                   !.prev = MergeBase(s.refs[b], s.refs[p])]
<1>1. CASE ~CanBeParent(s, b, p) \/ ~Exists(s, b) \/ ~ValidOrTrunk(s, p) \/ b = Trunk
  <2>1. t = Fail(s)
    BY <1>1 DEF TrackBranch
  <2> QED BY <2>1, FailKeeps
<1>2. CASE ~ (~CanBeParent(s, b, p) \/ ~Exists(s, b) \/ ~ValidOrTrunk(s, p) \/ b = Trunk)
  <2>1. /\ b \in Others /\ ValidOrTrunk(s, p) /\ CanBeParent(s, b, p) /\ b # p
        /\ b \in Branches /\ p \in Branches /\ b \notin G /\ In(p, G)
    BY <1>2 DEF Exists, HasResult, ValidOrTrunk, Others, CanBeParent
  <2>2. t = UpdateMeta(s, b, e)
    BY <1>2 DEF TrackBranch
  <2>3. /\ IsEntry(e) /\ e.result = "VALID" /\ e.children \in Seq(Branches) /\ e.parent = p
        /\ e.children = s.cache[b].children
    BY <2>1 DEF IsEntry, Kept, Sound, IsSession, IsCache, Lists
  <2> HIDE DEF e
  <2>4. Kept(t, G) /\ Whole(t.meta, G \cup {b})
    BY <2>1, <2>2, <2>3, UpdateKeeps
  <2>5. IsSession(s) /\ Named(s) /\ Lists(s)
    BY DEF Kept, Sound
  <2>6. SameElse(t, s)
    BY <2>1, <2>2, <2>3, <2>5, UpdateEffect
  <2>7. Valid(t, b) /\ \A c \in Branches \ {b} : Judged(t.cache[c].result, s.cache[c].result)
    BY <2>1, <2>2, <2>3, <2>5, UpdateEffect
  <2>8. PutOn(t, s, b, e, p)
    BY <2>1, <2>2, <2>3, <2>5, UpdateEffect
  <2>9. \A c \in Branches : Valid(s, c) => Valid(t, c)
    BY <2>7 DEF Valid, HasResult, Judged
  <2>10. \A x \in Branches : ToSet(s.cache[x].children) \ {b} \subseteq ToSet(t.cache[x].children)
    BY <2>3, <2>8 DEF PutOn, ListBefore, KidsAfter
  <2>11. b \in ToSet(t.cache[p].children)
    BY <2>1, <2>8 DEF PutOn, KidsAfter
  <2> QED BY <2>1, <2>4, <2>6, <2>7, <2>9, <2>10, <2>11 DEF Tracked
<1> QED BY <1>1, <1>2

\* The current branch is on what has been tracked.
OnTracked(t) ==
  Sound(t) /\ (t.failed \/ \E G : G \subseteq ValidOnes(t) /\ Whole(t.meta, G) /\ In(t.current, G))

LEMMA OnboardStepKeeps ==
  ASSUME NEW s, OnTracked(s), ~ s.failed, NEW b \in Branches, ~ Valid(s, b),
         NEW u, u = TrackBranch(s, b, s.current), NEW t, t = CheckoutBranch(u, b)
  PROVE  OnTracked(t)
<1>1. PICK G : G \subseteq ValidOnes(s) /\ Whole(s.meta, G) /\ In(s.current, G)
  BY DEF OnTracked
<1>2. Kept(s, G) /\ b \notin G
  BY <1>1 DEF OnTracked, Kept, ValidOnes
<1> DEFINE p == s.current
<1>3. Kept(u, G) /\ (u = Fail(s) \/ Tracked(u, s, b, p, G))
  BY <1>1, <1>2, TrackKeeps
<1>4. /\ Kept(t, G) /\ t.refs = u.refs /\ t.meta = u.meta /\ t.cache = u.cache
      /\ t.failed \/ t.current = b
  BY <1>3, CheckoutKeeps
<1>5. CASE u = Fail(s)
  <2>1. u.failed = TRUE
    BY <1>2, <1>5, FailKeeps
  <2>2. t = u
    BY <2>1 DEF CheckoutBranch
  <2> QED BY <1>4, <2>1, <2>2 DEF OnTracked, Kept
<1>6. CASE Tracked(u, s, b, p, G)
  <2>1. G \cup {b} \subseteq ValidOnes(t) /\ Whole(t.meta, G \cup {b}) /\ In(b, G \cup {b})
    BY <1>1, <1>4, <1>6 DEF Tracked, ValidOnes, Valid, HasResult, In
  <2> QED BY <1>4, <2>1 DEF OnTracked, Kept
<1> QED BY <1>3, <1>5, <1>6

LEMMA OnboardedKeep ==
  ASSUME NEW s, Sound(s), NEW t \in Onboarded(s)
  PROVE  Sound(t)
<1> DEFINE n == Cardinality(Branches)
           f == CHOOSE g : IsOnboarded(g, s, n)
<1>1. n \in Nat
  BY CountIsNumber
<1>2. IsOnboarded(f, s, n)
  BY <1>1, OnboardedExists
<1>3. Onboarded(s) = f[n]
  BY DEF Onboarded, IsOnboarded, OnboardedOnce, Onboards
<1> HIDE DEF n, f
<1> DEFINE T == {i \in 0..n : \E u \in f[i] : ~ OnTracked(u)}
<1>4. ASSUME NEW i \in T PROVE i # 0 /\ i - 1 \in T
  <2>1. PICK u \in f[i] : ~ OnTracked(u)
    OBVIOUS
  <2>2. i \in 0..n /\ f[i] = IF i = 0 THEN {CheckoutBranch(s, Trunk)} ELSE OnboardedOnce(f[i-1])
    BY <1>2 DEF IsOnboarded
  <2>3. i # 0
    <3>1. ASSUME u = CheckoutBranch(s, Trunk) PROVE OnTracked(u)
      <4>1. Kept(u, {}) /\ (u.failed \/ u.current = Trunk)
        BY <3>1, SoundIsKept, CheckoutKeeps
      <4> QED BY <4>1 DEF OnTracked, Kept, In, Others
    <3> QED BY <2>1, <2>2, <3>1
  <2>4. i - 1 \in 0..n /\ u \in OnboardedOnce(f[i-1])
    BY <1>1, <2>1, <2>2, <2>3
  <2>5. CASE u \in f[i-1]
    BY <2>1, <2>3, <2>4, <2>5
  <2>6. CASE u \notin f[i-1]
    <3>1. PICK v \in f[i-1] : u \in IF v.failed THEN {} ELSE Onboards(v)
      BY <2>4, <2>6, Zenon DEF OnboardedOnce
    <3>2. ~ v.failed /\ u \in Onboards(v)
      BY <3>1
    <3>3. PICK b \in Branches : ~ Valid(v, b) /\ u = CheckoutBranch(TrackBranch(v, b, v.current), b)
      BY <3>2 DEF Onboards
    <3>4. ~ OnTracked(v)
      BY <2>1, <3>2, <3>3, OnboardStepKeeps
    <3> QED BY <2>3, <2>4, <3>1, <3>4
  <2> QED BY <2>5, <2>6
<1>5. T \subseteq Nat
  BY <1>1
<1>6. T = {}
  <2> HIDE DEF T
  <2> QED BY <1>4, <1>5, EveryNumber
<1> QED BY <1>1, <1>3, <1>6 DEF OnTracked

LEMMA AboveGrowsOn ==
  ASSUME NEW s, NEW up, NEW n \in Nat, IsAbove(up, s, n), Lists(s),
         NEW c \in Branches, NEW i \in 0..n
  PROVE  up[i][c] \subseteq up[n][c]
<1> DEFINE Far == {k \in 0..n : ~ \A q \in up[n - k][c] : q \in up[n][c]}
<1>1. ASSUME NEW k \in Far PROVE k # 0 /\ k - 1 \in Far
  <2>1. k \in 0..n /\ k # 0
    OBVIOUS
  <2>2. n - k \in 0..n /\ (n - k) + 1 \in 1..n /\ n - (k - 1) = (n - k) + 1 /\ ((n - k) + 1) - 1 = n - k
        /\ k - 1 \in 0..n
    BY <2>1
  <2> DEFINE j == (n - k) + 1
  <2>3. j \in 1..n /\ j - 1 = n - k /\ n - (k - 1) = j
    BY <2>2
  <2> HIDE DEF j
  <2>4. up[j-1][c] \subseteq up[j][c]
    BY <2>3, AboveGrows
  <2> QED BY <2>1, <2>2, <2>3, <2>4
<1>2. Far = {}
  <2>1. Far \subseteq Nat
    OBVIOUS
  <2> HIDE DEF Far
  <2> QED BY <1>1, <2>1, EveryNumber
<1>3. n - i \in 0..n /\ n - (n - i) = i
  OBVIOUS
<1> QED BY <1>2, <1>3

\* The branches of W have been tracked one on the other, p last; h is how far
\* they are below it.
IsStack(W, h, t, s, p, n) ==
  /\ W \subseteq Branches /\ h \in [Branches -> Nat] /\ p \in W
  /\ Whole(t.meta, ValidOnes(s) \cup W)
  /\ \A w \in W :
       /\ h[w] < n /\ Valid(t, w)
       /\ h[w] = 0 => w = p
       /\ h[w] # 0 => \E x \in W : h[x] = h[w] - 1 /\ x \in ToSet(t.cache[w].children)

\* A session of trackStack, in which p is valid if it was or has been tracked.
InStack(t, s, p, n) ==
  /\ Sound(t)
  /\ t.failed \/ t = s \/ \E W, h : IsStack(W, h, t, s, p, n)

LEMMA StackIsAbove ==
  ASSUME NEW W, NEW h, NEW t, NEW s, NEW p, NEW n \in 0..Cardinality(Branches),
         IsStack(W, h, t, s, p, n), Sound(t), NEW c \in W
  PROVE  ~ CanBeParent(t, c, p)
<1> DEFINE m == Cardinality(Branches)
<1>1. m \in Nat /\ n \in 0..m /\ Lists(t) /\ c \in Branches
  BY CountIsNumber DEF Sound, IsStack
<1>2. PICK up : IsAbove(up, t, m) /\ \A b \in Branches : ToSet(RecursiveChildren(t, b)) = up[m][b]
  BY <1>1, ListedAreAbove DEF AreAbove
<1>3. ~ CanBeParent(t, c, p) <=> c = p \/ p \in up[m][c]
  BY <1>1, <1>2 DEF CanBeParent
<1> HIDE DEF m
<1> DEFINE T == {i \in 0..n : \E w \in W : h[w] = i /\ w # p /\ p \notin up[i][w]}
<1>4. ASSUME NEW i \in T PROVE i # 0 /\ i - 1 \in T
  <2>1. PICK w \in W : h[w] = i /\ w # p /\ p \notin up[i][w]
    OBVIOUS
  <2>2. i # 0 /\ w \in Branches
    BY <2>1 DEF IsStack
  <2>3. PICK x \in W : h[x] = i - 1 /\ x \in ToSet(t.cache[w].children)
    BY <2>1, <2>2 DEF IsStack
  <2>4. i \in 1..m /\ i \in 0..n /\ i - 1 \in 0..n
    BY <1>1, <2>2
  <2>5. x \in ToSet(GetChildren(t, w))
    BY <1>1, <2>2, <2>3, KidsAreBranches DEF IsStack
  <2>6. x # p /\ p \notin up[i-1][x]
    BY <1>2, <2>1, <2>2, <2>4, <2>5 DEF IsAbove, OneAbove
  <2> QED BY <2>2, <2>3, <2>4, <2>6
<1>5. T = {}
  <2>1. T \subseteq Nat
    BY <1>1
  <2> HIDE DEF T
  <2> QED BY <1>4, <2>1, EveryNumber
<1>6. h[c] \in 0..n /\ h[c] \in 0..m
  BY <1>1 DEF IsStack
<1>7. c = p \/ p \in up[h[c]][c]
  BY <1>5, <1>6
<1>8. up[h[c]][c] \subseteq up[m][c]
  BY <1>1, <1>2, <1>6, AboveGrowsOn
<1> QED BY <1>3, <1>7, <1>8

LEMMA StackGrows ==
  ASSUME NEW s, Fresh(s), NEW t, NEW p, NEW m \in 0..Cardinality(Branches), InStack(t, s, p, m),
         NEW c \in Branches, ~ Valid(s, c),
         NEW u, u = IF t.failed THEN t ELSE TrackBranch(t, c, p)
  PROVE  InStack(u, s, c, m + 1)
<1>1. CASE t.failed
  BY <1>1 DEF InStack
<1>2. CASE ~ t.failed /\ t = s
  <2> DEFINE G == ValidOnes(s)
  <2>1. Kept(t, G) /\ (ValidOrTrunk(t, p) => c \notin G /\ In(p, G))
    BY <1>2, ValidOnesAreWhole DEF ValidOnes
  <2>2. u = TrackBranch(t, c, p)
    BY <1>2
  <2> HIDE DEF G
  <2>3. Kept(u, G) /\ (u = Fail(t) \/ Tracked(u, t, c, p, G))
    BY <2>1, <2>2, TrackKeeps
  <2>4. CASE u = Fail(t)
    <3>1. u.failed = TRUE
      BY <2>1, <2>4, FailKeeps
    <3> QED BY <2>3, <3>1 DEF InStack, Kept
  <2>5. CASE Tracked(u, t, c, p, G)
    <3> DEFINE h == [x \in Branches |-> 0]
    <3>1. Whole(u.meta, ValidOnes(s) \cup {c}) /\ Valid(u, c)
      BY <2>5 DEF Tracked, G
    <3>2. h \in [Branches -> Nat] /\ h[c] = 0 /\ 0 < m + 1
      OBVIOUS
    <3> HIDE DEF h
    <3>3. IsStack({c}, h, u, s, c, m + 1)
      BY <3>1, <3>2 DEF IsStack
    <3> QED BY <2>3, <3>3 DEF InStack, Kept
  <2> QED BY <2>3, <2>4, <2>5
<1>3. CASE ~ t.failed /\ t # s
  <2>1. PICK W, h : IsStack(W, h, t, s, p, m)
    BY <1>3 DEF InStack
  <2> DEFINE G == ValidOnes(s) \cup W
  <2>2. Kept(t, G) /\ Sound(t) /\ In(p, G) /\ u = TrackBranch(t, c, p)
    BY <1>3, <2>1 DEF IsStack, InStack, Kept, In
  <2>3. CanBeParent(t, c, p) => c \notin G
    BY <2>1, <2>2, StackIsAbove DEF ValidOnes
  <2> HIDE DEF G
  <2>4. Kept(u, G) /\ (u = Fail(t) \/ Tracked(u, t, c, p, G))
    BY <2>2, <2>3, TrackKeeps
  <2>5. CASE u = Fail(t)
    <3>1. u.failed = TRUE
      BY <2>2, <2>5, FailKeeps
    <3> QED BY <2>4, <3>1 DEF InStack, Kept
  <2>6. CASE Tracked(u, t, c, p, G)
    <3> DEFINE k == [x \in Branches |-> IF x = c THEN 0 ELSE h[x] + 1]
               X == W \cup {c}
    <3>1. c \notin W /\ Whole(u.meta, ValidOnes(s) \cup X)
      <4>1. c \notin G
        BY <2>3, <2>6 DEF Tracked
      <4>2. Whole(u.meta, G \cup {c})
        BY <2>6 DEF Tracked
      <4>3. G \cup {c} = ValidOnes(s) \cup X
        BY DEF G
      <4> HIDE DEF X
      <4> QED BY <4>1, <4>2, <4>3 DEF G
    <3>2. /\ k \in [Branches -> Nat] /\ k[c] = 0
          /\ \A w \in W : w \in Branches /\ k[w] = h[w] + 1 /\ h[w] \in Nat /\ w # c
      BY <2>1, <3>1 DEF IsStack
    <3> HIDE DEF k
    <3>3. ASSUME NEW w \in W
          PROVE  /\ k[w] < m + 1 /\ Valid(u, w) /\ k[w] # 0
                 /\ \E x \in X : k[x] = k[w] - 1 /\ x \in ToSet(u.cache[w].children)
      <4>1. h[w] < m /\ h[w] \in Nat /\ Valid(t, w) /\ w \in Branches
        BY <2>1, <3>2 DEF IsStack
      <4>2. Valid(u, w)
        BY <2>6, <4>1 DEF Tracked
      <4>3. CASE h[w] = 0
        <5>1. w = p
          BY <2>1, <4>3 DEF IsStack
        <5>2. c \in ToSet(u.cache[w].children)
          BY <2>6, <5>1 DEF Tracked
        <5>3. k[c] = k[w] - 1
          BY <3>2, <4>3
        <5> QED BY <3>2, <4>1, <4>2, <5>2, <5>3
      <4>4. CASE h[w] # 0
        <5>1. PICK x \in W : h[x] = h[w] - 1 /\ x \in ToSet(t.cache[w].children)
          BY <2>1, <4>4 DEF IsStack
        <5>2. x \in ToSet(u.cache[w].children)
          BY <2>6, <3>2, <4>1, <5>1 DEF Tracked
        <5>3. k[x] = k[w] - 1 /\ k[w] # 0 /\ k[w] < m + 1
          BY <3>2, <4>1, <5>1
        <5> QED BY <4>2, <5>2, <5>3
      <4> QED BY <4>3, <4>4
    <3>4. Valid(u, c) /\ 0 < m + 1 /\ W \subseteq Branches
      BY <2>1, <2>6 DEF Tracked, IsStack
    <3>5. IsStack(X, k, u, s, c, m + 1)
      BY <3>1, <3>2, <3>3, <3>4 DEF IsStack
    <3> HIDE DEF X
    <3> QED BY <2>4, <3>5 DEF InStack, Kept
  <2> QED BY <2>4, <2>5, <2>6
<1> QED BY <1>1, <1>2, <1>3

LEMMA TrackedStacksKeep ==
  ASSUME NEW s, Fresh(s), NEW b \in Branches, NEW t \in TrackedStacks(s, b)
  PROVE  Sound(t)
<1> DEFINE n == Cardinality(Branches)
           f == CHOOSE g : IsTracked(g, s, n)
<1>1. n \in Nat
  BY CountIsNumber
<1>2. IsTracked(f, s, n)
  BY <1>1, TrackedExists
<1>3. TrackedStacks(s, b) = f[n][b]
  BY DEF TrackedStacks, IsTracked, Tracks
<1> HIDE DEF f
<1> DEFINE T == {i \in 0..n : \E c \in Branches : \E u \in f[i][c] : ~ InStack(u, s, c, i)}
<1>4. ASSUME NEW i \in T PROVE i # 0 /\ i - 1 \in T
  <2>1. PICK c \in Branches : \E u \in f[i][c] : ~ InStack(u, s, c, i)
    OBVIOUS
  <2>2. PICK u \in f[i][c] : ~ InStack(u, s, c, i)
    BY <2>1
  <2>3. f[i][c] = IF i = 0 \/ s.cache[c].result \in {"TRUNK", "VALID"} THEN {s}
                  ELSE Tracks(f[i-1], s, c)
    <3>1. i \in 0..n
      OBVIOUS
    <3>2. f[i] = [d \in Branches |->
                   IF i = 0 \/ s.cache[d].result \in {"TRUNK", "VALID"} THEN {s}
                   ELSE Tracks(f[i-1], s, d)]
      BY <1>2, <3>1, Zenon DEF IsTracked
    <3> QED BY <3>2, Zenon
  <2>a. u # s
    BY <2>2 DEF InStack, Fresh
  <2>4. i # 0 /\ s.cache[c].result \notin {"TRUNK", "VALID"} /\ u \in Tracks(f[i-1], s, c)
    BY <2>2, <2>3, <2>a
  <2>5. PICK p \in PotentialParents(s, c) :
          \E v \in f[i-1][p] : u = IF v.failed THEN v ELSE TrackBranch(v, c, p)
    BY <2>4 DEF Tracks
  <2>6. PICK v \in f[i-1][p] : u = IF v.failed THEN v ELSE TrackBranch(v, c, p)
    BY <2>5
  <2> DEFINE m == i - 1
  <2>7. m \in 0..n /\ m + 1 = i
    BY <1>1, <2>4
  <2> HIDE DEF m
  <2>8. ~ InStack(v, s, p, m)
    <3>1. ~ Valid(s, c)
      BY <2>4 DEF Valid, HasResult
    <3>2. InStack(v, s, p, m) => InStack(u, s, c, m + 1)
      BY <2>6, <2>7, <3>1, StackGrows
    <3> QED BY <2>2, <2>7, <3>2
  <2>9. p \in Branches
    BY <2>5 DEF PotentialParents
  <2> QED BY <2>4, <2>6, <2>7, <2>8, <2>9 DEF m
<1>5. T \subseteq Nat
  BY <1>1
<1>6. T = {}
  <2> HIDE DEF T
  <2> QED BY <1>4, <1>5, EveryNumber
<1>7. n \in 0..n
  BY <1>1
<1> QED BY <1>3, <1>6, <1>7 DEF InStack

----------------------------------------------------------------------------
(***************************************************************************)
(* Cleaning branches away                                                  *)
(***************************************************************************)
\* The lists of children and the parents agree, at whatever point of a clean.
Cleanable(s) ==
  /\ Lists(s)
  /\ \A x \in Branches : Listed(s, x)
  /\ \A c \in Branches : Valid(s, c) => c # Trunk /\ s.cache[c].parent \in Branches

\* What is valid in s stays it, but for b.
StillValid(t, s, b) == \A c \in Branches \ {b} : Valid(s, c) => Valid(t, c)

LEMMA FreshIsCleanable ==
  ASSUME NEW s, Fresh(s)
  PROVE  Cleanable(s)
BY DEF Fresh, Sound, Cleanable, ValidOrTrunk, HasResult

LEMMA SameIsCleanable ==
  ASSUME NEW s, Cleanable(s), NEW t, SameStacks(t, s)
  PROVE  Cleanable(t) /\ StillValid(t, s, NoBranch)
BY DEF SameStacks, Cleanable, Lists, Listed, Valid, HasResult, StillValid

LEMMA UpdateCleans ==
  ASSUME NEW s, IsSession(s), Named(s), Cleanable(s), NEW b, Valid(s, b),
         NEW e, IsEntry(e), e.result = "VALID", e.children = s.cache[b].children,
         NEW q \in Branches, q = e.parent,
         NEW t, t = UpdateMeta(s, b, e)
  PROVE  Cleanable(t) /\ StillValid(t, s, NoBranch)
<1>1. b \in Branches /\ Lists(s) /\ e.children \in Seq(Branches) /\ s.cache[b].result = "VALID"
  BY DEF Valid, HasResult, Cleanable, Lists
<1> DEFINE from == s.cache[b].parent
<1>2. /\ Lists(t)
      /\ \A c \in Branches : /\ t.meta[c].parent = IF c = b THEN q ELSE s.meta[c].parent
                             /\ t.cache[c].parent = IF c = b THEN q ELSE s.cache[c].parent
  BY <1>1, UpdateEffect
<1>3. \A c \in Branches : t.cache[c].result = s.cache[c].result
  BY <1>1, UpdateEffect
<1>4. PutOn(t, s, b, e, q)
  BY <1>1, UpdateEffect
<1>5. s.meta[b].parent = from /\ from \in Branches /\ from # NoBranch
  BY <1>1, BranchNames DEF Named, Followed, Cleanable
<1>6. \A x \in Branches :
        ToSet(t.cache[x].children) = KidsAfter(ToSet(s.cache[x].children), b, x, from, q)
  BY <1>1, <1>4 DEF PutOn, ListBefore, LeftParent
<1> HIDE DEF from
<1>7. ASSUME NEW x \in Branches, NEW c \in ToSet(t.cache[x].children) PROVE t.meta[c].parent = x
  <2>1. c \in Branches
    BY <1>2, ChildIsBranch
  <2>2. \/ c \in ToSet(s.cache[x].children) /\ (c # b \/ x # from \/ from \in {NoBranch, q})
        \/ c = b /\ x = q
    BY <1>6 DEF KidsAfter
  <2>3. c \in ToSet(s.cache[x].children) => s.meta[c].parent = x
    BY DEF Cleanable, Listed
  <2> QED BY <1>2, <1>5, <2>1, <2>2, <2>3
<1>8. ASSUME NEW c \in Branches, Valid(t, c) PROVE c # Trunk /\ t.cache[c].parent \in Branches
  BY <1>2, <1>3, <1>8 DEF Valid, HasResult, Cleanable
<1> QED BY <1>2, <1>3, <1>7, <1>8 DEF Cleanable, Listed, StillValid, Valid, HasResult

LEMMA SetParentCleans ==
  ASSUME NEW G, NEW s, Kept(s, G), Cleanable(s), NEW b, NEW p \in Branches,
         NEW t, t = SetParent(s, b, p)
  PROVE  t.failed = TRUE \/ (Cleanable(t) /\ StillValid(t, s, NoBranch))
<1> DEFINE e == [s.cache[b] EXCEPT !.parent = p]
<1>1. t = Fail(s) \/ t = s \/ (Valid(s, b) /\ t = UpdateMeta(s, b, e))
  <2>1. CASE s.failed \/ ~CanBeParent(s, b, p) \/ ~Valid(s, b)
    BY <2>1 DEF SetParent
  <2>2. CASE ~ (s.failed \/ ~CanBeParent(s, b, p) \/ ~Valid(s, b))
    <3>1. Valid(s, b)
      BY <2>2
    <3>2. t \in {Fail(s), s, UpdateMeta(s, b, e)}
      BY <2>2 DEF SetParent
    <3> QED BY <3>1, <3>2
  <2> QED BY <2>1, <2>2
<1>2. CASE t = Fail(s)
  BY <1>2, FailKeeps
<1>3. CASE t = s
  BY <1>3 DEF StillValid
<1>4. CASE Valid(s, b) /\ t = UpdateMeta(s, b, e)
  <2>1. IsEntry(e) /\ e.result = "VALID" /\ e.children = s.cache[b].children /\ e.parent = p
    BY <1>4 DEF Valid, HasResult, Kept, Sound, IsSession, IsCache, IsEntry
  <2>2. IsSession(s) /\ Named(s)
    BY DEF Kept, Sound
  <2> HIDE DEF e
  <2> QED BY <1>4, <2>1, <2>2, UpdateCleans
<1> QED BY <1>1, <1>2, <1>3, <1>4

LEMMA AdoptCleans ==
  ASSUME NEW G, NEW s, Kept(s, G), s.failed \in BOOLEAN, Cleanable(s), NEW kids, NEW p \in Branches,
         ~ s.failed => \A i \in DOMAIN kids : kids[i] \notin G /\ In(p, G),
         NEW t, t = Adopt(s, kids, p)
  PROVE  t.failed = TRUE \/ (Cleanable(t) /\ StillValid(t, s, NoBranch))
<1> DEFINE n == Cardinality(Branches)
           f == CHOOSE g : IsAdopted(g, s, kids, p, n)
           Right(u) == /\ Kept(u, G) /\ Onward(u, s)
                       /\ u.failed = TRUE \/ (Cleanable(u) /\ StillValid(u, s, NoBranch))
<1>1. n \in Nat
  BY CountIsNumber
<1>2. IsAdopted(f, s, kids, p, n)
  BY <1>1, AdoptedExists
<1>3. t = f[n]
  BY DEF Adopt, IsAdopted
<1> HIDE DEF n, f
<1> DEFINE T == {i \in 0..n : ~ Right(f[i])}
<1>4. ASSUME NEW i \in T PROVE i # 0 /\ i - 1 \in T
  <2>1. f[0] = s
    BY <1>1, <1>2 DEF IsAdopted
  <2>2. i # 0 /\ i - 1 \in 0..n
    BY <1>1, <2>1 DEF Onward, StillValid
  <2>3. f[i] = IF i \in DOMAIN kids THEN SetParent(f[i-1], kids[i], p) ELSE f[i-1]
    BY <1>2, <2>2 DEF IsAdopted
  <2> DEFINE u == f[i-1]
             v == f[i]
             c == kids[i]
  <2>4. ASSUME Right(u) PROVE Right(v)
    <3>1. CASE i \in DOMAIN kids
      <4>1. v = SetParent(u, c, p) /\ (~ u.failed => c \notin G /\ In(p, G))
        BY <2>3, <2>4, <3>1 DEF Onward
      <4> HIDE DEF u, v, c
      <4>2. Kept(v, G) /\ Onward(v, u) /\ Onward(v, s)
        <5>1. Kept(v, G) /\ Onward(v, u)
          BY <2>4, <4>1, SetParentKeeps
        <5> QED BY <2>4, <5>1, OnwardIsTransitive
      <4>3. CASE u.failed = TRUE
        <5>1. v = Fail(u)
          BY <4>1, <4>3 DEF SetParent
        <5>2. v.failed = TRUE
          BY <2>4, <5>1, FailKeeps
        <5> QED BY <4>2, <5>2
      <4>4. CASE u.failed # TRUE
        <5>1. Cleanable(u) /\ StillValid(u, s, NoBranch)
          BY <2>4, <4>4
        <5>2. v.failed = TRUE \/ (Cleanable(v) /\ StillValid(v, u, NoBranch))
          BY <2>4, <4>1, <5>1, SetParentCleans
        <5> QED BY <4>2, <5>1, <5>2 DEF StillValid
      <4> QED BY <4>3, <4>4
    <3>2. CASE i \notin DOMAIN kids
      BY <2>3, <2>4, <3>2
    <3> QED BY <3>1, <3>2
  <2> QED BY <2>2, <2>4
<1>5. T \subseteq Nat
  BY <1>1
<1>6. T = {}
  <2> HIDE DEF T
  <2> QED BY <1>4, <1>5, EveryNumber
<1>7. n \in 0..n
  BY <1>1
<1> QED BY <1>3, <1>6, <1>7

\* The branch b is deleted.
LEMMA DeleteDataCleans ==
  ASSUME NEW G, NEW s, Kept(s, G), Cleanable(s), NEW b, NEW t, t = DeleteAllBranchData(s, b)
  PROVE  t.failed = TRUE \/ (Cleanable(t) /\ StillValid(t, s, b))
<1> DEFINE p == s.cache[b].parent
           kids == Without(s.cache[p].children, b)
           left == [s EXCEPT !.cache[p].children = kids]
<1>1. CASE s.failed \/ ~Valid(s, b)
  <2>1. t = Fail(s)
    BY <1>1 DEF DeleteAllBranchData
  <2> QED BY <2>1, FailKeeps
<1>2. CASE ~ (s.failed \/ ~Valid(s, b))
  <2>1. b \in Branches /\ p \in Branches /\ s.meta[b].parent = p /\ IsSession(s)
    BY <1>2 DEF Valid, HasResult, Cleanable, Kept, Sound, Named, Followed
  <2>2. t = IF IsCheckedOut(s, b) THEN Fail(left) ELSE Forget(left, b)
    BY <1>2 DEF DeleteAllBranchData
  <2>3. kids \in Seq(Branches) /\ ToSet(kids) = ToSet(s.cache[p].children) \ {b}
    BY <2>1, SetOfWithout DEF Cleanable, Lists
  <2>4. \A c \in Branches : /\ left.cache[c].result = s.cache[c].result
                            /\ left.cache[c].parent = s.cache[c].parent
                            /\ left.cache[c].children = IF c = p THEN kids ELSE s.cache[c].children
    BY <2>1 DEF IsSession, IsCache, IsEntry
  <2>5. left.meta = s.meta /\ DOMAIN left = DOMAIN s /\ DOMAIN left.cache = Branches
    BY <2>1 DEF IsSession, IsCache
  <2> HIDE DEF left, kids, p
  <2>6. CASE IsCheckedOut(s, b)
    BY <2>1, <2>2, <2>5, <2>6 DEF Fail, IsSession
  <2>7. CASE ~ IsCheckedOut(s, b)
    <3>1. t = [left EXCEPT !.refs[b] = NoCommit, !.meta[b] = NoMeta, !.cache[b] = NoEntry]
      BY <2>2, <2>7 DEF Forget
    <3>2. \A c \in Branches : t.cache[c] = IF c = b THEN NoEntry ELSE left.cache[c]
      BY <2>1, <2>5, <3>1 DEF IsSession
    <3>3. \A c \in Branches \ {b} : t.meta[c] = s.meta[c]
      BY <2>1, <2>5, <3>1 DEF IsSession, IsDisk
    <3>4. NoEntry.result = "NONE" /\ NoEntry.children = <<>> /\ ToSet(NoEntry.children) = {}
          /\ NoEntry.children \in Seq(Branches)
      BY DEF NoEntry, ToSet
    <3>5. ASSUME NEW x \in Branches
          PROVE  /\ t.cache[x].children \in Seq(Branches)
                 /\ ToSet(t.cache[x].children)
                    = IF x = b THEN {} ELSE IF x = p THEN ToSet(s.cache[x].children) \ {b}
                                            ELSE ToSet(s.cache[x].children)
      <4>1. CASE x = b
        BY <3>2, <3>4, <4>1
      <4>2. CASE x # b
        BY <2>3, <2>4, <3>2, <4>2 DEF Cleanable, Lists
      <4> QED BY <4>1, <4>2
    <3>6. ASSUME NEW x \in Branches, NEW c \in ToSet(t.cache[x].children) PROVE t.meta[c].parent = x
      <4>1. c \in ToSet(s.cache[x].children) /\ x # b /\ (x = p => c # b)
        BY <3>5
      <4>2. c \in Branches /\ s.meta[c].parent = x
        BY <4>1, ChildIsBranch DEF Cleanable, Listed
      <4> QED BY <2>1, <3>3, <4>1, <4>2
    <3>7. ASSUME NEW c \in Branches, Valid(t, c) PROVE c # Trunk /\ t.cache[c].parent \in Branches
      BY <2>4, <3>2, <3>4, <3>7 DEF Valid, HasResult, Cleanable
    <3>8. StillValid(t, s, b)
      BY <2>4, <3>2 DEF StillValid, Valid, HasResult
    <3> QED BY <3>5, <3>6, <3>7, <3>8 DEF Cleanable, Lists, Listed
  <2> QED BY <2>6, <2>7
<1> QED BY <1>1, <1>2

LEMMA DeleteCleans ==
  ASSUME NEW s, Sound(s), s.failed = FALSE, Cleanable(s), NEW b, NEW t, t = DeleteBranch(s, b)
  PROVE  Sound(t) /\ (t.failed = TRUE \/ (Cleanable(t) /\ StillValid(t, s, b)))
<1> DEFINE parent == s.cache[b].parent
           kids == EveryOther(s.cache[b].children)
           away == IF b = s.current THEN CheckoutBranch(s, parent) ELSE s
           moved == Adopt(away, kids, parent)
           G == Off(s.meta, b)
<1>1. CASE ~Valid(s, b)
  <2>1. t = Fail(s)
    BY <1>1 DEF DeleteBranch
  <2>2. Kept(s, {})
    BY SoundIsKept
  <2> QED BY <2>1, <2>2, FailKeeps DEF Kept
<1>2. CASE Valid(s, b)
  <2>1. t = DeleteAllBranchData(moved, b) /\ b \in Branches /\ parent \in Branches /\ b # Trunk
    BY <1>2 DEF DeleteBranch, Valid, HasResult, Cleanable
  <2>2. Kept(s, G) /\ \A i \in DOMAIN kids : kids[i] \notin G /\ In(parent, G)
    <3>1. \A i \in DOMAIN kids : kids[i] \in ToSet(s.cache[b].children)
      BY <2>1, EveryOtherIsOfThem DEF Sound, Lists
    <3>2. \A i \in DOMAIN kids : kids[i] \in Branches /\ s.meta[kids[i]].parent = b
      BY <2>1, <3>1, ChildIsBranch DEF Listed, Sound, Cleanable
    <3> HIDE DEF kids
    <3> QED BY <1>2, <2>1, <3>2, OffValid
  <2>a. away \in {s, Fail(s), [s EXCEPT !.head = parent, !.current = parent]}
    BY DEF CheckoutBranch
  <2> HIDE DEF G, kids, parent
  <2>3. Kept(away, G) /\ away.cache = s.cache /\ away.meta = s.meta
    <3>1. Kept(away, G)
      BY <2>2, CheckoutKeeps
    <3>2. CheckoutBranch(s, parent).cache = s.cache /\ CheckoutBranch(s, parent).meta = s.meta
      BY <2>2, CheckoutKeeps
    <3> QED BY <3>1, <3>2
  <2>4. away.failed \in BOOLEAN
    <3>1. Fail(s).failed = TRUE
      BY <2>2, FailKeeps
    <3>2. [s EXCEPT !.head = parent, !.current = parent].failed = s.failed
      BY DEF Sound, IsSession
    <3> HIDE DEF away
    <3> QED BY <2>a, <3>1, <3>2
  <2> HIDE DEF away
  <2>5. Cleanable(away) /\ \A c : Valid(away, c) <=> Valid(s, c)
    BY <2>3 DEF Cleanable, Lists, Listed, Valid, HasResult
  <2>6. Kept(moved, G)
    BY <2>2, <2>3, AdoptKeeps
  <2>7. moved.failed = TRUE \/ (Cleanable(moved) /\ StillValid(moved, away, NoBranch))
    BY <2>1, <2>2, <2>3, <2>4, <2>5, AdoptCleans
  <2> HIDE DEF moved
  <2>8. Kept(t, G)
    BY <2>1, <2>6, DeleteDataKeeps
  <2>9. CASE moved.failed = TRUE
    <3>1. t = Fail(moved)
      BY <2>1, <2>9 DEF DeleteAllBranchData
    <3>2. t.failed = TRUE
      BY <2>6, <3>1, FailKeeps
    <3> QED BY <2>8, <3>2 DEF Kept
  <2>10. CASE Cleanable(moved) /\ StillValid(moved, away, NoBranch)
    <3>1. t.failed = TRUE \/ (Cleanable(t) /\ StillValid(t, moved, b))
      BY <2>1, <2>6, <2>10, DeleteDataCleans
    <3>2. StillValid(t, moved, b) => StillValid(t, s, b)
      BY <2>5, <2>10, BranchNames DEF StillValid
    <3> QED BY <2>8, <3>1, <3>2 DEF Kept
  <2> QED BY <2>7, <2>9, <2>10
<1> QED BY <1>1, <1>2

\* What a rebase has done is recorded: no parent is different.
SameParents(new, old) == \A c \in Branches : new[c].parent = old[c].parent

LEMMA RecordKeeps ==
  ASSUME NEW s, Sound(s), NEW b, NEW base, NEW t, t = HandleSuccessfulRebase(s, b, base)
  PROVE  /\ Sound(t) /\ SameParents(t.meta, s.meta)
         /\ Cleanable(s) => t.failed = TRUE \/ (Cleanable(t) /\ StillValid(t, s, NoBranch))
<1> DEFINE e == [s.cache[b] EXCEPT !.rev = s.refs[b], !.prev = base]
           done == UpdateMeta(s, b, e)
           q == s.cache[b].parent
<1>1. CASE ~Valid(s, b)
  <2>1. t = Fail(s)
    BY <1>1 DEF HandleSuccessfulRebase
  <2>2. Sound(t) /\ t.meta = s.meta /\ t.failed = TRUE
    BY <2>1, SoundIsKept DEF Fail, Sound, IsSession
  <2> QED BY <2>2 DEF SameParents
<1>2. CASE Valid(s, b)
  <2>1. t = done \/ t = [done EXCEPT !.head = s.current]
    BY <1>2 DEF HandleSuccessfulRebase
  <2>2. b \in Branches /\ s.meta[b].parent = q /\ s.cache[b].result = "VALID"
    BY <1>2 DEF Valid, HasResult, Sound, Named, Followed
  <2>3. /\ IsEntry(e) /\ e.result = "VALID" /\ e.children \in Seq(Branches) /\ e.parent = q
        /\ e.children = s.cache[b].children
    BY <2>2 DEF IsEntry, Sound, IsSession, IsCache, Lists
  <2>4. Kept(s, {}) /\ IsSession(s) /\ Named(s) /\ Lists(s)
    BY SoundIsKept DEF Sound
  <2>5. Cleanable(s) => q \in Branches
    BY <1>2, <2>2 DEF Cleanable
  <2> HIDE DEF e, q
  <2>6. Kept(done, {})
    BY <2>2, <2>3, <2>4, UpdateKeeps
  <2>7. SameParents(done.meta, s.meta)
    <3>1. \A c \in Branches : done.meta[c].parent = IF c = b THEN q ELSE s.meta[c].parent
      BY <2>2, <2>3, <2>4, UpdateEffect
    <3> HIDE DEF done
    <3> QED BY <2>2, <3>1 DEF SameParents
  <2>8. Cleanable(s) => Cleanable(done) /\ StillValid(done, s, NoBranch)
    BY <1>2, <2>3, <2>4, <2>5, UpdateCleans
  <2> HIDE DEF done
  <2>9. Sound(t) /\ t.meta = done.meta /\ t.cache = done.cache
    <3>1. Sound([done EXCEPT !.head = s.current])
      BY <2>6, HeadMoves DEF Kept
    <3> QED BY <2>1, <2>6, <3>1 DEF Kept, Sound, IsSession
  <2> QED BY <2>7, <2>8, <2>9 DEF SameParents, Cleanable, Lists, Listed, StillValid, Valid, HasResult
<1> QED BY <1>1, <1>2

\* What get fetches goes onto what it has dealt with.
LEMMA FetchKeeps ==
  ASSUME NEW G, NEW s, Kept(s, G), NEW b \in Branches, b \notin G, NEW p, In(p, G), NEW f,
         NEW t, t = CheckoutFromFetched(s, b, p, f)
  PROVE  Kept(t, G) /\ (t.failed = TRUE \/ (b \in Others => Whole(t.meta, G \cup {b})))
<1> DEFINE u == [s EXCEPT !.refs[b] = f.head, !.head = b, !.current = b]
           e == [result |-> "VALID", parent |-> p, prev |-> f.base, rev |-> f.head, children |-> <<>>]
<1>1. t = Fail(s) \/ t = UpdateMeta(u, b, e)
  BY DEF CheckoutFromFetched
<1>2. DOMAIN u = DOMAIN s /\ u.cache = s.cache /\ u.meta = s.meta /\ DOMAIN u.refs = Branches
  BY DEF Kept, Sound, IsSession, IsDisk
<1>3. IsEntry(e) /\ e.result = "VALID" /\ e.children \in Seq(Branches) /\ e.parent = p
  BY DEF IsEntry
<1> HIDE DEF u, e
<1>4. Kept(u, G)
  BY <1>2, OtherRefsKeep
<1>5. CASE t = Fail(s)
  BY <1>5, FailKeeps
<1>6. CASE t = UpdateMeta(u, b, e)
  <2>1. Kept(t, G) /\ (b \in Others /\ In(p, G) => Whole(t.meta, G \cup {b}))
    BY <1>3, <1>4, <1>6, UpdateKeeps
  <2> QED BY <2>1
<1> QED BY <1>1, <1>5, <1>6

\* The step of NewParent.
OverMarked(v) == [p \in Branches |-> IF ~IsMarked(p) THEN p ELSE v[cache[p].parent]]

\* The nearest ancestor that is not marked is off the branch.
LEMMA NewParentIsOff ==
  ASSUME Sound(Session), Cleanable(Session), \A m \in Branches : IsMarked(m) => Valid(Session, m),
         NEW b, Valid(Session, b)
  PROVE  NewParent(b) \in Branches /\ In(NewParent(b), Off(meta, b))
<1> DEFINE n == Cardinality(Branches)
           W == [Branches -> Branches]
           first == [p \in Branches |-> p]
           Is(f) == f = [i \in 0..n |->
                          [p \in Branches |->
                            IF i = 0 \/ ~IsMarked(p) THEN p ELSE f[i-1][cache[p].parent]]]
           step == [i \in 1..n |-> [v \in W |-> OverMarked(v)]]
           O == Off(meta, b)
<1>1. n \in Nat
  BY CountIsNumber
<1>2. first \in W
  OBVIOUS
<1>3. NewParent(b) = (CHOOSE h : Is(h))[n][cache[b].parent]
  BY DEF NewParent
<1>a. Session.cache = cache /\ Session.meta = meta
  BY DEF Session
<1>b. \A p \in Branches : IsMarked(p) =>
        /\ p \in Others /\ cache[p].parent \in Branches /\ meta[p].parent = cache[p].parent
  BY <1>a, OffValid DEF Cleanable
<1>4. \A v \in W : OverMarked(v) \in W
  BY <1>b DEF OverMarked
<1>c. cache[b].parent \in Branches /\ Whole(meta, O) /\ In(cache[b].parent, O)
  <2>1. b \in Branches /\ b # Trunk
    BY <1>a DEF Cleanable, Valid, HasResult
  <2> QED BY <1>a, <2>1, OffValid DEF Cleanable, Kept
<1> HIDE DEF n, W, O
<1>5. StaysIn(n, W, step) /\ \A i \in 1..n : \A v \in W : step[i][v] = OverMarked(v)
  BY <1>4 DEF StaysIn
<1>d. first = [p \in Branches |-> p]
  OBVIOUS
<1> HIDE DEF step, first
<1>6. HasValues(n, W, first, step)
  BY <1>1, <1>2, <1>5, RecursionExists
<1>7. PICK g \in [0..n -> W] : g[0] = first /\ \A i \in 1..n : g[i] = step[i][g[i-1]]
  BY <1>6 DEF HasValues
<1>8. ASSUME NEW f, f = [i \in 0..n |-> f[i]]
      PROVE  Is(f) <=> f[0] = first /\ \A i \in 1..n : f[i] = OverMarked(f[i-1])
  <2>1. \A i \in 0..n : i # 0 => i \in 1..n
    BY <1>1
  <2>2. \A i \in 1..n : i \in 0..n /\ i # 0
    BY <1>1
  <2>3. 0 \in 0..n
    BY <1>1
  <2> DEFINE val(i) == [p \in Branches |->
                         IF i = 0 \/ ~IsMarked(p) THEN p ELSE f[i-1][cache[p].parent]]
  <2>4. val(0) = first
    BY <1>d
  <2>5. \A i \in 1..n : val(i) = OverMarked(f[i-1])
    BY <2>2 DEF OverMarked
  <2>6. Is(f) <=> f = [i \in 0..n |-> val(i)]
    OBVIOUS
  <2> HIDE DEF Is, val
  <2>7. f = [i \in 0..n |-> val(i)] <=> \A i \in 0..n : f[i] = val(i)
    BY <1>8, Zenon
  <2> QED BY <2>1, <2>2, <2>3, <2>4, <2>5, <2>6, <2>7
<1>9. Is(g)
  <2>1. \A i \in 1..n : g[i] = OverMarked(g[i-1])
    <3> TAKE i \in 1..n
    <3>1. g[i-1] \in W
      BY <1>1, <1>7
    <3> QED BY <1>5, <1>7, <3>1
  <2>2. g = [i \in 0..n |-> g[i]]
    BY <1>7
  <2> HIDE DEF Is
  <2> QED BY <1>7, <1>8, <2>1, <2>2
<1> DEFINE f == CHOOSE h : Is(h)
<1>10. Is(f)
  BY <1>9
<1>11. f = [i \in 0..n |-> f[i]]
  <2> DEFINE v(i) == [p \in Branches |->
                       IF i = 0 \/ ~IsMarked(p) THEN p ELSE f[i-1][cache[p].parent]]
  <2>1. f = [i \in 0..n |-> v(i)]
    BY <1>10
  <2> HIDE DEF f, Is, v
  <2> QED BY <2>1
<1> HIDE DEF f, Is
<1>12. f[0] = first /\ \A i \in 1..n : f[i] = OverMarked(f[i-1])
  BY <1>8, <1>10, <1>11
<1> DEFINE Right(v) == v \in W /\ \A p \in Branches : In(p, O) => In(v[p], O)
           T == {i \in 0..n : ~ Right(f[i])}
<1>13. ASSUME NEW i \in T PROVE i # 0 /\ i - 1 \in T
  <2>1. i # 0
    BY <1>2, <1>12, <1>d
  <2>2. i \in 1..n /\ i - 1 \in 0..n
    BY <1>1, <2>1
  <2>3. ASSUME NEW v, Right(v) PROVE Right(OverMarked(v))
    <3>1. OverMarked(v) \in W
      BY <1>4, <2>3
    <3>2. ASSUME NEW p \in Branches, In(p, O) PROVE In(OverMarked(v)[p], O)
      <4>1. CASE ~IsMarked(p)
        BY <3>2, <4>1 DEF OverMarked
      <4>2. CASE IsMarked(p)
        <5>1. cache[p].parent \in Branches /\ In(cache[p].parent, O)
          BY <1>b, <1>c, <3>2, <4>2 DEF Whole, In
        <5>2. OverMarked(v)[p] = v[cache[p].parent]
          BY <4>2 DEF OverMarked
        <5> QED BY <2>3, <5>1, <5>2
      <4> QED BY <4>1, <4>2
    <3> QED BY <3>1, <3>2
  <2>4. f[i] = OverMarked(f[i-1])
    BY <1>12, <2>2
  <2> HIDE DEF Right
  <2> QED BY <2>1, <2>2, <2>3, <2>4
<1>14. T \subseteq Nat
  BY <1>1
<1>15. T = {}
  <2> HIDE DEF T
  <2> QED BY <1>13, <1>14, EveryNumber
<1>16. f[n] \in W /\ \A p \in Branches : In(p, O) => In(f[n][p], O)
  <2>1. n \in 0..n
    BY <1>1
  <2> QED BY <1>15, <2>1
<1>17. NewParent(b) = f[n][cache[b].parent]
  BY <1>3 DEF f, Is
<1> QED BY <1>16, <1>17, <1>c DEF W, O

----------------------------------------------------------------------------
(***************************************************************************)
(* The inductive invariant                                                 *)
(***************************************************************************)
\* The branches of list can be put on p, each on the one before.
Open(stored, p, list) ==
  /\ list \in Seq(Branches) /\ IsInjective(list)
  /\ \E G \in SUBSET Others : Whole(stored, G) /\ In(p, G) /\ ToSet(list) \cap G = {}

\* A branch that is marked for deletion is valid until it is deleted.
CleansInOrder ==
  /\ Cleanable(Session)
  /\ {"toProcess", "marked", "blockers", "unblocked", "moved", "doomed"} \subseteq DOMAIN clean
  /\ clean.marked \in Seq(Branches)
  /\ \A m \in ToSet(clean.marked) : Valid(Session, m)

GetsInOrder ==
  /\ process \in {"get", "continue"}
  /\ {"toSync", "parent", "synced"} \subseteq DOMAIN get
  /\ get.toSync # <<>> => Open(meta, get.parent, get.toSync)

ContinuesInOrder ==
  rebase # NoRebase /\ cont # NoCont /\ cont.sync # <<>> => Open(meta, cont.current, cont.sync)

ProcessInOrder ==
  /\ process # "none" => Sound(Session)
  /\ process = "split" => Fresh(Session) /\ Valid(Session, current)
  /\ process = "clean" => CleansInOrder
  /\ get # NoSync => GetsInOrder

RemoteInOrder == remote.downstack \in Seq(Branches) /\ IsInjective(remote.downstack)

MayHoldRebase == process # "none" /\ rebase # NoRebase => "commandDuringRebase" \in features

InOrder == Grounded(meta) /\ ContinuesInOrder /\ ProcessInOrder /\ RemoteInOrder /\ MayHoldRebase

GroundInv == SyncsUndisturbed => InOrder

LEMMA OpenStays ==
  ASSUME NEW old, NEW new, Loosened(new, old), NEW p, NEW list, Open(old, p, list)
  PROVE  Open(new, p, list)
BY LooseningKeeps DEF Open

LEMMA SameParentsLoosen ==
  ASSUME NEW old, NEW new, SameParents(new, old)
  PROVE  Loosened(new, old)
BY DEF SameParents, Loosened

\* The first of the list is put on p, or is on it, and the others are put on it.
LEMMA OpenGoesOn ==
  ASSUME NEW list \in Seq(Branches), IsInjective(list), list # <<>>, NEW new, NEW G \in SUBSET Others,
         Whole(new, G), Head(list) \in Others => Whole(new, G \cup {Head(list)}),
         ToSet(list) \cap G = {}
  PROVE  Open(new, Head(list), Tail(list))
<1> DEFINE b == Head(list)
           H == IF b \in Others THEN G \cup {b} ELSE G
           rest == Tail(list)
<1>1. /\ Len(list) \in Nat /\ DOMAIN list = 1..Len(list) /\ Len(list) # 0 /\ b = list[1]
      /\ rest \in Seq(Branches) /\ DOMAIN rest = 1..(Len(list) - 1)
      /\ \A i \in 1..(Len(list) - 1) : rest[i] = list[i+1] /\ i + 1 \in 1..Len(list) /\ i + 1 # 1
  OBVIOUS
<1> HIDE DEF b, rest
<1>2. IsInjective(rest)
  <2> SUFFICES ASSUME NEW i \in 1..(Len(list) - 1), NEW j \in 1..(Len(list) - 1), rest[i] = rest[j]
               PROVE  i = j
    BY <1>1 DEF IsInjective
  <2>1. list[i+1] = list[j+1] /\ i + 1 \in DOMAIN list /\ j + 1 \in DOMAIN list
    BY <1>1
  <2>2. i + 1 = j + 1
    BY <2>1 DEF IsInjective
  <2> QED BY <1>1, <2>2
<1>3. ToSet(rest) \cap H = {}
  <2> SUFFICES ASSUME NEW i \in DOMAIN rest PROVE rest[i] \notin H
    BY DEF ToSet
  <2>1. rest[i] \in ToSet(list)
    BY <1>1 DEF ToSet
  <2>2. rest[i] # b
    BY <1>1 DEF IsInjective
  <2> QED BY <2>1, <2>2
<1>4. H \in SUBSET Others /\ Whole(new, H) /\ In(b, H)
  BY DEF In, b
<1> QED BY <1>1, <1>2, <1>3, <1>4 DEF Open, b, rest

\* A list is open to begin with where nothing has been put in order yet.
LEMMA OpenAtFirst ==
  ASSUME NEW stored, NEW list \in Seq(Branches), IsInjective(list)
  PROVE  Open(stored, Trunk, list)
<1>1. Whole(stored, {}) /\ In(Trunk, {}) /\ ToSet(list) \cap {} = {}
  BY DEF Whole, In, Others
<1> QED BY <1>1 DEF Open

----------------------------------------------------------------------------
(***************************************************************************)
(* A process begins and ends                                               *)
(***************************************************************************)
\* What is loaded, in an orderly repository.
LEMMA LoadedInOrder ==
  ASSUME WriteInv, Grounded(meta), NEW order \in SiblingOrders, NEW s, s = Loaded(order)
  PROVE  /\ Fresh(s) /\ Levelled(s) /\ s.failed = FALSE /\ Loosened(s.meta, meta)
         /\ s.refs = refs /\ s.rebase = rebase /\ Kept(s, {}) /\ Sound(Fail(s)) /\ Sound(s)
<1>1. order \in Seq(Branches) /\ ToSet(order) = Branches /\ IsDisk(refs, meta)
  BY OrdersListAllBranches DEF WriteInv
<1>2. /\ {"refs", "meta", "head", "rebase", "cache", "current", "failed"} \subseteq DOMAIN s
      /\ s.refs = refs /\ s.meta = LoadedMeta(refs, meta) /\ s.cache = LoadedCache(refs, meta, order)
      /\ s.failed = FALSE /\ s.rebase = rebase
  BY DEF Loaded
<1>3. Fresh(s) /\ Levelled(s)
  BY <1>1, <1>2, LoadedIsFresh
<1>4. \A c \in Branches : LoadedMeta(refs, meta)[c].parent = meta[c].parent
                          \/ LoadedMeta(refs, meta)[c].parent = NoBranch
  BY <1>1 DEF LoadedMeta, NoMeta, IsDisk, IsMeta
<1>5. Loosened(s.meta, meta)
  BY <1>2, <1>4, BranchNames DEF Loosened
<1> QED BY <1>2, <1>3, <1>5, SoundIsKept DEF Fresh

LEMMA SoundSession ==
  ASSUME NEW s, Sound(s), refs' = s.refs, meta' = s.meta, cache' = s.cache
  PROVE  Sound(Session')
<1>1. Session'.refs = s.refs /\ Session'.meta = s.meta /\ Session'.cache = s.cache
      /\ {"refs", "meta", "head", "rebase", "cache", "current", "failed"} \subseteq DOMAIN Session'
  BY DEF Session
<1> DEFINE t == Session'
<1>2. t.refs = s.refs /\ t.meta = s.meta /\ t.cache = s.cache
      /\ {"refs", "meta", "head", "rebase", "cache", "current", "failed"} \subseteq DOMAIN t
  BY <1>1
<1> HIDE DEF t
<1>3. Sound(t)
  BY <1>2 DEF Sound, IsSession, Named, Lists
<1> QED BY <1>3 DEF t

LEMMA FreshSession ==
  ASSUME NEW s, Fresh(s), refs' = s.refs, meta' = s.meta, cache' = s.cache
  PROVE  Fresh(Session') /\ \A b : Valid(s, b) => Valid(Session', b)
<1> DEFINE t == Session'
<1>1. t.refs = s.refs /\ t.meta = s.meta /\ t.cache = s.cache
  BY DEF Session
<1>2. Sound(t)
  BY SoundSession DEF Fresh
<1> HIDE DEF t
<1>3. Fresh(t) /\ \A b : Valid(s, b) => Valid(t, b)
  BY <1>1, <1>2 DEF Fresh, Valid, ValidOrTrunk, HasResult, Listed
<1> QED BY <1>3 DEF t

LEMMA CleanableSession ==
  ASSUME NEW s, Cleanable(s), meta' = s.meta, cache' = s.cache
  PROVE  Cleanable(Session') /\ \A b : Valid(s, b) => Valid(Session', b)
<1> DEFINE t == Session'
<1>1. t.meta = s.meta /\ t.cache = s.cache
  BY DEF Session
<1> HIDE DEF t
<1>2. Cleanable(t) /\ \A b : Valid(s, b) => Valid(t, b)
  BY <1>1 DEF Cleanable, Lists, Listed, Valid, HasResult
<1> QED BY <1>2 DEF t

\* The process is over.
LEMMA EndInOrder ==
  ASSUME RemoteInOrder, UNCHANGED remote, EndProcess, get' = NoSync, Grounded(meta'),
         ContinuesInOrder'
  PROVE  InOrder'
BY DEF InOrder, RemoteInOrder, EndProcess, ProcessInOrder, MayHoldRebase

\* What is left to sync, where a process may run in the middle of a rebase.
LEMMA SyncIsLeft ==
  ASSUME RebaseInv, SyncsUndisturbed, UNCHANGED features, cont' = LoadedCont, rebase' = rebase,
         rebase # NoRebase => "commandDuringRebase" \in features
  PROVE  ContinuesInOrder'
BY DEF ContinuesInOrder, RebaseInv, SyncsUndisturbed, LoadedCont

\* A process begins, and it is not one with local variables.
LEMMA BeginInOrder ==
  ASSUME RebaseInv, InOrder, SyncsUndisturbed, UNCHANGED remote, GetGoesOn, process = "none",
         rebase # NoRebase => "commandDuringRebase" \in features,
         NEW s, Sound(s), NEW q, NEW patches, Begin(s, q, patches)
  PROVE  InOrder'
<1>1. get' = NoSync
  BY DEF InOrder, ProcessInOrder, GetsInOrder, GetGoesOn
<1>2. /\ refs' = s.refs /\ meta' = s.meta /\ rebase' = rebase /\ cont' = LoadedCont /\ UNCHANGED features
      /\ EndProcess \/ (process' = "command" /\ cache' = s.cache)
  BY DEF Begin, BeginAs
<1>3. ContinuesInOrder'
  BY <1>2, SyncIsLeft
<1>4. Grounded(meta')
  BY <1>2 DEF Sound
<1>5. CASE EndProcess
  BY <1>1, <1>3, <1>4, <1>5, EndInOrder DEF InOrder
<1>6. CASE process' = "command" /\ cache' = s.cache
  <2>1. Sound(Session')
    BY <1>2, <1>6, SoundSession
  <2> QED BY <1>1, <1>2, <1>3, <1>4, <1>6, <2>1
          DEF InOrder, ProcessInOrder, RemoteInOrder, MayHoldRebase
<1> QED BY <1>2, <1>5, <1>6

LEMMA CommandInOrder ==
  ASSUME WriteInv, RebaseInv, InOrder, SyncsUndisturbed, UNCHANGED remote, GetGoesOn, Command
  PROVE  InOrder'
<1>1. ASSUME NEW order \in SiblingOrders
      PROVE  /\ Fresh(Loaded(order)) /\ Levelled(Loaded(order)) /\ Kept(Loaded(order), {})
             /\ Sound(Fail(Loaded(order))) /\ Sound(Loaded(order))
  BY LoadedInOrder DEF InOrder
<1>2. ASSUME NEW s, NEW q, NEW patches, Begin(s, q, patches), Sound(s), NEW command, MayRun(command)
      PROVE  InOrder'
  BY <1>2, BeginInOrder DEF MayRun
<1>3. ASSUME NEW s, NEW rev, NEW patches, CommitAndRestack(s, rev, patches), Kept(s, {}),
             NEW command, MayRun(command)
      PROVE  InOrder'
  <2>1. Sound(CommitTo(s, rev))
    BY <1>3, CommitKeeps DEF Kept
  <2> QED BY <1>2, <1>3, <2>1 DEF CommitAndRestack
<1>4. CASE CommitCreate
  BY <1>1, <1>3, <1>4 DEF CommitCreate
<1>5. CASE CommitAmend
  BY <1>1, <1>3, <1>5 DEF CommitAmend
<1>6. CASE Squash
  BY <1>1, <1>3, <1>6 DEF Squash
<1>7. CASE Create
  <2>1a. PICK order \in SiblingOrders, b \in Branches : \E staged, patches :
          Begin(Created(Loaded(order), b, staged), <<>>, patches)
    BY <1>7 DEF Create
  <2>1. PICK staged, patches :
          Begin(Created(Loaded(order), b, staged), <<>>, patches)
    BY <2>1a
  <2> DEFINE s == Loaded(order)
  <2>2. Fresh(s) /\ Kept(s, ValidOnes(s)) /\ (ValidOrTrunk(s, s.current) => In(s.current, ValidOnes(s)))
    BY <1>1, ValidOnesAreWhole
  <2> HIDE DEF s
  <2>3. Kept(Created(s, b, staged), ValidOnes(s))
    BY <2>2, CreatedKeeps
  <2> QED BY <1>2, <1>7, <2>1, <2>3 DEF Create, Kept, s
<1>8. CASE CreateInsert
  <2>1a. PICK order \in SiblingOrders, b \in Branches : \E p, q, patches :
          LET s == Loaded(order)
              t == Created(s, b, <<p>>)
          IN  Begin(Adopt(t, Without(GetChildren(t, s.current), b), b), q, patches)
    BY <1>8 DEF CreateInsert
  <2>1. PICK p, q, patches :
          LET s == Loaded(order)
              t == Created(s, b, <<p>>)
          IN  Begin(Adopt(t, Without(GetChildren(t, s.current), b), b), q, patches)
    BY <2>1a
  <2> DEFINE s == Loaded(order)
             t == Created(s, b, <<p>>)
             u == Adopt(t, Without(GetChildren(t, s.current), b), b)
  <2>2. Sound(u)
    BY <1>1, InsertKeeps
  <2>3. Begin(u, q, patches) /\ MayRun("insert")
    BY <1>8, <2>1 DEF CreateInsert
  <2> HIDE DEF u
  <2> QED BY <1>2, <2>2, <2>3
<1>9. CASE CreateFails
  <2>1. PICK order \in SiblingOrders, b \in Branches :
          LET new == CheckoutNewBranch(Loaded(order), b)
          IN  Begin(Fail(IF new.failed THEN new ELSE DeleteBranch(new, b)), <<>>, own)
    BY <1>9 DEF CreateFails
  <2> DEFINE new == CheckoutNewBranch(Loaded(order), b)
             t == IF new.failed THEN new ELSE DeleteBranch(new, b)
  <2>2. Sound(Fail(t))
    BY <1>1, CreateFailsKeeps
  <2>3. Begin(Fail(t), <<>>, own) /\ MayRun("createFails")
    BY <1>9, <2>1 DEF CreateFails
  <2> HIDE DEF t
  <2> QED BY <1>2, <2>2, <2>3
<1>10. CASE Delete
  <2>1a. PICK order \in SiblingOrders, b \in Branches \ {Trunk} : \E q :
          Begin(DeleteBranch(Loaded(order), b), q, own)
    BY <1>10 DEF Delete
  <2>1. PICK q :
          Begin(DeleteBranch(Loaded(order), b), q, own)
    BY <2>1a
  <2>2. Sound(DeleteBranch(Loaded(order), b))
    <3> DEFINE s == Loaded(order)
    <3>1. Sound(s) /\ Listed(s, b)
      BY <1>1 DEF Fresh
    <3> HIDE DEF s
    <3>2. Sound(DeleteBranch(s, b))
      BY <3>1, DeleteKeeps
    <3> QED BY <3>2 DEF s
  <2> QED BY <1>2, <1>10, <2>1, <2>2 DEF Delete
<1>11. CASE Fold
  <2>1a. PICK order \in SiblingOrders : \E keep, q, patches :
          Begin(FoldCurrentBranch(Loaded(order), keep), q, patches)
    BY <1>11 DEF Fold
  <2>1. PICK keep, q, patches :
          Begin(FoldCurrentBranch(Loaded(order), keep), q, patches)
    BY <2>1a
  <2> QED BY <1>1, <1>2, <1>11, <2>1, FoldKeeps DEF Fold
<1>12. CASE Rename
  <2>1a. PICK order \in SiblingOrders, b \in Branches : \E patches :
          Begin(RenameCurrentBranch(Loaded(order), b), <<>>, patches)
    BY <1>12 DEF Rename
  <2>1. PICK patches :
          Begin(RenameCurrentBranch(Loaded(order), b), <<>>, patches)
    BY <2>1a
  <2>2. Sound(RenameCurrentBranch(Loaded(order), b))
    BY <1>1, RenameKeeps
  <2> QED BY <1>2, <1>12, <2>1, <2>2 DEF Rename
<1>13. CASE Onto
  <2>1a. PICK order \in SiblingOrders : \E p, q :
          LET s == Loaded(order) IN Begin(SetParent(s, s.current, p), q, own)
    BY <1>13 DEF Onto
  <2>1. PICK p, q :
          LET s == Loaded(order) IN Begin(SetParent(s, s.current, p), q, own)
    BY <2>1a
  <2> DEFINE s == Loaded(order)
             b == s.current
             t == SetParent(s, b, p)
  <2>2. Fresh(s) /\ Levelled(s) /\ Sound(Fail(s)) /\ Sound(s)
    BY <1>1
  <2>3. Begin(t, q, own) /\ MayRun("onto")
    BY <1>13, <2>1 DEF Onto
  <2> HIDE DEF s, b
  <2>4. CASE s.failed \/ ~CanBeParent(s, b, p) \/ ~Valid(s, b)
             \/ s.cache[b].parent = p \/ ~ValidOrTrunk(s, p)
    <3>1. t = Fail(s) \/ t = s
      BY <2>4 DEF SetParent
    <3> QED BY <1>2, <2>2, <2>3, <3>1
  <2>5. CASE ~ (s.failed \/ ~CanBeParent(s, b, p) \/ ~Valid(s, b)
                \/ s.cache[b].parent = p \/ ~ValidOrTrunk(s, p))
    <3>1. b # Trunk /\ In(p, Off(s.meta, b))
      BY <2>2, <2>5, NotAbove DEF Fresh, Valid, HasResult
    <3>2. Kept(s, Off(s.meta, b)) /\ b \notin Off(s.meta, b)
      BY <2>2, <2>5, <3>1, OffValid
    <3>3. Sound(t)
      BY <3>1, <3>2, SetParentKeeps DEF Kept
    <3> QED BY <1>2, <2>3, <3>3
  <2> QED BY <2>4, <2>5
<1>14. CASE UnbranchCommand
  <2>1. PICK order \in SiblingOrders : Begin(Unbranch(Loaded(order)), <<>>, own)
    BY <1>14 DEF UnbranchCommand
  <2>2. Sound(Unbranch(Loaded(order)))
    BY <1>1, UnbranchKeeps
  <2> QED BY <1>2, <1>14, <2>1, <2>2 DEF UnbranchCommand
<1>15. CASE Track
  <2>1. PICK order \in SiblingOrders, b \in Branches, p \in Branches :
          Begin(TrackBranch(Loaded(order), b, p), <<>>, own)
    BY <1>15 DEF Track
  <2> DEFINE s == Loaded(order)
  <2>2. Fresh(s) /\ Levelled(s) /\ Sound(s)
    BY <1>1
  <2> HIDE DEF s
  <2>3. CASE Valid(s, b)
    <3>1. b # Trunk
      BY <2>2, <2>3 DEF Fresh
    <3>2. Kept(s, Off(s.meta, b)) /\ b \notin Off(s.meta, b)
      BY <2>2, <2>3, <3>1, OffValid
    <3>3. ValidOrTrunk(s, p) /\ CanBeParent(s, b, p) => In(p, Off(s.meta, b))
      BY <2>2, <2>3, NotAbove
    <3>4. Sound(TrackBranch(s, b, p))
      BY <3>2, <3>3, TrackKeeps DEF Kept
    <3> QED BY <1>2, <1>15, <2>1, <3>4 DEF Track, s
  <2>4. CASE ~ Valid(s, b)
    <3>1. Kept(s, ValidOnes(s)) /\ (ValidOrTrunk(s, p) => In(p, ValidOnes(s))) /\ b \notin ValidOnes(s)
      BY <2>2, <2>4, ValidOnesAreWhole DEF ValidOnes
    <3>2. Sound(TrackBranch(s, b, p))
      BY <3>1, TrackKeeps DEF Kept
    <3> QED BY <1>2, <1>15, <2>1, <3>2 DEF Track, s
  <2> QED BY <2>3, <2>4
<1>16. CASE Untrack
  <2>1. PICK order \in SiblingOrders, b \in Branches : Begin(UntrackBranch(Loaded(order), b), <<>>, own)
    BY <1>16 DEF Untrack
  <2>2. Sound(UntrackBranch(Loaded(order), b))
    BY <1>1, UntrackKeeps
  <2> QED BY <1>2, <1>16, <2>1, <2>2 DEF Untrack
<1>17. CASE Checkout
  <2>1a. PICK order \in SiblingOrders : \E b :
          Begin(CheckoutBranch(Loaded(order), b), <<>>, own)
    BY <1>17 DEF Checkout
  <2>1. PICK b :
          Begin(CheckoutBranch(Loaded(order), b), <<>>, own)
    BY <2>1a
  <2>2. Sound(CheckoutBranch(Loaded(order), b))
    BY <1>1, CheckoutKeeps DEF Kept
  <2> QED BY <1>2, <1>17, <2>1, <2>2 DEF Checkout
<1>18. CASE Restack
  <2>1a. PICK order \in SiblingOrders : \E q :
          Begin(Loaded(order), q, own)
    BY <1>18 DEF Restack
  <2>1. PICK q :
          Begin(Loaded(order), q, own)
    BY <2>1a
  <2> QED BY <1>1, <1>2, <1>18, <2>1 DEF Restack
<1> QED BY <1>4, <1>5, <1>6, <1>7, <1>8, <1>9, <1>10, <1>11, <1>12, <1>13, <1>14, <1>15, <1>16,
           <1>17, <1>18 DEF Command

LEMMA EditInOrder ==
  ASSUME WriteInv, RebaseInv, InOrder, SyncsUndisturbed, UNCHANGED remote, GetGoesOn, Edit
  PROVE  InOrder'
<1>1. ASSUME NEW order \in SiblingOrders
      PROVE  /\ Fresh(Loaded(order)) /\ Levelled(Loaded(order)) /\ Kept(Loaded(order), {})
             /\ Sound(Fail(Loaded(order))) /\ Sound(Loaded(order)) /\ Loosened(Loaded(order).meta, meta)
  BY LoadedInOrder DEF InOrder
<1>2. ASSUME NEW s, NEW q, NEW patches, Begin(s, q, patches), Sound(s), NEW command, MayRun(command)
      PROVE  InOrder'
  BY <1>2, BeginInOrder DEF MayRun
<1>3. ASSUME NEW s, NEW count \in Nat, NEW names \in SplitNames(s, count), NEW revs, Split(s, names, revs),
             Fresh(s), Valid(s, s.current)
      PROVE  Sound(ApplySplitToCommits(s, names, revs))
  BY <1>3, SplitKeeps
<1>a. ASSUME NEW count \in Nat, NEW points \in BranchPoints(count) PROVE Len(points) \in Nat
  BY <1>a DEF BranchPoints
<1>4. CASE SplitByCommit
  <2>1. PICK order \in SiblingOrders : LET s == Loaded(order)
                                           count == Len(OwnRange(s))
          IN  /\ MaySplit(s)
              /\ \E points \in BranchPoints(count) : \E revs : \E names \in SplitNames(s, Len(points)) :
                   Split(s, names, revs)
    BY <1>4 DEF SplitByCommit
  <2> DEFINE s == Loaded(order)
             count == Len(OwnRange(s))
  <2>2. count \in Nat
    BY DEF OwnRange, CommitRange
  <2>3. Fresh(s) /\ Valid(s, s.current) /\ MayRun("split")
    BY <1>1, <2>1 DEF MaySplit
  <2>b. PICK points \in BranchPoints(count) : \E revs : \E names \in SplitNames(s, Len(points)) : Split(s, names, revs)
    BY <2>1
  <2>c. PICK revs : \E names \in SplitNames(s, Len(points)) : Split(s, names, revs)
    BY <2>b
  <2>4. PICK names \in SplitNames(s, Len(points)) : Split(s, names, revs)
    BY <2>c
  <2>5. Len(points) \in Nat
    BY <1>a, <2>2
  <2> HIDE DEF s, count
  <2>6. Sound(ApplySplitToCommits(s, names, revs))
    BY <1>3, <2>3, <2>4, <2>5
  <2> QED BY <1>2, <2>3, <2>4, <2>6 DEF Split
<1>5. CASE SplitByHunk
  <2>1. PICK order \in SiblingOrders : MaySplit(Loaded(order))
                  /\ BeginAs("split", [Loaded(order) EXCEPT !.head = NoBranch], <<>>, own)
    BY <1>5 DEF SplitByHunk
  <2> DEFINE s == Loaded(order)
             t == [s EXCEPT !.head = NoBranch]
  <2>2. Fresh(s) /\ Valid(s, s.current)
    BY <1>1, <2>1 DEF MaySplit
  <2>3. t.refs = s.refs /\ t.meta = s.meta /\ t.cache = s.cache /\ t.current = s.current /\ t.failed = FALSE
    BY DEF Loaded
  <2>4. rebase = NoRebase /\ process = "none"
    BY <2>1 DEF MaySplit, MayRun
  <2> HIDE DEF s
  <2>5. BeginAs("split", t, <<>>, own)
    BY <2>1 DEF s
  <2> HIDE DEF t
  <2>6. /\ refs' = s.refs /\ meta' = s.meta /\ cache' = s.cache /\ current' = s.current
        /\ process' = "split" /\ rebase' = rebase
    BY <2>3, <2>5 DEF BeginAs
  <2>7. Fresh(Session') /\ Valid(Session', s.current)
    BY <2>2, <2>6, FreshSession
  <2>8. get' = NoSync
    BY <2>4 DEF InOrder, ProcessInOrder, GetsInOrder, GetGoesOn
  <2>9. ProcessInOrder'
    BY <2>6, <2>7, <2>8 DEF ProcessInOrder, Fresh
  <2>10. Grounded(meta') /\ ContinuesInOrder' /\ RemoteInOrder' /\ MayHoldRebase'
    BY <2>2, <2>4, <2>6 DEF Fresh, Sound, ContinuesInOrder, RemoteInOrder, MayHoldRebase, InOrder
  <2> QED BY <2>9, <2>10 DEF InOrder
<1>6. CASE HunksCommitted
  <2>1. PICK pieces \in SetToSeqs(ToSet(OwnRange(Session))) :
          \E points \in BranchPoints(Len(pieces)) : \E revs : \E names \in SplitNames(Session, Len(points)) :
            Split(Session, names, revs)
    BY <1>6 DEF HunksCommitted
  <2>2. Fresh(Session) /\ Valid(Session, Session.current) /\ process = "split" /\ get = NoSync
    BY <1>6 DEF HunksCommitted, InOrder, ProcessInOrder, Session, GetsInOrder
  <2>b. PICK points \in BranchPoints(Len(pieces)) :
          \E revs : \E names \in SplitNames(Session, Len(points)) : Split(Session, names, revs)
    BY <2>1
  <2>c. PICK revs : \E names \in SplitNames(Session, Len(points)) : Split(Session, names, revs)
    BY <2>b
  <2>3. PICK names \in SplitNames(Session, Len(points)) : Split(Session, names, revs)
    BY <2>c
  <2>4. Len(points) \in Nat
    BY DEF BranchPoints
  <2> DEFINE s == Session
             t == ApplySplitToCommits(s, names, revs)
  <2>5. /\ BeginAs("command", t, RecursiveChildren(s, s.current), OwnAfterSplit(s, names, revs))
    BY <2>3 DEF Split, Begin
  <2> HIDE DEF s
  <2>6. Sound(t)
    BY <1>3, <2>2, <2>3, <2>4 DEF s
  <2> HIDE DEF t
  <2>7. /\ refs' = t.refs /\ meta' = t.meta /\ rebase' = rebase /\ cont' = LoadedCont /\ UNCHANGED features
        /\ EndProcess \/ (process' = "command" /\ cache' = t.cache)
    BY <2>5 DEF BeginAs
  <2>8. rebase # NoRebase => "commandDuringRebase" \in features
    BY <2>2 DEF InOrder, MayHoldRebase
  <2>9. ContinuesInOrder' /\ Grounded(meta') /\ get' = NoSync
    BY <2>2, <2>6, <2>7, <2>8, SyncIsLeft DEF Sound, GetGoesOn
  <2>10. CASE EndProcess
    BY <2>9, <2>10, EndInOrder DEF InOrder
  <2>11. CASE process' = "command" /\ cache' = t.cache
    <3>1. Sound(Session')
      BY <2>6, <2>7, <2>11, SoundSession
    <3> QED BY <2>7, <2>8, <2>9, <2>11, <3>1 DEF InOrder, ProcessInOrder, RemoteInOrder, MayHoldRebase
  <2> QED BY <2>7, <2>10, <2>11
<1>7. CASE SplitInterrupted
  <2>1. /\ process = "split" /\ EndProcess /\ UNCHANGED <<meta, rebase, cont, features>>
    BY <1>7 DEF SplitInterrupted
  <2>2. get' = NoSync /\ Grounded(meta') /\ ContinuesInOrder'
    BY <2>1 DEF InOrder, ProcessInOrder, GetsInOrder, GetGoesOn, ContinuesInOrder
  <2> QED BY <2>1, <2>2, EndInOrder DEF InOrder
<1>8. CASE EditBranch
  <2>1. PICK order \in SiblingOrders :
          LET s == Loaded(order)
              b == s.current
          IN  /\ MayEdit(s)
              /\ \E rev : refs' = [refs EXCEPT ![b] = rev]
              /\ meta' = s.meta /\ process' = "command" /\ cache' = s.cache /\ UNCHANGED rebase
    BY <1>8 DEF EditBranch
  <2> DEFINE s == Loaded(order)
             t == [s EXCEPT !.refs = refs']
  <2>2. Kept(s, {}) /\ s.refs = refs
    BY <1>1 DEF Loaded
  <2>3. process = "none" /\ rebase = NoRebase
    BY <2>1 DEF MayEdit, MayRun
  <2>4. meta' = s.meta /\ process' = "command" /\ cache' = s.cache /\ UNCHANGED rebase
    BY <2>1
  <2>5. DOMAIN refs' = DOMAIN refs
    BY <2>1
  <2>6. DOMAIN t = DOMAIN s /\ t.cache = s.cache /\ t.meta = s.meta /\ t.refs = refs'
    BY DEF Loaded
  <2> HIDE DEF s, t
  <2>7. DOMAIN t.refs = Branches
    BY <2>2, <2>5, <2>6 DEF Kept, Sound, IsSession, IsDisk
  <2>8. Kept(t, {})
    BY <2>2, <2>6, <2>7, OtherRefsKeep
  <2>9. Sound(Session') /\ Grounded(meta')
    BY <2>4, <2>6, <2>8, SoundSession DEF Kept, Sound
  <2>10. get' = NoSync
    BY <2>3 DEF InOrder, ProcessInOrder, GetsInOrder, GetGoesOn
  <2> QED BY <2>3, <2>4, <2>9, <2>10
          DEF InOrder, ProcessInOrder, RemoteInOrder, MayHoldRebase, ContinuesInOrder
<1>9. CASE EditStops
  <2>1. PICK order \in SiblingOrders : /\ meta' = Loaded(order).meta /\ EndProcess
                                       /\ MayEdit(Loaded(order))
                                       /\ cont' = LoadedCont \/ cont'.sync = <<>>
    BY <1>9 DEF EditStops
  <2>2. Grounded(meta')
    BY <1>1, <2>1 DEF Sound
  <2>3. rebase = NoRebase /\ process = "none"
    BY <2>1 DEF MayEdit, MayRun
  <2>4. ContinuesInOrder'
    BY <2>1, <2>3 DEF ContinuesInOrder, LoadedCont
  <2>5. get' = NoSync
    BY <2>3 DEF InOrder, ProcessInOrder, GetsInOrder, GetGoesOn
  <2> QED BY <2>1, <2>2, <2>4, <2>5, EndInOrder DEF InOrder
<1>10. CASE GitContinue
  <2>1. process = "none" /\ process' = "none" /\ meta' = meta /\ rebase' = NoRebase
    BY <1>10 DEF GitContinue, MayGit, session
  <2>2. get' = NoSync
    BY <2>1 DEF InOrder, ProcessInOrder, GetsInOrder, GetGoesOn
  <2> QED BY <2>1, <2>2 DEF InOrder, ProcessInOrder, RemoteInOrder, MayHoldRebase, ContinuesInOrder
<1>11. CASE EditDownstack
  <2>1. PICK order \in SiblingOrders, typo \in BOOLEAN :
          \E names \in EditedOrders(Loaded(order)) : \E q :
            IF typo THEN Begin(Fail(Reordered(Loaded(order), names)), <<>>, own)
            ELSE Begin(CheckoutBranch(Reordered(Loaded(order), names), Last(names)), q, own)
    BY <1>11 DEF EditDownstack
  <2>aa. PICK names \in EditedOrders(Loaded(order)) : \E q :
          IF typo THEN Begin(Fail(Reordered(Loaded(order), names)), <<>>, own)
          ELSE Begin(CheckoutBranch(Reordered(Loaded(order), names), Last(names)), q, own)
    BY <2>1
  <2>a. PICK q :
          IF typo THEN Begin(Fail(Reordered(Loaded(order), names)), <<>>, own)
          ELSE Begin(CheckoutBranch(Reordered(Loaded(order), names), Last(names)), q, own)
    BY <2>aa
  <2> DEFINE s == Loaded(order)
             t == Reordered(s, names)
             last == Last(names)
  <2>2. IsInjective(names) /\ \A i \in DOMAIN names : i # 1 => i - 1 \in DOMAIN names
    <3>1. PICK kept \in SUBSET Branches : names \in SetToSeqs(kept)
      BY DEF EditedOrders
    <3> DEFINE n == Cardinality(kept)
    <3>2. n \in Nat
      BY BranchNames, FS_Subset, FS_CardinalityType
    <3>3. IsInjective(names) /\ DOMAIN names = 1..n
      BY <3>1 DEF SetToSeqs, IsInjective
    <3> HIDE DEF n
    <3> QED BY <3>2, <3>3
  <2>3. Sound(s) /\ (Begin(Fail(t), <<>>, own) \/ Begin(CheckoutBranch(t, last), q, own))
    BY <1>1, <2>a
  <2> HIDE DEF s, last
  <2>4. Sound(t)
    BY <2>2, <2>3, ReorderedKeeps
  <2> HIDE DEF t
  <2>5. Sound(Fail(t)) /\ Sound(CheckoutBranch(t, last))
    BY <2>4, SoundIsKept, CheckoutKeeps DEF Kept
  <2> QED BY <1>2, <1>11, <2>3, <2>5 DEF EditDownstack
<1>12. CASE TrackStack
  <2>a. PICK order \in SiblingOrders, b \in Branches :
          \E t \in TrackedStacks(Loaded(order), b) : Begin(t, <<>>, own)
    BY <1>12 DEF TrackStack
  <2>1. PICK t \in TrackedStacks(Loaded(order), b) : Begin(t, <<>>, own)
    BY <2>a
  <2>2. Sound(t)
    BY <1>1, TrackedStacksKeep
  <2> QED BY <1>2, <1>12, <2>1, <2>2 DEF TrackStack
<1>13. CASE Reset
  <2> DEFINE stored == [b \in Branches |-> NoMeta]
             u(order) == [Loaded(order) EXCEPT !.meta = stored,
                                               !.cache = LoadedCache(refs, stored, order)]
  <2>1a. PICK order \in SiblingOrders : \E t :
          t \in {u(order)} \cup Onboarded(u(order)) /\ Begin(t, <<>>, own)
    BY <1>13 DEF Reset
  <2>1. PICK t :
          t \in {u(order)} \cup Onboarded(u(order)) /\ Begin(t, <<>>, own)
    BY <2>1a
  <2> DEFINE s == Loaded(order)
             empty == stored
             v == [s EXCEPT !.meta = empty, !.cache = LoadedCache(s.refs, empty, order)]
  <2>2. u(order) = v
    BY DEF Loaded
  <2>3. empty = [b \in Branches |-> NoMeta] /\ order \in Seq(Branches) /\ Sound(s)
    BY <1>1, OrdersListAllBranches
  <2>4. t = v \/ t \in Onboarded(v)
    BY <2>1, <2>2
  <2> HIDE DEF u, s, empty
  <2>5. Sound(v)
    BY <2>3, ResetIsSound
  <2> HIDE DEF v
  <2>6. Sound(t)
    BY <2>4, <2>5, OnboardedKeep
  <2> QED BY <1>2, <1>13, <2>1, <2>6 DEF Reset
<1>14. CASE Navigate
  <2>1a. PICK order \in SiblingOrders : \E b :
          Begin(CheckoutBranch(Loaded(order), b), <<>>, own)
    BY <1>14 DEF Navigate
  <2>1. PICK b :
          Begin(CheckoutBranch(Loaded(order), b), <<>>, own)
    BY <2>1a
  <2>2. Sound(CheckoutBranch(Loaded(order), b))
    BY <1>1, CheckoutKeeps DEF Kept
  <2> QED BY <1>2, <1>14, <2>1, <2>2 DEF Navigate
<1> QED BY <1>4, <1>5, <1>6, <1>7, <1>8, <1>9, <1>10, <1>11, <1>12, <1>13, <1>14 DEF Edit

LocalsGoOn == IF process' = "none" THEN Locals ELSE UNCHANGED <<clean, get>>

LEMMA EndOnDiskInOrder ==
  ASSUME InOrder, EndProcess, get' = NoSync, UNCHANGED <<meta, remote>>,
         cont' = NoCont \/ cont'.sync = <<>> \/ UNCHANGED <<cont, rebase>>
  PROVE  InOrder'
<1>1. Grounded(meta') /\ ContinuesInOrder'
  BY DEF InOrder, ContinuesInOrder
<1> QED BY <1>1, EndInOrder DEF InOrder

\* The same parents, and the same branches are valid.
LEMMA StackInOrder ==
  ASSUME InOrder, NEW s, Sound(s), SameParents(s.meta, meta), process # "none", process # "split",
         process = "clean" => Cleanable(s) /\ StillValid(s, Session, NoBranch),
         refs' = s.refs, meta' = s.meta, cache' = s.cache,
         UNCHANGED <<process, rebase, cont, features, clean, get, remote>>
  PROVE  InOrder'
<1>1. Sound(Session')
  BY SoundSession
<1>2. Loosened(meta', meta)
  BY SameParentsLoosen
<1>3. Grounded(meta') /\ ContinuesInOrder'
  BY <1>2, OpenStays, LooseningKeeps DEF InOrder, ContinuesInOrder
<1>4. get # NoSync => GetsInOrder'
  BY <1>2, OpenStays DEF InOrder, ProcessInOrder, GetsInOrder
<1>5. CASE process = "clean"
  <2>1. Cleanable(Session') /\ \A m : Valid(s, m) => Valid(Session', m)
    BY <1>5, CleanableSession
  <2>2. \A m \in Branches : Valid(Session, m) => Valid(s, m)
    BY <1>5, BranchNames DEF StillValid
  <2>3. CleansInOrder
    BY <1>5 DEF InOrder, ProcessInOrder
  <2>4. \A m \in ToSet(clean.marked) : m \in Branches
    BY <2>3 DEF CleansInOrder, ToSet
  <2>5. CleansInOrder'
    BY <2>1, <2>2, <2>3, <2>4 DEF CleansInOrder
  <2> QED BY <1>1, <1>3, <1>4, <1>5, <2>5 DEF InOrder, ProcessInOrder, RemoteInOrder, MayHoldRebase
<1>6. CASE process # "clean"
  BY <1>1, <1>3, <1>4, <1>6 DEF InOrder, ProcessInOrder, RemoteInOrder, MayHoldRebase
<1> QED BY <1>5, <1>6

\* Only revisions change.
LEMMA TipsInOrder ==
  ASSUME InOrder, DOMAIN refs' = DOMAIN refs, process # "none", process # "split",
         UNCHANGED <<meta, cache, process, rebase, cont, features, clean, get, remote>>
  PROVE  InOrder'
<1> DEFINE t == [Session EXCEPT !.refs = refs']
<1>1. DOMAIN t = DOMAIN Session /\ t.refs = refs' /\ t.meta = meta /\ t.cache = cache
      /\ Session.refs = refs /\ Session.meta = meta /\ Session.cache = cache
  BY DEF Session
<1>2. Sound(Session)
  BY DEF InOrder, ProcessInOrder
<1>3. Kept(Session, {}) /\ DOMAIN t.refs = Branches
  BY <1>1, <1>2, SoundIsKept DEF Sound, IsSession, IsDisk
<1> DEFINE s == Session
<1> HIDE DEF t, s
<1>4. Kept(t, {})
  BY <1>1, <1>3, OtherRefsKeep DEF s
<1>5. process = "clean" => Cleanable(s)
  BY DEF InOrder, ProcessInOrder, CleansInOrder, s
<1>6. process = "clean" => Cleanable(t) /\ StillValid(t, s, NoBranch)
  BY <1>1, <1>5 DEF Cleanable, Lists, Listed, Valid, HasResult, StillValid, s
<1>7. SameParents(t.meta, meta)
  BY <1>1 DEF SameParents
<1> QED BY <1>1, <1>4, <1>6, <1>7, StackInOrder DEF Kept, s

LEMMA RestackInOrder ==
  ASSUME WriteInv, InOrder, UNCHANGED remote, LocalsGoOn,
         RestackBranches \/ RecordRebase \/ Exit \/ ContinueThrows \/ Crash
  PROVE  InOrder'
<1>1. ASSUME EndProcess, meta' = meta,
             cont' = NoCont \/ cont'.sync = <<>> \/ UNCHANGED <<cont, rebase>>
      PROVE  InOrder'
  <2>1. get' = NoSync
    BY <1>1 DEF EndProcess, LocalsGoOn, Locals
  <2> QED BY <1>1, <2>1, EndOnDiskInOrder
<1>2. CASE RestackBranches
  <2>1. PICK b \in Branches : \/ RestackUnneeded(b) \/ RestackThrows(b) \/ RestackDone(b)
                              \/ RestackConflict(b) \/ RestackBlocked(b)
    BY <1>2 DEF RestackBranches
  <2>2. CASE RestackUnneeded(b)
    <3>1. process # "none" /\ process # "split" /\ UNCHANGED <<refs, meta, cache, rebase, cont, process, features>>
      BY <2>2 DEF RestackUnneeded, Shifts, WriteInv, disk
    <3> QED BY <3>1, TipsInOrder DEF LocalsGoOn
  <2>3. CASE RestackThrows(b)
    BY <2>3, <1>1 DEF RestackThrows, disk
  <2>4. CASE RestackDone(b)
    <3>1. process # "none" /\ process # "split"
      BY <2>4 DEF RestackDone, NeedsRestack, Shifts, WriteInv
    <3>2. DOMAIN refs' = DOMAIN refs /\ UNCHANGED <<meta, cache, process, rebase, cont, features>>
      BY <2>4 DEF RestackDone
    <3> QED BY <3>1, <3>2, TipsInOrder DEF LocalsGoOn
  <2>5. CASE RestackConflict(b)
    BY <2>5, <1>1 DEF RestackConflict, PersistContinuation
  <2>6. CASE RestackBlocked(b)
    BY <2>6, <1>1 DEF RestackBlocked, PersistContinuation
  <2> QED BY <2>1, <2>2, <2>3, <2>4, <2>5, <2>6
<1>3. CASE RecordRebase
  <2> DEFINE s == Session
             t == HandleSuccessfulRebase(s, rebased.branch, rebased.base)
  <2>1. process # "none" /\ process # "split" /\ WrittenBut(s, {rebased.branch})
    BY <1>3 DEF RecordRebase, WriteInv
  <2>2. s.refs = refs /\ s.meta = meta
    BY DEF Session
  <2>3. Sound(s) /\ (process = "clean" => Cleanable(s))
    BY <2>1 DEF InOrder, ProcessInOrder, CleansInOrder
  <2>4. IF t.failed THEN EndProcess /\ UNCHANGED meta
        ELSE meta' = t.meta /\ cache' = t.cache /\ UNCHANGED process
    BY <1>3 DEF RecordRebase
  <2>5. UNCHANGED <<refs, rebase, cont, features>>
    BY <1>3 DEF RecordRebase
  <2> HIDE DEF s
  <2>6. t.refs = s.refs
    BY <2>1, RefsAreLeft DEF WrittenBut
  <2>7. Sound(t) /\ SameParents(t.meta, s.meta)
        /\ (Cleanable(s) => t.failed = TRUE \/ (Cleanable(t) /\ StillValid(t, s, NoBranch)))
    BY <2>3, RecordKeeps
  <2> HIDE DEF t
  <2>8. CASE t.failed
    BY <1>1, <2>4, <2>5, <2>8
  <2>9. CASE ~ t.failed
    BY <2>1, <2>2, <2>3, <2>4, <2>5, <2>6, <2>7, <2>9, StackInOrder DEF LocalsGoOn, s
  <2> QED BY <2>8, <2>9
<1>4. CASE Exit \/ ContinueThrows \/ Crash
  BY <1>4, <1>1 DEF Exit, ContinueThrows, Crash, disk
<1> QED BY <1>2, <1>3, <1>4

LEMMA IdleInOrder ==
  ASSUME WriteInv, RebaseInv, InOrder, UNCHANGED remote, LocalsGoOn,
         NothingToContinue \/ StillInConflict \/ Git
  PROVE  InOrder'
<1>1. Loosened(LoadedMeta(refs, meta), meta)
  <2>1. \A c \in Branches : LoadedMeta(refs, meta)[c].parent = meta[c].parent
                            \/ LoadedMeta(refs, meta)[c].parent = NoBranch
    BY DEF WriteInv, LoadedMeta, NoMeta, IsDisk, IsMeta
  <2> QED BY <2>1, BranchNames DEF Loosened
<1>2. process = "none" /\ process' = "none" /\ get' = NoSync
  BY DEF NothingToContinue, StillInConflict, MayContinue, session, LocalsGoOn, Locals,
         Git, GitAbort, GitCommit, GitAmend, GitPullTrunk, GitDelete, GitBranch, MayGit
<1>3. Grounded(meta') /\ ContinuesInOrder'
  <2>1. CASE NothingToContinue \/ StillInConflict
    <3>1. meta' = LoadedMeta(refs, meta) /\ (cont' = NoCont \/ cont'.sync = <<>>)
      BY <2>1 DEF NothingToContinue, StillInConflict, RebaseInv, IsContinuation
    <3> QED BY <1>1, <3>1, LooseningKeeps DEF InOrder, ContinuesInOrder
  <2>2. CASE Git
    <3>1. meta' = meta /\ cont' = cont /\ (rebase' = rebase \/ rebase' = NoRebase)
      BY <2>2 DEF Git, GitAbort, GitCommit, GitAmend, GitPullTrunk, GitDelete, GitBranch
    <3> QED BY <3>1 DEF InOrder, ContinuesInOrder
  <2> QED BY <2>1, <2>2
<1> QED BY <1>2, <1>3 DEF InOrder, ProcessInOrder, RemoteInOrder, MayHoldRebase

LEMMA ContinueInOrder ==
  ASSUME WriteInv, InOrder, ContinueSync
  PROVE  InOrder'
<1>1. PICK order \in SiblingOrders : ContinueRebase(order)
  BY DEF Continue, ContinueSync
<1> DEFINE s == Loaded(order)
           t == [s EXCEPT !.refs = refs']
<1>2. Kept(s, {}) /\ s.refs = refs /\ Loosened(s.meta, meta)
  BY LoadedInOrder DEF InOrder
<1>3. /\ meta' = s.meta /\ cache' = s.cache /\ process' = "continue" /\ rebase' = NoRebase
      /\ DOMAIN refs' = DOMAIN refs /\ rebase # NoRebase /\ cont # NoCont /\ current' = s.current
      /\ get' = [toSync |-> cont.sync, parent |-> current', force |-> FALSE, synced |-> {}]
      /\ UNCHANGED remote
  BY <1>1 DEF ContinueRebase, ContinueSync
<1>4. s.current = cont.current
  BY <1>3 DEF Loaded, LoadedCont
<1>5. DOMAIN t = DOMAIN s /\ t.cache = s.cache /\ t.meta = s.meta /\ t.refs = refs'
  BY DEF Loaded
<1> HIDE DEF s, t
<1>6. DOMAIN t.refs = Branches
  BY <1>2, <1>3, <1>5 DEF Kept, Sound, IsSession, IsDisk
<1>7. Kept(t, {})
  BY <1>2, <1>5, <1>6, OtherRefsKeep
<1>8. Sound(Session') /\ Grounded(meta')
  BY <1>3, <1>5, <1>7, SoundSession DEF Kept, Sound
<1>9. cont.sync # <<>> => Open(s.meta, cont.current, cont.sync)
  BY <1>2, <1>3, OpenStays DEF InOrder, ContinuesInOrder
<1>10. GetsInOrder'
  BY <1>3, <1>4, <1>9 DEF GetsInOrder
<1> QED BY <1>3, <1>8, <1>10 DEF InOrder, ProcessInOrder, RemoteInOrder, MayHoldRebase, ContinuesInOrder

\* With nothing left to sync a process may put branches elsewhere.
LEMMA NoneIsLeft ==
  ASSUME RebaseInv, SyncsUndisturbed, InOrder, process # "none", UNCHANGED <<rebase, cont>>
  PROVE  ContinuesInOrder'
BY DEF ContinuesInOrder, RebaseInv, SyncsUndisturbed, InOrder, MayHoldRebase

MarksValid(c, t) ==
  /\ {"toProcess", "marked", "blockers", "unblocked", "moved", "doomed"} \subseteq DOMAIN c
  /\ c.marked \in Seq(Branches)
  /\ \A m \in ToSet(c.marked) : Valid(t, m)

LEMMA CleanStepInOrder ==
  ASSUME RebaseInv, SyncsUndisturbed, InOrder, process = "clean", NEW t, Sound(t), refs' = t.refs, meta' = t.meta,
         UNCHANGED <<rebase, cont, features, remote, get>>,
         \/ EndProcess
         \/ process' = "clean" /\ cache' = t.cache /\ Cleanable(t) /\ MarksValid(clean', t)
  PROVE  InOrder'
<1>1. get' = NoSync
  BY DEF InOrder, ProcessInOrder, GetsInOrder
<1>2. ContinuesInOrder' /\ Grounded(meta')
  BY NoneIsLeft DEF Sound
<1>3. CASE EndProcess
  BY <1>1, <1>2, <1>3, EndInOrder DEF InOrder
<1>4. CASE process' = "clean" /\ cache' = t.cache /\ Cleanable(t) /\ MarksValid(clean', t)
  <2>1. Sound(Session')
    BY <1>4, SoundSession
  <2>2. Cleanable(Session') /\ \A b : Valid(t, b) => Valid(Session', b)
    BY <1>4, CleanableSession
  <2>3. CleansInOrder'
    BY <1>4, <2>2 DEF CleansInOrder, MarksValid
  <2> QED BY <1>1, <1>2, <1>4, <2>1, <2>3 DEF InOrder, ProcessInOrder, RemoteInOrder, MayHoldRebase
<1> QED BY <1>3, <1>4

LEMMA CleaningIsInOrder ==
  ASSUME InOrder, process = "clean"
  PROVE  Sound(Session) /\ Cleanable(Session) /\ MarksValid(clean, Session) /\ Session.failed = FALSE
         /\ Session.refs = refs /\ Session.meta = meta /\ Session.cache = cache
BY DEF InOrder, ProcessInOrder, CleansInOrder, MarksValid, Session

LEMMA BeginSyncInOrder ==
  ASSUME WriteInv, InOrder, BeginSync
  PROVE  InOrder'
<1>1a. PICK order \in SiblingOrders : \E t, patches :
        /\ MaySync("sync", Loaded(order))
        /\ t \in {Loaded(order)} \cup TrunkPulled(Loaded(order))
        /\ BeginAs("clean", t, <<>>, patches)
        /\ t.failed \/ (clean'.marked = <<>>
                        /\ {"toProcess", "marked", "blockers", "unblocked", "moved", "doomed"} \subseteq DOMAIN clean')
        /\ UNCHANGED <<remote, get>>
  BY DEF BeginSync
<1>1. PICK t, patches :
        /\ MaySync("sync", Loaded(order))
        /\ t \in {Loaded(order)} \cup TrunkPulled(Loaded(order))
        /\ BeginAs("clean", t, <<>>, patches)
        /\ t.failed \/ (clean'.marked = <<>>
                        /\ {"toProcess", "marked", "blockers", "unblocked", "moved", "doomed"} \subseteq DOMAIN clean')
        /\ UNCHANGED <<remote, get>>
  BY <1>1a
<1> DEFINE s == Loaded(order)
<1>2. rebase = NoRebase /\ process = "none"
  BY <1>1 DEF MaySync, MayRun
<1>3. Fresh(s) /\ Sound(s) /\ Sound(Fail(s)) /\ s.failed = FALSE /\ Fail(s).failed = TRUE
  <2>1. Fail(s).failed = TRUE
    BY DEF Fail, Loaded
  <2> QED BY <2>1, LoadedInOrder DEF InOrder
<1>a. t \in {s} \cup TrunkPulled(s)
  BY <1>1
<1> HIDE DEF s
<1>4. t \in {s, Fail(s), TrunkAt(s, remote.refs[Trunk])}
  BY <1>a DEF TrunkPulled, PullTrunk
<1>5. Sound(t) /\ (t.failed \/ Cleanable(t))
  <2>1. Cleanable(s)
    BY <1>3, FreshIsCleanable
  <2> DEFINE u == TrunkAt(s, remote.refs[Trunk])
  <2>2. Sound(u) /\ SameStacks(u, s)
    BY <1>3, TrunkMoves
  <2> HIDE DEF u
  <2>3. Cleanable(u)
    BY <2>1, <2>2, SameIsCleanable
  <2> QED BY <1>3, <1>4, <2>1, <2>2, <2>3 DEF u
<1>6. get' = NoSync
  BY <1>1, <1>2 DEF InOrder, ProcessInOrder, GetsInOrder
<1>7. refs' = t.refs /\ meta' = t.meta /\ rebase' = NoRebase /\ Grounded(meta') /\ ContinuesInOrder'
  BY <1>1, <1>2, <1>5 DEF BeginAs, ContinuesInOrder, Sound
<1>8. CASE t.failed
  <2>1. EndProcess
    BY <1>1, <1>8 DEF BeginAs
  <2> QED BY <1>1, <1>6, <1>7, <2>1, EndInOrder DEF InOrder
<1>9. CASE ~ t.failed
  <2>1. process' = "clean" /\ cache' = t.cache
    BY <1>1, <1>9 DEF BeginAs
  <2>2. Sound(Session')
    BY <1>5, <1>7, <2>1, SoundSession
  <2>3. Cleanable(Session')
    BY <1>5, <1>7, <1>9, <2>1, CleanableSession
  <2>4. <<>> \in Seq(Branches) /\ ToSet(<<>>) = {}
    BY DEF ToSet
  <2>5. CleansInOrder'
    BY <1>1, <1>9, <2>3, <2>4 DEF CleansInOrder
  <2> QED BY <1>1, <1>6, <1>7, <2>1, <2>2, <2>5
          DEF InOrder, ProcessInOrder, RemoteInOrder, MayHoldRebase
<1> QED BY <1>8, <1>9

LEMMA CheckInOrder ==
  ASSUME RebaseInv, SyncsUndisturbed, InOrder, CheckBranch
  PROVE  InOrder'
<1>1. /\ process = "clean" /\ refs' = refs
      /\ UNCHANGED <<rebase, cont, features, remote, get>>
  BY DEF CheckBranch, Cleans
<1> DEFINE s == Session
<1>2. Sound(s) /\ Cleanable(s) /\ MarksValid(clean, s) /\ s.failed = FALSE
      /\ s.refs = refs /\ s.meta = meta /\ s.cache = cache
  BY <1>1, CleaningIsInOrder
<1>3. PICK delete \in BOOLEAN :
       LET b == Last(clean.toProcess)
           p == NewParent(b)
           t == IF IsMarked(b) THEN Session
                ELSE IF ~Valid(Session, b) THEN Fail(Session)
                ELSE IF delete THEN Session ELSE SetParent(Session, b, p)
           c == IF IsMarked(b) THEN [clean EXCEPT !.toProcess = Front(@)]
                ELSE IF delete THEN Mark(b) ELSE Keep(b, p)
       IN  /\ meta' = t.meta
           /\ IF t.failed THEN EndProcess
              ELSE /\ cache' = t.cache
                   /\ clean' = [c EXCEPT !.unblocked = Unblocked(c)]
                   /\ process' = process
  BY DEF CheckBranch
<1> DEFINE b == Last(clean.toProcess)
           p == NewParent(b)
           kept == SetParent(s, b, p)
           After(t, c) == /\ meta' = t.meta
                          /\ \/ t.failed /\ EndProcess
                             \/ /\ ~ t.failed /\ cache' = t.cache /\ process' = process
                                /\ clean' = [c EXCEPT !.unblocked = Unblocked(c)]
<1>4. \/ IsMarked(b) /\ After(s, [clean EXCEPT !.toProcess = Front(@)])
      \/ ~IsMarked(b) /\ ~Valid(s, b) /\ After(Fail(s), Keep(b, p))
      \/ ~IsMarked(b) /\ ~Valid(s, b) /\ After(Fail(s), Mark(b))
      \/ ~IsMarked(b) /\ Valid(s, b) /\ After(s, Mark(b))
      \/ ~IsMarked(b) /\ Valid(s, b) /\ After(kept, Keep(b, p))
  BY <1>3
<1> HIDE DEF b, p
<1>5. ASSUME NEW c, MarksValid(c, s) PROVE MarksValid([c EXCEPT !.unblocked = Unblocked(c)], s)
  BY <1>5 DEF MarksValid
<1>6. ASSUME NEW c, MarksValid(c, s), After(s, c) PROVE InOrder'
  BY <1>1, <1>2, <1>5, <1>6, CleanStepInOrder
<1>7. CASE After(s, [clean EXCEPT !.toProcess = Front(@)])
  <2>1. MarksValid([clean EXCEPT !.toProcess = Front(@)], s)
    BY <1>2 DEF MarksValid
  <2> QED BY <1>6, <1>7, <2>1
<1>8. CASE Valid(s, b) /\ After(s, Mark(b))
  <2>1. Append(clean.marked, b) \in Seq(Branches)
        /\ ToSet(Append(clean.marked, b)) = ToSet(clean.marked) \cup {b}
    BY <1>2, <1>8, SetOfAppend DEF MarksValid, Valid, HasResult
  <2>2. MarksValid(Mark(b), s)
    <3>1. DOMAIN Mark(b) = DOMAIN clean /\ Mark(b).marked = Append(clean.marked, b)
      BY <1>2 DEF MarksValid, Mark
    <3> QED BY <1>2, <1>8, <2>1, <3>1 DEF MarksValid
  <2> QED BY <1>6, <1>8, <2>2
<1>9. CASE ~Valid(s, b) /\ (After(Fail(s), Keep(b, p)) \/ After(Fail(s), Mark(b)))
  <2>1. Sound(Fail(s)) /\ Fail(s).failed = TRUE /\ Fail(s).refs = refs
    BY <1>2, SoundIsKept DEF Fail, Sound, IsSession
  <2> QED BY <1>1, <1>9, <2>1, CleanStepInOrder
<1>10. CASE Valid(s, b) /\ After(kept, Keep(b, p))
  <2>1. \A m \in Branches : IsMarked(m) => Valid(s, m)
    BY <1>2 DEF MarksValid, IsMarked
  <2>2. b # Trunk
    BY <1>2, <1>10 DEF Cleanable, Valid, HasResult
  <2> DEFINE G == Off(meta, b)
  <2>3. p \in Branches /\ In(p, G)
    BY <1>2, <1>10, <2>1, NewParentIsOff DEF p
  <2>4. Kept(s, G) /\ b \notin G
    BY <1>2, <1>10, <2>2, OffValid
  <2> HIDE DEF s, G
  <2>5. Kept(kept, G) /\ (kept.failed = TRUE \/ (Cleanable(kept) /\ StillValid(kept, s, NoBranch)))
    BY <1>2, <2>3, <2>4, SetParentKeeps, SetParentCleans
  <2>6. kept.refs = refs
    BY <1>2, RefsAreLeft DEF Sound
  <2> HIDE DEF kept
  <2>7. CASE kept.failed = TRUE
    BY <1>1, <1>10, <2>5, <2>6, <2>7, CleanStepInOrder DEF Kept
  <2>8. CASE Cleanable(kept) /\ StillValid(kept, s, NoBranch) /\ ~ kept.failed
    <3>1. \A m \in ToSet(clean.marked) : Valid(kept, m)
      BY <1>2, <2>8, BranchNames DEF MarksValid, StillValid, Valid, HasResult
    <3> DEFINE c == Keep(b, p)
    <3>2. DOMAIN c = DOMAIN clean /\ c.marked = clean.marked
      BY <1>2 DEF MarksValid, Keep
    <3> HIDE DEF c
    <3>3. MarksValid([c EXCEPT !.unblocked = Unblocked(c)], kept)
      BY <1>2, <3>1, <3>2 DEF MarksValid
    <3>4. process' = "clean" /\ cache' = kept.cache /\ MarksValid(clean', kept)
      BY <1>1, <1>10, <2>8, <3>3 DEF c
    <3> QED BY <1>1, <1>10, <2>5, <2>6, <2>8, <3>4, CleanStepInOrder DEF Kept
  <2> QED BY <1>10, <2>5, <2>7, <2>8
<1> QED BY <1>4, <1>7, <1>8, <1>9, <1>10

LEMMA DeleteInOrder ==
  ASSUME RebaseInv, SyncsUndisturbed, InOrder, DeleteUnblocked
  PROVE  InOrder'
<1> DEFINE s == Session
           b == Last(clean.unblocked)
           t == DeleteBranch(s, b)
           c == Unblock(b, cache[b].parent)
<1>1. /\ process = "clean" /\ refs' = t.refs /\ meta' = t.meta
      /\ UNCHANGED <<rebase, cont, features, remote, get>>
      /\ IF t.failed THEN EndProcess
         ELSE cache' = t.cache /\ clean' = c /\ process' = process
  BY DEF DeleteUnblocked, Cleans
<1>2. Sound(s) /\ Cleanable(s) /\ MarksValid(clean, s) /\ s.failed = FALSE
  BY <1>1, CleaningIsInOrder
<1> HIDE DEF s, b
<1>3. Sound(t) /\ (t.failed = TRUE \/ (Cleanable(t) /\ StillValid(t, s, b)))
  BY <1>2, DeleteCleans
<1> HIDE DEF t
<1>4. DOMAIN c = DOMAIN clean /\ c.marked = Without(clean.marked, b)
  BY <1>2 DEF MarksValid, Unblock
<1> HIDE DEF c
<1>5. c.marked \in Seq(Branches) /\ ToSet(c.marked) = ToSet(clean.marked) \ {b}
  BY <1>2, <1>4, SetOfWithout DEF MarksValid
<1>6. StillValid(t, s, b) => MarksValid(c, t)
  BY <1>2, <1>4, <1>5 DEF MarksValid, StillValid, Valid, HasResult
<1> QED BY <1>1, <1>3, <1>6, CleanStepInOrder

LEMMA CleanInOrder ==
  ASSUME WriteInv, RebaseInv, SyncsUndisturbed, InOrder, BeginSync \/ CheckBranch \/ DeleteUnblocked \/ EndClean
  PROVE  InOrder'
<1>1. CASE EndClean
  <2>1. process = "clean" /\ UNCHANGED <<refs, meta, rebase, cont, features, remote, get>>
        /\ (EndProcess \/ (process' = "command" /\ cache' = cache))
    BY <1>1 DEF EndClean, Cleans, disk
  <2>2. Sound(Session) /\ Session.refs = refs /\ Session.meta = meta /\ Session.cache = cache
    BY <2>1, CleaningIsInOrder
  <2>3. CASE EndProcess
    BY <2>1, <2>2, <2>3, CleanStepInOrder
  <2>4. CASE process' = "command" /\ cache' = cache
    <3>1. Sound(Session')
      BY <2>1, <2>2, <2>4, SoundSession
    <3> QED BY <2>1, <2>4, <3>1
            DEF InOrder, ProcessInOrder, RemoteInOrder, MayHoldRebase, GetsInOrder, ContinuesInOrder
  <2> QED BY <2>1, <2>3, <2>4
<1> QED BY <1>1, BeginSyncInOrder, CheckInOrder, DeleteInOrder

\* The branch b is the next to be synced, and G what is in order so far.
IsNext(b, G) ==
  /\ process \in {"get", "continue"} /\ get # NoSync /\ rebased = Nothing
  /\ {"toSync", "parent", "synced"} \subseteq DOMAIN get
  /\ get.toSync \in Seq(Branches) /\ IsInjective(get.toSync) /\ get.toSync # <<>>
  /\ b = Head(get.toSync) /\ b \in Branches /\ b \notin G
  /\ G \in SUBSET Others /\ Kept(Session, G) /\ In(get.parent, G) /\ ToSet(get.toSync) \cap G = {}

LEMMA NextIsOpen ==
  ASSUME InOrder, NEW b, Gets(b)
  PROVE  \E G : IsNext(b, G)
<1>1. /\ process \in {"get", "continue"} /\ get # NoSync /\ rebased = Nothing
      /\ get.toSync # <<>> /\ b = Head(get.toSync) /\ Sound(Session)
  BY DEF Gets, InOrder, ProcessInOrder
<1>2. {"toSync", "parent", "synced"} \subseteq DOMAIN get /\ Open(meta, get.parent, get.toSync)
  BY <1>1 DEF InOrder, ProcessInOrder, GetsInOrder
<1>3. PICK G \in SUBSET Others : Whole(meta, G) /\ In(get.parent, G) /\ ToSet(get.toSync) \cap G = {}
  BY <1>2 DEF Open
<1>4. Kept(Session, G)
  BY <1>1, <1>3 DEF Kept, Session
<1>5. get.toSync \in Seq(Branches) /\ IsInjective(get.toSync)
  BY <1>2 DEF Open
<1>6. b \in Branches /\ b \in ToSet(get.toSync)
  <2> DEFINE list == get.toSync
  <2>1. list \in Seq(Branches) /\ list # <<>> /\ b = Head(list)
    BY <1>1, <1>5
  <2> HIDE DEF list
  <2>2. 1 \in DOMAIN list /\ b = list[1] /\ b \in Branches
    BY <2>1
  <2>3. b \in ToSet(list)
    BY <2>2, IsInItsSet
  <2> QED BY <2>2, <2>3 DEF list
<1>7. IsNext(b, G)
  BY <1>1, <1>2, <1>3, <1>4, <1>5, <1>6 DEF IsNext
<1> QED BY <1>7

\* A branch that is on the one before it is in order.
LEMMA OnTheOneBefore ==
  ASSUME NEW b, NEW G, IsNext(b, G), Valid(Session, b), cache[b].parent = get.parent
  PROVE  Open(meta, b, Tail(get.toSync))
<1>1. meta[b].parent = get.parent
  BY DEF IsNext, Kept, Sound, Named, Followed, Valid, HasResult, Session
<1>2. Whole(meta, G)
  BY DEF IsNext, Kept, Session
<1>3. b \in Others => Whole(meta, G \cup {b})
  BY <1>1, <1>2 DEF IsNext, Whole, In
<1> DEFINE list == get.toSync
<1>4. /\ list \in Seq(Branches) /\ IsInjective(list) /\ list # <<>> /\ b = Head(list)
      /\ G \in SUBSET Others /\ ToSet(list) \cap G = {}
  BY DEF IsNext
<1> HIDE DEF list
<1>5. Open(meta, Head(list), Tail(list))
  BY <1>2, <1>3, <1>4, OpenGoesOn
<1> QED BY <1>4, <1>5 DEF list

LEMMA SyncedGoesOn ==
  ASSUME NEW b, NEW G, IsNext(b, G), Synced(b), process' = process, Open(meta', b, Tail(get.toSync))
  PROVE  GetsInOrder'
<1>1. /\ DOMAIN get' = DOMAIN get /\ get'.toSync = Tail(get.toSync) /\ get'.parent = b
  BY DEF Synced, IsNext
<1> QED BY <1>1 DEF GetsInOrder, IsNext

LEMMA BeginGetInOrder ==
  ASSUME WriteInv, InOrder, BeginGet
  PROVE  InOrder'
<1>1a. PICK order \in SiblingOrders : \E force :
        /\ MaySync("get", Loaded(order))
        /\ BeginAs("get", PullTrunk(Loaded(order)), <<>>, own)
        /\ get' = [toSync |-> remote.downstack, parent |-> Trunk, force |-> force, synced |-> {}]
        /\ UNCHANGED remote
  BY DEF BeginGet
<1>1. PICK force :
        /\ MaySync("get", Loaded(order))
        /\ BeginAs("get", PullTrunk(Loaded(order)), <<>>, own)
        /\ get' = [toSync |-> remote.downstack, parent |-> Trunk, force |-> force, synced |-> {}]
        /\ UNCHANGED remote
  BY <1>1a
<1> DEFINE s == Loaded(order)
           t == PullTrunk(s)
<1>2. rebase = NoRebase
  BY <1>1 DEF MaySync, MayRun
<1>3. Sound(s) /\ s.failed = FALSE
  BY LoadedInOrder DEF InOrder
<1>4. BeginAs("get", t, <<>>, own)
  BY <1>1
<1> HIDE DEF s
<1>5. Sound(t) /\ t.failed = FALSE
  <2>1. Sound(TrunkAt(s, remote.refs[Trunk])) /\ TrunkAt(s, remote.refs[Trunk]).failed = FALSE
    <3>1. TrunkAt(s, remote.refs[Trunk]).failed = FALSE
      BY <1>3 DEF TrunkAt, Sound, IsSession
    <3> QED BY <1>3, <3>1, TrunkMoves
  <2> QED BY <1>3, <2>1 DEF PullTrunk
<1> HIDE DEF t
<1>6. /\ refs' = t.refs /\ meta' = t.meta /\ rebase' = NoRebase /\ process' = "get" /\ cache' = t.cache
  BY <1>2, <1>4, <1>5 DEF BeginAs
<1>7. Sound(Session') /\ Grounded(meta')
  BY <1>5, <1>6, SoundSession DEF Sound
<1>8. Open(meta', Trunk, remote.downstack)
  BY OpenAtFirst DEF InOrder, RemoteInOrder
<1>9. GetsInOrder'
  BY <1>1, <1>6, <1>8 DEF GetsInOrder
<1> QED BY <1>1, <1>6, <1>7, <1>9
        DEF InOrder, ProcessInOrder, RemoteInOrder, MayHoldRebase, ContinuesInOrder

\* What a branch is synced with may move its revision, but no parents.
LEMMA SyncedTipInOrder ==
  ASSUME InOrder, NEW b, Gets(b), Valid(Session, b), cache[b].parent = get.parent, Synced(b),
         DOMAIN refs' = DOMAIN refs, UNCHANGED <<meta, cache, process, rebase, cont, features, remote>>
  PROVE  InOrder'
<1>1. PICK G : IsNext(b, G)
  BY NextIsOpen
<1>2. Open(meta', b, Tail(get.toSync))
  BY <1>1, OnTheOneBefore
<1>3. GetsInOrder'
  BY <1>1, <1>2, SyncedGoesOn
<1> DEFINE s == Session
           t == [s EXCEPT !.refs = refs']
<1>4. Kept(s, G) /\ s.refs = refs /\ s.meta = meta /\ s.cache = cache
  BY <1>1 DEF IsNext, Session
<1>5. DOMAIN t = DOMAIN s /\ t.cache = s.cache /\ t.meta = s.meta /\ t.refs = refs'
  BY DEF Session
<1> HIDE DEF s, t
<1>6. DOMAIN t.refs = Branches
  BY <1>4, <1>5 DEF Kept, Sound, IsSession, IsDisk
<1>7. Kept(t, G)
  BY <1>4, <1>5, <1>6, OtherRefsKeep
<1>8. Sound(Session')
  BY <1>4, <1>5, <1>7, SoundSession DEF Kept
<1> QED BY <1>1, <1>3, <1>8
        DEF InOrder, ProcessInOrder, RemoteInOrder, MayHoldRebase, ContinuesInOrder, IsNext

LEMMA CheckoutInOrder ==
  ASSUME RebaseInv, SyncsUndisturbed, InOrder, NEW b, GetCheckout(b)
  PROVE  InOrder'
<1> DEFINE s == Session
           t == CheckoutFromFetched(s, b, get.parent, fetched')
           list == get.toSync
<1>1. /\ Gets(b) /\ UNCHANGED <<rebase, cont, features, remote>> /\ refs' = t.refs /\ meta' = t.meta
      /\ IF t.failed THEN EndProcess /\ Locals
         ELSE cache' = t.cache /\ Synced(b) /\ process' = process
  BY DEF GetCheckout, Fetches
<1>2. PICK G : IsNext(b, G)
  BY <1>1, NextIsOpen
<1>3. Kept(s, G) /\ b \in Branches /\ b \notin G /\ In(get.parent, G) /\ process # "none"
  BY <1>2 DEF IsNext
<1> HIDE DEF s
<1>4. Kept(t, G) /\ (t.failed = TRUE \/ (b \in Others => Whole(t.meta, G \cup {b})))
  BY <1>3, FetchKeeps
<1> HIDE DEF t
<1>5. ContinuesInOrder' /\ Grounded(meta')
  BY <1>1, <1>3, <1>4, NoneIsLeft DEF Kept, Sound
<1>6. CASE t.failed
  BY <1>1, <1>5, <1>6, EndInOrder DEF InOrder, Locals
<1>7. CASE ~ t.failed
  <2>1. /\ list \in Seq(Branches) /\ IsInjective(list) /\ list # <<>> /\ b = Head(list)
        /\ G \in SUBSET Others /\ ToSet(list) \cap G = {}
    BY <1>2 DEF IsNext
  <2> DEFINE new == t.meta
  <2>2. Whole(new, G) /\ (b \in Others => Whole(new, G \cup {b}))
    BY <1>4, <1>7 DEF Kept
  <2> HIDE DEF list, new
  <2>3. Open(new, Head(list), Tail(list))
    BY <2>1, <2>2, OpenGoesOn
  <2>4. GetsInOrder'
    BY <1>1, <1>2, <1>7, <2>1, <2>3, SyncedGoesOn DEF list, new
  <2>5. Sound(Session')
    BY <1>1, <1>4, <1>7, SoundSession DEF Kept
  <2> QED BY <1>1, <1>2, <1>5, <1>7, <2>4, <2>5
          DEF InOrder, ProcessInOrder, RemoteInOrder, MayHoldRebase, IsNext
<1> QED BY <1>6, <1>7

LEMMA GetInOrder ==
  ASSUME WriteInv, RebaseInv, SyncsUndisturbed, InOrder, BeginGet \/ GetBranch \/ EndGet
  PROVE  InOrder'
<1>1. ASSUME EndProcess, Locals, UNCHANGED <<disk, remote>> PROVE InOrder'
  BY <1>1, EndOnDiskInOrder DEF disk, Locals
<1>2. CASE EndGet
  BY <1>1, <1>2 DEF EndGet
<1>3. CASE GetBranch
  <2>1. PICK b \in Branches : \/ FetchFails(b) \/ GetUpToDate(b) \/ GetAborted(b) \/ GetCheckout(b)
                              \/ GetRebased(b) \/ GetConflict(b)
    BY <1>3 DEF GetBranch
  <2>2. CASE FetchFails(b) \/ GetAborted(b)
    BY <1>1, <2>2 DEF FetchFails, GetAborted
  <2>3. CASE GetUpToDate(b)
    BY <2>3, SyncedTipInOrder DEF GetUpToDate, Fetches, IsUpToDate, vars, disk, session
  <2>4. CASE GetCheckout(b)
    BY <2>4, CheckoutInOrder
  <2>5. CASE GetRebased(b)
    BY <2>5, SyncedTipInOrder DEF GetRebased, Fetches, MayRebase
  <2>6. CASE GetConflict(b)
    <3>1. /\ Gets(b) /\ Valid(Session, b) /\ cache[b].parent = get.parent
          /\ cont'.current = b /\ cont'.sync = Tail(get.toSync)
          /\ EndProcess /\ get' = NoSync /\ UNCHANGED <<meta, remote>>
      BY <2>6 DEF GetConflict, Fetches, MayRebase, Locals
    <3>2. Open(meta, b, Tail(get.toSync))
      BY <3>1, NextIsOpen, OnTheOneBefore
    <3>3. ContinuesInOrder' /\ Grounded(meta')
      BY <3>1, <3>2 DEF ContinuesInOrder, InOrder
    <3> QED BY <3>1, <3>3, EndInOrder DEF InOrder
  <2> QED BY <2>1, <2>2, <2>3, <2>4, <2>5, <2>6
<1> QED BY <1>2, <1>3, BeginGetInOrder

----------------------------------------------------------------------------
LEMMA StepInOrder ==
  ASSUME WriteInv, RebaseInv, InOrder, SyncsUndisturbed, SyncNext
  PROVE  InOrder'
<1>1. CASE EngineStep
  <2>1. /\ \/ Command \/ Edit
           \/ RestackBranches \/ RecordRebase \/ Exit \/ ContinueThrows \/ Crash
           \/ NothingToContinue \/ StillInConflict \/ Git
        /\ LocalsGoOn /\ GetGoesOn /\ UNCHANGED remote
    BY <1>1 DEF EngineStep, LocalsGoOn, Locals, GetGoesOn
  <2> QED BY <2>1, CommandInOrder, EditInOrder, RestackInOrder, IdleInOrder
<1>2. CASE ContinueSync
  BY <1>2, ContinueInOrder
<1> QED BY <1>1, <1>2, CleanInOrder, GetInOrder DEF SyncNext

\* No step changes what may happen in a repository.
LEMMA FeaturesStay ==
  ASSUME SyncNext
  PROVE  UNCHANGED features
<1>a. ASSUME NEW kind, NEW s, NEW q, NEW patches, BeginAs(kind, s, q, patches) PROVE UNCHANGED features
  BY <1>a DEF BeginAs
<1>b. ASSUME NEW s, NEW q, NEW patches, Begin(s, q, patches) PROVE UNCHANGED features
  BY <1>a, <1>b DEF Begin
<1>1. ASSUME Command PROVE UNCHANGED features
  <2>1. CASE CommitCreate \/ CommitAmend \/ Squash
    BY <1>b, <2>1 DEF CommitCreate, CommitAmend, Squash, CommitAndRestack
  <2>2. CASE Create
    BY <1>b, <2>2 DEF Create
  <2>3. CASE CreateInsert
    <3>1. \E s, q, patches : Begin(s, q, patches)
      BY <2>3 DEF CreateInsert
    <3> QED BY <1>b, <3>1
  <2>4. CASE CreateFails \/ Delete
    BY <1>b, <2>4 DEF CreateFails, Delete
  <2>5. CASE Fold \/ Rename \/ Onto
    BY <1>b, <2>5 DEF Fold, Rename, Onto
  <2>6. CASE UnbranchCommand \/ Track \/ Untrack
    BY <1>b, <2>6 DEF UnbranchCommand, Track, Untrack
  <2>7. CASE Checkout \/ Restack
    BY <1>b, <2>7 DEF Checkout, Restack
  <2> QED BY <1>1, <2>1, <2>2, <2>3, <2>4, <2>5, <2>6, <2>7 DEF Command
<1>2. ASSUME Edit PROVE UNCHANGED features
  <2>1. CASE SplitByCommit \/ HunksCommitted
    <3>1. \E s, names, revs : Split(s, names, revs)
      BY <2>1 DEF SplitByCommit, HunksCommitted
    <3> QED BY <1>b, <3>1 DEF Split
  <2>2. CASE SplitByHunk \/ SplitInterrupted
    BY <1>a, <2>2 DEF SplitByHunk, SplitInterrupted
  <2>3. CASE EditBranch \/ EditStops \/ GitContinue
    BY <2>3 DEF EditBranch, EditStops, GitContinue
  <2>4. CASE EditDownstack
    <3>1. \E s, q, patches : Begin(s, q, patches)
      BY <2>4 DEF EditDownstack
    <3> QED BY <1>b, <3>1
  <2>5. CASE TrackStack \/ Navigate
    BY <1>b, <2>5 DEF TrackStack, Navigate
  <2>6. CASE Reset
    <3>1. \E s, q, patches : Begin(s, q, patches)
      BY <2>6 DEF Reset
    <3> QED BY <1>b, <3>1
  <2> QED BY <1>2, <2>1, <2>2, <2>3, <2>4, <2>5, <2>6 DEF Edit
<1>3. ASSUME RestackBranches PROVE UNCHANGED features
  BY <1>3 DEF RestackBranches, RestackUnneeded, RestackThrows, RestackDone, RestackConflict,
     RestackBlocked
<1>4. ASSUME \/ RecordRebase \/ Exit \/ ContinueThrows \/ Crash \/ NothingToContinue
             \/ StillInConflict \/ Git
      PROVE  UNCHANGED features
  BY <1>4 DEF RecordRebase, Exit, ContinueThrows, Crash, NothingToContinue, StillInConflict, Git,
     GitAbort, GitCommit, GitAmend, GitPullTrunk, GitDelete, GitBranch
<1>5. ASSUME \/ BeginSync \/ CheckBranch \/ DeleteUnblocked \/ EndClean \/ BeginGet \/ EndGet
             \/ ContinueSync
      PROVE  UNCHANGED features
  BY <1>5 DEF BeginSync, CheckBranch, DeleteUnblocked, EndClean, BeginGet, EndGet, ContinueSync,
     Continue, ContinueRebase, BeginAs
<1>6. ASSUME GetBranch PROVE UNCHANGED features
  BY <1>6 DEF GetBranch, FetchFails, GetUpToDate, GetAborted, GetCheckout, GetRebased, GetConflict, vars
<1> QED BY <1>1, <1>2, <1>3, <1>4, <1>5, <1>6 DEF SyncNext, EngineStep

\* Everything that is left to be put on something can be put on it.
THEOREM GroundInvHolds == SyncSpec => []GroundInv
<1>1. SyncInit => GroundInv
  <2> SUFFICES ASSUME SyncInit PROVE InOrder
    BY DEF GroundInv
  <2>1. Grounded(meta)
    BY ScenariosAreGrounded DEF SyncInit, Init, Grounded, Others
  <2>2. RemoteInOrder
    <3>1. IsInjective(NoRemote.downstack) /\ NoRemote.downstack \in Seq(Branches)
      BY DEF NoRemote, IsInjective
    <3> QED BY <3>1, DownstacksAreLists DEF SyncInit, RemoteInOrder
  <2> QED BY <2>1, <2>2 DEF SyncInit, Init, InOrder, ContinuesInOrder, ProcessInOrder, MayHoldRebase
<1>2. WriteInv /\ RebaseInv /\ GroundInv /\ [SyncNext]_<<vars, syncVars>> => GroundInv'
  <2> SUFFICES ASSUME WriteInv, RebaseInv, GroundInv, [SyncNext]_<<vars, syncVars>>, SyncsUndisturbed'
               PROVE  InOrder'
    BY DEF GroundInv
  <2>1. CASE SyncNext
    <3>1. SyncsUndisturbed /\ InOrder
      BY <2>1, FeaturesStay DEF SyncsUndisturbed, GroundInv
    <3> QED BY <2>1, <3>1, StepInOrder
  <2>2. CASE UNCHANGED <<vars, syncVars>>
    BY <2>2 DEF GroundInv, SyncsUndisturbed, InOrder, ContinuesInOrder, ProcessInOrder, RemoteInOrder,
       MayHoldRebase, CleansInOrder, GetsInOrder, Session, vars, disk, session, syncVars
  <2> QED BY <2>1, <2>2
<1> QED BY <1>1, <1>2, WriteInvHolds, RebaseInvHolds, PTL DEF SyncSpec

\* No sequence of commands, conflicts, crashes and continues, and nothing that
\* the user does with git, makes the parents go round in a circle: validateNewParent
\* (engine.ts) and the order in which an operation moves branches keep every
\* way down ending, and no later command throws while it loads.
THEOREM NoCycleArises == SyncSpec => []NoCycleOnDisk
<1>1. GroundInv => NoCycleOnDisk
  BY GroundedHasNoCycle DEF GroundInv, NoCycleOnDisk, InOrder
<1> QED BY <1>1, GroundInvHolds, PTL
=============================================================================
