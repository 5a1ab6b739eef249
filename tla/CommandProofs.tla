--------------------------- MODULE CommandProofs ---------------------------
(***************************************************************************)
(* Theorems about what the commands of fp read and conclude from it.       *)
(* Of the load of the cache, for every set of branches, every commit       *)
(* history and every disk: its types, that a branch is VALID only on a     *)
(* rooted stack, that the iteration budget n(n+1)/2 rejects a load exactly *)
(* when the metadata is cyclic, and that a load that ends has computed the *)
(* closed definition of BranchMeta.                                        *)
(* Of the files of settings: that they hold what the commands meant, when  *)
(* these run one after the other, and no less than a repository that is    *)
(* set up when they do not.                                                *)
(* Of the branches that are found on the trunk: that what isMerged         *)
(* concludes from patches is right both ways, for any files, contents,     *)
(* and numbers of commits.                                                 *)
(***************************************************************************)
EXTENDS ParseBranches, ConfigFiles, MergedBranches, FiniteSetTheorems, NaturalsInduction, WellFoundedInduction, TLAPS

----------------------------------------------------------------------------
\* The budget is a natural number and grows by n at each branch, so that it
\* always covers one more pass over the work list.
LEMMA BudgetStep ==
  ASSUME NEW n \in Nat
  PROVE  /\ Budget(n) \in Nat
         /\ n > 0 => Budget(n) = Budget(n - 1) + n
<1>1. PICK k \in Nat : n = 2 * k \/ n = 2 * k + 1
  <2>1. n \div 2 \in Nat /\ (n = 2 * (n \div 2) \/ n = 2 * (n \div 2) + 1)
    OBVIOUS
  <2> QED BY <2>1
<1>2. CASE n = 2 * k
  <2>1. n * (n + 1) = 2 * (k * (2 * k + 1))
    BY <1>2
  <2>2. Budget(n) = k * (2 * k + 1)
    BY <2>1, k * (2 * k + 1) \in Nat DEF Budget
  <2>3. ASSUME n > 0
        PROVE  Budget(n - 1) = k * (2 * k - 1)
    <3>1. (n - 1) * ((n - 1) + 1) = 2 * (k * (2 * k - 1))
      BY <1>2
    <3> QED BY <3>1, <2>3, k * (2 * k - 1) \in Int DEF Budget
  <2>4. k * (2 * k + 1) = k * (2 * k - 1) + 2 * k
    OBVIOUS
  <2> QED BY <1>2, <2>2, <2>3, <2>4, k * (2 * k + 1) \in Nat
<1>3. CASE n = 2 * k + 1
  <2>1. n * (n + 1) = 2 * ((2 * k + 1) * (k + 1))
    BY <1>3
  <2>2. Budget(n) = (2 * k + 1) * (k + 1)
    BY <2>1, (2 * k + 1) * (k + 1) \in Nat DEF Budget
  <2>3. Budget(n - 1) = (2 * k + 1) * k
    <3>1. (n - 1) * ((n - 1) + 1) = 2 * ((2 * k + 1) * k)
      BY <1>3
    <3> QED BY <3>1, (2 * k + 1) * k \in Nat DEF Budget
  <2>4. (2 * k + 1) * (k + 1) = (2 * k + 1) * k + (2 * k + 1)
    OBVIOUS
  <2> QED BY <1>3, <2>2, <2>3, <2>4, (2 * k + 1) * (k + 1) \in Nat
<1> QED BY <1>1, <1>2, <1>3

\* Sending the head of a work list to its back keeps the length and shifts
\* every other branch one place forward.
LEMMA RotateProperties ==
  ASSUME NEW S, NEW s \in Seq(S), s # <<>>
  PROVE  LET r == Append(Tail(s), Head(s))
         IN  /\ r \in Seq(S)
             /\ Len(r) = Len(s)
             /\ \A i \in 1..Len(s) - 1 : r[i] = s[i + 1]
             /\ r[Len(s)] = s[1]
OBVIOUS

\* Taking the head off a work list.
LEMMA TailProperties ==
  ASSUME NEW S, NEW s \in Seq(S), s # <<>>
  PROVE  /\ Head(s) = s[1]
         /\ Head(s) \in S
         /\ Len(s) \in Nat \ {0}
         /\ Tail(s) \in Seq(S)
         /\ Len(Tail(s)) = Len(s) - 1
         /\ \A i \in 1..Len(s) - 1 : Tail(s)[i] = s[i + 1]
OBVIOUS

----------------------------------------------------------------------------
(***************************************************************************)
(* Types.                                                                  *)
(***************************************************************************)
\* The revisions and the parent name the loop reads are well typed.
LEMMA DiskTypes ==
  ASSUME TypeOK
  PROVE  /\ disk.refs \in Refs
         /\ disk.meta \in Metas
         /\ disk.refs[Trunk] # NoCommit
         /\ Present \subseteq Branches
         /\ Cardinality(Present) \in Nat
<1>1. disk.refs \in Refs /\ disk.meta \in Metas /\ disk.refs[Trunk] # NoCommit
  BY DisksType DEF TypeOK
<1>2. Present \subseteq Branches
  BY DEF Present
<1>3. IsFiniteSet(Present)
  BY <1>2, BranchNames, FS_Subset
<1> QED BY <1>1, <1>2, <1>3, FS_CardinalityType

\* What validateOrFixParentBranchRevision may answer.
LEMMA ValidatedRevisionProperties ==
  ASSUME NEW prev \in Revisions, NEW rev, NEW parentRev \in Revisions
  PROVE  LET r == ValidatedRevision(prev, rev, parentRev)
         IN  /\ r \in Revisions
             /\ r # NoCommit => IsAncestor(r, rev)
BY DEF ValidatedRevision, Revisions

\* The entry that is added is well typed, and so is the cache with it.
LEMMA WithEntryType ==
  ASSUME TypeOK, NEW b \in Branches, NEW result \in Results,
         NEW parent \in Names, NEW prev \in Revisions
  PROVE  WithEntry(b, EntryFor(b, result, parent, prev)) \in Caches
<1> DEFINE e == EntryFor(b, result, parent, prev)
<1>1. e \in Entry
  BY DiskTypes DEF EntryFor, Entry, Refs
<1>2. ASSUME NEW c \in Branches
      PROVE  [parsedBranches[c] EXCEPT !.children = Append(@, b)] \in Entry
  <2>1. parsedBranches[c] \in Entry
    BY DEF TypeOK, Caches
  <2>2. Append(parsedBranches[c].children, b) \in Seq(Branches)
    BY <2>1 DEF Entry
  <2> QED BY <2>1, <2>2 DEF Entry
<1>3. \A c \in Branches : parsedBranches[c] \in Entry
  BY DEF TypeOK, Caches
<1> HIDE DEF e
<1> QED BY <1>1, <1>2, <1>3 DEF WithEntry, Caches, e

\* A branch that Iterate works on comes off the work list.
LEMMA IterateProperties ==
  ASSUME TypeOK, NEW b \in Branches, Iterate(b)
  PROVE  /\ Tail(branchesToParse) \in Seq(Branches)
         /\ Append(Tail(branchesToParse), b) \in Seq(Branches)
         /\ cycleDetector \in Nat \ {0}
         /\ cycleDetector' \in Nat
         /\ disk' = disk /\ status' = status /\ status = "parsing"
         /\ b = Head(branchesToParse) /\ branchesToParse # <<>>
<1>1. branchesToParse \in Seq(Branches) /\ branchesToParse # <<>>
      /\ b = Head(branchesToParse)
  BY DEF Iterate, TypeOK
<1> QED BY <1>1, TailProperties DEF Iterate, TypeOK

\* Every step of the load keeps the types of its state.
LEMMA TypeStep == TypeOK /\ [Next]_vars => TypeOK'
<1> SUFFICES ASSUME TypeOK, [Next]_vars PROVE TypeOK'
  OBVIOUS
<1>1. CASE GetAllBranchesAndMeta
  <2>1. meta' \in Metas
    BY <1>1, BranchNames
    DEF GetAllBranchesAndMeta, TypeOK, Metas, Meta, NoMeta, Names, Revisions
  <2>2. branchesToParse' \in Seq(Branches)
    <3>1. branchesToParse' \in [1..Cardinality(Present) -> Present]
      BY <1>1 DEF GetAllBranchesAndMeta, Orders
    <3> QED BY <3>1, DiskTypes
  <2>3. cycleDetector' \in Nat
    BY <1>1, DiskTypes, BudgetStep DEF GetAllBranchesAndMeta
  <2> QED BY <1>1, <2>1, <2>2, <2>3 DEF GetAllBranchesAndMeta, TypeOK
<1>2. ASSUME NEW b \in Branches, ParseTrunk(b) PROVE TypeOK'
  <2>1. parsedBranches' \in Caches
    BY <1>2, WithEntryType DEF ParseTrunk, Parse, Results, Names, Revisions
  <2> QED BY <1>2, <2>1, IterateProperties DEF ParseTrunk, Parse, TypeOK
<1>3. ASSUME NEW b \in Branches, ParseBadParentName(b) PROVE TypeOK'
  <2>1. parsedBranches' \in Caches
    BY <1>3, WithEntryType DEF ParseBadParentName, Parse, Results, Names, Revisions
  <2> QED BY <1>3, <2>1, IterateProperties DEF ParseBadParentName, Parse, TypeOK
<1>4. ASSUME NEW b \in Branches, Postpone(b) PROVE TypeOK'
  BY <1>4, IterateProperties DEF Postpone, TypeOK
<1>5. ASSUME NEW b \in Branches, ParseInvalidParent(b) PROVE TypeOK'
  <2>1. meta[b].parent \in Names /\ meta[b].rev \in Revisions
    BY DEF TypeOK, Metas, Meta
  <2>2. parsedBranches' \in Caches
    BY <1>5, <2>1, WithEntryType DEF ParseInvalidParent, Parse, Results
  <2> QED BY <1>5, <2>2, IterateProperties DEF ParseInvalidParent, Parse, TypeOK
<1>6. ASSUME NEW b \in Branches, ParseValid(b) PROVE TypeOK'
  <2>1. meta[b].parent \in Names /\ meta[b].rev \in Revisions
    BY DEF TypeOK, Metas, Meta
  <2>2. NewRevision(b) \in Revisions
    <3>1. meta[b].parent \in Branches
      BY <1>6, <2>1 DEF ParseValid, Follows, HasParentName, Names
    <3>2. parsedBranches[meta[b].parent].rev \in Revisions
      BY <3>1 DEF TypeOK, Caches, Entry
    <3> QED BY <2>1, <3>2, ValidatedRevisionProperties DEF NewRevision
  <2>3. parsedBranches' \in Caches
    BY <1>6, <2>1, <2>2, WithEntryType DEF ParseValid, Parse, Results
  <2>4. meta' \in Metas
    BY <1>6, <2>2 DEF ParseValid, TypeOK, Metas, Meta
  <2> QED BY <1>6, <2>3, <2>4, IterateProperties DEF ParseValid, Parse, TypeOK
<1>7. ASSUME NEW b \in Branches, ParseBadParentRevision(b) PROVE TypeOK'
  <2>1. meta[b].parent \in Names
    BY DEF TypeOK, Metas, Meta
  <2>2. parsedBranches' \in Caches
    BY <1>7, <2>1, WithEntryType DEF ParseBadParentRevision, Parse, Results, Revisions
  <2> QED BY <1>7, <2>2, IterateProperties DEF ParseBadParentRevision, Parse, TypeOK
<1>8. CASE Finish
  BY <1>8 DEF Finish, TypeOK
<1>9. CASE DetectCycle
  BY <1>9 DEF DetectCycle, TypeOK
<1>10. CASE UNCHANGED vars
  BY <1>10 DEF vars, TypeOK
<1> QED BY <1>1, <1>2, <1>3, <1>4, <1>5, <1>6, <1>7, <1>8, <1>9, <1>10 DEF Next

\* A load starts with an empty cache and an empty work list.
LEMMA TypeInit == Init => TypeOK
<1> SUFFICES ASSUME Init PROVE TypeOK
  OBVIOUS
<1>1. parsedBranches \in Caches
  BY DEF Init, NoEntry, Entry, Caches, Results, Names, Revisions
<1>2. meta \in Metas
  BY DisksType DEF Init
<1> QED BY <1>1, <1>2 DEF Init, TypeOK

\* The load keeps the types of its state (parseBranchesAndMeta).
THEOREM TypeCorrect == Spec => []TypeOK
BY TypeInit, TypeStep, PTL DEF Spec

----------------------------------------------------------------------------
(***************************************************************************)
(* The work list and the cache partition the existing branches, and the    *)
(* parents the loop follows are the ones it found on disk.                 *)
(***************************************************************************)
OnWorkList(b) == \E i \in 1..Len(branchesToParse) : branchesToParse[i] = b

WorkListInv ==
  /\ \A i, j \in 1..Len(branchesToParse) :
       branchesToParse[i] = branchesToParse[j] => i = j
  /\ \A b \in Branches :
       status # "start" => (OnWorkList(b) <=> (b \in Present /\ ~IsParsed(b)))
  /\ \A b \in Branches : IsParsed(b) => b \in Present
  /\ \A b \in Present : meta[b].parent = disk.meta[b].parent
  /\ status = "start" => \A b \in Branches : ~IsParsed(b)
  /\ status = "done" => branchesToParse = <<>>

\* Adding an entry marks that branch parsed and no other.
LEMMA WithEntryParsed ==
  ASSUME TypeOK, NEW b \in Branches, NEW result \in Results \ {"NONE"},
         NEW parent, NEW prev,
         parsedBranches' = WithEntry(b, EntryFor(b, result, parent, prev))
  PROVE  \A c \in Branches :
           /\ c = b => IsParsed(c)'
           /\ c # b => /\ IsParsed(c)' <=> IsParsed(c)
                       /\ parsedBranches'[c].result = parsedBranches[c].result
                       /\ parsedBranches'[c].parent = parsedBranches[c].parent
                       /\ parsedBranches'[c].prev = parsedBranches[c].prev
                       /\ parsedBranches'[c].rev = parsedBranches[c].rev
                       /\ c # parent => parsedBranches'[c] = parsedBranches[c]
<1> TAKE c \in Branches
<1>1. parsedBranches[c] \in Entry
  BY DEF TypeOK, Caches
<1>2. CASE c = b
  BY <1>2 DEF WithEntry, EntryFor, IsParsed
<1>3. CASE c # b
  BY <1>1, <1>3 DEF WithEntry, EntryFor, IsParsed, Entry
<1> QED BY <1>2, <1>3

\* Every iteration that parses the head of the work list removes it from the
\* list and nothing else.
LEMMA ParseKeepsWorkList ==
  ASSUME TypeOK, WorkListInv, NEW b \in Branches, Iterate(b),
         NEW result \in Results \ {"NONE"}, NEW parent, NEW prev,
         Parse(b, result, parent, prev),
         \A c \in Present : meta'[c].parent = meta[c].parent
  PROVE  WorkListInv'
<1> DEFINE s == branchesToParse
<1>1. /\ s \in Seq(Branches) /\ s # <<>> /\ b = s[1] /\ Len(s) \in Nat \ {0}
      /\ Tail(s) \in Seq(Branches) /\ Len(Tail(s)) = Len(s) - 1
      /\ \A i \in 1..Len(s) - 1 : Tail(s)[i] = s[i + 1]
  BY TailProperties, IterateProperties DEF TypeOK
<1>2. branchesToParse' = Tail(s) /\ Present' = Present /\ disk' = disk /\ status' = status
      /\ status = "parsing"
  BY DEF Parse, Iterate, Present
<1>3. \A c \in Branches : (c = b => IsParsed(c)') /\ (c # b => (IsParsed(c)' <=> IsParsed(c)))
  BY WithEntryParsed DEF Parse
<1>4. OnWorkList(b)
  BY <1>1 DEF OnWorkList
<1>5. b \in Present /\ ~IsParsed(b)
  BY <1>2, <1>4 DEF WorkListInv
<1>6. \A i, j \in 1..Len(Tail(s)) : Tail(s)[i] = Tail(s)[j] => i = j
  <2> TAKE i, j \in 1..Len(Tail(s))
  <2> HAVE Tail(s)[i] = Tail(s)[j]
  <2>1. s[i + 1] = s[j + 1] /\ i + 1 \in 1..Len(s) /\ j + 1 \in 1..Len(s)
    BY <1>1
  <2> QED BY <2>1 DEF WorkListInv
<1>7. ASSUME NEW c \in Branches
      PROVE  OnWorkList(c)' <=> (OnWorkList(c) /\ c # b)
  <2>1. ASSUME OnWorkList(c)' PROVE OnWorkList(c) /\ c # b
    <3>1. PICK i \in 1..Len(Tail(s)) : Tail(s)[i] = c
      BY <1>2, <2>1 DEF OnWorkList
    <3>2. i + 1 \in 1..Len(s) /\ s[i + 1] = c /\ 1 \in 1..Len(s) /\ i + 1 # 1
      BY <1>1, <3>1
    <3> QED BY <1>1, <3>2 DEF OnWorkList, WorkListInv
  <2>2. ASSUME OnWorkList(c), c # b PROVE OnWorkList(c)'
    <3>1. PICK i \in 1..Len(s) : s[i] = c
      BY <2>2 DEF OnWorkList
    <3>2. i - 1 \in 1..Len(Tail(s)) /\ Tail(s)[i - 1] = c
      BY <1>1, <2>2, <3>1
    <3> QED BY <1>2, <3>2 DEF OnWorkList
  <2> QED BY <2>1, <2>2
<1> QED BY <1>2, <1>3, <1>5, <1>6, <1>7 DEF WorkListInv

\* The partition holds at every step: postponing a branch only rotates the
\* list.
LEMMA WorkListStep == TypeOK /\ WorkListInv /\ [Next]_vars => WorkListInv'
<1> SUFFICES ASSUME TypeOK, WorkListInv, [Next]_vars PROVE WorkListInv'
  OBVIOUS
<1>1. CASE GetAllBranchesAndMeta
  <2>1. /\ branchesToParse' \in [1..Cardinality(Present) -> Present]
        /\ \A i, j \in DOMAIN branchesToParse' :
             branchesToParse'[i] = branchesToParse'[j] => i = j
        /\ \A b \in Present : \E i \in DOMAIN branchesToParse' : branchesToParse'[i] = b
    BY <1>1 DEF GetAllBranchesAndMeta, Orders
  <2>2. Len(branchesToParse') = Cardinality(Present)
        /\ DOMAIN branchesToParse' = 1..Len(branchesToParse')
    BY <2>1, DiskTypes
  <2>3. Present' = Present /\ disk' = disk /\ parsedBranches' = parsedBranches
        /\ status = "start" /\ status' = "parsing"
    BY <1>1 DEF GetAllBranchesAndMeta, Present
  <2>4. \A b \in Present : meta'[b].parent = meta[b].parent
    BY <1>1 DEF GetAllBranchesAndMeta, Present
  <2>5. \A b \in Branches : ~IsParsed(b) /\ ~IsParsed(b)'
    BY <2>3 DEF WorkListInv, IsParsed
  <2>6. \A b \in Branches : OnWorkList(b)' <=> b \in Present
    BY <2>1, <2>2 DEF OnWorkList
  <2>7. \A i, j \in 1..Len(branchesToParse') :
           branchesToParse'[i] = branchesToParse'[j] => i = j
    BY <2>1, <2>2
  <2>8. \A b \in Present' : meta'[b].parent = disk'.meta[b].parent
    BY <2>3, <2>4 DEF WorkListInv
  <2> QED BY <2>3, <2>5, <2>6, <2>7, <2>8 DEF WorkListInv
<1>2. ASSUME NEW b \in Branches, ParseTrunk(b) PROVE WorkListInv'
  BY <1>2, ParseKeepsWorkList DEF ParseTrunk, Results
<1>3. ASSUME NEW b \in Branches, ParseBadParentName(b) PROVE WorkListInv'
  BY <1>3, ParseKeepsWorkList DEF ParseBadParentName, Results
<1>4. ASSUME NEW b \in Branches, Postpone(b) PROVE WorkListInv'
  <2> DEFINE s == branchesToParse
             r == Append(Tail(s), Head(s))
  <2>1. s \in Seq(Branches) /\ s # <<>> /\ b = Head(s) /\ Len(s) \in Nat \ {0} /\ Head(s) = s[1]
    BY <1>4, TailProperties, IterateProperties DEF Postpone, TypeOK
  <2>2. /\ r \in Seq(Branches) /\ Len(r) = Len(s) /\ r[Len(s)] = s[1]
        /\ \A i \in 1..Len(s) - 1 : r[i] = s[i + 1]
    BY <2>1, RotateProperties
  <2>3. branchesToParse' = r /\ UNCHANGED <<disk, status, meta, parsedBranches>>
    BY <1>4, <2>1 DEF Postpone, Iterate
  <2>4. \A i, j \in 1..Len(r) : r[i] = r[j] => i = j
    <3> HIDE DEF r
    <3> TAKE i, j \in 1..Len(r)
    <3> HAVE r[i] = r[j]
    <3>1. CASE i < Len(s) /\ j < Len(s)
      <4>1. s[i + 1] = s[j + 1] /\ i + 1 \in 1..Len(s) /\ j + 1 \in 1..Len(s)
        BY <2>1, <2>2, <3>1
      <4> QED BY <4>1 DEF WorkListInv
    <3>2. CASE i = Len(s) /\ j < Len(s)
      <4>1. s[1] = s[j + 1] /\ 1 \in 1..Len(s) /\ j + 1 \in 1..Len(s) /\ j + 1 # 1
        BY <2>1, <2>2, <3>2
      <4> QED BY <4>1 DEF WorkListInv
    <3>3. CASE i < Len(s) /\ j = Len(s)
      <4>1. s[1] = s[i + 1] /\ 1 \in 1..Len(s) /\ i + 1 \in 1..Len(s) /\ i + 1 # 1
        BY <2>1, <2>2, <3>3
      <4> QED BY <4>1 DEF WorkListInv
    <3> QED BY <2>1, <2>2, <3>1, <3>2, <3>3
  <2>5. ASSUME NEW c \in Branches PROVE OnWorkList(c)' <=> OnWorkList(c)
    <3> HIDE DEF r
    <3>1. ASSUME OnWorkList(c)' PROVE OnWorkList(c)
      <4>1. PICK i \in 1..Len(s) : r[i] = c
        BY <2>2, <2>3, <3>1 DEF OnWorkList
      <4>2. CASE i = Len(s)
        BY <2>1, <2>2, <4>1, <4>2 DEF OnWorkList
      <4>3. CASE i # Len(s)
        <5>1. i + 1 \in 1..Len(s) /\ s[i + 1] = c
          BY <2>1, <2>2, <4>1, <4>3
        <5> QED BY <5>1 DEF OnWorkList
      <4> QED BY <4>2, <4>3
    <3>2. ASSUME OnWorkList(c) PROVE OnWorkList(c)'
      <4>1. PICK i \in 1..Len(s) : s[i] = c
        BY <3>2 DEF OnWorkList
      <4>2. CASE i = 1
        <5>1. Len(s) \in 1..Len(r) /\ r[Len(s)] = c
          BY <2>1, <2>2, <4>1, <4>2
        <5> QED BY <2>3, <5>1 DEF OnWorkList
      <4>3. CASE i # 1
        <5>1. i - 1 \in 1..Len(r) /\ r[i - 1] = c
          BY <2>1, <2>2, <4>1, <4>3
        <5> QED BY <2>3, <5>1 DEF OnWorkList
      <4> QED BY <4>2, <4>3
    <3> QED BY <3>1, <3>2
  <2>6. Present' = Present /\ \A c \in Branches : IsParsed(c)' <=> IsParsed(c)
    BY <2>3 DEF Present, IsParsed
  <2>7. status = "parsing"
    BY <1>4 DEF Postpone, Iterate
  <2> HIDE DEF r
  <2> QED BY <2>3, <2>4, <2>5, <2>6, <2>7 DEF WorkListInv
<1>5. ASSUME NEW b \in Branches, ParseInvalidParent(b) PROVE WorkListInv'
  BY <1>5, ParseKeepsWorkList DEF ParseInvalidParent, Results
<1>6. ASSUME NEW b \in Branches, ParseValid(b) PROVE WorkListInv'
  <2>1. \A c \in Present : meta'[c].parent = meta[c].parent
    BY <1>6 DEF ParseValid, TypeOK, Metas, Meta, Present
  <2> QED BY <1>6, <2>1, ParseKeepsWorkList DEF ParseValid, Results
<1>7. ASSUME NEW b \in Branches, ParseBadParentRevision(b) PROVE WorkListInv'
  BY <1>7, ParseKeepsWorkList DEF ParseBadParentRevision, Results
<1>8. CASE Finish
  BY <1>8 DEF Finish, WorkListInv, OnWorkList, IsParsed, Present
<1>9. CASE DetectCycle
  BY <1>9 DEF DetectCycle, WorkListInv, OnWorkList, IsParsed, Present
<1>10. CASE UNCHANGED vars
  BY <1>10 DEF vars, WorkListInv, OnWorkList, IsParsed, Present
<1> QED BY <1>1, <1>2, <1>3, <1>4, <1>5, <1>6, <1>7, <1>8, <1>9, <1>10 DEF Next

----------------------------------------------------------------------------
(***************************************************************************)
(* The iteration budget.                                                   *)
(***************************************************************************)
\* The loop parses this branch when it comes to the head of the list.
Ready(b) ==
  \/ b = Trunk
  \/ ~HasParentName(disk.refs, disk.meta, b)
  \/ IsParsed(disk.meta[b].parent)

\* As long as branches wait and there is no cycle, one of them can be parsed,
\* and what is left of the budget reaches it and then everything behind it.
BudgetInv ==
  ~IsCyclic(disk.refs, disk.meta) =>
    /\ status = "parsing" /\ branchesToParse # <<>> =>
         \E i \in 1..Len(branchesToParse) :
           /\ Ready(branchesToParse[i])
           /\ cycleDetector >= Budget(Len(branchesToParse) - 1) + i
    /\ status # "cycle"

\* What the loop reads from the rewritten metadata is what was on disk.
LEMMA SameParents ==
  ASSUME TypeOK, WorkListInv, NEW b \in Present
  PROVE  /\ meta[b].parent = disk.meta[b].parent
         /\ HasParentName(disk.refs, meta, b) <=> HasParentName(disk.refs, disk.meta, b)
         /\ Follows(disk.refs, meta, b) <=> Follows(disk.refs, disk.meta, b)
BY DEF WorkListInv, HasParentName, Follows

\* A branch of the work list waits for its turn: it exists and is not parsed.
LEMMA HeadIsUnparsed ==
  ASSUME TypeOK, WorkListInv, NEW b \in Branches, Iterate(b)
  PROVE  b \in Present /\ ~IsParsed(b)
<1>1. branchesToParse # <<>> /\ b = branchesToParse[1] /\ Len(branchesToParse) \in Nat \ {0}
      /\ status = "parsing"
  BY IterateProperties, TailProperties DEF TypeOK
<1>2. OnWorkList(b)
  BY <1>1 DEF OnWorkList
<1> QED BY <1>1, <1>2 DEF WorkListInv

\* A waiting branch that is not ready has a parent that waits as well; if no
\* waiting branch is ready, the waiting branches form a cycle.
BranchesWait ==
  /\ TypeOK
  /\ WorkListInv
  /\ status = "parsing"
  /\ branchesToParse # <<>>
  /\ ~IsCyclic(disk.refs, disk.meta)

SomeReady == \E i \in 1..Len(branchesToParse) : Ready(branchesToParse[i])

\* A list of branches with no cycle has one whose parent is parsed.
LEMMA SomeBranchIsReady == BranchesWait => SomeReady
<1> SUFFICES ASSUME BranchesWait,
                    \A i \in 1..Len(branchesToParse) : ~Ready(branchesToParse[i])
             PROVE  FALSE
  BY DEF SomeReady
<1> USE DEF BranchesWait
<1> DEFINE S == {b \in Branches : OnWorkList(b)}
<1>1. S # {}
  <2>1. 1 \in 1..Len(branchesToParse) /\ branchesToParse[1] \in Branches
    BY TailProperties DEF TypeOK
  <2> QED BY <2>1 DEF OnWorkList
<1>2. ASSUME NEW b \in S
      PROVE  Follows(disk.refs, disk.meta, b) /\ disk.meta[b].parent \in S
  <2>1. ~Ready(b) /\ b \in Present
    BY DEF OnWorkList, WorkListInv
  <2>2. Follows(disk.refs, disk.meta, b)
    BY <2>1 DEF Ready, Follows, Present
  <2>3. disk.meta[b].parent \in Present /\ ~IsParsed(disk.meta[b].parent)
    BY <2>1, <2>2, DiskTypes DEF Ready, Follows, HasParentName, Present, Metas, Meta, Names
  <2> QED BY <2>2, <2>3, DiskTypes DEF WorkListInv
<1>3. S \in (SUBSET Branches) \ {{}}
  BY <1>1
<1> QED BY <1>2, <1>3 DEF IsCyclic

\* The same in the next state.
LEMMA SomeBranchIsReadyNext == BranchesWait' => SomeReady'
BY SomeBranchIsReady, PTL

\* An iteration that parses a branch leaves one branch fewer and still enough
\* of the budget for a whole pass over them.
LEMMA ParseKeepsBudget ==
  ASSUME TypeOK, WorkListInv, WorkListInv', TypeOK', BudgetInv, NEW b \in Branches, Iterate(b),
         branchesToParse' = Tail(branchesToParse)
  PROVE  BudgetInv'
<1> SUFFICES ASSUME ~IsCyclic(disk.refs, disk.meta) PROVE BudgetInv'
  BY DEF Iterate, BudgetInv
<1> DEFINE m == Len(branchesToParse)
<1>1. /\ status = "parsing" /\ status' = "parsing" /\ disk' = disk
      /\ branchesToParse # <<>> /\ m \in Nat \ {0}
      /\ Len(branchesToParse') = m - 1
      /\ branchesToParse' \in Seq(Branches)
      /\ cycleDetector \in Nat /\ cycleDetector' = cycleDetector - 1
  BY IterateProperties, TailProperties DEF Iterate, TypeOK
<1>2. PICK i \in 1..m : cycleDetector >= Budget(m - 1) + i
  BY <1>1 DEF BudgetInv
<1>3. cycleDetector' >= Budget(m - 1) /\ Budget(m - 1) \in Nat
  BY <1>1, <1>2, BudgetStep, m - 1 \in Nat
<1>4. CASE branchesToParse' = <<>>
  BY <1>1, <1>4 DEF BudgetInv
<1>5. CASE branchesToParse' # <<>>
  <2>1. PICK j \in 1..Len(branchesToParse') : Ready(branchesToParse[j])'
    <3>1. ~IsCyclic(disk'.refs, disk'.meta)
      BY <1>1
    <3> QED BY <1>1, <1>5, <3>1, SomeBranchIsReadyNext DEF BranchesWait, SomeReady
  <2>2. j \in 1..m - 1 /\ m - 1 > 0
    BY <1>1, <2>1
  <2>3. Budget(m - 1) = Budget((m - 1) - 1) + (m - 1) /\ Budget((m - 1) - 1) \in Nat
    BY <1>1, <2>2, BudgetStep, m - 1 \in Nat, (m - 1) - 1 \in Nat
  <2>4. cycleDetector' >= Budget((m - 1) - 1) + j
    BY <1>1, <1>3, <2>2, <2>3
  <2> QED BY <1>1, <2>1, <2>4 DEF BudgetInv
<1> QED BY <1>4, <1>5

\* Every iteration spends one unit of the budget: when the head is postponed
\* the ready branch comes one place closer, and when it is parsed the list is
\* shorter.
LEMMA BudgetStepInv ==
  TypeOK /\ TypeOK' /\ WorkListInv /\ WorkListInv' /\ BudgetInv /\ [Next]_vars => BudgetInv'
<1> SUFFICES ASSUME TypeOK, TypeOK', WorkListInv, WorkListInv', BudgetInv, [Next]_vars
             PROVE  BudgetInv'
  OBVIOUS
<1>1. CASE GetAllBranchesAndMeta
  <2> SUFFICES ASSUME ~IsCyclic(disk.refs, disk.meta), branchesToParse' # <<>>
               PROVE  BudgetInv'
    BY <1>1 DEF GetAllBranchesAndMeta, BudgetInv
  <2> DEFINE m == Len(branchesToParse')
  <2>1. disk' = disk /\ status' = "parsing"
    BY <1>1 DEF GetAllBranchesAndMeta
  <2>2. PICK j \in 1..m : Ready(branchesToParse[j])'
    <3>1. ~IsCyclic(disk'.refs, disk'.meta)
      BY <2>1
    <3> QED BY <2>1, <3>1, SomeBranchIsReadyNext DEF BranchesWait, SomeReady
  <2>3. m = Cardinality(Present) /\ m \in Nat /\ cycleDetector' = Budget(m)
    <3>1. branchesToParse' \in [1..Cardinality(Present) -> Present]
          /\ cycleDetector' = Budget(Cardinality(Present))
      BY <1>1 DEF GetAllBranchesAndMeta, Orders
    <3> QED BY <3>1, DiskTypes
  <2>4. m > 0 /\ Budget(m) = Budget(m - 1) + m /\ Budget(m - 1) \in Nat
    <3>1. m - 1 \in Nat
      BY <2>2, <2>3
    <3> HIDE DEF m
    <3> QED BY <2>2, <2>3, <3>1, BudgetStep
  <2>5. cycleDetector' >= Budget(m - 1) + j
    BY <2>2, <2>3, <2>4
  <2> QED BY <2>1, <2>2, <2>5 DEF BudgetInv
<1>2. ASSUME NEW b \in Branches, Postpone(b) PROVE BudgetInv'
  <2> SUFFICES ASSUME ~IsCyclic(disk.refs, disk.meta) PROVE BudgetInv'
    BY <1>2 DEF Postpone, Iterate, BudgetInv
  <2> DEFINE s == branchesToParse
             r == Append(Tail(s), Head(s))
  <2>1. /\ s \in Seq(Branches) /\ s # <<>> /\ b = Head(s) /\ Head(s) = s[1]
        /\ Len(s) \in Nat \ {0} /\ status = "parsing"
        /\ cycleDetector \in Nat /\ cycleDetector' = cycleDetector - 1
    BY <1>2, IterateProperties, TailProperties DEF Postpone, Iterate, TypeOK
  <2>2. /\ Len(r) = Len(s) /\ \A i \in 1..Len(s) - 1 : r[i] = s[i + 1]
    BY <2>1, RotateProperties
  <2>3. branchesToParse' = r /\ UNCHANGED <<disk, status, meta, parsedBranches>>
    BY <1>2, <2>1 DEF Postpone, Iterate
  <2>4. PICK i \in 1..Len(s) : Ready(s[i]) /\ cycleDetector >= Budget(Len(s) - 1) + i
    BY <2>1 DEF BudgetInv
  <2>5. ~Ready(b)
    <3>1. b \in Present
      BY <1>2, HeadIsUnparsed DEF Postpone
    <3> QED BY <1>2, <3>1, SameParents DEF Postpone, Follows, Ready
  <2>6. i - 1 \in 1..Len(r) /\ r[i - 1] = s[i]
    BY <2>1, <2>2, <2>4, <2>5
  <2>7. cycleDetector' >= Budget(Len(s) - 1) + (i - 1)
    BY <2>1, <2>4, BudgetStep, Len(s) - 1 \in Nat
  <2>8. \A c \in Branches : Ready(c)' <=> Ready(c)
    BY <2>3 DEF Ready, IsParsed
  <2>9. Ready(branchesToParse[i - 1])'
    <3>1. branchesToParse'[i - 1] = s[i] /\ s[i] \in Branches
      BY <2>1, <2>3, <2>6
    <3> QED BY <2>3, <2>4, <3>1 DEF Ready, IsParsed
  <2> HIDE DEF r
  <2> QED BY <2>1, <2>2, <2>3, <2>6, <2>7, <2>9 DEF BudgetInv
<1>3. ASSUME NEW b \in Branches,
             ParseTrunk(b) \/ ParseBadParentName(b) \/ ParseInvalidParent(b)
               \/ ParseValid(b) \/ ParseBadParentRevision(b)
      PROVE  BudgetInv'
  <2>1. Iterate(b) /\ branchesToParse' = Tail(branchesToParse)
    BY <1>3 DEF ParseTrunk, ParseBadParentName, ParseInvalidParent, ParseValid,
                ParseBadParentRevision, Parse
  <2> QED BY <2>1, ParseKeepsBudget
<1>4. CASE Finish
  BY <1>4 DEF Finish, BudgetInv
<1>5. CASE DetectCycle
  <2>1. branchesToParse # <<>> /\ cycleDetector <= 0 /\ status = "parsing" /\ disk' = disk
    BY <1>5 DEF DetectCycle
  <2>2. Len(branchesToParse) \in Nat \ {0}
    BY <2>1, TailProperties DEF TypeOK
  <2>3. \A i \in 1..Len(branchesToParse) :
           ~(cycleDetector >= Budget(Len(branchesToParse) - 1) + i)
    BY <2>1, <2>2, BudgetStep, Len(branchesToParse) - 1 \in Nat DEF TypeOK
  <2> QED BY <2>1, <2>3 DEF BudgetInv
<1>6. CASE UNCHANGED vars
  BY <1>6 DEF vars, BudgetInv, Ready, IsParsed
<1> QED BY <1>1, <1>2, <1>3, <1>4, <1>5, <1>6 DEF Next

\* parseBranchesAndMeta never reports a cycle in metadata without one: the
\* comment "it takes at most n(n+1)/2 iterations to parse all of them" is
\* right for every number of branches and every order of them.
THEOREM BudgetSuffices == Spec => []NoFalseCycle
<1> DEFINE Inv == TypeOK /\ WorkListInv /\ BudgetInv
<1>1. Init => Inv
  <2> SUFFICES ASSUME Init PROVE Inv
    OBVIOUS
  <2>1. TypeOK
    BY TypeInit
  <2>2. WorkListInv
    BY DEF Init, WorkListInv, OnWorkList, IsParsed, NoEntry, Present
  <2>3. BudgetInv
    BY DEF Init, BudgetInv
  <2> QED BY <2>1, <2>2, <2>3
<1>2. Inv /\ [Next]_vars => Inv'
  BY TypeStep, WorkListStep, BudgetStepInv
<1>3. Inv => NoFalseCycle
  BY DEF BudgetInv, NoFalseCycle
<1> QED BY <1>1, <1>2, <1>3, PTL DEF Spec

----------------------------------------------------------------------------
(***************************************************************************)
(* Cycles are never parsed.                                                *)
(***************************************************************************)
\* The branches of a cycle wait for each other.
ClosedSet(S) ==
  \A b \in S : Follows(disk.refs, disk.meta, b) /\ disk.meta[b].parent \in S

CycleWaits ==
  \A S \in SUBSET Branches : ClosedSet(S) => \A b \in S : ~IsParsed(b)

\* No step parses a branch of a cycle, because its parent is never parsed.
LEMMA CycleWaitsStep ==
  TypeOK /\ WorkListInv /\ CycleWaits /\ [Next]_vars => CycleWaits'
<1> SUFFICES ASSUME TypeOK, WorkListInv, CycleWaits, [Next]_vars,
                    NEW S \in SUBSET Branches, ClosedSet(S)', NEW a \in S, IsParsed(a)'
             PROVE  FALSE
  BY DEF CycleWaits
<1>1. disk' = disk
  BY DEF Next, vars, GetAllBranchesAndMeta, ParseTrunk, ParseBadParentName, Postpone,
         ParseInvalidParent, ParseValid, ParseBadParentRevision, Iterate, Finish, DetectCycle
<1>2. ClosedSet(S) /\ ~IsParsed(a)
  BY <1>1 DEF ClosedSet, CycleWaits
<1>3. Follows(disk.refs, disk.meta, a) /\ disk.meta[a].parent \in S
  BY <1>2 DEF ClosedSet
<1>4. a \in Present /\ ~IsParsed(disk.meta[a].parent)
  BY <1>2, <1>3 DEF CycleWaits, Follows, Present
<1>5. Follows(disk.refs, meta, a) /\ ~IsParsed(meta[a].parent)
  BY <1>3, <1>4, SameParents
<1>6. parsedBranches' # parsedBranches
  BY <1>2 DEF IsParsed
<1>7. PICK b \in Branches : ParseTrunk(b) \/ ParseBadParentName(b) \/ ParseInvalidParent(b)
                              \/ ParseValid(b) \/ ParseBadParentRevision(b)
  BY <1>6 DEF Next, vars, GetAllBranchesAndMeta, Postpone, Finish, DetectCycle
<1>8. b # a
  BY <1>5, <1>7 DEF ParseTrunk, ParseBadParentName, ParseInvalidParent, ParseValid,
                    ParseBadParentRevision, Follows
<1>9. PICK result \in Results \ {"NONE"}, parent \in Names, prev \in Revisions :
        parsedBranches' = WithEntry(b, EntryFor(b, result, parent, prev))
  <2>1. meta[b].parent \in Names /\ meta[b].rev \in Revisions /\ NoBranch \in Names
        /\ NoCommit \in Revisions
    BY DEF TypeOK, Metas, Meta, Names, Revisions
  <2>2. ASSUME ParseValid(b) PROVE NewRevision(b) \in Revisions
    <3>1. meta[b].parent \in Branches
      BY <2>1, <2>2 DEF ParseValid, Follows, HasParentName, Names
    <3>2. parsedBranches[meta[b].parent].rev \in Revisions
      BY <3>1 DEF TypeOK, Caches, Entry
    <3> QED BY <2>1, <3>2, ValidatedRevisionProperties DEF NewRevision
  <2> QED BY <1>7, <2>1, <2>2
          DEF ParseTrunk, ParseBadParentName, ParseInvalidParent, ParseValid,
              ParseBadParentRevision, Parse, Results
<1>10. IsParsed(a)' <=> IsParsed(a)
  BY <1>8, <1>9, WithEntryParsed
<1> QED BY <1>2, <1>10

\* A load that returns a cache found no cycle in the metadata: the iteration
\* budget is the only check for one, and it misses none.
THEOREM CyclesAreDetected == Spec => []NoMissedCycle
<1> DEFINE Inv == TypeOK /\ WorkListInv /\ CycleWaits
<1>1. Init => Inv
  <2> SUFFICES ASSUME Init PROVE Inv
    OBVIOUS
  <2>1. TypeOK
    BY TypeInit
  <2>2. \A b \in Branches : ~IsParsed(b)
    BY DEF Init, IsParsed, NoEntry
  <2> QED BY <2>1, <2>2 DEF Init, WorkListInv, OnWorkList, Present, CycleWaits
<1>2. Inv /\ [Next]_vars => Inv'
  BY TypeStep, WorkListStep, CycleWaitsStep
<1>3. Inv => NoMissedCycle
  <2> SUFFICES ASSUME Inv, status = "done", NEW S \in (SUBSET Branches) \ {{}}, ClosedSet(S)
               PROVE  FALSE
    BY DEF NoMissedCycle, IsCyclic, ClosedSet
  <2>1. PICK b \in S : b \in Present
    BY DEF ClosedSet, Follows, Present
  <2>2. IsParsed(b)
    BY <2>1 DEF WorkListInv, OnWorkList
  <2> QED BY <2>2 DEF CycleWaits
<1> QED BY <1>1, <1>2, <1>3, PTL DEF Spec

----------------------------------------------------------------------------
(***************************************************************************)
(* What restack relies on.                                                 *)
(***************************************************************************)
RootedNow(b) ==
  LET e == parsedBranches[b]
  IN  e.result = "VALID" =>
        /\ e.parent \in Branches \ {b}
        /\ parsedBranches[e.parent].result \in {"VALID", "TRUNK"}
        /\ e.prev # NoCommit
        /\ IsAncestor(e.prev, e.rev)
        /\ meta[b] = [parent |-> e.parent, rev |-> e.prev]

\* Once a branch is parsed its entry and its metadata change no more, except
\* for the list of its children.
LEMMA RootedStep == TypeOK /\ WorkListInv /\ ValidIsRooted /\ [Next]_vars => ValidIsRooted'
<1> SUFFICES ASSUME TypeOK, WorkListInv, ValidIsRooted, [Next]_vars, NEW a \in Branches
             PROVE  RootedNow(a)'
  BY DEF ValidIsRooted, RootedNow
<1>1. CASE parsedBranches' = parsedBranches
  <2> SUFFICES ASSUME parsedBranches[a].result = "VALID" PROVE RootedNow(a)'
    BY <1>1 DEF RootedNow
  <2>1. meta'[a] = meta[a]
    <3>1. IsParsed(a) /\ a \in Present
      BY <1>1 DEF IsParsed, WorkListInv
    <3>2. ~ParseValid(a)
      BY <3>1, HeadIsUnparsed DEF ParseValid
    <3>3. ASSUME NEW b \in Branches, ParseValid(b) PROVE meta'[a] = meta[a]
      BY <3>2, <3>3 DEF ParseValid, TypeOK, Metas
    <3> QED BY <3>1, <3>3 DEF Next, vars, GetAllBranchesAndMeta, ParseTrunk, ParseBadParentName,
                Postpone, ParseInvalidParent, ParseBadParentRevision, Finish, DetectCycle, Present
  <2> QED BY <1>1, <2>1 DEF ValidIsRooted, RootedNow
<1>2. ASSUME NEW b \in Branches, NEW result \in Results \ {"NONE"}, NEW parent \in Names,
             NEW prev \in Revisions, Iterate(b), Parse(b, result, parent, prev),
             \A c \in Branches \ {b} : meta'[c] = meta[c],
             result = "VALID" => /\ parent \in Branches \ {b}
                                 /\ parsedBranches[parent].result \in {"VALID", "TRUNK"}
                                 /\ prev # NoCommit
                                 /\ IsAncestor(prev, disk.refs[b])
                                 /\ meta'[b] = [parent |-> parent, rev |-> prev]
      PROVE  RootedNow(a)'
  <2>1. parsedBranches' = WithEntry(b, EntryFor(b, result, parent, prev))
    BY <1>2 DEF Parse
  <2>2. \A c \in Branches \ {b} :
          /\ parsedBranches'[c].result = parsedBranches[c].result
          /\ parsedBranches'[c].parent = parsedBranches[c].parent
          /\ parsedBranches'[c].prev = parsedBranches[c].prev
          /\ parsedBranches'[c].rev = parsedBranches[c].rev
    BY <1>2, <2>1, WithEntryParsed
  <2>3. ~IsParsed(b)
    BY <1>2, HeadIsUnparsed
  <2>4. CASE a = b
    <3>1. parsedBranches'[a] = EntryFor(b, result, parent, prev)
      BY <2>1, <2>4 DEF WithEntry
    <3> QED BY <1>2, <2>2, <2>4, <3>1 DEF EntryFor, RootedNow
  <2>5. CASE a # b
    <3> SUFFICES ASSUME parsedBranches'[a].result = "VALID" PROVE RootedNow(a)'
      BY DEF RootedNow
    <3>1. parsedBranches[a].result = "VALID"
      BY <2>2, <2>5
    <3>2. parsedBranches[a].parent \in Branches \ {a, b}
      BY <2>3, <3>1 DEF ValidIsRooted, IsParsed
    <3>3. parsedBranches'[parsedBranches[a].parent].result
            = parsedBranches[parsedBranches[a].parent].result
      BY <2>2, <3>2
    <3>4. meta'[a] = meta[a]
      BY <1>2, <2>5
    <3> QED BY <2>2, <2>5, <3>1, <3>2, <3>3, <3>4 DEF ValidIsRooted, RootedNow
  <2> QED BY <2>4, <2>5
<1>3. ASSUME NEW b \in Branches, ParseTrunk(b) PROVE RootedNow(a)'
  BY <1>2, <1>3 DEF ParseTrunk, Results, Names, Revisions, RootedNow
<1>4. ASSUME NEW b \in Branches, ParseBadParentName(b) PROVE RootedNow(a)'
  BY <1>2, <1>4 DEF ParseBadParentName, Results, Names, Revisions, RootedNow
<1>5. ASSUME NEW b \in Branches, ParseInvalidParent(b) PROVE RootedNow(a)'
  <2>1. meta[b].parent \in Names /\ meta[b].rev \in Revisions
    BY DEF TypeOK, Metas, Meta
  <2> QED BY <1>2, <1>5, <2>1 DEF ParseInvalidParent, Results, RootedNow
<1>6. ASSUME NEW b \in Branches, ParseBadParentRevision(b) PROVE RootedNow(a)'
  <2>1. meta[b].parent \in Names
    BY DEF TypeOK, Metas, Meta
  <2> QED BY <1>2, <1>6, <2>1 DEF ParseBadParentRevision, Results, Revisions, RootedNow
<1>7. ASSUME NEW b \in Branches, ParseValid(b) PROVE RootedNow(a)'
  <2>1. meta[b].parent \in Branches \ {b} /\ meta[b].rev \in Revisions
    BY <1>7 DEF ParseValid, Follows, HasParentName, TypeOK, Metas, Meta, Names
  <2>2. parsedBranches[meta[b].parent].rev \in Revisions
    BY <2>1 DEF TypeOK, Caches, Entry
  <2>3. NewRevision(b) \in Revisions /\ IsAncestor(NewRevision(b), disk.refs[b])
    BY <1>7, <2>1, <2>2, ValidatedRevisionProperties DEF NewRevision, ParseValid
  <2>4. /\ \A c \in Branches \ {b} : meta'[c] = meta[c]
        /\ meta'[b] = [parent |-> meta[b].parent, rev |-> NewRevision(b)]
    BY <1>7 DEF ParseValid, TypeOK, Metas, Meta
  <2> QED BY <1>2, <1>7, <2>1, <2>3, <2>4
          DEF ParseValid, ParentIsValid, Results, Names, RootedNow
<1> QED BY <1>1, <1>3, <1>4, <1>5, <1>6, <1>7
        DEF Next, vars, GetAllBranchesAndMeta, Postpone, Finish, DetectCycle, RootedNow

\* A VALID branch sits on a valid branch or trunk, from a revision in its own
\* history that is also the recorded one: what `git rebase --onto parent prev`
\* needs to move the branch's own commits and no others.
THEOREM ValidBranchesAreRooted == Spec => []ValidIsRooted
<1> DEFINE Inv == TypeOK /\ WorkListInv /\ ValidIsRooted
<1>1. Init => Inv
  <2> SUFFICES ASSUME Init PROVE Inv
    OBVIOUS
  <2>1. TypeOK
    BY TypeInit
  <2> QED BY <2>1 DEF Init, WorkListInv, OnWorkList, IsParsed, NoEntry, Present, ValidIsRooted
<1>2. Inv /\ [Next]_vars => Inv'
  BY TypeStep, WorkListStep, RootedStep
<1> QED BY <1>1, <1>2, PTL DEF Spec

\* Of the loop of parseBranchesAndMeta: the cycles it reports are cycles, those
\* it does not report are none, and what it calls VALID rests on trunk.
THEOREM VerdictsHold == Spec => []VerdictsAreRight
BY BudgetSuffices, CyclesAreDetected, ValidBranchesAreRooted, PTL DEF VerdictsAreRight

----------------------------------------------------------------------------
(***************************************************************************)
(* The definition of a load.  Rooted is recursive; what is needed of it is *)
(* that it is closed: after as many rounds as there are branches a round   *)
(* more adds none.                                                         *)
(***************************************************************************)
\* What holds of 0 and goes from each number to the next holds of all.
LEMMA EveryNumber ==
  ASSUME NEW T, T \subseteq Nat, \A n \in T : n # 0 /\ n - 1 \in T
  PROVE  T = {}
<1> DEFINE R == OpToRel(<, Nat)
<1> SUFFICES ASSUME T # {} PROVE FALSE
  OBVIOUS
<1>1. IsWellFoundedOn(R, Nat)
  BY NatLessThanWellFounded
<1>2. PICK x \in T : \A y \in T : ~ (<<y, x>> \in R)
  <2> HIDE DEF R
  <2> QED BY <1>1, WFMin
<1>3. x - 1 \in T /\ x - 1 \in Nat /\ x \in Nat /\ x - 1 < x
  OBVIOUS
<1>4. <<x - 1, x>> \in R
  BY <1>3, Zenon DEF OpToRel
<1> QED BY <1>2, <1>3, <1>4

StandsOn(heads, stored, S, b) ==
  Follows(heads, stored, b) /\ stored[b].parent \in S /\ RevisionFrom(heads, stored, b) # NoCommit

Ground(heads) == {b \in {Trunk} : heads[b] # NoCommit}

Grown(heads, stored, S) == S \cup {b \in Branches : StandsOn(heads, stored, S, b)}

IsGrowth(f, heads, stored, n) ==
  f = [i \in 0..n |-> IF i = 0 THEN Ground(heads) ELSE Grown(heads, stored, f[i-1])]

\* The rounds of a load can be counted as far as one likes.
LEMMA GrowthExists ==
  ASSUME NEW heads, NEW stored, NEW n \in Nat
  PROVE  \E f : IsGrowth(f, heads, stored, n)
<1> DEFINE T == {k \in Nat : ~ \E f : IsGrowth(f, heads, stored, k)}
<1>1. ASSUME NEW m \in T PROVE m # 0 /\ m - 1 \in T
  <2>1. m # 0
    <3>1. IsGrowth([i \in 0..0 |-> Ground(heads)], heads, stored, 0)
      BY DEF IsGrowth
    <3> QED BY <3>1
  <2>2. ASSUME NEW g, IsGrowth(g, heads, stored, m - 1) PROVE FALSE
    <3> DEFINE last == Grown(heads, stored, g[m - 1])
               f == [i \in 0..m |-> IF i = m THEN last ELSE g[i]]
    <3>1. ASSUME NEW i \in 0..m
          PROVE  f[i] = IF i = 0 THEN Ground(heads) ELSE Grown(heads, stored, f[i-1])
      <4>1. CASE i = 0
        BY <4>1, <2>1, <2>2 DEF IsGrowth
      <4>2. CASE i # 0 /\ i = m
        BY <4>2, <2>1
      <4>3. CASE i # 0 /\ i # m
        <5>1. i \in 0..(m - 1) /\ i - 1 \in 0..m /\ i - 1 # m
          BY <4>3
        <5>2. f[i] = g[i] /\ f[i - 1] = g[i - 1]
          BY <4>3, <5>1
        <5>3. g[i] = Grown(heads, stored, g[i-1])
          BY <4>3, <5>1, <2>2 DEF IsGrowth
        <5> HIDE DEF f
        <5> QED BY <4>3, <5>2, <5>3
      <4> QED BY <4>1, <4>2, <4>3
    <3>2. IsGrowth(f, heads, stored, m)
      BY <3>1, Zenon DEF IsGrowth
    <3> QED BY <3>2
  <2> QED BY <2>1, <2>2
<1>2. T \subseteq Nat
  OBVIOUS
<1> HIDE DEF T
<1>3. T = {}
  BY <1>1, <1>2, EveryNumber
<1> QED BY <1>3 DEF T

\* Exactly trunk and the branches that stand on a rooted one are rooted.
LEMMA RootedIsClosed ==
  ASSUME NEW heads, NEW stored
  PROVE  LET R == Rooted(heads, stored)
         IN  \A b \in Branches :
               b \in R <=> b \in Ground(heads) \/ StandsOn(heads, stored, R, b)
<1> DEFINE n == Cardinality(Branches)
           f == CHOOSE g : IsGrowth(g, heads, stored, n)
           base == Ground(heads)
           grow(S) == Grown(heads, stored, S)
<1>1. n \in Nat
  BY BranchNames, FS_CardinalityType
<1>2. IsGrowth(f, heads, stored, n)
  BY <1>1, GrowthExists
<1>3. Rooted(heads, stored) = f[n]
  BY DEF Rooted, IsGrowth, Grown, Ground, StandsOn
<1> HIDE DEF f, n
<1>4. \A i \in 0..n : f[i] = IF i = 0 THEN base ELSE grow(f[i-1])
  BY <1>2 DEF IsGrowth
<1>5. base \subseteq Branches
  BY BranchNames DEF Ground
<1>6. \A S : S \subseteq grow(S) /\ (S \subseteq Branches => grow(S) \subseteq Branches)
  BY DEF Grown
<1>7. \A S, b : b \in grow(S) <=> b \in S \/ (b \in Branches /\ StandsOn(heads, stored, S, b))
  BY DEF Grown
<1>8. \A S, U, b : StandsOn(heads, stored, S, b) /\ S \subseteq U => StandsOn(heads, stored, U, b)
  BY DEF StandsOn
<1> HIDE DEF base, grow
<1>9. \A i \in 0..n : f[i] \subseteq Branches
  <2> DEFINE T == {i \in 0..n : ~ (f[i] \subseteq Branches)}
  <2>1. ASSUME NEW i \in T PROVE i # 0 /\ i - 1 \in T
    <3>1. i # 0
      BY <1>4, <1>5
    <3>2. i - 1 \in 0..n /\ f[i] = grow(f[i-1])
      BY <1>1, <1>4, <3>1
    <3> QED BY <1>6, <3>1, <3>2
  <2>2. T \subseteq Nat
    BY <1>1
  <2> HIDE DEF T
  <2>3. T = {}
    BY <2>1, <2>2, EveryNumber
  <2> QED BY <2>3 DEF T
<1>10. \A i \in 0..n : \A b \in f[i] : b \in base \/ StandsOn(heads, stored, f[i], b)
  <2> DEFINE T == {i \in 0..n : \E b \in f[i] : ~ (b \in base \/ StandsOn(heads, stored, f[i], b))}
  <2>1. ASSUME NEW i \in T PROVE i # 0 /\ i - 1 \in T
    <3>1. PICK b \in f[i] : b \notin base /\ ~ StandsOn(heads, stored, f[i], b)
      OBVIOUS
    <3>2. i # 0
      BY <1>4, <3>1
    <3>3. i - 1 \in 0..n /\ f[i] = grow(f[i-1])
      BY <1>1, <1>4, <3>2
    <3>4. f[i-1] \subseteq f[i]
      BY <1>6, <3>3
    <3>5. ~ StandsOn(heads, stored, f[i-1], b)
      BY <1>8, <3>1, <3>4
    <3>6. b \in f[i-1]
      BY <1>7, <3>1, <3>3, <3>5
    <3> QED BY <3>1, <3>2, <3>3, <3>5, <3>6
  <2>2. T \subseteq Nat
    BY <1>1
  <2> HIDE DEF T
  <2>3. T = {}
    BY <2>1, <2>2, EveryNumber
  <2> QED BY <2>3 DEF T
<1>11. \A i \in 0..n : base \subseteq f[i]
  <2> DEFINE T == {i \in 0..n : ~ (base \subseteq f[i])}
  <2>1. ASSUME NEW i \in T PROVE i # 0 /\ i - 1 \in T
    <3>1. i # 0
      BY <1>4
    <3>2. i - 1 \in 0..n /\ f[i] = grow(f[i-1])
      BY <1>1, <1>4, <3>1
    <3> QED BY <1>6, <3>1, <3>2
  <2>2. T \subseteq Nat
    BY <1>1
  <2> HIDE DEF T
  <2>3. T = {}
    BY <2>1, <2>2, EveryNumber
  <2> QED BY <2>3 DEF T
<1>12. \A i \in 0..n : grow(f[i]) = f[i] \/ Cardinality(f[i]) >= i
  <2>0. \A i \in 0..n : IsFiniteSet(f[i]) /\ Cardinality(f[i]) \in Nat
    BY <1>9, BranchNames, FS_Subset, FS_CardinalityType
  <2> DEFINE T == {i \in 0..n : grow(f[i]) # f[i] /\ ~ (Cardinality(f[i]) >= i)}
  <2>1. ASSUME NEW i \in T PROVE i # 0 /\ i - 1 \in T
    <3>1. i # 0
      BY <2>0
    <3>2. i \in 0..n /\ i - 1 \in 0..n /\ f[i] = grow(f[i-1])
      BY <1>1, <1>4, <3>1
    <3>3. grow(f[i-1]) # f[i-1]
      BY <3>2
    <3>4. f[i-1] \subseteq f[i] /\ f[i-1] # f[i]
      BY <1>6, <3>2, <3>3
    <3>5. Cardinality(f[i-1]) <= Cardinality(f[i]) /\ Cardinality(f[i]) # Cardinality(f[i-1])
      <4>1. f[i-1] \in SUBSET f[i] /\ IsFiniteSet(f[i])
        BY <2>0, <3>2, <3>4
      <4> QED BY <3>4, <4>1, FS_Subset
    <3>6. Cardinality(f[i-1]) \in Nat /\ Cardinality(f[i]) \in Nat /\ ~ (Cardinality(f[i]) >= i)
      BY <2>0, <3>2
    <3>7. ~ (Cardinality(f[i-1]) >= i - 1)
      BY <1>1, <3>2, <3>5, <3>6
    <3> QED BY <3>1, <3>2, <3>3, <3>7
  <2>2. T \subseteq Nat
    BY <1>1
  <2> HIDE DEF T
  <2>3. T = {}
    BY <2>1, <2>2, EveryNumber
  <2> QED BY <2>3 DEF T
<1>13. n \in 0..n
  BY <1>1
<1>14. grow(f[n]) = f[n]
  <2>1. CASE Cardinality(f[n]) >= n
    <3>1. f[n] \in SUBSET Branches
      BY <1>9, <1>13
    <3>2. Cardinality(f[n]) <= n /\ Cardinality(f[n]) \in Nat
      BY <3>1, BranchNames, FS_Subset, FS_CardinalityType DEF n
    <3>3. Cardinality(f[n]) = n
      BY <1>1, <2>1, <3>2
    <3>4. f[n] = Branches
      BY <3>1, <3>3, BranchNames, FS_Subset DEF n
    <3> QED BY <1>6, <3>4
  <2> QED BY <1>12, <1>13, <2>1
<1> QED
  <2> SUFFICES ASSUME NEW b \in Branches
               PROVE  b \in f[n] <=> b \in base \/ StandsOn(heads, stored, f[n], b)
    BY <1>3 DEF base
  <2> QED BY <1>7, <1>10, <1>11, <1>13, <1>14

----------------------------------------------------------------------------
(***************************************************************************)
(* What is parsed is as the definition says.                               *)
(***************************************************************************)
RootedOnDisk    == Rooted(disk.refs, disk.meta)
KnownFollows(b) == Follows(disk.refs, disk.meta, b)
KnownResult(b)  == ResultOf(disk.refs, disk.meta, RootedOnDisk, b)
KnownParent(b)  == IF KnownFollows(b) THEN disk.meta[b].parent ELSE NoBranch
KnownPrev(b)    ==
  IF KnownResult(b) = "VALID" THEN RevisionFrom(disk.refs, disk.meta, b)
  ELSE IF KnownResult(b) = "INVALID_PARENT" THEN disk.meta[b].rev
  ELSE NoCommit
KnownMeta(b)    ==
  IF disk.refs[b] = NoCommit THEN NoMeta
  ELSE IF b \in RootedOnDisk \ {Trunk}
       THEN [disk.meta[b] EXCEPT !.rev = RevisionFrom(disk.refs, disk.meta, b)]
  ELSE disk.meta[b]

IsAsKnown(b) ==
  /\ parsedBranches[b].result = KnownResult(b)
  /\ parsedBranches[b].parent = KnownParent(b)
  /\ parsedBranches[b].prev = KnownPrev(b)
  /\ parsedBranches[b].rev = disk.refs[b]
  /\ meta[b] = KnownMeta(b)
  /\ KnownFollows(b) => IsParsed(disk.meta[b].parent)

IsUntouched(b) ==
  /\ parsedBranches[b] = NoEntry
  /\ status = "start" \/ b \in Present => meta[b] = disk.meta[b]
  /\ status # "start" /\ b \notin Present => meta[b] = NoMeta

HasItsChildren(b) ==
  ToSet(parsedBranches[b].children) = {c \in Branches : IsParsed(c) /\ KnownParent(c) = b}

KnownInv ==
  \A b \in Branches : /\ IsParsed(b) => IsAsKnown(b)
                      /\ ~IsParsed(b) => IsUntouched(b)
                      /\ HasItsChildren(b)

\* An existing branch is VALID or trunk exactly if it is rooted.
LEMMA RootedAreValid ==
  ASSUME TypeOK, NEW b \in Present
  PROVE  KnownResult(b) \in {"VALID", "TRUNK"} <=> b \in RootedOnDisk
<1> DEFINE R == Rooted(disk.refs, disk.meta)
<1>1. b \in Branches /\ disk.refs[b] # NoCommit /\ disk.refs[Trunk] # NoCommit
  BY DiskTypes DEF Present
<1>2. b \in R <=> b \in Ground(disk.refs) \/ StandsOn(disk.refs, disk.meta, R, b)
  BY <1>1, RootedIsClosed
<1> HIDE DEF R
<1>3. b = Trunk => b \in R
  BY <1>1, <1>2 DEF Ground
<1>4. b # Trunk /\ b \in R => HasParentName(disk.refs, disk.meta, b)
  BY <1>2 DEF Ground, StandsOn, Follows
<1> QED BY <1>1, <1>3, <1>4 DEF KnownResult, RootedOnDisk, ResultOf, R

\* A branch that follows another one is VALID if that one is rooted and there
\* is a revision of it to stand on.
LEMMA FollowersResult ==
  ASSUME TypeOK, NEW b \in Branches, KnownFollows(b)
  PROVE  LET p == disk.meta[b].parent
             hasRevision == RevisionFrom(disk.refs, disk.meta, b) # NoCommit
         IN  /\ b \in RootedOnDisk <=> p \in RootedOnDisk /\ hasRevision
             /\ KnownResult(b) = IF p \notin RootedOnDisk THEN "INVALID_PARENT"
                                 ELSE IF hasRevision THEN "VALID" ELSE "BAD_PARENT_REVISION"
<1> DEFINE R == Rooted(disk.refs, disk.meta)
<1>1. b # Trunk /\ disk.refs[b] # NoCommit /\ HasParentName(disk.refs, disk.meta, b)
  BY DEF KnownFollows, Follows
<1>2. b \in R <=> b \in Ground(disk.refs) \/ StandsOn(disk.refs, disk.meta, R, b)
  BY RootedIsClosed
<1> HIDE DEF R
<1>3. b \in R <=> /\ disk.meta[b].parent \in R
                  /\ RevisionFrom(disk.refs, disk.meta, b) # NoCommit
  BY <1>1, <1>2 DEF Ground, StandsOn, KnownFollows
<1> QED BY <1>1, <1>3 DEF KnownResult, RootedOnDisk, ResultOf, R

\* At the head of the work list is a branch that exists and whose metadata is
\* the one on disk; a parent it follows exists too.
LEMMA HeadIsAsOnDisk ==
  ASSUME TypeOK, WorkListInv, KnownInv, NEW b \in Branches, Iterate(b)
  PROVE  /\ b \in Present /\ ~IsParsed(b) /\ meta[b] = disk.meta[b]
         /\ Follows(disk.refs, meta, b) <=> KnownFollows(b)
         /\ HasParentName(disk.refs, meta, b) <=> HasParentName(disk.refs, disk.meta, b)
         /\ KnownFollows(b) => meta[b].parent \in Present
<1>1. b \in Present /\ ~IsParsed(b)
  BY HeadIsUnparsed
<1>2. meta[b] = disk.meta[b]
  BY <1>1 DEF KnownInv, IsUntouched
<1>3. KnownFollows(b) => meta[b].parent \in Present
  BY <1>2, DiskTypes DEF KnownFollows, Follows, HasParentName, Present, Metas, Meta, Names
<1> QED BY <1>1, <1>2, <1>3 DEF Follows, KnownFollows, HasParentName

\* Of a parent that has been parsed the loop knows whether it is rooted, and
\* which revision the branch gets from it.
LEMMA ParentIsKnown ==
  ASSUME TypeOK, WorkListInv, KnownInv, NEW b \in Branches, Iterate(b),
         KnownFollows(b), IsParsed(meta[b].parent)
  PROVE  /\ ParentIsValid(b) <=> disk.meta[b].parent \in RootedOnDisk
         /\ NewRevision(b) = RevisionFrom(disk.refs, disk.meta, b)
<1> DEFINE p == meta[b].parent
<1>1. p \in Present /\ p \in Branches /\ meta[b] = disk.meta[b]
  BY HeadIsAsOnDisk DEF Present
<1>2. parsedBranches[p].result = KnownResult(p) /\ parsedBranches[p].rev = disk.refs[p]
  BY <1>1 DEF KnownInv, IsAsKnown
<1>3. KnownResult(p) \in {"VALID", "TRUNK"} <=> p \in RootedOnDisk
  BY <1>1, RootedAreValid
<1>4. NewRevision(b) = RevisionFrom(disk.refs, disk.meta, b)
  BY <1>1, <1>2 DEF NewRevision, RevisionFrom
<1> QED BY <1>1, <1>2, <1>3, <1>4 DEF ParentIsValid

\* The end of a list is a member like the others.
LEMMA AppendedSet ==
  ASSUME NEW S, NEW s \in Seq(S), NEW e \in S
  PROVE  ToSet(Append(s, e)) = ToSet(s) \cup {e}
<1>1. /\ DOMAIN s = 1..Len(s) /\ DOMAIN Append(s, e) = 1..(Len(s) + 1) /\ Len(s) \in Nat
      /\ \A i \in 1..Len(s) : Append(s, e)[i] = s[i]
      /\ Append(s, e)[Len(s) + 1] = e
  OBVIOUS
<1>2. ASSUME NEW x PROVE x \in ToSet(Append(s, e)) <=> x \in ToSet(s) \/ x = e
  <2>1. x \in ToSet(s) <=> \E i \in 1..Len(s) : s[i] = x
    BY <1>1 DEF ToSet
  <2>2. x \in ToSet(Append(s, e)) <=> \E i \in 1..(Len(s) + 1) : Append(s, e)[i] = x
    BY <1>1 DEF ToSet
  <2>3. 1..(Len(s) + 1) = 1..Len(s) \cup {Len(s) + 1}
    BY <1>1
  <2> QED BY <1>1, <2>1, <2>2, <2>3
<1> QED BY <1>2

\* An iteration that parses a branch as the definition says.
LEMMA ParseAsKnown ==
  ASSUME TypeOK, WorkListInv, KnownInv, NEW b \in Branches, Iterate(b),
         NEW result \in Results \ {"NONE"}, NEW parent \in Names, NEW prev \in Revisions,
         Parse(b, result, parent, prev),
         result = KnownResult(b), parent = KnownParent(b), prev = KnownPrev(b),
         meta'[b] = KnownMeta(b), \A c \in Branches \ {b} : meta'[c] = meta[c],
         KnownFollows(b) => IsParsed(disk.meta[b].parent)
  PROVE  KnownInv'
<1>1. parsedBranches' = WithEntry(b, EntryFor(b, result, parent, prev))
  BY DEF Parse
<1>2. \A c \in Branches :
        /\ c = b => IsParsed(c)'
        /\ c # b => /\ IsParsed(c)' <=> IsParsed(c)
                    /\ parsedBranches'[c].result = parsedBranches[c].result
                    /\ parsedBranches'[c].parent = parsedBranches[c].parent
                    /\ parsedBranches'[c].prev = parsedBranches[c].prev
                    /\ parsedBranches'[c].rev = parsedBranches[c].rev
                    /\ c # parent => parsedBranches'[c] = parsedBranches[c]
  BY <1>1, WithEntryParsed
<1>3. disk' = disk /\ Present' = Present /\ status' = status
  BY DEF Iterate, Present
<1>4. \A c : /\ KnownFollows(c)' = KnownFollows(c) /\ KnownResult(c)' = KnownResult(c)
             /\ KnownParent(c)' = KnownParent(c) /\ KnownPrev(c)' = KnownPrev(c)
             /\ KnownMeta(c)' = KnownMeta(c)
  BY <1>3 DEF KnownFollows, KnownResult, KnownParent, KnownPrev, KnownMeta, RootedOnDisk
<1>5. ~IsParsed(b)
  BY HeadIsUnparsed
<1>6. parent # b
  <2>1. CASE KnownFollows(b)
    BY <2>1, <1>5 DEF KnownParent
  <2>2. CASE ~KnownFollows(b)
    BY <2>2, BranchNames DEF KnownParent
  <2> QED BY <2>1, <2>2
<1>7. parsedBranches'[b] = EntryFor(b, result, parent, prev)
  BY <1>1 DEF WithEntry
<1>8. ASSUME NEW c \in Branches, IsParsed(c)' PROVE IsAsKnown(c)'
  <2>1. KnownFollows(c) => IsParsed(disk.meta[c].parent)'
    <3> SUFFICES ASSUME KnownFollows(c) PROVE IsParsed(disk.meta[c].parent)'
      OBVIOUS
    <3>1. disk.meta[c].parent \in Branches
      BY DiskTypes DEF KnownFollows, Follows, HasParentName, Metas, Meta, Names
    <3>2. c # b => IsParsed(disk.meta[c].parent)
      BY <1>2, <1>8 DEF KnownInv, IsAsKnown
    <3>3. IsParsed(disk.meta[c].parent)
      BY <3>2
    <3> QED BY <1>2, <1>3, <3>1, <3>3
  <2>2. CASE c = b
    BY <1>3, <1>4, <1>7, <2>1, <2>2 DEF EntryFor, IsAsKnown
  <2>3. CASE c # b
    <3>1. IsAsKnown(c) /\ meta'[c] = meta[c]
      BY <1>2, <1>8, <2>3 DEF KnownInv
    <3> QED BY <1>2, <1>3, <1>4, <2>1, <2>3, <3>1 DEF IsAsKnown
  <2> QED BY <2>2, <2>3
<1>9. ASSUME NEW c \in Branches, ~IsParsed(c)' PROVE IsUntouched(c)'
  <2>1. c # b /\ ~IsParsed(c) /\ meta'[c] = meta[c]
    BY <1>2, <1>9
  <2>2. c # parent
    <3>1. CASE KnownFollows(b)
      BY <2>1, <3>1 DEF KnownParent
    <3>2. CASE ~KnownFollows(b)
      BY <3>2, BranchNames DEF KnownParent
    <3> QED BY <3>1, <3>2
  <2>3. parsedBranches'[c] = parsedBranches[c]
    BY <1>2, <2>1, <2>2
  <2> QED BY <1>3, <2>1, <2>3 DEF KnownInv, IsUntouched
<1>10. ASSUME NEW c \in Branches PROVE HasItsChildren(c)'
  <2> DEFINE before == {d \in Branches : IsParsed(d) /\ KnownParent(d) = c}
             after  == {d \in Branches : IsParsed(d)' /\ KnownParent(d)' = c}
  <2>1. ToSet(parsedBranches[c].children) = before
    BY DEF KnownInv, HasItsChildren
  <2>2. after = IF c = parent THEN before \cup {b} ELSE before
    <3>1. \A d \in Branches : d \in after <=> (d \in before \/ (d = b /\ c = parent))
      BY <1>2, <1>4, <1>5
    <3> QED BY <3>1
  <2>3. CASE c = parent
    <3>1. parsedBranches'[c] = [parsedBranches[c] EXCEPT !.children = Append(@, b)]
      BY <1>1, <1>6, <2>3 DEF WithEntry, EntryFor
    <3>2. parsedBranches[c] \in Entry
      BY DEF TypeOK, Caches
    <3>3. /\ parsedBranches[c].children \in Seq(Branches)
          /\ parsedBranches'[c].children = Append(parsedBranches[c].children, b)
      BY <3>1, <3>2 DEF Entry
    <3>4. ToSet(parsedBranches'[c].children) = before \cup {b}
      BY <2>1, <3>3, AppendedSet
    <3> QED BY <2>2, <2>3, <3>4 DEF HasItsChildren
  <2>4. CASE c = b /\ c # parent
    <3>1. parsedBranches'[c].children = <<>>
      BY <1>7, <2>4 DEF EntryFor
    <3>2. parsedBranches[c].children = <<>>
      BY <1>5, <2>4 DEF KnownInv, IsUntouched, NoEntry
    <3> QED BY <2>1, <2>2, <2>4, <3>1, <3>2 DEF HasItsChildren
  <2>5. CASE c # b /\ c # parent
    BY <1>2, <2>1, <2>2, <2>5 DEF HasItsChildren
  <2> QED BY <2>3, <2>4, <2>5
<1> QED BY <1>8, <1>9, <1>10 DEF KnownInv

\* While nothing is parsed, what is known is what is on disk.
LEMMA KnownFrame ==
  ASSUME KnownInv, disk' = disk, parsedBranches' = parsedBranches,
         \A b \in Branches : IsParsed(b) => meta'[b] = meta[b],
         \A b \in Branches : ~IsParsed(b) /\ IsUntouched(b) => IsUntouched(b)'
  PROVE  KnownInv'
<1>1. \A c : /\ KnownFollows(c)' = KnownFollows(c) /\ KnownResult(c)' = KnownResult(c)
             /\ KnownParent(c)' = KnownParent(c) /\ KnownPrev(c)' = KnownPrev(c)
             /\ KnownMeta(c)' = KnownMeta(c) /\ IsParsed(c)' = IsParsed(c)
  BY DEF KnownFollows, KnownResult, KnownParent, KnownPrev, KnownMeta, RootedOnDisk, IsParsed
<1>2. ASSUME NEW b \in Branches
      PROVE  /\ IsParsed(b)' => IsAsKnown(b)'
             /\ ~IsParsed(b)' => IsUntouched(b)'
             /\ HasItsChildren(b)'
  <2>1. IsParsed(b)' => IsAsKnown(b)'
    <3> SUFFICES ASSUME IsParsed(b) PROVE IsAsKnown(b)'
      BY <1>1
    <3>1. IsAsKnown(b) /\ meta'[b] = meta[b]
      BY DEF KnownInv
    <3> QED BY <1>1, <3>1 DEF IsAsKnown
  <2>2. ~IsParsed(b)' => IsUntouched(b)'
    BY <1>1 DEF KnownInv
  <2>3. HasItsChildren(b)'
    BY <1>1 DEF KnownInv, HasItsChildren
  <2> QED BY <2>1, <2>2, <2>3
<1> QED BY <1>2 DEF KnownInv

\* Each outcome of an iteration is the one of the definition.
LEMMA KnownStep == TypeOK /\ WorkListInv /\ KnownInv /\ [Next]_vars => KnownInv'
<1> SUFFICES ASSUME TypeOK, WorkListInv, KnownInv, [Next]_vars PROVE KnownInv'
  OBVIOUS
<1>1. CASE GetAllBranchesAndMeta
  <2>1. /\ disk' = disk /\ parsedBranches' = parsedBranches /\ Present' = Present
        /\ status = "start" /\ status' = "parsing"
        /\ \A b \in Branches : meta'[b] = IF b \in Present THEN meta[b] ELSE NoMeta
    BY <1>1 DEF GetAllBranchesAndMeta, Present
  <2>2. \A b \in Branches : ~IsParsed(b)
    BY <2>1 DEF WorkListInv
  <2>3. \A b \in Branches : IsUntouched(b) => IsUntouched(b)'
    BY <2>1 DEF IsUntouched
  <2> QED BY <2>1, <2>2, <2>3, KnownFrame
<1>2. ASSUME NEW b \in Branches, ParseTrunk(b) PROVE KnownInv'
  <2>1. Iterate(b) /\ b = Trunk /\ meta' = meta /\ Parse(b, "TRUNK", NoBranch, NoCommit)
    BY <1>2 DEF ParseTrunk
  <2>2. b \in Present /\ meta[b] = disk.meta[b] /\ ~KnownFollows(b)
    BY <2>1, HeadIsAsOnDisk DEF KnownFollows, Follows
  <2>3. KnownResult(b) = "TRUNK"
    BY <2>1, <2>2 DEF KnownResult, ResultOf, Present
  <2>4. KnownParent(b) = NoBranch /\ KnownPrev(b) = NoCommit
    BY <2>2, <2>3 DEF KnownParent, KnownPrev
  <2>5. KnownMeta(b) = meta[b]
    BY <2>1, <2>2 DEF KnownMeta, Present
  <2> QED BY <2>1, <2>2, <2>3, <2>4, <2>5, ParseAsKnown DEF Results, Names, Revisions
<1>3. ASSUME NEW b \in Branches, ParseBadParentName(b) PROVE KnownInv'
  <2>1. /\ Iterate(b) /\ b # Trunk /\ meta' = meta /\ ~HasParentName(disk.refs, meta, b)
        /\ Parse(b, "BAD_PARENT_NAME", NoBranch, NoCommit)
    BY <1>3 DEF ParseBadParentName
  <2>2. /\ b \in Present /\ meta[b] = disk.meta[b] /\ ~KnownFollows(b)
        /\ ~HasParentName(disk.refs, disk.meta, b)
    BY <2>1, HeadIsAsOnDisk DEF KnownFollows, Follows
  <2>3. KnownResult(b) = "BAD_PARENT_NAME"
    BY <2>1, <2>2 DEF KnownResult, ResultOf, Present
  <2>4. KnownParent(b) = NoBranch /\ KnownPrev(b) = NoCommit
    BY <2>2, <2>3 DEF KnownParent, KnownPrev
  <2>5. b \notin RootedOnDisk
    BY <2>2, <2>3, RootedAreValid
  <2>6. KnownMeta(b) = meta[b]
    BY <2>2, <2>5 DEF KnownMeta, Present
  <2> QED BY <2>1, <2>2, <2>3, <2>4, <2>6, ParseAsKnown DEF Results, Names, Revisions
<1>4. ASSUME NEW b \in Branches, Postpone(b) PROVE KnownInv'
  BY <1>4, KnownFrame DEF Postpone, Iterate, IsUntouched, Present
<1>5. ASSUME NEW b \in Branches, Iterate(b), KnownFollows(b), IsParsed(meta[b].parent)
      PROVE  /\ b \in Present /\ meta[b] = disk.meta[b]
             /\ meta[b].parent \in Names /\ meta[b].rev \in Revisions
             /\ KnownParent(b) = meta[b].parent
             /\ IsParsed(disk.meta[b].parent)
  <2>1. b \in Present /\ meta[b] = disk.meta[b]
    BY <1>5, HeadIsAsOnDisk
  <2> QED BY <1>5, <2>1 DEF KnownParent, TypeOK, Metas, Meta
<1>6. ASSUME NEW b \in Branches, ParseInvalidParent(b) PROVE KnownInv'
  <2>1. /\ Iterate(b) /\ Follows(disk.refs, meta, b) /\ IsParsed(meta[b].parent)
        /\ ~ParentIsValid(b) /\ meta' = meta
        /\ Parse(b, "INVALID_PARENT", meta[b].parent, meta[b].rev)
    BY <1>6 DEF ParseInvalidParent
  <2>2. KnownFollows(b)
    BY <2>1, HeadIsAsOnDisk
  <2>3. disk.meta[b].parent \notin RootedOnDisk
    BY <2>1, <2>2, ParentIsKnown
  <2>4. KnownResult(b) = "INVALID_PARENT" /\ b \notin RootedOnDisk
    BY <2>2, <2>3, FollowersResult
  <2>5. KnownPrev(b) = meta[b].rev /\ KnownMeta(b) = meta[b]
    BY <1>5, <2>1, <2>2, <2>4 DEF KnownPrev, KnownMeta, Present
  <2> QED BY <1>5, <2>1, <2>2, <2>4, <2>5, ParseAsKnown DEF Results
<1>7. ASSUME NEW b \in Branches, ParseValid(b) PROVE KnownInv'
  <2>1. /\ Iterate(b) /\ Follows(disk.refs, meta, b) /\ IsParsed(meta[b].parent)
        /\ ParentIsValid(b) /\ NewRevision(b) # NoCommit
        /\ meta' = [meta EXCEPT ![b].rev = NewRevision(b)]
        /\ Parse(b, "VALID", meta[b].parent, NewRevision(b))
    BY <1>7 DEF ParseValid
  <2>2. KnownFollows(b)
    BY <2>1, HeadIsAsOnDisk
  <2>3. /\ disk.meta[b].parent \in RootedOnDisk
        /\ NewRevision(b) = RevisionFrom(disk.refs, disk.meta, b)
    BY <2>1, <2>2, ParentIsKnown
  <2>4. KnownResult(b) = "VALID" /\ b \in RootedOnDisk
    BY <2>1, <2>2, <2>3, FollowersResult
  <2>5. KnownPrev(b) = NewRevision(b)
    BY <2>3, <2>4 DEF KnownPrev
  <2>6. KnownMeta(b) = [disk.meta[b] EXCEPT !.rev = NewRevision(b)]
    BY <2>1, <2>3, <2>4, <1>5, <2>2 DEF KnownMeta, Present, Follows
  <2>7. /\ meta'[b] = [meta[b] EXCEPT !.rev = NewRevision(b)]
        /\ \A c \in Branches \ {b} : meta'[c] = meta[c]
    BY <2>1 DEF TypeOK, Metas
  <2>8. NewRevision(b) \in Revisions
    <3>1. meta[b].parent \in Branches
      BY <2>1, <2>2, HeadIsAsOnDisk DEF Present
    <3>2. parsedBranches[meta[b].parent].rev \in Revisions
      BY <3>1 DEF TypeOK, Caches, Entry
    <3> QED BY <1>5, <2>1, <2>2, <3>2, ValidatedRevisionProperties DEF NewRevision
  <2> QED BY <1>5, <2>1, <2>2, <2>4, <2>5, <2>6, <2>7, <2>8, ParseAsKnown DEF Results
<1>8. ASSUME NEW b \in Branches, ParseBadParentRevision(b) PROVE KnownInv'
  <2>1. /\ Iterate(b) /\ Follows(disk.refs, meta, b) /\ IsParsed(meta[b].parent)
        /\ ParentIsValid(b) /\ NewRevision(b) = NoCommit /\ meta' = meta
        /\ Parse(b, "BAD_PARENT_REVISION", meta[b].parent, NoCommit)
    BY <1>8 DEF ParseBadParentRevision
  <2>2. KnownFollows(b)
    BY <2>1, HeadIsAsOnDisk
  <2>3. /\ disk.meta[b].parent \in RootedOnDisk
        /\ NewRevision(b) = RevisionFrom(disk.refs, disk.meta, b)
    BY <2>1, <2>2, ParentIsKnown
  <2>4. KnownResult(b) = "BAD_PARENT_REVISION" /\ b \notin RootedOnDisk
    BY <2>1, <2>2, <2>3, FollowersResult
  <2>5. KnownPrev(b) = NoCommit /\ KnownMeta(b) = meta[b]
    BY <1>5, <2>1, <2>2, <2>4 DEF KnownPrev, KnownMeta, Present
  <2> QED BY <1>5, <2>1, <2>2, <2>4, <2>5, ParseAsKnown DEF Results, Revisions
<1>9. CASE Finish
  BY <1>9, KnownFrame DEF Finish, IsUntouched, Present
<1>10. CASE DetectCycle
  BY <1>10, KnownFrame DEF DetectCycle, IsUntouched, Present
<1>11. CASE UNCHANGED vars
  BY <1>11, KnownFrame DEF vars, IsUntouched, Present
<1> QED BY <1>1, <1>2, <1>3, <1>4, <1>6, <1>7, <1>8, <1>9, <1>10, <1>11 DEF Next

\* A load that ends has parsed every branch there is.
LEMMA KnownAtTheEnd == TypeOK /\ WorkListInv /\ KnownInv => MatchesDefinition
<1> SUFFICES ASSUME TypeOK, WorkListInv, KnownInv, status = "done" PROVE MatchesDefinition
  BY DEF MatchesDefinition
<1> DEFINE followers(b) == {c \in Branches : KnownFollows(c) /\ disk.meta[c].parent = b}
           known(b) == LoadedEntry(disk.refs, disk.meta, RootedOnDisk, <<>>, b)
<1>1. \A b \in Branches : IsParsed(b) <=> b \in Present
  BY DEF WorkListInv, OnWorkList
<1>2. ASSUME NEW b \in Branches
      PROVE  [parsedBranches[b] EXCEPT !.children = ToSet(@)]
               = [known(b) EXCEPT !.children = followers(b)]
  <2> DEFINE e == parsedBranches[b]
  <2>1. e \in Entry
    BY DEF TypeOK, Caches
  <2>2. ToSet(e.children) = followers(b)
    <3>1. \A c \in Branches : KnownFollows(c) => IsParsed(c)
      BY <1>1 DEF KnownFollows, Follows, Present
    <3>2. \A c \in Branches : KnownParent(c) = b <=> KnownFollows(c) /\ disk.meta[c].parent = b
      BY BranchNames DEF KnownParent
    <3>3. ToSet(e.children) = {c \in Branches : IsParsed(c) /\ KnownParent(c) = b}
      BY DEF KnownInv, HasItsChildren
    <3> QED BY <3>1, <3>2, <3>3
  <2>3. /\ e.result = KnownResult(b) /\ e.parent = KnownParent(b)
        /\ e.prev = KnownPrev(b) /\ e.rev = disk.refs[b]
    <3>1. CASE b \in Present
      BY <1>1, <3>1 DEF KnownInv, IsAsKnown
    <3>2. CASE b \notin Present
      <4>1. e = NoEntry /\ disk.refs[b] = NoCommit
        BY <1>1, <3>2 DEF KnownInv, IsUntouched, Present
      <4>2. KnownResult(b) = "NONE" /\ ~KnownFollows(b)
        BY <4>1 DEF KnownResult, ResultOf, KnownFollows, Follows
      <4> QED BY <4>1, <4>2 DEF KnownParent, KnownPrev, NoEntry
    <3> QED BY <3>1, <3>2
  <2>4. /\ DOMAIN known(b) = {"result", "parent", "prev", "rev", "children"}
        /\ known(b).result = KnownResult(b) /\ known(b).parent = KnownParent(b)
        /\ known(b).prev = KnownPrev(b) /\ known(b).rev = disk.refs[b]
    BY DEF LoadedEntry, KnownResult, KnownParent, KnownPrev, KnownFollows
  <2> DEFINE k == known(b)
             shown == ToSet(e.children)
  <2>5. k = [result |-> k.result, parent |-> k.parent, prev |-> k.prev, rev |-> k.rev,
             children |-> k.children]
    BY DEF LoadedEntry
  <2>6. e = [result |-> e.result, parent |-> e.parent, prev |-> e.prev, rev |-> e.rev,
             children |-> e.children]
    BY <2>1 DEF Entry
  <2>7. followers(b) = shown
    BY <2>2
  <2>8. \A r, x :
          r = [result |-> r.result, parent |-> r.parent, prev |-> r.prev, rev |-> r.rev,
               children |-> r.children]
            => [r EXCEPT !.children = x]
                 = [result |-> r.result, parent |-> r.parent, prev |-> r.prev, rev |-> r.rev,
                    children |-> x]
    OBVIOUS
  <2> HIDE DEF known, shown, e
  <2>9. [e EXCEPT !.children = shown] = [k EXCEPT !.children = shown]
    BY <2>3, <2>4, <2>5, <2>6, <2>8
  <2> QED BY <2>7, <2>9, Zenon DEF e, shown
<1>3. meta = LoadedMeta(disk.refs, disk.meta)
  <2>1. ASSUME NEW b \in Branches PROVE meta[b] = KnownMeta(b)
    <3>1. CASE b \in Present
      BY <1>1, <3>1 DEF KnownInv, IsAsKnown
    <3>2. CASE b \notin Present
      BY <1>1, <3>2 DEF KnownInv, IsUntouched, KnownMeta, Present
    <3> QED BY <3>1, <3>2
  <2>2. meta = [b \in Branches |-> meta[b]]
    BY DEF TypeOK, Metas
  <2>3. LoadedMeta(disk.refs, disk.meta) = [b \in Branches |-> KnownMeta(b)]
    BY DEF LoadedMeta, KnownMeta, RootedOnDisk
  <2> QED BY <2>1, <2>2, <2>3
<1> HIDE DEF known
<1> QED BY <1>2, <1>3 DEF MatchesDefinition, known, RootedOnDisk, KnownFollows

\* Whatever the order of the branches, the work list of parseBranchesAndMeta
\* computes the cache and the metadata of the definition.
THEOREM LoadIsAsDefined == Spec => []MatchesDefinition
<1> DEFINE Inv == TypeOK /\ WorkListInv /\ KnownInv
<1>1. Init => Inv
  <2> SUFFICES ASSUME Init PROVE Inv
    OBVIOUS
  <2>1. TypeOK
    BY TypeInit
  <2>2. WorkListInv
    BY DEF Init, WorkListInv, OnWorkList, IsParsed, NoEntry, Present
  <2>3. KnownInv
    <3>1. \A b \in Branches : parsedBranches[b] = NoEntry /\ ~IsParsed(b)
      BY DEF Init, IsParsed, NoEntry
    <3>2. ToSet(NoEntry.children) = {}
      BY DEF ToSet, NoEntry
    <3> QED BY <3>1, <3>2 DEF Init, KnownInv, IsUntouched, HasItsChildren
  <2> QED BY <2>1, <2>2, <2>3
<1>2. Inv /\ [Next]_vars => Inv'
  BY TypeStep, WorkListStep, KnownStep
<1>3. Inv => MatchesDefinition
  BY KnownAtTheEnd
<1> QED BY <1>1, <1>2, <1>3, PTL DEF Spec

----------------------------------------------------------------------------
(***************************************************************************)
(* The files of settings (ConfigFiles), for any number of commands and     *)
(* minutes, any values and any scenario.                                   *)
(***************************************************************************)
\* What a file may hold; what may be asked of a command.
Data(f) == [Fields[f] -> Nat]

Kinds == UserCommands \cup RepoCommands \cup {"nothing"}

\* The four files and their fields.
LEMMA FilesAre ==
  /\ Files = {"user", "repo", "message", "prs"}
  /\ Data("user") = [UserSettings -> Nat]
  /\ Data("repo") = [RepoSettings \cup {"lastFetchedPRInfoMs"} -> Nat]
  /\ Data("message") = [{"latest", "cliVersion"} -> Nat]
  /\ Data("prs") = [{"prInfoToUpsert"} -> Nat]
BY DEF Files, Fields, Data

\* A command and its two tasks are three processes.
LEMMA ProcessesAre ==
  ASSUME NEW c \in Commands, NEW d
  PROVE  /\ Command(c) \in Processes /\ UpgradePrompt(c) \in Processes /\ RefreshPRInfo(c) \in Processes
         /\ Command(c) # UpgradePrompt(d) /\ Command(c) # RefreshPRInfo(d)
         /\ UpgradePrompt(c) # RefreshPRInfo(d)
         /\ Command(c) = Command(d) => c = d
BY DEF Command, UpgradePrompt, RefreshPRInfo, Processes

\* The types of the state.  The records are only said to have their fields.
FileType == DOMAIN file = Files /\ \A f \in Files : file[f].holds \in Data(f)

MemType ==
  /\ DOMAIN mem = Processes
  /\ \A p \in Processes : DOMAIN mem[p] = Files /\ \A f \in Files : mem[p][f] \in Data(f)

WorldType ==
  /\ {"scenario", "minute", "latest", "version", "asked", "versions"} \subseteq DOMAIN world
  /\ world.minute \in 1..MaxMinutes /\ world.latest \in Nat \ {0} /\ world.version \in Nat
  /\ world.asked \in [Commands -> Kinds] /\ world.versions \in [Processes -> Nat]

MeantType ==
  /\ {"holds", "overlapped", "misled", "refreshes"} \subseteq DOMAIN meant
  /\ DOMAIN meant.holds = Files /\ \A f \in Files : meant.holds[f] \in Data(f)
  /\ meant.refreshes \in [1..MaxMinutes -> Nat]

FilesTypeInv == FileType /\ DOMAIN at = Processes /\ MemType /\ WorldType /\ MeantType

\* A file that was initialized, or removed, holds nothing.
LEMMA InitializeIsData ==
  ASSUME NEW f \in Files
  PROVE  /\ Initialize(f) \in Data(f) /\ \A field \in Fields[f] : Initialize(f)[field] = 0
BY DEF Initialize, Data, Unset

\* A process begins with the defaults of each file.
LEMMA EmptyIsData ==
  /\ DOMAIN Empty = Files
  /\ \A f \in Files : Empty[f] = Initialize(f) /\ Empty[f] \in Data(f)
BY InitializeIsData DEF Empty

\* What is left of a file that is removed.
LEMMA RemovedIsData ==
  ASSUME NEW f \in Files
  PROVE  Removed(f).holds = Initialize(f) /\ Removed(f).holds \in Data(f) /\ Removed(f).torn = FALSE
BY InitializeIsData DEF Removed

----------------------------------------------------------------------------
\* What update does when it opens and empties a file.
LEMMA OpensTypes ==
  ASSUME FilesTypeInv, NEW p \in Processes, NEW f \in Files, NEW data \in Data(f), NEW next,
         Opens(p, f, data, next)
  PROVE  /\ FileType' /\ DOMAIN at' = Processes /\ MemType'
         /\ at'[p] = next /\ mem'[p][f] = data /\ p \in file'[f].open /\ file'[f].torn = TRUE
         /\ file[f].open \subseteq file'[f].open
         /\ \A q \in Processes \ {p} : at'[q] = at[q] /\ mem'[q] = mem[q]
         /\ \A g \in Files \ {f} : file'[g] = file[g] /\ mem'[p][g] = mem[p][g]
<1>1. /\ file' = [file EXCEPT ![f] = Emptied(p, f)]
      /\ mem' = [mem EXCEPT ![p][f] = data]
      /\ at' = [at EXCEPT ![p] = next]
  BY DEF Opens
<1>2. /\ DOMAIN file' = Files /\ file'[f] = Emptied(p, f) /\ \A g \in Files \ {f} : file'[g] = file[g]
  BY <1>1 DEF FilesTypeInv, FileType
<1>3. FileType'
  BY <1>2, InitializeIsData DEF FilesTypeInv, FileType, Emptied
<1>4. /\ DOMAIN mem' = Processes /\ \A q \in Processes \ {p} : mem'[q] = mem[q]
      /\ DOMAIN mem'[p] = Files /\ mem'[p][f] = data /\ \A g \in Files \ {f} : mem'[p][g] = mem[p][g]
  BY <1>1 DEF FilesTypeInv, MemType
<1>5. MemType'
  BY <1>4 DEF FilesTypeInv, MemType
<1>6. p \in file'[f].open /\ file'[f].torn = TRUE /\ file[f].open \subseteq file'[f].open
  BY <1>2 DEF Emptied
<1> QED BY <1>1, <1>2, <1>3, <1>4, <1>5, <1>6 DEF FilesTypeInv

\* What update does when it fills the file: nothing, if the file was removed.
LEMMA FillsTypes ==
  ASSUME FilesTypeInv, NEW p \in Processes, NEW f \in Files, Fills(p, f)
  PROVE  /\ FileType'
         /\ \A g \in Files \ {f} : file'[g] = file[g]
         /\ p \in file[f].open => file'[f].torn \/ file'[f].holds = mem[p][f]
         /\ p \notin file[f].open => file'[f] = file[f]
         /\ \A q \in Processes \ {p} : q \in file[f].open => q \in file'[f].open
         /\ file'[f].holds \in {file[f].holds, Initialize(f), mem[p][f]}
<1>1. PICK filled \in Filled(p, f, mem[p][f]) : file' = [file EXCEPT ![f] = filled]
  BY DEF Fills
<1>2. DOMAIN file' = Files /\ file'[f] = filled /\ \A g \in Files \ {f} : file'[g] = file[g]
  BY <1>1 DEF FilesTypeInv, FileType
<1>3. CASE p \notin file[f].open
  <2>1. file'[f] = file[f]
    BY <1>1, <1>2, <1>3 DEF Filled
  <2> QED BY <1>2, <1>3, <2>1 DEF FilesTypeInv, FileType
<1>4. CASE p \in file[f].open
  <2>1. PICK torn \in BOOLEAN :
          filled = [holds |-> IF torn THEN Initialize(f) ELSE mem[p][f], torn |-> torn,
                    open |-> file[f].open \ {p}]
    BY <1>1, <1>4 DEF Filled
  <2>2. /\ filled.holds = (IF torn THEN Initialize(f) ELSE mem[p][f]) /\ filled.torn = torn
        /\ filled.open = file[f].open \ {p}
    BY <2>1
  <2>3. filled.holds \in Data(f)
    BY <2>2, InitializeIsData DEF FilesTypeInv, MemType
  <2> QED BY <1>2, <1>4, <2>2, <2>3 DEF FilesTypeInv, FileType
<1> QED BY <1>3, <1>4

\* A process that ends forgets what it read.
LEMMA EndsTypes ==
  ASSUME FilesTypeInv, NEW p \in Processes, Ends(p)
  PROVE  /\ DOMAIN at' = Processes /\ MemType' /\ at'[p] = "done"
         /\ \A f \in Files : mem'[p][f] = Initialize(f)
         /\ \A q \in Processes \ {p} : at'[q] = at[q] /\ mem'[q] = mem[q]
<1>1. at' = [at EXCEPT ![p] = "done"] /\ mem' = [mem EXCEPT ![p] = Empty]
  BY DEF Ends, Goes
<1> QED BY <1>1, EmptyIsData DEF FilesTypeInv, MemType

\* What was meant to be in a file changes when it is filled.
LEMMA SavedTypes ==
  ASSUME FilesTypeInv, NEW f \in Files, NEW data \in Data(f), Saved(f, data)
  PROVE  /\ MeantType' /\ meant'.holds[f] = data /\ \A g \in Files \ {f} : meant'.holds[g] = meant.holds[g]
         /\ meant'.overlapped = meant.overlapped /\ meant'.misled = meant.misled
         /\ meant'.refreshes = meant.refreshes
BY DEF Saved, FilesTypeInv, MeantType

\* What a command writes for what it has read has a new value for a setting.
Edited(new, d, kind) ==
  \E field \in UserSettings \cup RepoSettings, v \in Nat :
    /\ new = [d EXCEPT ![field] = v]
    /\ IF FileOf(kind) = "user" THEN field \in UserSettings ELSE field \in RepoSettings
    /\ kind = "init" => field = "trunk"
    /\ field = "trunk" => v > 2

\* Every command of the user changes one setting, of the file it writes.
LEMMA WrittenIsEdited ==
  ASSUME NEW kind \in Kinds, NEW d, NEW new \in Written(kind, d)
  PROVE  Edited(new, d, kind)
<1>1. ASSUME NEW field \in UserSettings \cup RepoSettings, NEW V, V \subseteq Nat, new \in With(d, field, V),
             IF FileOf(kind) = "user" THEN field \in UserSettings ELSE field \in RepoSettings,
             kind = "init" => field = "trunk",
             field = "trunk" => \A v \in V : v > 2
      PROVE  Edited(new, d, kind)
  BY <1>1 DEF With, Edited
<1>2. Unset \in Nat /\ Off \in Nat /\ On \in Nat /\ On + 1 \in Nat
  BY DEF Unset, Off, On
<1> USE DEF Written, FileOf, UserCommands, UserSettings, RepoSettings
<1>3. CASE kind = "branch-prefix"
  BY <1>1, <1>2, <1>3, ValuesAreApart DEF BranchPrefix
<1>4. CASE kind = "branch-date"
  BY <1>1, <1>2, <1>4, ValuesAreApart DEF BranchDate
<1>5. CASE kind = "branch-replacement"
  BY <1>1, <1>2, <1>5, ValuesAreApart DEF BranchReplacement
<1>6. CASE kind = "editor"
  BY <1>1, <1>2, <1>6, ValuesAreApart DEF Editor
<1>7. CASE kind = "pager"
  BY <1>1, <1>2, <1>7, ValuesAreApart DEF Pager
<1>8. CASE kind = "restack-date"
  BY <1>1, <1>2, <1>8, ValuesAreApart DEF RestackDate
<1>9. CASE kind = "submit-body"
  BY <1>1, <1>2, <1>9, ValuesAreApart DEF SubmitBody
<1>10. CASE kind = "tips"
  BY <1>1, <1>2, <1>10, ValuesAreApart DEF Tips
<1>11. CASE kind = "auth"
  BY <1>1, <1>2, <1>11, ValuesAreApart DEF Auth
<1>12. CASE kind = "set-config"
  BY <1>1, <1>2, <1>12, ValuesAreApart DEF SetConfig
<1>13. CASE kind = "owner"
  BY <1>1, <1>2, <1>13, ValuesAreApart DEF RepoOwner
<1>14. CASE kind = "name"
  BY <1>1, <1>2, <1>14, ValuesAreApart DEF RepoName
<1>15. CASE kind = "remote"
  BY <1>1, <1>2, <1>15, ValuesAreApart DEF RepoRemote
<1>16. CASE kind = "init"
  BY <1>1, <1>2, <1>16, ValuesAreApart DEF SetUp
<1>17. CASE kind \in {"other", "nothing"}
  BY <1>17 DEF Written
<1> QED BY <1>3, <1>4, <1>5, <1>6, <1>7, <1>8, <1>9, <1>10, <1>11, <1>12, <1>13, <1>14, <1>15, <1>16, <1>17 DEF Kinds, UserCommands, RepoCommands

\* No command takes the trunk away, and none but the task changes the time of
\* the last request.
LEMMA WrittenTypes ==
  ASSUME NEW kind \in Kinds, NEW d \in Data(FileOf(kind)), NEW new \in Written(kind, d)
  PROVE  /\ FileOf(kind) \in {"user", "repo"} /\ new \in Data(FileOf(kind))
         /\ FileOf(kind) = "repo" =>
              /\ new["trunk"] = d["trunk"] \/ new["trunk"] > 0
              /\ kind = "init" => new["trunk"] > 0
              /\ new["lastFetchedPRInfoMs"] = d["lastFetchedPRInfoMs"]
<1>1. FileOf(kind) \in {"user", "repo"}
  BY DEF FileOf
<1>2. PICK field \in UserSettings \cup RepoSettings, v \in Nat :
        /\ new = [d EXCEPT ![field] = v]
        /\ IF FileOf(kind) = "user" THEN field \in UserSettings ELSE field \in RepoSettings
        /\ kind = "init" => field = "trunk"
        /\ field = "trunk" => v > 2
  BY WrittenIsEdited DEF Edited
<1>3. CASE FileOf(kind) = "user"
  BY <1>2, <1>3, FilesAre
<1>4. CASE FileOf(kind) = "repo"
  <2>1. d \in [RepoSettings \cup {"lastFetchedPRInfoMs"} -> Nat] /\ field \in RepoSettings
    BY <1>2, <1>4, FilesAre
  <2>2. "trunk" \in RepoSettings /\ "lastFetchedPRInfoMs" \notin RepoSettings
    BY DEF RepoSettings
  <2>3. new \in [RepoSettings \cup {"lastFetchedPRInfoMs"} -> Nat]
    BY <1>2, <2>1
  <2>4. /\ new["trunk"] = IF field = "trunk" THEN v ELSE d["trunk"]
        /\ new["lastFetchedPRInfoMs"] = d["lastFetchedPRInfoMs"]
    BY <1>2, <2>1, <2>2
  <2>5. field = "trunk" => v > 0
    BY <1>2
  <2>6. kind = "init" => field = "trunk"
    BY <1>2
  <2> QED BY <1>4, <2>3, <2>4, <2>5, <2>6, FilesAre
<1> QED BY <1>1, <1>3, <1>4

----------------------------------------------------------------------------
\* The steps of a command; and those of its tasks.
ReadsAndWrites(c) ==
  \/ \E kind \in UserCommands \cup RepoCommands : Invoke(c, kind)
  \/ InitContextLite(c) \/ PrintAndClearOldMessage(c) \/ InitContext(c)
  \/ RefreshPRInfoInBackground(c) \/ SpawnDetached(c) \/ GraphiteHelper(c) \/ SetTrunk(c)
  \/ Handler(c) \/ Update(c) \/ SecondToken(c) \/ UpdateSecond(c)

Tasks(c) ==
  \/ FetchUpgradePrompt(c) \/ RegistryAnswers(c) \/ Compare(c) \/ SetMessage(c)
  \/ RefreshPRInfoTask(c) \/ GetPrInfoForBranches(c) \/ SetPrInfo(c)

\* What a step leaves alone keeps its type.
LEMMA OthersKeepTypes ==
  ASSUME FilesTypeInv
  PROVE  /\ UNCHANGED file => FileType'
         /\ UNCHANGED mem => MemType'
         /\ UNCHANGED world => WorldType'
         /\ UNCHANGED meant => MeantType'
         /\ UNCHANGED at => DOMAIN at' = Processes
         /\ \A p, next : Goes(p, next) => DOMAIN at' = Processes
BY DEF FilesTypeInv, FileType, MemType, WorldType, MeantType, Goes

\* A file that is replaced leaves the others alone.
LEMMA FileChangesType ==
  ASSUME FilesTypeInv, NEW f \in Files, NEW new, new.holds \in Data(f), file' = [file EXCEPT ![f] = new]
  PROVE  FileType' /\ file'[f] = new /\ \A g \in Files \ {f} : file'[g] = file[g]
BY DEF FilesTypeInv, FileType

\* What is left of a file whose write is cut off.
LEMMA LeftOfType ==
  ASSUME FilesTypeInv, NEW f \in Files
  PROVE  LeftOf(f).holds \in Data(f)
BY RemovedIsData DEF LeftOf, FilesTypeInv, FileType

\* A process that starts takes on a version, and nothing else changes.
LEMMA StartedType ==
  ASSUME FilesTypeInv, NEW p \in Processes
  PROVE  /\ {"scenario", "minute", "latest", "version", "asked", "versions"} \subseteq DOMAIN Started(world, p)
         /\ Started(world, p).versions \in [Processes -> Nat]
         /\ Started(world, p).minute = world.minute /\ Started(world, p).latest = world.latest
         /\ Started(world, p).version = world.version /\ Started(world, p).asked = world.asked
         /\ Started(world, p).versions = [world.versions EXCEPT ![p] = world.version]
BY DEF Started, FilesTypeInv, WorldType

\* Setting up the repository gives it a trunk.
LEMMA SetUpTypes ==
  ASSUME NEW d \in Data("repo"), NEW new \in SetUp(d)
  PROVE  /\ new \in Data("repo") /\ new["trunk"] > 0
         /\ new["lastFetchedPRInfoMs"] = d["lastFetchedPRInfoMs"]
<1>1. Written("init", d) = SetUp(d) /\ FileOf("init") = "repo" /\ "init" \in Kinds
  BY DEF Written, FileOf, UserCommands, RepoCommands, Kinds
<1> QED BY <1>1, WrittenTypes

\* What a command opens a file with has the type of that file.
LEMMA RefreshOpens ==
  ASSUME FilesTypeInv, NEW c \in Commands, RefreshPRInfoInBackground(c)
  PROVE  LET p == Command(c) data == mem[p].repo IN
         \/ /\ IsDue(data)
            /\ \E new \in Data("repo") :
                 /\ new = [data EXCEPT !["lastFetchedPRInfoMs"] = world.minute]
                 /\ new["lastFetchedPRInfoMs"] = world.minute
                 /\ \A field \in RepoSettings : new[field] = data[field]
                 /\ Opens(p, "repo", new, "spawnDetached")
         \/ ~IsDue(data) /\ Goes(p, "graphiteHelper") /\ UNCHANGED <<file, mem>>
<1> DEFINE p == Command(c)
           data == mem[p].repo
           new == [data EXCEPT !["lastFetchedPRInfoMs"] = world.minute]
<1>1. p \in Processes /\ "repo" \in Files
  BY ProcessesAre, FilesAre
<1>2. data \in Data("repo") /\ world.minute \in Nat
  BY <1>1, BoundsAreNumbers DEF FilesTypeInv, MemType, WorldType
<1>3. "lastFetchedPRInfoMs" \notin RepoSettings
  BY DEF RepoSettings
<1> HIDE DEF data
<1>4. /\ new \in Data("repo") /\ new["lastFetchedPRInfoMs"] = world.minute
      /\ \A field \in RepoSettings : new[field] = data[field]
  BY <1>2, <1>3, FilesAre
<1>5. IF IsDue(data) THEN Opens(p, "repo", new, "spawnDetached")
      ELSE Goes(p, "graphiteHelper") /\ UNCHANGED <<file, mem>>
  BY DEF RefreshPRInfoInBackground, data
<1> HIDE DEF new, p
<1>6. CASE IsDue(data)
  <2>1. Opens(p, "repo", new, "spawnDetached")
    BY <1>5, <1>6
  <2> QED BY <1>4, <1>6, <2>1 DEF new, p, data
<1>7. CASE ~IsDue(data)
  BY <1>5, <1>7 DEF p, data
<1> QED BY <1>6, <1>7

\* graphiteHelper calls the handler only in a repository with a trunk, or for init.
LEMMA HelperOpens ==
  ASSUME FilesTypeInv, NEW c \in Commands, GraphiteHelper(c)
  PROVE  LET p == Command(c) data == mem[p].repo IN
         \/ /\ data["trunk"] # 0 \/ world.asked[c] = "init"
            /\ Goes(p, "handler") /\ UNCHANGED <<file, mem>>
         \/ \E new \in Data("repo") :
              /\ new["trunk"] > 0 /\ new["lastFetchedPRInfoMs"] = data["lastFetchedPRInfoMs"]
              /\ Opens(p, "repo", new, "setTrunk")
         \/ Ends(p) /\ UNCHANGED file
<1>1. Command(c) \in Processes /\ "repo" \in Files
  BY ProcessesAre, FilesAre
<1>2. mem[Command(c)].repo \in Data("repo")
  BY <1>1 DEF FilesTypeInv, MemType
<1> QED BY <1>2, SetUpTypes DEF GraphiteHelper, GraphiteInitialized, Unset

\* The handler writes the file of its command, or ends.
LEMMA HandlerOpens ==
  ASSUME FilesTypeInv, NEW c \in Commands, Handler(c)
  PROVE  LET p == Command(c) f == FileOf(world.asked[c]) data == mem[p][f] IN
         /\ f \in {"user", "repo"} /\ f \in Files
         /\ \/ \E new \in Data(f) :
                 /\ f = "repo" => /\ new["trunk"] = data["trunk"] \/ new["trunk"] > 0
                                  /\ world.asked[c] = "init" => new["trunk"] > 0
                                  /\ new["lastFetchedPRInfoMs"] = data["lastFetchedPRInfoMs"]
                 /\ Opens(p, f, new, "update")
            \/ Ends(p) /\ UNCHANGED file
<1> DEFINE p == Command(c)
           kind == world.asked[c]
           f == FileOf(kind)
<1>1. p \in Processes /\ kind \in Kinds /\ f \in {"user", "repo"} /\ f \in Files
  BY ProcessesAre, FilesAre DEF FilesTypeInv, WorldType, FileOf
<1>2. mem[p][f] \in Data(f)
  BY <1>1 DEF FilesTypeInv, MemType
<1>3. \/ \E new \in Written(kind, mem[p][f]) : Opens(p, f, new, "update")
      \/ Ends(p) /\ UNCHANGED file
  BY DEF Handler
<1> HIDE DEF p, kind
<1>4. CASE Ends(p) /\ UNCHANGED file
  BY <1>1, <1>4 DEF p, kind
<1>5. CASE \E new \in Written(kind, mem[p][f]) : Opens(p, f, new, "update")
  <2>1. PICK new \in Written(kind, mem[p][f]) : Opens(p, f, new, "update")
    BY <1>5
  <2>2. new \in Data(f) /\ (f = "repo" =>
          /\ new["trunk"] = mem[p][f]["trunk"] \/ new["trunk"] > 0
          /\ kind = "init" => new["trunk"] > 0
          /\ new["lastFetchedPRInfoMs"] = mem[p][f]["lastFetchedPRInfoMs"])
    BY <1>1, <1>2, WrittenTypes
  <2> QED BY <1>1, <2>1, <2>2 DEF p, kind
<1> QED BY <1>3, <1>4, <1>5

\* auth writes the token again under its second name.
LEMMA SecondOpens ==
  ASSUME FilesTypeInv, NEW c \in Commands, SecondToken(c)
  PROVE  \E data \in Data("user") : Opens(Command(c), "user", data, "updateSecond")
<1> DEFINE p == Command(c)
           data == [mem[p].user EXCEPT !["fpAuthToken"] = mem[p].user["authToken"]]
<1>1. p \in Processes /\ "user" \in Files
  BY ProcessesAre, FilesAre
<1>2. mem[p].user \in [UserSettings -> Nat]
  BY <1>1, FilesAre DEF FilesTypeInv, MemType
<1>3. mem[p].user["authToken"] \in Nat
  BY <1>2 DEF UserSettings
<1>4. data \in Data("user")
  BY <1>2, <1>3, FilesAre
<1> QED BY <1>4 DEF SecondToken

\* Every step keeps the types.
LEMMA TypesAreKept ==
  ASSUME FilesTypeInv, [FilesNext]_fileVars
  PROVE  FilesTypeInv'
<1> USE OthersKeepTypes
<1>1. ASSUME NEW c \in Commands, NEW kind \in UserCommands \cup RepoCommands, Invoke(c, kind) PROVE FilesTypeInv'
  <2>1. WorldType'
    BY <1>1, StartedType, ProcessesAre DEF Invoke, WorldType, FilesTypeInv, Kinds
  <2>2. MeantType'
    BY <1>1 DEF Invoke, MeantType, FilesTypeInv
  <2> QED BY <1>1, <2>1, <2>2 DEF Invoke, FilesTypeInv
<1>2. ASSUME NEW c \in Commands, InitContextLite(c) PROVE FilesTypeInv'
  <2> DEFINE p == Command(c)
  <2>1. p \in Processes /\ {"user", "message"} \subseteq Files
    BY ProcessesAre, FilesAre
  <2>2. CASE Loads("user")
    <3>1. mem' = [mem EXCEPT ![p].user = Loaded("user"), ![p].message = Loaded("message")]
      BY <1>2, <2>2 DEF InitContextLite
    <3>2. Loaded("user") \in Data("user") /\ Loaded("message") \in Data("message")
      BY <2>1 DEF Loaded, FilesTypeInv, FileType
    <3>3. MemType'
      BY <2>1, <3>1, <3>2, FilesAre DEF FilesTypeInv, MemType
    <3>4. FileType'
      BY <1>2, <2>1, <2>2, LeftOfType, FileChangesType DEF InitContextLite
    <3> QED BY <1>2, <2>2, <3>3, <3>4 DEF InitContextLite, FilesTypeInv
  <2>3. CASE ~Loads("user")
    BY <1>2, <2>1, <2>3, EndsTypes DEF InitContextLite, FilesTypeInv
  <2> QED BY <2>2, <2>3
<1>3. ASSUME NEW c \in Commands, PrintAndClearOldMessage(c) PROVE FilesTypeInv'
  <2>1. "message" \in Files /\ UpgradePrompt(c) \in Processes
    BY ProcessesAre, FilesAre
  <2>2. WorldType'
    BY <1>3, <2>1, StartedType DEF PrintAndClearOldMessage, WorldType, FilesTypeInv
  <2>3. FileType'
    BY <1>3, <2>1, RemovedIsData, FileChangesType DEF PrintAndClearOldMessage
  <2>4. MeantType'
    BY <1>3 DEF PrintAndClearOldMessage, FilesTypeInv, MeantType
  <2>5. DOMAIN at' = Processes
    BY <1>3 DEF PrintAndClearOldMessage, FilesTypeInv
  <2> QED BY <1>3, <2>2, <2>3, <2>4, <2>5 DEF PrintAndClearOldMessage, FilesTypeInv
<1>4. ASSUME NEW c \in Commands, InitContext(c) PROVE FilesTypeInv'
  <2> DEFINE p == Command(c)
  <2>1. p \in Processes /\ {"repo", "prs"} \subseteq Files
    BY ProcessesAre, FilesAre
  <2>2. CASE Loads("repo")
    <3>1. mem' = [mem EXCEPT ![p].repo = Loaded("repo")] /\ Loaded("repo") \in Data("repo")
      BY <1>4, <2>1, <2>2 DEF InitContext, Loaded, FilesTypeInv, FileType
    <3>2. MemType'
      BY <2>1, <3>1 DEF FilesTypeInv, MemType
    <3>3. FileType'
      BY <1>4, <2>1, <2>2, RemovedIsData, FileChangesType DEF InitContext
    <3> QED BY <1>4, <2>2, <3>2, <3>3 DEF InitContext, FilesTypeInv
  <2>3. CASE ~Loads("repo")
    BY <1>4, <2>1, <2>3, EndsTypes DEF InitContext, FilesTypeInv
  <2> QED BY <2>2, <2>3
<1>5. ASSUME NEW c \in Commands, RefreshPRInfoInBackground(c) PROVE FilesTypeInv'
  <2>1. Command(c) \in Processes /\ {"user", "repo"} \subseteq Files
    BY ProcessesAre, FilesAre
  <2>2. FileType' /\ MemType' /\ DOMAIN at' = Processes
    BY <1>5, <2>1, RefreshOpens, OpensTypes
  <2> QED BY <1>5, <2>2 DEF RefreshPRInfoInBackground, FilesTypeInv
<1>6. ASSUME NEW c \in Commands, SpawnDetached(c) PROVE FilesTypeInv'
  <2>1. Command(c) \in Processes /\ "repo" \in Files /\ RefreshPRInfo(c) \in Processes
    BY ProcessesAre, FilesAre
  <2>2. FileType'
    BY <1>6, <2>1, FillsTypes DEF SpawnDetached
  <2>3. WorldType'
    BY <1>6, <2>1, StartedType DEF SpawnDetached, FilesTypeInv, WorldType
  <2>4. MeantType'
    <3> DEFINE k == mem[Command(c)].repo["lastFetchedPRInfoMs"]
               counts == [meant.refreshes EXCEPT ![k] = @ + 1]
    <3>1. meant' = [meant EXCEPT !.refreshes = counts]
      BY <1>6 DEF SpawnDetached
    <3>2. counts \in [1..MaxMinutes -> Nat]
      <4> DEFINE before == meant.refreshes
      <4>1. before \in [1..MaxMinutes -> Nat]
        BY DEF FilesTypeInv, MeantType
      <4>2. DOMAIN counts = 1..MaxMinutes /\ \A m \in 1..MaxMinutes : counts[m] \in {before[m], before[m] + 1}
        <5> HIDE DEF k, before
        <5>1. counts = [before EXCEPT ![k] = before[k] + 1]
          BY DEF before
        <5> HIDE DEF counts
        <5> QED BY <4>1, <5>1
      <4>3. counts = [m \in 1..MaxMinutes |-> counts[m]]
        <5> HIDE DEF k, before
        <5> QED BY <4>2
      <4> HIDE DEF before, counts, k
      <4> QED BY <4>1, <4>2, <4>3
    <3> HIDE DEF counts
    <3> QED BY <3>1, <3>2 DEF FilesTypeInv, MeantType
  <2> QED BY <1>6, <2>2, <2>3, <2>4 DEF SpawnDetached, FilesTypeInv
<1>7. ASSUME NEW c \in Commands, GraphiteHelper(c) PROVE FilesTypeInv'
  <2>1. Command(c) \in Processes /\ {"user", "repo"} \subseteq Files
    BY ProcessesAre, FilesAre
  <2>2. FileType' /\ MemType' /\ DOMAIN at' = Processes
    BY <1>7, <2>1, HelperOpens, OpensTypes, EndsTypes
  <2> QED BY <1>7, <2>2 DEF GraphiteHelper, FilesTypeInv
<1>8. ASSUME NEW c \in Commands, SetTrunk(c) PROVE FilesTypeInv'
  <2>1. Command(c) \in Processes /\ "repo" \in Files /\ mem[Command(c)].repo \in Data("repo")
    BY ProcessesAre, FilesAre DEF FilesTypeInv, MemType
  <2>2. FileType' /\ MeantType'
    BY <1>8, <2>1, FillsTypes, SavedTypes DEF SetTrunk
  <2> QED BY <1>8, <2>2 DEF SetTrunk, FilesTypeInv
<1>9. ASSUME NEW c \in Commands, Handler(c) PROVE FilesTypeInv'
  <2>1. Command(c) \in Processes /\ {"user", "repo"} \subseteq Files
    BY ProcessesAre, FilesAre
  <2>2. FileType' /\ MemType' /\ DOMAIN at' = Processes
    BY <1>9, <2>1, HandlerOpens, OpensTypes, EndsTypes
  <2> QED BY <1>9, <2>2 DEF Handler, FilesTypeInv
<1>10. ASSUME NEW c \in Commands, Update(c) PROVE FilesTypeInv'
  <2> DEFINE p == Command(c)
             f == FileOf(world.asked[c])
  <2>1. p \in Processes /\ f \in {"user", "repo"} /\ f \in Files
    BY ProcessesAre, FilesAre DEF FileOf
  <2>2. mem[p][f] \in Data(f)
    BY <2>1 DEF FilesTypeInv, MemType
  <2>3. Fills(p, f) /\ Saved(f, mem[p][f]) /\ UNCHANGED world
        /\ ((Goes(p, "secondToken") /\ UNCHANGED mem) \/ Ends(p))
    BY <1>10 DEF Update
  <2> HIDE DEF p, f
  <2> QED BY <2>1, <2>2, <2>3, FillsTypes, SavedTypes, EndsTypes DEF FilesTypeInv
<1>11. ASSUME NEW c \in Commands, SecondToken(c) PROVE FilesTypeInv'
  <2>1. Command(c) \in Processes /\ {"user", "repo"} \subseteq Files
    BY ProcessesAre, FilesAre
  <2>2. FileType' /\ MemType' /\ DOMAIN at' = Processes
    BY <1>11, <2>1, SecondOpens, OpensTypes
  <2> QED BY <1>11, <2>2 DEF SecondToken, FilesTypeInv
<1>12. ASSUME NEW c \in Commands, UpdateSecond(c) PROVE FilesTypeInv'
  <2>1. Command(c) \in Processes /\ "user" \in Files /\ mem[Command(c)].user \in Data("user")
    BY ProcessesAre, FilesAre DEF FilesTypeInv, MemType
  <2> QED BY <1>12, <2>1, FillsTypes, SavedTypes, EndsTypes DEF UpdateSecond, FilesTypeInv
<1>13. ASSUME NEW c \in Commands, Tasks(c) PROVE FilesTypeInv'
  <2> DEFINE u == UpgradePrompt(c)
             r == RefreshPRInfo(c)
  <2>1. u \in Processes /\ r \in Processes /\ {"user", "repo", "message", "prs"} \subseteq Files
    BY ProcessesAre, FilesAre
  <2>2. CASE FetchUpgradePrompt(c)
    BY <2>1, <2>2, LeftOfType, FileChangesType DEF FetchUpgradePrompt, FilesTypeInv
  <2>3. CASE RegistryAnswers(c)
    <3>1. CASE Ends(u) /\ UNCHANGED <<file, world, meant>>
      BY <2>1, <3>1, EndsTypes DEF FilesTypeInv
    <3>2. CASE mem' = [mem EXCEPT ![u].message["latest"] = world.latest] /\ Goes(u, "compare")
               /\ UNCHANGED <<file, world, meant>>
      <4>1. mem[u].message \in [{"latest", "cliVersion"} -> Nat] /\ world.latest \in Nat
        BY <2>1, FilesAre DEF FilesTypeInv, MemType, WorldType
      <4>2. [mem[u].message EXCEPT !["latest"] = world.latest] \in Data("message")
        BY <4>1, FilesAre
      <4>3. MemType'
        BY <2>1, <3>2, <4>2 DEF FilesTypeInv, MemType
      <4> QED BY <3>2, <4>3 DEF FilesTypeInv
    <3> QED BY <2>3, <3>1, <3>2 DEF RegistryAnswers
  <2>4. CASE Compare(c)
    <3> DEFINE data == [mem[u].message EXCEPT !["cliVersion"] = world.versions[u]]
    <3>1. mem[u].message \in [{"latest", "cliVersion"} -> Nat] /\ world.versions[u] \in Nat
      BY <2>1, FilesAre DEF FilesTypeInv, MemType, WorldType
    <3>2. data \in Data("message")
      BY <3>1, FilesAre
    <3> HIDE DEF data
    <3>3. \/ Opens(u, "message", data, "setMessage")
          \/ file' = [file EXCEPT !.message = Removed("message")] /\ Ends(u)
      BY <2>4 DEF Compare, data
    <3>4. FileType' /\ MemType' /\ DOMAIN at' = Processes
      BY <2>1, <3>2, <3>3, OpensTypes, EndsTypes, RemovedIsData, FileChangesType
    <3> QED BY <2>4, <3>4 DEF Compare, FilesTypeInv
  <2>5. CASE SetMessage(c)
    BY <2>1, <2>5, FillsTypes, EndsTypes DEF SetMessage, FilesTypeInv
  <2>6. CASE RefreshPRInfoTask(c)
    <3>1. FileType'
      BY <2>1, <2>6, LeftOfType, RemovedIsData, FileChangesType DEF RefreshPRInfoTask
    <3>2. MemType' /\ DOMAIN at' = Processes
      <4>1. Loaded("repo") \in Data("repo")
        BY <2>1 DEF Loaded, FilesTypeInv, FileType
      <4>2. \/ mem' = [mem EXCEPT ![r].repo = Loaded("repo")] /\ Goes(r, "getPrInfoForBranches")
            \/ Ends(r)
        BY <2>1, <2>6 DEF RefreshPRInfoTask, FilesTypeInv, MemType
      <4>3. CASE mem' = [mem EXCEPT ![r].repo = Loaded("repo")] /\ Goes(r, "getPrInfoForBranches")
        BY <2>1, <4>1, <4>3 DEF FilesTypeInv, MemType
      <4> QED BY <2>1, <4>2, <4>3, EndsTypes
    <3> QED BY <2>6, <3>1, <3>2 DEF RefreshPRInfoTask, FilesTypeInv
  <2>7. CASE GetPrInfoForBranches(c)
    <3> DEFINE data == [mem[r].prs EXCEPT !["prInfoToUpsert"] = On]
    <3>1. mem[r].prs \in [{"prInfoToUpsert"} -> Nat] /\ On \in Nat
      BY <2>1, FilesAre DEF FilesTypeInv, MemType, On
    <3>2. data \in Data("prs")
      BY <3>1, FilesAre
    <3> HIDE DEF data
    <3>3. \/ Opens(r, "prs", data, "setPrInfo")
          \/ file' = [file EXCEPT !.prs = Removed("prs")] /\ Ends(r)
      BY <2>7 DEF GetPrInfoForBranches, data
    <3>4. FileType' /\ MemType' /\ DOMAIN at' = Processes
      BY <2>1, <3>2, <3>3, OpensTypes, EndsTypes, RemovedIsData, FileChangesType
    <3> QED BY <2>7, <3>4 DEF GetPrInfoForBranches, FilesTypeInv
  <2>8. CASE SetPrInfo(c)
    BY <2>1, <2>8, FillsTypes, EndsTypes DEF SetPrInfo, FilesTypeInv
  <2> QED BY <1>13, <2>2, <2>3, <2>4, <2>5, <2>6, <2>7, <2>8 DEF Tasks
<1>14. ASSUME NEW p \in Processes, Kill(p) PROVE FilesTypeInv'
  BY <1>14, EndsTypes DEF Kill, FilesTypeInv
<1>15. CASE Minute
  <2>1. world.minute \in Nat /\ MaxMinutes \in Nat
    BY BoundsAreNumbers DEF FilesTypeInv, WorldType
  <2>2. WorldType'
    BY <1>15, <2>1 DEF Minute, FilesTypeInv, WorldType
  <2> QED BY <1>15, <2>2 DEF Minute, FilesTypeInv
<1>16. CASE Release
  <2>1. WorldType'
    BY <1>16 DEF Release, FilesTypeInv, WorldType
  <2> QED BY <1>16, <2>1 DEF Release, FilesTypeInv
<1>17. CASE Install
  <2>1. WorldType'
    BY <1>17 DEF Install, FilesTypeInv, WorldType
  <2> QED BY <1>17, <2>1 DEF Install, FilesTypeInv
<1>18. CASE UNCHANGED fileVars
  BY <1>18 DEF fileVars, FilesTypeInv
<1> QED BY <1>1, <1>2, <1>3, <1>4, <1>5, <1>6, <1>7, <1>8, <1>9, <1>10, <1>11, <1>12, <1>13,
           <1>14, <1>15, <1>16, <1>17, <1>18 DEF FilesNext, Tasks

----------------------------------------------------------------------------
\* The message is of a version that was released, newer than the one it is for.
IsNewer(d, top) ==
  \/ d["latest"] = 0 /\ d["cliVersion"] = 0
  \/ d["latest"] > d["cliVersion"] /\ d["latest"] <= top

\* No process holds, and no file, a message of a version that is not newer.
MessagesUpTo(top) ==
  /\ ~meant.misled
  /\ IsNewer(file.message.holds, top)
  /\ \A p \in Processes : IsNewer(mem[p].message, top)

MessageInv == MessagesUpTo(world.latest)

\* An empty message is none.
LEMMA NoMessageIsNewer ==
  ASSUME NEW top
  PROVE  /\ IsNewer(Initialize("message"), top) /\ IsNewer(Empty.message, top) /\ IsNewer(Removed("message").holds, top)
BY InitializeIsData, EmptyIsData, RemovedIsData, FilesAre DEF IsNewer, Fields

\* A step that leaves the message alone.
LEMMA OthersKeepMessage ==
  ASSUME FilesTypeInv, NEW top, MessagesUpTo(top)
  PROVE  /\ \A f \in Files \ {"message"} : \A p \in Processes : \A data, next :
              data \in Data(f) /\ Opens(p, f, data, next)
                => file'.message = file.message /\ \A q \in Processes : mem'[q].message = mem[q].message
         /\ \A f \in Files \ {"message"} : \A p \in Processes : Fills(p, f) => file'.message = file.message
         /\ \A p \in Processes : Ends(p) => \A q \in Processes : IsNewer(mem'[q].message, top)
         /\ UNCHANGED mem => \A q \in Processes : IsNewer(mem'[q].message, top)
         /\ \A f \in Files : \A data : Saved(f, data) => meant'.misled = meant.misled
<1>0. "message" \in Files
  BY FilesAre
<1>1. ASSUME NEW f \in Files \ {"message"}, NEW p \in Processes, NEW data \in Data(f), NEW next, Opens(p, f, data, next)
      PROVE  file'.message = file.message /\ \A q \in Processes : mem'[q].message = mem[q].message
  <2>1. \A g \in Files \ {f} : file'[g] = file[g] /\ mem'[p][g] = mem[p][g]
    BY <1>1, OpensTypes
  <2>2. \A q \in Processes \ {p} : mem'[q] = mem[q]
    BY <1>1, OpensTypes
  <2>3. file'.message = file.message /\ mem'[p].message = mem[p].message
    BY <1>0, <2>1
  <2> QED BY <2>2, <2>3
<1>2. ASSUME NEW f \in Files \ {"message"}, NEW p \in Processes, Fills(p, f)
      PROVE  file'.message = file.message
  BY <1>0, <1>2, FillsTypes
<1>3. ASSUME NEW p \in Processes, Ends(p), NEW q \in Processes
      PROVE  IsNewer(mem'[q].message, top)
  <2>1. q # p => mem'[q] = mem[q]
    BY <1>3, EndsTypes
  <2>2. mem'[p].message = Initialize("message")
    BY <1>0, <1>3, EndsTypes
  <2> QED BY <2>1, <2>2, NoMessageIsNewer DEF MessagesUpTo
<1>4. ASSUME NEW f \in Files, NEW data, Saved(f, data) PROVE meant'.misled = meant.misled
  BY <1>4 DEF Saved, FilesTypeInv, MeantType
<1> QED BY <1>1, <1>2, <1>3, <1>4 DEF MessagesUpTo

\* No step makes a message of a version that is not newer.
LEMMA MessagesAreKept ==
  ASSUME FilesTypeInv, NEW top, top = world.latest, MessagesUpTo(top), [FilesNext]_fileVars
  PROVE  MessagesUpTo(top)'
<1>0. {"user", "repo", "message", "prs"} \subseteq Files
  BY FilesAre
<1>1. ASSUME NEW c \in Commands, NEW kind \in UserCommands \cup RepoCommands, Invoke(c, kind) PROVE MessagesUpTo(top)'
  BY <1>1 DEF Invoke, MessagesUpTo, FilesTypeInv, MeantType
<1>2. ASSUME NEW c \in Commands, InitContextLite(c) PROVE MessagesUpTo(top)'
  <2> DEFINE p == Command(c)
  <2>1. p \in Processes
    BY ProcessesAre
  <2>2. CASE Loads("user")
    <3>1. mem' = [mem EXCEPT ![p].user = Loaded("user"), ![p].message = Loaded("message")]
          /\ file' = [file EXCEPT !.message = LeftOf("message")] /\ UNCHANGED meant
      BY <1>2, <2>2 DEF InitContextLite
    <3>2. IsNewer(LeftOf("message").holds, top)
      BY NoMessageIsNewer DEF LeftOf, MessagesUpTo
    <3>3. file'.message = LeftOf("message")
      BY <1>0, <3>1 DEF FilesTypeInv, FileType
    <3>4. mem'[p].message = file.message.holds /\ \A q \in Processes \ {p} : mem'[q] = mem[q]
      BY <1>0, <2>1, <3>1 DEF FilesTypeInv, MemType, Loaded
    <3> QED BY <3>1, <3>2, <3>3, <3>4 DEF MessagesUpTo
  <2>3. CASE ~Loads("user")
    BY <1>2, <2>1, <2>3, OthersKeepMessage DEF InitContextLite, MessagesUpTo
  <2> QED BY <2>2, <2>3
<1>3. ASSUME NEW c \in Commands, PrintAndClearOldMessage(c) PROVE MessagesUpTo(top)'
  <2> DEFINE p == Command(c)
  <2>1. p \in Processes
    BY ProcessesAre
  <2>2. CASE IsForThisVersion(p)
    <3>1. /\ file' = [file EXCEPT !.message = Removed("message")] /\ UNCHANGED mem
          /\ meant' = [meant EXCEPT !.misled = @ \/ mem[p].message["latest"] <= world.versions[p]]
      BY <1>3, <2>2 DEF PrintAndClearOldMessage
    <3>2. ~(mem[p].message["latest"] <= world.versions[p])
      <4>1. mem[p].message["latest"] # 0 /\ mem[p].message["cliVersion"] = world.versions[p]
        BY <2>2 DEF IsForThisVersion, Unset
      <4>2. mem[p].message["latest"] \in Nat /\ world.versions[p] \in Nat
        BY <1>0, <2>1, FilesAre DEF FilesTypeInv, MemType, WorldType
      <4> QED BY <2>1, <4>1, <4>2 DEF MessagesUpTo, IsNewer
    <3>3. file'.message = Removed("message")
      BY <1>0, <3>1 DEF FilesTypeInv, FileType
    <3>4. ~meant'.misled
      BY <3>1, <3>2 DEF FilesTypeInv, MeantType, MessagesUpTo
    <3> QED BY <3>1, <3>3, <3>4, NoMessageIsNewer DEF MessagesUpTo
  <2>3. CASE ~IsForThisVersion(p)
    BY <1>3, <2>3 DEF PrintAndClearOldMessage, MessagesUpTo
  <2> QED BY <2>2, <2>3
<1>4. ASSUME NEW c \in Commands, InitContext(c) PROVE MessagesUpTo(top)'
  <2> DEFINE p == Command(c)
  <2>1. p \in Processes
    BY ProcessesAre
  <2>2. CASE Loads("repo")
    <3>1. mem' = [mem EXCEPT ![p].repo = Loaded("repo")]
          /\ file' = [file EXCEPT !.prs = Removed("prs")] /\ UNCHANGED meant
      BY <1>4, <2>2 DEF InitContext
    <3>2. file'.message = file.message
      BY <1>0, <3>1 DEF FilesTypeInv, FileType
    <3>3. \A q \in Processes : mem'[q].message = mem[q].message
      BY <1>0, <2>1, <3>1 DEF FilesTypeInv, MemType
    <3> QED BY <3>1, <3>2, <3>3 DEF MessagesUpTo
  <2>3. CASE ~Loads("repo")
    BY <1>4, <2>1, <2>3, OthersKeepMessage DEF InitContext, MessagesUpTo
  <2> QED BY <2>2, <2>3
<1>5. ASSUME NEW c \in Commands, RefreshPRInfoInBackground(c) PROVE MessagesUpTo(top)'
  <2>1. Command(c) \in Processes /\ {"user", "repo"} \subseteq Files \ {"message"}
    BY <1>0, ProcessesAre
  <2>2. UNCHANGED meant
    BY <1>5 DEF RefreshPRInfoInBackground
  <2> QED BY <1>5, <2>1, <2>2, RefreshOpens, OthersKeepMessage DEF MessagesUpTo
<1>6. ASSUME NEW c \in Commands, SpawnDetached(c) PROVE MessagesUpTo(top)'
  <2>1. Fills(Command(c), "repo") /\ UNCHANGED mem /\ Command(c) \in Processes
    BY <1>6, ProcessesAre DEF SpawnDetached
  <2>2. meant'.misled = meant.misled
    BY <1>6 DEF SpawnDetached, FilesTypeInv, MeantType
  <2> QED BY <1>0, <2>1, <2>2, OthersKeepMessage DEF MessagesUpTo
<1>7. ASSUME NEW c \in Commands, GraphiteHelper(c) PROVE MessagesUpTo(top)'
  <2>1. Command(c) \in Processes /\ {"user", "repo"} \subseteq Files \ {"message"}
    BY <1>0, ProcessesAre
  <2>2. UNCHANGED meant
    BY <1>7 DEF GraphiteHelper
  <2> QED BY <1>7, <2>1, <2>2, HelperOpens, OthersKeepMessage DEF MessagesUpTo
<1>8. ASSUME NEW c \in Commands, SetTrunk(c) PROVE MessagesUpTo(top)'
  BY <1>0, <1>8, OthersKeepMessage, ProcessesAre DEF SetTrunk, MessagesUpTo
<1>9. ASSUME NEW c \in Commands, Handler(c) PROVE MessagesUpTo(top)'
  <2>1. Command(c) \in Processes /\ {"user", "repo"} \subseteq Files \ {"message"}
    BY <1>0, ProcessesAre
  <2>2. UNCHANGED meant
    BY <1>9 DEF Handler
  <2> QED BY <1>9, <2>1, <2>2, HandlerOpens, OthersKeepMessage DEF MessagesUpTo
<1>10. ASSUME NEW c \in Commands, Update(c) PROVE MessagesUpTo(top)'
  <2> DEFINE p == Command(c)
             f == FileOf(world.asked[c])
  <2>1. p \in Processes /\ f \in Files \ {"message"}
    BY <1>0, ProcessesAre DEF FileOf
  <2>2. Fills(p, f) /\ Saved(f, mem[p][f]) /\ (UNCHANGED mem \/ Ends(p))
    BY <1>10 DEF Update
  <2> HIDE DEF p, f
  <2> QED BY <2>1, <2>2, OthersKeepMessage DEF MessagesUpTo
<1>11. ASSUME NEW c \in Commands, SecondToken(c) PROVE MessagesUpTo(top)'
  <2>1. Command(c) \in Processes /\ {"user", "repo"} \subseteq Files \ {"message"}
    BY <1>0, ProcessesAre
  <2>2. UNCHANGED meant
    BY <1>11 DEF SecondToken
  <2> QED BY <1>11, <2>1, <2>2, SecondOpens, OthersKeepMessage DEF MessagesUpTo
<1>12. ASSUME NEW c \in Commands, UpdateSecond(c) PROVE MessagesUpTo(top)'
  BY <1>0, <1>12, OthersKeepMessage, ProcessesAre DEF UpdateSecond, MessagesUpTo
<1>13. ASSUME NEW c \in Commands, Tasks(c) PROVE MessagesUpTo(top)'
  <2> DEFINE u == UpgradePrompt(c)
             r == RefreshPRInfo(c)
  <2>1. u \in Processes /\ r \in Processes
    BY ProcessesAre
  <2>2. CASE FetchUpgradePrompt(c)
    <3>1. file'.message = LeftOf("message") /\ UNCHANGED <<mem, meant>>
      BY <1>0, <2>2 DEF FetchUpgradePrompt, FilesTypeInv, FileType
    <3> QED BY <3>1, NoMessageIsNewer DEF LeftOf, MessagesUpTo
  <2>3. CASE RegistryAnswers(c)
    <3>1. CASE Ends(u) /\ UNCHANGED <<file, meant>>
      BY <2>1, <3>1, OthersKeepMessage DEF MessagesUpTo
    <3>2. CASE mem' = [mem EXCEPT ![u].message["latest"] = world.latest] /\ UNCHANGED <<file, meant>>
               /\ at[u] = "registry"
      <4> DEFINE data == [mem[u].message EXCEPT !["latest"] = world.latest]
      <4>1. mem'[u].message = data /\ \A q \in Processes \ {u} : mem'[q] = mem[q]
        BY <1>0, <2>1, <3>2 DEF FilesTypeInv, MemType
      <4>2. IsNewer(data, top)
        BY <1>0, <2>1, <3>2, FilesAre DEF FilesTypeInv, MemType, WorldType, IsNewer, MessagesUpTo
      <4> QED BY <3>2, <4>1, <4>2 DEF MessagesUpTo
    <3> QED BY <2>3, <3>1, <3>2 DEF RegistryAnswers
  <2>4. CASE Compare(c)
    <3> DEFINE data == [mem[u].message EXCEPT !["cliVersion"] = world.versions[u]]
    <3>1. mem[u].message \in [{"latest", "cliVersion"} -> Nat] /\ world.versions[u] \in Nat
      BY <1>0, <2>1, FilesAre DEF FilesTypeInv, MemType, WorldType
    <3>2. data \in Data("message")
      BY <3>1, FilesAre
    <3>3. mem[u].message["latest"] > world.versions[u] => IsNewer(data, top)
      <4>1. IsNewer(mem[u].message, top)
        BY <2>1 DEF MessagesUpTo
      <4>2. data["latest"] = mem[u].message["latest"] /\ data["cliVersion"] = world.versions[u]
        BY <3>1
      <4> HIDE DEF data
      <4> QED BY <3>1, <4>1, <4>2 DEF IsNewer
    <3>4. UNCHANGED meant /\
          (\/ mem[u].message["latest"] > world.versions[u] /\ Opens(u, "message", data, "setMessage")
           \/ file' = [file EXCEPT !.message = Removed("message")] /\ Ends(u))
      BY <2>4 DEF Compare
    <3> HIDE DEF data
    <3>5. CASE mem[u].message["latest"] > world.versions[u] /\ Opens(u, "message", data, "setMessage")
      <4>1. mem'[u].message = data /\ \A q \in Processes \ {u} : mem'[q] = mem[q]
        BY <1>0, <2>1, <3>2, <3>5, OpensTypes
      <4>2. file'.message.holds = Initialize("message")
        BY <1>0, <3>5 DEF Opens, Emptied, FilesTypeInv, FileType
      <4> QED BY <3>3, <3>4, <3>5, <4>1, <4>2, NoMessageIsNewer DEF MessagesUpTo
    <3>6. CASE file' = [file EXCEPT !.message = Removed("message")] /\ Ends(u)
      <4>1. file'.message = Removed("message")
        BY <1>0, <3>6 DEF FilesTypeInv, FileType
      <4> QED BY <2>1, <3>4, <3>6, <4>1, NoMessageIsNewer, OthersKeepMessage DEF MessagesUpTo
    <3> QED BY <3>4, <3>5, <3>6
  <2>5. CASE SetMessage(c)
    <3>1. Fills(u, "message") /\ Ends(u) /\ UNCHANGED meant
      BY <2>5 DEF SetMessage
    <3>2. file'.message.holds \in {file.message.holds, Initialize("message"), mem[u].message}
      BY <1>0, <2>1, <3>1, FillsTypes
    <3> QED BY <2>1, <3>1, <3>2, NoMessageIsNewer, OthersKeepMessage DEF MessagesUpTo
  <2>6. CASE RefreshPRInfoTask(c)
    <3>1. file'.message = file.message /\ UNCHANGED meant
      BY <1>0, <2>6 DEF RefreshPRInfoTask, FilesTypeInv, FileType
    <3>2. CASE mem' = [mem EXCEPT ![r].repo = Loaded("repo")]
      <4>1. \A q \in Processes : mem'[q].message = mem[q].message
        BY <1>0, <2>1, <3>2 DEF FilesTypeInv, MemType
      <4> QED BY <3>1, <4>1 DEF MessagesUpTo
    <3>3. CASE Ends(r)
      BY <2>1, <3>1, <3>3, OthersKeepMessage DEF MessagesUpTo
    <3> QED BY <2>6, <3>2, <3>3 DEF RefreshPRInfoTask
  <2>7. CASE GetPrInfoForBranches(c)
    <3> DEFINE data == [mem[r].prs EXCEPT !["prInfoToUpsert"] = On]
    <3>1. mem[r].prs \in [{"prInfoToUpsert"} -> Nat] /\ On \in Nat
      BY <1>0, <2>1, FilesAre DEF FilesTypeInv, MemType, On
    <3>2. data \in Data("prs")
      BY <3>1, FilesAre
    <3> HIDE DEF data
    <3>3. CASE Opens(r, "prs", data, "setPrInfo") /\ UNCHANGED meant
      BY <1>0, <2>1, <3>2, <3>3, OthersKeepMessage DEF MessagesUpTo
    <3>4. CASE file' = [file EXCEPT !.prs = Removed("prs")] /\ Ends(r) /\ UNCHANGED meant
      <4>1. file'.message = file.message
        BY <1>0, <3>4 DEF FilesTypeInv, FileType
      <4> QED BY <2>1, <3>4, <4>1, OthersKeepMessage DEF MessagesUpTo
    <3> QED BY <2>7, <3>3, <3>4 DEF GetPrInfoForBranches, data
  <2>8. CASE SetPrInfo(c)
    BY <1>0, <2>1, <2>8, OthersKeepMessage DEF SetPrInfo, MessagesUpTo
  <2> QED BY <1>13, <2>2, <2>3, <2>4, <2>5, <2>6, <2>7, <2>8 DEF Tasks
<1>14. ASSUME NEW p \in Processes, Kill(p) PROVE MessagesUpTo(top)'
  BY <1>14, OthersKeepMessage DEF Kill, MessagesUpTo
<1>15. CASE Minute \/ Release \/ Install \/ UNCHANGED fileVars
  BY <1>15 DEF Minute, Release, Install, fileVars, MessagesUpTo
<1> QED BY <1>1, <1>2, <1>3, <1>4, <1>5, <1>6, <1>7, <1>8, <1>9, <1>10, <1>11, <1>12, <1>13,
           <1>14, <1>15 DEF FilesNext, Tasks

\* The registry never goes back to an older version.
LEMMA LatestGrows ==
  ASSUME FilesTypeInv, [FilesNext]_fileVars
  PROVE  world'.latest = world.latest \/ world'.latest = world.latest + 1
<1>1. ASSUME NEW p \in Processes PROVE Started(world, p).latest = world.latest
  BY StartedType
<1>2. ASSUME NEW c \in Commands, NEW kind, Invoke(c, kind) PROVE world'.latest = world.latest
  <2>1. world' = [Started(world, Command(c)) EXCEPT !.asked[c] = kind]
    BY <1>2 DEF Invoke
  <2> QED BY <1>1, <2>1, StartedType, ProcessesAre
<1>3. ASSUME NEW c \in Commands, ReadsAndWrites(c) \/ Tasks(c)
      PROVE  (\E kind : Invoke(c, kind)) \/ UNCHANGED world \/ \E p \in Processes : world' = Started(world, p)
  BY <1>3, ProcessesAre
     DEF ReadsAndWrites, Tasks, InitContextLite, PrintAndClearOldMessage, InitContext,
         RefreshPRInfoInBackground, SpawnDetached, GraphiteHelper, SetTrunk, Handler, Update, SecondToken,
         UpdateSecond, FetchUpgradePrompt, RegistryAnswers, Compare, SetMessage, RefreshPRInfoTask,
         GetPrInfoForBranches, SetPrInfo
<1>4. CASE \E c \in Commands : ReadsAndWrites(c) \/ Tasks(c)
  BY <1>1, <1>2, <1>3, <1>4
<1>5. CASE (\E p \in Processes : Kill(p)) \/ Minute \/ Release \/ Install \/ UNCHANGED fileVars
  BY <1>5 DEF Kill, Minute, Release, Install, fileVars, FilesTypeInv, WorldType
<1> QED BY <1>4, <1>5 DEF FilesNext, ReadsAndWrites, Tasks

\* As the latest version only grows, the messages remain of released versions.
LEMMA MessageIsKept ==
  ASSUME FilesTypeInv, MessageInv, [FilesNext]_fileVars
  PROVE  MessageInv'
<1>1. PICK top : top = world.latest
  OBVIOUS
<1>2. world'.latest \in Nat /\ top \in Nat /\ top <= world'.latest
  BY <1>1, LatestGrows DEF FilesTypeInv, WorldType
<1>3. MessagesUpTo(top)'
  BY <1>1, MessagesAreKept DEF MessageInv
<1>4. /\ file'.message.holds \in Data("message")
      /\ \A p \in Processes : mem'[p].message \in Data("message")
  BY TypesAreKept, FilesAre DEF FilesTypeInv, FileType, MemType
<1>5. ASSUME NEW d \in Data("message"), IsNewer(d, top) PROVE IsNewer(d, world'.latest)
  BY <1>2, <1>5, FilesAre DEF IsNewer
<1> QED BY <1>3, <1>4, <1>5 DEF MessageInv, MessagesUpTo

----------------------------------------------------------------------------
\* The steps of one command leave the others where they are.
Stays(d) ==
  /\ at'[Command(d)] = at[Command(d)] /\ mem'[Command(d)] = mem[Command(d)]
  /\ world'.asked[d] = world.asked[d]
  /\ \A f \in {"user", "repo"} : Command(d) \in file[f].open => Command(d) \in file'[f].open

\* A step of c leaves what another command knows and has open.
LEMMA OthersStay ==
  ASSUME FilesTypeInv, NEW c \in Commands, ReadsAndWrites(c), NEW d \in Commands \ {c}
  PROVE  Stays(d)
<1>0. /\ {"user", "repo", "message", "prs"} \subseteq Files
      /\ Command(c) \in Processes /\ Command(d) \in Processes \ {Command(c)}
      /\ UpgradePrompt(c) \in Processes \ {Command(d)} /\ RefreshPRInfo(c) \in Processes \ {Command(d)}
  BY FilesAre, ProcessesAre
<1> DEFINE Same == at'[Command(d)] = at[Command(d)] /\ mem'[Command(d)] = mem[Command(d)]
           Kept(f) == Command(d) \in file[f].open => Command(d) \in file'[f].open
<1>1. CASE \E kind \in UserCommands \cup RepoCommands : Invoke(c, kind)
  <2>1. world'.asked[d] = world.asked[d]
    <3>1. PICK kind : world' = [Started(world, Command(c)) EXCEPT !.asked[c] = kind]
      BY <1>1 DEF Invoke
    <3> QED BY <1>0, <3>1, StartedType DEF FilesTypeInv, WorldType
  <2>2. Same /\ UNCHANGED file
    BY <1>0, <1>1 DEF Invoke, Goes, FilesTypeInv
  <2> QED BY <2>1, <2>2 DEF Stays
<1>2. world' = world \/ (\E p \in Processes : world' = Started(world, p)) => world'.asked[d] = world.asked[d]
  BY StartedType
<1> HIDE DEF Same, Kept
<1>3. ASSUME NEW f \in Files, NEW data \in Data(f), NEW next, Opens(Command(c), f, data, next)
      PROVE  Same /\ Kept("user") /\ Kept("repo")
  <2>0. PICK p \in Processes : p = Command(c)
    BY <1>0
  <2>1. \A g \in Files \ {f} : file'[g] = file[g]
    BY <1>3 DEF Opens, FilesTypeInv, FileType
  <2>2. file[f].open \subseteq file'[f].open
    BY <1>3, <2>0, OpensTypes
  <2>3. \A q \in Processes \ {p} : at'[q] = at[q] /\ mem'[q] = mem[q]
    BY <1>3, <2>0, OpensTypes
  <2> QED BY <1>0, <2>0, <2>1, <2>2, <2>3 DEF Kept, Same
<1>4. ASSUME NEW f \in Files, Fills(Command(c), f) PROVE Kept("user") /\ Kept("repo")
  <2>1. \A g \in Files \ {f} : file'[g] = file[g]
    BY <1>0, <1>4, FillsTypes
  <2>2. Kept(f)
    BY <1>0, <1>4, FillsTypes DEF Kept
  <2> QED BY <1>0, <2>1, <2>2 DEF Kept
<1>5. Ends(Command(c)) => Same
  BY <1>0, EndsTypes DEF Same
<1>6. ASSUME NEW next, Goes(Command(c), next), UNCHANGED mem PROVE Same
  BY <1>0, <1>6 DEF Goes, Same, FilesTypeInv
<1>7. UNCHANGED file => Kept("user") /\ Kept("repo")
  BY DEF Kept
<1>8. ASSUME NEW f \in {"message", "prs"}, NEW new, file' = [file EXCEPT ![f] = new]
      PROVE  Kept("user") /\ Kept("repo")
  BY <1>0, <1>8 DEF Kept, FilesTypeInv, FileType
<1>9. CASE InitContextLite(c)
  <2>1. Same
    <3>1. CASE Loads("user")
      <4>1. mem' = [mem EXCEPT ![Command(c)].user = Loaded("user"), ![Command(c)].message = Loaded("message")]
            /\ Goes(Command(c), "printAndClearOldMessage")
        BY <1>9, <3>1 DEF InitContextLite
      <4> QED BY <1>0, <4>1 DEF Same, Goes, FilesTypeInv, MemType
    <3>2. CASE ~Loads("user")
      BY <1>5, <1>9, <3>2 DEF InitContextLite
    <3> QED BY <3>1, <3>2
  <2>2. Kept("user") /\ Kept("repo")
    BY <1>7, <1>8, <1>9 DEF InitContextLite
  <2> QED BY <1>2, <1>9, <2>1, <2>2 DEF InitContextLite, Stays, Same, Kept
<1>10. CASE PrintAndClearOldMessage(c)
  <2>1. Same
    BY <1>0, <1>10 DEF PrintAndClearOldMessage, Same, FilesTypeInv
  <2>2. Kept("user") /\ Kept("repo")
    BY <1>7, <1>8, <1>10 DEF PrintAndClearOldMessage
  <2> QED BY <1>0, <1>2, <1>10, <2>1, <2>2 DEF PrintAndClearOldMessage, Stays, Same, Kept
<1>11. CASE InitContext(c)
  <2>1. Same
    <3>1. CASE Loads("repo")
      <4>1. mem' = [mem EXCEPT ![Command(c)].repo = Loaded("repo")]
            /\ Goes(Command(c), "refreshPRInfoInBackground")
        BY <1>11, <3>1 DEF InitContext
      <4> QED BY <1>0, <4>1 DEF Same, Goes, FilesTypeInv, MemType
    <3>2. CASE ~Loads("repo")
      BY <1>5, <1>11, <3>2 DEF InitContext
    <3> QED BY <3>1, <3>2
  <2>2. Kept("user") /\ Kept("repo")
    BY <1>7, <1>8, <1>11 DEF InitContext
  <2> QED BY <1>2, <1>11, <2>1, <2>2 DEF InitContext, Stays, Same, Kept
<1>12. CASE RefreshPRInfoInBackground(c)
  <2>1. \/ \E data \in Data("repo") : Opens(Command(c), "repo", data, "spawnDetached")
        \/ Goes(Command(c), "graphiteHelper") /\ UNCHANGED <<file, mem>>
    BY <1>12, RefreshOpens
  <2> QED BY <1>0, <1>2, <1>3, <1>6, <1>7, <1>12, <2>1 DEF RefreshPRInfoInBackground, Stays, Same, Kept
<1>13. CASE SpawnDetached(c)
  <2>1. Same
    BY <1>0, <1>13 DEF SpawnDetached, Same, FilesTypeInv
  <2>2. Kept("user") /\ Kept("repo")
    BY <1>0, <1>4, <1>13 DEF SpawnDetached
  <2> QED BY <1>0, <1>2, <1>13, <2>1, <2>2 DEF SpawnDetached, Stays, Same, Kept
<1>14. CASE GraphiteHelper(c)
  <2>1. \/ \E data \in Data("repo") : Opens(Command(c), "repo", data, "setTrunk")
        \/ Goes(Command(c), "handler") /\ UNCHANGED <<file, mem>>
        \/ Ends(Command(c)) /\ UNCHANGED file
    BY <1>14, HelperOpens
  <2> QED BY <1>0, <1>2, <1>3, <1>5, <1>6, <1>7, <1>14, <2>1 DEF GraphiteHelper, Stays, Same, Kept
<1>15. CASE SetTrunk(c)
  BY <1>0, <1>2, <1>4, <1>6, <1>15 DEF SetTrunk, Stays, Same, Kept
<1>16. CASE Handler(c)
  <2>1. \/ \E f \in Files : \E data \in Data(f) : Opens(Command(c), f, data, "update")
        \/ Ends(Command(c)) /\ UNCHANGED file
    BY <1>0, <1>16, HandlerOpens
  <2> QED BY <1>0, <1>2, <1>3, <1>5, <1>7, <1>16, <2>1 DEF Handler, Stays, Same, Kept
<1>17. CASE Update(c)
  <2>1. FileOf(world.asked[c]) \in Files
    BY <1>0 DEF FileOf
  <2>2. /\ Fills(Command(c), FileOf(world.asked[c]))
        /\ ((Goes(Command(c), "secondToken") /\ UNCHANGED mem) \/ Ends(Command(c)))
        /\ UNCHANGED world
    BY <1>17 DEF Update
  <2>3. Kept("user") /\ Kept("repo")
    BY <1>4, <2>1, <2>2
  <2> QED BY <1>2, <1>5, <1>6, <2>2, <2>3 DEF Stays, Same, Kept
<1>18. CASE SecondToken(c)
  <2>1. \E data \in Data("user") : Opens(Command(c), "user", data, "updateSecond")
    BY <1>18, SecondOpens
  <2> QED BY <1>0, <1>2, <1>3, <1>18, <2>1 DEF SecondToken, Stays, Same, Kept
<1>19. CASE UpdateSecond(c)
  BY <1>0, <1>2, <1>4, <1>5, <1>19 DEF UpdateSecond, Stays, Same, Kept
<1> QED BY <1>1, <1>9, <1>10, <1>11, <1>12, <1>13, <1>14, <1>15, <1>16, <1>17, <1>18, <1>19
        DEF ReadsAndWrites

----------------------------------------------------------------------------
\* The command c has opened the file f and will fill it.
WritesTo(c, f) ==
  IF f = "user"
  THEN \/ at[Command(c)] = "updateSecond"
       \/ at[Command(c)] = "update" /\ FileOf(world.asked[c]) = "user"
  ELSE \/ at[Command(c)] \in {"spawnDetached", "setTrunk"}
       \/ at[Command(c)] = "update" /\ FileOf(world.asked[c]) = "repo"

\* Who writes a file has it open, and never writes a repository without a trunk.
WriterIsReady(c) ==
  /\ \A f \in {"user", "repo"} : WritesTo(c, f) => Command(c) \in file[f].open
  /\ \/ WritesTo(c, "repo")
     \/ /\ at[Command(c)] = "handler"
        /\ FileOf(world.asked[c]) = "repo" /\ world.asked[c] # "init"
     => mem[Command(c)].repo["trunk"] > 0

\* A repository that was set up stays so because nobody writes one without a trunk.
WritersInv == StaysInitialized /\ \A c \in Commands : WriterIsReady(c)

\* The copy d of the settings of the repository is not older than the requests
\* for pull requests, and has the settings that were meant.
IsUpToDate(d) ==
  \A m \in 1..MaxMinutes : meant.refreshes[m] # 0 => m <= d["lastFetchedPRInfoMs"]
IsAsMeant(d) == \A field \in RepoSettings : d[field] = meant.holds.repo[field]

\* The command c has read, or is about to write, the settings of the repository.
HasRepo(c) ==
  \/ at[Command(c)] \in {"refreshPRInfoInBackground", "graphiteHelper", "setTrunk"}
  \/ at[Command(c)] \in {"handler", "update"} /\ FileOf(world.asked[c]) = "repo"

CopyIsRight(c) ==
  LET d == mem[Command(c)].repo IN
  /\ HasRepo(c) => IsUpToDate(d)
  /\ at[Command(c)] \in {"refreshPRInfoInBackground", "spawnDetached"} => IsAsMeant(d)
  /\ at[Command(c)] = "spawnDetached" =>
       /\ d["lastFetchedPRInfoMs"] \in 1..MaxMinutes
       /\ \A m \in 1..MaxMinutes : meant.refreshes[m] # 0 => m < d["lastFetchedPRInfoMs"]

FilesAreRight ==
  /\ ~file.user.torn => file.user.holds = meant.holds.user
  /\ ~file.repo.torn => IsAsMeant(file.repo.holds) /\ IsUpToDate(file.repo.holds)
  /\ \A m \in 1..MaxMinutes : meant.refreshes[m] <= 1

\* At most one command runs.
Alone ==
  \A c, d \in Commands : Running(Command(c)) /\ Running(Command(d)) => c = d

\* While no two commands ever ran at once, the one that runs has the right copy.
InStepInv ==
  ~meant.overlapped => Alone /\ FilesAreRight /\ \A c \in Commands : CopyIsRight(c)

\* The inductive invariant.
SettingsInv == FilesTypeInv /\ MessageInv /\ WritersInv /\ InStepInv

----------------------------------------------------------------------------
\* What p filled a file with that it had open.
LEMMA WriterFills ==
  ASSUME FilesTypeInv, NEW p \in Processes, NEW f \in Files, p \in file[f].open, Fills(p, f)
  PROVE  /\ file'[f].torn \/ file'[f].holds = mem[p][f]
         /\ \A g \in Files \ {f} : file'[g] = file[g]
BY FillsTypes

\* The files that commands write.
LEMMA FileKinds ==
  /\ \A kind : FileOf(kind) \in {"user", "repo"}
  /\ \A kind \in UserCommands : FileOf(kind) = "user"
  /\ "trunk" \in RepoSettings /\ "lastFetchedPRInfoMs" \notin RepoSettings
BY DEF FileOf, RepoSettings

\* The steps of the command c, as the files of settings and its copies see them.
LEMMA WriterSteps ==
  ASSUME FilesTypeInv, NEW c \in Commands, WriterIsReady(c), StaysInitialized, ReadsAndWrites(c)
  PROVE  WriterIsReady(c)' /\ StaysInitialized'
<1> DEFINE p == Command(c)
<1>0. p \in Processes /\ {"user", "repo", "message", "prs"} \subseteq Files
  BY ProcessesAre, FilesAre
<1> DEFINE f == FileOf(world.asked[c])
           Kept == file'.repo = file.repo /\ meant'.holds = meant.holds
<1>1. f \in {"user", "repo"} /\ f \in Files
  BY <1>0, FileKinds
<1>2. Kept => StaysInitialized'
  BY DEF StaysInitialized, GraphiteInitialized
<1>3. at'[p] \in {"off", "done", "initContextLite", "printAndClearOldMessage", "initContext",
                  "refreshPRInfoInBackground", "graphiteHelper", "secondToken"} => WriterIsReady(c)'
  BY DEF WriterIsReady, WritesTo
<1>4. UpgradePrompt(c) # p /\ RefreshPRInfo(c) # p
  BY <1>0, ProcessesAre
<1>5. ASSUME NEW g \in {"user", "repo"}, NEW data \in Data(g), NEW next, Opens(p, g, data, next)
      PROVE  /\ p \in file'[g].open /\ file'[g].torn /\ at'[p] = next /\ mem'[p][g] = data
             /\ \A h \in Files \ {g} : file'[h] = file[h] /\ mem'[p][h] = mem[p][h]
  <2> HIDE DEF p
  <2>1. g \in Files
    BY <1>0
  <2>2. p \in file'[g].open /\ file'[g].torn
    BY <1>0, <1>5, <2>1, OpensTypes
  <2>3. at'[p] = next /\ mem'[p][g] = data
    BY <1>0, <1>5, <2>1 DEF Opens, FilesTypeInv, MemType
  <2>4. \A h \in Files \ {g} : file'[h] = file[h] /\ mem'[p][h] = mem[p][h]
    <3>1. /\ file' = [file EXCEPT ![g] = Emptied(p, g)]
          /\ mem' = [mem EXCEPT ![p][g] = data]
      BY <1>5 DEF Opens
    <3> QED BY <1>0, <3>1 DEF FilesTypeInv, FileType, MemType
  <2> QED BY <2>2, <2>3, <2>4
<1>6. ASSUME NEW q, NEW next, Goes(q, next) PROVE q \in Processes => at'[q] = next
  BY <1>6 DEF Goes, FilesTypeInv
<1>7. Ends(p) => at'[p] = "done"
  BY <1>0, EndsTypes
<1>8. ASSUME NEW g \in {"message", "prs"}, NEW new, file' = [file EXCEPT ![g] = new]
      PROVE  file'.user = file.user /\ file'.repo = file.repo
  BY <1>0, <1>8 DEF FilesTypeInv, FileType
<1> HIDE DEF p, f
<1>11. CASE \E kind \in UserCommands \cup RepoCommands : Invoke(c, kind)
  <2>1. at'[p] = "initContextLite"
    BY <1>0, <1>6, <1>11 DEF Invoke, p
  <2>2. Kept
    BY <1>11 DEF Invoke, FilesTypeInv, MeantType
  <2> QED BY <1>2, <1>3, <2>1, <2>2
<1>12. CASE InitContextLite(c)
  <2>1. at'[p] \in {"printAndClearOldMessage", "done"}
    BY <1>0, <1>6, <1>7, <1>12 DEF InitContextLite, p
  <2>2. Kept
    BY <1>8, <1>12 DEF InitContextLite
  <2> QED BY <1>2, <1>3, <2>1, <2>2
<1>13. CASE PrintAndClearOldMessage(c)
  <2>1. at'[p] = IF world.asked[c] \in UserCommands THEN "handler" ELSE "initContext"
    BY <1>0, <1>4, <1>13 DEF PrintAndClearOldMessage, p, FilesTypeInv
  <2>2. Kept
    BY <1>8, <1>13 DEF PrintAndClearOldMessage, FilesTypeInv, MeantType
  <2>3. world'.asked = world.asked
    BY <1>13, StartedType, ProcessesAre DEF PrintAndClearOldMessage
  <2>4. WriterIsReady(c)'
    BY <1>3, <2>1, <2>3, FileKinds DEF WriterIsReady, WritesTo, p
  <2> QED BY <1>2, <2>2, <2>4
<1>14. CASE InitContext(c)
  <2>1. at'[p] \in {"refreshPRInfoInBackground", "done"}
    BY <1>0, <1>6, <1>7, <1>14 DEF InitContext, p
  <2>2. Kept
    BY <1>8, <1>14 DEF InitContext
  <2> QED BY <1>2, <1>3, <2>1, <2>2
<1>15. CASE RefreshPRInfoInBackground(c)
  <2>1. UNCHANGED <<world, meant>>
    BY <1>15 DEF RefreshPRInfoInBackground
  <2>2. CASE Goes(p, "graphiteHelper") /\ UNCHANGED <<file, mem>>
    BY <1>0, <1>2, <1>3, <1>6, <2>1, <2>2
  <2>3. CASE \E new \in Data("repo") :
               /\ \A field \in RepoSettings : new[field] = mem[p].repo[field]
               /\ IsDue(mem[p].repo) /\ Opens(p, "repo", new, "spawnDetached")
    <3>1. PICK new \in Data("repo") :
               /\ \A field \in RepoSettings : new[field] = mem[p].repo[field]
               /\ IsDue(mem[p].repo) /\ Opens(p, "repo", new, "spawnDetached")
      BY <2>3
    <3>2. p \in file'.repo.open /\ file'.repo.torn /\ at'[p] = "spawnDetached" /\ mem'[p].repo = new
      BY <1>5, <3>1
    <3>3. new["trunk"] > 0
      BY <3>1, FileKinds, FilesAre DEF IsDue, GraphiteInitialized, Unset
    <3>4. StaysInitialized'
      BY <3>2 DEF StaysInitialized
    <3> QED BY <3>2, <3>3, <3>4 DEF WriterIsReady, WritesTo, p
  <2> QED BY <1>15, <2>2, <2>3, RefreshOpens DEF p
<1>16. CASE SpawnDetached(c)
  <2>1. Fills(p, "repo") /\ at'[p] = "graphiteHelper" /\ at[p] = "spawnDetached"
    BY <1>0, <1>4, <1>16 DEF SpawnDetached, FilesTypeInv, p
  <2>2. p \in file.repo.open /\ mem[p].repo["trunk"] > 0
    BY <2>1 DEF WriterIsReady, WritesTo, p
  <2>3. file'.repo.torn \/ file'.repo.holds = mem[p].repo
    BY <1>0, <2>1, <2>2, WriterFills
  <2>4. StaysInitialized'
    BY <2>2, <2>3 DEF StaysInitialized, GraphiteInitialized, Unset
  <2> QED BY <1>3, <2>1, <2>4
<1>17. CASE GraphiteHelper(c)
  <2>1. UNCHANGED <<world, meant>>
    BY <1>17 DEF GraphiteHelper
  <2>2. CASE /\ mem[p].repo["trunk"] # 0 \/ world.asked[c] = "init"
             /\ Goes(p, "handler") /\ UNCHANGED <<file, mem>>
    <3>1. at'[p] = "handler" /\ mem[p].repo \in Data("repo")
      BY <1>0, <1>6, <2>2 DEF FilesTypeInv, MemType
    <3>2. mem[p].repo["trunk"] \in Nat
      BY <3>1, FilesAre, FileKinds
    <3> QED BY <1>2, <2>1, <2>2, <3>1, <3>2 DEF WriterIsReady, WritesTo, p
  <2>3. CASE Ends(p) /\ UNCHANGED file
    BY <1>2, <1>3, <1>7, <2>1, <2>3
  <2>4. CASE \E new \in Data("repo") : new["trunk"] > 0 /\ Opens(p, "repo", new, "setTrunk")
    <3>1. PICK new \in Data("repo") : new["trunk"] > 0 /\ Opens(p, "repo", new, "setTrunk")
      BY <2>4
    <3>2. p \in file'.repo.open /\ file'.repo.torn /\ at'[p] = "setTrunk" /\ mem'[p].repo = new
      BY <1>5, <3>1
    <3>3. StaysInitialized'
      BY <3>2 DEF StaysInitialized
    <3> QED BY <3>1, <3>2, <3>3 DEF WriterIsReady, WritesTo, p
  <2> QED BY <1>17, <2>2, <2>3, <2>4, HelperOpens DEF p
<1>18. CASE SetTrunk(c)
  <2>1. Fills(p, "repo") /\ at'[p] = "handler" /\ at[p] = "setTrunk" /\ UNCHANGED <<mem, world>>
    BY <1>0, <1>6, <1>18 DEF SetTrunk, p
  <2>2. p \in file.repo.open /\ mem[p].repo["trunk"] > 0
    BY <2>1 DEF WriterIsReady, WritesTo, p
  <2>3. file'.repo.torn \/ file'.repo.holds = mem[p].repo
    BY <1>0, <2>1, <2>2, WriterFills
  <2>4. StaysInitialized'
    BY <2>2, <2>3 DEF StaysInitialized, GraphiteInitialized, Unset
  <2> QED BY <2>1, <2>2, <2>4 DEF WriterIsReady, WritesTo, p
<1>19. CASE Handler(c)
  <2>1. UNCHANGED <<world, meant>> /\ at[p] = "handler"
    BY <1>19 DEF Handler, p
  <2>2. CASE Ends(p) /\ UNCHANGED file
    BY <1>2, <1>3, <1>7, <2>1, <2>2
  <2>3. CASE \E new \in Data(f) :
               /\ f = "repo" => /\ new["trunk"] = mem[p][f]["trunk"] \/ new["trunk"] > 0
                                /\ world.asked[c] = "init" => new["trunk"] > 0
               /\ Opens(p, f, new, "update")
    <3>1. PICK new \in Data(f) :
               /\ f = "repo" => /\ new["trunk"] = mem[p][f]["trunk"] \/ new["trunk"] > 0
                                /\ world.asked[c] = "init" => new["trunk"] > 0
               /\ Opens(p, f, new, "update")
      BY <2>3
    <3>2. /\ p \in file'[f].open /\ file'[f].torn /\ at'[p] = "update" /\ mem'[p][f] = new
          /\ \A h \in Files \ {f} : file'[h] = file[h]
      BY <1>1, <1>5, <3>1
    <3>3. CASE f = "user"
      <4>1. StaysInitialized'
        BY <1>0, <1>2, <2>1, <3>2, <3>3
      <4>2. FileOf(world'.asked[c]) = "user"
        BY <2>1, <3>3 DEF f
      <4> QED BY <3>2, <3>3, <4>1, <4>2 DEF WriterIsReady, WritesTo, p
    <3>4. CASE f = "repo"
      <4>1. StaysInitialized'
        BY <3>2, <3>4 DEF StaysInitialized
      <4>2. FileOf(world'.asked[c]) = "repo"
        BY <2>1, <3>4 DEF f
      <4>3. mem'[p].repo["trunk"] > 0
        BY <2>1, <3>1, <3>2, <3>4 DEF WriterIsReady, p, f
      <4> QED BY <3>2, <3>4, <4>1, <4>2, <4>3 DEF WriterIsReady, WritesTo, p
    <3> QED BY <1>1, <3>3, <3>4
  <2> QED BY <1>19, <2>2, <2>3, HandlerOpens DEF p, f
<1>20. CASE Update(c)
  <2>1. /\ Fills(p, f) /\ Saved(f, mem[p][f]) /\ at[p] = "update"
        /\ at'[p] \in {"secondToken", "done"}
    BY <1>0, <1>6, <1>7, <1>20 DEF Update, p, f
  <2>2. p \in file[f].open /\ (f = "repo" => mem[p].repo["trunk"] > 0)
    BY <1>1, <2>1 DEF WriterIsReady, WritesTo, p, f
  <2>3. /\ file'[f].torn \/ file'[f].holds = mem[p][f]
        /\ \A g \in Files \ {f} : file'[g] = file[g]
    BY <1>0, <1>1, <2>1, <2>2, WriterFills
  <2>4. /\ \A g \in Files \ {f} : meant'.holds[g] = meant.holds[g]
    BY <1>1, <2>1 DEF Saved, FilesTypeInv, MeantType
  <2>5. StaysInitialized'
    <3>1. CASE f = "user"
      BY <1>0, <2>3, <2>4, <3>1 DEF StaysInitialized, GraphiteInitialized
    <3>2. CASE f = "repo"
      BY <2>2, <2>3, <3>2 DEF StaysInitialized, GraphiteInitialized, Unset
    <3> QED BY <1>1, <3>1, <3>2
  <2> QED BY <1>3, <2>1, <2>5
<1>21. CASE SecondToken(c)
  <2>1. PICK data \in Data("user") : Opens(p, "user", data, "updateSecond")
    BY <1>21, SecondOpens DEF p
  <2>2. /\ p \in file'.user.open /\ at'[p] = "updateSecond" /\ file'.repo = file.repo
    BY <1>0, <1>5, <2>1
  <2>3. UNCHANGED meant
    BY <1>21 DEF SecondToken
  <2> QED BY <1>2, <2>2, <2>3 DEF WriterIsReady, WritesTo, p
<1>22. CASE UpdateSecond(c)
  <2>1. Fills(p, "user") /\ Saved("user", mem[p].user) /\ at'[p] = "done" /\ at[p] = "updateSecond"
    BY <1>0, <1>7, <1>22 DEF UpdateSecond, p
  <2>2. file'.repo = file.repo
    BY <1>0, <2>1, FillsTypes
  <2>3. meant'.holds.repo = meant.holds.repo
    BY <1>0, <2>1 DEF Saved, FilesTypeInv, MeantType
  <2>4. StaysInitialized'
    BY <2>2, <2>3 DEF StaysInitialized, GraphiteInitialized
  <2> QED BY <1>3, <2>1, <2>4
<1> QED BY <1>11, <1>12, <1>13, <1>14, <1>15, <1>16, <1>17, <1>18, <1>19, <1>20, <1>21, <1>22
        DEF ReadsAndWrites

\* A command whose copy is right, alone with the files, leaves them right.
LEMMA CopySteps ==
  ASSUME FilesTypeInv, NEW c \in Commands, WriterIsReady(c), CopyIsRight(c), FilesAreRight, ReadsAndWrites(c)
  PROVE  FilesAreRight' /\ CopyIsRight(c)'
<1> DEFINE p == Command(c)
<1>0. p \in Processes /\ {"user", "repo", "message", "prs"} \subseteq Files
  BY ProcessesAre, FilesAre
<1> DEFINE f == FileOf(world.asked[c])
           MeantKept == meant'.holds = meant.holds /\ meant'.refreshes = meant.refreshes
           Kept == file'.user = file.user /\ file'.repo = file.repo /\ MeantKept
<1>1. f \in {"user", "repo"} /\ f \in Files
  BY <1>0, FileKinds
<1>2. Kept => FilesAreRight'
  BY DEF FilesAreRight, IsAsMeant, IsUpToDate
<1>3. at'[p] \in {"off", "done", "initContextLite", "printAndClearOldMessage", "initContext",
                  "secondToken", "updateSecond"} => CopyIsRight(c)'
  BY DEF CopyIsRight, HasRepo
<1>4. UpgradePrompt(c) # p /\ RefreshPRInfo(c) # p
  BY <1>0, ProcessesAre
<1>5. ASSUME NEW g \in {"user", "repo"}, NEW data \in Data(g), NEW next, Opens(p, g, data, next)
      PROVE  /\ file'[g].torn /\ at'[p] = next /\ mem'[p][g] = data
             /\ \A h \in Files \ {g} : file'[h] = file[h] /\ mem'[p][h] = mem[p][h]
  <2> HIDE DEF p
  <2>1. /\ file' = [file EXCEPT ![g] = Emptied(p, g)]
        /\ mem' = [mem EXCEPT ![p][g] = data]
        /\ at' = [at EXCEPT ![p] = next]
    BY <1>5 DEF Opens
  <2>2. file'[g].torn /\ at'[p] = next /\ mem'[p][g] = data
    BY <1>0, <2>1 DEF FilesTypeInv, FileType, MemType, Emptied
  <2>3. \A h \in Files \ {g} : file'[h] = file[h] /\ mem'[p][h] = mem[p][h]
    BY <1>0, <2>1 DEF FilesTypeInv, FileType, MemType
  <2> QED BY <2>2, <2>3
<1>6. ASSUME NEW q, NEW next, Goes(q, next) PROVE q \in Processes => at'[q] = next
  BY <1>6 DEF Goes, FilesTypeInv
<1>7. Ends(p) => at'[p] = "done"
  BY <1>0, EndsTypes
<1>8. ASSUME NEW g \in {"message", "prs"}, NEW new, file' = [file EXCEPT ![g] = new]
      PROVE  file'.user = file.user /\ file'.repo = file.repo
  BY <1>0, <1>8 DEF FilesTypeInv, FileType
<1> HIDE DEF p, f
<1>9. /\ \A m \in 1..MaxMinutes : m \in Nat /\ meant.refreshes[m] \in Nat
      /\ \A d \in Data("repo") : d["lastFetchedPRInfoMs"] \in Nat
      /\ file.repo.holds \in Data("repo") /\ mem[p].repo \in Data("repo") /\ world.minute \in 1..MaxMinutes
  <2>1. \A m \in 1..MaxMinutes : m \in Nat /\ meant.refreshes[m] \in Nat
    BY BoundsAreNumbers DEF FilesTypeInv, MeantType
  <2>2. \A d \in Data("repo") : d["lastFetchedPRInfoMs"] \in Nat
    BY <1>0, FilesAre
  <2>3. file.repo.holds \in Data("repo") /\ mem[p].repo \in Data("repo")
    BY <1>0 DEF FilesTypeInv, FileType, MemType
  <2>4. world.minute \in 1..MaxMinutes
    BY DEF FilesTypeInv, WorldType
  <2> QED BY <2>1, <2>2, <2>3, <2>4
<1>11. CASE \E kind \in UserCommands \cup RepoCommands : Invoke(c, kind)
  <2>1. at'[p] = "initContextLite"
    BY <1>0, <1>6, <1>11 DEF Invoke, p
  <2>2. Kept
    BY <1>11 DEF Invoke, FilesTypeInv, MeantType
  <2> QED BY <1>2, <1>3, <2>1, <2>2
<1>12. CASE InitContextLite(c)
  <2>1. at'[p] \in {"printAndClearOldMessage", "done"}
    BY <1>0, <1>6, <1>7, <1>12 DEF InitContextLite, p
  <2>2. Kept
    BY <1>8, <1>12 DEF InitContextLite
  <2> QED BY <1>2, <1>3, <2>1, <2>2
<1>13. CASE PrintAndClearOldMessage(c)
  <2>1. at'[p] = IF world.asked[c] \in UserCommands THEN "handler" ELSE "initContext"
    BY <1>0, <1>4, <1>13 DEF PrintAndClearOldMessage, p, FilesTypeInv
  <2>2. Kept
    BY <1>8, <1>13 DEF PrintAndClearOldMessage, FilesTypeInv, MeantType
  <2>3. world'.asked = world.asked
    BY <1>13, StartedType, ProcessesAre DEF PrintAndClearOldMessage
  <2>4. CopyIsRight(c)'
    BY <1>3, <2>1, <2>3, FileKinds DEF CopyIsRight, HasRepo, p
  <2> QED BY <1>2, <2>2, <2>4
<1>14. CASE InitContext(c)
  <2>1. Kept
    BY <1>8, <1>14 DEF InitContext
  <2>2. CASE Loads("repo")
    <3>1. at'[p] = "refreshPRInfoInBackground" /\ mem'[p].repo = file.repo.holds
      BY <1>0, <1>6, <1>14, <2>2 DEF InitContext, p, Loaded, FilesTypeInv, MemType
    <3>2. ~file.repo.torn
      BY <2>2 DEF Loads, RemoveIfEmpty
    <3> QED BY <1>2, <2>1, <3>1, <3>2 DEF FilesAreRight, CopyIsRight, IsAsMeant, IsUpToDate, p
  <2>3. CASE ~Loads("repo")
    BY <1>2, <1>3, <1>7, <1>14, <2>1, <2>3 DEF InitContext, p
  <2> QED BY <2>2, <2>3
<1>15. CASE RefreshPRInfoInBackground(c)
  <2>1. UNCHANGED <<world, meant>> /\ at[p] = "refreshPRInfoInBackground"
    BY <1>15 DEF RefreshPRInfoInBackground, p
  <2>2. IsUpToDate(mem[p].repo) /\ IsAsMeant(mem[p].repo)
    BY <2>1 DEF CopyIsRight, HasRepo, p
  <2>3. CASE Goes(p, "graphiteHelper") /\ UNCHANGED <<file, mem>>
    <3>1. at'[p] = "graphiteHelper"
      BY <1>0, <1>6, <2>3
    <3> QED BY <1>2, <2>1, <2>2, <2>3, <3>1 DEF CopyIsRight, IsUpToDate, p
  <2>4. CASE \E new \in Data("repo") :
               /\ IsDue(mem[p].repo) /\ new["lastFetchedPRInfoMs"] = world.minute
               /\ \A field \in RepoSettings : new[field] = mem[p].repo[field]
               /\ Opens(p, "repo", new, "spawnDetached")
    <3>1. PICK new \in Data("repo") :
               /\ IsDue(mem[p].repo) /\ new["lastFetchedPRInfoMs"] = world.minute
               /\ \A field \in RepoSettings : new[field] = mem[p].repo[field]
               /\ Opens(p, "repo", new, "spawnDetached")
      BY <2>4
    <3>2. file'.repo.torn /\ at'[p] = "spawnDetached" /\ mem'[p].repo = new
      BY <1>5, <3>1
    <3>3. file'.user = file.user
      BY <1>0, <1>5, <3>1
    <3>4. FilesAreRight'
      BY <2>1, <3>2, <3>3 DEF FilesAreRight
    <3>5. mem[p].repo["lastFetchedPRInfoMs"] < new["lastFetchedPRInfoMs"]
      BY <3>1 DEF IsDue
    <3>6. \A m \in 1..MaxMinutes : meant.refreshes[m] # 0 => m < new["lastFetchedPRInfoMs"]
      BY <1>9, <2>2, <3>1, <3>5 DEF IsUpToDate
    <3>7. IsAsMeant(new)
      BY <2>2, <3>1 DEF IsAsMeant
    <3>8. CopyIsRight(c)'
      BY <1>9, <2>1, <3>1, <3>2, <3>6, <3>7 DEF CopyIsRight, HasRepo, IsAsMeant, p
    <3> QED BY <3>4, <3>8
  <2> QED BY <1>15, <2>3, <2>4, RefreshOpens DEF p
<1>16. CASE SpawnDetached(c)
  <2> DEFINE k == mem[p].repo["lastFetchedPRInfoMs"]
  <2>1. Fills(p, "repo") /\ at'[p] = "graphiteHelper" /\ at[p] = "spawnDetached" /\ UNCHANGED mem
    BY <1>0, <1>4, <1>16 DEF SpawnDetached, FilesTypeInv, p
  <2>2. /\ k \in 1..MaxMinutes /\ meant.refreshes[k] = 0 /\ IsAsMeant(mem[p].repo)
        /\ \A m \in 1..MaxMinutes : meant.refreshes[m] # 0 => m < k
    BY <1>9, <2>1 DEF CopyIsRight, p
  <2> HIDE DEF k
  <2>3. p \in file.repo.open
    BY <2>1 DEF WriterIsReady, WritesTo, p
  <2>4. file'.repo.torn \/ file'.repo.holds = mem[p].repo
    BY <1>0, <2>1, <2>3, WriterFills
  <2>5. file'.user = file.user
    BY <1>0, <2>1, <2>3, WriterFills
  <2>6. meant' = [meant EXCEPT !.refreshes[k] = @ + 1]
    BY <1>16 DEF SpawnDetached, k, p
  <2>7. /\ meant'.holds = meant.holds
        /\ \A m \in 1..MaxMinutes : meant'.refreshes[m] = IF m = k THEN 1 ELSE meant.refreshes[m]
    <3> DEFINE counts == [meant.refreshes EXCEPT ![k] = @ + 1]
    <3>1. meant' = [meant EXCEPT !.refreshes = counts]
      BY <2>6
    <3>2. counts[k] = meant.refreshes[k] + 1 /\ \A m \in 1..MaxMinutes \ {k} : counts[m] = meant.refreshes[m]
      BY <2>2 DEF FilesTypeInv, MeantType
    <3> HIDE DEF counts
    <3>3. meant'.holds = meant.holds /\ meant'.refreshes = counts
      BY <3>1 DEF FilesTypeInv, MeantType
    <3> QED BY <2>2, <3>2, <3>3
  <2>8. \A m \in 1..MaxMinutes : meant'.refreshes[m] # 0 => m <= k
    BY <1>9, <2>2, <2>7
  <2>9. \A m \in 1..MaxMinutes : meant'.refreshes[m] <= 1
    BY <2>7 DEF FilesAreRight
  <2>10. FilesAreRight'
    BY <2>2, <2>4, <2>5, <2>7, <2>8, <2>9 DEF FilesAreRight, IsAsMeant, IsUpToDate, k
  <2>11. CopyIsRight(c)'
    BY <2>1, <2>8 DEF CopyIsRight, IsUpToDate, k, p
  <2> QED BY <2>10, <2>11
<1>17. CASE GraphiteHelper(c)
  <2>1. UNCHANGED <<world, meant>> /\ at[p] = "graphiteHelper"
    BY <1>17 DEF GraphiteHelper, p
  <2>2. IsUpToDate(mem[p].repo)
    BY <2>1 DEF CopyIsRight, HasRepo, p
  <2>3. CASE Goes(p, "handler") /\ UNCHANGED <<file, mem>>
    <3>1. at'[p] = "handler"
      BY <1>0, <1>6, <2>3
    <3> QED BY <1>2, <2>1, <2>2, <2>3, <3>1 DEF CopyIsRight, IsUpToDate, p
  <2>4. CASE Ends(p) /\ UNCHANGED file
    BY <1>2, <1>3, <1>7, <2>1, <2>4
  <2>5. CASE \E new \in Data("repo") :
               /\ new["lastFetchedPRInfoMs"] = mem[p].repo["lastFetchedPRInfoMs"]
               /\ Opens(p, "repo", new, "setTrunk")
    <3>1. PICK new \in Data("repo") :
               /\ new["lastFetchedPRInfoMs"] = mem[p].repo["lastFetchedPRInfoMs"]
               /\ Opens(p, "repo", new, "setTrunk")
      BY <2>5
    <3>2. file'.repo.torn /\ at'[p] = "setTrunk" /\ mem'[p].repo = new
      BY <1>5, <3>1
    <3>3. file'.user = file.user
      BY <1>0, <1>5, <3>1
    <3>4. FilesAreRight'
      BY <2>1, <3>2, <3>3 DEF FilesAreRight
    <3> QED BY <2>1, <2>2, <3>1, <3>2, <3>4 DEF CopyIsRight, IsUpToDate, p
  <2> QED BY <1>17, <2>3, <2>4, <2>5, HelperOpens DEF p
<1>18. CASE SetTrunk(c)
  <2>1. /\ Fills(p, "repo") /\ at'[p] = "handler" /\ at[p] = "setTrunk" /\ UNCHANGED <<mem, world>>
        /\ Saved("repo", mem[p].repo)
    BY <1>0, <1>6, <1>18 DEF SetTrunk, p
  <2>2. p \in file.repo.open /\ IsUpToDate(mem[p].repo)
    BY <2>1 DEF WriterIsReady, WritesTo, CopyIsRight, HasRepo, p
  <2>3. file'.repo.torn \/ file'.repo.holds = mem[p].repo
    BY <1>0, <2>1, <2>2, WriterFills
  <2>4. file'.user = file.user
    BY <1>0, <2>1, <2>2, WriterFills
  <2>5. /\ meant'.holds.repo = mem[p].repo /\ meant'.holds.user = meant.holds.user
        /\ meant'.refreshes = meant.refreshes
    BY <1>0, <2>1 DEF Saved, FilesTypeInv, MeantType
  <2>6. FilesAreRight'
    BY <2>2, <2>3, <2>4, <2>5 DEF FilesAreRight, IsAsMeant, IsUpToDate
  <2> QED BY <2>1, <2>2, <2>5, <2>6 DEF CopyIsRight, IsUpToDate, p
<1>19. CASE Handler(c)
  <2>1. UNCHANGED <<world, meant>> /\ at[p] = "handler"
    BY <1>19 DEF Handler, p
  <2>2. CASE Ends(p) /\ UNCHANGED file
    BY <1>2, <1>3, <1>7, <2>1, <2>2
  <2>3. CASE \E new \in Data(f) :
               /\ f = "repo" => new["lastFetchedPRInfoMs"] = mem[p][f]["lastFetchedPRInfoMs"]
               /\ Opens(p, f, new, "update")
    <3>1. PICK new \in Data(f) :
               /\ f = "repo" => new["lastFetchedPRInfoMs"] = mem[p][f]["lastFetchedPRInfoMs"]
               /\ Opens(p, f, new, "update")
      BY <2>3
    <3>2. /\ file'[f].torn /\ at'[p] = "update" /\ mem'[p][f] = new
          /\ \A h \in Files \ {f} : file'[h] = file[h]
      BY <1>1, <1>5, <3>1
    <3>3. CASE f = "user"
      <4>1. FilesAreRight'
        BY <1>0, <2>1, <3>2, <3>3 DEF FilesAreRight, IsAsMeant, IsUpToDate
      <4>2. FileOf(world'.asked[c]) = "user"
        BY <2>1, <3>3 DEF f
      <4> QED BY <3>2, <4>1, <4>2 DEF CopyIsRight, HasRepo, p
    <3>4. CASE f = "repo"
      <4>1. FilesAreRight'
        BY <1>0, <2>1, <3>2, <3>4 DEF FilesAreRight
      <4>2. IsUpToDate(mem[p].repo)
        BY <2>1, <3>4 DEF CopyIsRight, HasRepo, p, f
      <4> QED BY <2>1, <3>1, <3>2, <3>4, <4>1, <4>2 DEF CopyIsRight, IsUpToDate, p
    <3> QED BY <1>1, <3>3, <3>4
  <2> QED BY <1>19, <2>2, <2>3, HandlerOpens DEF p, f
<1>20. CASE Update(c)
  <2>1. /\ Fills(p, f) /\ Saved(f, mem[p][f]) /\ at[p] = "update"
        /\ at'[p] \in {"secondToken", "done"}
    BY <1>0, <1>6, <1>7, <1>20 DEF Update, p, f
  <2>2. p \in file[f].open
    BY <1>1, <2>1 DEF WriterIsReady, WritesTo, p, f
  <2>3. /\ file'[f].torn \/ file'[f].holds = mem[p][f]
        /\ \A g \in Files \ {f} : file'[g] = file[g]
    BY <1>0, <1>1, <2>1, <2>2, WriterFills
  <2>4. /\ \A g \in Files \ {f} : meant'.holds[g] = meant.holds[g]
        /\ meant'.holds[f] = mem[p][f] /\ meant'.refreshes = meant.refreshes
    BY <1>1, <2>1 DEF Saved, FilesTypeInv, MeantType
  <2>5. FilesAreRight'
    <3>1. CASE f = "user"
      BY <1>0, <2>3, <2>4, <3>1 DEF FilesAreRight, IsAsMeant, IsUpToDate
    <3>2. CASE f = "repo"
      <4>1. IsUpToDate(mem[p].repo)
        BY <2>1, <3>2 DEF CopyIsRight, HasRepo, p, f
      <4> QED BY <1>0, <2>3, <2>4, <3>2, <4>1 DEF FilesAreRight, IsAsMeant, IsUpToDate
    <3> QED BY <1>1, <3>1, <3>2
  <2> QED BY <1>3, <2>1, <2>5
<1>21. CASE SecondToken(c)
  <2>1. PICK data \in Data("user") : Opens(p, "user", data, "updateSecond")
    BY <1>21, SecondOpens DEF p
  <2>2. file'.user.torn /\ at'[p] = "updateSecond" /\ file'.repo = file.repo
    BY <1>0, <1>5, <2>1
  <2>3. UNCHANGED meant
    BY <1>21 DEF SecondToken
  <2> QED BY <1>3, <2>2, <2>3 DEF FilesAreRight, IsAsMeant, IsUpToDate
<1>22. CASE UpdateSecond(c)
  <2>1. Fills(p, "user") /\ Saved("user", mem[p].user) /\ at'[p] = "done" /\ at[p] = "updateSecond"
    BY <1>0, <1>7, <1>22 DEF UpdateSecond, p
  <2>2. p \in file.user.open
    BY <2>1 DEF WriterIsReady, WritesTo, p
  <2>3. file'.user.torn \/ file'.user.holds = mem[p].user
    BY <1>0, <2>1, <2>2, WriterFills
  <2>4. file'.repo = file.repo
    BY <1>0, <2>1, <2>2, WriterFills
  <2>5. /\ meant'.holds.user = mem[p].user /\ meant'.holds.repo = meant.holds.repo
        /\ meant'.refreshes = meant.refreshes
    BY <1>0, <2>1 DEF Saved, FilesTypeInv, MeantType
  <2> QED BY <1>3, <2>1, <2>3, <2>4, <2>5 DEF FilesAreRight, IsAsMeant, IsUpToDate
<1> QED BY <1>11, <1>12, <1>13, <1>14, <1>15, <1>16, <1>17, <1>18, <1>19, <1>20, <1>21, <1>22
        DEF ReadsAndWrites

\* The tasks, the signals and the clock leave the settings and the commands
\* alone, but for the command that is killed.
LEMMA OtherSteps ==
  ASSUME FilesTypeInv,
         \/ \E c \in Commands : Tasks(c)
         \/ \E p \in Processes : Kill(p)
         \/ Minute \/ Release \/ Install \/ UNCHANGED fileVars
  PROVE  /\ file'.user = file.user /\ file'.repo = file.repo /\ meant' = meant
         /\ world'.asked = world.asked
         /\ \A d \in Commands :
              \/ at'[Command(d)] = at[Command(d)] /\ mem'[Command(d)] = mem[Command(d)]
              \/ at'[Command(d)] = "done"
<1> DEFINE Same(q) == (at'[q] = at[q] /\ mem'[q] = mem[q]) \/ at'[q] = "done"
           Left == file'.user = file.user /\ file'.repo = file.repo
<1>0. {"user", "repo", "message", "prs"} \subseteq Files /\ \A d \in Commands : Command(d) \in Processes
  BY FilesAre, ProcessesAre
<1>1. ASSUME NEW p \in Processes, Ends(p), NEW q \in Processes PROVE Same(q)
  <2>1. CASE q = p
    BY <1>1, <2>1, EndsTypes
  <2>2. CASE q # p
    BY <1>1, <2>2, EndsTypes
  <2> QED BY <2>1, <2>2
<1>2. UNCHANGED file => Left
  OBVIOUS
<1>3. ASSUME NEW f \in {"message", "prs"}, NEW new, file' = [file EXCEPT ![f] = new] PROVE Left
  BY <1>0, <1>3 DEF FilesTypeInv, FileType
<1>4. ASSUME NEW p \in Processes, NEW next, Goes(p, next), NEW q \in Processes \ {p} PROVE at'[q] = at[q]
  BY <1>4 DEF Goes, FilesTypeInv
<1>5. ASSUME NEW p \in Processes, NEW f \in {"message", "prs"}, NEW data, NEW next, Opens(p, f, data, next)
      PROVE  Left /\ \A q \in Processes \ {p} : Same(q)
  <2>1. /\ file' = [file EXCEPT ![f] = Emptied(p, f)]
        /\ mem' = [mem EXCEPT ![p][f] = data]
        /\ at' = [at EXCEPT ![p] = next]
    BY <1>5 DEF Opens
  <2>2. Left
    BY <1>3, <2>1
  <2> QED BY <2>1, <2>2 DEF FilesTypeInv, MemType
<1>6. ASSUME NEW p \in Processes, NEW f \in {"message", "prs"}, Fills(p, f) PROVE Left
  BY <1>3, <1>6 DEF Fills
<1> HIDE DEF Left, Same
<1>7. ASSUME NEW c \in Commands, Tasks(c)
      PROVE  Left /\ meant' = meant /\ world' = world /\ \A d \in Commands : Same(Command(d))
  <2> DEFINE u == UpgradePrompt(c)
             r == RefreshPRInfo(c)
  <2>1. /\ u \in Processes /\ r \in Processes
        /\ \A d \in Commands : Command(d) \in Processes \ {u, r}
    BY ProcessesAre
  <2>2. UNCHANGED <<world, meant>>
    BY <1>7 DEF Tasks, FetchUpgradePrompt, RegistryAnswers, Compare, SetMessage, RefreshPRInfoTask,
                GetPrInfoForBranches, SetPrInfo
  <2> DEFINE SameCommands == \A d \in Commands : Same(Command(d))
  <2> HIDE DEF u, r
  <2>3. ASSUME NEW p \in {u, r}, NEW next, Goes(p, next), UNCHANGED mem PROVE SameCommands
    BY <1>4, <2>1, <2>3 DEF Same
  <2>4. Ends(u) \/ Ends(r) => SameCommands
    BY <1>1, <2>1
  <2>5. ASSUME NEW p \in {u, r}, NEW next, Goes(p, next), NEW copy, mem' = [mem EXCEPT ![p] = copy]
        PROVE  SameCommands
    <3>1. \A d \in Commands : mem'[Command(d)] = mem[Command(d)]
      BY <2>1, <2>5 DEF FilesTypeInv, MemType
    <3> QED BY <1>4, <2>1, <2>5, <3>1 DEF Same
  <2>6. ASSUME NEW p \in {u, r}, NEW f \in {"message", "prs"}, NEW data, NEW next, Opens(p, f, data, next)
        PROVE  Left /\ SameCommands
    BY <1>5, <2>1, <2>6
  <2> SUFFICES Left /\ SameCommands
    BY <2>2
  <2> HIDE DEF SameCommands
  <2>7. CASE FetchUpgradePrompt(c)
    BY <1>3, <2>3, <2>7 DEF FetchUpgradePrompt, u
  <2>8. CASE RegistryAnswers(c)
    <3>1. UNCHANGED file
      BY <2>8 DEF RegistryAnswers
    <3>2. \/ Ends(u)
          \/ Goes(u, "compare") /\ \E copy : mem' = [mem EXCEPT ![u] = copy]
      BY <2>8 DEF RegistryAnswers, u
    <3>3. SameCommands
      BY <2>4, <2>5, <3>2
    <3> QED BY <1>2, <3>1, <3>3
  <2>9. CASE Compare(c)
    <3>1. \/ \E data : Opens(u, "message", data, "setMessage")
          \/ file' = [file EXCEPT !.message = Removed("message")] /\ Ends(u)
      BY <2>9 DEF Compare, u
    <3> QED BY <1>3, <2>4, <2>6, <3>1
  <2>10. CASE SetMessage(c)
    BY <1>6, <2>1, <2>4, <2>10 DEF SetMessage, u
  <2>11. CASE RefreshPRInfoTask(c)
    <3>1. \/ Ends(r)
          \/ Goes(r, "getPrInfoForBranches") /\ \E copy : mem' = [mem EXCEPT ![r] = copy]
      BY <2>11 DEF RefreshPRInfoTask, r
    <3>2. SameCommands
      BY <2>4, <2>5, <3>1
    <3>3. \E new : file' = [file EXCEPT !.prs = new]
      BY <2>11 DEF RefreshPRInfoTask
    <3> QED BY <1>3, <3>2, <3>3
  <2>12. CASE GetPrInfoForBranches(c)
    <3>1. \/ \E data : Opens(r, "prs", data, "setPrInfo")
          \/ file' = [file EXCEPT !.prs = Removed("prs")] /\ Ends(r)
      BY <2>12 DEF GetPrInfoForBranches, r
    <3> QED BY <1>3, <2>4, <2>6, <3>1
  <2>13. CASE SetPrInfo(c)
    BY <1>6, <2>1, <2>4, <2>13 DEF SetPrInfo, r
  <2> QED BY <1>7, <2>2, <2>7, <2>8, <2>9, <2>10, <2>11, <2>12, <2>13 DEF Tasks
<1>8. ASSUME NEW p \in Processes, Kill(p)
      PROVE  Left /\ meant' = meant /\ world' = world /\ \A d \in Commands : Same(Command(d))
  BY <1>0, <1>1, <1>2, <1>8 DEF Kill
<1>9. CASE Minute \/ Release \/ Install \/ UNCHANGED fileVars
  <2>1. UNCHANGED <<file, at, mem, meant>>
    BY <1>9 DEF Minute, Release, Install, fileVars
  <2>2. world'.asked = world.asked
    BY <1>9 DEF Minute, Release, Install, fileVars, FilesTypeInv, WorldType
  <2> QED BY <2>1, <2>2
<1> QED BY <1>7, <1>8, <1>9 DEF Same, Left

----------------------------------------------------------------------------
\* Every step keeps the writers ready.
LEMMA WritersAreKept ==
  ASSUME FilesTypeInv, WritersInv, [FilesNext]_fileVars
  PROVE  WritersInv'
<1>1. ASSUME NEW c \in Commands, ReadsAndWrites(c) PROVE WritersInv'
  <2>1. WriterIsReady(c)' /\ StaysInitialized'
    BY <1>1, WriterSteps DEF WritersInv
  <2>2. ASSUME NEW d \in Commands \ {c} PROVE WriterIsReady(d)'
    BY <1>1, <2>2, OthersStay DEF WritersInv, WriterIsReady, WritesTo, Stays
  <2> QED BY <2>1, <2>2 DEF WritersInv
<1>2. CASE \/ \E c \in Commands : Tasks(c)
           \/ \E p \in Processes : Kill(p)
           \/ Minute \/ Release \/ Install \/ UNCHANGED fileVars
  <2>1. /\ file'.user = file.user /\ file'.repo = file.repo /\ meant' = meant
        /\ world'.asked = world.asked
    BY <1>2, OtherSteps
  <2>2. ASSUME NEW d \in Commands PROVE WriterIsReady(d)'
    <3>1. CASE at'[Command(d)] = at[Command(d)] /\ mem'[Command(d)] = mem[Command(d)]
      BY <2>1, <3>1 DEF WritersInv, WriterIsReady, WritesTo
    <3>2. CASE at'[Command(d)] = "done"
      BY <3>2 DEF WriterIsReady, WritesTo
    <3> QED BY <1>2, <3>1, <3>2, OtherSteps
  <2> QED BY <2>1, <2>2 DEF WritersInv, StaysInitialized
<1> QED BY <1>1, <1>2 DEF FilesNext, ReadsAndWrites, Tasks

\* A command that takes a step was running, or starts when no other does.
LEMMA OnlyOneRuns ==
  ASSUME FilesTypeInv, InStepInv, ~meant'.overlapped, NEW c \in Commands, ReadsAndWrites(c)
  PROVE  ~meant.overlapped /\ \A d \in Commands \ {c} : ~Running(Command(d)) /\ ~Running(Command(d))'
<1>1. ~meant.overlapped
  BY DEF ReadsAndWrites, FilesTypeInv, MeantType, Invoke, InitContextLite, PrintAndClearOldMessage,
         InitContext, RefreshPRInfoInBackground, SpawnDetached, GraphiteHelper, SetTrunk, Handler, Update,
         SecondToken, UpdateSecond, Saved
<1>2. ASSUME NEW d \in Commands \ {c} PROVE ~Running(Command(d))
  <2>1. CASE \E kind \in UserCommands \cup RepoCommands : Invoke(c, kind)
    BY <1>1, <2>1 DEF Invoke, FilesTypeInv, MeantType
  <2>2. CASE ~\E kind \in UserCommands \cup RepoCommands : Invoke(c, kind)
    <3>1. Running(Command(c))
      BY <2>2 DEF ReadsAndWrites, Running, InitContextLite, PrintAndClearOldMessage,
         InitContext, RefreshPRInfoInBackground, SpawnDetached, GraphiteHelper, SetTrunk, Handler, Update,
         SecondToken, UpdateSecond
    <3> QED BY <1>1, <3>1 DEF InStepInv, Alone
  <2> QED BY <2>1, <2>2
<1>3. ASSUME NEW d \in Commands \ {c} PROVE ~Running(Command(d))'
  BY <1>2, OthersStay DEF Stays, Running
<1> QED BY <1>1, <1>2, <1>3

\* Every step keeps the files and the copies in step, while commands do not overlap.
LEMMA InStepIsKept ==
  ASSUME FilesTypeInv, WritersInv, InStepInv, [FilesNext]_fileVars
  PROVE  InStepInv'
<1> SUFFICES ASSUME ~meant'.overlapped
             PROVE  Alone' /\ FilesAreRight' /\ \A d \in Commands : CopyIsRight(d)'
  BY DEF InStepInv
<1>1. ASSUME NEW d \in Commands, ~Running(Command(d))' PROVE CopyIsRight(d)'
  BY <1>1 DEF Running, CopyIsRight, HasRepo
<1>2. ASSUME NEW c \in Commands, ReadsAndWrites(c)
      PROVE  Alone' /\ FilesAreRight' /\ \A d \in Commands : CopyIsRight(d)'
  <2>1. ~meant.overlapped /\ \A d \in Commands \ {c} : ~Running(Command(d))'
    BY <1>2, OnlyOneRuns
  <2>2. FilesAreRight' /\ CopyIsRight(c)'
    BY <1>2, <2>1, CopySteps DEF WritersInv, InStepInv
  <2>3. \A d \in Commands \ {c} : CopyIsRight(d)'
    BY <1>1, <2>1
  <2>4. Alone'
    BY <2>1 DEF Alone
  <2> QED BY <2>2, <2>3, <2>4
<1>3. CASE \/ \E c \in Commands : Tasks(c)
           \/ \E p \in Processes : Kill(p)
           \/ Minute \/ Release \/ Install \/ UNCHANGED fileVars
  <2>1. /\ file'.user = file.user /\ file'.repo = file.repo /\ meant' = meant
        /\ world'.asked = world.asked
    BY <1>3, OtherSteps
  <2>2. Alone /\ FilesAreRight /\ \A d \in Commands : CopyIsRight(d)
    BY <2>1 DEF InStepInv
  <2>3. ASSUME NEW d \in Commands
        PROVE  CopyIsRight(d)' /\ (Running(Command(d))' => Running(Command(d)))
    <3>1. CASE at'[Command(d)] = at[Command(d)] /\ mem'[Command(d)] = mem[Command(d)]
      <4>1. CopyIsRight(d)
        BY <2>2
      <4>2. CopyIsRight(d)'
        BY <2>1, <3>1, <4>1 DEF CopyIsRight, HasRepo, IsUpToDate, IsAsMeant
      <4> QED BY <3>1, <4>2 DEF Running
    <3>2. CASE at'[Command(d)] = "done"
      BY <1>1, <3>2 DEF Running
    <3> QED BY <1>3, <3>1, <3>2, OtherSteps
  <2>4. Alone'
    BY <2>2, <2>3 DEF Alone
  <2>5. FilesAreRight'
    BY <2>1, <2>2 DEF FilesAreRight, IsAsMeant, IsUpToDate
  <2> QED BY <2>3, <2>4, <2>5
<1> QED BY <1>2, <1>3 DEF FilesNext, ReadsAndWrites, Tasks

\* The invariant holds in the beginning.
LEMMA SettingsInit == FilesInit => SettingsInv
<1> SUFFICES ASSUME FilesInit PROVE SettingsInv
  OBVIOUS
<1>0. {"user", "repo", "message", "prs"} = Files /\ \A c \in Commands : Command(c) \in Processes
  BY FilesAre, ProcessesAre
<1>1. PICK s \in Scenarios :
       /\ file = [f \in Files |-> [Removed(f) EXCEPT !.holds = Before(s.setUp)[f]]]
       /\ world = [scenario |-> s, minute |-> 1, latest |-> 1, version |-> 1,
                   asked |-> [c \in Commands |-> "nothing"], versions |-> [p \in Processes |-> 1]]
       /\ meant = [holds |-> Before(s.setUp), overlapped |-> FALSE, misled |-> FALSE,
                   refreshes |-> [m \in 1..MaxMinutes |-> 0]]
  BY DEF FilesInit
<1>2. at = [p \in Processes |-> "off"] /\ mem = [p \in Processes |-> Empty]
  BY DEF FilesInit
<1> DEFINE before == Before(s.setUp)
<1>3. DOMAIN before = Files /\ (\A f \in Files : before[f] \in Data(f)) /\ before.message = Initialize("message")
  <2>1. CASE s.setUp
    <3> DEFINE repo == [Empty.repo EXCEPT !["trunk"] = On]
    <3>1. before = [Empty EXCEPT !.repo = repo]
      BY <1>0, <2>1, EmptyIsData DEF Before
    <3>2. Empty.repo \in [RepoSettings \cup {"lastFetchedPRInfoMs"} -> Nat] /\ On \in Nat
      BY <1>0, EmptyIsData, FilesAre DEF On
    <3>3. repo \in Data("repo")
      BY <3>2, FilesAre
    <3> HIDE DEF repo, before
    <3> QED BY <1>0, <3>1, <3>3, EmptyIsData
  <2>2. CASE ~s.setUp
    BY <1>0, <2>2, EmptyIsData DEF Before
  <2> QED BY <2>1, <2>2
<1> HIDE DEF before
<1>4. /\ DOMAIN file = Files
      /\ \A f \in Files : file[f].holds = before[f] /\ file[f].torn = FALSE
  BY <1>1 DEF before, Removed
<1>5. meant.holds = before /\ ~meant.misled /\ \A m \in 1..MaxMinutes : meant.refreshes[m] = 0
  BY <1>1 DEF before
<1>6. FilesTypeInv
  <2>1. FileType /\ MemType
    BY <1>2, <1>3, <1>4, EmptyIsData DEF FileType, MemType
  <2>2. WorldType
    BY <1>1, BoundsAreNumbers DEF WorldType, Kinds
  <2>3. MeantType
    BY <1>1, <1>3, <1>5 DEF MeantType
  <2> QED BY <1>2, <2>1, <2>2, <2>3 DEF FilesTypeInv
<1>7. MessageInv
  <2>1. file.message.holds = Initialize("message")
    BY <1>0, <1>3, <1>4
  <2>2. \A p \in Processes : mem[p].message = Empty.message
    BY <1>2
  <2> QED BY <1>5, <2>1, <2>2, NoMessageIsNewer DEF MessageInv, MessagesUpTo
<1>8. \A c \in Commands : at[Command(c)] = "off"
  BY <1>0, <1>2
<1>9. WritersInv
  BY <1>0, <1>4, <1>5, <1>8 DEF WritersInv, WriterIsReady, WritesTo, StaysInitialized
<1>10. InStepInv
  <2>1. Alone /\ \A c \in Commands : CopyIsRight(c)
    BY <1>8 DEF Alone, Running, CopyIsRight, HasRepo
  <2>2. FilesAreRight
    BY <1>0, <1>4, <1>5 DEF FilesAreRight, IsAsMeant, IsUpToDate
  <2> QED BY <2>1, <2>2 DEF InStepInv
<1> QED BY <1>6, <1>7, <1>9, <1>10 DEF SettingsInv

\* The invariant says that the files are kept.
LEMMA SettingsAreFilesKept == SettingsInv => FilesAreKept
BY DEF SettingsInv, MessageInv, MessagesUpTo, WritersInv, InStepInv, FilesAreRight, IsAsMeant,
       FilesAreKept, SettingsAreKept, ToldOfNewVersionsOnly

\* Who fills a file of settings has it open and writes a copy that is not older
\* than the file, as long as commands run one after the other; who writes the
\* settings of the repository has a trunk in its copy, whatever runs (spiffy.ts,
\* runner.ts:118).
THEOREM SettingsInvHolds == FilesSpec => []SettingsInv
<1>1. SettingsInv /\ [FilesNext]_fileVars => SettingsInv'
  BY TypesAreKept, MessageIsKept, WritersAreKept, InStepIsKept DEF SettingsInv
<1> QED BY <1>1, SettingsInit, PTL DEF FilesSpec

\* A repository stays set up, the settings stay as the commands wrote them and
\* the pull requests are asked for once a minute unless commands overlapped, and
\* nobody is told of a version that is not newer, whichever processes are killed.
THEOREM FilesStayAsMeant == FilesSpec => []FilesAreKept
BY SettingsInvHolds, SettingsAreFilesKept, PTL

----------------------------------------------------------------------------
Tree == [Paths -> Contents]

\* The commits have trees, and each differs from the one before.
MergedTypes ==
  /\ branch \in Seq(Tree) /\ trunk \in Seq(Tree) /\ touched \subseteq Paths
  /\ landed \in 1..Len(branch) /\ Len(trunk) > 0 /\ trunk[1] = branch[1]
  /\ \A k \in 2..Len(branch) : branch[k - 1] # branch[k]

\* The commits p and q of the branch between which nothing of P is.
AreNext(P, p, q) == p < q /\ \A r \in P : r <= p \/ q <= r

\* P are the commits up to which the branch has landed: what is between two of
\* them is in the trunk, and what is there besides was pushed by others.
Landings(P) ==
  /\ P \subseteq 1..landed /\ 1 \in P /\ landed \in P
  /\ \A p, q \in P : AreNext(P, p, q) => IsInTrunk(Patch(branch[p], branch[q]))
  /\ \A m \in 2..Len(trunk) :
       \/ \E change \in Patch(trunk[m - 1], trunk[m]) : change.file \in touched
       \/ \E p, q \in P : AreNext(P, p, q) /\ Patch(trunk[m - 1], trunk[m]) = Patch(branch[p], branch[q])

\* There are such commits.
LandedInv == \E P \in SUBSET (1..landed) : Landings(P)

\* The inductive invariant.
MergedInv == MergedTypes /\ LandedInv /\ OnlyLandedIsDeleted

\* A commit that is added leaves those before it where they are.
LEMMA Appends ==
  ASSUME NEW seq \in Seq(Tree), NEW tree \in Tree
  PROVE  /\ Append(seq, tree) \in Seq(Tree) /\ Len(Append(seq, tree)) = Len(seq) + 1
         /\ \A k \in 1..Len(seq) : Append(seq, tree)[k] = seq[k]
         /\ Append(seq, tree)[Len(seq) + 1] = tree
OBVIOUS

\* A patch says of each file that differs what it was and is.
LEMMA PatchIs ==
  ASSUME NEW old \in Tree, NEW new \in Tree
  PROVE  /\ \A change \in Patch(old, new) :
              /\ change.file \in Paths /\ old[change.file] # new[change.file]
              /\ change.from = old[change.file] /\ change.to = new[change.file]
         /\ \A f \in Paths : old[f] # new[f] =>
              \E change \in Patch(old, new) :
                change.file = f /\ change.from = old[f] /\ change.to = new[f]
         /\ Patch(old, new) = {} <=> old = new
<1>1. \A change \in Patch(old, new) :
        /\ change.file \in Paths /\ old[change.file] # new[change.file]
        /\ change.from = old[change.file] /\ change.to = new[change.file]
  BY DEF Patch
<1>2. ASSUME NEW f \in Paths, old[f] # new[f]
      PROVE  \E change \in Patch(old, new) : change.file = f /\ change.from = old[f] /\ change.to = new[f]
  <2> DEFINE change == [file |-> f, from |-> old[f], to |-> new[f]]
  <2>1. change \in Patch(old, new)
    BY <1>2 DEF Patch
  <2> QED BY <2>1
<1>3. old # new => \E f \in Paths : old[f] # new[f]
  BY DEF Tree
<1> QED BY <1>1, <1>2, <1>3

\* Two patches that are the same change the same files, in the same way.
LEMMA SamePatch ==
  ASSUME NEW a \in Tree, NEW b \in Tree, NEW c \in Tree, NEW d \in Tree, Patch(a, b) = Patch(c, d),
         NEW f \in Paths
  PROVE  a[f] # b[f] => c[f] = a[f] /\ d[f] = b[f]
<1> SUFFICES ASSUME a[f] # b[f] PROVE c[f] = a[f] /\ d[f] = b[f]
  OBVIOUS
<1>1. PICK change \in Patch(a, b) : change.file = f /\ change.from = a[f] /\ change.to = b[f]
  BY PatchIs
<1>2. change.from = c[change.file] /\ change.to = d[change.file]
  BY PatchIs
<1> QED BY <1>1, <1>2

\* What applies to a tree changes it by the patch.
LEMMA AppliedPatch ==
  ASSUME NEW old \in Tree, NEW new \in Tree, NEW tree \in Tree, Applies(tree, Patch(old, new))
  PROVE  LET there == Applied(tree, Patch(old, new)) IN
         there \in Tree /\ Patch(tree, there) = Patch(old, new)
<1> DEFINE patch == Patch(old, new)
           there == Applied(tree, patch)
<1>1. ASSUME NEW f \in Paths
      PROVE  there[f] = IF old[f] # new[f] THEN new[f] ELSE tree[f]
  <2>1. there[f] = IF \E change \in patch : change.file = f
                   THEN (CHOOSE change \in patch : change.file = f).to ELSE tree[f]
    BY DEF Applied
  <2> HIDE DEF patch, there
  <2>2. CASE old[f] # new[f]
    <3>1. \E change \in patch : change.file = f
      BY <2>2, PatchIs DEF patch
    <3>2. \A change \in patch : change.file = f => change.to = new[f]
      BY PatchIs DEF patch
    <3> QED BY <2>1, <2>2, <3>1, <3>2
  <2>3. CASE old[f] = new[f]
    <3>1. \A change \in patch : change.file # f
      BY <2>3, PatchIs DEF patch
    <3> QED BY <2>1, <2>3, <3>1
  <2> QED BY <2>2, <2>3
<1>2. ASSUME NEW f \in Paths, old[f] # new[f] PROVE tree[f] = old[f]
  BY <1>2, PatchIs DEF Applies
<1>3. there = [f \in Paths |-> there[f]]
  BY DEF Applied
<1> HIDE DEF there
<1>4. there \in Tree
  BY <1>1, <1>3 DEF Tree
<1>5. \A f \in Paths : tree[f] # there[f] <=> old[f] # new[f]
  BY <1>1, <1>2
<1>6. \A f \in Paths : old[f] # new[f] => tree[f] = old[f] /\ there[f] = new[f]
  BY <1>1, <1>2
<1>7. Patch(tree, there) = patch
  BY <1>5, <1>6 DEF Patch
<1> QED BY <1>4, <1>7 DEF there

----------------------------------------------------------------------------
\* The reduction over the first n commits.
IsScan(f, n) ==
  f = [k \in 1..n |->
         IF k = 1 THEN 1
         ELSE LET base == f[k - 1]
              IN  IF IsInTrunk(Patch(branch[base], branch[k])) THEN k ELSE base]

\* There is one for each number of commits.
LEMMA ScanExists ==
  ASSUME NEW n \in Nat
  PROVE  \E f : IsScan(f, n)
<1> DEFINE T == {k \in Nat : ~ \E f : IsScan(f, k)}
           Base(b, k) == IF IsInTrunk(Patch(branch[b], branch[k])) THEN k ELSE b
<1>0. \A f, k : IsScan(f, k) <=> f = [i \in 1..k |-> IF i = 1 THEN 1 ELSE Base(f[i - 1], i)]
  BY DEF IsScan
<1> HIDE DEF Base
<1>1. ASSUME NEW m \in T PROVE m # 0 /\ m - 1 \in T
  <2>1. m # 0
    <3>1. [i \in 1..0 |-> 1] = [i \in 1..0 |-> IF i = 1 THEN 1 ELSE Base([j \in 1..0 |-> 1][i - 1], i)]
      OBVIOUS
    <3> QED BY <1>0, <3>1
  <2>2. ASSUME NEW g, IsScan(g, m - 1) PROVE FALSE
    <3> DEFINE last == IF m = 1 THEN 1 ELSE Base(g[m - 1], m)
               f == [i \in 1..m |-> IF i = m THEN last ELSE g[i]]
    <3>1. ASSUME NEW i \in 1..m
          PROVE  f[i] = IF i = 1 THEN 1 ELSE Base(f[i - 1], i)
      <4>1. CASE i = m
        <5>1. m # 1 => f[m - 1] = g[m - 1]
          BY <2>1
        <5> QED BY <4>1, <5>1
      <4>2. CASE i # m
        <5>1. i \in 1..(m - 1)
          BY <4>2
        <5>2. f[i] = g[i] /\ (i # 1 => f[i - 1] = g[i - 1])
          BY <4>2, <5>1
        <5>3. g[i] = IF i = 1 THEN 1 ELSE Base(g[i - 1], i)
          BY <1>0, <2>2, <5>1
        <5> HIDE DEF f
        <5> QED BY <5>2, <5>3
      <4> QED BY <4>1, <4>2
    <3>2. f = [i \in 1..m |-> IF i = 1 THEN 1 ELSE Base(f[i - 1], i)]
      BY <3>1, Zenon
    <3> HIDE DEF f
    <3>3. IsScan(f, m)
      BY <1>0, <3>2
    <3> QED BY <3>3
  <2> QED BY <2>1, <2>2
<1>2. T \subseteq Nat
  OBVIOUS
<1> HIDE DEF T
<1>3. T = {}
  BY <1>1, <1>2, EveryNumber
<1> QED BY <1>3 DEF T

\* LastMergedCommit is the one over the whole branch, read off commit by commit.
LEMMA ScanIs ==
  ASSUME MergedTypes
  PROVE  /\ LastMergedCommit[1] = 1
         /\ \A k \in 2..Len(branch) :
              LastMergedCommit[k] =
                IF IsInTrunk(Patch(branch[LastMergedCommit[k - 1]], branch[k]))
                THEN k ELSE LastMergedCommit[k - 1]
<1> DEFINE n == Len(branch)
           f == CHOOSE g : IsScan(g, n)
<1>1. n \in Nat /\ 1 \in 1..n /\ DOMAIN branch = 1..n
  BY DEF MergedTypes
<1>2. IsScan(f, n)
  BY <1>1, ScanExists
<1>3. LastMergedCommit = f
  BY <1>1 DEF LastMergedCommit, IsScan
<1> HIDE DEF f, n
<1>4. f[1] = 1
  BY <1>1, <1>2 DEF IsScan
<1>5. ASSUME NEW k \in 2..n
      PROVE  f[k] = IF IsInTrunk(Patch(branch[f[k - 1]], branch[k])) THEN k ELSE f[k - 1]
  <2>1. k \in 1..n /\ k # 1
    BY <1>1
  <2> QED BY <1>2, <2>1 DEF IsScan
<1> QED BY <1>3, <1>4, <1>5 DEF n

----------------------------------------------------------------------------
\* What the reduction has found is in the trunk, file by file.
LEMMA FoundIsInTrunk ==
  ASSUME MergedTypes, NEW n \in 1..Len(branch)
  PROVE  /\ LastMergedCommit[n] \in 1..n
         /\ \A f \in Paths : \E k \in 1..Len(trunk) : trunk[k][f] = branch[LastMergedCommit[n]][f]
<1> DEFINE last == LastMergedCommit
           InTrunk(k) == \A f \in Paths : \E m \in 1..Len(trunk) : trunk[m][f] = branch[k][f]
           T == {k \in Nat : k + 1 \in 1..Len(branch) /\ ~ (last[k + 1] \in 1..(k + 1) /\ InTrunk(last[k + 1]))}
<1>0. /\ last[1] = 1
      /\ \A k \in 2..Len(branch) :
           last[k] = IF IsInTrunk(Patch(branch[last[k - 1]], branch[k])) THEN k ELSE last[k - 1]
  BY ScanIs
<1>1. /\ \A k \in 1..Len(branch) : branch[k] \in Tree
      /\ \A k \in 1..Len(trunk) : trunk[k] \in Tree
      /\ Len(trunk) \in Nat /\ Len(trunk) > 0 /\ trunk[1] = branch[1] /\ Len(branch) \in Nat
  BY DEF MergedTypes
<1> HIDE DEF last
<1>2. InTrunk(1)
  BY <1>1
<1>3. ASSUME NEW j \in T PROVE j # 0 /\ j - 1 \in T
  <2>1. j \in Nat /\ j + 1 \in 1..Len(branch) /\ ~ (last[j + 1] \in 1..(j + 1) /\ InTrunk(last[j + 1]))
    OBVIOUS
  <2>2. j # 0
    BY <1>0, <1>2, <2>1
  <2>3. SUFFICES ASSUME last[j] \in 1..j /\ InTrunk(last[j]) PROVE FALSE
    BY <2>1, <2>2
  <2>4. j + 1 \in 2..Len(branch) /\ (j + 1) - 1 = j
    BY <2>1, <2>2
  <2>5. last[j + 1] = IF IsInTrunk(Patch(branch[last[j]], branch[j + 1])) THEN j + 1 ELSE last[j]
    BY <1>0, <2>4
  <2>6. CASE ~IsInTrunk(Patch(branch[last[j]], branch[j + 1]))
    BY <2>1, <2>3, <2>5, <2>6
  <2>7. CASE IsInTrunk(Patch(branch[last[j]], branch[j + 1]))
    <3>1. PICK m \in 2..Len(trunk) : Patch(trunk[m - 1], trunk[m]) = Patch(branch[last[j]], branch[j + 1])
      BY <2>7 DEF IsInTrunk
    <3>2. /\ trunk[m - 1] \in Tree /\ trunk[m] \in Tree /\ m \in 1..Len(trunk)
          /\ branch[last[j]] \in Tree /\ branch[j + 1] \in Tree
      BY <1>1, <2>1, <2>3
    <3>3. ASSUME NEW f \in Paths PROVE \E k \in 1..Len(trunk) : trunk[k][f] = branch[j + 1][f]
      <4>1. CASE branch[last[j]][f] = branch[j + 1][f]
        BY <2>3, <4>1
      <4>2. CASE branch[last[j]][f] # branch[j + 1][f]
        <5>1. trunk[m][f] = branch[j + 1][f]
          BY <3>1, <3>2, <4>2, SamePatch
        <5> QED BY <3>2, <5>1
      <4> QED BY <4>1, <4>2
    <3> QED BY <2>1, <2>5, <2>7, <3>3
  <2> QED BY <2>6, <2>7
<1>4. T \subseteq Nat
  OBVIOUS
<1> HIDE DEF T
<1>5. T = {}
  BY <1>3, <1>4, EveryNumber
<1>6. n - 1 \in Nat /\ (n - 1) + 1 = n
  BY <1>1
<1>7. last[(n - 1) + 1] \in 1..((n - 1) + 1) /\ InTrunk(last[(n - 1) + 1])
  BY <1>5, <1>6 DEF T
<1>8. last[n] \in 1..n /\ InTrunk(last[n])
  BY <1>6, <1>7
<1> QED BY <1>8 DEF last

\* A file that no commit of the branch changes is what it was.
LEMMA ChangedBetween ==
  ASSUME MergedTypes, NEW f \in Paths, NEW i \in 1..Len(branch), NEW j \in 1..Len(branch),
         i < j, branch[i][f] # branch[j][f]
  PROVE  f \in ChangedOnBranch
<1> SUFFICES ASSUME f \notin ChangedOnBranch PROVE FALSE
  OBVIOUS
<1>0. Len(branch) \in Nat /\ \A k \in 1..Len(branch) : branch[k] \in Tree
  BY DEF MergedTypes
<1>1. ASSUME NEW k \in 2..Len(branch) PROVE branch[k - 1][f] = branch[k][f]
  <2> SUFFICES ASSUME branch[k - 1][f] # branch[k][f] PROVE FALSE
    OBVIOUS
  <2>1. branch[k - 1] \in Tree /\ branch[k] \in Tree
    BY <1>0
  <2>2. PICK change \in Patch(branch[k - 1], branch[k]) : change.file = f
    BY <2>1, PatchIs
  <2> QED BY <2>2 DEF ChangedOnBranch
<1> DEFINE T == {n \in Nat : i + n \in 1..Len(branch) /\ branch[i + n][f] # branch[i][f]}
<1>2. ASSUME NEW n \in T PROVE n # 0 /\ n - 1 \in T
  <2>1. n \in Nat /\ i + n \in 1..Len(branch) /\ branch[i + n][f] # branch[i][f]
    OBVIOUS
  <2>2. n # 0
    BY <2>1
  <2>3. i + n \in 2..Len(branch) /\ (i + n) - 1 = i + (n - 1) /\ n - 1 \in Nat
    BY <1>0, <2>1, <2>2
  <2>4. branch[i + (n - 1)][f] = branch[i + n][f]
    BY <1>1, <2>3
  <2> QED BY <1>0, <2>1, <2>2, <2>3, <2>4
<1>3. T \subseteq Nat
  OBVIOUS
<1> HIDE DEF T
<1>4. T = {}
  BY <1>2, <1>3, EveryNumber
<1>5. j - i \in Nat /\ i + (j - i) = j
  BY <1>0
<1> QED BY <1>4, <1>5 DEF T

\* A patch that changes a file on its way through the branch does so only once
\* when the branch never goes back: the patch of p to q is not that of i to j.
LEMMA NotTheSamePatch ==
  ASSUME MergedTypes, NeverGoesBack,
         NEW p \in 1..Len(branch), NEW q \in 1..Len(branch), NEW i \in 1..Len(branch), NEW j \in 1..Len(branch),
         p < q, q <= i, i < j
  PROVE  Patch(branch[p], branch[q]) # Patch(branch[i], branch[j]) \/ branch[i] = branch[j]
<1> SUFFICES ASSUME Patch(branch[p], branch[q]) = Patch(branch[i], branch[j]), branch[i] # branch[j]
             PROVE  FALSE
  OBVIOUS
<1>1. Len(branch) \in Nat /\ DOMAIN branch = 1..Len(branch) /\ \A k \in 1..Len(branch) : branch[k] \in Tree
  BY DEF MergedTypes
<1>2. PICK f \in Paths : branch[i][f] # branch[j][f]
  BY <1>1 DEF Tree
<1>3. branch[p][f] = branch[i][f] /\ branch[q][f] = branch[j][f]
  BY <1>1, <1>2, SamePatch
<1>4. q # i
  BY <1>2, <1>3
<1>5. branch[q][f] = branch[p][f]
  BY <1>1, <1>3, <1>4 DEF NeverGoesBack
<1> QED BY <1>2, <1>3, <1>5

\* Nor do the patches of i to j and of i to a later k agree.
LEMMA LongerPatch ==
  ASSUME MergedTypes, NeverGoesBack,
         NEW i \in 1..Len(branch), NEW j \in 1..Len(branch), NEW k \in 1..Len(branch), i < j, j < k
  PROVE  Patch(branch[i], branch[j]) # Patch(branch[i], branch[k])
<1> SUFFICES ASSUME Patch(branch[i], branch[j]) = Patch(branch[i], branch[k]) PROVE FALSE
  OBVIOUS
<1>1. Len(branch) \in Nat /\ DOMAIN branch = 1..Len(branch) /\ \A n \in 1..Len(branch) : branch[n] \in Tree
  BY DEF MergedTypes
<1>2. ASSUME NEW f \in Paths PROVE branch[j][f] = branch[k][f]
  <2>1. CASE branch[i][f] # branch[j][f]
    BY <1>1, <2>1, SamePatch
  <2>2. CASE branch[i][f] # branch[k][f]
    BY <1>1, <2>2, SamePatch
  <2> QED BY <2>1, <2>2
<1>3. j + 1 \in 2..Len(branch) /\ (j + 1) - 1 = j /\ j + 1 \in 1..Len(branch)
  BY <1>1
<1>4. ASSUME NEW f \in Paths PROVE branch[j + 1][f] = branch[j][f]
  <2>1. CASE j + 1 = k
    BY <1>2, <2>1
  <2>2. CASE j + 1 # k
    <3>1. j < j + 1 /\ j + 1 < k
      BY <1>1, <2>2
    <3> QED BY <1>1, <1>2, <1>3, <3>1 DEF NeverGoesBack
  <2> QED BY <2>1, <2>2
<1>5. branch[j + 1] = branch[j]
  <2>1. branch[j + 1] \in Tree /\ branch[j] \in Tree
    BY <1>1, <1>3
  <2> QED BY <1>4, <2>1 DEF Tree
<1> QED BY <1>3, <1>5 DEF MergedTypes

\* The commits of the branch are trees.
LEMMA TypedTrees == MergedTypes => \A k \in 1..Len(branch) : branch[k] \in Tree
BY DEF MergedTypes

\* What the reduction finds at each commit is the last landing up to there.
LEMMA FoundIsLastLanding ==
  ASSUME MergedTypes, NEW P, Landings(P), NeverGoesBack, touched \cap ChangedOnBranch = {},
         NEW n \in 1..landed
  PROVE  /\ LastMergedCommit[n] \in P /\ LastMergedCommit[n] <= n
         /\ \A p \in P : p <= LastMergedCommit[n] \/ n < p
<1> DEFINE last == LastMergedCommit
           Right(k) == last[k] \in P /\ last[k] <= k /\ \A p \in P : p <= last[k] \/ k < p
           T == {k \in Nat : k + 1 \in 1..landed /\ ~Right(k + 1)}
<1>0. /\ last[1] = 1
      /\ \A k \in 2..Len(branch) :
           last[k] = IF IsInTrunk(Patch(branch[last[k - 1]], branch[k])) THEN k ELSE last[k - 1]
  BY ScanIs
<1>1. Len(branch) \in Nat /\ landed \in Nat /\ 1 <= landed /\ landed <= Len(branch)
  BY DEF MergedTypes
<1>2. 1 \in P /\ landed \in P /\ \A p \in P : p \in Nat /\ 1 <= p /\ p <= landed /\ p \in 1..Len(branch)
  <2>1. P \subseteq 1..landed /\ 1 \in P /\ landed \in P
    BY DEF Landings
  <2> HIDE DEF last, Right, T
  <2> QED BY <1>1, <2>1
<1> HIDE DEF last
<1>3. Right(1)
  BY <1>0, <1>1, <1>2
<1>4. ASSUME NEW j \in T PROVE j # 0 /\ j - 1 \in T
  <2>1. j \in Nat /\ j + 1 \in 1..landed /\ ~Right(j + 1)
    OBVIOUS
  <2>2. j # 0
    BY <1>3, <2>1
  <2>3. SUFFICES ASSUME Right(j) PROVE FALSE
    BY <1>1, <2>1, <2>2
  <2> DEFINE b == last[j]
             k == j + 1
  <2>4. /\ k \in 2..Len(branch) /\ k - 1 = j /\ k \in 1..Len(branch) /\ k \in Nat
        /\ b \in 1..Len(branch) /\ b \in Nat /\ b < k
        /\ b \in P /\ \A p \in P : p <= b \/ k <= p
    <3> HIDE DEF b
    <3>1. b \in P /\ b <= j /\ \A p \in P : p <= b \/ j < p
      BY <2>3 DEF b
    <3> HIDE DEF Right, T
    <3>2. b \in Nat /\ 1 <= b /\ b \in 1..Len(branch)
      BY <1>2, <3>1
    <3>3. k \in Nat /\ k \in 2..Len(branch) /\ k \in 1..Len(branch) /\ k - 1 = j
      BY <1>1, <2>1, <2>2
    <3>4. ASSUME NEW p \in P PROVE p <= b \/ k <= p
      BY <1>2, <2>1, <3>1
    <3>5. b < k
      BY <2>1, <3>1, <3>2
    <3> HIDE DEF k
    <3> QED BY <3>1, <3>2, <3>3, <3>4, <3>5
  <2>5. last[k] = IF IsInTrunk(Patch(branch[b], branch[k])) THEN k ELSE b
    BY <1>0, <2>4
  <2>6. ~(last[k] \in P /\ last[k] <= k /\ \A p \in P : p <= last[k] \/ k < p)
    BY <2>1
  <2> HIDE DEF b, k
  <2>7. CASE k \in P
    <3>1. AreNext(P, b, k)
      BY <2>4 DEF AreNext
    <3>2. last[k] = k
      BY <2>4, <2>5, <2>7, <3>1 DEF Landings
    <3>3. \A p \in P : p <= k \/ k < p
      BY <1>2, <2>4
    <3> QED BY <2>4, <2>6, <2>7, <3>2, <3>3
  <2>8. CASE k \notin P
    <3>1. ASSUME NEW p \in P PROVE p <= b \/ k < p
      <4>1. p \in Nat /\ k \in Nat /\ p # k /\ (p <= b \/ k <= p)
        BY <1>2, <2>4, <2>8
      <4> QED BY <4>1
    <3>2. IsInTrunk(Patch(branch[b], branch[k]))
      BY <2>4, <2>5, <2>6, <3>1
    <3>3. PICK m \in 2..Len(trunk) : Patch(trunk[m - 1], trunk[m]) = Patch(branch[b], branch[k])
      BY <3>2 DEF IsInTrunk
    <3>4. branch[b] # branch[k] /\ branch[b] \in Tree /\ branch[k] \in Tree
      BY <2>4, <3>2, TypedTrees, PatchIs DEF IsInTrunk
    <3>5. CASE \E change \in Patch(trunk[m - 1], trunk[m]) : change.file \in touched
      <4>1. PICK change \in Patch(branch[b], branch[k]) : change.file \in touched
        BY <3>3, <3>5
      <4>2. change.file \in Paths /\ branch[b][change.file] # branch[k][change.file]
        BY <3>4, PatchIs
      <4>3. change.file \in ChangedOnBranch
        BY <2>4, <4>2, ChangedBetween
      <4> QED BY <4>1, <4>3
    <3>6. CASE \E p, q \in P : AreNext(P, p, q) /\ Patch(trunk[m - 1], trunk[m]) = Patch(branch[p], branch[q])
      <4>1. PICK p \in P, q \in P : AreNext(P, p, q) /\ Patch(branch[p], branch[q]) = Patch(branch[b], branch[k])
        BY <3>3, <3>6
      <4>2. p \in 1..Len(branch) /\ q \in 1..Len(branch) /\ p < q
        BY <1>2, <4>1 DEF AreNext
      <4>3. branch[p] # branch[q]
        BY <3>4, <4>1, <4>2, TypedTrees, PatchIs
      <4>4. CASE p = b
        <5>1. k < q
          BY <3>1, <4>2, <4>4
        <5> QED BY <2>4, <4>1, <4>2, <4>4, <5>1, LongerPatch
      <4>5. CASE q <= b
        BY <2>4, <3>4, <4>1, <4>2, <4>5, NotTheSamePatch
      <4>6. CASE p # b /\ ~(q <= b)
        <5>1. b < p
          BY <2>4, <4>1, <4>2, <4>6 DEF AreNext
        <5>2. k <= p
          BY <2>4, <3>1, <4>2, <5>1
        <5> QED BY <2>4, <4>1, <4>2, <4>3, <5>2, NotTheSamePatch
      <4> QED BY <4>4, <4>5, <4>6
    <3>7. (\E change \in Patch(trunk[m - 1], trunk[m]) : change.file \in touched)
          \/ \E p, q \in P : AreNext(P, p, q) /\ Patch(trunk[m - 1], trunk[m]) = Patch(branch[p], branch[q])
      BY <3>3 DEF Landings
    <3> QED BY <3>5, <3>6, <3>7
  <2> QED BY <2>7, <2>8
<1>5. T \subseteq Nat
  OBVIOUS
<1> HIDE DEF T
<1>6. T = {}
  BY <1>4, <1>5, EveryNumber
<1>7. n - 1 \in Nat /\ (n - 1) + 1 = n
  BY <1>1
<1>8. Right((n - 1) + 1)
  BY <1>6, <1>7 DEF T
<1>9. Right(n)
  BY <1>7, <1>8
<1> QED BY <1>9 DEF last

\* A branch all of which has landed is found to have.
LEMMA LandingsAreFound ==
  ASSUME MergedTypes, LandedInv
  PROVE  LandedIsDetected
<1> SUFFICES ASSUME landed = Len(branch), touched \cap ChangedOnBranch = {}, NeverGoesBack
             PROVE  IsMerged
  BY DEF LandedIsDetected
<1>1. PICK P \in SUBSET (1..landed) : Landings(P)
  BY DEF LandedInv
<1>2. landed \in 1..landed /\ landed \in Nat
  BY DEF MergedTypes
<1> DEFINE l == LastMergedCommit[landed]
<1>3. l \in P /\ l <= landed /\ \A p \in P : p <= l \/ landed < p
  BY <1>1, <1>2, FoundIsLastLanding
<1> HIDE DEF l
<1>4. landed \in P
  BY <1>1 DEF Landings
<1>5. l = landed
  BY <1>2, <1>3, <1>4
<1> QED BY <1>5 DEF IsMerged, l

----------------------------------------------------------------------------

----------------------------------------------------------------------------
\* At first only the branch point has landed.
LEMMA MergedBegins ==
  ASSUME MergedInit
  PROVE  MergedInv
<1>1. PICK tree \in Tree : branch = <<tree>> /\ trunk = <<tree>>
  BY DEF MergedInit, Tree
<1>2. landed = 1 /\ touched = {} /\ deleted = FALSE
  BY DEF MergedInit
<1>3. Len(branch) = 1 /\ Len(trunk) = 1 /\ branch[1] = tree /\ trunk[1] = tree
  BY <1>1
<1>4. MergedTypes
  BY <1>1, <1>2, <1>3 DEF MergedTypes
<1>5. Landings({1})
  BY <1>2, <1>3 DEF Landings, AreNext
<1>6. {1} \in SUBSET (1..landed)
  BY <1>2
<1> QED BY <1>2, <1>4, <1>5, <1>6 DEF MergedInv, LandedInv, OnlyLandedIsDeleted

\* A commit on the trunk takes nothing out of it.
LEMMA TrunkGrows ==
  ASSUME MergedInv, NEW tree, tree \in Tree, trunk' = Append(trunk, tree),
         UNCHANGED <<branch, pr, deleted, trusted>>
  PROVE  /\ trunk' \in Seq(Tree) /\ Len(trunk') = Len(trunk) + 1 /\ Len(trunk) \in Nat \ {0}
         /\ \A k \in 1..Len(trunk) : trunk'[k] = trunk[k]
         /\ trunk'[Len(trunk) + 1] = tree
         /\ \A patch : IsInTrunk(patch) => IsInTrunk(patch)'
         /\ OnlyLandedIsDeleted'
<1>1. trunk \in Seq(Tree) /\ Len(trunk) \in Nat \ {0} /\ DOMAIN trunk = 1..Len(trunk)
  BY DEF MergedInv, MergedTypes
<1>2. /\ trunk' \in Seq(Tree) /\ Len(trunk') = Len(trunk) + 1
      /\ \A k \in 1..Len(trunk) : trunk'[k] = trunk[k]
      /\ trunk'[Len(trunk) + 1] = tree
  BY <1>1, Appends
<1>3. ASSUME NEW patch, IsInTrunk(patch) PROVE IsInTrunk(patch)'
  <2>1. PICK k \in 2..Len(trunk) : Patch(trunk[k - 1], trunk[k]) = patch
    BY <1>3 DEF IsInTrunk
  <2>2. k \in 2..Len(trunk') /\ trunk'[k] = trunk[k] /\ trunk'[k - 1] = trunk[k - 1]
    BY <1>1, <1>2
  <2>3. Patch(trunk'[k - 1], trunk'[k]) = patch
    BY <2>1, <2>2
  <2> QED BY <1>3, <2>2, <2>3 DEF IsInTrunk
<1>4. OnlyLandedIsDeleted'
  <2> SUFFICES ASSUME deleted', ~trusted', NEW f \in Paths
               PROVE  \E k \in DOMAIN trunk' : trunk'[k][f] = Tip(branch')[f]
    BY DEF OnlyLandedIsDeleted
  <2>1. PICK k \in DOMAIN trunk : trunk[k][f] = Tip(branch)[f]
    BY DEF MergedInv, OnlyLandedIsDeleted
  <2>2. k \in DOMAIN trunk' /\ trunk'[k] = trunk[k]
    BY <1>1, <1>2
  <2> QED BY <2>1, <2>2
<1> QED BY <1>1, <1>2, <1>3, <1>4

\* What makes P the landings after a step.
LEMMA LandingsNext ==
  ASSUME NEW P, P \subseteq 1..landed', 1 \in P, landed' \in P,
         \A p, q \in P : AreNext(P, p, q) => IsInTrunk(Patch(branch[p], branch[q]))',
         \A m \in 2..Len(trunk') :
           \/ \E change \in Patch(trunk'[m - 1], trunk'[m]) : change.file \in touched'
           \/ \E p, q \in P : AreNext(P, p, q) /\ Patch(trunk'[m - 1], trunk'[m]) = Patch(branch'[p], branch'[q])
  PROVE  Landings(P)'
BY DEF Landings, AreNext

\* Nothing that the invariant speaks of changes but the branch's fate.
LEMMA LandingsStay ==
  ASSUME MergedInv, UNCHANGED <<branch, trunk, landed, touched>>
  PROVE  MergedTypes' /\ LandedInv'
<1>1. MergedTypes'
  BY DEF MergedInv, MergedTypes
<1>2. PICK P \in SUBSET (1..landed) : Landings(P)
  BY DEF MergedInv, LandedInv
<1>3. P \subseteq 1..landed' /\ 1 \in P /\ landed' \in P
  BY <1>2 DEF Landings
<1>4. ASSUME NEW p \in P, NEW q \in P, AreNext(P, p, q)
      PROVE  IsInTrunk(Patch(branch[p], branch[q]))'
  <2>1. IsInTrunk(Patch(branch[p], branch[q]))
    BY <1>2, <1>4 DEF Landings
  <2> QED BY <2>1 DEF IsInTrunk
<1>5. ASSUME NEW m \in 2..Len(trunk')
      PROVE  \/ \E change \in Patch(trunk'[m - 1], trunk'[m]) : change.file \in touched'
             \/ \E p, q \in P : AreNext(P, p, q) /\ Patch(trunk'[m - 1], trunk'[m]) = Patch(branch'[p], branch'[q])
  BY <1>2 DEF Landings
<1>6. Landings(P)'
  BY <1>3, <1>4, <1>5, LandingsNext
<1> QED BY <1>1, <1>2, <1>3, <1>6 DEF LandedInv

\* A commit on the branch leaves what has landed as it is.
LEMMA MergedCommit ==
  ASSUME MergedInv, NEW tree \in Tree, Commit(tree)
  PROVE  MergedInv'
<1>1. /\ branch' = Append(branch, tree) /\ tree # branch[Len(branch)] /\ ~deleted
      /\ UNCHANGED <<trunk, pr, deleted, trusted, landed, touched>>
  BY DEF Commit, Tip
<1>2. branch \in Seq(Tree) /\ Len(branch) \in Nat /\ landed \in 1..Len(branch)
  BY DEF MergedInv, MergedTypes
<1>3. /\ branch' \in Seq(Tree) /\ Len(branch') = Len(branch) + 1
      /\ \A k \in 1..Len(branch) : branch'[k] = branch[k]
      /\ branch'[Len(branch) + 1] = tree
  BY <1>1, <1>2, Appends
<1>4. MergedTypes'
  <2>1. \A k \in 2..Len(branch') : branch'[k - 1] # branch'[k]
    <3> TAKE k \in 2..Len(branch')
    <3>1. CASE k = Len(branch) + 1
      BY <1>1, <1>2, <1>3, <3>1
    <3>2. CASE k # Len(branch) + 1
      <4>1. k \in 2..Len(branch) /\ branch'[k] = branch[k] /\ branch'[k - 1] = branch[k - 1]
        BY <1>2, <1>3, <3>2
      <4> QED BY <4>1 DEF MergedInv, MergedTypes
    <3> QED BY <3>1, <3>2
  <2>2. landed' \in 1..Len(branch')
    BY <1>1, <1>2, <1>3
  <2>3. trunk'[1] = branch'[1]
    <3>1. 1 \in 1..Len(branch)
      BY <1>2
    <3> QED BY <1>1, <1>3, <3>1 DEF MergedInv, MergedTypes
  <2>4. trunk' \in Seq(Tree) /\ touched' \subseteq Paths /\ Len(trunk') > 0
    BY <1>1 DEF MergedInv, MergedTypes
  <2> QED BY <1>3, <2>1, <2>2, <2>3, <2>4 DEF MergedTypes
<1>5. PICK P \in SUBSET (1..landed) : Landings(P)
  BY DEF MergedInv, LandedInv
<1>6. \A p \in P : branch'[p] = branch[p]
  BY <1>2, <1>3
<1>7. Landings(P)'
  <2>1. \A p, q \in P : Patch(branch'[p], branch'[q]) = Patch(branch[p], branch[q])
    BY <1>6
  <2>2. \A patch : IsInTrunk(patch)' <=> IsInTrunk(patch)
    BY <1>1 DEF IsInTrunk
  <2>3. ASSUME NEW p \in P, NEW q \in P, AreNext(P, p, q)
        PROVE  IsInTrunk(Patch(branch[p], branch[q]))'
    <3>1. PICK patch : patch = Patch(branch[p], branch[q])
      OBVIOUS
    <3>2. IsInTrunk(patch)'
      BY <1>5, <2>2, <2>3, <3>1 DEF Landings
    <3>3. patch = Patch(branch'[p], branch'[q])
      BY <2>1, <3>1
    <3> QED BY <3>2, <3>3 DEF IsInTrunk
  <2>4. ASSUME NEW m \in 2..Len(trunk)
        PROVE  \/ \E change \in Patch(trunk[m - 1], trunk[m]) : change.file \in touched
               \/ \E p, q \in P : AreNext(P, p, q) /\ Patch(trunk[m - 1], trunk[m]) = Patch(branch'[p], branch'[q])
    <3>1. \/ \E change \in Patch(trunk[m - 1], trunk[m]) : change.file \in touched
          \/ \E p, q \in P : AreNext(P, p, q) /\ Patch(trunk[m - 1], trunk[m]) = Patch(branch[p], branch[q])
      BY <1>5 DEF Landings
    <3> QED BY <2>1, <3>1
  <2>5. P \subseteq 1..landed' /\ 1 \in P /\ landed' \in P
    BY <1>1, <1>5 DEF Landings
  <2> QED BY <1>1, <2>3, <2>4, <2>5, LandingsNext
<1> QED BY <1>1, <1>4, <1>5, <1>7 DEF MergedInv, LandedInv, OnlyLandedIsDeleted

\* What lands brings one more landing, and its patch into the trunk.
LEMMA MergedLand ==
  ASSUME MergedInv, NEW k \in DOMAIN branch, Land(k)
  PROVE  MergedInv'
<1>0. PICK l, patch : l = landed /\ patch = Patch(branch[l], branch[k])
  OBVIOUS
<1> DEFINE tree == Applied(Tip(trunk), patch)
<1>1. /\ k \in l + 1 .. Len(branch) /\ patch # {} /\ Applies(Tip(trunk), patch)
      /\ trunk' = Append(trunk, tree) /\ landed' = k
      /\ UNCHANGED <<branch, pr, deleted, trusted, touched>>
  BY <1>0 DEF Land
<1>2. /\ branch \in Seq(Tree) /\ Len(branch) \in Nat /\ l \in 1..Len(branch)
      /\ trunk \in Seq(Tree) /\ Len(trunk) \in Nat \ {0}
  BY <1>0 DEF MergedInv, MergedTypes
<1>3. branch[l] \in Tree /\ branch[k] \in Tree /\ Tip(trunk) \in Tree /\ Tip(trunk) = trunk[Len(trunk)]
  BY <1>1, <1>2 DEF Tip
<1>4. tree \in Tree /\ Patch(Tip(trunk), tree) = patch
  BY <1>0, <1>1, <1>3, AppliedPatch
<1> HIDE DEF tree
<1>5. /\ trunk' \in Seq(Tree) /\ Len(trunk') = Len(trunk) + 1
      /\ \A i \in 1..Len(trunk) : trunk'[i] = trunk[i]
      /\ trunk'[Len(trunk) + 1] = tree
      /\ \A some : IsInTrunk(some) => IsInTrunk(some)'
      /\ OnlyLandedIsDeleted'
  BY <1>1, <1>4, TrunkGrows
<1>6. MergedTypes'
  BY <1>1, <1>2, <1>5 DEF MergedInv, MergedTypes
<1>7. PICK P \in SUBSET (1..l) : Landings(P)
  BY <1>0 DEF MergedInv, LandedInv
<1>8. 1 \in P /\ l \in P /\ P \subseteq 1..l /\ l < k /\ l \in Nat /\ k \in Nat
  BY <1>0, <1>1, <1>2, <1>7 DEF Landings
<1>9. PICK Q : Q = P \cup {k}
  OBVIOUS
<1>10. Q \subseteq 1..k /\ 1 \in Q /\ k \in Q
  <2>1. 1..l \subseteq 1..k /\ k \in 1..k
    BY <1>8
  <2> QED BY <1>8, <1>9, <2>1
<1>11. \A p, q \in P : AreNext(P, p, q) => AreNext(Q, p, q)
  BY <1>8, <1>9 DEF AreNext
<1>12. AreNext(Q, l, k)
  BY <1>8, <1>9 DEF AreNext
<1>13. \A p, q \in Q : AreNext(Q, p, q) => (p \in P /\ q \in P /\ AreNext(P, p, q)) \/ (p = l /\ q = k)
  BY <1>8, <1>9 DEF AreNext
<1>14. IsInTrunk(patch)' /\ trunk'[(Len(trunk) + 1) - 1] = Tip(trunk)
  <2>1. Len(trunk) + 1 \in 2..Len(trunk') /\ (Len(trunk) + 1) - 1 = Len(trunk)
    BY <1>2, <1>5
  <2>2. Patch(trunk'[(Len(trunk) + 1) - 1], trunk'[Len(trunk) + 1]) = patch
    BY <1>2, <1>3, <1>4, <1>5, <2>1
  <2>3. trunk'[(Len(trunk) + 1) - 1] = Tip(trunk)
    BY <1>2, <1>3, <1>5, <2>1
  <2> QED BY <1>1, <2>1, <2>2, <2>3 DEF IsInTrunk
<1>15. ASSUME NEW p \in Q, NEW q \in Q, AreNext(Q, p, q)
       PROVE  IsInTrunk(Patch(branch[p], branch[q]))'
  <2>1. PICK some : some = Patch(branch[p], branch[q])
    OBVIOUS
  <2>2. CASE p = l /\ q = k
    <3>1. patch = Patch(branch'[p], branch'[q])
      BY <1>0, <1>1, <2>2
    <3> QED BY <1>14, <3>1 DEF IsInTrunk
  <2>3. CASE p \in P /\ q \in P /\ AreNext(P, p, q)
    <3>1. IsInTrunk(some)
      BY <1>7, <2>1, <2>3 DEF Landings
    <3>2. IsInTrunk(some)'
      BY <1>5, <3>1
    <3>3. some = Patch(branch'[p], branch'[q])
      BY <1>1, <2>1
    <3> QED BY <3>2, <3>3 DEF IsInTrunk
  <2> QED BY <1>13, <1>15, <2>2, <2>3
<1>16. ASSUME NEW m \in 2..Len(trunk')
       PROVE  \/ \E change \in Patch(trunk'[m - 1], trunk'[m]) : change.file \in touched'
              \/ \E p, q \in Q : AreNext(Q, p, q) /\ Patch(trunk'[m - 1], trunk'[m]) = Patch(branch'[p], branch'[q])
  <2>1. CASE m = Len(trunk) + 1
    <3>1. Patch(trunk'[m - 1], trunk'[m]) = patch
      BY <1>4, <1>5, <1>14, <2>1
    <3>2. patch = Patch(branch'[l], branch'[k])
      BY <1>0, <1>1
    <3> QED BY <1>8, <1>9, <1>12, <3>1, <3>2
  <2>2. CASE m # Len(trunk) + 1
    <3>1. m \in 2..Len(trunk) /\ trunk'[m] = trunk[m] /\ trunk'[m - 1] = trunk[m - 1]
      BY <1>2, <1>5, <2>2
    <3>2. \/ \E change \in Patch(trunk[m - 1], trunk[m]) : change.file \in touched
          \/ \E p, q \in P : AreNext(P, p, q) /\ Patch(trunk[m - 1], trunk[m]) = Patch(branch[p], branch[q])
      BY <1>7, <3>1 DEF Landings
    <3> QED BY <1>1, <1>9, <1>11, <3>1, <3>2
  <2> QED BY <2>1, <2>2
<1>17. Landings(Q)'
  BY <1>1, <1>10, <1>15, <1>16, LandingsNext
<1> QED BY <1>1, <1>5, <1>6, <1>10, <1>17 DEF MergedInv, LandedInv

\* A commit of somebody else changes a file that is touched from then on.
LEMMA MergedPush ==
  ASSUME MergedInv, NEW f \in Paths, NEW content \in Contents, Push(f, content)
  PROVE  MergedInv'
<1> DEFINE tree == [Tip(trunk) EXCEPT ![f] = content]
<1>1. /\ trunk' = Append(trunk, tree) /\ touched' = touched \cup {f} /\ content # Tip(trunk)[f]
      /\ UNCHANGED <<branch, pr, deleted, trusted, landed>>
  BY DEF Push
<1>2. /\ branch \in Seq(Tree) /\ Len(branch) \in Nat /\ landed \in 1..Len(branch)
      /\ trunk \in Seq(Tree) /\ Len(trunk) \in Nat \ {0}
  BY DEF MergedInv, MergedTypes
<1>3. Tip(trunk) \in Tree /\ Tip(trunk) = trunk[Len(trunk)]
  BY <1>2 DEF Tip
<1>4. tree \in Tree /\ Tip(trunk)[f] # tree[f]
  BY <1>1, <1>3 DEF Tree
<1> HIDE DEF tree
<1>5. /\ trunk' \in Seq(Tree) /\ Len(trunk') = Len(trunk) + 1
      /\ \A i \in 1..Len(trunk) : trunk'[i] = trunk[i]
      /\ trunk'[Len(trunk) + 1] = tree
      /\ \A some : IsInTrunk(some) => IsInTrunk(some)'
      /\ OnlyLandedIsDeleted'
  BY <1>1, <1>4, TrunkGrows
<1>6. MergedTypes'
  BY <1>1, <1>2, <1>5 DEF MergedInv, MergedTypes
<1>7. PICK P \in SUBSET (1..landed) : Landings(P)
  BY DEF MergedInv, LandedInv
<1>8. ASSUME NEW p \in P, NEW q \in P, AreNext(P, p, q)
      PROVE  IsInTrunk(Patch(branch[p], branch[q]))'
  <2>1. PICK some : some = Patch(branch[p], branch[q])
    OBVIOUS
  <2>2. IsInTrunk(some)
    BY <1>7, <1>8, <2>1 DEF Landings
  <2>3. IsInTrunk(some)'
    BY <1>5, <2>2
  <2>4. some = Patch(branch'[p], branch'[q])
    BY <1>1, <2>1
  <2> QED BY <2>3, <2>4 DEF IsInTrunk
<1>9. ASSUME NEW m \in 2..Len(trunk')
      PROVE  \/ \E change \in Patch(trunk'[m - 1], trunk'[m]) : change.file \in touched'
             \/ \E p, q \in P : AreNext(P, p, q) /\ Patch(trunk'[m - 1], trunk'[m]) = Patch(branch'[p], branch'[q])
  <2>1. CASE m = Len(trunk) + 1
    <3>1. trunk'[m - 1] = Tip(trunk) /\ trunk'[m] = tree
      <4>1. m - 1 = Len(trunk) /\ Len(trunk) \in 1..Len(trunk)
        BY <1>2, <2>1
      <4> QED BY <1>3, <1>5, <2>1, <4>1
    <3>2. PICK change \in Patch(Tip(trunk), tree) : change.file = f
      BY <1>3, <1>4, PatchIs
    <3> QED BY <1>1, <3>1, <3>2
  <2>2. CASE m # Len(trunk) + 1
    <3>1. m \in 2..Len(trunk) /\ trunk'[m] = trunk[m] /\ trunk'[m - 1] = trunk[m - 1]
      BY <1>2, <1>5, <2>2
    <3>2. \/ \E change \in Patch(trunk[m - 1], trunk[m]) : change.file \in touched
          \/ \E p, q \in P : AreNext(P, p, q) /\ Patch(trunk[m - 1], trunk[m]) = Patch(branch[p], branch[q])
      BY <1>7, <3>1 DEF Landings
    <3> QED BY <1>1, <3>1, <3>2
  <2> QED BY <2>1, <2>2
<1>10. Landings(P)'
  <2>1. P \subseteq 1..landed' /\ 1 \in P /\ landed' \in P
    BY <1>1, <1>7 DEF Landings
  <2> QED BY <1>8, <1>9, <2>1, LandingsNext
<1> QED BY <1>1, <1>5, <1>6, <1>7, <1>10 DEF MergedInv, LandedInv

\* A branch that is deleted for its patches, or because it is empty, has its
\* files in the trunk.
LEMMA MergedDelete ==
  ASSUME MergedInv, IsSafeToDelete, deleted' = TRUE, trusted' = (pr \in {"CLOSED", "MERGED"}),
         UNCHANGED <<branch, trunk, pr, landed, touched>>
  PROVE  MergedInv'
<1>1. branch \in Seq(Tree) /\ Len(branch) \in Nat \ {0} /\ trunk \in Seq(Tree) /\ Len(trunk) \in Nat \ {0}
      /\ trunk[1] = branch[1] /\ DOMAIN trunk = 1..Len(trunk)
  BY DEF MergedInv, MergedTypes
<1>2. ASSUME IsMerged \/ IsBranchEmpty, NEW f \in Paths
      PROVE  \E k \in DOMAIN trunk : trunk[k][f] = Tip(branch)[f]
  <2>1. CASE IsMerged
    <3>1. Len(branch) \in 1..Len(branch) /\ Tip(branch) = branch[Len(branch)]
      BY <1>1 DEF Tip
    <3>2. \E k \in 1..Len(trunk) : trunk[k][f] = branch[LastMergedCommit[Len(branch)]][f]
      BY <3>1, FoundIsInTrunk DEF MergedInv
    <3>3. LastMergedCommit[Len(branch)] = Len(branch)
      BY <2>1 DEF IsMerged
    <3> QED BY <1>1, <3>1, <3>2, <3>3
  <2>2. CASE IsBranchEmpty
    <3>1. branch[1] \in Tree /\ Tip(branch) \in Tree
      BY <1>1 DEF Tip
    <3>2. branch[1] = Tip(branch)
      <4>1. PICK old \in Tree, new \in Tree : old = branch[1] /\ new = Tip(branch)
        BY <3>1
      <4>2. Patch(old, new) = {}
        BY <2>2, <4>1 DEF IsBranchEmpty
      <4>3. old = new
        BY <4>2, PatchIs
      <4> QED BY <4>1, <4>3
    <3>3. 1 \in DOMAIN trunk /\ trunk[1][f] = Tip(branch)[f]
      BY <1>1, <3>2
    <3> QED BY <3>3
  <2> QED BY <1>2, <2>1, <2>2
<1>3. OnlyLandedIsDeleted'
  <2> SUFFICES ASSUME ~trusted', NEW f \in Paths
               PROVE  \E k \in DOMAIN trunk' : trunk'[k][f] = Tip(branch')[f]
    BY DEF OnlyLandedIsDeleted
  <2>1. IsMerged \/ IsBranchEmpty
    BY DEF IsSafeToDelete
  <2> QED BY <1>2, <2>1
<1> QED BY <1>3, LandingsStay DEF MergedInv

\* The trunk holds the landings of the branch, part by part, and besides them
\* only commits to files that others touched, whatever lands, is committed,
\* pushed, closed or deleted (is_merged.ts:13-44).
THEOREM MergedInvHolds == MergedSpec => []MergedInv
<1>1. MergedInit => MergedInv
  BY MergedBegins
<1>2. MergedInv /\ [MergedNext]_mergedVars => MergedInv'
  <2> SUFFICES ASSUME MergedInv, [MergedNext]_mergedVars PROVE MergedInv'
    OBVIOUS
  <2>1. ASSUME NEW tree \in [Paths -> Contents], Commit(tree) PROVE MergedInv'
    BY <2>1, MergedCommit DEF Tree
  <2>2. ASSUME NEW k \in DOMAIN branch, Land(k) PROVE MergedInv'
    BY <2>2, MergedLand
  <2>3. ASSUME NEW f \in Paths, NEW content \in Contents, Push(f, content) PROVE MergedInv'
    BY <2>3, MergedPush
  <2>4. ASSUME NEW state \in {"MERGED", "CLOSED"}, EndPullRequest(state) PROVE MergedInv'
    <3>1. UNCHANGED <<branch, trunk, deleted, trusted, landed, touched>>
      BY <2>4 DEF EndPullRequest
    <3> QED BY <3>1, LandingsStay DEF MergedInv, OnlyLandedIsDeleted
  <2>5. CASE SyncDelete
    BY <2>5, MergedDelete DEF SyncDelete, ShouldDelete
  <2>6. CASE DeleteBranch
    BY <2>6, MergedDelete DEF DeleteBranch
  <2>7. CASE UNCHANGED mergedVars
    BY <2>7, LandingsStay DEF MergedInv, OnlyLandedIsDeleted, mergedVars
  <2> QED BY <2>1, <2>2, <2>3, <2>4, <2>5, <2>6, <2>7 DEF MergedNext
<1> QED BY <1>1, <1>2, PTL DEF MergedSpec

\* For any files, contents, and numbers of commits: without a word from the code
\* review service only a branch whose files have been in the trunk is deleted,
\* and one that has landed, in whatever parts, is found to have.
THEOREM WorkGoes == MergedSpec => []WorkGoesWhenLanded
<1>1. MergedInv => WorkGoesWhenLanded
  BY LandingsAreFound DEF MergedInv, WorkGoesWhenLanded
<1> QED BY <1>1, MergedInvHolds, PTL

=============================================================================
