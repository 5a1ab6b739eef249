---------------------------- MODULE WatchProofs ----------------------------
(***************************************************************************)
(* Theorems about WatchForChanges: whatever watchman, the windows and the  *)
(* operations do, and for any intervals in the order of the code's, the    *)
(* files a Repository holds never become older than the longest interval.  *)
(***************************************************************************)
EXTENDS WatchForChanges, TLAPS

(***************************************************************************)
(* The invariant.  The age of the files is bounded by the ticks since      *)
(* lastFetch, because whatever resets lastFetch has asked for the files;   *)
(* and those ticks are bounded because the timer is always set for what is *)
(* left of an interval, so that both together never exceed the longest     *)
(* one.                                                                    *)
(***************************************************************************)
TimesAreNumbers ==
  /\ timer \in Nat /\ elapsed \in Nat
  /\ age \in [Kinds -> Nat]

FilesAge == age["uncommitted changes"]

FilesAskedForWithLastFetch == FilesAge <= elapsed

TimerIsSetForTheRest == elapsed + timer <= DefaultInterval

TimingInv == TimesAreNumbers /\ FilesAskedForWithLastFetch /\ TimerIsSetForTheRest

----------------------------------------------------------------------------
(***************************************************************************)
(* The parts of a step                                                     *)
(***************************************************************************)
LEMMA IntervalsAreNumbers ==
  /\ DefaultInterval \in Nat /\ 0 < DefaultInterval
  /\ FocusedInterval \in 1..DefaultInterval /\ VisibleInterval \in 1..DefaultInterval
BY IntervalsAssumption

\* The age of the files is one of the ages.
LEMMA FilesAgeIsANumber ==
  ASSUME NEW ages \in [Kinds -> Nat]
  PROVE  ages["uncommitted changes"] \in Nat
<1>1. "uncommitted changes" \in Kinds
  BY DEF Kinds
<1> QED BY <1>1

\* Every choice of poll is one of the intervals.
LEMMA DesiredIsAnInterval ==
  ASSUME NEW focused, NEW visible
  PROVE  DesiredNextTickTime(focused, visible) \in 1..DefaultInterval
<1>1. DesiredNextTickTime(focused, visible)
        \in {FocusedInterval, VisibleInterval, DefaultInterval}
  <2>1. CASE status = "healthy"
    BY <2>1, Zenon DEF DesiredNextTickTime
  <2>2. CASE status # "healthy" /\ focused # {}
    BY <2>2, Zenon DEF DesiredNextTickTime
  <2>3. CASE status # "healthy" /\ focused = {} /\ visible # {}
    BY <2>3, Zenon DEF DesiredNextTickTime
  <2>4. CASE status # "healthy" /\ focused = {} /\ visible = {}
    BY <2>4, Zenon DEF DesiredNextTickTime
  <2> QED BY <2>1, <2>2, <2>3, <2>4
<1> QED BY <1>1, IntervalsAreNumbers

\* Asking for some kinds of data makes those new and leaves the others.
LEMMA AskingFor ==
  ASSUME TimesAreNumbers, NEW kinds, age' = Asked(kinds), "uncommitted changes" \in kinds
  PROVE  age' \in [Kinds -> Nat] /\ FilesAge' = 0
<1>1. age' \in [Kinds -> Nat]
  BY DEF TimesAreNumbers, Asked
<1>2. "uncommitted changes" \in Kinds
  BY DEF Kinds
<1>3. Asked(kinds)["uncommitted changes"] = 0
  BY <1>2, Zenon DEF Asked
<1>4. FilesAge' = Asked(kinds)["uncommitted changes"]
  BY Zenon DEF FilesAge
<1> QED BY <1>1, <1>3, <1>4, Zenon

LEMMA AskingForEverything ==
  ASSUME TimesAreNumbers, age' = Asked(Kinds)
  PROVE  age' \in [Kinds -> Nat] /\ FilesAge' = 0
<1>1. "uncommitted changes" \in Kinds
  BY DEF Kinds
<1> QED BY <1>1, AskingFor

\* Whatever asks for a poll, the timer is set for the rest of an interval.
LEMMA PollKeepsTiming ==
  ASSUME TimingInv, NEW kind, NEW focused, NEW visible, Poll(kind, focused, visible)
  PROVE  TimingInv'
<1> DEFINE desired == DesiredNextTickTime(focused, visible)
<1>1. desired \in 1..DefaultInterval /\ DefaultInterval \in Nat
  BY DesiredIsAnInterval, IntervalsAreNumbers
<1>2. CASE IsTime(kind, desired)
  <2>1. age' = Asked(Kinds) /\ elapsed' = 0 /\ timer' = desired
    BY <1>2 DEF Poll
  <2>2. age' \in [Kinds -> Nat] /\ FilesAge' = 0
    BY <2>1, AskingForEverything DEF TimingInv
  <2> HIDE DEF desired
  <2> QED BY <1>1, <2>1, <2>2 DEF TimingInv, TimesAreNumbers, FilesAskedForWithLastFetch,
            TimerIsSetForTheRest
<1>3. CASE ~IsTime(kind, desired)
  <2>1. timer' = desired - elapsed /\ age' = age /\ elapsed' = elapsed
    BY <1>3 DEF Poll
  <2>2. ~(elapsed >= desired)
    BY <1>3 DEF IsTime
  <2>3. FilesAge' = FilesAge
    BY <2>1 DEF FilesAge
  <2> HIDE DEF desired
  <2> QED BY <1>1, <2>1, <2>2, <2>3 DEF TimingInv, TimesAreNumbers,
            FilesAskedForWithLastFetch, TimerIsSetForTheRest
<1> QED BY <1>2, <1>3

\* The files are asked for and lastFetch reset; the timer stays as it was.
LEMMA AskingKeepsTiming ==
  ASSUME TimingInv, elapsed' = 0, timer' = timer, age' \in [Kinds -> Nat], FilesAge' = 0
  PROVE  TimingInv'
<1>1. /\ timer \in Nat /\ elapsed \in Nat /\ DefaultInterval \in Nat
      /\ elapsed + timer <= DefaultInterval
  BY IntervalsAreNumbers DEF TimingInv, TimesAreNumbers, TimerIsSetForTheRest
<1>2. elapsed' \in Nat /\ timer' \in Nat /\ elapsed' + timer' <= DefaultInterval
  BY <1>1
<1> QED BY <1>2 DEF TimingInv, TimesAreNumbers, FilesAskedForWithLastFetch,
          TimerIsSetForTheRest

LEMMA NotAskingKeepsTiming ==
  ASSUME TimingInv, elapsed' = elapsed, timer' = timer, age' = age
  PROVE  TimingInv'
<1>1. FilesAge' = FilesAge
  BY DEF FilesAge
<1> QED BY <1>1 DEF TimingInv, TimesAreNumbers, FilesAskedForWithLastFetch,
          TimerIsSetForTheRest

\* A tick takes from the timer what it adds to the ticks since lastFetch.
LEMMA TickKeepsTiming ==
  ASSUME TimingInv, Tick
  PROVE  TimingInv'
<1>1. /\ timer > 0 /\ timer' = timer - 1
      /\ elapsed' = Capped(elapsed) /\ age' = [k \in Kinds |-> Capped(age[k])]
  BY DEF Tick
<1>2. /\ timer \in Nat /\ elapsed \in Nat /\ DefaultInterval \in Nat
      /\ elapsed + timer <= DefaultInterval
      /\ age \in [Kinds -> Nat] /\ FilesAge <= elapsed
  BY IntervalsAreNumbers DEF TimingInv, TimesAreNumbers, FilesAskedForWithLastFetch,
     TimerIsSetForTheRest
<1>3. FilesAge \in Nat
  BY <1>2, FilesAgeIsANumber DEF FilesAge
<1>4. FilesAge' = Capped(FilesAge)
  <2>1. "uncommitted changes" \in Kinds
    BY DEF Kinds
  <2> QED BY <1>1, <2>1, Zenon DEF FilesAge
<1>5. elapsed' = elapsed + 1 /\ FilesAge' = FilesAge + 1
  BY <1>1, <1>2, <1>3, <1>4 DEF Capped
<1>6. age' \in [Kinds -> Nat]
  BY <1>1, <1>2 DEF Capped
<1>7. timer' \in Nat /\ elapsed' \in Nat /\ elapsed' + timer' <= DefaultInterval
  BY <1>1, <1>2, <1>5
<1>8. FilesAge' <= elapsed'
  BY <1>2, <1>3, <1>5
<1> QED BY <1>6, <1>7, <1>8 DEF TimingInv, TimesAreNumbers,
          FilesAskedForWithLastFetch, TimerIsSetForTheRest

----------------------------------------------------------------------------
LEMMA InitTiming == Init => TimingInv
<1> SUFFICES ASSUME Init PROVE TimingInv
  OBVIOUS
<1>1. timer = DefaultInterval /\ elapsed = 0 /\ age = [k \in Kinds |-> 0]
  BY DEF Init
<1>2. age \in [Kinds -> Nat]
  BY <1>1
<1>3. FilesAge = 0
  <2>1. "uncommitted changes" \in Kinds
    BY DEF Kinds
  <2> QED BY <1>1, <2>1, Zenon DEF FilesAge
<1>4. elapsed \in Nat /\ timer \in Nat /\ elapsed + timer <= DefaultInterval
  BY <1>1, IntervalsAreNumbers
<1>5. FilesAge <= elapsed
  BY <1>1, <1>3
<1> QED BY <1>2, <1>4, <1>5 DEF TimingInv, TimesAreNumbers, FilesAskedForWithLastFetch,
          TimerIsSetForTheRest

LEMMA NextTiming == TimingInv /\ [Next]_vars => TimingInv'
<1> SUFFICES ASSUME TimingInv, [Next]_vars PROVE TimingInv'
  OBVIOUS
<1>1. CASE TimerFires BY <1>1, PollKeepsTiming DEF TimerFires
<1>2. CASE OperationEnds BY <1>2, PollKeepsTiming DEF OperationEnds
<1>3. CASE \E page \in Pages, state \in {"focused", "visible", "hidden"} :
             SetState(page, state)
  <2>1. PICK page \in Pages, state \in {"focused", "visible", "hidden"} :
          Poll(state, focusedPages', visiblePages')
    BY <1>3 DEF SetState
  <2> QED BY <2>1, PollKeepsTiming
<1>4. CASE ChangeReported
  <2>1. timer' = timer /\ HandleUncommittedChanges
    BY <1>4 DEF ChangeReported
  <2>2. CASE age' = Asked({"uncommitted changes"}) /\ elapsed' = 0
    <3>1. "uncommitted changes" \in {"uncommitted changes"}
      OBVIOUS
    <3> QED BY <2>1, <2>2, <3>1, AskingFor, AskingKeepsTiming DEF TimingInv
  <2>3. CASE age' = age /\ elapsed' = elapsed
    BY <2>1, <2>3, NotAskingKeepsTiming
  <2> QED BY <2>1, <2>2, <2>3 DEF HandleUncommittedChanges
<1>5. CASE HandleRepositoryStateChange
  BY <1>5, AskingForEverything, AskingKeepsTiming DEF HandleRepositoryStateChange, TimingInv
<1>6. CASE Tick BY <1>6, TickKeepsTiming
<1>7. CASE WatchmanStep \/ FileChanges \/ FreshDirstateReported \/ UNCHANGED vars
  <2>1. timer' = timer /\ elapsed' = elapsed /\ age' = age
    BY <1>7 DEF WatchmanStep, AfterWatchmanStep, FileChanges, FreshDirstateReported, vars,
       pollVars
  <2> QED BY <2>1, NotAskingKeepsTiming
<1> QED BY <1>1, <1>2, <1>3, <1>4, <1>5, <1>6, <1>7 DEF Next

\* lastFetch never lies further back than the longest interval, and the timer
\* always fires before it would (WatchForChanges.poll).
THEOREM TimerIsAlwaysSet == Spec => []TimingInv
BY InitTiming, NextTiming, PTL DEF Spec

\* The files shown are never older than the longest interval, whatever the
\* state of watchman, of the windows and of the operations
\* (WatchForChanges.poll, handleUncommittedChanges).
THEOREM FilesAreRecent == Spec => []FilesAreAskedForInTime
<1>1. TimingInv => FilesAreAskedForInTime
  <2> SUFFICES ASSUME TimingInv PROVE FilesAreAskedForInTime
    OBVIOUS
  <2>1. FilesAge \in Nat
    BY FilesAgeIsANumber DEF FilesAge, TimingInv, TimesAreNumbers
  <2>2. FilesAge <= DefaultInterval
    BY <2>1, IntervalsAreNumbers DEF TimingInv, TimesAreNumbers, FilesAskedForWithLastFetch,
       TimerIsSetForTheRest
  <2> QED BY <2>2, Zenon DEF FilesAge, FilesAreAskedForInTime
<1> QED BY <1>1, TimerIsAlwaysSet, PTL
=============================================================================
