-------------------------- MODULE WatchForChanges --------------------------
(***************************************************************************)
(* When a Repository asks git for its data again (WatchForChanges.ts,      *)
(* PageFocusTracker.ts): on the changes watchman reports, when a window    *)
(* gains the focus, after an operation, and on a timer whose period        *)
(* depends on the windows and on the health of the connection to watchman. *)
(*                                                                         *)
(* Time advances by ticks.  The constants stand for the intervals of the   *)
(* code, which are 10 s, 15 s, 20 s, 60 s and 300 s; only their order      *)
(* decides what is compared with what.                                     *)
(***************************************************************************)
EXTENDS Watchman

CONSTANTS
  Pages,                                  \* the windows
  OnFocusThrottle, FocusedInterval,       \* ON_FOCUS_REFETCH_THROTTLE, ...
  OnVisibleThrottle, VisibleInterval, DefaultInterval

ASSUME IntervalsAssumption ==
  /\ {OnFocusThrottle, FocusedInterval, OnVisibleThrottle, VisibleInterval,
      DefaultInterval} \subseteq Nat \ {0}
  /\ OnFocusThrottle < FocusedInterval /\ FocusedInterval < OnVisibleThrottle
  /\ OnVisibleThrottle < VisibleInterval /\ VisibleInterval < DefaultInterval

VARIABLES
  focusedPages, visiblePages,  \* PageFocusTracker
  timer,      \* the ticks until timeout fires
  elapsed,    \* the ticks since lastFetch
  age,        \* the ticks since each kind of data was asked for
  changed,    \* whether watchman has a change of a file to report
  fresh,      \* the subscriptions that watchman reports a fresh instance for
  debounced   \* whether handleRepositoryStateChange is about to run

pollVars == <<focusedPages, visiblePages, timer, elapsed, age, changed, fresh, debounced>>

vars == <<watchmanVars, pollVars>>

\* Merge conflicts are asked for when commits are: git writes none of the
\* files that the subscription "dirstate" looks for.
Kinds == {"uncommitted changes", "commits"}

Init ==
  /\ WatchmanInit
  /\ focusedPages = {} /\ visiblePages = {}
  /\ timer = DefaultInterval /\ elapsed = 0 /\ age = [k \in Kinds |-> 0]
  /\ changed = FALSE /\ fresh = {} /\ debounced = FALSE

\* changeCallback; "everything" is Kinds.
Asked(kinds) == [k \in Kinds |-> IF k \in kinds THEN 0 ELSE age[k]]

-----------------------------------------------------------------------------
(* poll                                                                    *)

DesiredNextTickTime(focused, visible) ==
  CASE status = "healthy" -> DefaultInterval
    [] status # "healthy" /\ focused # {} -> FocusedInterval
    [] status # "healthy" /\ focused = {} /\ visible # {} -> VisibleInterval
    [] OTHER -> DefaultInterval

IsTime(kind, desired) ==
  \/ kind = "force" \/ elapsed >= desired
  \/ kind = "focused" /\ elapsed >= OnFocusThrottle
  \/ kind = "visible" /\ elapsed >= OnVisibleThrottle

\* The timer is set for the whole interval when there is less of it left.
PollFromNow(kind, focused, visible) ==
  LET desired == DesiredNextTickTime(focused, visible)
  IN IF IsTime(kind, desired)
     THEN age' = Asked(Kinds) /\ elapsed' = 0 /\ timer' = desired
     ELSE timer' = desired /\ UNCHANGED <<age, elapsed>>

\* The timer is set only after data was asked for.
PollAfterFetchOnly(kind, focused, visible) ==
  LET desired == DesiredNextTickTime(focused, visible)
  IN IF IsTime(kind, desired)
     THEN age' = Asked(Kinds) /\ elapsed' = 0 /\ timer' = desired
     ELSE UNCHANGED <<age, elapsed, timer>>

Poll(kind, focused, visible) ==
  LET desired == DesiredNextTickTime(focused, visible)
  IN IF IsTime(kind, desired)
     THEN age' = Asked(Kinds) /\ elapsed' = 0 /\ timer' = desired
     ELSE timer' = desired - elapsed /\ UNCHANGED <<age, elapsed>>

TimerFires ==
  /\ timer = 0 /\ Poll("none", focusedPages, visiblePages)
  /\ UNCHANGED <<watchmanVars, focusedPages, visiblePages, changed, fresh, debounced>>

\* Repository.runOrQueueOperation, when the operation has ended.
OperationEnds ==
  /\ Poll("force", focusedPages, visiblePages)
  /\ UNCHANGED <<watchmanVars, focusedPages, visiblePages, changed, fresh, debounced>>

\* PageFocusTracker.setState calls poll with the state.
SetState(page, state) ==
  /\ focusedPages' = IF state = "focused" THEN focusedPages \cup {page}
                     ELSE focusedPages \ {page}
  /\ visiblePages' = IF state = "hidden" THEN visiblePages \ {page}
                     ELSE visiblePages \cup {page}
  /\ Poll(state, focusedPages', visiblePages')
  /\ UNCHANGED <<watchmanVars, changed, fresh, debounced>>

-----------------------------------------------------------------------------
(* What watchman reports.                                                  *)

FileChanges ==
  /\ ~changed /\ changed' = TRUE
  /\ UNCHANGED <<watchmanVars, focusedPages, visiblePages, timer, elapsed, age,
                 fresh, debounced>>

Reports(name) == service /\ listening /\ name \in subscribed

\* handleUncommittedChanges: the data is asked for and the timer starts over.
HandleUncommittedChanges ==
  IF "files" \in heard
  THEN age' = Asked({"uncommitted changes"}) /\ elapsed' = 0
  ELSE UNCHANGED <<age, elapsed>>

\* The lists of files of "files"; its fresh instances have the same handler.
ChangeReported ==
  /\ Reports("files")
  /\ \/ changed /\ changed' = FALSE /\ UNCHANGED fresh
     \/ "files" \in fresh /\ fresh' = fresh \ {"files"} /\ UNCHANGED changed
  /\ HandleUncommittedChanges
  /\ UNCHANGED <<watchmanVars, focusedPages, visiblePages, timer, debounced>>

FreshDirstateReported ==
  /\ Reports("dirstate") /\ "dirstate" \in fresh /\ fresh' = fresh \ {"dirstate"}
  /\ debounced' = (debounced \/ "dirstate" \in heard)
  /\ UNCHANGED <<watchmanVars, focusedPages, visiblePages, timer, elapsed, age, changed>>

HandleRepositoryStateChange ==
  /\ debounced /\ debounced' = FALSE
  /\ age' = Asked(Kinds) /\ elapsed' = 0
  /\ UNCHANGED <<watchmanVars, focusedPages, visiblePages, timer, changed, fresh>>

\* The clocks of the subscriptions mean nothing to a new watchman.
AfterWatchmanStep ==
  /\ fresh' = IF service' /\ ~service THEN subscriptions ELSE fresh
  /\ UNCHANGED <<focusedPages, visiblePages, timer, elapsed, age, changed, debounced>>

WatchmanStep == WatchmanNext /\ AfterWatchmanStep

Capped(n) == IF n > DefaultInterval THEN n ELSE n + 1

\* Timers are not late by a tick, and the debounce takes less than one.
Tick ==
  /\ timer > 0 /\ ~debounced /\ timer' = timer - 1
  /\ elapsed' = Capped(elapsed) /\ age' = [k \in Kinds |-> Capped(age[k])]
  /\ UNCHANGED <<watchmanVars, focusedPages, visiblePages, changed, fresh, debounced>>

Next ==
  \/ WatchmanStep \/ FileChanges \/ ChangeReported \/ FreshDirstateReported
  \/ HandleRepositoryStateChange \/ TimerFires \/ OperationEnds \/ Tick
  \/ \E page \in Pages, state \in {"focused", "visible", "hidden"} :
       SetState(page, state)

\* Time passes, timers fire, and watchman answers.
Fairness ==
  /\ WF_vars(WatchmanProgress /\ AfterWatchmanStep)
  /\ WF_vars(TimerFires) /\ WF_vars(Tick) /\ WF_vars(HandleRepositoryStateChange)

Spec == Init /\ [][Next]_vars /\ Fairness

-----------------------------------------------------------------------------
(* Properties                                                              *)

\* The files shown are never older than the longest interval: whatever resets
\* lastFetch has asked for them, and the timer is set again for what is left.
FilesAreAskedForInTime == age["uncommitted changes"] <= DefaultInterval

\* Everything is asked for again and again, unless files change for ever: each
\* reported change starts the timer over, but asks for the files only.
EverythingIsPolledAgain ==
  []<>(age["commits"] = 0) \/ []<><<ChangeReported>>_vars

\* If watchman stays up, the watch that was once established is restored: the
\* current client has its handlers and sends the changes someone listens to,
\* and the status, which slows the polling down, says so in the end.
WatchRecovers ==
  <>[]service =>
    <>[](heard # {} => status = "healthy" /\ listening /\ heard \subseteq subscribed)
=============================================================================
