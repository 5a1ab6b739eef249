--------------------------- MODULE SerialExecutor ---------------------------
(***************************************************************************)
(* What the operation queue promises to the windows that use it, without   *)
(* its messages, processes and promises: operations are served one at a    *)
(* time in the order they were accepted, and a failure takes every         *)
(* operation that was accepted behind it along.                            *)
(***************************************************************************)
EXTENDS Naturals, Sequences, SequencesExt

CONSTANT Operations

VARIABLES
  asked,    \* the operations on their way to the server
  line,     \* the operations it has accepted; the first one is being served
  verdict   \* how an operation ended, "none" as long as it has not

vars == <<asked, line, verdict>>

Init ==
  /\ asked = {}
  /\ line = <<>>
  /\ verdict = [o \in Operations |-> "none"]

\* A window asks for o, once.
Ask(o) ==
  /\ o \notin asked \cup ToSet(line) /\ verdict[o] = "none"
  /\ asked' = asked \cup {o}
  /\ UNCHANGED <<line, verdict>>

\* o takes its place at the end of the line; in an empty line it is served.
Accept(o) ==
  /\ o \in asked
  /\ asked' = asked \ {o}
  /\ line' = Append(line, o)
  /\ UNCHANGED verdict

\* The operation that is served succeeds, and the next one is served.
Complete ==
  /\ line # <<>>
  /\ line' = Tail(line)
  /\ verdict' = [verdict EXCEPT ![Head(line)] = "done"]
  /\ UNCHANGED asked

\* It fails, and nothing that waits behind it is ever served.
Break ==
  /\ line # <<>>
  /\ line' = <<>>
  /\ verdict' = [o \in Operations |->
                  IF o = Head(line) THEN "failed"
                  ELSE IF o \in ToSet(Tail(line)) THEN "dropped"
                  ELSE verdict[o]]
  /\ UNCHANGED asked

Next ==
  \/ \E o \in Operations : Ask(o) \/ Accept(o)
  \/ Complete \/ Break

Spec == Init /\ [][Next]_vars
=============================================================================
