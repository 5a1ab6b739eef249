------------------------------ MODULE MCClient ------------------------------
(***************************************************************************)
(* Four parts of GTI that share nothing, checked in one run: the           *)
(* repositories that the server holds for its windows (ServerToClientAPI); *)
(* and in a window the history of a file, and the tree of branches and the *)
(* uncommitted changes with the operations that are depicted in them.      *)
(***************************************************************************)
EXTENDS ServerToClientAPI, TLC

CONSTANTS
  c1, c2,                       \* windows
  outer, nested,                \* repositories, the second one inside the first
  top, deep,                    \* a directory of each
  x, y,                         \* lines
  Trunk, b1, b2, b3, n1, n2,    \* branches
  NoBranch,
  f1, f2,                       \* files
  Absent

VARIABLES
  part,
  code, maxRev, cached, texts, amended, edits,
  scenario, states, ops, failed, ended, fetching, channel, data, exited, resolved

logVars == <<code, maxRev, cached, texts, amended, edits>>
windowVars == <<scenario, states, ops, failed, ended, fetching, channel, data, exited, resolved>>

----------------------------------------------------------------------------
Windows == {c1, c2}
SameWindows == Permutations(Windows)

Directories == {top, deep}
TwoRoots == {outer, nested}
RootsFound == top :> outer @@ deep :> nested
Below == outer :> {outer, nested, top, deep} @@ nested :> {nested, deep}

----------------------------------------------------------------------------
Log == INSTANCE LineLog WITH Lines <- {x, y}, MaxLength <- 2, MaxRevs <- 3, MaxEdits <- 4

Tree == INSTANCE TreePreviews WITH Names <- <<n2, n1, b3, b2, b1, Trunk>>

File == INSTANCE FilePreviews WITH Files <- <<f1, f2>>

----------------------------------------------------------------------------
\* b2 stands on b1, which is checked out, and b3 beside it.
Fork ==
  [parent |-> [b \in Tree!Branches |-> CASE b = b2 -> b1 [] b \in {b1, b3} -> Trunk [] OTHER -> NoBranch],
   title  |-> [b \in Tree!Branches |-> "old"],
   head   |-> b1]

TreeScenario(kinds, bound, steady) ==
  [repo |-> Fork, kinds |-> kinds, bound |-> bound, steady |-> steady]

TreeScenarios ==
  {TreeScenario({"goto", "commit", "uncommit", "rebase", "hide", "delete", "metaedit", "amend"}, 2, FALSE),
   TreeScenario({"rebase", "hide", "uncommit"}, 3, TRUE),
   TreeScenario({"rebase", "hide", "amend"}, 3, TRUE)}

Contents(base, head, index, work) == [base |-> base, head |-> head, index |-> index, work |-> work]

\* A file that is changed in some way, and one that is new.
FileScenarios ==
  {[repo   |-> [files |-> (f1 :> old) @@ (f2 :> new), onBranch |-> TRUE],
    kinds  |-> {"add", "addAll", "reset", "resetAll", "revert", "discard", "purge",
                "commit", "amend", "uncommit"},
    bound  |-> 2,
    steady |-> TRUE]
   : old \in {Contents("a", "b", "b", "c"), Contents("a", "a", "b", "c"), Contents("a", "a", "b", "b"),
              Contents("a", "a", "a", Absent), Contents("a", "b", Absent, Absent),
              Contents("a", "a", "b", Absent), Contents("a", "a", Absent, "c")},
     new \in {Contents(Absent, Absent, Absent, "a"), Contents(Absent, Absent, "b", "c"),
              Contents(Absent, "a", "a", "a")}}

Trees == INSTANCE Previews
  WITH Scenarios <- TreeScenarios, MaxMessages <- 2,
       Succeeds <- Tree!Succeeds, Effect <- Tree!Effect, Context <- Tree!Context,
       Resolved <- Tree!Resolved, Depicted <- Tree!WithPreviews, Visible <- Tree!Visible,
       Requests <- Tree!Requests, Faithful <- Tree!Faithful

Files == INSTANCE Previews
  WITH Scenarios <- FileScenarios, MaxMessages <- 1,
       Succeeds <- File!Succeeds, Effect <- File!Effect, Context <- File!Context,
       Resolved <- File!Resolved, Depicted <- File!WithPreviews, Visible <- File!Visible,
       Requests <- File!Requests, Faithful <- File!Faithful

----------------------------------------------------------------------------
\* A server without windows.
NoServer == Init /\ patient

NoLog == code = 0 /\ maxRev = 0 /\ cached = 0 /\ texts = 0 /\ amended = 0 /\ edits = 0

NoWindow ==
  /\ scenario = 0 /\ states = 0 /\ ops = 0 /\ failed = 0 /\ ended = 0
  /\ fetching = 0 /\ channel = 0 /\ data = 0 /\ exited = 0 /\ resolved = 0

InitOfParts ==
  \/ part = "server" /\ Init /\ NoLog /\ NoWindow
  \/ part = "log" /\ Log!Init /\ NoServer /\ NoWindow
  \/ part = "tree" /\ Trees!Init /\ NoServer /\ NoLog
  \/ part = "files" /\ Files!Init /\ NoServer /\ NoLog

NextOfParts ==
  \/ part = "server" /\ Next /\ UNCHANGED <<part, logVars, windowVars>>
  \/ part = "log" /\ Log!Next /\ UNCHANGED <<part, vars, windowVars>>
  \/ part = "tree" /\ Trees!Next /\ UNCHANGED <<part, vars, logVars>>
  \/ part = "files" /\ Files!Next /\ UNCHANGED <<part, vars, logVars>>

SpecOfParts == InitOfParts /\ [][NextOfParts]_<<part, vars, logVars, windowVars>>

\* The properties of LineLog.
CheckedOutAsRecorded == part = "log" => Log!CheckedOutAsRecorded /\ Log!CachedAsExecuted
FlattenedAsCheckedOut == part = "log" => Log!FlattenedAsCheckedOut

\* The property of Previews.
PreviewsComeTrue ==
  /\ part = "tree" => Trees!PreviewsComeTrue
  /\ part = "files" => Files!PreviewsComeTrue
=============================================================================
