--------------------------- MODULE ComparisonView ---------------------------
(***************************************************************************)
(* The view of a comparison in a window of GTI (gti-client/src/            *)
(* ComparisonView), and how it gets what it shows: it asks the server for  *)
(* the patch of a comparison, and for the lines behind a separator that    *)
(* the user expands.  The server runs one command of fp for each request,  *)
(* at once, and posts the answers in the order in which the commands end.  *)
(* An answer is told from another by its type, and a patch by the type of  *)
(* its comparison; an answer with lines goes to everyone who waits for     *)
(* lines.                                                                  *)
(*                                                                         *)
(* The repository is a sequence of worlds, each of which gives the changed *)
(* files of each comparison the user opens, who also moves it from one to  *)
(* the next.                                                               *)
(* Not modelled: the limit of four `cat's at once, the loss of a message   *)
(* with its connection (MessageBus), the intraline difference.             *)
(***************************************************************************)
EXTENDS Patch

CONSTANTS
  Comparisons,
  TypeOfComparison, \* their types: the comparisons of two branches have the same
  Scenarios,        \* [worlds, atRoot]: atRoot if the server was started in the root of the repository
  MaxAsked          \* bound on the requests under way

VARIABLES
  worlds, atRoot, now,  \* the repository, and in which of its worlds it is
  told,      \* the world of the last commits that the window was told of
  mode,      \* currentComparisonMode
  box,       \* [Comparisons -> currentComparisonData]
  expanded,  \* the expandedSeparators of the files on the screen: pairs of file and key
  ranges,    \* the lineRange computations that are observed
  asked,     \* the requests whose command runs
  answers,   \* the answers under way
  muddled    \* two requests of one type were under way together

vars == <<worlds, atRoot, now, told, mode, box, expanded, ranges, asked, answers, muddled>>

\* `at' is the world that the data were read in, 0 while there are none and
\* for an error.
NoData == [files |-> <<>>, at |-> 0]

Init ==
  /\ \E s \in Scenarios : worlds = s.worlds /\ atRoot = s.atRoot
  /\ now = 1 /\ told = 1
  /\ mode = [visible |-> FALSE, comparison |-> CHOOSE c \in DOMAIN worlds[1] : TRUE]
  /\ box = [c \in Comparisons |-> [isLoading |-> TRUE, data |-> NoData]]
  /\ expanded = {} /\ ranges = {} /\ asked = <<>> /\ answers = <<>>
  /\ muddled = FALSE

----------------------------------------------------------------------------
(***************************************************************************)
(* The window                                                              *)
(***************************************************************************)
RequestComparison(c) == [type |-> "comparison", comparison |-> c, file |-> 1, start |-> 0, numLines |-> 0]

\* The key of a lineRange: the parameters of its request.
RequestContextLines(c, file, start, numLines) ==
  [type |-> "comparisonContextLines", comparison |-> c, file |-> file, start |-> start,
   numLines |-> numLines]

\* The ranges of the expanded separators on the screen.
Rendered(m, b, e) ==
  IF ~m.visible THEN {}
  ELSE LET files == b[m.comparison].data.files
           Gap(f, h) == GapAbove(files[f].hunks, h)
       IN  UNION {{RequestContextLines(m.comparison, f, Gap(f, h).start, Gap(f, h).numLines)
                    : h \in {i \in DOMAIN files[f].hunks :
                               Gap(f, i).exists /\ <<f, Gap(f, i).key>> \in e}}
                  : f \in DOMAIN files}

\* The files on the screen keep their separators; another file starts anew.
Kept(e, m, b) ==
  IF ~m.visible THEN {} ELSE {k \in e : k[1] \in DOMAIN b[m.comparison].data.files}

\* ExpandingSeparator: a range that is not yet observed is computed, which
\* asks for its lines.
Waiting(request) == [request |-> request, ready |-> FALSE, lines |-> <<>>]

\* Two requests of a type, or an answer to come that someone else could take.
Muddles(requests) ==
  \E i, j \in DOMAIN requests : i # j /\ requests[i].type = requests[j].type

AskFor(requests) ==
  /\ Len(asked \o requests) + Len(answers) <= MaxAsked
  /\ asked' = asked \o requests
  /\ muddled' = (\/ Muddles(asked \o requests \o [i \in DOMAIN answers |-> answers[i].request])
                 \/ muddled /\ (mode.visible \/ asked # <<>> \/ answers # <<>>))

Above(r, s) == r.file < s.file \/ (r.file = s.file /\ r.start < s.start)

\* The screen after a change: `old' are the ranges that stay observed, and
\* `first' the requests made before those of the new ranges.
Show(m, b, e, old, first) ==
  LET kept == Kept(e, m, b)
      wanted == Rendered(m, b, kept)
      stay == {r \in old : r.request \in wanted}
      new == wanted \ {r.request : r \in stay}
  IN  /\ mode' = m /\ box' = b /\ expanded' = kept
      /\ ranges' = stay \cup {Waiting(r) : r \in new}
      /\ AskFor(first \o SetToSortSeq(new, Above))

\* useComparisonData: a new comparison to show is loaded, and so is the one
\* shown on the button's request; every opening brings a new object, and the
\* data of before are shown until the answer.
ReloadComparison(c) ==
  Show([visible |-> TRUE, comparison |-> c], [box EXCEPT ![c].isLoading = TRUE], expanded, ranges,
       <<RequestComparison(c)>>)

\* A button, a shortcut or the picker of the view opens a comparison.
Open(c) ==
  /\ mode # [visible |-> TRUE, comparison |-> c]
  /\ ReloadComparison(c)
  /\ UNCHANGED <<worlds, atRoot, now, told, answers>>

Refresh ==
  /\ mode.visible
  /\ ReloadComparison(mode.comparison)
  /\ UNCHANGED <<worlds, atRoot, now, told, answers>>

Close ==
  /\ mode.visible
  /\ Show([mode EXCEPT !.visible = FALSE], box, expanded, ranges, <<>>)
  /\ UNCHANGED <<worlds, atRoot, now, told, answers>>

\* A click on a separator that hides something.
OnExpand ==
  /\ mode.visible
  /\ LET files == box[mode.comparison].data.files
     IN  \E f \in DOMAIN files : \E h \in DOMAIN files[f].hunks :
           LET gap == GapAbove(files[f].hunks, h)
           IN  /\ gap.exists /\ gap.hides > 0 /\ <<f, gap.key>> \notin expanded
               /\ Show(mode, box, expanded \cup {<<f, gap.key>>}, ranges, <<>>)
  /\ UNCHANGED <<worlds, atRoot, now, told, answers>>

\* Mutant: the lines that were fetched are kept when the head changes.
CommitsFetchedAlone ==
  /\ told # now
  /\ told' = now
  /\ UNCHANGED <<worlds, atRoot, now, mode, box, expanded, ranges, asked, answers, muddled>>

\* New commits arrive: the head is a new object, and each range on the screen
\* is computed again.
CommitsFetched ==
  /\ told # now
  /\ told' = now
  /\ Show(mode, box, expanded, {}, <<>>)
  /\ UNCHANGED <<worlds, atRoot, now, answers>>

----------------------------------------------------------------------------
(***************************************************************************)
(* The server                                                              *)
(***************************************************************************)
\* runCommand `internal-only diff', and Repository.cat with `relative-cat':
\* the path is one relative to the directory that the server runs in.
DiffOf(c) == [files |-> ParsePatch(GetDiff(worlds[now][c])), at |-> now]

\* A file that has another name before the change than after it.
IsRenamed(change) == \E m \in {"rename", "copy"} : m \in Range(change.header)

\* The window asks with the name after the change, under which there is nothing
\* before it if the file was renamed; a failed `cat' is answered as nothing,
\* which is one blank line.
LinesOf(r) ==
  LET files == worlds[now][r.comparison]
      isThere == atRoot /\ r.file \in DOMAIN files /\ ~IsRenamed(files[r.file])
      content == IF isThere THEN GetFileContents(files[r.file]) ELSE <<Blank>>
      Smaller(m, n) == IF m < n THEN m ELSE n
  IN  SubSeq(content, r.start, Smaller(r.start + r.numLines - 1, Len(content)))

Answer(r) ==
  [request |-> r,
   data    |-> IF r.type = "comparison" THEN DiffOf(r.comparison) ELSE NoData,
   lines   |-> IF r.type = "comparison" THEN <<>> ELSE LinesOf(r)]

\* A command ends.
Execute ==
  /\ \E i \in DOMAIN asked :
       /\ asked' = RemoveAt(asked, i)
       /\ answers' = Append(answers, Answer(asked[i]))
  /\ UNCHANGED <<worlds, atRoot, now, told, mode, box, expanded, ranges, muddled>>

\* "comparison": every family member of the type takes the answer.
TakeComparison(a) ==
  LET mine == {c \in Comparisons : TypeOfComparison[c] = TypeOfComparison[a.request.comparison]}
  IN  Show(mode, [c \in Comparisons |-> IF c \in mine THEN [isLoading |-> FALSE, data |-> a.data]
                                        ELSE box[c]],
           expanded, ranges, <<>>)

\* "comparisonContextLines": every range that waits takes the answer.
TakeContextLines(a) ==
  /\ ranges' = {IF r.ready THEN r ELSE [r EXCEPT !.ready = TRUE, !.lines = a.lines] : r \in ranges}
  /\ UNCHANGED <<mode, box, expanded, asked, muddled>>

Receive ==
  /\ answers # <<>>
  /\ answers' = Tail(answers)
  /\ IF Head(answers).request.type = "comparison" THEN TakeComparison(Head(answers))
     ELSE TakeContextLines(Head(answers))
  /\ UNCHANGED <<worlds, atRoot, now, told>>

\* The user edits files, commits, restacks.
Change ==
  /\ now < Len(worlds)
  /\ now' = now + 1
  /\ UNCHANGED <<worlds, atRoot, told, mode, box, expanded, ranges, asked, answers, muddled>>

Next ==
  \/ \E c \in DOMAIN worlds[now] : Open(c)
  \/ Refresh \/ Close \/ OnExpand \/ CommitsFetched
  \/ Execute \/ Receive \/ Change

----------------------------------------------------------------------------
\* The lines of a range on the screen.
FetchedFor(r) ==
  LET found == {o \in ranges : o.request = r /\ o.ready}
  IN  IF found = {} THEN <<>> ELSE (CHOOSE o \in found : TRUE).lines

RowsOfFile(f) ==
  LET hunks == box[mode.comparison].data.files[f].hunks
  IN  SplitDiffTable(hunks, {k[2] : k \in {e \in expanded : e[1] = f}},
        [gap \in {GapAbove(hunks, h) : h \in DOMAIN hunks} |->
          FetchedFor(RequestContextLines(mode.comparison, f, gap.start, gap.numLines))])

\* Nothing is lost of a patch whose last line, and of a file whose first line,
\* is not blank: the output of git is trimmed.
SurvivesTrim(changes) ==
  /\ GetDiff(changes) = FlattenSeq([i \in DOMAIN changes |-> GitFile(changes[i])]) \o <<Line("", Blank)>>
  /\ \A i \in DOMAIN changes :
       Before(changes[i].script) # <<>> => Head(Before(changes[i].script)) # Blank

\* What the view shows once it has what it asked for, of a repository that has
\* not changed since: every file that changed, with each line of it before and
\* after in its place, expanded lines included, and everything that changed.
\* Requests of one type under way together are excepted: their answers are
\* mistaken for each other (ComparisonView.tsx:86 and 132).  So is a renamed file
\* with an expanded separator: its lines are asked for with the name that it has
\* only after the change (ComparisonView.tsx:276).
ViewShowsBothFiles ==
  LET changes == worlds[now][mode.comparison]
      shown == box[mode.comparison]
  IN  (/\ mode.visible /\ asked = <<>> /\ answers = <<>> /\ ~muddled
       /\ shown.data.at = now /\ told = now
       /\ atRoot /\ SurvivesTrim(changes))
      => /\ ~shown.isLoading
         /\ [f \in DOMAIN shown.data.files |-> shown.data.files[f].path]
              = [f \in DOMAIN changes |-> changes[f].path]
         /\ \A f \in DOMAIN changes :
              \/ ShowsChange(RowsOfFile(f), changes[f].script)
              \/ IsRenamed(changes[f]) /\ \E k \in expanded : k[1] = f
=============================================================================
