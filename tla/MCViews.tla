------------------------------ MODULE MCViews ------------------------------
(***************************************************************************)
(* Five views of a repository, checked in one run: the comparison of files *)
(* in a window of GTI (ComparisonView), its form for commit messages       *)
(* (CommitForm), its list of branches (CommitTree), its list of conflicts  *)
(* (MergeConflicts), and the diffs that VS Code shows (DiffContent).       *)
(*                                                                         *)
(* A behaviour is one of one part.  The form, the conflicts and the diffs  *)
(* keep their variables, which stay as they are at first in the behaviours *)
(* of other parts; v1, v2, ... stand for the variables of the other two,   *)
(* and are 0 where a part has no use for them.                             *)
(***************************************************************************)
EXTENDS Integers, TLC, CommitForm, MergeConflicts, DiffContent

CONSTANTS
  f, g,   \* files with conflicts
  Parts   \* the parts to check

\* Nothing tells the files with conflicts apart, and only states are checked.
Symmetry == Permutations({f, g})

VARIABLES part, v1, v2, v3, v4, v5, v6, v7, v8, v9, v10, v11

viewVars == <<v1, v2, v3, v4, v5, v6>>
rest == <<v7, v8, v9, v10, v11>>
vars == <<viewVars, rest>>

----------------------------------------------------------------------------
(***************************************************************************)
(* The comparison view                                                     *)
(***************************************************************************)
Marks == {" ", "-", "+"}

\* git writes the removed lines of a change before the added ones.
IsScript(marks) ==
  /\ \E i \in DOMAIN marks : marks[i] # " "
  /\ \A i \in 1..Len(marks) - 1 : marks[i] = "+" => marks[i + 1] # "-"

\* Every script of up to n lines, at most one of them blank.
ScriptsOf(n) ==
  {[i \in DOMAIN marks |-> [mark |-> marks[i], text |-> IF i = blank THEN 0 ELSE i]]
   : marks \in {m \in UNION {[1..k -> Marks] : k \in 1..n} : IsScript(m)}, blank \in 0..n}

Changed(path, header, script) == [path |-> path, header |-> header, script |-> script]

Script(marks, base) == [i \in DOMAIN marks |-> [mark |-> marks[i], text |-> base + i]]

Renamed == Changed("g", <<"old", "new", "similarity", "rename">>, Script(<<" ", " ", " ", "-", "+">>, 50))
Moved == Changed("g", <<"similarity", "rename">>, <<>>)

World(c, changes) == [x \in {c} |-> changes]

\* Two separators, the second of which hides one line or two.
Wide == Script(<<" ", " ", "-", " ", " ", " ", "+", " ">>, 10)
Edited == Script(<<" ", " ", "-", "+", " ", " ", " ", " ", "-", "-">>, 10)
Committed == Script(<<" ", " ", "+", " ", " ", " ", "-", "+", " ">>, 20)

Showing(worlds_, root) == [worlds |-> worlds_, atRoot |-> root]

ViewScenarios ==
  {Showing(<<World("uncommitted", <<Changed("f", <<>>, s)>>)>>, TRUE) : s \in ScriptsOf(4)}
  \cup
  {Showing(<<World("uncommitted", <<Changed("f", <<>>, Wide), Renamed>>),
           World("uncommitted", then)>>, TRUE)
   : then \in {<<Changed("f", <<>>, Edited)>>, <<Moved, Changed("h", <<"added">>, Script(<<"+">>, 0))>>,
               <<Changed("f", <<>>, Committed)>>, <<>>}}
  \cup
  {Showing(<<World("uncommitted", <<Changed("f", <<>>, Edited), Renamed>>)>>, FALSE)}
  \cup
  {Showing(<<("b1" :> <<Changed("f", <<>>, Wide)>>) @@ ("b2" :> <<Changed("f", <<>>, Committed)>>)>>, TRUE)}

Comparison == INSTANCE ComparisonView
  WITH Unified <- 1, Blank <- 0,
       Comparisons <- {"uncommitted", "b1", "b2"},
       TypeOfComparison <- ("uncommitted" :> "uncommitted" @@ "b1" :> "committed" @@ "b2" :> "committed"),
       Scenarios <- ViewScenarios, MaxAsked <- 2,
       worlds <- v1, atRoot <- v2, now <- v3, told <- v4, mode <- v5, box <- v6, expanded <- v7,
       ranges <- v8, asked <- v9, answers <- v10, muddled <- v11

----------------------------------------------------------------------------
(***************************************************************************)
(* The form: a branch on a branch on the trunk, and one to be created; at  *)
(* first the upper one is checked out, and files are changed               *)
(***************************************************************************)
FormBranches == {"main", "a", "b"}
FormParents == "main" :> "" @@ "a" :> "main" @@ "b" :> "a"
NoPrs == [b \in FormBranches |-> "none"]

FormStart == FormInit /\ repo.head = "b" /\ repo.dirty

ASSUME FormAssumption

----------------------------------------------------------------------------
(***************************************************************************)
(* The list of branches: three branches in a row, as a fan, with merged    *)
(* ones, with pull requests for some, and with some to be restacked        *)
(***************************************************************************)
TreeOf(parent, public, prs, restack, top) ==
  [parent |-> ("main" :> "" @@ parent), public |-> {"main"} \cup public, prs |-> prs,
   restack |-> restack, head |-> top, dirty |-> FALSE]

InARow == "a" :> "main" @@ "b" :> "a" @@ "c" :> "b"
AsAFan == "a" :> "main" @@ "b" :> "a" @@ "c" :> "a"

TreeRepos ==
  {TreeOf(InARow, {"a"}, {"a"}, {"c"}, "b"), TreeOf(AsAFan, {}, {"b"}, {"b", "c"}, "main")}

List == INSTANCE CommitTree
  WITH Names <- <<"c", "b", "a", "main">>, Trunk <- "main", NoBranch <- "",
       Repos <- TreeRepos, MaxTurns <- 1,
       repo <- v1, previewed <- v2, dragged <- v3, selected <- v4, last <- v5, turns <- v6

----------------------------------------------------------------------------
(***************************************************************************)
(* The conflicts                                                           *)
(***************************************************************************)
ConflictsStart == ConflictsInit /\ (part = "conflicts" \/ rebase = NotInConflict)

----------------------------------------------------------------------------
(***************************************************************************)
(* The diffs of VS Code: a file in a repository, and two folders of it     *)
(***************************************************************************)
DiffFolders == {"/r", "/r/d"}
DiffPaths == DiffFolders \cup {"/r/f"}

DiffRoots == [path \in DiffPaths |-> "/r"]
DiffInside == "/r" :> DiffPaths
DiffDocuments == {[file |-> "/r/f", type |-> "uncommitted", ref |-> ""]}

ASSUME DiffAssumption

----------------------------------------------------------------------------
InitOfParts ==
  /\ part \in Parts
  /\ FormStart /\ ConflictsStart /\ DiffInit
  /\ IF part = "comparison" THEN Comparison!Init
     ELSE /\ v7 = 0 /\ v8 = 0 /\ v9 = 0 /\ v10 = 0 /\ v11 = 0
          /\ IF part = "tree" THEN List!Init
             ELSE v1 = 0 /\ v2 = 0 /\ v3 = 0 /\ v4 = 0 /\ v5 = 0 /\ v6 = 0

Compare == part = "comparison" /\ Comparison!Next /\ UNCHANGED <<part, formVars, conflictVars, diffVars>>
Write == part = "form" /\ FormNext /\ UNCHANGED <<part, vars, conflictVars, diffVars>>
Pick == part = "tree" /\ List!Next /\ UNCHANGED <<part, rest, formVars, conflictVars, diffVars>>
Settle == part = "conflicts" /\ ConflictsNext /\ UNCHANGED <<part, vars, formVars, diffVars>>
Open == part = "diff" /\ DiffNext /\ UNCHANGED <<part, vars, formVars, conflictVars>>

NextOfParts == Compare \/ Write \/ Pick \/ Settle \/ Open

SpecOfParts == InitOfParts /\ [][NextOfParts]_<<part, vars, formVars, conflictVars, diffVars>>

\* The properties of the parts that are instances; the other three have their own.
ViewShowsBothFiles == part = "comparison" => Comparison!ViewShowsBothFiles
ShownTreeIsTheRealOne == part = "tree" => List!ShownTreeIsTheRealOne

=============================================================================
