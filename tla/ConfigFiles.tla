---------------------------- MODULE ConfigFiles ----------------------------
(***************************************************************************)
(* The JSON files in which fp keeps its settings and what its background   *)
(* tasks have found (lib/spiffy): the configuration of the user and that   *)
(* of the repository, the message about a new version and the pull         *)
(* requests to take over.  A process reads a file once, changes its copy   *)
(* and writes the whole copy back; nothing locks the files.  The processes *)
(* are the commands, in a terminal or started by the GTI server, and the   *)
(* two tasks that a command leaves behind; the steps of one fall between   *)
(* those of the others.                                                    *)
(* A write empties the file and fills it: who reads in between, or after   *)
(* the writer was killed, finds a file that is not JSON.                   *)
(* The values of the settings are small numbers.                           *)
(***************************************************************************)
EXTENDS Naturals, FiniteSets

CONSTANTS
  Commands,     \* the invocations of fp
  Scenarios,    \* what may happen, see FilesInit
  Values,       \* what a user gives a setting as its value
  MaxMinutes,   \* bound on the minutes that pass
  MaxReleases   \* bound on the versions of fp

\* The clock starts at 1.
ASSUME BoundsAreNumbers == MaxMinutes \in Nat \ {0}

\* What a user types is not taken for one of the values that have a name below.
ASSUME ValuesAreApart == Values \subseteq Nat /\ \A v \in Values : v > 2

VARIABLES
  file,      \* the files: what they hold, whether they are torn, who has them open
  at,        \* what each process does next
  mem,       \* what each process has read or is about to write
  world,     \* the scenario, the minute, the versions, what is asked of each command
  meant      \* what the files should hold, and what is counted for the properties

fileVars == <<file, at, mem, world, meant>>

----------------------------------------------------------------------------
Unset == 0
Off == 1      \* false, and the empty string
On == 2       \* true

UserSettings ==
  {"authToken", "fpAuthToken", "branchPrefix", "branchDate", "branchReplacement", "editor", "pager",
   "restackCommitterDateIsAuthorDate", "submitIncludeCommitMessages", "tips", "gtiConfigs"}
RepoSettings == {"trunk", "owner", "name", "remote"}

Fields ==
  [user |-> UserSettings, repo |-> RepoSettings \cup {"lastFetchedPRInfoMs"},
   message |-> {"latest", "cliVersion"}, prs |-> {"prInfoToUpsert"}]

Files == DOMAIN Fields

Initialize(f) == [field \in Fields[f] |-> Unset]
Empty == [f \in Files |-> Initialize(f)]

\* The files that are removed when they hold nothing, or no JSON.
RemoveIfEmpty == {"message", "prs"}

Removed(f) == [holds |-> Initialize(f), torn |-> FALSE, open |-> {}]

Command(c) == <<"command", c>>
UpgradePrompt(c) == <<"upgrade", c>>
RefreshPRInfo(c) == <<"prs", c>>
Processes == {"command", "upgrade", "prs"} \X Commands

Running(p) == at[p] \notin {"off", "done"}

----------------------------------------------------------------------------
\* readOrInitSpf: whether f can be loaded, what is read, and what is left of it.
Loads(f) == f \in RemoveIfEmpty \/ ~file[f].torn
Loaded(f) == file[f].holds
LeftOf(f) == IF file[f].torn /\ f \in RemoveIfEmpty THEN Removed(f) ELSE file[f]

\* writeFileSync of f by p: it opens and empties the file, and fills it.
Emptied(p, f) == [holds |-> Initialize(f), torn |-> TRUE, open |-> file[f].open \cup {p}]

\* A file that was removed meanwhile stays away.  Two copies of different
\* lengths, the shorter one written over the longer, are no JSON.
Filled(p, f, data) ==
  IF p \notin file[f].open
  THEN {file[f]}
  ELSE {[holds |-> IF torn THEN Initialize(f) ELSE data, torn |-> torn, open |-> file[f].open \ {p}]
        : torn \in IF file[f].torn THEN {FALSE} ELSE BOOLEAN}

\* p starts to write data to f; and ends it, to go on with next.
Opens(p, f, data, next) ==
  /\ file' = [file EXCEPT ![f] = Emptied(p, f)]
  /\ mem' = [mem EXCEPT ![p][f] = data]
  /\ at' = [at EXCEPT ![p] = next]

Fills(p, f) == \E filled \in Filled(p, f, mem[p][f]) : file' = [file EXCEPT ![f] = filled]

Goes(p, next) == at' = [at EXCEPT ![p] = next]
Ends(p) == Goes(p, "done") /\ mem' = [mem EXCEPT ![p] = Empty]

----------------------------------------------------------------------------
\* What each command of the user may write, given what it has read.
With(data, field, values) == {[data EXCEPT ![field] = v] : v \in values}

BranchPrefix(d) == With(d, "branchPrefix", Values \cup {Off})
BranchDate(d) == With(d, "branchDate", {On, Off})
BranchReplacement(d) == With(d, "branchReplacement", {Off, On, On + 1})
Editor(d) == With(d, "editor", Values \cup {Unset})
Pager(d) == With(d, "pager", Values \cup {Off, Unset})
RestackDate(d) == With(d, "restackCommitterDateIsAuthorDate", {On, Off})
SubmitBody(d) == With(d, "submitIncludeCommitMessages", {On, Off})
Tips(d) == With(d, "tips", {On, Off})
Auth(d) == With(d, "authToken", Values)
SetConfig(d) == With(d, "gtiConfigs", Values)
RepoOwner(d) == With(d, "owner", Values)
RepoName(d) == With(d, "name", Values)
RepoRemote(d) == With(d, "remote", Values)

\* init chooses a trunk among the branches.
SetUp(d) == With(d, "trunk", Values)

\* Commands that need no repository; the others; those among them that write
\* one of these files; and one that does not.
UserCommands ==
  {"branch-prefix", "branch-date", "branch-replacement", "editor", "pager", "restack-date",
   "submit-body", "tips", "auth"}
RepoCommands == {"set-config", "owner", "name", "remote", "init", "other"}

FileOf(kind) == IF kind \in UserCommands \cup {"set-config"} THEN "user" ELSE "repo"

Written(kind, d) ==
  CASE kind = "branch-prefix" -> BranchPrefix(d)
    [] kind = "branch-date" -> BranchDate(d)
    [] kind = "branch-replacement" -> BranchReplacement(d)
    [] kind = "editor" -> Editor(d)
    [] kind = "pager" -> Pager(d)
    [] kind = "restack-date" -> RestackDate(d)
    [] kind = "submit-body" -> SubmitBody(d)
    [] kind = "tips" -> Tips(d)
    [] kind = "auth" -> Auth(d)
    [] kind = "set-config" -> SetConfig(d)
    [] kind = "owner" -> RepoOwner(d)
    [] kind = "name" -> RepoName(d)
    [] kind = "remote" -> RepoRemote(d)
    [] kind = "init" -> SetUp(d)
    [] OTHER -> {}

----------------------------------------------------------------------------
\* The repository was set up before, or not.
Before(setUp) ==
  IF setUp THEN [Empty EXCEPT !.repo["trunk"] = On] ELSE Empty

FilesInit ==
  /\ at = [p \in Processes |-> "off"]
  /\ mem = [p \in Processes |-> Empty]
  /\ \E s \in Scenarios :
       /\ file = [f \in Files |-> [Removed(f) EXCEPT !.holds = Before(s.setUp)[f]]]
       /\ world = [scenario |-> s, minute |-> 1, latest |-> 1, version |-> 1,
                   asked |-> [c \in Commands |-> "nothing"], versions |-> [p \in Processes |-> 1]]
       /\ meant = [holds |-> Before(s.setUp), overlapped |-> FALSE, misled |-> FALSE,
                   refreshes |-> [m \in 1..MaxMinutes |-> 0]]

\* A process that is started runs the version that is installed.
Started(w, p) == [w EXCEPT !.versions[p] = w.version]

Invoke(c, kind) ==
  /\ at[Command(c)] = "off"
  /\ kind \in world.scenario.kinds
  /\ LET others == \E d \in Commands : Running(Command(d)) IN
       /\ others => world.scenario.overlapping
       /\ meant' = [meant EXCEPT !.overlapped = @ \/ others]
  /\ Goes(Command(c), "initContextLite")
  /\ world' = [Started(world, Command(c)) EXCEPT !.asked[c] = kind]
  /\ UNCHANGED <<file, mem>>

\* initContextLite reads the settings of the user, or the command ends with an
\* error; then it reads the message.
InitContextLite(c) ==
  LET p == Command(c) IN
  /\ at[p] = "initContextLite"
  /\ IF Loads("user")
     THEN /\ mem' = [mem EXCEPT ![p].user = Loaded("user"), ![p].message = Loaded("message")]
          /\ file' = [file EXCEPT !.message = LeftOf("message")]
          /\ Goes(p, "printAndClearOldMessage")
     ELSE Ends(p) /\ UNCHANGED file
  /\ UNCHANGED <<world, meant>>

\* The message is for the version that fetched it; and a mutant: for any.
IsForAnyVersion(p) == mem[p].message["latest"] # Unset

IsForThisVersion(p) ==
  mem[p].message["latest"] # Unset /\ mem[p].message["cliVersion"] = world.versions[p]

\* fetchUpgradePromptInBackground shows the message, clears it, which removes
\* the file, and starts a task that looks for the next one.
PrintAndClearOldMessage(c) ==
  LET p == Command(c) IN
  /\ at[p] = "printAndClearOldMessage"
  /\ IF IsForThisVersion(p)
     THEN /\ file' = [file EXCEPT !.message = Removed("message")]
          /\ meant' = [meant EXCEPT !.misled = @ \/ mem[p].message["latest"] <= world.versions[p]]
     ELSE UNCHANGED <<file, meant>>
  /\ at' = [at EXCEPT ![p] = IF world.asked[c] \in UserCommands THEN "handler" ELSE "initContext",
                      ![UpgradePrompt(c)] = "fetchUpgradePrompt"]
  /\ world' = Started(world, UpgradePrompt(c))
  /\ UNCHANGED mem

\* initContext reads the settings of the repository, or the command ends with
\* an error; what a task has left of the pull requests is taken over.
InitContext(c) ==
  LET p == Command(c) IN
  /\ at[p] = "initContext"
  /\ IF Loads("repo")
     THEN /\ mem' = [mem EXCEPT ![p].repo = Loaded("repo")]
          /\ file' = [file EXCEPT !.prs = Removed("prs")]
          /\ Goes(p, "refreshPRInfoInBackground")
     ELSE Ends(p) /\ UNCHANGED file
  /\ UNCHANGED <<world, meant>>

GraphiteInitialized(data) == data["trunk"] # Unset

\* Once a minute, in a repository that is initialized; mutants: in any, and
\* again within the minute.
IsDueAnywhere(data) == data["lastFetchedPRInfoMs"] < world.minute
IsDueAgain(data) == GraphiteInitialized(data) /\ data["lastFetchedPRInfoMs"] <= world.minute
IsDue(data) == GraphiteInitialized(data) /\ data["lastFetchedPRInfoMs"] < world.minute

RefreshPRInfoInBackground(c) ==
  LET p == Command(c) data == mem[p].repo IN
  /\ at[p] = "refreshPRInfoInBackground"
  /\ IF IsDue(data)
     THEN Opens(p, "repo", [data EXCEPT !["lastFetchedPRInfoMs"] = world.minute], "spawnDetached")
     ELSE Goes(p, "graphiteHelper") /\ UNCHANGED <<file, mem>>
  /\ UNCHANGED <<world, meant>>

\* The time is written before the task is started.
SpawnDetached(c) ==
  LET p == Command(c) IN
  /\ at[p] = "spawnDetached"
  /\ Fills(p, "repo")
  /\ at' = [at EXCEPT ![p] = "graphiteHelper", ![RefreshPRInfo(c)] = "refreshPRInfo"]
  /\ meant' = [meant EXCEPT !.refreshes[mem[p].repo["lastFetchedPRInfoMs"]] = @ + 1]
  /\ world' = Started(world, RefreshPRInfo(c))
  /\ UNCHANGED mem

\* Every command but repo init sets up the repository first, which fails if
\* there is no branch or none is chosen.
GraphiteHelper(c) ==
  LET p == Command(c) data == mem[p].repo IN
  /\ at[p] = "graphiteHelper"
  /\ IF GraphiteInitialized(data) \/ world.asked[c] = "init"
     THEN Goes(p, "handler") /\ UNCHANGED <<file, mem>>
     ELSE \/ \E new \in SetUp(data) : Opens(p, "repo", new, "setTrunk")
          \/ Ends(p) /\ UNCHANGED file
  /\ UNCHANGED <<world, meant>>

Saved(f, data) == meant' = [meant EXCEPT !.holds[f] = data]

SetTrunk(c) ==
  LET p == Command(c) IN
  /\ at[p] = "setTrunk"
  /\ Fills(p, "repo")
  /\ Saved("repo", mem[p].repo)
  /\ Goes(p, "handler")
  /\ UNCHANGED <<mem, world>>

\* The handler writes a setting, or only prints it.  (restack-date compares the
\* type of its option with undefined, not with its name, and always writes.)
Handler(c) ==
  LET p == Command(c) kind == world.asked[c] f == FileOf(kind) IN
  /\ at[p] = "handler"
  /\ \/ \E new \in Written(kind, mem[p][f]) : Opens(p, f, new, "update")
     \/ kind # "restack-date" /\ Ends(p) /\ UNCHANGED file
  /\ UNCHANGED <<world, meant>>

Update(c) ==
  LET p == Command(c) f == FileOf(world.asked[c]) IN
  /\ at[p] = "update"
  /\ Fills(p, f)
  /\ Saved(f, mem[p][f])
  /\ IF world.asked[c] = "auth" THEN Goes(p, "secondToken") /\ UNCHANGED mem ELSE Ends(p)
  /\ UNCHANGED world

\* auth writes the file once for each of the two names of the token.
SecondToken(c) ==
  LET p == Command(c) data == mem[p].user IN
  /\ at[p] = "secondToken"
  /\ Opens(p, "user", [data EXCEPT !["fpAuthToken"] = data["authToken"]], "updateSecond")
  /\ UNCHANGED <<world, meant>>

UpdateSecond(c) ==
  LET p == Command(c) IN
  /\ at[p] = "updateSecond"
  /\ Fills(p, "user")
  /\ Saved("user", mem[p].user)
  /\ Ends(p)
  /\ UNCHANGED world

----------------------------------------------------------------------------
\* The task that looks for a new version reads the message when it starts,
\* asks the registry, and writes or clears the message; without an answer it
\* ends.
FetchUpgradePrompt(c) ==
  LET p == UpgradePrompt(c) IN
  /\ at[p] = "fetchUpgradePrompt"
  /\ file' = [file EXCEPT !.message = LeftOf("message")]
  /\ Goes(p, "registry")
  /\ UNCHANGED <<mem, world, meant>>

RegistryAnswers(c) ==
  LET p == UpgradePrompt(c) IN
  /\ at[p] = "registry"
  /\ \/ Ends(p)
     \/ /\ mem' = [mem EXCEPT ![p].message["latest"] = world.latest]
        /\ Goes(p, "compare")
  /\ UNCHANGED <<file, world, meant>>

Compare(c) ==
  LET p == UpgradePrompt(c) latest == mem[p].message["latest"] IN
  /\ at[p] = "compare"
  /\ IF latest > world.versions[p]
     THEN Opens(p, "message", [mem[p].message EXCEPT !["cliVersion"] = world.versions[p]], "setMessage")
     ELSE /\ file' = [file EXCEPT !.message = Removed("message")]
          /\ Ends(p)
  /\ UNCHANGED <<world, meant>>

SetMessage(c) ==
  LET p == UpgradePrompt(c) IN
  /\ at[p] = "setMessage"
  /\ Fills(p, "message")
  /\ Ends(p)
  /\ UNCHANGED <<world, meant>>

\* The task that fetches the pull requests; it removes its file if the settings
\* cannot be read, or the request fails.
RefreshPRInfoTask(c) ==
  LET p == RefreshPRInfo(c) IN
  /\ at[p] = "refreshPRInfo"
  /\ \/ /\ Loads("user") /\ Loads("repo")
        /\ file' = [file EXCEPT !.prs = LeftOf("prs")]
        /\ mem' = [mem EXCEPT ![p].repo = Loaded("repo")]
        /\ Goes(p, "getPrInfoForBranches")
     \/ /\ file' = [file EXCEPT !.prs = Removed("prs")]
        /\ Ends(p)
  /\ UNCHANGED <<world, meant>>

GetPrInfoForBranches(c) ==
  LET p == RefreshPRInfo(c) IN
  /\ at[p] = "getPrInfoForBranches"
  /\ \/ Opens(p, "prs", [mem[p].prs EXCEPT !["prInfoToUpsert"] = On], "setPrInfo")
     \/ /\ file' = [file EXCEPT !.prs = Removed("prs")]
        /\ Ends(p)
  /\ UNCHANGED <<world, meant>>

SetPrInfo(c) ==
  LET p == RefreshPRInfo(c) IN
  /\ at[p] = "setPrInfo"
  /\ Fills(p, "prs")
  /\ Ends(p)
  /\ UNCHANGED <<world, meant>>

----------------------------------------------------------------------------
Kill(p) ==
  /\ world.scenario.kills
  /\ Running(p)
  /\ Ends(p)
  /\ UNCHANGED <<file, world, meant>>

Minute ==
  /\ world.minute < MaxMinutes /\ world.scenario.time
  /\ world' = [world EXCEPT !.minute = @ + 1]
  /\ UNCHANGED <<file, at, mem, meant>>

Release ==
  /\ world.latest < MaxReleases /\ world.scenario.releases
  /\ world' = [world EXCEPT !.latest = @ + 1]
  /\ UNCHANGED <<file, at, mem, meant>>

\* The user installs another version.
Install ==
  /\ \E v \in 1..world.latest : v # world.version /\ world' = [world EXCEPT !.version = v]
  /\ UNCHANGED <<file, at, mem, meant>>

FilesNext ==
  \/ \E c \in Commands :
       \/ \E kind \in UserCommands \cup RepoCommands : Invoke(c, kind)
       \/ InitContextLite(c) \/ PrintAndClearOldMessage(c) \/ InitContext(c)
       \/ RefreshPRInfoInBackground(c) \/ SpawnDetached(c) \/ GraphiteHelper(c) \/ SetTrunk(c)
       \/ Handler(c) \/ Update(c) \/ SecondToken(c) \/ UpdateSecond(c)
       \/ FetchUpgradePrompt(c) \/ RegistryAnswers(c) \/ Compare(c) \/ SetMessage(c)
       \/ RefreshPRInfoTask(c) \/ GetPrInfoForBranches(c) \/ SetPrInfo(c)
  \/ \E p \in Processes : Kill(p)
  \/ Minute \/ Release \/ Install

FilesSpec == FilesInit /\ [][FilesNext]_fileVars

----------------------------------------------------------------------------
\* A repository that was set up stays so, whatever runs at the same time: no
\* command writes a copy that it read before (runner.ts:130, fetch_pr_info.ts:12).
StaysInitialized ==
  GraphiteInitialized(meant.holds.repo) /\ ~file.repo.torn => GraphiteInitialized(file.repo.holds)

\* Commands that run one after the other keep each other's settings, and ask for
\* the pull requests once a minute, whatever their tasks do meanwhile
\* (fetch_pr_info.ts:23 "so that we don't incur a possible race condition").
SettingsAreKept ==
  ~meant.overlapped =>
    /\ ~file.user.torn => file.user.holds = meant.holds.user
    /\ ~file.repo.torn => \A field \in RepoSettings : file.repo.holds[field] = meant.holds.repo[field]
    /\ \A m \in 1..MaxMinutes : meant.refreshes[m] <= 1

\* Nobody is told to upgrade to a version that is not newer, however late a task
\* of the old version ends (upgrade_prompt.ts:14).
ToldOfNewVersionsOnly == ~meant.misled

\* What the files hold is what was meant to be in them, in these three senses.
FilesAreKept == StaysInitialized /\ SettingsAreKept /\ ToldOfNewVersionsOnly

=============================================================================
