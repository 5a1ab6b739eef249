--------------------------- MODULE ServerProcess ---------------------------
(***************************************************************************)
(* Who starts, finds, re-uses and kills the GTI server of one port.        *)
(*                                                                         *)
(* Every `gt interactive` is a proxy that runs runProxyMain: it starts a   *)
(* server, or finds the port in use, recovers the token of the server from *)
(* the file of the port, makes the server prove that it is the one, and    *)
(* re-uses or kills it.  The server closes itself a minute after a window  *)
(* was closed, if no reference to a Repository is held then.  Proxies and  *)
(* servers are processes of their own; each access to the file, each       *)
(* request and each signal is a step.                                      *)
(***************************************************************************)
EXTENDS Integers, Sequences, FiniteSets

CONSTANTS
  Proxies,      \* the invocations of `gt interactive`
  Openers,      \* those that open a window (not --no-open)
  Movers,       \* those in whose window another directory is chosen
  Foreign,      \* whether another program uses the port
  Updated,      \* those with another version of gt, or another command
  Tries         \* how often the file is read before it is given up

ASSUME ConstantsAssumption ==
  /\ Openers \subseteq Proxies /\ Updated \subseteq Proxies /\ Movers \subseteq Openers
  /\ Foreign \in BOOLEAN /\ Tries \in Nat \ {0}

VARIABLES
  proxy,     \* for each invocation, where it is in runProxyMain
  servers,   \* every server there was; its position stands for its tokens
  file,      \* what reusable_server_<port> says
  window,    \* the window of an invocation
  reliable   \* whether processes are only stopped by the code's own signals,
             \* the file can be written and is written in the time readers wait

vars == <<proxy, servers, file, window, reliable>>

None == 0

\* A file that is missing, or that is just being written, cannot be parsed.
Unreadable == [server |-> None, version |-> "none"]

Modes == {"start", "foreground", "force", "kill"}

\* The option --foreground is combined with none of the others here.
Idle == [pc |-> "idle", mode |-> "start", info |-> Unreadable, tries |-> Tries,
         server |-> None]

\* command and gtVersion.
Version(p) == IF p \in Updated THEN "new" ELSE "old"

Init ==
  /\ proxy = [p \in Proxies |-> Idle]
  /\ servers = <<>> /\ file = Unreadable
  /\ window = [p \in Proxies |-> "unopened"]
  /\ reliable \in BOOLEAN

Running == {s \in DOMAIN servers : servers[s].state # "gone"}

Listening == {s \in DOMAIN servers : servers[s].state = "listening"}

At(p, pc) == proxy[p].pc = pc

Goto(p, pc) == proxy' = [proxy EXCEPT ![p].pc = pc]

----------------------------------------------------------------------------
(* runProxyMain.                                                           *)

Begin(p, mode) ==
  /\ At(p, "idle")
  /\ proxy' = [proxy EXCEPT ![p].mode = mode,
                 ![p].pc = IF mode \in {"force", "kill"} THEN "readToKill" ELSE "callStartServer"]
  /\ UNCHANGED <<servers, file, window, reliable>>

\* Someone has started a server and is going to write its file.
BeingWritten == \E p \in Proxies : At(p, "delete") \/ At(p, "write")

\* readExistingServerFileWithRetries: one try.
Read(p, from, found, notFound) ==
  /\ At(p, from)
  /\ \/ /\ file # Unreadable
        /\ proxy' = [proxy EXCEPT ![p].pc = found, ![p].info = file, ![p].tries = Tries]
     \/ /\ file = Unreadable /\ proxy[p].tries > 1
        /\ ~(reliable /\ BeingWritten)
        /\ proxy' = [proxy EXCEPT ![p].tries = @ - 1]
     \/ /\ file = Unreadable /\ proxy[p].tries = 1
        /\ ~(reliable /\ BeingWritten)
        /\ proxy' = [proxy EXCEPT ![p].pc = notFound, ![p].tries = Tries]
  /\ UNCHANGED <<servers, file, window, reliable>>

\* checkIfServerIsAliveAndIsGTI: a server that is being stopped may answer or
\* not, any other answers if it is in time and the token is its own.
Challenge(p, from, authentic, otherwise) ==
  LET s == proxy[p].info.server
  IN  /\ At(p, from)
      /\ \/ s \in Running /\ Goto(p, authentic)
         \/ (s \notin Listening \/ ~reliable) /\ Goto(p, otherwise)
      /\ UNCHANGED <<servers, file, window, reliable>>

\* What follows killServerIfItExists when it fails, and when it succeeds.
AfterNoKill(p) == IF proxy[p].mode = "force" THEN "callStartServer" ELSE "failed"
AfterKill(p)   == IF proxy[p].mode = "kill" THEN "killed" ELSE "callStartServer"

\* Mutant: the other server is left alone.
SparePid(s) == UNCHANGED servers

\* process.kill: a signal.
SignalPid(s) == servers' = [servers EXCEPT ![s].state = "stopping"]

\* The last step of killServerIfItExists.
Kill(p) ==
  /\ At(p, "kill")
  /\ IF proxy[p].info.server \in Running
     THEN /\ SignalPid(proxy[p].info.server)
          /\ Goto(p, AfterKill(p))
     ELSE /\ Goto(p, AfterNoKill(p))
          /\ UNCHANGED servers
  /\ UNCHANGED <<file, window, reliable>>

PortInUse == Foreign \/ Running # {}

\* `checks` counts the timers that are set, `references` is
\* numberOfActiveServers, and `kept` a history: the windows, open since, that
\* held a Repository when the last check let the server run on.
NewServer(p) == [state |-> "listening", version |-> Version(p),
                 foreground |-> proxy[p].mode = "foreground",
                 checks |-> 0, references |-> 0, kept |-> {}]

\* callStartServer: the port is free, or EADDRINUSE.
CallStartServer(p) ==
  /\ At(p, "callStartServer")
  /\ IF PortInUse
     THEN /\ Goto(p, IF proxy[p].mode = "force" THEN "silent" ELSE "read")
          /\ UNCHANGED servers
     ELSE /\ servers' = Append(servers, NewServer(p))
          /\ proxy' = [proxy EXCEPT ![p].pc = "delete", ![p].server = Len(servers) + 1]
  /\ UNCHANGED <<file, window, reliable>>

\* The server is authentic.  Is it one to re-use?
Compare(p) ==
  /\ At(p, "compare")
  /\ IF proxy[p].info.version # Version(p)
     THEN Goto(p, "readToKill")
     ELSE proxy' = [proxy EXCEPT ![p].pc = "reused", ![p].server = proxy[p].info.server]
  /\ UNCHANGED <<servers, file, window, reliable>>

DeleteFile(p) ==
  /\ At(p, "delete")
  /\ file' = Unreadable
  /\ Goto(p, "write")
  /\ UNCHANGED <<servers, window, reliable>>

\* Mutant: the version that was found is saved with the tokens of the new one.
FoundInfo(p) == [server |-> proxy[p].server, version |-> proxy[p].info.version]

OwnInfo(p) == [server |-> proxy[p].server, version |-> Version(p)]

\* "failed to save server information": the server remains, the URL is shown.
WriteFile(p) ==
  /\ At(p, "write")
  /\ \/ file' = OwnInfo(p)
     \/ ~reliable /\ file' = Unreadable
  /\ Goto(p, "started")
  /\ UNCHANGED <<servers, window, reliable>>

ProxyStep(p) ==
  \/ Read(p, "readToKill", "challengeToKill", AfterNoKill(p))
  \/ Challenge(p, "challengeToKill", "kill", AfterNoKill(p))
  \/ Kill(p)
  \/ CallStartServer(p)
  \/ Read(p, "read", "challenge", "failed")
  \/ Challenge(p, "challenge", "compare", "failed")
  \/ Compare(p) \/ DeleteFile(p) \/ WriteFile(p)

----------------------------------------------------------------------------
(* The windows, and the end of the servers.                                *)

\* A window is "loading" while getRepoInfo runs for its directory, and "moving"
\* if another directory was asked for meanwhile (see ServerToClientAPI).
OpenStates == {"loading", "moving", "error", "repo"}

\* The windows that are connected to s, and those of them that hold a Repository.
WindowsOf(s) == {p \in Proxies : proxy[p].server = s /\ window[p] \in OpenStates}
WithRepository(s) == {p \in WindowsOf(s) : window[p] = "repo"}

\* The URL is opened; the token in it is accepted by that server only.
OpenWindow(p) ==
  /\ p \in Openers /\ proxy[p].pc \in {"started", "reused"} /\ window[p] = "unopened"
  /\ proxy[p].server \in Listening
  /\ window' = [window EXCEPT ![p] = "loading"]
  /\ UNCHANGED <<proxy, servers, file, reliable>>

\* A window goes over to a state, and takes or gives back references.
Window(p, state, references) ==
  /\ proxy[p].server \in Listening
  /\ window' = [window EXCEPT ![p] = state]
  /\ servers' = [servers EXCEPT ![proxy[p].server].references = @ + references]
  /\ UNCHANGED <<proxy, file, reliable>>

\* getRepoInfo returns.  Of a window that is moving the queued changeCwd is
\* handled next, and of one that was closed meanwhile as well: the reference
\* that is made for it then is given back by nobody.
RepositoryFound(p) ==
  \/ window[p] = "loading" /\ (Window(p, "repo", 1) \/ Window(p, "error", 0))
  \/ window[p] = "moving" /\ Window(p, "loading", 0)
  \/ window[p] = "abandoned" /\ (Window(p, "leaked", 1) \/ Window(p, "closed", 0))

\* setActiveRepoForCwd gives the reference back; while a directory is loading,
\* the message waits.
ChangeCwd(p) ==
  /\ p \in Movers
  /\ \/ window[p] = "repo" /\ Window(p, "loading", -1)
     \/ window[p] = "error" /\ Window(p, "loading", 0)
     \/ window[p] = "loading" /\ Window(p, "moving", 0)

\* Mutant: only a window with a Repository starts the timer.
TimerWithRepository(s) == {p \in WithRepository(s) : ~servers[s].foreground}

StartsTimer(s) == {p \in WindowsOf(s) : ~servers[s].foreground}

\* The socket is closed and the reference given back: the check follows in a
\* minute.
CloseWindow(p) ==
  LET s == proxy[p].server
  IN  /\ window[p] \in OpenStates /\ s \in Listening
      /\ window' = [window EXCEPT ![p] = IF @ = "moving" THEN "abandoned" ELSE "closed"]
      /\ servers' = [servers EXCEPT
           ![s].checks = IF p \in StartsTimer(s) THEN @ + 1 ELSE @,
           ![s].references = IF window[p] = "repo" THEN @ - 1 ELSE @,
           ![s].kept = @ \ {p}]
      /\ UNCHANGED <<proxy, file, reliable>>

\* checkIfServerShouldCleanItselfUp: exit, or stay for a reference.
CheckCleanup(s) ==
  /\ s \in Listening /\ servers[s].checks > 0
  /\ servers' = [servers EXCEPT ![s].checks = @ - 1, ![s].kept = WithRepository(s),
                   ![s].state = IF servers[s].references = 0 THEN "stopping" ELSE @]
  /\ UNCHANGED <<proxy, file, window, reliable>>

\* The process is gone: the port is free, its windows lose their connection.
\* With --foreground the process of the server is that of the proxy.
Exit(s) ==
  /\ servers[s].state = "stopping"
  /\ servers' = [servers EXCEPT ![s].state = "gone", ![s].checks = 0,
                   ![s].references = 0, ![s].kept = {}]
  /\ window' = [p \in Proxies |-> IF p \in WindowsOf(s) THEN "lost" ELSE window[p]]
  /\ UNCHANGED <<proxy, file, reliable>>

\* A server is stopped by something else, or its proxy before it has ended.
Interrupt ==
  /\ ~reliable
  /\ \/ \E s \in Listening : SignalPid(s) /\ UNCHANGED proxy
     \/ /\ \E p \in Proxies : proxy[p].pc \in {"delete", "write"} /\ Goto(p, "interrupted")
        /\ UNCHANGED servers
  /\ UNCHANGED <<file, window, reliable>>

Next ==
  \/ \E p \in Proxies, mode \in Modes : Begin(p, mode)
  \/ \E p \in Proxies : ProxyStep(p)
  \/ \E p \in Proxies : OpenWindow(p) \/ RepositoryFound(p) \/ ChangeCwd(p) \/ CloseWindow(p)
  \/ \E s \in DOMAIN servers : CheckCleanup(s) \/ Exit(s)
  \/ Interrupt

\* The processes run, timers expire; nobody has to open or close a window.
Fairness ==
  /\ \A p \in Proxies : WF_vars(ProxyStep(p))
  /\ WF_vars(\E s \in DOMAIN servers : CheckCleanup(s) \/ Exit(s))

Spec == Init /\ [][Next]_vars /\ Fairness

----------------------------------------------------------------------------
(* What must be true of it.                                                *)

Ended == {"started", "reused", "killed", "silent", "failed", "interrupted"}

\* A server that listens can be found again: when the invocation that started
\* it has ended, the file of the port has its tokens and its version, whatever
\* other invocations were started, re-used or killed before and after it.
FileNamesTheServer ==
  reliable => \A p \in Proxies, s \in Listening :
    At(p, "started") /\ proxy[p].server = s
      => file = [server |-> s, version |-> servers[s].version]

\* "We're guaranteed to not go down the same code path": also when invocations
\* of different versions kill each other's servers, every one comes to an end.
EveryRunEnds ==
  []<>(\A p \in Proxies : At(p, "idle") \/ proxy[p].pc \in Ended)

Unused(p) ==
  window[p] \in {"closed", "abandoned", "leaked"} /\ ~servers[proxy[p].server].foreground

\* A window was closed while it was changing its directory, and the server has
\* made the reference for the new one all the same.
Leaked(s) == \E p \in Proxies : proxy[p].server = s /\ window[p] = "leaked"

GoneOrUsed(p) ==
  LET s == proxy[p].server
  IN  s # None => servers[s].state = "gone" \/ servers[s].kept # {}

\* A background server one of whose windows has been closed goes in the end,
\* unless a window is open which held a Repository when the server looked: then
\* the closing of that one makes it look again.  A reference that has leaked is
\* the exception, with which the server never goes.
UnusedServerGoes ==
  []<>(\A p \in Proxies : Unused(p) => GoneOrUsed(p) \/ Leaked(proxy[p].server))

=============================================================================
