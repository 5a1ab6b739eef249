------------------------ MODULE ServerProcessProofs ------------------------
(***************************************************************************)
(* That a server which listens is the one the file of its port names, for  *)
(* any number of invocations.                                              *)
(*                                                                         *)
(* The argument: as long as the invocation that started a server has not   *)
(* written the file, nobody knows the tokens of that server, so that       *)
(* nobody can kill it, re-use it or open a window on it (Unknown).  It     *)
(* therefore holds the port until its file is written, and no other server *)
(* can be started, let alone write a file, meanwhile (OneRunning).         *)
(***************************************************************************)
EXTENDS ServerProcess, TLAPS

Info == [server : Nat, version : {"none", "old", "new"}]

PCs == {"idle", "readToKill", "challengeToKill", "kill", "callStartServer", "read",
        "challenge", "compare", "delete", "write"} \cup Ended

Proxy == [pc : PCs, mode : Modes, info : Info, tries : Nat, server : Nat]

ServerRecord == [state : {"listening", "stopping", "gone"}, version : {"old", "new"},
                 foreground : BOOLEAN, checks : Nat, references : Int, kept : SUBSET Proxies]

WindowStates == OpenStates \cup {"unopened", "closed", "abandoned", "leaked", "lost"}

TypeOK ==
  /\ proxy \in [Proxies -> Proxy]
  /\ servers \in Seq(ServerRecord)
  /\ file \in Info
  /\ window \in [Proxies -> WindowStates]
  /\ reliable \in BOOLEAN

\* Nothing names a server that was never started.
Known ==
  /\ file.server <= Len(servers)
  /\ \A p \in Proxies : proxy[p].info.server <= Len(servers) /\ proxy[p].server <= Len(servers)

OneRunning == \A s, t \in Running : s = t

Starting(p) == proxy[p].pc \in {"delete", "write"}

Started(p) == At(p, "started")

Owned == \A p \in Proxies : Starting(p) \/ Started(p)
           => /\ proxy[p].server \in DOMAIN servers
              /\ servers[proxy[p].server].version = Version(p)

OpenedAfterwards ==
  \A p \in Proxies : window[p] # "unopened" => proxy[p].pc \in {"started", "reused"}

Unknown ==
  reliable => \A p \in Proxies : Starting(p) =>
    /\ servers[proxy[p].server].state = "listening"
    /\ servers[proxy[p].server].checks = 0
    /\ file.server # proxy[p].server
    /\ \A q \in Proxies : /\ proxy[q].info.server # proxy[p].server
                          /\ q # p => proxy[q].server # proxy[p].server

Written ==
  reliable => \A p \in Proxies : Started(p) /\ proxy[p].server \in Running => file = OwnInfo(p)

IInv == TypeOK /\ Known /\ OneRunning /\ Owned /\ OpenedAfterwards /\ Unknown /\ Written

\* The invariant holds at the start, when there is no server and no file.
LEMMA InitIInv == Init => IInv
<1> SUFFICES ASSUME Init PROVE IInv
  OBVIOUS
<1>1. Idle \in Proxy /\ Idle.pc = "idle" /\ Idle.server = 0 /\ Idle.info.server = 0
  BY ConstantsAssumption DEF Idle, Proxy, PCs, Modes, Info, Unreadable, None
<1>2. /\ \A p \in Proxies : proxy[p] = Idle /\ window[p] = "unopened"
      /\ servers = <<>> /\ Len(servers) = 0 /\ file.server = 0 /\ file \in Info
  BY DEF Init, Info, Unreadable, None
<1>3. TypeOK
  BY <1>1, <1>2 DEF Init, TypeOK, WindowStates
<1>4. Known /\ OpenedAfterwards
  BY <1>1, <1>2 DEF Known, OpenedAfterwards
<1>5. \A p \in Proxies : ~Starting(p) /\ ~Started(p)
  BY <1>1, <1>2 DEF Starting, Started, At
<1>6. OneRunning
  BY <1>2 DEF OneRunning, Running
<1> QED
  BY <1>3, <1>4, <1>5, <1>6 DEF IInv, Owned, Unknown, Written

\* Begin, readExistingServerFileWithRetries, checkIfServerIsAliveAndIsGTI and
\* the comparison of the versions change one invocation only, and give it
\* nothing that the file or itself had not known.
LEMMA ProxyMoves ==
  ASSUME NEW p \in Proxies, NEW new \in Proxy, IInv,
         proxy' = [proxy EXCEPT ![p] = new], UNCHANGED <<servers, file, window, reliable>>,
         ~Starting(p), ~Started(p), proxy[p].pc # "reused",
         new.pc \notin {"delete", "write", "started"},
         new.info \in {proxy[p].info, file},
         new.server \in {proxy[p].server, proxy[p].info.server}
  PROVE  IInv'
<1> USE DEF IInv
<1>1. /\ proxy' \in [Proxies -> Proxy]
      /\ proxy'[p] = new
      /\ \A q \in Proxies : q # p => proxy'[q] = proxy[q]
  BY DEF TypeOK
<1>2. TypeOK'
  BY <1>1 DEF TypeOK
<1>3. Known' /\ OneRunning' /\ Owned' /\ OpenedAfterwards'
  BY <1>1 DEF Known, OneRunning, Running, Owned, OpenedAfterwards, Starting, Started, At, Version
<1>4. Unknown'
  <2> SUFFICES ASSUME reliable, NEW q \in Proxies, Starting(q)'
               PROVE  /\ servers[proxy'[q].server].state = "listening"
                      /\ servers[proxy'[q].server].checks = 0
                      /\ file.server # proxy'[q].server
                      /\ \A r \in Proxies : /\ proxy'[r].info.server # proxy'[q].server
                                            /\ r # q => proxy'[r].server # proxy'[q].server
    BY DEF Unknown
  <2>1. q # p /\ proxy'[q] = proxy[q] /\ Starting(q)
    BY <1>1 DEF Starting
  <2>2. /\ servers[proxy[q].server].state = "listening"
        /\ servers[proxy[q].server].checks = 0
        /\ file.server # proxy[q].server
        /\ \A r \in Proxies : /\ proxy[r].info.server # proxy[q].server
                              /\ r # q => proxy[r].server # proxy[q].server
    BY <2>1 DEF Unknown
  <2>3. new.info.server # proxy[q].server /\ new.server # proxy[q].server
    BY <2>1, <2>2
  <2> QED
    BY <1>1, <2>1, <2>2, <2>3
<1>5. Written'
  BY <1>1 DEF Written, Started, At, Running, OwnInfo, Version
<1> QED
  BY <1>2, <1>3, <1>4, <1>5

\* Signals, exits and timers change one server, which somebody knows of, and
\* neither start an invocation nor let it forget what it knows.
LEMMA ServerMoves ==
  ASSUME NEW s \in DOMAIN servers, NEW new \in ServerRecord, IInv,
         servers' = [servers EXCEPT ![s] = new], UNCHANGED <<file, reliable>>,
         new.version = servers[s].version,
         servers[s].state # "gone",
         reliable => \A p \in Proxies : Starting(p) => proxy[p].server # s,
         proxy' \in [Proxies -> Proxy],
         \A p \in Proxies : /\ proxy'[p].server = proxy[p].server
                            /\ proxy'[p].info = proxy[p].info
                            /\ Starting(p)' => Starting(p)
                            /\ Started(p)' => Started(p),
         window' \in [Proxies -> WindowStates],
         \A p \in Proxies : window'[p] # "unopened" => proxy'[p].pc \in {"started", "reused"}
  PROVE  IInv'
<1> USE DEF IInv
<1>1. /\ servers' \in Seq(ServerRecord)
      /\ Len(servers') = Len(servers) /\ DOMAIN servers' = DOMAIN servers
      /\ servers'[s] = new
      /\ \A t \in DOMAIN servers : t # s => servers'[t] = servers[t]
  BY DEF TypeOK
<1>2. TypeOK' /\ Known' /\ OpenedAfterwards'
  BY <1>1 DEF TypeOK, Known, OpenedAfterwards, WindowStates
<1>3. Running' \subseteq Running /\ s \in Running
  BY <1>1 DEF Running
<1>4. OneRunning'
  BY <1>3 DEF OneRunning
<1>5. Owned'
  BY <1>1 DEF Owned, Version
<1>6. Unknown'
  <2> SUFFICES ASSUME reliable, NEW q \in Proxies, Starting(q)'
               PROVE  /\ servers'[proxy'[q].server].state = "listening"
                      /\ servers'[proxy'[q].server].checks = 0
                      /\ file.server # proxy'[q].server
                      /\ \A r \in Proxies : /\ proxy'[r].info.server # proxy'[q].server
                                            /\ r # q => proxy'[r].server # proxy'[q].server
    BY DEF Unknown
  <2>1. Starting(q) /\ proxy[q].server # s /\ proxy[q].server \in DOMAIN servers
    BY DEF Owned
  <2> QED
    BY <2>1, <1>1 DEF Unknown
<1>7. Written'
  BY <1>3 DEF Written, OwnInfo, Version
<1> QED
  BY <1>2, <1>4, <1>5, <1>6, <1>7

\* What the opening of a window does to them.
LEMMA WindowsMove ==
  ASSUME IInv, UNCHANGED <<proxy, servers, file, reliable>>,
         window' \in [Proxies -> WindowStates],
         \A p \in Proxies : window'[p] # "unopened" => proxy[p].pc \in {"started", "reused"}
  PROVE  IInv'
BY DEF IInv, TypeOK, Known, OneRunning, Running, Owned, OpenedAfterwards, Unknown, Written,
       Starting, Started, At, OwnInfo, Version

\* The invocation that starts a server has found none running, so that no other
\* one is between its start and its file.
LEMMA StartPreserves ==
  ASSUME NEW p \in Proxies, IInv, CallStartServer(p)
  PROVE  IInv'
<1> USE DEF IInv
<1>1. CASE PortInUse
  <2> DEFINE new == [proxy[p] EXCEPT !.pc = IF proxy[p].mode = "force" THEN "silent" ELSE "read"]
  <2>1. /\ proxy[p] \in Proxy /\ new \in Proxy /\ new.info = proxy[p].info
        /\ new.server = proxy[p].server /\ new.pc \in {"silent", "read"}
    BY DEF TypeOK, Proxy, PCs, Ended
  <2>2. proxy' = [proxy EXCEPT ![p] = new] /\ UNCHANGED <<servers, file, window, reliable>>
    BY <1>1 DEF CallStartServer, Goto, TypeOK
  <2>3. ~Starting(p) /\ ~Started(p) /\ proxy[p].pc # "reused"
    BY DEF CallStartServer, At, Starting, Started
  <2> HIDE DEF new
  <2> QED
    BY <2>1, <2>2, <2>3, ProxyMoves
<1>2. CASE ~PortInUse
  <2> DEFINE n == Len(servers) + 1
             s == NewServer(p)
             new == [proxy[p] EXCEPT !.pc = "delete", !.server = n]
  <2>1. /\ proxy[p] \in Proxy /\ new \in Proxy /\ new.info = proxy[p].info
        /\ new.server = n /\ new.pc = "delete" /\ n \in Nat
    <3>1. n \in Nat /\ proxy[p] \in Proxy
      BY DEF TypeOK
    <3> HIDE DEF n
    <3> QED
      BY <3>1 DEF Proxy, PCs
  <2>2. /\ s \in ServerRecord /\ s.state = "listening" /\ s.version = Version(p) /\ s.checks = 0
    BY DEF ServerRecord, Version, NewServer
  <2>3. /\ servers' = Append(servers, s) /\ proxy' = [proxy EXCEPT ![p] = new]
        /\ file' = file /\ window' = window /\ reliable' = reliable
        /\ proxy[p].pc = "callStartServer"
    BY <1>2 DEF CallStartServer, At, TypeOK
  <2>4. Running = {}
    BY <1>2 DEF PortInUse
  <2> HIDE DEF n, s, new
  <2>5. /\ servers' \in Seq(ServerRecord) /\ Len(servers') = n /\ servers'[n] = s
        /\ DOMAIN servers' = DOMAIN servers \cup {n} /\ n \notin DOMAIN servers
        /\ \A t \in DOMAIN servers : servers'[t] = servers[t]
        /\ Len(servers) \in Nat /\ n = Len(servers) + 1
        /\ DOMAIN servers = 1..Len(servers)
    BY <2>2, <2>3 DEF TypeOK, n
  <2>6. /\ proxy' \in [Proxies -> Proxy] /\ proxy'[p] = new
        /\ \A q \in Proxies : q # p => proxy'[q] = proxy[q]
    BY <2>1, <2>3 DEF TypeOK
  <2>7. TypeOK'
    BY <2>3, <2>5, <2>6 DEF TypeOK
  <2>8. Known'
    BY <2>1, <2>3, <2>5, <2>6 DEF Known, TypeOK, Proxy, Info
  <2>9. \A t \in Running' : t = n
    BY <2>4, <2>5 DEF Running
  <2>10. OneRunning'
    BY <2>9 DEF OneRunning
  <2>11. Owned'
    <3> SUFFICES ASSUME NEW q \in Proxies, (Starting(q) \/ Started(q))'
                 PROVE  /\ proxy'[q].server \in DOMAIN servers'
                        /\ servers'[proxy'[q].server].version = Version(q)
      BY DEF Owned, Version
    <3>1. CASE q = p
      BY <3>1, <2>1, <2>2, <2>5, <2>6
    <3>2. CASE q # p
      BY <3>2, <2>5, <2>6 DEF Owned, Starting, Started, At, Version
    <3> QED
      BY <3>1, <3>2
  <2>12. OpenedAfterwards'
    BY <2>3, <2>6 DEF OpenedAfterwards
  <2>13. reliable => \A q \in Proxies : ~Starting(q)
    BY <2>4 DEF Unknown, Owned, Running
  <2>14. Unknown'
    <3> SUFFICES ASSUME reliable', NEW q \in Proxies, Starting(q)'
                 PROVE  /\ servers'[proxy'[q].server].state = "listening"
                        /\ servers'[proxy'[q].server].checks = 0
                        /\ file'.server # proxy'[q].server
                        /\ \A r \in Proxies : /\ proxy'[r].info.server # proxy'[q].server
                                              /\ r # q => proxy'[r].server # proxy'[q].server
      BY DEF Unknown
    <3>1. q = p
      BY <2>3, <2>6, <2>13 DEF Starting
    <3>2. proxy'[q].server = n
      BY <3>1, <2>1, <2>6
    <3>3. file'.server # n /\ file.server \in Nat
      BY <2>3, <2>5 DEF Known, TypeOK, Info
    <3>4. ASSUME NEW r \in Proxies
          PROVE  proxy'[r].info.server # n /\ (r # q => proxy'[r].server # n)
      <4>1. /\ proxy[r].info.server \in Nat /\ proxy[r].server \in Nat
            /\ proxy[r].info.server <= Len(servers) /\ proxy[r].server <= Len(servers)
        BY DEF Known, TypeOK, Proxy, Info
      <4>2. proxy[r].info.server # n /\ proxy[r].server # n
        BY <4>1, <2>5
      <4> QED
        BY <4>2, <3>1, <2>1, <2>6
    <3> QED
      BY <3>2, <3>3, <3>4, <2>2, <2>5
  <2>15. Written'
    <3> SUFFICES ASSUME reliable', NEW q \in Proxies, Started(q)', proxy'[q].server \in Running'
                 PROVE  FALSE
      BY DEF Written
    <3>1. q # p /\ Started(q) /\ proxy'[q] = proxy[q]
      BY <2>1, <2>6 DEF Started, At
    <3> QED
      BY <3>1, <2>9, <2>5 DEF Owned
  <2> QED
    BY <2>7, <2>8, <2>10, <2>11, <2>12, <2>14, <2>15
<1> QED
  BY <1>1, <1>2

\* Whoever deletes or writes the file has started the only server there is.
LEMMA FilePreserves ==
  ASSUME NEW p \in Proxies, IInv, DeleteFile(p) \/ WriteFile(p)
  PROVE  IInv'
<1> USE DEF IInv
<1> DEFINE new == [proxy[p] EXCEPT !.pc = IF At(p, "delete") THEN "write" ELSE "started"]
<1>1. /\ proxy[p] \in Proxy /\ new \in Proxy /\ new.info = proxy[p].info
      /\ new.server = proxy[p].server
      /\ new.pc = "write" \/ new.pc = "started"
  BY DEF TypeOK, Proxy, PCs, Ended
<1>2. /\ proxy' = [proxy EXCEPT ![p] = new] /\ servers' = servers /\ window' = window
      /\ reliable' = reliable /\ Starting(p)
      /\ file' = Unreadable \/ file' = OwnInfo(p)
      /\ new.pc = "started" /\ reliable => file' = OwnInfo(p)
      /\ new.pc = "write" => file' = Unreadable
  BY DEF DeleteFile, WriteFile, Goto, At, Starting, TypeOK
<1> HIDE DEF new
<1>3. /\ proxy' \in [Proxies -> Proxy] /\ proxy'[p] = new
      /\ \A q \in Proxies : q # p => proxy'[q] = proxy[q]
  BY <1>1, <1>2 DEF TypeOK
<1>4. /\ proxy[p].server \in DOMAIN servers /\ proxy[p].server \in Nat
      /\ proxy[p].server <= Len(servers) /\ Len(servers) \in Nat
  BY <1>2 DEF Owned, Known, TypeOK, Proxy
<1>5. file' \in Info /\ file'.server <= Len(servers) /\ file'.server \in {0, proxy[p].server}
  BY <1>2, <1>4 DEF OwnInfo, Info, Unreadable, None, Version
<1>6. TypeOK' /\ Known' /\ OneRunning' /\ OpenedAfterwards'
  <2>1. TypeOK'
    BY <1>2, <1>3, <1>5 DEF TypeOK
  <2>2. Known'
    BY <1>1, <1>2, <1>3, <1>5 DEF Known
  <2>3. OneRunning'
    BY <1>2 DEF OneRunning, Running
  <2>4. OpenedAfterwards'
    BY <1>2, <1>3 DEF OpenedAfterwards, Starting
  <2> QED
    BY <2>1, <2>2, <2>3, <2>4
<1>7. Owned'
  BY <1>1, <1>2, <1>3 DEF Owned, Starting, Started, At, Version
<1>8. reliable => /\ proxy[p].server \in Running
                  /\ \A q \in Proxies : q # p => /\ proxy[q].server # proxy[p].server
                                                 /\ ~Starting(q)
                                                 /\ proxy[q].server \notin Running
  <2> SUFFICES ASSUME reliable PROVE /\ proxy[p].server \in Running
                  /\ \A q \in Proxies : q # p => /\ proxy[q].server # proxy[p].server
                                                 /\ ~Starting(q)
                                                 /\ proxy[q].server \notin Running
    OBVIOUS
  <2>1. proxy[p].server \in Running
    BY <1>2, <1>4 DEF Unknown, Running
  <2>2. \A q \in Proxies : q # p => proxy[q].server # proxy[p].server
    BY <1>2 DEF Unknown
  <2>3. \A q \in Proxies : q # p => proxy[q].server \notin Running
    BY <2>1, <2>2 DEF OneRunning
  <2>4. \A q \in Proxies : q # p => ~Starting(q)
    BY <2>3 DEF Unknown, Owned, Running
  <2> QED
    BY <2>1, <2>2, <2>3, <2>4
<1>9. Unknown'
  <2> SUFFICES ASSUME reliable, NEW q \in Proxies, Starting(q)'
               PROVE  /\ servers[proxy'[q].server].state = "listening"
                      /\ servers[proxy'[q].server].checks = 0
                      /\ file'.server # proxy'[q].server
                      /\ \A r \in Proxies : /\ proxy'[r].info.server # proxy'[q].server
                                            /\ r # q => proxy'[r].server # proxy'[q].server
    BY <1>2 DEF Unknown
  <2>1. q = p /\ new.pc = "write"
    BY <1>1, <1>3, <1>8 DEF Starting
  <2>2. proxy'[q].server = proxy[p].server /\ file'.server = 0 /\ proxy[p].server # 0
    BY <2>1, <1>1, <1>2, <1>3, <1>4 DEF Unreadable, None, TypeOK
  <2>3. \A r \in Proxies : /\ proxy'[r].info.server = proxy[r].info.server
                           /\ proxy'[r].server = proxy[r].server
    BY <1>1, <1>3
  <2> QED
    BY <2>1, <2>2, <2>3, <1>2 DEF Unknown
<1>10. Written'
  <2> SUFFICES ASSUME reliable, NEW q \in Proxies, Started(q)', proxy'[q].server \in Running
               PROVE  file' = OwnInfo(q)'
    BY <1>2 DEF Written, Running
  <2>1. q = p
    BY <1>3, <1>8
  <2>2. new.pc = "started"
    BY <2>1, <1>3 DEF Started, At
  <2> QED
    BY <2>1, <2>2, <1>1, <1>2, <1>3 DEF OwnInfo, Version
<1> QED
  BY <1>6, <1>7, <1>9, <1>10

\* One step of runProxyMain that leaves the servers and the file alone.
LEMMA QuietPreserves ==
  ASSUME NEW p \in Proxies, IInv,
         \/ \E mode \in Modes : Begin(p, mode)
         \/ Read(p, "readToKill", "challengeToKill", AfterNoKill(p))
         \/ Challenge(p, "challengeToKill", "kill", AfterNoKill(p))
         \/ Read(p, "read", "challenge", "failed")
         \/ Challenge(p, "challenge", "compare", "failed")
         \/ Compare(p)
  PROVE  IInv'
<1>0. proxy \in [Proxies -> Proxy] /\ proxy[p] \in Proxy /\ file \in Info
  BY DEF IInv, TypeOK
<1>1. ASSUME NEW from, At(p, from), from \notin {"delete", "write", "started", "reused"}
      PROVE  ~Starting(p) /\ ~Started(p) /\ proxy[p].pc # "reused"
  BY <1>1 DEF At, Starting, Started
<1>2. ASSUME NEW to \in PCs \ {"delete", "write", "started"}, Goto(p, to),
             UNCHANGED <<servers, file, window, reliable>>,
             ~Starting(p) /\ ~Started(p) /\ proxy[p].pc # "reused"
      PROVE  IInv'
  <2> DEFINE new == [proxy[p] EXCEPT !.pc = to]
  <2>1. /\ proxy' = [proxy EXCEPT ![p] = new] /\ new \in Proxy /\ new.pc = to
        /\ new.info = proxy[p].info /\ new.server = proxy[p].server
    BY <1>0, <1>2 DEF Goto, Proxy
  <2> HIDE DEF new
  <2> QED
    BY <2>1, <1>2, ProxyMoves
<1>3. AfterNoKill(p) \in PCs \ {"delete", "write", "started"}
  BY DEF AfterNoKill, PCs, Ended
<1>4. ASSUME NEW mode \in Modes, Begin(p, mode)
      PROVE  IInv'
  <2> DEFINE to == IF mode \in {"force", "kill"} THEN "readToKill" ELSE "callStartServer"
             new == [proxy[p] EXCEPT !.mode = mode, !.pc = to]
  <2>1. /\ to \in PCs /\ to \notin {"delete", "write", "started"}
    BY DEF PCs
  <2> HIDE DEF to
  <2>2. /\ new \in Proxy /\ new.pc = to
        /\ new.info = proxy[p].info /\ new.server = proxy[p].server
    BY <1>0, <2>1 DEF Proxy
  <2>3. proxy' = [proxy EXCEPT ![p] = new] /\ At(p, "idle")
        /\ UNCHANGED <<servers, file, window, reliable>>
    BY <1>0, <1>4 DEF Begin, to
  <2> HIDE DEF new
  <2> QED
    BY <1>1, <2>1, <2>2, <2>3, ProxyMoves
<1>5. ASSUME NEW from, NEW found, NEW notFound, Read(p, from, found, notFound),
             {found, notFound} \subseteq PCs \ {"delete", "write", "started"},
             from \notin {"delete", "write", "started", "reused"}
      PROVE  IInv'
  <2>0. ~Starting(p) /\ ~Started(p) /\ proxy[p].pc # "reused" /\ proxy[p].pc = from
        /\ UNCHANGED <<servers, file, window, reliable>>
    BY <1>1, <1>5 DEF Read, At
  <2>1. CASE proxy' = [proxy EXCEPT ![p].pc = found, ![p].info = file, ![p].tries = Tries]
    <3> DEFINE new == [proxy[p] EXCEPT !.pc = found, !.info = file, !.tries = Tries]
    <3>1. /\ proxy' = [proxy EXCEPT ![p] = new] /\ new \in Proxy /\ new.pc = found
          /\ new.info = file /\ new.server = proxy[p].server
      BY <1>0, <1>5, <2>1, ConstantsAssumption DEF Proxy
    <3> HIDE DEF new
    <3> QED
      BY <3>1, <2>0, <1>5, ProxyMoves
  <2>2. CASE /\ proxy' = [proxy EXCEPT ![p].tries = @ - 1]
             /\ proxy[p].tries > 1
    <3> DEFINE new == [proxy[p] EXCEPT !.tries = @ - 1]
    <3>1. /\ proxy' = [proxy EXCEPT ![p] = new] /\ new \in Proxy /\ new.pc = from
          /\ new.info = proxy[p].info /\ new.server = proxy[p].server
      BY <1>0, <2>0, <2>2 DEF Proxy
    <3> HIDE DEF new
    <3> QED
      BY <3>1, <2>0, <1>5, ProxyMoves
  <2>3. CASE proxy' = [proxy EXCEPT ![p].pc = notFound, ![p].tries = Tries]
    <3> DEFINE new == [proxy[p] EXCEPT !.pc = notFound, !.tries = Tries]
    <3>1. /\ proxy' = [proxy EXCEPT ![p] = new] /\ new \in Proxy /\ new.pc = notFound
          /\ new.info = proxy[p].info /\ new.server = proxy[p].server
      BY <1>0, <1>5, <2>3, ConstantsAssumption DEF Proxy
    <3> HIDE DEF new
    <3> QED
      BY <3>1, <2>0, <1>5, ProxyMoves
  <2> QED
    BY <2>1, <2>2, <2>3, <1>5 DEF Read
<1>6. ASSUME NEW from, NEW authentic, NEW otherwise, Challenge(p, from, authentic, otherwise),
             {authentic, otherwise} \subseteq PCs \ {"delete", "write", "started"},
             from \notin {"delete", "write", "started", "reused"}
      PROVE  IInv'
  <2>1. /\ At(p, from)
        /\ Goto(p, authentic) \/ Goto(p, otherwise)
        /\ UNCHANGED <<servers, file, window, reliable>>
    BY <1>6 DEF Challenge
  <2>2. ~Starting(p) /\ ~Started(p) /\ proxy[p].pc # "reused"
    BY <2>1, <1>6 DEF At, Starting, Started
  <2>3. CASE Goto(p, authentic)
    BY <2>1, <2>2, <2>3, <1>2, <1>6
  <2>4. CASE Goto(p, otherwise)
    BY <2>1, <2>2, <2>4, <1>2, <1>6
  <2> QED
    BY <2>1, <2>3, <2>4
<1>7. CASE Compare(p)
  <2>1. At(p, "compare") /\ UNCHANGED <<servers, file, window, reliable>>
    BY <1>7 DEF Compare
  <2>2. CASE Goto(p, "readToKill")
    BY <2>1, <2>2, <1>1, <1>2 DEF PCs
  <2>3. CASE proxy' = [proxy EXCEPT ![p].pc = "reused", ![p].server = proxy[p].info.server]
    <3> DEFINE new == [proxy[p] EXCEPT !.pc = "reused", !.server = proxy[p].info.server]
    <3>1. /\ proxy' = [proxy EXCEPT ![p] = new] /\ new \in Proxy /\ new.pc = "reused"
          /\ new.info = proxy[p].info /\ new.server = proxy[p].info.server
      BY <1>0, <2>3 DEF Proxy, PCs, Ended, Info
    <3> HIDE DEF new
    <3> QED
      BY <3>1, <2>1, <1>1, ProxyMoves
  <2> QED
    BY <1>7, <2>2, <2>3 DEF Compare
<1>8. /\ {"challengeToKill", AfterNoKill(p)} \subseteq PCs \ {"delete", "write", "started"}
      /\ {"kill", AfterNoKill(p)} \subseteq PCs \ {"delete", "write", "started"}
      /\ {"challenge", "failed"} \subseteq PCs \ {"delete", "write", "started"}
      /\ {"compare", "failed"} \subseteq PCs \ {"delete", "write", "started"}
  BY <1>3 DEF PCs, Ended
<1> QED
  BY <1>4, <1>5, <1>6, <1>7, <1>8

\* process.kill, by an invocation that knows the server.
LEMMA KillPreserves ==
  ASSUME NEW p \in Proxies, IInv, Kill(p)
  PROVE  IInv'
<1> DEFINE s == proxy[p].info.server
           to == IF s \in Running THEN AfterKill(p) ELSE AfterNoKill(p)
           new == [proxy[p] EXCEPT !.pc = to]
<1>1. /\ proxy \in [Proxies -> Proxy] /\ proxy[p] \in Proxy /\ servers \in Seq(ServerRecord)
  BY DEF IInv, TypeOK
<1>2. to \in PCs \ {"delete", "write", "started"}
  BY DEF AfterKill, AfterNoKill, PCs, Ended
<1>3. proxy' = [proxy EXCEPT ![p].pc = to]
  BY DEF Kill, Goto
<1> HIDE DEF to
<1>4. /\ proxy' = [proxy EXCEPT ![p] = new] /\ new \in Proxy /\ new.pc = to
      /\ new.info = proxy[p].info /\ new.server = proxy[p].server
  BY <1>1, <1>2, <1>3 DEF Proxy
<1> HIDE DEF new
<1>5. ~Starting(p) /\ ~Started(p) /\ proxy[p].pc # "reused" /\ UNCHANGED <<file, window, reliable>>
  BY DEF Kill, At, Starting, Started
<1>6. CASE s \in Running
  <2> DEFINE server == [servers[s] EXCEPT !.state = "stopping"]
  <2>1. /\ s \in DOMAIN servers /\ servers' = [servers EXCEPT ![s] = server]
        /\ server \in ServerRecord /\ server.version = servers[s].version
        /\ servers[s].state # "gone"
    <3>1. s \in DOMAIN servers /\ servers[s].state # "gone" /\ servers[s] \in ServerRecord
      BY <1>1, <1>6 DEF Running
    <3>2. SignalPid(s)
      BY <1>6 DEF Kill
    <3>3. servers' = [servers EXCEPT ![s] = server]
      BY <3>2, <1>1 DEF SignalPid
    <3> HIDE DEF s
    <3>4. server \in ServerRecord /\ server.version = servers[s].version
      BY <3>1 DEF ServerRecord
    <3> QED
      BY <3>1, <3>3, <3>4
  <2>2. reliable => \A q \in Proxies : Starting(q) => proxy[q].server # s
    BY DEF IInv, Unknown
  <2>3. /\ proxy' \in [Proxies -> Proxy]
        /\ \A q \in Proxies : /\ proxy'[q].server = proxy[q].server
                              /\ proxy'[q].info = proxy[q].info
                              /\ Starting(q)' => Starting(q)
                              /\ Started(q)' => Started(q)
                              /\ proxy[q].pc \in {"started", "reused"} => proxy'[q].pc = proxy[q].pc
    BY <1>1, <1>2, <1>4, <1>5 DEF Starting, Started, At
  <2>4. /\ window' \in [Proxies -> WindowStates]
        /\ \A q \in Proxies : window'[q] # "unopened" => proxy'[q].pc \in {"started", "reused"}
    BY <2>3, <1>5 DEF IInv, TypeOK, WindowStates, OpenedAfterwards
  <2> HIDE DEF s, server
  <2> QED
    BY <2>1, <2>2, <2>3, <2>4, <1>5, ServerMoves
<1>7. CASE s \notin Running
  <2>1. UNCHANGED servers
    BY <1>7 DEF Kill
  <2> QED
    BY <2>1, <1>2, <1>4, <1>5, ProxyMoves
<1> QED
  BY <1>6, <1>7

\* A window of a server that listens changes its state, and what the server
\* counts with it.
LEMMA ListeningMoves ==
  ASSUME NEW p \in Proxies, NEW state \in WindowStates, NEW count \in Nat, NEW held \in Int,
         NEW kept \in SUBSET Proxies, IInv,
         window[p] # "unopened", proxy[p].server \in Listening,
         window' = [window EXCEPT ![p] = state], UNCHANGED <<proxy, file, reliable>>,
         servers' = [servers EXCEPT ![proxy[p].server] =
                       [servers[proxy[p].server] EXCEPT !.checks = count, !.references = held,
                                                        !.kept = kept]]
  PROVE  IInv'
<1> USE DEF IInv
<1> DEFINE s == proxy[p].server
           new == [servers[s] EXCEPT !.checks = count, !.references = held, !.kept = kept]
<1>1. /\ s \in DOMAIN servers /\ servers[s].state = "listening" /\ servers[s] \in ServerRecord
      /\ proxy[p].pc \in {"started", "reused"}
  BY DEF Listening, TypeOK, OpenedAfterwards
<1>2. servers' = [servers EXCEPT ![s] = new]
  OBVIOUS
<1>3. new \in ServerRecord /\ new.version = servers[s].version
  BY <1>1 DEF ServerRecord
<1>4. reliable => \A q \in Proxies : Starting(q) => proxy[q].server # s
  BY <1>1 DEF Unknown, Starting
<1>5. /\ window' \in [Proxies -> WindowStates]
      /\ \A q \in Proxies : window'[q] # "unopened" => proxy'[q].pc \in {"started", "reused"}
  BY <1>1 DEF TypeOK, OpenedAfterwards
<1>6. \A q \in Proxies : (Starting(q)' => Starting(q)) /\ (Started(q)' => Started(q))
  BY DEF Starting, Started, At
<1> HIDE DEF s, new
<1> QED
  BY <1>1, <1>2, <1>3, <1>4, <1>5, <1>6, ServerMoves DEF TypeOK

\* setActiveRepoForCwd, before and after getRepoInfo.
LEMMA WindowStateMoves ==
  ASSUME NEW p \in Proxies, NEW state \in WindowStates, NEW references \in Int, IInv,
         window[p] # "unopened", Window(p, state, references)
  PROVE  IInv'
<1> DEFINE s == proxy[p].server
<1>1. s \in DOMAIN servers /\ servers[s] \in ServerRecord /\ servers \in Seq(ServerRecord)
  BY DEF Window, Listening, IInv, TypeOK
<1>2. /\ servers[s].checks \in Nat /\ servers[s].references + references \in Int
      /\ servers[s].kept \in SUBSET Proxies
  BY <1>1 DEF ServerRecord
<1>4. servers' = [servers EXCEPT ![s] = [servers[s] EXCEPT !.checks = servers[s].checks,
                    !.references = servers[s].references + references, !.kept = servers[s].kept]]
  <2> DEFINE held == servers[s].references + references
  <2>1. servers' = [servers EXCEPT ![s] = [servers[s] EXCEPT !.references = held]]
    BY <1>1 DEF Window
  <2> HIDE DEF held, s
  <2>2. [servers[s] EXCEPT !.references = held]
          = [servers[s] EXCEPT !.checks = servers[s].checks, !.references = held,
                               !.kept = servers[s].kept]
    BY <1>1 DEF ServerRecord
  <2> QED
    BY <2>1, <2>2 DEF held
<1>5. /\ s \in Listening /\ window' = [window EXCEPT ![p] = state]
      /\ UNCHANGED <<proxy, file, reliable>>
  BY DEF Window
<1> QED
  BY <1>2, <1>4, <1>5, ListeningMoves

\* The opening, the moving and the end of a window.
LEMMA WindowPreserves ==
  ASSUME NEW p \in Proxies, IInv,
         OpenWindow(p) \/ RepositoryFound(p) \/ ChangeCwd(p) \/ CloseWindow(p)
  PROVE  IInv'
<1> USE DEF IInv
<1>1. CASE OpenWindow(p)
  <2>1. /\ UNCHANGED <<proxy, servers, file, reliable>>
        /\ \E state \in WindowStates : window' = [window EXCEPT ![p] = state]
        /\ proxy[p].pc \in {"started", "reused"}
    BY <1>1 DEF OpenWindow, OpenedAfterwards, WindowStates, OpenStates
  <2>2. /\ window' \in [Proxies -> WindowStates]
        /\ \A q \in Proxies : window'[q] # "unopened" => proxy[q].pc \in {"started", "reused"}
    BY <2>1 DEF TypeOK, OpenedAfterwards
  <2> QED
    BY <2>1, <2>2, WindowsMove
<1>2. CASE RepositoryFound(p) \/ ChangeCwd(p)
  <2>1. \E state \in WindowStates, references \in Int :
          window[p] # "unopened" /\ Window(p, state, references)
    BY <1>2 DEF RepositoryFound, ChangeCwd, WindowStates, OpenStates
  <2> QED
    BY <2>1, WindowStateMoves
<1>3. CASE CloseWindow(p)
  <2> DEFINE s == proxy[p].server
             count == IF p \in StartsTimer(s) THEN servers[s].checks + 1 ELSE servers[s].checks
             held == IF window[p] = "repo" THEN servers[s].references - 1 ELSE servers[s].references
             kept == servers[s].kept \ {p}
             state == IF window[p] = "moving" THEN "abandoned" ELSE "closed"
  <2>1. s \in DOMAIN servers /\ servers[s] \in ServerRecord /\ servers \in Seq(ServerRecord)
    BY <1>3 DEF CloseWindow, Listening, TypeOK
  <2>2. /\ count \in Nat /\ held \in Int /\ kept \in SUBSET Proxies /\ state \in WindowStates
    <3>1. servers[s].checks \in Nat /\ servers[s].references \in Int
          /\ servers[s].kept \in SUBSET Proxies
      BY <2>1 DEF ServerRecord
    <3> HIDE DEF s
    <3>2. count \in Nat /\ held \in Int
      BY <3>1
    <3>3. kept \in SUBSET Proxies
      BY <3>1
    <3>4. state \in WindowStates
      BY DEF WindowStates
    <3> QED
      BY <3>2, <3>3, <3>4
  <2>3. servers' = [servers EXCEPT ![s] = [servers[s] EXCEPT !.checks = count,
                                             !.references = held, !.kept = kept]]
    BY <1>3, <2>1 DEF CloseWindow
  <2>4. /\ s \in Listening /\ window' = [window EXCEPT ![p] = state]
        /\ UNCHANGED <<proxy, file, reliable>> /\ window[p] # "unopened"
    BY <1>3 DEF CloseWindow, OpenStates, TypeOK
  <2> HIDE DEF count, held, kept, state
  <2> QED
    BY <2>2, <2>3, <2>4, ListeningMoves
<1> QED
  BY <1>1, <1>2, <1>3

\* checkIfServerShouldCleanItselfUp, the end of the process, and what stops
\* servers and proxies from outside.
LEMMA ServerPreserves ==
  ASSUME NEW s \in DOMAIN servers, IInv, CheckCleanup(s) \/ Exit(s)
  PROVE  IInv'
<1> USE DEF IInv
<1> DEFINE new == IF servers[s].state = "stopping"
                  THEN [servers[s] EXCEPT !.state = "gone", !.checks = 0,
                          !.references = 0, !.kept = {}]
                  ELSE [servers[s] EXCEPT !.checks = @ - 1, !.kept = WithRepository(s),
                          !.state = IF servers[s].references = 0 THEN "stopping" ELSE @]
<1>1. servers[s] \in ServerRecord /\ servers \in Seq(ServerRecord)
  BY DEF TypeOK
<1>2. /\ new \in ServerRecord /\ new.version = servers[s].version
      /\ servers' = [servers EXCEPT ![s] = new] /\ servers[s].state # "gone"
      /\ UNCHANGED <<proxy, file, reliable>>
      /\ servers[s].state = "stopping" \/ servers[s].checks > 0
  <2>1. CASE CheckCleanup(s)
    <3>1. servers[s].state = "listening" /\ servers[s].checks > 0
      BY <2>1 DEF CheckCleanup, Listening
    <3> DEFINE state == IF servers[s].references = 0 THEN "stopping" ELSE servers[s].state
               count == servers[s].checks - 1
               kept == WithRepository(s)
    <3>2. state \in {"stopping", "listening"} /\ count \in Nat /\ kept \in SUBSET Proxies
      BY <3>1, <1>1 DEF ServerRecord, WithRepository, WindowsOf
    <3>3. /\ new = [servers[s] EXCEPT !.checks = count, !.kept = kept, !.state = state]
          /\ servers' = [servers EXCEPT ![s] =
                           [servers[s] EXCEPT !.checks = count, !.kept = kept, !.state = state]]
      BY <2>1, <3>1, <1>1 DEF CheckCleanup
    <3> HIDE DEF new, state, count, kept
    <3>4. new \in ServerRecord /\ new.version = servers[s].version
      BY <3>1, <3>2, <3>3, <1>1 DEF ServerRecord
    <3> QED
      BY <2>1, <3>1, <3>3, <3>4 DEF CheckCleanup
  <2>2. CASE Exit(s)
    <3>1. servers[s].state = "stopping"
      BY <2>2 DEF Exit
    <3>2. /\ new = [servers[s] EXCEPT !.state = "gone", !.checks = 0, !.references = 0,
                                        !.kept = {}]
          /\ servers' = [servers EXCEPT ![s] = new]
      BY <2>2, <3>1, <1>1 DEF Exit
    <3> HIDE DEF new
    <3>3. PICK none \in SUBSET Proxies : none = {}
      OBVIOUS
    <3>4. new = [servers[s] EXCEPT !.state = "gone", !.checks = 0, !.references = 0,
                                   !.kept = none]
      BY <3>2, <3>3
    <3>5. new = [state |-> "gone", version |-> servers[s].version,
                 foreground |-> servers[s].foreground, checks |-> 0, references |-> 0,
                 kept |-> none]
      BY <3>4, <1>1 DEF ServerRecord
    <3>6. new \in ServerRecord /\ new.version = servers[s].version
      BY <3>5, <1>1 DEF ServerRecord
    <3> QED
      BY <2>2, <3>1, <3>2, <3>6 DEF Exit
  <2> QED
    BY <2>1, <2>2
<1>3. reliable => \A p \in Proxies : Starting(p) => proxy[p].server # s
  BY <1>2 DEF Unknown
<1>4. /\ window' \in [Proxies -> WindowStates]
      /\ \A p \in Proxies : window'[p] # "unopened" => proxy[p].pc \in {"started", "reused"}
  <2>1. CASE window' = window
    BY <2>1 DEF TypeOK, WindowStates, OpenedAfterwards
  <2>2. CASE window' = [p \in Proxies |-> IF p \in WindowsOf(s) THEN "lost" ELSE window[p]]
    BY <2>2 DEF TypeOK, WindowStates, OpenStates, OpenedAfterwards, WindowsOf
  <2> QED
    BY <2>1, <2>2 DEF CheckCleanup, Exit
<1>5. \A p \in Proxies : (Starting(p)' => Starting(p)) /\ (Started(p)' => Started(p))
  BY <1>2 DEF Starting, Started, At
<1> HIDE DEF new
<1> QED
  BY <1>2, <1>3, <1>4, <1>5, ServerMoves DEF TypeOK

LEMMA InterruptPreserves == IInv /\ Interrupt => IInv'
<1> SUFFICES ASSUME IInv, Interrupt PROVE IInv'
  OBVIOUS
<1> USE DEF IInv
<1>1. ~reliable /\ UNCHANGED <<file, window, reliable>>
  BY DEF Interrupt
<1>2. ASSUME NEW s \in Listening, SignalPid(s), UNCHANGED proxy
      PROVE  IInv'
  <2> DEFINE new == [servers[s] EXCEPT !.state = "stopping"]
  <2>1. /\ s \in DOMAIN servers /\ servers[s].state = "listening" /\ servers[s] \in ServerRecord
        /\ servers \in Seq(ServerRecord)
    BY DEF Listening, TypeOK
  <2>2. servers' = [servers EXCEPT ![s] = new]
    BY <1>2, <2>1 DEF SignalPid
  <2>3. new \in ServerRecord /\ new.version = servers[s].version
    BY <2>1 DEF ServerRecord
  <2>4. /\ window' \in [Proxies -> WindowStates] /\ proxy' \in [Proxies -> Proxy]
        /\ \A p \in Proxies : /\ window'[p] # "unopened" => proxy'[p].pc \in {"started", "reused"}
                              /\ Starting(p)' => Starting(p)
                              /\ Started(p)' => Started(p)
    BY <1>1, <1>2 DEF TypeOK, WindowStates, OpenedAfterwards, Starting, Started, At
  <2> HIDE DEF new
  <2> QED
    BY <1>1, <1>2, <2>1, <2>2, <2>3, <2>4, ServerMoves
<1>3. ASSUME NEW p \in Proxies, proxy[p].pc \in {"delete", "write"}, Goto(p, "interrupted"),
             UNCHANGED servers
      PROVE  IInv'
  <2> DEFINE new == [proxy[p] EXCEPT !.pc = "interrupted"]
  <2>1. /\ proxy' = [proxy EXCEPT ![p] = new] /\ new \in Proxy /\ new.pc = "interrupted"
        /\ new.info = proxy[p].info /\ new.server = proxy[p].server
    BY <1>3 DEF Goto, TypeOK, Proxy, PCs, Ended
  <2> HIDE DEF new
  <2>2. /\ proxy' \in [Proxies -> Proxy] /\ proxy'[p] = new
        /\ \A q \in Proxies : q # p => proxy'[q] = proxy[q]
    BY <2>1 DEF TypeOK
  <2>3. TypeOK'
    BY <1>1, <1>3, <2>2 DEF TypeOK
  <2>4. Known' /\ OneRunning' /\ OpenedAfterwards'
    BY <1>1, <1>3, <2>1, <2>2 DEF Known, OneRunning, Running, OpenedAfterwards
  <2>5. Owned'
    BY <1>1, <1>3, <2>1, <2>2 DEF Owned, Starting, Started, At, Version
  <2> QED
    BY <1>1, <2>3, <2>4, <2>5 DEF Unknown, Written
<1> QED
  BY <1>1, <1>2, <1>3 DEF Interrupt

\* Every step of every invocation, window and server preserves it.
LEMMA NextPreserves == IInv /\ [Next]_vars => IInv'
<1> SUFFICES ASSUME IInv, [Next]_vars PROVE IInv'
  OBVIOUS
<1>1. CASE UNCHANGED vars
  BY <1>1 DEF vars, IInv, TypeOK, Known, OneRunning, Running, Owned, OpenedAfterwards, Unknown,
              Written, Starting, Started, At, OwnInfo, Version
<1>2. ASSUME NEW p \in Proxies, NEW mode \in Modes, Begin(p, mode)
      PROVE  IInv'
  BY <1>2, QuietPreserves
<1>3. ASSUME NEW p \in Proxies, ProxyStep(p)
      PROVE  IInv'
  BY <1>3, QuietPreserves, KillPreserves, StartPreserves, FilePreserves DEF ProxyStep
<1>4. ASSUME NEW p \in Proxies,
             OpenWindow(p) \/ RepositoryFound(p) \/ ChangeCwd(p) \/ CloseWindow(p)
      PROVE  IInv'
  BY <1>4, WindowPreserves
<1>5. ASSUME NEW s \in DOMAIN servers, CheckCleanup(s) \/ Exit(s)
      PROVE  IInv'
  BY <1>5, ServerPreserves
<1> QED
  BY <1>1, <1>2, <1>3, <1>4, <1>5, InterruptPreserves DEF Next

\* The state of invocations, servers and the file has its type in every state
\* that runProxyMain can reach.
THEOREM TypeCorrect == Spec => []TypeOK
<1>1. IInv => TypeOK
  BY DEF IInv
<1> QED
  BY <1>1, InitIInv, NextPreserves, PTL DEF Spec

\* For any number of invocations, versions and kills: when the invocation that
\* started a server has ended, the file of the port names that server as long
\* as it listens.
THEOREM ListeningServerIsNamed == Spec => []FileNamesTheServer
<1>1. IInv => FileNamesTheServer
  <2> SUFFICES ASSUME IInv, reliable, NEW p \in Proxies, NEW s \in Listening,
                      At(p, "started"), proxy[p].server = s
               PROVE  file = [server |-> s, version |-> servers[s].version]
    BY DEF FileNamesTheServer
  <2>1. s \in Running /\ Started(p)
    BY DEF Listening, Running, Started
  <2>2. file = OwnInfo(p) /\ servers[s].version = Version(p)
    BY <2>1 DEF IInv, Written, Owned
  <2> QED
    BY <2>2 DEF OwnInfo
<1> QED
  BY <1>1, InitIInv, NextPreserves, PTL DEF Spec
=============================================================================
