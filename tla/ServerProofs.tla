---------------------------- MODULE ServerProofs ----------------------------
(***************************************************************************)
(* Proof that the plugin list and its background processes keep PluginInv, *)
(* for any list of auth-pam and down-root plugins, any clients and any     *)
(* bounds.  The inductive invariant relates the place of the main process  *)
(* (MainOK) to the handles of the list, and for each plugin the place of   *)
(* the main process to the state of the background process and to what is  *)
(* in the two directions of the socket pair between them (Talk).           *)
(*                                                                         *)
(* Then the proof that the event loop of the TCP server keeps TcpInv, for  *)
(* any clients, options and limits.  The inductive invariant says what is  *)
(* sound at any moment of a pass (Sound), that all clients but the one the *)
(* pass is about rest (Only), and what the pass knows of that one (Ready). *)
(***************************************************************************)
EXTENDS Plugin, MultiTcp, FiniteSetTheorems, SequenceTheorems, WellFoundedInduction, TLAPS


\* The background process with state b is not running.
Ended(b) == b.at \in {"none", "exited", "killed"}

\* Nothing is on its way between the two processes, x to the background process, y from it.
Quiet(b, x, y) == y = <<>> /\ (Ended(b) \/ (b.at = "loop" /\ x = <<>>))

\* The background process was forked and says how its initialisation went.
Starting(b, x, y) ==
  /\ x = <<>>
  /\ \/ y = <<>> /\ b.at \in {"init", "killed"}
     \/ y = <<"INIT_SUCCEEDED">> /\ b.at \in {"loop", "killed"}
     \/ y = <<"INIT_FAILED">> /\ b.at = "exited"

\* Username u is with the background process of auth-pam plugin p: the command, the username
\* and the password are read in turn, and the answer is what the PAM service says of u.
Verifying(p, u, b, x, y) ==
  \/ y = <<>> /\ b.at = "loop" /\ x = <<"VERIFY", u, u>>
  \/ y = <<>> /\ b.at = "username" /\ x = <<u, u>>
  \/ y = <<>> /\ b.at = "password" /\ x = <<u>> /\ b.user = u
  \/ y = <<>> /\ b.at = "auth" /\ x = <<>> /\ b.user = u
  \/ y = <<>> /\ b.at = "killed"
  \/ y = <<"VERIFY_SUCCEEDED">> /\ b.at \in {"loop", "killed"} /\ x = <<>> /\ u \in Plugins[p].accepts
  \/ y = <<"VERIFY_FAILED">> /\ b.at \in {"loop", "killed"} /\ x = <<>>

\* The background process of down-root has been asked to run its script.
Scripting(b, x, y) ==
  \/ y = <<>> /\ b.at = "loop" /\ x = <<"RUN_SCRIPT">>
  \/ y = <<>> /\ b.at = "script" /\ x = <<>>
  \/ y = <<>> /\ b.at = "killed"
  \/ y \in {<<"SCRIPT_SUCCEEDED">>, <<"SCRIPT_FAILED">>} /\ b.at \in {"loop", "killed"} /\ x = <<>>

\* The background process has ended or the last it will read is the command to exit.
Leaving(b, x, y) == y = <<>> /\ (Ended(b) \/ (b.at = "loop" /\ x = <<"EXIT">>))

\* The main process waits in plugin p.
Waits(pr, at, p) == pr.at = at /\ pr.i = p

\* What plugin_call waits for: UP forks, VERIFY asks, DOWN runs the script.
Answering(pr, h, b, x, y, p) ==
  \/ pr.type = "UP" /\ Plugins[p].kind = "down" /\ ~h.fd /\ Starting(b, x, y)
  \/ pr.type = "VERIFY" /\ Plugins[p].kind = "pam" /\ h.fd /\ Verifying(p, pr.user, b, x, y)
  \/ pr.type = "DOWN" /\ Plugins[p].kind = "down" /\ h.fd /\ Scripting(b, x, y)

\* How far the two processes of plugin p are, by the place pr of the main process; a plugin
\* without a socket (h.fd) has no background process, except while it is being started.
Talk(pr, h, b, x, y, p) ==
  \/ Waits(pr, "openwait", p) /\ Plugins[p].kind = "pam" /\ Starting(b, x, y)
  \/ Waits(pr, "callwait", p) /\ Answering(pr, h, b, x, y, p)
  \/ pr.at = "exit" /\ Leaving(b, x, y)
  \/ Waits(pr, "closewait", p) /\ (h.fd \/ Ended(b)) /\ Leaving(b, x, y)
  \/ /\ pr.at # "exit" /\ ~Waits(pr, "openwait", p) /\ ~Waits(pr, "callwait", p) /\ ~Waits(pr, "closewait", p)
     /\ (h.fd \/ Ended(b)) /\ Quiet(b, x, y)

\* The number of plugins.
N == Len(Plugins)

\* The handle that plugin_init_item returned and nobody closed or aborted.
Opened(h) == h.handle = "open"

\* Of the plugins called so far no more succeeded than were called, and if all did, each
\* auth-pam plugin among them accepted the user.
Vouched(pr) ==
  /\ pr.count <= pr.i - 1
  /\ pr.type = "VERIFY" /\ pr.count = pr.i - 1 => \A q \in P : q < pr.i /\ Plugins[q].kind = "pam" => pr.user \in Plugins[q].accepts

\* The handles h of the list, its length n and whether openvpn_exit may abort it (a), by the
\* place pr of the main process.
MainOK(pr, h, n, a) ==
  \/ pr.at = "start" /\ n = 0 /\ \A p \in P : h[p] = NoContext
  \/ /\ pr.at = "open" \/ (pr.at = "openwait" /\ pr.i \in P)
     /\ n = pr.i - 1 /\ a /\ \A p \in P : IF p < pr.i THEN Opened(h[p]) ELSE h[p] = NoContext
  \/ /\ pr.at = "call" \/ (pr.at = "callwait" /\ pr.i \in P)
     /\ n = N /\ a /\ Vouched(pr) /\ \A p \in P : Opened(h[p])
  \/ pr.at = "run" /\ n = N /\ a /\ \A p \in P : Opened(h[p])
  \/ /\ pr.at = "close" \/ (pr.at = "closewait" /\ pr.i \in P)
     /\ n = N /\ ~a /\ \A p \in P : IF p < pr.i THEN h[p].handle = "closed" /\ ~h[p].fd ELSE Opened(h[p])
  \/ pr.at = "exit" /\ \A p \in P : h[p].handle \in {"none", "closed", "aborted"} /\ ~h[p].fd

\* Types of the state.
ProgAt == {"start", "open", "openwait", "call", "callwait", "run", "close", "closewait", "exit"}
ProgType == [at : ProgAt, i : 1 .. N + 1, type : {"UP", "DOWN", "VERIFY"}, count : 0 .. N, user : Clients \cup {"none"},
             next : {"run", "fatal", "SIGUSR1", "SIGHUP", "SIGTERM"}]
BgType == [at : {"none", "init", "loop", "username", "password", "auth", "script", "exited", "killed"},
           user : Clients \cup {"none"}]
Types ==
  /\ pl \in [P -> [handle : {"none", "open", "closed", "aborted"}, fd : BOOLEAN]]
  /\ npl \in 0 .. N /\ abortable \in BOOLEAN /\ prog \in ProgType /\ bg \in [P -> BgType]
  /\ toBg = [p \in P |-> toBg[p]] /\ toFg = [p \in P |-> toFg[p]]
  /\ \A p \in P : Len(toBg[p]) <= 3 /\ Len(toFg[p]) <= 1

\* The inductive invariant.
IInv ==
  /\ Types /\ MainOK(prog, pl, npl, abortable)
  /\ \A p \in P : Talk(prog, pl[p], bg[p], toBg[p], toFg[p], p)
  /\ GrantedByAll

\* The plugins are numbered from 1.
LEMMA LenPlugins == N \in Nat /\ \A p \in P : p \in Nat /\ p >= 1 /\ p <= N
  BY PluginAssumption DEF N, P

\* A value of prog.
Rec(a, i, t, c, u, n) == [at |-> a, i |-> i, type |-> t, count |-> c, user |-> u, next |-> n]

\* The main process moves on: what becomes of prog.
LEMMA ProgGo ==
  ASSUME NEW pr \in ProgType, NEW a
  PROVE  [pr EXCEPT !.at = a] = Rec(a, pr.i, pr.type, pr.count, pr.user, pr.next)
  BY DEF ProgType, Rec
LEMMA ProgAtItem ==
  ASSUME NEW pr \in ProgType, NEW a, NEW j
  PROVE  [pr EXCEPT !.at = a, !.i = j] = Rec(a, j, pr.type, pr.count, pr.user, pr.next)
  <1> DEFINE q == [pr EXCEPT !.at = a]
  <1>1. q = Rec(a, pr.i, pr.type, pr.count, pr.user, pr.next) BY ProgGo
  <1> HIDE DEF q
  <1>2. [q EXCEPT !.i = j] = Rec(a, j, pr.type, pr.count, pr.user, pr.next) BY <1>1 DEF Rec
  <1> QED BY <1>2 DEF q
LEMMA ProgReturned ==
  ASSUME NEW pr \in ProgType, NEW a, NEW j, NEW c
  PROVE  [pr EXCEPT !.at = a, !.i = j, !.count = c] = Rec(a, j, pr.type, c, pr.user, pr.next)
  <1> DEFINE q == [pr EXCEPT !.at = a, !.i = j]
  <1>1. q = Rec(a, j, pr.type, pr.count, pr.user, pr.next) BY ProgAtItem
  <1> HIDE DEF q
  <1>2. [q EXCEPT !.count = c] = Rec(a, j, pr.type, c, pr.user, pr.next) BY <1>1 DEF Rec
  <1> QED BY <1>2 DEF q
LEMMA ProgFatal ==
  ASSUME NEW pr \in ProgType
  PROVE  [pr EXCEPT !.at = "exit", !.next = "fatal"] = Rec("exit", pr.i, pr.type, pr.count, pr.user, "fatal")
  <1> DEFINE q == [pr EXCEPT !.at = "exit"]
  <1>1. q = Rec("exit", pr.i, pr.type, pr.count, pr.user, pr.next) BY ProgGo
  <1> HIDE DEF q
  <1>2. [q EXCEPT !.next = "fatal"] = Rec("exit", pr.i, pr.type, pr.count, pr.user, "fatal") BY <1>1 DEF Rec
  <1> QED BY <1>2 DEF q

\* These are values prog may have.
LEMMA RecType ==
  ASSUME NEW pr \in ProgType, NEW a \in ProgAt, NEW j \in 1 .. N + 1, NEW c \in 0 .. N,
         NEW n \in {"run", "fatal", "SIGUSR1", "SIGHUP", "SIGTERM"}
  PROVE  Rec(a, j, pr.type, c, pr.user, n) \in ProgType
  BY DEF Rec, ProgType

\* The inductive invariant holds initially.
LEMMA InitInv == PluginInit => IInv
  <1> SUFFICES ASSUME PluginInit PROVE IInv OBVIOUS
  <1> USE LenPlugins
  <1>1. prog \in ProgType BY DEF PluginInit, ProgType, ProgAt
  <1>2. bg \in [P -> BgType] BY DEF PluginInit, BgType, NoServer
  <1>7. NoContext \in [handle : {"none", "open", "closed", "aborted"}, fd : BOOLEAN] BY DEF NoContext
  <1>8. \A p \in P : toBg[p] = <<>> /\ toFg[p] = <<>> BY DEF PluginInit
  <1>9. \A p \in P : Len(toBg[p]) <= 3 /\ Len(toFg[p]) <= 1 BY <1>8
  <1>10. pl \in [P -> [handle : {"none", "open", "closed", "aborted"}, fd : BOOLEAN]] BY <1>7 DEF PluginInit
  <1>11. toBg = [p \in P |-> toBg[p]] /\ toFg = [p \in P |-> toFg[p]] BY DEF PluginInit
  <1>12. npl = 0 /\ abortable = FALSE BY DEF PluginInit
  <1>13. npl \in 0 .. N BY <1>12
  <1>14. abortable \in BOOLEAN BY <1>12, Zenon
  <1>3. Types BY <1>1, <1>2, <1>9, <1>10, <1>11, <1>13, <1>14, Zenon DEF Types
  <1>4. MainOK(prog, pl, npl, abortable) BY DEF PluginInit, MainOK
  <1>5. \A p \in P : Talk(prog, pl[p], bg[p], toBg[p], toFg[p], p)
    BY DEF PluginInit, Talk, Waits, Quiet, Ended, NoServer
  <1>6. GrantedByAll BY DEF PluginInit, GrantedByAll
  <1> QED BY <1>3, <1>4, <1>5, <1>6 DEF IInv

\* plugin_list_open preserves it.
LEMMA ListOpenStep == IInv /\ PluginListOpen => IInv'
  <1> SUFFICES ASSUME IInv, PluginListOpen PROVE IInv' OBVIOUS
  <1> USE LenPlugins
  <1>0. prog \in ProgType /\ prog.at = "start" /\ prog' = Rec("open", 1, prog.type, prog.count, prog.user, prog.next)
    BY ProgAtItem DEF PluginListOpen, IInv, Types
  <1>1. prog' \in ProgType
    <2>1. "open" \in ProgAt /\ 1 \in 1 .. N + 1 BY DEF ProgAt
    <2>2. prog.count \in 0 .. N /\ prog.next \in {"run", "fatal", "SIGUSR1", "SIGHUP", "SIGTERM"} BY <1>0 DEF ProgType
    <2> QED BY <1>0, <2>1, <2>2, RecType
  <1>2. prog'.at = "open" /\ prog'.i = 1 /\ prog.at = "start" BY <1>0 DEF Rec
  <1>3. Types' BY <1>1 DEF PluginListOpen, IInv, Types
  <1>4. MainOK(prog', pl', npl', abortable') BY <1>2 DEF PluginListOpen, IInv, MainOK
  <1>5. \A p \in P : Talk(prog', pl'[p], bg'[p], toBg'[p], toFg'[p], p)
    BY <1>2 DEF PluginListOpen, IInv, Talk, Waits
  <1>6. GrantedByAll' BY DEF PluginListOpen, IInv, GrantedByAll
  <1> QED BY <1>3, <1>4, <1>5, <1>6 DEF IInv

\* So does the end of the list, which starts the call for UP,
LEMMA ListOpenedStep == IInv /\ ListOpened => IInv'
  <1> SUFFICES ASSUME IInv, ListOpened PROVE IInv' OBVIOUS
  <1> USE LenPlugins
  <1>1. prog' \in ProgType BY DEF ListOpened, IInv, Types, ProgType, ProgAt, CallStarts
  <1>2. prog'.at = "call" /\ prog'.i = 1 /\ prog.at = "open" /\ prog.i = N + 1 /\ prog'.count = 0
    BY DEF ListOpened, IInv, Types, ProgType, ProgAt, CallStarts, N
  <1>3. Types' BY <1>1 DEF ListOpened, IInv, Types
  <1>4. MainOK(prog', pl', npl', abortable') BY <1>2 DEF ListOpened, IInv, MainOK, Vouched
  <1>5. \A p \in P : Talk(prog', pl'[p], bg'[p], toBg'[p], toFg'[p], p)
    BY <1>2 DEF ListOpened, IInv, Talk, Waits
  <1>6. GrantedByAll' BY DEF ListOpened, IInv, GrantedByAll
  <1> QED BY <1>3, <1>4, <1>5, <1>6 DEF IInv

\* a client that authenticates,
LEMMA AuthenticateStep == \A u \in Clients : IInv /\ Authenticate(u) => IInv'
  <1> SUFFICES ASSUME NEW u \in Clients, IInv, Authenticate(u) PROVE IInv' OBVIOUS
  <1> USE LenPlugins
  <1>1. prog' \in ProgType BY DEF Authenticate, IInv, Types, ProgType, ProgAt, CallStarts
  <1>2. prog'.at = "call" /\ prog'.i = 1 /\ prog.at = "run" /\ prog'.count = 0
    BY DEF Authenticate, CallStarts
  <1>3. Types' BY <1>1 DEF Authenticate, IInv, Types
  <1>4. MainOK(prog', pl', npl', abortable') BY <1>2 DEF Authenticate, IInv, MainOK, Vouched
  <1>5. \A p \in P : Talk(prog', pl'[p], bg'[p], toBg'[p], toFg'[p], p)
    BY <1>2 DEF Authenticate, IInv, Talk, Waits
  <1>6. GrantedByAll' BY DEF Authenticate, IInv, GrantedByAll
  <1> QED BY <1>3, <1>4, <1>5, <1>6 DEF IInv

\* a signal that ends the instance,
LEMMA SignalledStep == \A sig \in {"SIGUSR1", "SIGHUP", "SIGTERM"} : IInv /\ Signalled(sig) => IInv'
  <1> SUFFICES ASSUME NEW sig \in {"SIGUSR1", "SIGHUP", "SIGTERM"}, IInv, Signalled(sig) PROVE IInv' OBVIOUS
  <1> USE LenPlugins
  <1>1. prog' \in ProgType BY DEF Signalled, IInv, Types, ProgType, ProgAt, CallStarts
  <1>2. prog'.at = "call" /\ prog'.i = 1 /\ prog.at = "run" /\ prog'.count = 0
    BY DEF Signalled, CallStarts
  <1>3. Types' BY <1>1 DEF Signalled, IInv, Types
  <1>4. MainOK(prog', pl', npl', abortable') BY <1>2 DEF Signalled, IInv, MainOK, Vouched
  <1>5. \A p \in P : Talk(prog', pl'[p], bg'[p], toBg'[p], toFg'[p], p)
    BY <1>2 DEF Signalled, IInv, Talk, Waits
  <1>6. GrantedByAll' BY DEF Signalled, IInv, GrantedByAll
  <1> QED BY <1>3, <1>4, <1>5, <1>6 DEF IInv

\* and the end of plugin_list_close: all plugins are closed and all background processes ended.
LEMMA ListClosedStep == IInv /\ ListClosed => IInv'
  <1> SUFFICES ASSUME IInv, ListClosed PROVE IInv' OBVIOUS
  <1> USE LenPlugins
  <1>1. prog' \in ProgType BY DEF ListClosed, IInv, Types, ProgType, ProgAt, Go
  <1>2. prog.at = "close" /\ prog.i = npl + 1 BY DEF ListClosed
  <1>0. npl = N /\ \A p \in P : pl[p].handle = "closed" /\ ~pl[p].fd BY <1>2 DEF IInv, MainOK
  <1>3. CASE prog.next = "SIGHUP"
    <2>1. prog'.at = "start" BY <1>3 DEF ListClosed, Go, IInv, Types, ProgType, ProgAt
    <2>2. pl' = [p \in P |-> NoContext] /\ npl' = 0 BY <1>3 DEF ListClosed
    <2>3. Types' BY <1>1, <2>2 DEF ListClosed, IInv, Types, NoContext
    <2>4. MainOK(prog', pl', npl', abortable') BY <2>1, <2>2 DEF MainOK
    <2>5. \A p \in P : Talk(prog', pl'[p], bg'[p], toBg'[p], toFg'[p], p)
      BY <1>0, <1>2, <2>1 DEF ListClosed, IInv, Talk, Waits
    <2>6. GrantedByAll' BY DEF ListClosed, IInv, GrantedByAll
    <2> QED BY <2>3, <2>4, <2>5, <2>6 DEF IInv
  <1>4. CASE prog.next # "SIGHUP"
    <2>1. prog'.at = "exit" BY <1>4 DEF ListClosed, Go, IInv, Types, ProgType, ProgAt
    <2>2. pl' = pl /\ npl' = npl BY <1>4 DEF ListClosed
    <2>3. Types' BY <1>1, <2>2 DEF ListClosed, IInv, Types
    <2>4. MainOK(prog', pl', npl', abortable') BY <1>0, <2>1, <2>2 DEF MainOK
    <2>5. \A p \in P : Talk(prog', pl'[p], bg'[p], toBg'[p], toFg'[p], p)
      BY <1>0, <1>2, <2>1 DEF ListClosed, IInv, Talk, Waits, Quiet, Leaving
    <2>6. GrantedByAll' BY DEF ListClosed, IInv, GrantedByAll
    <2> QED BY <2>3, <2>4, <2>5, <2>6 DEF IInv
  <1> QED BY <1>3, <1>4

-----------------------------------------------------------------------------
\* A plugin that nobody talks to.
Calm(h, b, x, y) == (h.fd \/ Ended(b)) /\ Quiet(b, x, y)
Handles == [handle : {"none", "open", "closed", "aborted"}, fd : BOOLEAN]
NextAt == {"run", "fatal", "SIGUSR1", "SIGHUP", "SIGTERM"}

\* Types of the variables, as the steps below use them.
LEMMA Facts ==
  ASSUME IInv
  PROVE  /\ prog \in ProgType /\ prog.i \in 1 .. N + 1 /\ prog.count \in 0 .. N /\ prog.next \in NextAt
         /\ pl \in [P -> Handles] /\ npl \in 0 .. N /\ bg \in [P -> BgType] /\ abortable \in BOOLEAN
  BY DEF IInv, Types, ProgType, Handles, NextAt

\* openvpn_exit and plugin_abort, from a place where no plugin is being talked to: every handle
\* that is open is aborted, and every background process that lives is told to exit.
LEMMA AbortStep ==
  ASSUME IInv, PluginAbort, bg' = bg, toFg' = [p \in P |-> toFg'[p]], abortable,
         \A p \in P : Len(toFg'[p]) <= 1,
         \A p \in P : IF p <= npl THEN Opened(pl[p]) ELSE pl[p] = NoContext,
         \A p \in P : Calm(pl[p], bg[p], toBg[p], toFg'[p]),
         npl' = npl, GrantedByAll'
  PROVE  IInv'
  <1> USE LenPlugins
  <1>1. prog' = Rec("exit", prog.i, prog.type, prog.count, prog.user, "fatal") BY Facts, ProgFatal DEF PluginAbort
  <1>2. prog' \in ProgType
    <2>1. "exit" \in ProgAt /\ "fatal" \in NextAt BY DEF ProgAt, NextAt
    <2> QED BY <1>1, <2>1, Facts, RecType DEF NextAt
  <1>3. prog'.at = "exit" BY <1>1 DEF Rec
  <1>4. ASSUME NEW p \in P
        PROVE  /\ pl'[p] \in Handles /\ pl'[p].handle \in {"none", "aborted"} /\ ~pl'[p].fd
    <2>1. CASE p <= npl
      <3>1. pl'[p] = [handle |-> "aborted", fd |-> FALSE] BY <2>1 DEF PluginAbort, Opened
      <3> QED BY <3>1 DEF Handles
    <2>2. CASE ~(p <= npl)
      <3>1. pl'[p] = [handle |-> "none", fd |-> FALSE] BY <2>2 DEF PluginAbort, NoContext
      <3> QED BY <3>1 DEF Handles
    <2> QED BY <2>1, <2>2
  <1>5. pl' \in [P -> Handles] BY <1>4 DEF PluginAbort
  <1>6. toBg' = [p \in P |-> toBg'[p]] BY DEF PluginAbort
  <1>7. ASSUME NEW p \in P
        PROVE  Len(toBg'[p]) <= 3 /\ Leaving(bg'[p], toBg'[p], toFg'[p])
    <2>1. Len(toBg[p]) <= 3 BY DEF IInv, Types
    <2>2. CASE Ended(bg[p])
      <3>1. toBg'[p] = toBg[p] BY <2>2 DEF PluginAbort, BgAlive, Ended
      <3> QED BY <2>1, <2>2, <3>1 DEF Calm, Quiet, Leaving
    <2>3. CASE ~Ended(bg[p])
      <3>1. pl[p].fd /\ toBg[p] = <<>> /\ bg[p].at = "loop" /\ toFg'[p] = <<>> BY <2>3 DEF Calm, Quiet
      <3>2. p <= npl BY <3>1 DEF NoContext
      <3>5. toBg'[p] = Append(toBg[p], "EXIT") BY <2>3, <3>1, <3>2 DEF PluginAbort, BgAlive, Ended
      <3>6. Append(<<>>, "EXIT") = <<"EXIT">> OBVIOUS
      <3>3. toBg'[p] = <<"EXIT">> BY <3>1, <3>5, <3>6, Zenon
      <3>4. Len(toBg'[p]) = 1 BY <3>3
      <3> QED BY <3>1, <3>3, <3>4 DEF Leaving
    <2> QED BY <2>2, <2>3
  <1>8. Types'
    <2>1. abortable' = FALSE BY DEF PluginAbort
    <2>2. abortable' \in BOOLEAN BY <2>1, Zenon
    <2> QED BY <1>2, <1>5, <1>6, <1>7, <2>2, Facts, Zenon DEF Types, Handles
  <1>9. MainOK(prog', pl', npl', abortable') BY <1>3, <1>4 DEF MainOK
  <1>10. \A p \in P : Talk(prog', pl'[p], bg'[p], toBg'[p], toFg'[p], p) BY <1>3, <1>7 DEF Talk
  <1> QED BY <1>8, <1>9, <1>10 DEF IInv

\* A plugin in which the main process does not wait is calm,
LEMMA QuietCalm ==
  ASSUME NEW q \in P, IInv, prog.at # "exit",
         ~Waits(prog, "openwait", q), ~Waits(prog, "callwait", q), ~Waits(prog, "closewait", q)
  PROVE  Calm(pl[q], bg[q], toBg[q], toFg[q])
  BY DEF IInv, Talk, Waits, Calm

\* and stays so.
LEMMA CalmTalk ==
  ASSUME NEW q \in P, NEW pr, NEW h, NEW b, NEW x, NEW y, Calm(h, b, x, y), pr.at # "exit",
         ~Waits(pr, "openwait", q), ~Waits(pr, "callwait", q), ~Waits(pr, "closewait", q)
  PROVE  Talk(pr, h, b, x, y, q)
  BY DEF Talk, Calm

\* While the list is being opened, the plugins counted are the ones that are open.
LEMMA FatalOpen ==
  ASSUME IInv, prog.at \in {"open", "openwait"}
  PROVE  abortable /\ \A p \in P : IF p <= npl THEN Opened(pl[p]) ELSE pl[p] = NoContext
  <1>1. /\ npl = prog.i - 1 /\ abortable
        /\ \A p \in P : IF p < prog.i THEN Opened(pl[p]) ELSE pl[p] = NoContext BY DEF IInv, MainOK
  <1>2. \A p \in P : p < prog.i <=> p <= npl BY <1>1, Facts, LenPlugins
  <1> QED BY <1>1, <1>2

\* plugin_init_item: the context of down-root, the fork of auth-pam, or a fatal error.
LEMMA InitItemStep == \A p \in P : IInv /\ PluginInitItem(p) => IInv'
  <1> SUFFICES ASSUME NEW p \in P, IInv, PluginInitItem(p) PROVE IInv' OBVIOUS
  <1> USE LenPlugins
  <1>0. prog.at = "open" /\ prog.i = p /\ granted' = granted BY DEF PluginInitItem
  <1>1. /\ npl = p - 1 /\ abortable
        /\ \A q \in P : IF q < p THEN Opened(pl[q]) ELSE pl[q] = NoContext BY <1>0 DEF IInv, MainOK
  <1>2. \A q \in P : Calm(pl[q], bg[q], toBg[q], toFg[q]) BY <1>0, QuietCalm DEF Waits
  <1>3. GrantedByAll' BY <1>0 DEF IInv, GrantedByAll
  <1>4. CASE Plugins[p].kind = "down" /\ OpenDownRoot(p)
    <2>1. prog' = Rec("open", p + 1, prog.type, prog.count, prog.user, prog.next)
      BY <1>4, Facts, ProgAtItem DEF OpenDownRoot, Loaded
    <2>2. prog' \in ProgType /\ prog'.at = "open" /\ prog'.i = p + 1
      <3>1. "open" \in ProgAt /\ p + 1 \in 1 .. N + 1 BY DEF ProgAt
      <3> QED BY <2>1, <3>1, Facts, RecType DEF Rec, NextAt
    <2>3. pl' = [pl EXCEPT ![p] = [handle |-> "open", fd |-> FALSE]] /\ npl' = p /\ abortable' = abortable
          /\ bg' = bg /\ toBg' = toBg /\ toFg' = toFg
      BY <1>4 DEF OpenDownRoot, Loaded
    <2>4. [handle |-> "open", fd |-> FALSE] \in Handles BY DEF Handles
    <2>5. pl' \in [P -> Handles] BY <2>3, <2>4, Facts
    <2>6. Types' BY <2>2, <2>3, <2>5, Facts DEF IInv, Types, Handles
    <2>7. \A q \in P : pl'[q] = IF q = p THEN [handle |-> "open", fd |-> FALSE] ELSE pl[q] BY <2>3, Facts
    <2>8. MainOK(prog', pl', npl', abortable')
      <3>1. \A q \in P : IF q < p + 1 THEN Opened(pl'[q]) ELSE pl'[q] = NoContext BY <1>1, <2>7 DEF Opened
      <3> QED BY <1>1, <2>2, <2>3, <3>1 DEF MainOK
    <2>9. ASSUME NEW q \in P PROVE Talk(prog', pl'[q], bg'[q], toBg'[q], toFg'[q], q)
      <3>1. Calm(pl'[q], bg'[q], toBg'[q], toFg'[q]) BY <1>1, <1>2, <2>3, <2>7 DEF Calm, NoContext
      <3> QED BY <2>2, <3>1, CalmTalk DEF Waits
    <2> QED BY <1>3, <2>6, <2>8, <2>9 DEF IInv
  <1>5. CASE Plugins[p].kind = "pam" /\ OpenAuthPam(p)
    <2>1. prog' = Rec("openwait", p, prog.type, prog.count, prog.user, prog.next)
      BY <1>0, <1>5, Facts, ProgGo DEF OpenAuthPam, Go
    <2>2. prog' \in ProgType /\ prog'.at = "openwait" /\ prog'.i = p
      <3>1. "openwait" \in ProgAt /\ p \in 1 .. N + 1 BY DEF ProgAt
      <3> QED BY <2>1, <3>1, Facts, RecType DEF Rec, NextAt
    <2>3. /\ pl' = pl /\ npl' = npl /\ abortable' = abortable
          /\ bg' = [bg EXCEPT ![p] = [at |-> "init", user |-> "none"]]
          /\ toBg' = [toBg EXCEPT ![p] = <<>>] /\ toFg' = [toFg EXCEPT ![p] = <<>>]
      BY <1>5 DEF OpenAuthPam, Forked, Counted
    <2>4. [at |-> "init", user |-> "none"] \in BgType BY DEF BgType
    <2>5. bg' \in [P -> BgType] BY <2>3, <2>4, Facts
    <2>6. /\ toBg' = [q \in P |-> toBg'[q]] /\ toFg' = [q \in P |-> toFg'[q]]
          /\ \A q \in P : q # p => toBg'[q] = toBg[q] /\ toFg'[q] = toFg[q] /\ bg'[q] = bg[q]
          /\ toBg'[p] = <<>> /\ toFg'[p] = <<>> /\ bg'[p].at = "init"
      BY <2>3, Facts DEF IInv, Types
    <2>7. ASSUME NEW q \in P PROVE Len(toBg'[q]) <= 3 /\ Len(toFg'[q]) <= 1
      <3>1. Len(toBg[q]) <= 3 /\ Len(toFg[q]) <= 1 BY DEF IInv, Types
      <3>2. Len(<<>>) = 0 OBVIOUS
      <3> HIDE DEF IInv
      <3> QED BY ONLY <2>6, <3>1, <3>2, q \in P, p \in P
    <2>8. Types' BY <2>2, <2>3, <2>5, <2>6, <2>7, Facts DEF Types, Handles
    <2>9. MainOK(prog', pl', npl', abortable') BY <1>1, <2>2, <2>3 DEF MainOK
    <2>10. ASSUME NEW q \in P PROVE Talk(prog', pl'[q], bg'[q], toBg'[q], toFg'[q], q)
      <3>1. CASE q = p BY <1>5, <2>2, <2>6, <3>1 DEF Talk, Waits, Starting
      <3>2. CASE q # p BY <1>2, <2>2, <2>3, <2>6, <3>2, CalmTalk DEF Waits
      <3> QED BY <3>1, <3>2
    <2> QED BY <1>3, <2>8, <2>9, <2>10 DEF IInv
  <1>6. CASE PluginAbort /\ UNCHANGED <<npl, bg, toFg>>
    <2>1. toFg' = toFg /\ bg' = bg /\ npl' = npl BY <1>6
    <2>2. toFg' = [q \in P |-> toFg'[q]] /\ \A q \in P : Len(toFg'[q]) <= 1 BY <2>1 DEF IInv, Types
    <2> QED BY <1>0, <1>2, <1>3, <1>6, <2>1, <2>2, AbortStep, FatalOpen
  <1> QED BY <1>4, <1>5, <1>6 DEF PluginInitItem

\* auth-pam reads how the initialisation of its background process went.
LEMMA OpenAnswerStep == \A p \in P : IInv /\ OpenAnswer(p) => IInv'
  <1> SUFFICES ASSUME NEW p \in P, IInv, OpenAnswer(p) PROVE IInv' OBVIOUS
  <1> USE LenPlugins
  <1>0. prog.at = "openwait" /\ prog.i = p /\ granted' = granted /\ toFg[p] # <<>> /\ bg' = bg
        /\ toFg' = [toFg EXCEPT ![p] = Tail(@)]
    BY DEF OpenAnswer
  <1>1. /\ npl = p - 1 /\ abortable
        /\ \A q \in P : IF q < p THEN Opened(pl[q]) ELSE pl[q] = NoContext BY <1>0 DEF IInv, MainOK
  <1>2. \A q \in P : q # p => Calm(pl[q], bg[q], toBg[q], toFg[q]) BY <1>0, QuietCalm DEF Waits
  <1>3. GrantedByAll' BY <1>0 DEF IInv, GrantedByAll
  <1>4. Starting(bg[p], toBg[p], toFg[p]) BY <1>0 DEF IInv, Talk, Waits
  <1>5. /\ toFg' = [q \in P |-> toFg'[q]] /\ toFg'[p] = Tail(toFg[p])
        /\ \A q \in P : q # p => toFg'[q] = toFg[q]
    BY <1>0 DEF IInv, Types
  <1>6. toFg[p] = <<"INIT_SUCCEEDED">> \/ toFg[p] = <<"INIT_FAILED">> BY <1>0, <1>4 DEF Starting
  <1>7. Tail(<<"INIT_SUCCEEDED">>) = <<>> /\ Tail(<<"INIT_FAILED">>) = <<>> OBVIOUS
  <1>8. toFg'[p] = <<>> BY <1>5, <1>6, <1>7, Zenon
  <1>9. ASSUME NEW q \in P PROVE Len(toFg'[q]) <= 1
    <2>1. Len(toFg[q]) <= 1 /\ Len(<<>>) = 0 BY DEF IInv, Types
    <2> QED BY ONLY <1>5, <1>8, <2>1, q \in P, p \in P
  <1>10. CASE Head(toFg[p]) = "INIT_SUCCEEDED" /\ Loaded(p, TRUE, p) /\ UNCHANGED <<abortable, toBg>>
    <2>0. toFg[p] = <<"INIT_SUCCEEDED">>
      <3>1. Head(<<"INIT_FAILED">>) = "INIT_FAILED" OBVIOUS
      <3>2. "INIT_FAILED" # "INIT_SUCCEEDED" OBVIOUS
      <3> QED BY <1>6, <1>10, <3>1, <3>2, Zenon
    <2>1. prog' = Rec("open", p + 1, prog.type, prog.count, prog.user, prog.next)
      BY <1>10, Facts, ProgAtItem DEF Loaded
    <2>2. prog' \in ProgType /\ prog'.at = "open" /\ prog'.i = p + 1
      <3>1. "open" \in ProgAt /\ p + 1 \in 1 .. N + 1 BY DEF ProgAt
      <3> QED BY <2>1, <3>1, Facts, RecType DEF Rec, NextAt
    <2>3. pl' = [pl EXCEPT ![p] = [handle |-> "open", fd |-> TRUE]] /\ npl' = p /\ abortable' = abortable
          /\ toBg' = toBg
      BY <1>10 DEF Loaded
    <2>4. [handle |-> "open", fd |-> TRUE] \in Handles BY DEF Handles
    <2>5. pl' \in [P -> Handles] BY <2>3, <2>4, Facts
    <2>6. Types' BY <1>0, <1>5, <1>9, <2>2, <2>3, <2>5, Facts DEF IInv, Types, Handles
    <2>7. \A q \in P : pl'[q] = IF q = p THEN [handle |-> "open", fd |-> TRUE] ELSE pl[q] BY <2>3, Facts
    <2>8. MainOK(prog', pl', npl', abortable')
      <3>1. \A q \in P : IF q < p + 1 THEN Opened(pl'[q]) ELSE pl'[q] = NoContext BY <1>1, <2>7 DEF Opened
      <3> QED BY <1>1, <2>2, <2>3, <3>1 DEF MainOK
    <2>9. ASSUME NEW q \in P PROVE Talk(prog', pl'[q], bg'[q], toBg'[q], toFg'[q], q)
      <3>1. CASE q # p
        <4>1. Calm(pl'[q], bg'[q], toBg'[q], toFg'[q]) BY <1>0, <1>2, <1>5, <2>3, <2>7, <3>1
        <4> QED BY <2>2, <4>1, CalmTalk DEF Waits
      <3>2. CASE q = p
        <4>1. pl'[p].fd BY <2>7
        <4>2. toBg[p] = <<>> /\ bg[p].at \in {"loop", "killed"}
          <5>1. <<"INIT_SUCCEEDED">> # <<>> /\ <<"INIT_SUCCEEDED">> # <<"INIT_FAILED">> OBVIOUS
          <5> QED BY <1>4, <2>0, <5>1 DEF Starting
        <4>3. Quiet(bg[p], toBg[p], <<>>) BY <4>2 DEF Quiet, Ended
        <4>4. Calm(pl'[p], bg'[p], toBg'[p], toFg'[p]) BY <1>0, <1>8, <2>3, <4>1, <4>3 DEF Calm
        <4> QED BY <2>2, <3>2, <4>4, CalmTalk DEF Waits
      <3> QED BY <3>1, <3>2
    <2> QED BY <1>3, <2>6, <2>8, <2>9 DEF IInv
  <1>11. CASE Head(toFg[p]) # "INIT_SUCCEEDED" /\ PluginAbort /\ UNCHANGED npl
    <2>0. toFg[p] = <<"INIT_FAILED">>
      <3>1. Head(<<"INIT_SUCCEEDED">>) = "INIT_SUCCEEDED" OBVIOUS
      <3> QED BY <1>6, <1>11, <3>1, Zenon
    <2>1. toBg[p] = <<>> /\ bg[p].at = "exited"
      <3>1. <<"INIT_FAILED">> # <<>> /\ <<"INIT_SUCCEEDED">> # <<"INIT_FAILED">> OBVIOUS
      <3> QED BY <1>4, <2>0, <3>1 DEF Starting
    <2>2. Calm(pl[p], bg[p], toBg[p], toFg'[p]) BY <1>8, <2>1 DEF Calm, Quiet, Ended
    <2>3. \A q \in P : Calm(pl[q], bg[q], toBg[q], toFg'[q]) BY <1>2, <1>5, <2>2
    <2> QED BY <1>0, <1>3, <1>5, <1>9, <1>11, <2>3, AbortStep, FatalOpen
  <1> QED BY <1>10, <1>11 DEF OpenAnswer

-----------------------------------------------------------------------------
(* Calling a plugin.                                                       *)

\* What holds while the plugins are called.
LEMMA CallState ==
  ASSUME IInv, prog.at \in {"call", "callwait"}
  PROVE  /\ npl = N /\ abortable /\ Vouched(prog) /\ \A q \in P : Opened(pl[q])
         /\ prog.at = "callwait" => prog.i \in P
  BY DEF IInv, MainOK

\* A plugin that authenticates accepted the user.
Accepted(p) == Plugins[p].kind = "pam" => prog.user \in Plugins[p].accepts

\* The plugin returned, with success only if it accepted the user.
LEMMA ReturnedStep ==
  ASSUME IInv, NEW p \in P, prog.i = p, prog.at \in {"call", "callwait"}, NEW b \in BOOLEAN, Returned(b),
         b /\ prog.type = "VERIFY" => Accepted(p)
  PROVE  /\ prog' \in ProgType /\ prog'.at = "call" /\ prog'.i = p + 1 /\ prog'.type = prog.type
         /\ Vouched(prog')
  <1> USE LenPlugins
  <1> DEFINE c == prog.count + (IF b THEN 1 ELSE 0)
  <1>1. Vouched(prog) BY CallState
  <1>2. prog' = Rec("call", p + 1, prog.type, c, prog.user, prog.next)
    BY Facts, ProgReturned DEF Returned
  <1>3. prog.count <= p - 1 /\ prog.count \in 0 .. N BY <1>1, Facts DEF Vouched
  <1>4. c \in 0 .. N /\ c <= p /\ (c = p => b /\ prog.count = p - 1) BY <1>3
  <1>5. "call" \in ProgAt /\ p + 1 \in 1 .. N + 1 BY DEF ProgAt
  <1> HIDE DEF c
  <1>6. prog' \in ProgType BY <1>2, <1>4, <1>5, Facts, RecType DEF NextAt
  <1>7. prog'.at = "call" /\ prog'.i = p + 1 /\ prog'.type = prog.type /\ prog'.count = c /\ prog'.user = prog.user
    BY <1>2 DEF Rec
  <1>8. Vouched(prog')
    <2> SUFFICES ASSUME prog'.type = "VERIFY", c = p, NEW q \in P, q < p + 1, Plugins[q].kind = "pam"
                 PROVE  prog.user \in Plugins[q].accepts
      BY <1>4, <1>7 DEF Vouched
    <2>1. b /\ prog.count = p - 1 /\ prog.type = "VERIFY" BY <1>4, <1>7
    <2>2. CASE q = p BY <2>1, <2>2 DEF Accepted
    <2>3. CASE q < p BY <1>1, <2>1, <2>3 DEF Vouched
    <2> QED BY <2>2, <2>3
  <1> QED BY <1>6, <1>7, <1>8

\* The plugin returned and nobody waits.
LEMMA BackAtCall ==
  ASSUME IInv, NEW p \in P, prog.i = p, prog.at \in {"call", "callwait"}, NEW b \in BOOLEAN, Returned(b),
         b /\ prog.type = "VERIFY" => Accepted(p),
         npl' = npl, abortable' = abortable, bg' = bg, granted' = granted, pl' \in [P -> Handles],
         toBg' = toBg, toFg' = [q \in P |-> toFg'[q]], \A q \in P : Len(toFg'[q]) <= 1,
         \A q \in P : Opened(pl'[q]) /\ Calm(pl'[q], bg'[q], toBg'[q], toFg'[q])
  PROVE  IInv'
  <1>1. /\ prog' \in ProgType /\ prog'.at = "call" /\ prog'.i = p + 1 /\ prog'.type = prog.type
        /\ Vouched(prog') BY ReturnedStep
  <1>2. Types' BY <1>1, Facts DEF IInv, Types, Handles
  <1>3. npl = N /\ abortable BY CallState
  <1>4. MainOK(prog', pl', npl', abortable') BY <1>1, <1>3 DEF MainOK
  <1>5. \A q \in P : Talk(prog', pl'[q], bg'[q], toBg'[q], toFg'[q], q) BY <1>1, CalmTalk DEF Waits
  <1>6. GrantedByAll' BY DEF IInv, GrantedByAll
  <1> QED BY <1>2, <1>4, <1>5, <1>6 DEF IInv

\* The plugin has written a request, or forked, and waits.
LEMMA WaitsForAnswer ==
  ASSUME IInv, NEW p \in P, prog.i = p, prog.at = "call", Go("callwait"),
         npl' = npl, abortable' = abortable, granted' = granted, pl' = pl,
         bg' \in [P -> BgType], toBg' = [q \in P |-> toBg'[q]], toFg' = [q \in P |-> toFg'[q]],
         \A q \in P : q # p => bg'[q] = bg[q] /\ toBg'[q] = toBg[q] /\ toFg'[q] = toFg[q],
         Len(toBg'[p]) <= 3, Len(toFg'[p]) <= 1,
         Answering(prog, pl[p], bg'[p], toBg'[p], toFg'[p], p)
  PROVE  IInv'
  <1> USE LenPlugins
  <1>1. prog' = Rec("callwait", p, prog.type, prog.count, prog.user, prog.next) BY Facts, ProgGo DEF Go
  <1>2. "callwait" \in ProgAt /\ p \in 1 .. N + 1 BY DEF ProgAt
  <1>3. prog' \in ProgType BY <1>1, <1>2, Facts, RecType DEF NextAt
  <1>4. prog'.at = "callwait" /\ prog'.i = p /\ prog'.type = prog.type /\ prog'.count = prog.count /\ prog'.user = prog.user
    BY <1>1 DEF Rec
  <1>5. \A q \in P : Len(toBg'[q]) <= 3 /\ Len(toFg'[q]) <= 1 BY DEF IInv, Types
  <1>6. Types' BY <1>3, <1>5, Facts DEF Types, Handles
  <1>7. npl = N /\ abortable /\ Vouched(prog) /\ \A q \in P : Opened(pl[q]) BY CallState
  <1>8. Vouched(prog') BY <1>4, <1>7 DEF Vouched
  <1>9. MainOK(prog', pl', npl', abortable') BY <1>4, <1>7, <1>8 DEF MainOK
  <1>10. ASSUME NEW q \in P PROVE Talk(prog', pl'[q], bg'[q], toBg'[q], toFg'[q], q)
    <2>1. CASE q = p
      <3>1. Answering(prog', pl'[p], bg'[p], toBg'[p], toFg'[p], p) BY <1>4 DEF Answering
      <3> QED BY <1>4, <2>1, <3>1 DEF Talk, Waits
    <2>2. CASE q # p
      <3>1. Calm(pl[q], bg[q], toBg[q], toFg[q]) BY QuietCalm DEF Waits
      <3>2. Calm(pl'[q], bg'[q], toBg'[q], toFg'[q]) BY <2>2, <3>1
      <3> QED BY <1>4, <2>2, <3>2, CalmTalk DEF Waits
    <2> QED BY <2>1, <2>2
  <1>11. GrantedByAll' BY DEF IInv, GrantedByAll
  <1> QED BY <1>6, <1>9, <1>10, <1>11 DEF IInv

\* plugin_call_item.
LEMMA CallItemStep == \A p \in P : IInv /\ PluginCallItem(p) => IInv'
  <1> SUFFICES ASSUME NEW p \in P, IInv, PluginCallItem(p) PROVE IInv' OBVIOUS
  <1> USE LenPlugins
  <1>0. /\ prog.at = "call" /\ prog.i = p /\ granted' = granted /\ npl' = npl /\ abortable' = abortable /\ pl' = pl
    BY DEF PluginCallItem
  <1>1. \A q \in P : Opened(pl[q]) /\ Calm(pl[q], bg[q], toBg[q], toFg[q]) BY <1>0, QuietCalm, CallState DEF Waits
  <1>2. /\ toBg = [q \in P |-> toBg[q]] /\ toFg = [q \in P |-> toFg[q]]
        /\ \A q \in P : Len(toBg[q]) <= 3 /\ Len(toFg[q]) <= 1
    BY DEF IInv, Types
  <1>3. ASSUME NEW b \in BOOLEAN, Returned(b), b /\ prog.type = "VERIFY" => Accepted(p), UNCHANGED <<bg, toBg, toFg>>
        PROVE  IInv'
    <2>1. bg' = bg /\ toBg' = toBg /\ toFg' = toFg BY <1>3
    <2> QED BY <1>0, <1>1, <1>2, <1>3, <2>1, BackAtCall, Facts
  <1>4. ASSUME NEW x, pl[p].fd, BgAlive(p), toBg' = [toBg EXCEPT ![p] = @ \o x], Go("callwait"), UNCHANGED <<bg, toFg>>,
               <<>> \o x = x, Len(x) <= 3, Answering(prog, pl[p], [bg[p] EXCEPT !.at = "loop"], x, <<>>, p)
        PROVE  IInv'
    <2>1. toBg[p] = <<>> /\ toFg[p] = <<>> /\ bg[p].at = "loop"
      BY <1>1, <1>4 DEF Calm, Quiet, Ended, BgAlive
    <2>2. bg' = bg /\ toFg' = toFg /\ bg \in [P -> BgType] BY <1>4, Facts
    <2>3. toBg' = [q \in P |-> toBg'[q]] /\ toBg'[p] = x /\ \A q \in P : q # p => toBg'[q] = toBg[q]
      BY <1>2, <1>4, <2>1
    <2>4. [bg[p] EXCEPT !.at = "loop"] = bg[p] BY <2>1, <2>2 DEF BgType
    <2>5. Answering(prog, pl[p], bg'[p], toBg'[p], toFg'[p], p) BY <1>4, <2>1, <2>2, <2>3, <2>4
    <2>6. Len(toBg'[p]) <= 3 /\ Len(toFg'[p]) <= 1 BY <1>2, <1>4, <2>2, <2>3
    <2>7. /\ bg' \in [P -> BgType] /\ toFg' = [q \in P |-> toFg'[q]]
          /\ \A q \in P : q # p => bg'[q] = bg[q] /\ toBg'[q] = toBg[q] /\ toFg'[q] = toFg[q]
      BY <1>2, <2>2, <2>3
    <2> QED BY <1>0, <1>4, <2>3, <2>5, <2>6, <2>7, WaitsForAnswer
  <1>5. CASE prog.type \notin Mask(p) /\ Returned(TRUE) /\ UNCHANGED <<bg, toBg, toFg>>
    <2>1. prog.type = "VERIFY" => Accepted(p) BY <1>5 DEF Mask, Accepted
    <2> QED BY <1>3, <1>5, <2>1
  <1>6. CASE prog.type \in Mask(p) /\ Plugins[p].kind = "pam" /\ FuncAuthPam(p)
    <2>0. prog.type = "VERIFY" BY <1>6 DEF Mask
    <2>1. CASE pl[p].fd /\ BgAlive(p)
      <3> DEFINE u == prog.user
                 x == <<"VERIFY", u, u>>
      <3>1. <<>> \o x = x /\ Len(x) <= 3 OBVIOUS
      <3>2. x = <<"VERIFY", prog.user, prog.user>> OBVIOUS
      <3> HIDE DEF x
      <3>3. Answering(prog, pl[p], [bg[p] EXCEPT !.at = "loop"], x, <<>>, p)
        <4>1. [bg[p] EXCEPT !.at = "loop"].at = "loop" BY Facts DEF BgType
        <4> QED BY <1>6, <2>0, <2>1, <3>2, <4>1 DEF Answering, Verifying
      <3>4. toBg' = [toBg EXCEPT ![p] = @ \o x] /\ Go("callwait") /\ UNCHANGED <<bg, toFg>>
        BY <1>6, <2>1, <3>2 DEF FuncAuthPam, Sends
      <3> QED BY <1>4, <2>1, <3>1, <3>3, <3>4
    <2>2. CASE ~(pl[p].fd /\ BgAlive(p))
      <3>1. Returned(FALSE) /\ UNCHANGED <<bg, toBg, toFg>> BY <1>6, <2>2 DEF FuncAuthPam, Sends
      <3> QED BY <1>3, <3>1
    <2> QED BY <2>1, <2>2
  <1>7. CASE prog.type \in Mask(p) /\ Plugins[p].kind = "down" /\ FuncDownRoot(p)
    <2>1. CASE prog.type = "UP" /\ ~pl[p].fd /\ Forked(p) /\ Go("callwait")
      <3>1. /\ bg' = [bg EXCEPT ![p] = [at |-> "init", user |-> "none"]]
            /\ toBg' = [toBg EXCEPT ![p] = <<>>] /\ toFg' = [toFg EXCEPT ![p] = <<>>]
        BY <2>1 DEF Forked
      <3>2. [at |-> "init", user |-> "none"] \in BgType BY DEF BgType
      <3>3. bg' \in [P -> BgType] BY <3>1, <3>2, Facts
      <3>4. /\ toBg' = [q \in P |-> toBg'[q]] /\ toFg' = [q \in P |-> toFg'[q]]
            /\ \A q \in P : q # p => bg'[q] = bg[q] /\ toBg'[q] = toBg[q] /\ toFg'[q] = toFg[q]
            /\ toBg'[p] = <<>> /\ toFg'[p] = <<>> /\ bg'[p].at = "init"
        BY <1>2, <3>1, Facts
      <3>5. Answering(prog, pl[p], bg'[p], toBg'[p], toFg'[p], p) BY <1>7, <2>1, <3>4 DEF Answering, Starting
      <3>6. Len(<<>>) = 0 OBVIOUS
      <3>7. Len(toBg'[p]) <= 3 /\ Len(toFg'[p]) <= 1 BY ONLY <3>4, <3>6
      <3> QED BY <1>0, <2>1, <3>3, <3>4, <3>5, <3>7, WaitsForAnswer
    <2>2. CASE prog.type = "DOWN" /\ pl[p].fd /\ Sends(p, <<"RUN_SCRIPT">>) /\ UNCHANGED <<bg, toFg>>
      <3>1. CASE BgAlive(p)
        <4> DEFINE x == <<"RUN_SCRIPT">>
        <4>1. <<>> \o x = x /\ Len(x) = 1 /\ x = <<"RUN_SCRIPT">> OBVIOUS
        <4> HIDE DEF x
        <4>2. Answering(prog, pl[p], [bg[p] EXCEPT !.at = "loop"], x, <<>>, p)
          <5>1. [bg[p] EXCEPT !.at = "loop"].at = "loop" BY Facts DEF BgType
          <5> QED BY <1>7, <2>2, <4>1, <5>1 DEF Answering, Scripting
        <4>3. toBg' = [toBg EXCEPT ![p] = @ \o x] /\ Go("callwait") BY <2>2, <3>1, <4>1 DEF Sends
        <4>4. Len(x) <= 3 BY <4>1
        <4> QED BY <1>4, <2>2, <3>1, <4>1, <4>2, <4>3, <4>4
      <3>2. CASE ~BgAlive(p)
        <4>1. Returned(FALSE) /\ UNCHANGED <<bg, toBg, toFg>> BY <2>2, <3>2 DEF Sends
        <4> QED BY <1>3, <4>1
      <3> QED BY <3>1, <3>2
    <2>3. CASE Returned(FALSE) /\ UNCHANGED <<bg, toBg, toFg>>
      BY <1>3, <2>3
    <2> QED BY <1>7, <2>1, <2>2, <2>3 DEF FuncDownRoot
  <1> QED BY <1>5, <1>6, <1>7 DEF PluginCallItem

\* What answer m means to the plugin that waited for it.
AnswerMeans(m, h, b, x, p) ==
  /\ b.at \in {"exited", "killed"} \/ (b.at = "loop" /\ x = <<>>)
  /\ h.fd \/ m = "INIT_SUCCEEDED" \/ b.at \in {"exited", "killed"}
  /\ prog.type = "VERIFY" => m \in {"VERIFY_SUCCEEDED", "VERIFY_FAILED"} /\ (m = "VERIFY_SUCCEEDED" => prog.user \in Plugins[p].accepts)

\* The answer of a background process is that of the request made last.
LEMMA CallAnswerStep == \A p \in P : IInv /\ CallAnswer(p) => IInv'
  <1> SUFFICES ASSUME NEW p \in P, IInv, CallAnswer(p) PROVE IInv' OBVIOUS
  <1> USE LenPlugins
  <1> DEFINE b == Head(toFg[p]) \in {"INIT_SUCCEEDED", "VERIFY_SUCCEEDED", "SCRIPT_SUCCEEDED"}
             f == pl[p].fd \/ Head(toFg[p]) = "INIT_SUCCEEDED"
  <1>0. /\ prog.at = "callwait" /\ prog.i = p /\ toFg[p] # <<>> /\ granted' = granted /\ npl' = npl /\ abortable' = abortable
        /\ bg' = bg /\ toBg' = toBg /\ toFg' = [toFg EXCEPT ![p] = Tail(@)] /\ Returned(b)
        /\ pl' = [pl EXCEPT ![p].fd = f]
    BY DEF CallAnswer
  <1>1. Answering(prog, pl[p], bg[p], toBg[p], toFg[p], p) BY <1>0 DEF IInv, Talk, Waits
  <1>2. \A q \in P : Opened(pl[q]) BY <1>0, CallState
  <1>3. \A q \in P : q # p => Calm(pl[q], bg[q], toBg[q], toFg[q]) BY <1>0, QuietCalm DEF Waits
  <1>4. /\ toFg' = [q \in P |-> toFg'[q]] /\ toFg'[p] = Tail(toFg[p]) /\ \A q \in P : q # p => toFg'[q] = toFg[q]
    BY <1>0 DEF IInv, Types
  <1>5. \E m : toFg[p] = <<m>> BY <1>0, <1>1 DEF Answering, Starting, Verifying, Scripting
  <1>6. PICK m : toFg[p] = <<m>> BY <1>5
  <1>7. Head(<<m>>) = m /\ Tail(<<m>>) = <<>> OBVIOUS
  <1>8. Head(toFg[p]) = m /\ toFg'[p] = <<>> BY <1>4, <1>6, <1>7, Zenon
  <1>9. /\ b \in BOOLEAN /\ f \in BOOLEAN
    OBVIOUS
  <1>10. ASSUME NEW q \in P PROVE Len(toFg'[q]) <= 1
    <2>1. Len(toFg[q]) <= 1 /\ Len(<<>>) = 0 BY DEF IInv, Types
    <2> QED BY ONLY <1>4, <1>8, <2>1, q \in P, p \in P
  <1>11. pl' \in [P -> Handles] /\ pl'[p].handle = pl[p].handle /\ (pl'[p].fd <=> f)
         /\ \A q \in P : q # p => pl'[q] = pl[q]
    <2>1. f \in BOOLEAN BY <1>9
    <2> HIDE DEF f
    <2> QED BY <1>0, <2>1, Facts DEF Handles
  <1>12. AnswerMeans(m, pl[p], bg[p], toBg[p], p)
    BY <1>1, <1>6 DEF AnswerMeans, Answering, Starting, Verifying, Scripting
  <1>13. Calm(pl'[p], bg'[p], toBg'[p], toFg'[p])
    BY <1>0, <1>8, <1>11, <1>12 DEF AnswerMeans, Calm, Quiet, Ended
  <1>14. b /\ prog.type = "VERIFY" => Accepted(p)
    BY <1>8, <1>12 DEF AnswerMeans, Accepted
  <1>15. \A q \in P : Opened(pl'[q]) /\ Calm(pl'[q], bg'[q], toBg'[q], toFg'[q])
    BY <1>0, <1>2, <1>3, <1>4, <1>11, <1>13 DEF Opened
  <1> HIDE DEF b, f
  <1>16. prog.at \in {"call", "callwait"} /\ prog.i = p BY <1>0
  <1>17. /\ npl' = npl /\ abortable' = abortable /\ bg' = bg /\ granted' = granted /\ toBg' = toBg /\ Returned(b)
    BY <1>0
  <1> QED BY <1>4, <1>9, <1>10, <1>11, <1>14, <1>15, <1>16, <1>17, BackAtCall, ZenonT(30)

\* plugin_call: a client is granted access only if every plugin succeeded.
LEMMA CallEndsStep == IInv /\ PluginCallEnds => IInv'
  <1> SUFFICES ASSUME IInv, PluginCallEnds PROVE IInv' OBVIOUS
  <1> USE LenPlugins
  <1>0. prog.at = "call" /\ prog.i = npl + 1 /\ npl' = npl /\ bg' = bg /\ toFg' = toFg BY DEF PluginCallEnds
  <1>1. npl = N /\ abortable /\ Vouched(prog) /\ \A q \in P : Opened(pl[q]) BY <1>0, CallState
  <1>2. \A q \in P : Calm(pl[q], bg[q], toBg[q], toFg[q]) BY <1>0, QuietCalm DEF Waits
  <1>3. /\ toBg = [q \in P |-> toBg[q]] /\ toFg = [q \in P |-> toFg[q]]
        /\ \A q \in P : Len(toBg[q]) <= 3 /\ Len(toFg[q]) <= 1
    BY DEF IInv, Types
  <1>4. ASSUME prog' \in ProgType, prog'.at \in {"run", "call", "close"}, prog'.at = "call" => Vouched(prog'),
               prog'.at = "close" => prog'.i = 1,
               pl' = pl, toBg' = toBg, abortable' \in BOOLEAN, abortable' <=> prog'.at # "close", GrantedByAll'
        PROVE  IInv'
    <2>1. Types' BY <1>0, <1>3, <1>4, Facts DEF Types, Handles
    <2>2. MainOK(prog', pl', npl', abortable') BY <1>0, <1>1, <1>4 DEF MainOK
    <2>3. \A q \in P : Talk(prog', pl'[q], bg'[q], toBg'[q], toFg'[q], q) BY <1>0, <1>2, <1>4, CalmTalk DEF Waits
    <2> QED BY <1>4, <2>1, <2>2, <2>3 DEF IInv
  <1>5. ASSUME Go("run") PROVE prog' \in ProgType /\ prog'.at = "run"
    <2>1. prog' = Rec("run", prog.i, prog.type, prog.count, prog.user, prog.next) BY <1>5, Facts, ProgGo DEF Go
    <2>2. "run" \in ProgAt BY DEF ProgAt
    <2> QED BY <2>1, <2>2, Facts, RecType DEF Rec, NextAt
  <1>6. granted' = granted => GrantedByAll' BY DEF IInv, GrantedByAll
  <1>7. CASE /\ prog.type = "VERIFY" /\ Go("run") /\ UNCHANGED <<pl, abortable, toBg>>
             /\ granted' = (IF AllSucceeded THEN granted \cup {prog.user} ELSE granted)
    <2>1. GrantedByAll'
      <3>1. CASE AllSucceeded
        <4>1. \A q \in P : Plugins[q].kind = "pam" => prog.user \in Plugins[q].accepts
          BY <1>0, <1>1, <1>7, <3>1, Facts DEF AllSucceeded, Vouched
        <4> QED BY <1>7, <3>1, <4>1 DEF GrantedByAll, IInv
      <3>2. CASE ~AllSucceeded BY <1>6, <1>7, <3>2
      <3> QED BY <3>1, <3>2
    <2> QED BY <1>1, <1>4, <1>5, <1>7, <2>1, Facts
  <1>8. CASE Go("run") /\ UNCHANGED <<pl, abortable, toBg, granted>>
    BY <1>1, <1>4, <1>5, <1>6, <1>8, Facts
  <1>9. CASE CallStarts("UP", "none", "run") /\ UNCHANGED <<pl, abortable, toBg, granted>>
    <2>1. prog' \in ProgType /\ prog'.at = "call" /\ Vouched(prog')
      BY <1>9 DEF CallStarts, ProgType, ProgAt, Vouched
    <2> QED BY <1>1, <1>4, <1>6, <1>9, <2>1, Facts
  <1>10. CASE abortable' = FALSE /\ prog' = [prog EXCEPT !.at = "close", !.i = 1] /\ UNCHANGED <<pl, toBg, granted>>
    <2>1. prog' = Rec("close", 1, prog.type, prog.count, prog.user, prog.next) BY <1>10, Facts, ProgAtItem
    <2>2. "close" \in ProgAt /\ 1 \in 1 .. N + 1 BY DEF ProgAt
    <2>3. prog' \in ProgType /\ prog'.at = "close" /\ prog'.i = 1 BY <2>1, <2>2, Facts, RecType DEF Rec, NextAt
    <2>4. abortable' \in BOOLEAN /\ ~abortable' BY <1>10, Zenon
    <2> QED BY <1>4, <1>6, <1>10, <2>3, <2>4
  <1>11. CASE PluginAbort /\ UNCHANGED granted
    <2>1. \A q \in P : IF q <= npl THEN Opened(pl[q]) ELSE pl[q] = NoContext BY <1>1
    <2> QED BY <1>0, <1>1, <1>2, <1>3, <1>6, <1>11, <2>1, AbortStep
  <1> QED BY <1>7, <1>8, <1>9, <1>10, <1>11 DEF PluginCallEnds

-----------------------------------------------------------------------------
(* Closing the list.                                                       *)

\* plugin_close_item asks the background process to exit,
LEMMA CloseItemStep == \A p \in P : IInv /\ PluginCloseItem(p) => IInv'
  <1> SUFFICES ASSUME NEW p \in P, IInv, PluginCloseItem(p) PROVE IInv' OBVIOUS
  <1> USE LenPlugins
  <1>0. /\ prog.at = "close" /\ prog.i = p /\ granted' = granted /\ npl' = npl /\ abortable' = abortable /\ pl' = pl
        /\ bg' = bg /\ toFg' = toFg /\ Go("closewait")
        /\ toBg' = [toBg EXCEPT ![p] = IF pl[p].fd /\ BgAlive(p) THEN Append(@, "EXIT") ELSE @]
    BY DEF PluginCloseItem
  <1>1. \A q \in P : Calm(pl[q], bg[q], toBg[q], toFg[q]) BY <1>0, QuietCalm DEF Waits
  <1>2. /\ toBg = [q \in P |-> toBg[q]] /\ toFg = [q \in P |-> toFg[q]]
        /\ \A q \in P : Len(toBg[q]) <= 3 /\ Len(toFg[q]) <= 1
    BY DEF IInv, Types
  <1>3. /\ npl = N /\ ~abortable
        /\ \A q \in P : IF q < p THEN pl[q].handle = "closed" /\ ~pl[q].fd ELSE Opened(pl[q])
    BY <1>0 DEF IInv, MainOK
  <1>4. prog' = Rec("closewait", p, prog.type, prog.count, prog.user, prog.next) BY <1>0, Facts, ProgGo DEF Go
  <1>5. prog' \in ProgType /\ prog'.at = "closewait" /\ prog'.i = p
    <2>1. "closewait" \in ProgAt /\ p \in 1 .. N + 1 BY DEF ProgAt
    <2> QED BY <1>4, <2>1, Facts, RecType DEF Rec, NextAt
  <1>6. /\ toBg' = [q \in P |-> toBg'[q]] /\ \A q \in P : q # p => toBg'[q] = toBg[q]
        /\ toBg'[p] = IF pl[p].fd /\ BgAlive(p) THEN Append(toBg[p], "EXIT") ELSE toBg[p]
    BY <1>0, <1>2
  <1>7. Len(toBg'[p]) <= 3 /\ (pl[p].fd \/ Ended(bg[p])) /\ Leaving(bg[p], toBg'[p], toFg[p])
    <2>1. CASE Ended(bg[p])
      <3>1. toBg'[p] = toBg[p] BY <1>6, <2>1 DEF BgAlive, Ended
      <3> QED BY <1>1, <1>2, <2>1, <3>1 DEF Calm, Quiet, Leaving
    <2>2. CASE ~Ended(bg[p])
      <3>1. pl[p].fd /\ toBg[p] = <<>> /\ bg[p].at = "loop" /\ toFg[p] = <<>> BY <1>1, <2>2 DEF Calm, Quiet
      <3>2. toBg'[p] = Append(toBg[p], "EXIT") BY <1>6, <2>2, <3>1 DEF BgAlive, Ended
      <3>3. Append(<<>>, "EXIT") = <<"EXIT">> OBVIOUS
      <3>4. toBg'[p] = <<"EXIT">> BY <3>1, <3>2, <3>3, Zenon
      <3>5. Len(toBg'[p]) = 1 BY <3>4
      <3> QED BY <3>1, <3>4, <3>5 DEF Leaving
    <2> QED BY <2>1, <2>2
  <1>8. Types' BY <1>0, <1>2, <1>5, <1>6, <1>7, Facts DEF Types, Handles
  <1>9. MainOK(prog', pl', npl', abortable') BY <1>0, <1>3, <1>5 DEF MainOK
  <1>10. ASSUME NEW q \in P PROVE Talk(prog', pl'[q], bg'[q], toBg'[q], toFg'[q], q)
    <2>1. CASE q = p BY <1>0, <1>5, <1>7, <2>1 DEF Talk, Waits
    <2>2. CASE q # p
      <3>1. Calm(pl'[q], bg'[q], toBg'[q], toFg'[q]) BY <1>0, <1>1, <1>6, <2>2
      <3> QED BY <1>5, <2>2, <3>1, CalmTalk DEF Waits
    <2> QED BY <2>1, <2>2
  <1>11. GrantedByAll' BY <1>0 DEF IInv, GrantedByAll
  <1> QED BY <1>8, <1>9, <1>10, <1>11 DEF IInv

\* and waits until it has.
LEMMA CloseWaitedStep == \A p \in P : IInv /\ CloseWaited(p) => IInv'
  <1> SUFFICES ASSUME NEW p \in P, IInv, CloseWaited(p) PROVE IInv' OBVIOUS
  <1> USE LenPlugins
  <1>0. /\ prog.at = "closewait" /\ prog.i = p /\ granted' = granted /\ npl' = npl /\ abortable' = abortable
        /\ bg' = bg /\ toFg' = toFg /\ toBg' = toBg /\ (pl[p].fd => ~BgAlive(p))
        /\ pl' = [pl EXCEPT ![p] = [handle |-> IF @.handle = "open" THEN "closed" ELSE "misused", fd |-> FALSE]]
        /\ prog' = [prog EXCEPT !.at = "close", !.i = @ + 1]
    BY DEF CloseWaited
  <1>1. /\ npl = N /\ ~abortable
        /\ \A q \in P : IF q < p THEN pl[q].handle = "closed" /\ ~pl[q].fd ELSE Opened(pl[q])
    BY <1>0 DEF IInv, MainOK
  <1>2. pl' = [pl EXCEPT ![p] = [handle |-> "closed", fd |-> FALSE]]
    <2>1. Opened(pl[p]) BY <1>1
    <2> QED BY <1>0, <2>1 DEF Opened
  <1>3. [handle |-> "closed", fd |-> FALSE] \in Handles BY DEF Handles
  <1>4. pl' \in [P -> Handles] BY <1>2, <1>3, Facts
  <1>5. \A q \in P : pl'[q] = IF q = p THEN [handle |-> "closed", fd |-> FALSE] ELSE pl[q] BY <1>2, Facts
  <1>6. prog' = Rec("close", p + 1, prog.type, prog.count, prog.user, prog.next) BY <1>0, Facts, ProgAtItem
  <1>7. prog' \in ProgType /\ prog'.at = "close" /\ prog'.i = p + 1
    <2>1. "close" \in ProgAt /\ p + 1 \in 1 .. N + 1 BY DEF ProgAt
    <2> QED BY <1>6, <2>1, Facts, RecType DEF Rec, NextAt
  <1>8. Types' BY <1>0, <1>4, <1>7, Facts DEF IInv, Types, Handles
  <1>9. MainOK(prog', pl', npl', abortable')
    <2>1. \A q \in P : IF q < p + 1 THEN pl'[q].handle = "closed" /\ ~pl'[q].fd ELSE Opened(pl'[q])
      BY <1>1, <1>5
    <2> QED BY <1>0, <1>1, <1>7, <2>1 DEF MainOK
  <1>10. ASSUME NEW q \in P PROVE Talk(prog', pl'[q], bg'[q], toBg'[q], toFg'[q], q)
    <2>1. CASE q = p
      <3>1. (pl[p].fd \/ Ended(bg[p])) /\ Leaving(bg[p], toBg[p], toFg[p]) BY <1>0 DEF IInv, Talk, Waits
      <3>2. Ended(bg[p]) BY <1>0, <3>1 DEF Ended, BgAlive
      <3>3. Calm(pl'[p], bg'[p], toBg'[p], toFg'[p]) BY <1>0, <3>1, <3>2 DEF Calm, Quiet, Leaving
      <3> QED BY <1>7, <2>1, <3>3, CalmTalk DEF Waits
    <2>2. CASE q # p
      <3>1. Calm(pl[q], bg[q], toBg[q], toFg[q]) BY <1>0, <2>2, QuietCalm DEF Waits
      <3>2. Calm(pl'[q], bg'[q], toBg'[q], toFg'[q]) BY <1>0, <1>5, <2>2, <3>1
      <3> QED BY <1>7, <2>2, <3>2, CalmTalk DEF Waits
    <2> QED BY <2>1, <2>2
  <1>11. GrantedByAll' BY <1>0 DEF IInv, GrantedByAll
  <1> QED BY <1>8, <1>9, <1>10, <1>11 DEF IInv

-----------------------------------------------------------------------------
(* The background processes.                                               *)

\* What a background process leaves alone.
Untouched == UNCHANGED <<pl, npl, abortable, prog, granted, calls>>

\* A step of the background process of p, to state b, with x and y in the socket pair.
LEMMA ServerStep ==
  ASSUME IInv, NEW p \in P, Untouched, NEW b \in BgType, NEW x, NEW y,
         bg' = [bg EXCEPT ![p] = b], toBg' = [toBg EXCEPT ![p] = x], toFg' = [toFg EXCEPT ![p] = y],
         Len(x) <= 3, Len(y) <= 1, Talk(prog, pl[p], b, x, y, p)
  PROVE  IInv'
  <1>1. pl' = pl /\ npl' = npl /\ abortable' = abortable /\ prog' = prog /\ granted' = granted BY DEF Untouched
  <1>2. /\ toBg = [q \in P |-> toBg[q]] /\ toFg = [q \in P |-> toFg[q]]
        /\ \A q \in P : Len(toBg[q]) <= 3 /\ Len(toFg[q]) <= 1
    BY DEF IInv, Types
  <1>3. /\ bg' \in [P -> BgType] /\ toBg' = [q \in P |-> toBg'[q]] /\ toFg' = [q \in P |-> toFg'[q]]
        /\ bg'[p] = b /\ toBg'[p] = x /\ toFg'[p] = y
        /\ \A q \in P : q # p => bg'[q] = bg[q] /\ toBg'[q] = toBg[q] /\ toFg'[q] = toFg[q]
    BY <1>2, Facts
  <1>4. \A q \in P : Len(toBg'[q]) <= 3 /\ Len(toFg'[q]) <= 1 BY <1>2, <1>3
  <1>5. Types' BY <1>1, <1>3, <1>4, Facts DEF Types, Handles
  <1>6. MainOK(prog', pl', npl', abortable') BY <1>1 DEF IInv
  <1>7. \A q \in P : Talk(prog, pl[q], bg[q], toBg[q], toFg[q], q) BY DEF IInv
  <1>8. \A q \in P : Talk(prog', pl'[q], bg'[q], toBg'[q], toFg'[q], q) BY <1>1, <1>3, <1>7
  <1>9. GrantedByAll' BY <1>1 DEF IInv, GrantedByAll
  <1> QED BY <1>5, <1>6, <1>8, <1>9 DEF IInv

\* The talk of p, from the invariant.
LEMMA TalkOf ==
  ASSUME IInv, NEW p \in P
  PROVE  /\ Talk(prog, pl[p], bg[p], toBg[p], toFg[p], p) /\ bg[p] \in BgType
         /\ Len(toBg[p]) <= 3 /\ Len(toFg[p]) <= 1
         /\ toBg = [toBg EXCEPT ![p] = toBg[p]] /\ toFg = [toFg EXCEPT ![p] = toFg[p]]
  <1>1. toBg = [q \in P |-> toBg[q]] /\ toFg = [q \in P |-> toFg[q]] BY DEF IInv, Types
  <1>2. toBg = [toBg EXCEPT ![p] = toBg[p]] BY <1>1
  <1>3. toFg = [toFg EXCEPT ![p] = toFg[p]] BY <1>1
  <1> QED BY <1>2, <1>3, Facts DEF IInv, Types

\* A background process other than one that waits for a command is in the middle of a talk.
LEMMA TalkInit ==
  ASSUME NEW pr, NEW h, NEW b, NEW x, NEW y, NEW p, Talk(pr, h, b, x, y, p), b.at = "init", NEW b2,
         NEW y2, \/ b2.at = "loop" /\ y2 = <<"INIT_SUCCEEDED">>
                 \/ b2.at = "exited" /\ y2 = <<"INIT_FAILED">>
  PROVE  y = <<>> /\ Talk(pr, h, b2, x, y2, p)
  <1>1. \/ Waits(pr, "openwait", p) /\ Plugins[p].kind = "pam" /\ Starting(b, x, y)
        \/ Waits(pr, "callwait", p) /\ pr.type = "UP" /\ Plugins[p].kind = "down" /\ ~h.fd /\ Starting(b, x, y)
    BY DEF Talk, Leaving, Quiet, Ended, Answering, Verifying, Scripting
  <1>2. x = <<>> /\ y = <<>> BY <1>1 DEF Starting
  <1>3. Starting(b2, x, y2) BY <1>2 DEF Starting
  <1> QED BY <1>1, <1>2, <1>3 DEF Talk, Answering

\* The same for one that verifies a user,
LEMMA TalkPam ==
  ASSUME NEW pr, NEW h, NEW b, NEW x, NEW y, NEW p, Talk(pr, h, b, x, y, p),
         b.at \in {"username", "password", "auth"} \/ (b.at = "loop" /\ x # <<>> /\ Plugins[p].kind = "pam" /\ x # <<"EXIT">>)
  PROVE  Waits(pr, "callwait", p) /\ pr.type = "VERIFY" /\ Plugins[p].kind = "pam" /\ h.fd
         /\ Verifying(p, pr.user, b, x, y)
  BY DEF Talk, Leaving, Quiet, Ended, Answering, Starting, Scripting

\* and for one that runs a script.
LEMMA TalkDown ==
  ASSUME NEW pr, NEW h, NEW b, NEW x, NEW y, NEW p, Talk(pr, h, b, x, y, p),
         b.at = "script" \/ (b.at = "loop" /\ x # <<>> /\ Plugins[p].kind = "down" /\ x # <<"EXIT">>)
  PROVE  Waits(pr, "callwait", p) /\ pr.type = "DOWN" /\ Plugins[p].kind = "down" /\ h.fd
         /\ Scripting(b, x, y)
  BY DEF Talk, Leaving, Quiet, Ended, Answering, Starting, Verifying

\* The main process waits for the verdict,
LEMMA TalkVerify ==
  ASSUME NEW pr, NEW h, NEW b, NEW x, NEW y, NEW p,
         Waits(pr, "callwait", p), pr.type = "VERIFY", Plugins[p].kind = "pam", h.fd, Verifying(p, pr.user, b, x, y)
  PROVE  Talk(pr, h, b, x, y, p)
  BY DEF Talk, Answering

\* or for the script.
LEMMA TalkScript ==
  ASSUME NEW pr, NEW h, NEW b, NEW x, NEW y, NEW p,
         Waits(pr, "callwait", p), pr.type = "DOWN", Plugins[p].kind = "down", h.fd, Scripting(b, x, y)
  PROVE  Talk(pr, h, b, x, y, p)
  BY DEF Talk, Answering

\* A background process that reads the command to exit exits.
LEMMA TalkLeave ==
  ASSUME NEW pr, NEW h, NEW b, NEW x, NEW y, NEW p, Talk(pr, h, b, x, y, p), b.at = "loop", x = <<"EXIT">>,
         NEW b2, b2.at = "exited", NEW x2
  PROVE  Talk(pr, h, b2, x2, y, p)
  <1>1. <<"EXIT">> # <<>> /\ <<"EXIT">> # <<"RUN_SCRIPT">> OBVIOUS
  <1>2. ASSUME NEW u PROVE <<"EXIT">> # <<"VERIFY", u, u>> OBVIOUS
  <1> QED BY <1>1, <1>2 DEF Talk, Leaving, Quiet, Ended, Answering, Starting, Scripting, Verifying

\* One that is killed leaves what it did not read, and an answer it gave stays.
LEMMA TalkKilled ==
  ASSUME NEW pr, NEW h, NEW b, NEW x, NEW y, NEW p, Talk(pr, h, b, x, y, p), ~Ended(b), NEW b2, b2.at = "killed"
  PROVE  Talk(pr, h, b2, x, y, p)
  BY DEF Talk, Leaving, Quiet, Ended, Answering, Starting, Scripting, Verifying

\* States of a background process.
BgAt == {"none", "init", "loop", "username", "password", "auth", "script", "exited", "killed"}

\* A background process moves on.
LEMMA BgMoves ==
  ASSUME IInv, NEW p \in P, NEW at \in BgAt
  PROVE  LET b == [bg[p] EXCEPT !.at = at]
         IN  b \in BgType /\ b.at = at /\ b.user = bg[p].user /\ [bg EXCEPT ![p].at = at] = [bg EXCEPT ![p] = b]
  BY Facts DEF BgType, BgAt

\* It answers.
LEMMA Answered ==
  ASSUME IInv, NEW p \in P, Untouched, NEW m, NEW at \in BgAt, Answers(p, m, at), UNCHANGED toBg, toFg[p] = <<>>,
         \A b \in BgType : b.at = at => Talk(prog, pl[p], b, toBg[p], <<m>>, p)
  PROVE  IInv'
  <1> DEFINE b == [bg[p] EXCEPT !.at = at]
             y == <<m>>
  <1>1. b \in BgType /\ b.at = at /\ [bg EXCEPT ![p].at = at] = [bg EXCEPT ![p] = b] BY BgMoves
  <1>2. Append(<<>>, m) = y /\ Len(y) = 1 OBVIOUS
  <1> HIDE DEF b, y
  <1>3. toFg' = [toFg EXCEPT ![p] = y] BY <1>2 DEF Answers
  <1>4. bg' = [bg EXCEPT ![p] = b] BY <1>1 DEF Answers
  <1>5. Talk(prog, pl[p], b, toBg[p], y, p) BY <1>1 DEF y
  <1>6. toBg' = [toBg EXCEPT ![p] = toBg[p]] /\ Len(toBg[p]) <= 3 BY TalkOf
  <1>7. Len(y) <= 1 BY <1>2
  <1> QED BY <1>1, <1>3, <1>4, <1>5, <1>6, <1>7, ServerStep

\* pam_server and down_root_server, initialisation;
LEMMA ServerInitStep == \A p \in P : IInv /\ ServerInit(p) /\ Untouched => IInv'
  <1> SUFFICES ASSUME NEW p \in P, IInv, ServerInit(p), Untouched PROVE IInv' OBVIOUS
  <1>0. bg[p].at = "init" /\ UNCHANGED toBg /\ Talk(prog, pl[p], bg[p], toBg[p], toFg[p], p) BY TalkOf DEF ServerInit
  <1>1. \A b \in BgType : b.at = "loop" => toFg[p] = <<>> /\ Talk(prog, pl[p], b, toBg[p], <<"INIT_SUCCEEDED">>, p)
    BY <1>0, TalkInit
  <1>2. \A b \in BgType : b.at = "exited" => toFg[p] = <<>> /\ Talk(prog, pl[p], b, toBg[p], <<"INIT_FAILED">>, p)
    BY <1>0, TalkInit
  <1>3. "loop" \in BgAt /\ "exited" \in BgAt BY DEF BgAt
  <1>4. \E b \in BgType : b.at = "loop" BY <1>3, BgMoves
  <1>5. toFg[p] = <<>> BY <1>1, <1>4
  <1>6. CASE Answers(p, "INIT_SUCCEEDED", "loop") BY <1>0, <1>1, <1>3, <1>5, <1>6, Answered
  <1>7. CASE Answers(p, "INIT_FAILED", "exited") BY <1>0, <1>2, <1>3, <1>5, <1>7, Answered
  <1> QED BY <1>6, <1>7 DEF ServerInit

\* pam_auth;
LEMMA PamAuthStep == \A p \in P : IInv /\ PamAuth(p) /\ Untouched => IInv'
  <1> SUFFICES ASSUME NEW p \in P, IInv, PamAuth(p), Untouched PROVE IInv' OBVIOUS
  <1>0. bg[p].at = "auth" /\ UNCHANGED toBg /\ Talk(prog, pl[p], bg[p], toBg[p], toFg[p], p) BY TalkOf DEF PamAuth
  <1>1. /\ Waits(prog, "callwait", p) /\ prog.type = "VERIFY" /\ Plugins[p].kind = "pam" /\ pl[p].fd
        /\ Verifying(p, prog.user, bg[p], toBg[p], toFg[p])
    BY <1>0, TalkPam
  <1>2. toBg[p] = <<>> /\ toFg[p] = <<>> /\ bg[p].user = prog.user BY <1>0, <1>1 DEF Verifying
  <1> DEFINE m == IF bg[p].user \in Plugins[p].accepts THEN "VERIFY_SUCCEEDED" ELSE "VERIFY_FAILED"
  <1>3. ASSUME NEW b \in BgType, b.at = "loop" PROVE Talk(prog, pl[p], b, toBg[p], <<m>>, p)
    <2>1. Verifying(p, prog.user, b, toBg[p], <<m>>) BY <1>2, <1>3 DEF Verifying
    <2> QED BY <1>1, <2>1, TalkVerify
  <1>4. "loop" \in BgAt BY DEF BgAt
  <1>5. Answers(p, m, "loop") BY DEF PamAuth
  <1> HIDE DEF m
  <1> QED BY <1>0, <1>2, <1>3, <1>4, <1>5, Answered

\* the script of down-root;
LEMMA DownScriptStep == \A p \in P : IInv /\ DownScript(p) /\ Untouched => IInv'
  <1> SUFFICES ASSUME NEW p \in P, IInv, DownScript(p), Untouched PROVE IInv' OBVIOUS
  <1>0. bg[p].at = "script" /\ UNCHANGED toBg /\ Talk(prog, pl[p], bg[p], toBg[p], toFg[p], p) BY TalkOf DEF DownScript
  <1>1. /\ Waits(prog, "callwait", p) /\ prog.type = "DOWN" /\ Plugins[p].kind = "down" /\ pl[p].fd
        /\ Scripting(bg[p], toBg[p], toFg[p])
    BY <1>0, TalkDown
  <1>2. toBg[p] = <<>> /\ toFg[p] = <<>> BY <1>0, <1>1 DEF Scripting
  <1>3. PICK m \in {"SCRIPT_SUCCEEDED", "SCRIPT_FAILED"} : Answers(p, m, "loop") BY DEF DownScript
  <1>4. ASSUME NEW b \in BgType, b.at = "loop" PROVE Talk(prog, pl[p], b, toBg[p], <<m>>, p)
    <2>1. Scripting(b, toBg[p], <<m>>) BY <1>2, <1>3, <1>4 DEF Scripting
    <2> QED BY <1>1, <2>1, TalkScript
  <1>5. "loop" \in BgAt BY DEF BgAt
  <1> QED BY <1>0, <1>2, <1>3, <1>4, <1>5, Answered

\* a datagram is read;
LEMMA Taken ==
  ASSUME IInv, NEW p \in P, Untouched, NEW b \in BgType, bg' = [bg EXCEPT ![p] = b], NEW x,
         Tail(toBg[p]) = x, Takes(p), UNCHANGED toFg, Len(x) <= 3, Talk(prog, pl[p], b, x, toFg[p], p)
  PROVE  IInv'
  <1>1. toBg' = [toBg EXCEPT ![p] = x] BY DEF Takes
  <1>2. toFg' = [toFg EXCEPT ![p] = toFg[p]] /\ Len(toFg[p]) <= 1 BY TalkOf
  <1> QED BY <1>1, <1>2, ServerStep

\* the command: the three datagrams of VERIFY, RUN_SCRIPT, or EXIT;
LEMMA CommandStep == \A p \in P : IInv /\ (PamCommand(p) \/ DownCommand(p)) /\ Untouched => IInv'
  <1> SUFFICES ASSUME NEW p \in P, IInv, PamCommand(p) \/ DownCommand(p), Untouched PROVE IInv' OBVIOUS
  <1>0. /\ bg[p].at = "loop" /\ Takes(p) /\ UNCHANGED toFg /\ toBg[p] # <<>>
        /\ Talk(prog, pl[p], bg[p], toBg[p], toFg[p], p) BY TalkOf DEF PamCommand, DownCommand, Takes
  <1>1. CASE toBg[p] = <<"EXIT">>
    <2> DEFINE b == [bg[p] EXCEPT !.at = "exited"]
               x == Tail(<<"EXIT">>)
    <2>1. Head(<<"EXIT">>) = "EXIT" /\ Len(x) <= 3 OBVIOUS
    <2>2. "exited" \in BgAt BY DEF BgAt
    <2>3. b \in BgType /\ b.at = "exited" /\ [bg EXCEPT ![p].at = "exited"] = [bg EXCEPT ![p] = b] BY <2>2, BgMoves
    <2>4. bg' = [bg EXCEPT ![p].at = "exited"] BY <1>1, <2>1 DEF PamCommand, DownCommand
    <2>5. Tail(toBg[p]) = x BY <1>1
    <2> HIDE DEF b, x
    <2>6. Talk(prog, pl[p], b, x, toFg[p], p) BY <1>0, <1>1, <2>3, TalkLeave
    <2> QED BY <1>0, <2>1, <2>3, <2>4, <2>5, <2>6, Taken
  <1>2. CASE toBg[p] # <<"EXIT">> /\ PamCommand(p)
    <2>1. /\ Waits(prog, "callwait", p) /\ prog.type = "VERIFY" /\ Plugins[p].kind = "pam" /\ pl[p].fd
          /\ Verifying(p, prog.user, bg[p], toBg[p], toFg[p])
      BY <1>0, <1>2, TalkPam DEF PamCommand
    <2> DEFINE u == prog.user
               v == <<"VERIFY", u, u>>
               x == <<u, u>>
               b == [bg[p] EXCEPT !.at = "username"]
    <2>2. toBg[p] = v /\ toFg[p] = <<>> BY <1>0, <2>1 DEF Verifying
    <2>3. Tail(v) = x /\ Len(x) <= 3 /\ Head(v) = "VERIFY" OBVIOUS
    <2>4. "username" \in BgAt BY DEF BgAt
    <2>5. b \in BgType /\ b.at = "username" /\ [bg EXCEPT ![p].at = "username"] = [bg EXCEPT ![p] = b] BY <2>4, BgMoves
    <2>6. x = <<prog.user, prog.user>> OBVIOUS
    <2> HIDE DEF v, x, b
    <2>7. bg' = [bg EXCEPT ![p].at = "username"] BY <1>2, <2>2, <2>3 DEF PamCommand
    <2>8. Verifying(p, prog.user, b, x, toFg[p]) BY <2>2, <2>5, <2>6 DEF Verifying
    <2>9. Talk(prog, pl[p], b, x, toFg[p], p) BY <2>1, <2>8, TalkVerify
    <2> QED BY <1>0, <2>2, <2>3, <2>5, <2>7, <2>9, Taken
  <1>3. CASE toBg[p] # <<"EXIT">> /\ DownCommand(p)
    <2>1. /\ Waits(prog, "callwait", p) /\ prog.type = "DOWN" /\ Plugins[p].kind = "down" /\ pl[p].fd
          /\ Scripting(bg[p], toBg[p], toFg[p])
      BY <1>0, <1>3, TalkDown DEF DownCommand
    <2> DEFINE v == <<"RUN_SCRIPT">>
               x == Tail(v)
               b == [bg[p] EXCEPT !.at = "script"]
    <2>2. toBg[p] = v /\ toFg[p] = <<>> BY <1>0, <2>1 DEF Scripting
    <2>3. Tail(v) = x /\ x = <<>> /\ Len(x) <= 3 /\ Head(v) = "RUN_SCRIPT" OBVIOUS
    <2>4. "script" \in BgAt BY DEF BgAt
    <2>5. b \in BgType /\ b.at = "script" /\ [bg EXCEPT ![p].at = "script"] = [bg EXCEPT ![p] = b] BY <2>4, BgMoves
    <2> HIDE DEF v, x, b
    <2>7. bg' = [bg EXCEPT ![p].at = "script"] BY <1>3, <2>2, <2>3 DEF DownCommand
    <2>8. Scripting(b, x, toFg[p]) BY <2>2, <2>3, <2>5 DEF Scripting
    <2>9. Talk(prog, pl[p], b, x, toFg[p], p) BY <2>1, <2>8, TalkScript
    <2> QED BY <1>0, <2>2, <2>3, <2>5, <2>7, <2>9, Taken
  <1> QED BY <1>1, <1>2, <1>3

\* username and password;
LEMMA PamStringStep == \A p \in P : IInv /\ PamString(p) /\ Untouched => IInv'
  <1> SUFFICES ASSUME NEW p \in P, IInv, PamString(p), Untouched PROVE IInv' OBVIOUS
  <1>0. /\ bg[p].at \in {"username", "password"} /\ Takes(p) /\ UNCHANGED toFg
        /\ Talk(prog, pl[p], bg[p], toBg[p], toFg[p], p) BY TalkOf DEF PamString
  <1>1. /\ Waits(prog, "callwait", p) /\ prog.type = "VERIFY" /\ Plugins[p].kind = "pam" /\ pl[p].fd
        /\ Verifying(p, prog.user, bg[p], toBg[p], toFg[p])
    BY <1>0, TalkPam
  <1> DEFINE u == prog.user
  <1>2. CASE bg[p].at = "username"
    <2> DEFINE v == <<u, u>>
               x == <<u>>
               b == [at |-> "password", user |-> u]
    <2>1. toBg[p] = v /\ toFg[p] = <<>> BY <1>1, <1>2 DEF Verifying
    <2>2. Tail(v) = x /\ Len(x) <= 3 /\ Head(v) = u OBVIOUS
    <2>3. b \in BgType BY Facts DEF BgType, ProgType
    <2>4. b.at = "password" /\ b.user = u /\ x = <<prog.user>> OBVIOUS
    <2>5. bg' = [bg EXCEPT ![p] = [at |-> "password", user |-> Head(toBg[p])]] BY <1>2 DEF PamString
    <2>6. bg' = [bg EXCEPT ![p] = b] BY <2>1, <2>2, <2>5
    <2> HIDE DEF v, x, b
    <2>7. Verifying(p, prog.user, b, x, toFg[p]) BY <2>1, <2>4 DEF Verifying
    <2>8. Talk(prog, pl[p], b, x, toFg[p], p) BY <1>1, <2>7, TalkVerify
    <2> QED BY <1>0, <2>1, <2>2, <2>3, <2>6, <2>8, Taken
  <1>3. CASE bg[p].at = "password"
    <2> DEFINE v == <<u>>
               x == Tail(v)
               b == [bg[p] EXCEPT !.at = "auth"]
    <2>1. toBg[p] = v /\ toFg[p] = <<>> /\ bg[p].user = prog.user BY <1>1, <1>3 DEF Verifying
    <2>2. Tail(v) = x /\ x = <<>> /\ Len(x) <= 3 OBVIOUS
    <2>3. "auth" \in BgAt BY DEF BgAt
    <2>4. b \in BgType /\ b.at = "auth" /\ b.user = bg[p].user BY <2>3, BgMoves
    <2>5. bg' = [bg EXCEPT ![p] = b] BY <1>3 DEF PamString
    <2> HIDE DEF v, x, b
    <2>6. Verifying(p, prog.user, b, x, toFg[p]) BY <2>1, <2>2, <2>4 DEF Verifying
    <2>7. Talk(prog, pl[p], b, x, toFg[p], p) BY <1>1, <2>6, TalkVerify
    <2> QED BY <1>0, <2>1, <2>2, <2>4, <2>5, <2>7, Taken
  <1> QED BY <1>0, <1>2, <1>3

\* the background process is killed.
LEMMA KilledStep == \A p \in P : IInv /\ Killed(p) /\ Untouched => IInv'
  <1> SUFFICES ASSUME NEW p \in P, IInv, Killed(p), Untouched PROVE IInv' OBVIOUS
  <1> DEFINE b == [bg[p] EXCEPT !.at = "killed"]
  <1>1. "killed" \in BgAt BY DEF BgAt
  <1>2. b \in BgType /\ b.at = "killed" /\ [bg EXCEPT ![p].at = "killed"] = [bg EXCEPT ![p] = b] BY <1>1, BgMoves
  <1> HIDE DEF b
  <1>3. bg' = [bg EXCEPT ![p] = b] /\ toBg' = toBg /\ toFg' = toFg /\ ~Ended(bg[p]) BY <1>2 DEF Killed, BgAlive, Ended
  <1>4. Talk(prog, pl[p], b, toBg[p], toFg[p], p) BY <1>2, <1>3, TalkOf, TalkKilled
  <1> QED BY <1>2, <1>3, <1>4, TalkOf, ServerStep

-----------------------------------------------------------------------------
\* Every step preserves the inductive invariant,
LEMMA NextInv == IInv /\ [PluginNext]_pluginVars => IInv'
  <1> SUFFICES ASSUME IInv, [PluginNext]_pluginVars PROVE IInv' OBVIOUS
  <1>1. CASE UNCHANGED pluginVars
    BY <1>1 DEF pluginVars, IInv, Types, GrantedByAll
  <1>2. CASE PluginListOpen \/ ListOpened \/ PluginCallEnds \/ ListClosed
    BY <1>2, ListOpenStep, ListOpenedStep, CallEndsStep, ListClosedStep
  <1>3. ASSUME NEW p \in P, \/ PluginInitItem(p) \/ OpenAnswer(p) \/ PluginCallItem(p) \/ CallAnswer(p)
                            \/ PluginCloseItem(p) \/ CloseWaited(p)
        PROVE  IInv'
    BY <1>3, InitItemStep, OpenAnswerStep, CallItemStep, CallAnswerStep, CloseItemStep, CloseWaitedStep
  <1>4. ASSUME NEW p \in P, Untouched, \/ ServerInit(p) \/ PamCommand(p) \/ PamString(p) \/ PamAuth(p)
                                       \/ DownCommand(p) \/ DownScript(p) \/ Killed(p)
        PROVE  IInv'
    BY <1>4, ServerInitStep, CommandStep, PamStringStep, PamAuthStep, DownScriptStep, KilledStep
  <1>5. CASE \E u \in Clients : Authenticate(u) BY <1>5, AuthenticateStep
  <1>6. CASE \E sig \in {"SIGUSR1", "SIGHUP", "SIGTERM"} : Signalled(sig) BY <1>6, SignalledStep
  <1> QED BY <1>1, <1>2, <1>3, <1>4, <1>5, <1>6 DEF PluginNext, Untouched

\* which implies the invariant of the component.
LEMMA InvImplies == IInv => PluginInv
  <1> SUFFICES ASSUME IInv PROVE PluginInv OBVIOUS
  <1> USE LenPlugins
  <1>1. PluginTypeOK
    <2>1. pl \in [P -> [handle : {"none", "open", "closed", "aborted", "misused"}, fd : BOOLEAN]]
      BY Facts DEF Handles
    <2>2. \A p \in P : Len(toBg[p]) <= 4 /\ Len(toFg[p]) <= 1
      <3> TAKE p \in P
      <3>1. Len(toBg[p]) <= 3 /\ Len(toFg[p]) <= 1 BY TalkOf
      <3> QED BY <3>1
    <2> QED BY <2>1, <2>2, Facts DEF PluginTypeOK, N
  <1>2. HandlesEndOnce
    <2>1. \A p \in P : pl[p].handle # "misused" BY Facts DEF Handles
    <2>2. prog.at = "exit" => \A p \in P : pl[p].handle # "open" /\ ~pl[p].fd BY DEF IInv, MainOK
    <2> QED BY <2>1, <2>2 DEF HandlesEndOnce
  <1>3. AnswerOwed
    <2> SUFFICES ASSUME prog.at \in {"openwait", "callwait"}
                 PROVE  \/ toFg[prog.i] # <<>> \/ toBg[prog.i] # <<>>
                        \/ bg[prog.i].at \notin {"loop", "exited", "none"}
      BY DEF AnswerOwed
    <2>1. prog.i \in P BY DEF IInv, MainOK
    <2> DEFINE i == prog.i
    <2>2. Starting(bg[i], toBg[i], toFg[i]) \/ Verifying(i, prog.user, bg[i], toBg[i], toFg[i]) \/ Scripting(bg[i], toBg[i], toFg[i])
      BY <2>1, TalkOf DEF Talk, Waits, Answering
    <2> QED BY <2>2 DEF Starting, Verifying, Scripting
  <1>4. NoOrphan
    BY TalkOf DEF NoOrphan, Talk, Waits, Leaving, BgAlive, Ended
  <1>5. GrantedByAll BY DEF IInv
  <1> QED BY <1>1, <1>2, <1>3, <1>4, <1>5 DEF PluginInv

\* For every list of auth-pam and down-root plugins, and whichever background processes fail to
\* start or are killed: a client is let in only if every auth-pam plugin accepted it, each
\* handle is closed or aborted once, the main process waits only for an answer that is owed or
\* whose sender was killed, and no background process outlives the program (plugin.c,
\* auth-pam.c, down-root.c).
THEOREM PluginCorrect == PluginSpec => []PluginInv
  <1>1. PluginSpec => []IInv BY InitInv, NextInv, PTL DEF PluginSpec
  <1> QED BY <1>1, InvImplies, PTL

-----------------------------------------------------------------------------
(* The TCP server: what the invariant says.                                  *)

TcpClients ==
  [live : BOOLEAN, sig : BOOLEAN, est : BOOLEAN, res : 0 .. 1, formed : BOOLEAN, link : Nat, tun : BOOLEAN,
   deferred : Seq(Nat), ctl : 0 .. CtlBudget, rw : {"none", "READ", "WRITE"}]

TcpStates ==
  [inst : [Client -> TcpClients], pending : Client \cup {NIL}, mbuf : Seq(Client \cup {NIL}),
   wakeup : Client \cup {NIL}, esr : SUBSET Event, overtaken : BOOLEAN, abort : {"no", "mbuf"}]

\* Only packets that the queue limit counts: what comes from tun for one client, and control packets.
Limited == ~topt.bcast /\ ~topt.c2c

\* The deferred packets of a client are the oldest it holds, in order, and to_link the youngest.
PacketsOK(x) ==
  /\ Len(x.deferred) <= topt.n_bcast_buf
  /\ \A n \in 1 .. Len(x.deferred) : x.deferred[n] = n
  /\ x.link \in {0, Len(x.deferred) + 1}
  /\ Limited => Len(x.deferred) + (IF x.link = 0 THEN 0 ELSE 1) <= QueueLimit + 1 + x.ctl

ClientSound(x) == x \in TcpClients /\ PacketsOK(x) /\ (~x.live => x = NoClient)

\* What is so of the server at any moment inside a pass.
Sound(s) ==
  /\ s \in TcpStates
  /\ \A i \in Client : ClientSound(s.inst[i])
  /\ \A e \in s.esr : e.who \in Client => s.inst[e.who].live
  /\ s.pending \in LiveTcp(s) \cup {NIL} /\ s.wakeup \in LiveTcp(s) \cup {NIL}
  /\ Len(s.mbuf) <= topt.n_bcast_buf
  /\ \A n \in 1 .. Len(s.mbuf) : s.mbuf[n] \in LiveTcp(s) \cup {NIL}
  /\ Limited => s.mbuf = <<>>
  /\ ~s.overtaken

\* A client that is registered for the right event, and one for which nothing is left to do besides.
Still(x) == ~x.formed /\ x.res = 0 /\ (x.live => x.rw = IF x.deferred # <<>> THEN "WRITE" ELSE "READ")
Resting(x) == Still(x) /\ ~x.sig /\ ~x.tun /\ x.link = 0

\* All clients but i wait for events.
Only(s, i) == (\A j \in Client \ {i} : Resting(s.inst[j])) /\ s.pending \in {NIL, i}

\* The stream buffer of a client has been looked at; a client with output is pending.
Looked(x) == x.formed <=> x.res > 0
Pended(s, i) == s.pending = IF AnyOut(s, i) THEN i ELSE NIL

\* What multi_tcp_action knows of its instance i when it starts a pass for that action.
Ready(s, i, action) ==
  /\ Looked(s.inst[i])
  /\ action = "INITIAL" => ~s.inst[i].formed
  /\ action # "INITIAL" => ~s.inst[i].sig /\ Pended(s, i)
  /\ action \in {"SOCKET_READ", "SOCKET_WRITE_READY"} => Resting(s.inst[i])
  /\ action = "SOCKET_READ_RESIDUAL" => s.inst[i].formed /\ ~AnyOut(s, i)
  /\ action = "TUN_WRITE" => s.inst[i].tun
  /\ action = "SOCKET_WRITE" /\ s.pending = NIL => Peeked(s.mbuf) = i

ActOK(s, a) ==
  /\ a \in [mi : Client \cup {NIL}, action : TcpActions \cup {"UNDEF"}, poll : BOOLEAN, tip : BOOLEAN]
  /\ a.mi \in LiveTcp(s) \cup {NIL}
  /\ Only(s, a.mi)
  /\ a.poll => a.action \in {"TUN_WRITE", "SOCKET_WRITE", "SOCKET_READ_RESIDUAL"}
  /\ a.mi = NIL <=> a.action \in {"UNDEF", "TUN_READ", "TIMEOUT"}
  /\ a.mi # NIL => Ready(s, a.mi, a.action)

TcpIInv ==
  /\ topt \in TcpOptions /\ turn \in {"wait", "io", "drain", "timeout"}
  /\ Sound(mt) /\ ActOK(mt, act)

-----------------------------------------------------------------------------
(* Records and their updates.                                                *)

LEMMA TcpConstants ==
  ASSUME topt \in TcpOptions
  PROVE  /\ topt.n_bcast_buf \in Nat \ {0} /\ QueueLimit \in Nat \ {0} /\ CtlBudget \in Nat /\ NIL \notin Client
BY MultiTcpAssumption

LEMMA ClientFields ==
  ASSUME NEW x \in TcpClients
  PROVE  /\ x.live \in BOOLEAN /\ x.sig \in BOOLEAN /\ x.est \in BOOLEAN /\ x.res \in 0 .. 1 /\ x.formed \in BOOLEAN
         /\ x.link \in Nat /\ x.tun \in BOOLEAN /\ x.deferred \in Seq(Nat) /\ x.ctl \in 0 .. CtlBudget
         /\ x.rw \in {"none", "READ", "WRITE"}
BY DEF TcpClients

LEMMA StateFields ==
  ASSUME NEW s \in TcpStates
  PROVE  /\ s.inst \in [Client -> TcpClients] /\ s.pending \in Client \cup {NIL} /\ s.mbuf \in Seq(Client \cup {NIL})
         /\ s.wakeup \in Client \cup {NIL} /\ s.esr \in SUBSET Event /\ s.overtaken \in BOOLEAN
         /\ s.abort \in {"no", "mbuf"}
BY DEF TcpStates

\* Two clients that agree in what packets they hold, and in whether they live.
SamePackets(x, y) == y.link = x.link /\ y.deferred = x.deferred /\ y.ctl = x.ctl /\ y.live = x.live
\* Two clients that agree in what rests with the stream buffer and the socket.
SameInput(x, y) == y.res = x.res /\ y.formed = x.formed

LEMMA PutSig ==
  ASSUME NEW x \in TcpClients, NEW b \in BOOLEAN, NEW y, y = [x EXCEPT !.sig = b]
  PROVE  /\ y \in TcpClients /\ SamePackets(x, y) /\ SameInput(x, y)
         /\ y.sig = b /\ y.est = x.est /\ y.tun = x.tun /\ y.rw = x.rw
BY DEF TcpClients, SamePackets, SameInput

LEMMA PutEst ==
  ASSUME NEW x \in TcpClients, NEW b \in BOOLEAN, NEW y, y = [x EXCEPT !.est = b]
  PROVE  /\ y \in TcpClients /\ SamePackets(x, y) /\ SameInput(x, y)
         /\ y.sig = x.sig /\ y.est = b /\ y.tun = x.tun /\ y.rw = x.rw
BY DEF TcpClients, SamePackets, SameInput

LEMMA PutTun ==
  ASSUME NEW x \in TcpClients, NEW b \in BOOLEAN, NEW y, y = [x EXCEPT !.tun = b]
  PROVE  /\ y \in TcpClients /\ SamePackets(x, y) /\ SameInput(x, y)
         /\ y.sig = x.sig /\ y.est = x.est /\ y.tun = b /\ y.rw = x.rw
BY DEF TcpClients, SamePackets, SameInput

LEMMA PutRw ==
  ASSUME NEW x \in TcpClients, NEW v \in {"none", "READ", "WRITE"}, NEW y, y = [x EXCEPT !.rw = v]
  PROVE  /\ y \in TcpClients /\ SamePackets(x, y) /\ SameInput(x, y)
         /\ y.sig = x.sig /\ y.est = x.est /\ y.tun = x.tun /\ y.rw = v
BY DEF TcpClients, SamePackets, SameInput

LEMMA PutFormed ==
  ASSUME NEW x \in TcpClients, NEW b \in BOOLEAN, NEW y, y = [x EXCEPT !.formed = b]
  PROVE  /\ y \in TcpClients /\ SamePackets(x, y) /\ y.res = x.res /\ y.formed = b
         /\ y.sig = x.sig /\ y.est = x.est /\ y.tun = x.tun /\ y.rw = x.rw
BY DEF TcpClients, SamePackets

LEMMA PutRes ==
  ASSUME NEW x \in TcpClients, NEW v \in 0 .. 1, NEW y, y = [x EXCEPT !.res = v]
  PROVE  /\ y \in TcpClients /\ SamePackets(x, y) /\ y.res = v /\ y.formed = x.formed
         /\ y.sig = x.sig /\ y.est = x.est /\ y.tun = x.tun /\ y.rw = x.rw
BY DEF TcpClients, SamePackets

LEMMA PutLink ==
  ASSUME NEW x \in TcpClients, NEW v \in Nat, NEW y, y = [x EXCEPT !.link = v]
  PROVE  /\ y \in TcpClients /\ y.link = v /\ y.deferred = x.deferred /\ y.ctl = x.ctl /\ y.live = x.live
         /\ SameInput(x, y) /\ y.sig = x.sig /\ y.est = x.est /\ y.tun = x.tun /\ y.rw = x.rw
BY DEF TcpClients, SameInput

LEMMA PutDeferred ==
  ASSUME NEW x \in TcpClients, NEW v \in Seq(Nat), NEW y, y = [x EXCEPT !.deferred = v]
  PROVE  /\ y \in TcpClients /\ y.link = x.link /\ y.deferred = v /\ y.ctl = x.ctl /\ y.live = x.live
         /\ SameInput(x, y) /\ y.sig = x.sig /\ y.est = x.est /\ y.tun = x.tun /\ y.rw = x.rw
BY DEF TcpClients, SameInput

LEMMA PutCtl ==
  ASSUME NEW x \in TcpClients, NEW v \in 0 .. CtlBudget, NEW y, y = [x EXCEPT !.ctl = v]
  PROVE  /\ y \in TcpClients /\ y.link = x.link /\ y.deferred = x.deferred /\ y.ctl = v /\ y.live = x.live
         /\ SameInput(x, y) /\ y.sig = x.sig /\ y.est = x.est /\ y.tun = x.tun /\ y.rw = x.rw
BY DEF TcpClients, SameInput

\* The server with another record for client i.
PutInst(s, i, y) == [s EXCEPT !.inst[i] = y]

IsPut(s, i, y, t) ==
  /\ t \in TcpStates /\ t.inst[i] = y /\ \A j \in Client \ {i} : t.inst[j] = s.inst[j]
  /\ t.pending = s.pending /\ t.mbuf = s.mbuf /\ t.wakeup = s.wakeup /\ t.esr = s.esr
  /\ t.overtaken = s.overtaken /\ t.abort = s.abort

LEMMA PutInstIs ==
  ASSUME NEW s \in TcpStates, NEW i \in Client, NEW y \in TcpClients
  PROVE  IsPut(s, i, y, PutInst(s, i, y))
BY DEF PutInst, IsPut, TcpStates

\* A new record of a live client leaves the server sound.
LEMMA PutInstSound ==
  ASSUME NEW s, Sound(s), NEW i \in Client, NEW y, ClientSound(y), y.live = s.inst[i].live
  PROVE  /\ Sound(PutInst(s, i, y)) /\ LiveTcp(PutInst(s, i, y)) = LiveTcp(s)
         /\ IsPut(s, i, y, PutInst(s, i, y))
<1> DEFINE t == PutInst(s, i, y)
<1>1. s \in TcpStates /\ y \in TcpClients /\ s.inst \in [Client -> TcpClients]
  BY StateFields DEF Sound, ClientSound
<1>2. IsPut(s, i, y, t)
  BY <1>1, PutInstIs
<1> HIDE DEF t
<1>3. \A j \in Client : t.inst[j].live = s.inst[j].live
  BY <1>2 DEF IsPut
<1>4. LiveTcp(t) = LiveTcp(s)
  BY <1>3 DEF LiveTcp
<1>5. \A j \in Client : ClientSound(t.inst[j])
  BY <1>2 DEF Sound, IsPut
<1>6. Sound(t)
  BY <1>2, <1>3, <1>4, <1>5 DEF Sound, IsPut
<1> QED
  BY <1>2, <1>4, <1>6 DEF t

LEMMA PutInstOnly ==
  ASSUME NEW s \in TcpStates, NEW i \in Client, Only(s, i), NEW y \in TcpClients
  PROVE  Only(PutInst(s, i, y), i)
<1>1. IsPut(s, i, y, PutInst(s, i, y))
  BY PutInstIs
<1> QED
  BY <1>1 DEF Only, IsPut

-----------------------------------------------------------------------------
(* The packets of one client.                                                *)

LEMMA SamePacketsSound ==
  ASSUME NEW x, ClientSound(x), x.live, NEW y \in TcpClients, SamePackets(x, y)
  PROVE  ClientSound(y)
BY DEF ClientSound, SamePackets, PacketsOK

LEMMA IntervalSize ==
  ASSUME NEW a \in Nat, NEW b \in Nat
  PROVE  IsFiniteSet((a + 1) .. (a + b)) /\ Cardinality((a + 1) .. (a + b)) = b
<1>1. a + 1 \in Int /\ a + b \in Int
  OBVIOUS
<1>2. IsFiniteSet((a + 1) .. (a + b))
      /\ Cardinality((a + 1) .. (a + b)) = IF a + 1 > a + b THEN 0 ELSE a + b - (a + 1) + 1
  BY <1>1, FS_Interval
<1> QED
  BY <1>2

\* With k packets dropped from the front, a packet's rank is its place.
LEMMA HeldRank ==
  ASSUME NEW x \in TcpClients, NEW k \in Nat, x.link = 0,
         \A n \in 1 .. Len(x.deferred) : x.deferred[n] = n + k
  PROVE  /\ Held(x) = (k + 1) .. (k + Len(x.deferred))
         /\ Cardinality(Held(x)) = Len(x.deferred)
         /\ Held(x) = {} <=> Len(x.deferred) = 0
         /\ \A n \in 1 .. Len(x.deferred) : Rank(x, x.deferred[n]) = n
<1> DEFINE d == x.deferred
<1>1. d \in Seq(Nat) /\ Len(d) \in Nat /\ DOMAIN d = 1 .. Len(d)
  BY ClientFields
<1>2. ToSet(d) = {d[n] : n \in 1 .. Len(d)}
  BY <1>1 DEF ToSet
<1>3. \A v : v \in (k + 1) .. (k + Len(d)) => v - k \in 1 .. Len(d) /\ v = (v - k) + k
  BY <1>1
<1>4. ToSet(d) = (k + 1) .. (k + Len(d))
  <2>1. \A v \in ToSet(d) : v \in (k + 1) .. (k + Len(d))
    BY <1>1, <1>2
  <2>2. ASSUME NEW v \in (k + 1) .. (k + Len(d)) PROVE v \in ToSet(d)
    <3>1. v - k \in 1 .. Len(d) /\ d[v - k] = v
      BY <1>1, <1>3
    <3> QED
      BY <1>2, <3>1
  <2> QED
    BY <2>1, <2>2
<1>5. Held(x) = (k + 1) .. (k + Len(d))
  BY <1>4 DEF Held
<1>6. ASSUME NEW n \in 1 .. Len(d) PROVE Rank(x, d[n]) = n
  <2>1. {q \in Held(x) : q <= n + k} = (k + 1) .. (k + n)
    BY <1>1, <1>5
  <2>2. Cardinality((k + 1) .. (k + n)) = n
    BY <1>1, IntervalSize
  <2>3. d[n] = n + k /\ n + k # 0
    BY <1>1
  <2> QED
    BY <2>1, <2>2, <2>3 DEF Rank
<1>7. Cardinality(Held(x)) = Len(d)
  BY <1>1, <1>5, IntervalSize
<1>8. Held(x) = {} <=> Len(d) = 0
  <2>1. Len(d) # 0 => k + 1 \in Held(x)
    BY <1>1, <1>5
  <2>2. Len(d) = 0 => \A v : v \notin Held(x)
    BY <1>1, <1>5
  <2> QED
    BY <2>1, <2>2
<1> QED
  BY <1>5, <1>6, <1>7, <1>8

\* The packets of a client are numbered anew.
LEMMA Ranked2Is ==
  ASSUME NEW x \in TcpClients, NEW k \in Nat, x.link = 0,
         \A n \in 1 .. Len(x.deferred) : x.deferred[n] = n + k,
         NEW y, y = Ranked2(x)
  PROVE  /\ y \in TcpClients /\ y.link = 0 /\ Len(y.deferred) = Len(x.deferred)
         /\ \A n \in 1 .. Len(y.deferred) : y.deferred[n] = n
         /\ y.ctl = (IF Len(x.deferred) = 0 THEN 0 ELSE x.ctl) /\ y.live = x.live
         /\ SameInput(x, y) /\ y.sig = x.sig /\ y.est = x.est /\ y.tun = x.tun /\ y.rw = x.rw
<1> DEFINE d == [n \in DOMAIN x.deferred |-> Rank(x, x.deferred[n])]
           c == IF Held(x) = {} THEN 0 ELSE x.ctl
           x1 == [x EXCEPT !.deferred = d]
           x2 == [x1 EXCEPT !.ctl = c]
<1>1. x.deferred \in Seq(Nat) /\ Len(x.deferred) \in Nat /\ DOMAIN x.deferred = 1 .. Len(x.deferred) /\ x.ctl \in 0 .. CtlBudget /\ CtlBudget \in Nat
  BY ClientFields, MultiTcpAssumption
<1>2. /\ Held(x) = {} <=> Len(x.deferred) = 0
      /\ \A n \in 1 .. Len(x.deferred) : Rank(x, x.deferred[n]) = n
  BY HeldRank
<1>3. d = [n \in 1 .. Len(x.deferred) |-> n]
  BY <1>1, <1>2
<1> HIDE DEF d
<1>4. d \in Seq(Nat) /\ Len(d) = Len(x.deferred) /\ \A n \in 1 .. Len(d) : d[n] = n
  BY <1>1, <1>3
<1>5. c \in 0 .. CtlBudget /\ c = IF Len(x.deferred) = 0 THEN 0 ELSE x.ctl
  BY <1>1, <1>2
<1>6. y = x2
  <2>1. Rank(x, x.link) = 0 /\ x.link = 0
    BY DEF Rank
  <2>2. y = [x EXCEPT !.link = Rank(x, x.link), !.deferred = d, !.ctl = c]
    BY DEF Ranked2, d
  <2>3. [x EXCEPT !.link = 0] = x
    BY DEF TcpClients
  <2> QED
    BY <2>1, <2>2, <2>3
<1> HIDE DEF c
<1>7. x1 \in TcpClients /\ x1.link = x.link /\ x1.deferred = d /\ x1.live = x.live
      /\ SameInput(x, x1) /\ x1.sig = x.sig /\ x1.est = x.est /\ x1.tun = x.tun /\ x1.rw = x.rw
  BY <1>4, PutDeferred
<1> HIDE DEF x1
<1>8. x2 \in TcpClients /\ x2.link = x1.link /\ x2.deferred = x1.deferred /\ x2.ctl = c /\ x2.live = x1.live
      /\ SameInput(x1, x2) /\ x2.sig = x1.sig /\ x2.est = x1.est /\ x2.tun = x1.tun /\ x2.rw = x1.rw
  BY <1>5, <1>7, PutCtl
<1> HIDE DEF x2
<1> QED
  BY <1>4, <1>5, <1>6, <1>7, <1>8 DEF SameInput

\* A packet is encrypted for client i, or for its record x.
Encrypted(x, y) ==
  /\ y \in TcpClients /\ y.link = Len(x.deferred) + 1 /\ y.deferred = x.deferred /\ y.ctl = x.ctl /\ y.live = x.live
  /\ SameInput(x, y) /\ y.sig = x.sig /\ y.est = x.est /\ y.tun = x.tun /\ y.rw = x.rw

LEMMA EncryptIs ==
  ASSUME NEW s, Sound(s), NEW i \in Client, s.inst[i].link = 0
  PROVE  \E y : Encrypted(s.inst[i], y) /\ encrypt_sign(s, i) = PutInst(s, i, y)
<1> DEFINE x == s.inst[i]
           v == Cardinality(Held(x)) + 1
           y == [x EXCEPT !.link = v]
<1>1. x \in TcpClients /\ x.deferred \in Seq(Nat) /\ Len(x.deferred) \in Nat /\ PacketsOK(x) /\ x.link = 0
  BY StateFields, ClientFields DEF Sound, ClientSound
<1>5. encrypt_sign(s, i) = PutInst(s, i, y)
  BY DEF encrypt_sign, PutInst
<1> HIDE DEF x
<1>2. 0 \in Nat /\ \A n \in 1 .. Len(x.deferred) : x.deferred[n] = n + 0
  BY <1>1 DEF PacketsOK
<1>3. Cardinality(Held(x)) = Len(x.deferred)
  BY <1>1, <1>2, HeldRank
<1>6. v \in Nat /\ v = Len(x.deferred) + 1
  BY <1>1, <1>3
<1> HIDE DEF v
<1>4. Encrypted(x, y)
  BY <1>1, <1>6, PutLink DEF Encrypted
<1> QED
  BY <1>4, <1>5 DEF x

LEMMA EncryptedSound ==
  ASSUME topt \in TcpOptions, NEW x, ClientSound(x), x.live, x.link = 0, NEW y, Encrypted(x, y),
         Limited => Len(x.deferred) <= QueueLimit
  PROVE  ClientSound(y)
<1>1. x \in TcpClients /\ x.deferred \in Seq(Nat) /\ Len(x.deferred) \in Nat /\ x.ctl \in Nat
  BY ClientFields, TcpConstants DEF ClientSound
<1>2. PacketsOK(x) /\ topt.n_bcast_buf \in Nat /\ QueueLimit \in Nat
  BY TcpConstants DEF ClientSound
<1>3. PacketsOK(y)
  <2>1. y.deferred = x.deferred /\ y.link = Len(x.deferred) + 1 /\ y.ctl = x.ctl /\ y.link # 0
    BY <1>1 DEF Encrypted
  <2>2. Limited => Len(y.deferred) + (IF y.link = 0 THEN 0 ELSE 1) <= QueueLimit + 1 + y.ctl
    BY <1>1, <1>2, <2>1
  <2> QED
    BY <1>2, <2>1, <2>2 DEF PacketsOK
<1> QED
  BY <1>3 DEF ClientSound, Encrypted

\* With a control packet.
LEMMA ControlSound ==
  ASSUME topt \in TcpOptions, NEW x, ClientSound(x), x.live, x.link = 0, x.ctl < CtlBudget, NEW y, Encrypted(x, y),
         NEW z \in TcpClients, z.link = y.link, z.deferred = y.deferred, z.ctl = y.ctl + 1, z.live = y.live
  PROVE  ClientSound(z)
<1>1. x \in TcpClients /\ x.deferred \in Seq(Nat) /\ Len(x.deferred) \in Nat /\ x.ctl \in 0 .. CtlBudget /\ PacketsOK(x)
  BY ClientFields, TcpConstants DEF ClientSound
<1>3. z.link = y.link /\ z.deferred = y.deferred /\ z.ctl = x.ctl + 1 /\ z.live = y.live
  BY DEF Encrypted
<1>5. topt.n_bcast_buf \in Nat /\ QueueLimit \in Nat /\ CtlBudget \in Nat /\ y.link = Len(x.deferred) + 1
      /\ y.deferred = x.deferred /\ y.live
  BY TcpConstants DEF Encrypted
<1>6. PacketsOK(z)
  <2>1. z.deferred = x.deferred /\ z.link = Len(x.deferred) + 1 /\ z.ctl = x.ctl + 1 /\ z.link # 0
    BY <1>1, <1>3, <1>5
  <2>2. Limited => Len(x.deferred) <= QueueLimit + 1 + x.ctl
    BY <1>1 DEF PacketsOK
  <2>3. Limited => Len(z.deferred) + (IF z.link = 0 THEN 0 ELSE 1) <= QueueLimit + 1 + z.ctl
    BY <1>1, <1>5, <2>1, <2>2
  <2> QED
    BY <1>1, <2>1, <2>3 DEF PacketsOK
<1> QED
  BY <1>3, <1>5, <1>6 DEF ClientSound

-----------------------------------------------------------------------------
(* Closing clients.                                                          *)

LEMMA NoClientIs ==
  ASSUME topt \in TcpOptions
  PROVE  ClientSound(NoClient) /\ Resting(NoClient) /\ ~NoClient.live /\ NoClient.link = 0 /\ NoClient.deferred = <<>>
<1>1. CtlBudget \in Nat /\ 0 \in 0 .. CtlBudget /\ <<>> \in Seq(Nat) /\ Len(<<>>) = 0 /\ topt.n_bcast_buf \in Nat /\ QueueLimit \in Nat
  BY TcpConstants
<1>2. NoClient \in TcpClients
  BY <1>1 DEF NoClient, TcpClients
<1>3. PacketsOK(NoClient)
  BY <1>1 DEF NoClient, PacketsOK
<1> QED
  BY <1>2, <1>3 DEF NoClient, ClientSound, Resting, Still

IsClosed(s, J, t) ==
  /\ t \in TcpStates
  /\ \A j \in Client : t.inst[j] = IF j \in J THEN NoClient ELSE s.inst[j]
  /\ t.pending = (IF s.pending \in J THEN NIL ELSE s.pending)
  /\ t.wakeup = (IF s.wakeup \in J THEN NIL ELSE s.wakeup)
  /\ t.esr = (IF J = {} THEN s.esr ELSE {}) /\ t.overtaken = s.overtaken /\ t.abort = s.abort
  /\ Len(t.mbuf) = Len(s.mbuf) /\ \A n \in 1 .. Len(s.mbuf) : t.mbuf[n] = IF s.mbuf[n] \in J THEN NIL ELSE s.mbuf[n]

LEMMA CloseIs ==
  ASSUME topt \in TcpOptions, NEW s \in TcpStates, NEW J \in SUBSET Client
  PROVE  IsClosed(s, J, multi_close_instance_tcp(s, J))
<1> DEFINE m == [n \in DOMAIN s.mbuf |-> IF s.mbuf[n] \in J THEN NIL ELSE s.mbuf[n]]
           f == [i \in Client |-> IF i \in J THEN NoClient ELSE s.inst[i]]
           p == IF s.pending \in J THEN NIL ELSE s.pending
           w == IF s.wakeup \in J THEN NIL ELSE s.wakeup
           e == IF J = {} THEN s.esr ELSE {}
           t == [s EXCEPT !.pending = p, !.wakeup = w, !.esr = e, !.mbuf = m, !.inst = f]
<1>1. multi_close_instance_tcp(s, J) = t
  BY DEF multi_close_instance_tcp
<1>2. s.mbuf \in Seq(Client \cup {NIL}) /\ Len(s.mbuf) \in Nat /\ DOMAIN s.mbuf = 1 .. Len(s.mbuf)
  BY StateFields
<1>3. m \in [1 .. Len(s.mbuf) -> Client \cup {NIL}] /\ Len(s.mbuf) \in Nat
  BY <1>2
<1>4. m \in Seq(Client \cup {NIL}) /\ Len(m) = Len(s.mbuf)
  <2> HIDE DEF m
  <2> QED
    BY <1>3
<1>5. f \in [Client -> TcpClients]
  BY StateFields, NoClientIs DEF ClientSound
<1>6. p \in Client \cup {NIL} /\ w \in Client \cup {NIL} /\ e \in SUBSET Event
  BY StateFields
<1>7. \A n \in 1 .. Len(s.mbuf) : m[n] = IF s.mbuf[n] \in J THEN NIL ELSE s.mbuf[n]
  BY <1>2
<1>8. \A j \in Client : f[j] = IF j \in J THEN NoClient ELSE s.inst[j]
  OBVIOUS
<1> HIDE DEF m, f, p, w, e
<1>9. /\ t \in TcpStates /\ t.pending = p /\ t.wakeup = w /\ t.esr = e /\ t.mbuf = m /\ t.inst = f
      /\ t.overtaken = s.overtaken /\ t.abort = s.abort
  BY <1>4, <1>5, <1>6 DEF TcpStates
<1> HIDE DEF t
<1>10. IsClosed(s, J, t)
  BY <1>4, <1>7, <1>8, <1>9 DEF IsClosed, p, w, e
<1> QED
  BY <1>1, <1>10

LEMMA CloseSound ==
  ASSUME topt \in TcpOptions, NEW s, Sound(s), NEW J \in SUBSET Client, NEW t, t = multi_close_instance_tcp(s, J)
  PROVE  Sound(t) /\ LiveTcp(t) = LiveTcp(s) \ J /\ IsClosed(s, J, t)
<1>1. s \in TcpStates /\ s.mbuf \in Seq(Client \cup {NIL}) /\ Len(s.mbuf) \in Nat /\ NIL \notin Client
  BY StateFields, TcpConstants DEF Sound
<1>2. IsClosed(s, J, t)
  BY <1>1, CloseIs
<1>3. ~NoClient.live /\ ClientSound(NoClient)
  BY NoClientIs
<1>4. LiveTcp(t) = LiveTcp(s) \ J
  BY <1>2, <1>3 DEF LiveTcp, IsClosed
<1>5. \A j \in Client : ClientSound(t.inst[j])
  BY <1>2, <1>3 DEF Sound, IsClosed
<1>6. \A e \in t.esr : e.who \in Client => t.inst[e.who].live
  <2>1. CASE J = {}
    <3>1. t.esr = s.esr /\ \A j \in Client : t.inst[j] = s.inst[j]
      BY <1>2, <2>1 DEF IsClosed
    <3> QED
      BY <3>1 DEF Sound
  <2>2. CASE J # {}
    BY <1>2, <2>2 DEF IsClosed
  <2> QED
    BY <2>1, <2>2
<1>7. t.pending \in LiveTcp(t) \cup {NIL} /\ t.wakeup \in LiveTcp(t) \cup {NIL}
  BY <1>2, <1>4 DEF Sound, IsClosed
<1>8. \A n \in 1 .. Len(t.mbuf) : t.mbuf[n] \in LiveTcp(t) \cup {NIL}
  BY <1>2, <1>4 DEF Sound, IsClosed
<1>9. Limited => t.mbuf = <<>>
  <2> SUFFICES ASSUME Limited PROVE t.mbuf = <<>>
    OBVIOUS
  <2>1. s.mbuf = <<>> /\ Len(t.mbuf) = 0 /\ t.mbuf \in Seq(Client \cup {NIL})
    BY <1>2, StateFields DEF Sound, IsClosed
  <2> QED
    BY <2>1
<1>10. t \in TcpStates /\ Len(t.mbuf) <= topt.n_bcast_buf /\ ~t.overtaken
  BY <1>2 DEF Sound, IsClosed
<1>11. Sound(t)
  BY <1>5, <1>6, <1>7, <1>8, <1>9, <1>10 DEF Sound
<1> QED
  BY <1>2, <1>4, <1>11

\* A closed client is not in the way of the others.
LEMMA CloseOnly ==
  ASSUME topt \in TcpOptions, NEW s \in TcpStates, NEW J \in SUBSET Client, NEW t, IsClosed(s, J, t),
         NEW i \in Client \cup {NIL}, Only(s, i)
  PROVE  Only(t, i) /\ (i \in J => Only(t, NIL))
<1>1. Resting(NoClient) /\ NIL \notin Client
  BY NoClientIs, TcpConstants
<1>2. \A j \in Client \ {i} : Resting(t.inst[j])
  BY <1>1 DEF Only, IsClosed
<1>3. t.pending \in {NIL, i} /\ (i \in J => t.pending = NIL)
  BY <1>1 DEF Only, IsClosed
<1>4. i \in J => Resting(t.inst[i])
  BY <1>1 DEF IsClosed
<1> QED
  BY <1>1, <1>2, <1>3, <1>4 DEF Only

-----------------------------------------------------------------------------
(* multi_process_post.                                                       *)

\* What multi_process_post leaves alone of the client it is called for.
PostKept(x, y) == y.live = x.live /\ SameInput(x, y) /\ y.tun = x.tun /\ y.deferred = x.deferred /\ y.rw = x.rw

LEMMA PreSelectIs ==
  ASSUME topt \in TcpOptions, NEW s, Sound(s), NEW i \in Client, s.inst[i].live, Only(s, i), ~s.inst[i].sig,
         NEW t \in PreSelect(s, i)
  PROVE  Sound(t) /\ Only(t, i) /\ PostKept(s.inst[i], t.inst[i])
<1>0. PICK x : x = s.inst[i] OBVIOUS
<1>1. s \in TcpStates /\ ClientSound(x) /\ x \in TcpClients /\ x.live /\ NIL \notin Client /\ TRUE \in BOOLEAN
  BY <1>0, TcpConstants DEF Sound, ClientSound
<1>2. CASE t = s
  BY <1>2 DEF PostKept, SameInput
<1>3. CASE t = [s EXCEPT !.inst[i].sig = TRUE]
  <2>0. PICK y : y = [x EXCEPT !.sig = TRUE] OBVIOUS
  <2>1. t = PutInst(s, i, y)
    BY <1>0, <1>3, <2>0 DEF PutInst
  <2>2. y \in TcpClients /\ SamePackets(x, y) /\ SameInput(x, y) /\ y.tun = x.tun /\ y.rw = x.rw
    BY <1>1, <2>0, PutSig
  <2>3. ClientSound(y) /\ y.live = x.live
    BY <1>1, <2>2, SamePacketsSound DEF SamePackets
  <2>4. Sound(t) /\ IsPut(s, i, y, t) /\ Only(t, i)
    BY <1>0, <1>1, <2>1, <2>2, <2>3, PutInstSound, PutInstOnly
  <2> QED
    BY <1>0, <2>2, <2>4 DEF PostKept, SamePackets, IsPut
<1>4. CASE /\ ~LinkOut(s, i) /\ x.ctl < CtlBudget
           /\ t = [encrypt_sign(s, i) EXCEPT !.inst[i].ctl = @ + 1]
  <2>1. x.link = 0
    BY <1>0, <1>1, <1>4 DEF LinkOut
  <2>2. PICK y : Encrypted(x, y) /\ encrypt_sign(s, i) = PutInst(s, i, y)
    BY <1>0, <2>1, EncryptIs
  <2>7. PICK z : z = [y EXCEPT !.ctl = y.ctl + 1] OBVIOUS
  <2>3. t = PutInst(s, i, z)
    <3>1. y \in TcpClients /\ IsPut(s, i, y, PutInst(s, i, y))
      BY <1>1, <2>2, PutInstIs DEF Encrypted
    <3>2. t = [PutInst(s, i, y) EXCEPT !.inst[i].ctl = @ + 1] /\ PutInst(s, i, y).inst[i] = y
      BY <1>4, <2>2, <3>1 DEF IsPut
    <3>3. t = PutInst(PutInst(s, i, y), i, z)
      BY <2>7, <3>2 DEF PutInst
    <3> QED
      BY <1>1, <3>3 DEF PutInst, TcpStates
  <2>4. /\ ClientSound(z) /\ z.live /\ SameInput(x, z) /\ z.tun = x.tun
        /\ z.rw = x.rw /\ z.deferred = x.deferred
    <3>1. x.ctl < CtlBudget /\ Encrypted(x, y)
      BY <1>4, <2>2
    <3>2. y \in TcpClients /\ y.ctl + 1 \in 0 .. CtlBudget
      BY <1>1, <3>1, ClientFields, TcpConstants DEF Encrypted
    <3>3. /\ z \in TcpClients /\ z.link = y.link /\ z.deferred = y.deferred /\ z.ctl = y.ctl + 1 /\ z.live = y.live
          /\ SameInput(y, z) /\ z.sig = y.sig /\ z.est = y.est /\ z.tun = y.tun /\ z.rw = y.rw
      BY <2>7, <3>2, PutCtl
    <3>4. ClientSound(z)
      BY <1>1, <2>1, <3>1, <3>3, ControlSound
    <3> QED
      BY <1>1, <3>1, <3>3, <3>4 DEF Encrypted, SameInput
  <2>5. z \in TcpClients /\ z.live = x.live
    BY <1>1, <2>4, ClientFields DEF ClientSound
  <2>6. Sound(t) /\ IsPut(s, i, z, t) /\ Only(t, i)
    BY <1>0, <1>1, <2>3, <2>4, <2>5, PutInstSound, PutInstOnly
  <2> QED
    BY <1>0, <2>4, <2>5, <2>6 DEF PostKept, IsPut
<1>5. CASE t = multi_delete_dup_tcp([s EXCEPT !.inst[i].est = TRUE], i)
  <2>0. PICK y : y = [x EXCEPT !.est = TRUE] OBVIOUS
  <2> DEFINE u == PutInst(s, i, y)
             J == {j \in LiveTcp(u) \ {i} : topt.one_cn /\ u.inst[j].est}
  <2>1. t = multi_close_instance_tcp(u, J)
    BY <1>0, <1>5, <2>0 DEF PutInst, multi_delete_dup_tcp
  <2>2. y \in TcpClients /\ SamePackets(x, y) /\ SameInput(x, y) /\ y.tun = x.tun /\ y.rw = x.rw
    BY <1>1, <2>0, PutEst
  <2>3. ClientSound(y) /\ y.live = x.live
    BY <1>1, <2>2, SamePacketsSound DEF SamePackets
  <2>4. Sound(u) /\ IsPut(s, i, y, u) /\ Only(u, i)
    BY <1>0, <1>1, <2>2, <2>3, PutInstSound, PutInstOnly
  <2> HIDE DEF u
  <2>5. J \in SUBSET Client /\ i \notin J
    BY DEF LiveTcp
  <2> HIDE DEF J
  <2>6. Sound(t) /\ IsClosed(u, J, t)
    BY <2>1, <2>4, <2>5, CloseSound
  <2>7. Only(t, i)
    BY <2>4, <2>5, <2>6, CloseOnly DEF Sound
  <2>8. t.inst[i] = y
    BY <2>4, <2>5, <2>6 DEF IsClosed, IsPut
  <2> QED
    BY <1>0, <2>2, <2>6, <2>7, <2>8 DEF PostKept, SamePackets
<1> QED
  BY <1>0, <1>2, <1>3, <1>4, <1>5 DEF PreSelect

\* multi_process_post: the client has a signal, or it is pending exactly when it has output.
LEMMA PostIs ==
  ASSUME topt \in TcpOptions, NEW s, Sound(s), NEW i \in Client, s.inst[i].live, Only(s, i),
         NEW t \in multi_process_post_tcp(s, i)
  PROVE  /\ Sound(t) /\ Only(t, i) /\ PostKept(s.inst[i], t.inst[i])
         /\ t.inst[i].sig \/ Pended(t, i)
<1>1. CASE s.inst[i].sig
  BY <1>1 DEF multi_process_post_tcp, PostKept, SameInput
<1>2. CASE ~s.inst[i].sig
  <2>1. PICK u \in PreSelect(s, i) : t = Settle(u, i)
    BY <1>2 DEF multi_process_post_tcp
  <2>2. Sound(u) /\ Only(u, i) /\ PostKept(s.inst[i], u.inst[i])
    BY <1>2, PreSelectIs
  <2>3. CASE u.inst[i].sig
    BY <2>1, <2>2, <2>3 DEF Settle
  <2>4. CASE ~u.inst[i].sig
    <3>1. PICK p : p = IF AnyOut(u, i) THEN i ELSE NIL
      OBVIOUS
    <3>2. t = [u EXCEPT !.pending = p]
      BY <2>1, <2>4, <3>1 DEF Settle, multi_set_pending_tcp
    <3>3. u \in TcpStates /\ p \in {NIL, i} /\ i \in LiveTcp(u) /\ NIL \notin Client
      BY <2>2, <3>1, TcpConstants DEF Sound, LiveTcp, PostKept
    <3>4. /\ t \in TcpStates /\ t.inst = u.inst /\ t.pending = p /\ t.mbuf = u.mbuf /\ t.wakeup = u.wakeup
          /\ t.esr = u.esr /\ t.overtaken = u.overtaken /\ t.abort = u.abort
      BY <3>2, <3>3 DEF TcpStates
    <3>5. LiveTcp(t) = LiveTcp(u) /\ AnyOut(t, i) = AnyOut(u, i)
      BY <3>4 DEF LiveTcp, AnyOut, TunOut, LinkOut
    <3>6. Sound(t)
      BY <2>2, <3>3, <3>4, <3>5 DEF Sound
    <3>7. Only(t, i) /\ Pended(t, i)
      BY <2>2, <3>1, <3>3, <3>4, <3>5 DEF Only, Pended
    <3> QED
      BY <2>2, <3>4, <3>6, <3>7
  <2> QED
    BY <2>3, <2>4
<1> QED
  BY <1>1, <1>2

-----------------------------------------------------------------------------
(* The broadcast queue.                                                      *)

LEMMA Smallest ==
  ASSUME NEW S \in SUBSET Nat, S # {}
  PROVE  \E m \in S : \A y \in S : m <= y
<1> DEFINE R == OpToRel(<, Nat)
<1>1. R = {ss \in Nat \X Nat : ss[1] < ss[2]}
  BY Zenon DEF OpToRel
<1>2. IsWellFoundedOn(R, Nat)
  BY NatLessThanWellFounded, Zenon
<1> HIDE DEF R
<1>3. PICK x \in S : \A y \in S : ~(<<y, x>> \in R)
  BY <1>2, WFMin
<1>4. ASSUME NEW y \in S PROVE x <= y
  <2>1. <<y, x>> \in Nat \X Nat /\ <<y, x>>[1] = y /\ <<y, x>>[2] = x
    OBVIOUS
  <2>2. ~(y < x)
    BY <1>1, <1>3, <2>1
  <2> QED
    BY <2>2
<1> QED
  BY <1>4

LEMMA FirstIs ==
  ASSUME NEW q \in Seq(Client \cup {NIL}), Peeked(q) # NIL
  PROVE  First(q) \in 1 .. Len(q) /\ Peeked(q) = q[First(q)]
<1>1. DOMAIN q = 1 .. Len(q) /\ Len(q) \in Nat
  OBVIOUS
<1>2. Peeked(q) = q[First(q)] /\ ~(ToSet(q) \subseteq {NIL})
  BY DEF Peeked
<1> DEFINE S == {n \in 1 .. Len(q) : q[n] # NIL}
<1>3. S # {} /\ S \in SUBSET Nat
  BY <1>1, <1>2 DEF ToSet
<1>4. PICK m \in S : \A y \in S : m <= y
  BY <1>3, Smallest
<1>5. m \in DOMAIN q /\ q[m] # NIL /\ \A k \in 1 .. m - 1 : q[k] = NIL
  BY <1>1, <1>4
<1>6. First(q) \in DOMAIN q
  BY <1>5 DEF First
<1> QED
  BY <1>1, <1>2, <1>6

LEMMA PeekedIs ==
  ASSUME NEW q \in Seq(Client \cup {NIL})
  PROVE  /\ Extracted(q) \in Seq(Client \cup {NIL})
         /\ Len(q) > 0 => Len(Extracted(q)) < Len(q)
         /\ Len(q) = 0 => Peeked(q) = NIL
         /\ Len(Extracted(q)) <= Len(q)
         /\ \A n \in 1 .. Len(Extracted(q)) : \E k \in 1 .. Len(q) : Extracted(q)[n] = q[k]
         /\ Peeked(q) # NIL => \E k \in 1 .. Len(q) : Peeked(q) = q[k]
<1>1. DOMAIN q = 1 .. Len(q) /\ Len(q) \in Nat
  OBVIOUS
<1>2. CASE Peeked(q) = NIL
  <2>1. Extracted(q) = <<>> /\ Len(Extracted(q)) = 0
    BY <1>2 DEF Extracted
  <2> QED
    BY <1>1, <1>2, <2>1
<1>3. CASE Peeked(q) # NIL
  <2>1. First(q) \in 1 .. Len(q) /\ Peeked(q) = q[First(q)]
    BY <1>3, FirstIs
  <2>2. PICK m : m = First(q)
    OBVIOUS
  <2>3. PICK e : e = SubSeq(q, m + 1, Len(q))
    OBVIOUS
  <2>8. PICK l : l = Len(q)
    OBVIOUS
  <2>4. m + 1 \in Int /\ l \in Nat /\ m \in 1 .. l /\ \A k \in m + 1 .. l : q[k] \in Client \cup {NIL}
    BY <1>1, <2>1, <2>2, <2>8
  <2>5. /\ e \in Seq(Client \cup {NIL}) /\ Len(e) = (IF m + 1 <= l THEN l - (m + 1) + 1 ELSE 0)
        /\ \A k \in 1 .. l - (m + 1) + 1 : e[k] = q[m + 1 + k - 1]
    BY <2>3, <2>4, <2>8, SubSeqProperties
  <2>6. Len(e) = l - m
    BY <2>4, <2>5
  <2>7. ASSUME NEW n \in 1 .. Len(e)
        PROVE  \E k \in 1 .. l : e[n] = q[k]
    <3>1. n \in 1 .. l - (m + 1) + 1 /\ m + 1 + n - 1 \in 1 .. l
      BY <2>4, <2>6
    <3> QED
      BY <2>5, <3>1
  <2>9. Extracted(q) = e
    BY <1>3, <2>2, <2>3 DEF Extracted
  <2>10. Len(e) < l /\ l > 0 /\ Len(e) <= l
    BY <2>4, <2>6
  <2>11. m \in 1 .. l /\ Peeked(q) = q[m]
    BY <2>1, <2>2, <2>8
  <2> QED
    BY <2>5, <2>7, <2>8, <2>9, <2>10, <2>11
<1> QED
  BY <1>2, <1>3

\* Packets may have been added to the broadcast queue, and nothing else has changed.
IsAdded(s, t) ==
  /\ Sound(t) /\ t.inst = s.inst /\ t.pending = s.pending /\ t.wakeup = s.wakeup /\ t.esr = s.esr
  /\ t.overtaken = s.overtaken

LEMMA AddIs ==
  ASSUME topt \in TcpOptions, ~Limited, NEW s, Sound(s), NEW i \in LiveTcp(s)
  PROVE  IsAdded(s, multi_add_mbuf(s, i))
<1>1. CASE ~multi_output_queue_ready(s, i)
  BY <1>1 DEF multi_add_mbuf, IsAdded
<1>2. CASE multi_output_queue_ready(s, i)
  <2>2. PICK q : q = IF Len(s.mbuf) = topt.n_bcast_buf THEN Extracted(s.mbuf) ELSE s.mbuf
    OBVIOUS
  <2>3. PICK u : u = [s EXCEPT !.mbuf = Append(q, i)]
    OBVIOUS
  <2>4. PICK t : t = multi_add_mbuf(s, i)
    OBVIOUS
  <2>5. t = Asserted(u, Len(s.mbuf) = topt.n_bcast_buf => Peeked(s.mbuf) # NIL, "mbuf")
    BY <1>2, <2>2, <2>3, <2>4 DEF multi_add_mbuf, mbuf_add_item_tcp
  <2>6. s \in TcpStates /\ s.mbuf \in Seq(Client \cup {NIL}) /\ i \in Client \cup {NIL} /\ topt.n_bcast_buf \in Nat \ {0}
        /\ Len(s.mbuf) <= topt.n_bcast_buf /\ Len(s.mbuf) \in Nat
    BY StateFields, TcpConstants DEF Sound, LiveTcp
  <2>7. /\ q \in Seq(Client \cup {NIL}) /\ Len(q) < topt.n_bcast_buf
        /\ \A n \in 1 .. Len(q) : \E k \in 1 .. Len(s.mbuf) : q[n] = s.mbuf[k]
    <3>1. CASE Len(s.mbuf) = topt.n_bcast_buf
      <4>1. q = Extracted(s.mbuf) /\ Len(s.mbuf) = topt.n_bcast_buf /\ Len(s.mbuf) > 0
        BY <2>2, <2>6, <3>1
      <4>2. /\ q \in Seq(Client \cup {NIL}) /\ Len(q) < Len(s.mbuf)
            /\ \A n \in 1 .. Len(q) : \E k \in 1 .. Len(s.mbuf) : q[n] = s.mbuf[k]
        BY <2>6, <4>1, PeekedIs
      <4> QED
        BY <4>1, <4>2
    <3>2. CASE Len(s.mbuf) # topt.n_bcast_buf
      <4>1. q = s.mbuf /\ Len(s.mbuf) # topt.n_bcast_buf
        BY <2>2, <3>2
      <4> QED
        BY <2>6, <4>1
    <3> QED
      BY <3>1, <3>2
  <2>8. PICK w : w = Append(q, i)
    OBVIOUS
  <2>9. /\ w \in Seq(Client \cup {NIL}) /\ Len(w) = Len(q) + 1 /\ Len(w) <= topt.n_bcast_buf
        /\ \A n \in 1 .. Len(w) : w[n] = i \/ \E k \in 1 .. Len(s.mbuf) : w[n] = s.mbuf[k]
    BY <2>6, <2>7, <2>8, AppendProperties
  <2>10. /\ u \in TcpStates /\ u.inst = s.inst /\ u.pending = s.pending /\ u.mbuf = w /\ u.wakeup = s.wakeup
         /\ u.esr = s.esr /\ u.overtaken = s.overtaken /\ u.abort = s.abort
    BY <2>3, <2>6, <2>8, <2>9 DEF TcpStates
  <2>11. /\ t \in TcpStates /\ t.inst = s.inst /\ t.pending = s.pending /\ t.mbuf = w /\ t.wakeup = s.wakeup
         /\ t.esr = s.esr /\ t.overtaken = s.overtaken
    BY <2>5, <2>10 DEF Asserted, TcpStates
  <2>12. LiveTcp(t) = LiveTcp(s)
    BY <2>11 DEF LiveTcp
  <2>13. \A n \in 1 .. Len(w) : w[n] \in LiveTcp(s) \cup {NIL}
    BY <2>9 DEF Sound
  <2>14. Sound(t)
    BY <2>9, <2>11, <2>12, <2>13 DEF Sound
  <2> QED
    BY <2>4, <2>11, <2>14 DEF IsAdded
<1> QED
  BY <1>1, <1>2

\* The queue while a broadcast reaches one client after the other, in the order q, up to the n-th.
IsAdding(s, q, n, g) == g = [m \in 0 .. n |-> IF m = 0 THEN s ELSE multi_add_mbuf(g[m - 1], q[m])]

LEMMA AddingExists ==
  ASSUME NEW s, NEW q, NEW n \in Nat
  PROVE  \E g : IsAdding(s, q, n, g)
<1> DEFINE B == {m \in Nat : ~\E g : IsAdding(s, q, m, g)}
<1>1. SUFFICES ASSUME B # {} PROVE FALSE
  OBVIOUS
<1>2. PICK b \in B : \A y \in B : b <= y
  BY <1>1, Smallest
<1>3. b \in Nat /\ (b # 0 => b - 1 \in Nat /\ b - 1 \notin B)
  BY <1>2
<1>4. CASE b = 0
  <2>1. PICK g : g = [m \in 0 .. 0 |-> s]
    OBVIOUS
  <2>2. g = [m \in 0 .. 0 |-> IF m = 0 THEN s ELSE multi_add_mbuf(g[m - 1], q[m])]
    BY <2>1
  <2> QED
    BY <1>2, <1>4, <2>2 DEF IsAdding
<1>5. CASE b # 0
  <2>1. PICK g : IsAdding(s, q, b - 1, g)
    BY <1>3, <1>5
  <2>2. \A m \in 0 .. b - 1 : g[m] = IF m = 0 THEN s ELSE multi_add_mbuf(g[m - 1], q[m])
    BY <2>1 DEF IsAdding
  <2>3. PICK h : h = [m \in 0 .. b |-> IF m = b THEN multi_add_mbuf(g[b - 1], q[b]) ELSE g[m]]
    OBVIOUS
  <2>4. \A m \in 0 .. b - 1 : h[m] = g[m]
    BY <1>3, <2>3
  <2>5. ASSUME NEW m \in 0 .. b
        PROVE  (IF m = b THEN multi_add_mbuf(g[b - 1], q[b]) ELSE g[m]) = IF m = 0 THEN s ELSE multi_add_mbuf(h[m - 1], q[m])
    <3>1. CASE m = b
      BY <1>3, <1>5, <2>4, <3>1
    <3>2. CASE m # b /\ m = 0
      BY <1>3, <1>5, <2>2, <3>2
    <3>3. CASE m # b /\ m # 0
      <4>1. m \in 0 .. b - 1 /\ m - 1 \in 0 .. b - 1
        BY <1>3, <3>3
      <4> QED
        BY <2>2, <2>4, <3>3, <4>1
    <3> QED
      BY <3>1, <3>2, <3>3
  <2>6. h = [m \in 0 .. b |-> IF m = 0 THEN s ELSE multi_add_mbuf(h[m - 1], q[m])]
    BY <2>3, <2>5
  <2> QED
    BY <1>2, <2>6 DEF IsAdding
<1> QED
  BY <1>4, <1>5

LEMMA AddingIs ==
  ASSUME topt \in TcpOptions, ~Limited, NEW s, Sound(s), NEW n \in Nat, NEW q, \A m \in 1 .. n : q[m] \in LiveTcp(s),
         NEW g, IsAdding(s, q, n, g)
  PROVE  IsAdded(s, g[n])
<1>1. \A m \in 0 .. n : g[m] = IF m = 0 THEN s ELSE multi_add_mbuf(g[m - 1], q[m])
  BY DEF IsAdding
<1> DEFINE B == {m \in 0 .. n : ~IsAdded(s, g[m])}
<1>2. SUFFICES ASSUME B # {} PROVE FALSE
  OBVIOUS
<1>6. B \in SUBSET Nat
  OBVIOUS
<1>3. PICK b \in B : \A y \in B : b <= y
  BY <1>2, <1>6, Smallest
<1>4. CASE b = 0
  <2>1. g[b] = s
    BY <1>1, <1>4
  <2> QED
    BY <1>3, <2>1 DEF IsAdded
<1>5. CASE b # 0
  <2>1. b - 1 \in 0 .. n /\ b \in 1 .. n /\ b - 1 \notin B
    BY <1>3, <1>5
  <2>2. PICK t : t = g[b - 1]
    OBVIOUS
  <2>3. IsAdded(s, t) /\ g[b] = multi_add_mbuf(t, q[b])
    BY <1>1, <1>5, <2>1, <2>2
  <2>4. Sound(t) /\ q[b] \in LiveTcp(t)
    BY <2>1, <2>3 DEF IsAdded, LiveTcp
  <2>5. IsAdded(t, g[b])
    BY <2>3, <2>4, AddIs
  <2> QED
    BY <1>3, <2>3, <2>5 DEF IsAdded
<1> QED
  BY <1>4, <1>5

LEMMA BcastIs ==
  ASSUME topt \in TcpOptions, ~Limited, NEW s, Sound(s), NEW omit, NEW t \in multi_bcast_tcp(s, omit)
  PROVE  IsAdded(s, t)
<1> DEFINE S == {i \in LiveTcp(s) \ {omit} : s.inst[i].est}
           A(q) == CHOOSE g : g = [n \in 0 .. Len(q) |-> IF n = 0 THEN s ELSE multi_add_mbuf(g[n - 1], q[n])]
<1>1. PICK q \in SetToSeqs(S) : t = A(q)[Len(q)]
  BY DEF multi_bcast_tcp
<1>2. Cardinality(S) \in Nat
  <2>1. S \in SUBSET Client
    BY DEF LiveTcp
  <2> HIDE DEF S
  <2>2. IsFiniteSet(S)
    BY <2>1, MultiTcpAssumption, FS_Subset
  <2> QED
    BY <2>2, FS_CardinalityType
<1>3. q \in [1 .. Cardinality(S) -> S]
  BY DEF SetToSeqs
<1>4. Len(q) \in Nat /\ \A m \in 1 .. Len(q) : q[m] \in LiveTcp(s)
  <2>1. S \subseteq LiveTcp(s)
    OBVIOUS
  <2> HIDE DEF S
  <2>2. q \in Seq(S) /\ Len(q) = Cardinality(S)
    BY <1>2, <1>3
  <2> QED
    BY <1>2, <1>3, <2>1, <2>2
<1>5. \E g : IsAdding(s, q, Len(q), g)
  BY <1>4, AddingExists
<1>6. IsAdding(s, q, Len(q), A(q))
  BY <1>5 DEF IsAdding
<1> HIDE DEF A
<1> QED
  BY <1>1, <1>4, <1>6, AddingIs

-----------------------------------------------------------------------------
(* The handlers.                                                             *)

\* What a handler that runs for mi leaves behind: only the client it touched can have work left; without a signal
\* that client is pending if it has output.
Done(o, mi) ==
  /\ Sound(o.s) /\ Only(o.s, o.touched) /\ mi \in {NIL, o.touched}
  /\ \/ o.touched = NIL
     \/ /\ o.touched \in LiveTcp(o.s)
        /\ \/ o.s.inst[o.touched].sig
           \/ /\ Pended(o.s, o.touched) /\ Looked(o.s.inst[o.touched])
              /\ mi = NIL => Still(o.s.inst[o.touched])

LEMMA PostTouchingIs ==
  ASSUME topt \in TcpOptions, NEW s, Sound(s), NEW i \in LiveTcp(s), Only(s, i), NEW o \in PostTouching(s, i)
  PROVE  /\ o.touched = i /\ Sound(o.s) /\ Only(o.s, i) /\ i \in LiveTcp(o.s) /\ PostKept(s.inst[i], o.s.inst[i])
         /\ o.s.inst[i].sig \/ Pended(o.s, i)
<1>1. PICK t \in multi_process_post_tcp(s, i) : o = [s |-> t, touched |-> i]
  BY DEF PostTouching, Touching
<1>2. i \in Client /\ s.inst[i].live
  BY DEF LiveTcp
<1>3. /\ Sound(t) /\ Only(t, i) /\ PostKept(s.inst[i], t.inst[i])
      /\ t.inst[i].sig \/ Pended(t, i)
  BY <1>2, PostIs
<1>4. i \in LiveTcp(t)
  BY <1>2, <1>3 DEF PostKept, LiveTcp
<1>5. o.s = t /\ o.touched = i
  BY <1>1
<1> QED
  BY <1>3, <1>4, <1>5

LEMMA PostTouchingDone ==
  ASSUME topt \in TcpOptions, NEW s, Sound(s), NEW i \in LiveTcp(s), Only(s, i), NEW o \in PostTouching(s, i),
         Looked(s.inst[i]), NEW mi \in {NIL, i}, mi = NIL => Still(s.inst[i])
  PROVE  Done(o, mi)
<1>1. /\ o.touched = i /\ Sound(o.s) /\ Only(o.s, i) /\ i \in LiveTcp(o.s) /\ PostKept(s.inst[i], o.s.inst[i])
      /\ o.s.inst[i].sig \/ Pended(o.s, i)
  BY PostTouchingIs
<1>2. Looked(o.s.inst[i]) /\ (mi = NIL => Still(o.s.inst[i]))
  BY <1>1 DEF PostKept, SameInput, Looked, Still
<1> QED
  BY <1>1, <1>2 DEF Done

\* Without a touched client all of them rest.
LEMMA OnlyNil ==
  ASSUME topt \in TcpOptions, NEW s, Only(s, NIL)
  PROVE  s.pending = NIL /\ \A j \in Client : Resting(s.inst[j]) /\ Only(s, j)
<1>1. NIL \notin Client
  BY TcpConstants
<1> QED
  BY <1>1 DEF Only

LEMMA RestingLooked ==
  ASSUME NEW x, Resting(x)
  PROVE  Looked(x) /\ Still(x)
BY DEF Resting, Still, Looked

\* A touched client that rests.
LEMMA TouchedResting ==
  ASSUME topt \in TcpOptions, NEW s, Sound(s), NEW i \in LiveTcp(s), Only(s, NIL), NEW o, o = [s |-> s, touched |-> i]
  PROVE  Done(o, i)
<1>1. s.pending = NIL /\ Resting(s.inst[i]) /\ Only(s, i) /\ i \in Client
  BY OnlyNil DEF LiveTcp
<1>2. Pended(s, i) /\ Looked(s.inst[i]) /\ i # NIL
  BY <1>1, RestingLooked, TcpConstants DEF Pended, AnyOut, TunOut, LinkOut, Resting
<1>3. o.s = s /\ o.touched = i
  OBVIOUS
<1> QED
  BY <1>1, <1>2, <1>3 DEF Done

LEMMA AddedOnly ==
  ASSUME NEW s, NEW t, IsAdded(s, t), NEW i
  PROVE  /\ Only(s, i) => Only(t, i)
         /\ LiveTcp(t) = LiveTcp(s)
BY DEF IsAdded, Only, LiveTcp

\* A handler of tun input.
LEMMA TunReadDone ==
  ASSUME topt \in TcpOptions, NEW s, Sound(s), Only(s, NIL), NEW o \in TunRead(s, NIL)
  PROVE  Done(o, NIL)
<1>0. s.pending = NIL /\ \A j \in Client : Resting(s.inst[j]) /\ Only(s, j)
  BY OnlyNil
<1>1. CASE o \in Touching({s} \cup (IF topt.bcast THEN multi_bcast_tcp(s, NIL) ELSE {}), NIL)
  <2>1. PICK t \in {s} \cup (IF topt.bcast THEN multi_bcast_tcp(s, NIL) ELSE {}) : o = [s |-> t, touched |-> NIL]
    BY <1>1 DEF Touching
  <2>2. o.s = t /\ o.touched = NIL
    BY <2>1
  <2>3. CASE t = s
    BY <2>2, <2>3 DEF Done
  <2>4. CASE topt.bcast /\ t \in multi_bcast_tcp(s, NIL)
    <3>1. IsAdded(s, t)
      BY <2>4, BcastIs DEF Limited
    <3>2. Sound(t) /\ Only(t, NIL)
      BY <3>1, AddedOnly DEF IsAdded
    <3> QED
      BY <2>2, <3>2 DEF Done
  <2> QED
    BY <2>1, <2>3, <2>4
<1>2. CASE \E j \in {j \in LiveTcp(s) : s.inst[j].est} :
             o \in PostTouching(IF multi_output_queue_ready(s, j) THEN encrypt_sign(s, j)
                                ELSE [s EXCEPT !.inst[j].link = 0], j)
  <2>1. PICK j \in LiveTcp(s) :
             o \in PostTouching(IF multi_output_queue_ready(s, j) THEN encrypt_sign(s, j)
                                ELSE [s EXCEPT !.inst[j].link = 0], j)
    BY <1>2
  <2>2. PICK x : x = s.inst[j]
    OBVIOUS
  <2>3. j \in Client /\ Resting(x) /\ Only(s, j) /\ ClientSound(x) /\ x \in TcpClients /\ x.live /\ x.link = 0 /\ s \in TcpStates
    BY <1>0, <2>2 DEF LiveTcp, Sound, ClientSound, Resting
  <2>4. PICK t : t = IF multi_output_queue_ready(s, j) THEN encrypt_sign(s, j) ELSE [s EXCEPT !.inst[j].link = 0]
    OBVIOUS
  <2>5. \E y : /\ t = PutInst(s, j, y) /\ ClientSound(y) /\ y.live = x.live /\ SameInput(x, y)
               /\ y.deferred = x.deferred /\ y.rw = x.rw
    <3>1. CASE multi_output_queue_ready(s, j)
      <4>1. PICK y : Encrypted(x, y) /\ encrypt_sign(s, j) = PutInst(s, j, y)
        BY <2>2, <2>3, EncryptIs
      <4>2. Len(x.deferred) <= QueueLimit
        BY <2>2, <3>1 DEF multi_output_queue_ready
      <4>3. ClientSound(y)
        BY <2>3, <4>1, <4>2, EncryptedSound
      <4> QED
        BY <2>4, <3>1, <4>1, <4>3 DEF Encrypted
    <3>2. CASE ~multi_output_queue_ready(s, j)
      <4>1. PICK y : y = [x EXCEPT !.link = 0]
        OBVIOUS
      <4>2. y = x
        BY <2>3, <4>1 DEF TcpClients
      <4>3. t = PutInst(s, j, y)
        BY <2>2, <2>4, <3>2, <4>1 DEF PutInst
      <4> QED
        BY <2>3, <4>2, <4>3 DEF SameInput
    <3> QED
      BY <3>1, <3>2
  <2>6. PICK y : /\ t = PutInst(s, j, y) /\ ClientSound(y) /\ y.live = x.live /\ SameInput(x, y)
                 /\ y.deferred = x.deferred /\ y.rw = x.rw
    BY <2>5
  <2>7. y \in TcpClients
    BY <2>6 DEF ClientSound
  <2>8. Sound(t) /\ LiveTcp(t) = LiveTcp(s) /\ Only(t, j) /\ t.inst[j] = y
    <3>1. Sound(t) /\ LiveTcp(t) = LiveTcp(s) /\ IsPut(s, j, y, t)
      BY <2>2, <2>3, <2>6, PutInstSound
    <3>2. Only(t, j)
      BY <2>3, <2>6, <2>7, PutInstOnly
    <3> QED
      BY <3>1, <3>2 DEF IsPut
  <2>9. Looked(y) /\ Still(y)
    BY <2>3, <2>6, RestingLooked DEF Looked, Still, SameInput
  <2> QED
    BY <2>1, <2>4, <2>8, <2>9, PostTouchingDone
<1> QED
  BY <1>1, <1>2 DEF TunRead

\* A timeout: the client whose turn it is may have something to do.
LEMMA TimeoutDone ==
  ASSUME topt \in TcpOptions, NEW s, Sound(s), Only(s, NIL), NEW o \in TimeoutTcp(s, NIL)
  PROVE  Done(o, NIL)
<1>0. s.pending = NIL /\ \A j \in Client : Resting(s.inst[j]) /\ Only(s, j)
  BY OnlyNil
<1>1. CASE s.wakeup = NIL
  <2>1. o = [s |-> s, touched |-> NIL]
    BY <1>1 DEF TimeoutTcp, Touching
  <2>2. o.s = s /\ o.touched = NIL
    BY <2>1
  <2> QED
    BY <2>2 DEF Done
<1>2. CASE s.wakeup # NIL
  <2>1. PICK i : i = s.wakeup
    OBVIOUS
  <2>2. PICK p \in PostTouching(s, i) : o = [p EXCEPT !.s.wakeup = NIL]
    BY <1>2, <2>1 DEF TimeoutTcp
  <2>3. i \in LiveTcp(s) /\ i \in Client
    BY <1>2, <2>1 DEF Sound, LiveTcp
  <2>4. Done(p, NIL)
    BY <1>0, <2>3, RestingLooked, PostTouchingDone
  <2>5. \E t : p = [s |-> t, touched |-> i]
    BY DEF PostTouching, Touching
  <2>6. PICK t : p = [s |-> t, touched |-> i]
    BY <2>5
  <2>7. PICK u : u = [t EXCEPT !.wakeup = NIL]
    OBVIOUS
  <2>8. o.s = u /\ o.touched = i /\ p.s = t /\ p.touched = i
    BY <2>2, <2>6, <2>7
  <2>9. t \in TcpStates
    BY <2>4, <2>8 DEF Done, Sound
  <2>10. /\ u \in TcpStates /\ u.inst = t.inst /\ u.pending = t.pending /\ u.mbuf = t.mbuf /\ u.wakeup = NIL
         /\ u.esr = t.esr /\ u.overtaken = t.overtaken
    BY <2>7, <2>9 DEF TcpStates
  <2>11. LiveTcp(u) = LiveTcp(t)
    BY <2>10 DEF LiveTcp
  <2>12. Sound(u)
    BY <2>4, <2>8, <2>10, <2>11 DEF Done, Sound
  <2> QED
    BY <2>4, <2>8, <2>10, <2>11, <2>12 DEF Done, Only, Pended, AnyOut, TunOut, LinkOut
<1> QED
  BY <1>1, <1>2

\* A new record for the client i that a handler runs for.
LEMMA PutInstHere ==
  ASSUME NEW s, Sound(s), NEW i \in LiveTcp(s), Only(s, i), NEW y, ClientSound(y), y.live, NEW t, t = PutInst(s, i, y)
  PROVE  /\ Sound(t) /\ i \in LiveTcp(t) /\ Only(t, i) /\ t.inst[i] = y /\ t.pending = s.pending /\ t.mbuf = s.mbuf
<1>1. i \in Client /\ s \in TcpStates /\ y \in TcpClients /\ s.inst[i].live /\ s.inst[i].live \in BOOLEAN
  BY StateFields, ClientFields DEF LiveTcp, Sound, ClientSound
<1>2. y.live = s.inst[i].live
  BY <1>1, ClientFields
<1>3. Sound(t) /\ LiveTcp(t) = LiveTcp(s) /\ IsPut(s, i, y, t)
  BY <1>1, <1>2, PutInstSound
<1>4. Only(t, i)
  BY <1>1, PutInstOnly
<1> QED
  BY <1>3, <1>4 DEF IsPut

\* to_tun is written or dropped.
LEMMA TunWriteDone ==
  ASSUME topt \in TcpOptions, NEW s, Sound(s), NEW i \in LiveTcp(s), Only(s, i), s.pending = i, Looked(s.inst[i]),
         NEW o \in TunWrite(s, i)
  PROVE  Done(o, i)
<1>0. PICK x : x = s.inst[i]
  OBVIOUS
<1>1. i \in Client /\ ClientSound(x) /\ x \in TcpClients /\ x.live /\ FALSE \in BOOLEAN
  BY <1>0 DEF LiveTcp, Sound, ClientSound
<1>2. PICK y : y = [x EXCEPT !.tun = FALSE]
  OBVIOUS
<1>3. PICK t : t = PutInst(s, i, y)
  OBVIOUS
<1>4. o \in PostTouching(t, i)
  BY <1>0, <1>2, <1>3 DEF TunWrite, PutInst
<1>5. y \in TcpClients /\ SamePackets(x, y) /\ SameInput(x, y)
  BY <1>1, <1>2, PutTun
<1>6. ClientSound(y) /\ y.live
  BY <1>1, <1>5, SamePacketsSound DEF SamePackets
<1>7. Sound(t) /\ i \in LiveTcp(t) /\ Only(t, i) /\ t.inst[i] = y
  BY <1>3, <1>6, PutInstHere
<1>8. Looked(y)
  BY <1>0, <1>5 DEF Looked, SameInput
<1>9. i # NIL
  BY <1>1, TcpConstants
<1> QED
  BY <1>4, <1>7, <1>8, <1>9, PostTouchingDone

\* Which events a client is registered for.
LEMMA SetRwIs ==
  ASSUME topt \in TcpOptions, NEW s, Sound(s), NEW i \in LiveTcp(s), Only(s, i), s.inst[i].res = 0,
         NEW t, t = multi_tcp_set_global_rw_flags(s, i)
  PROVE  /\ Sound(t) /\ i \in LiveTcp(t) /\ Only(t, i) /\ t.pending = s.pending
         /\ \E y : /\ y = t.inst[i] /\ SamePackets(s.inst[i], y) /\ SameInput(s.inst[i], y)
                   /\ y.sig = s.inst[i].sig /\ y.tun = s.inst[i].tun
                   /\ y.rw = IF y.deferred # <<>> THEN "WRITE" ELSE "READ"
<1>0. PICK x : x = s.inst[i]
  OBVIOUS
<1>1. i \in Client /\ ClientSound(x) /\ x \in TcpClients /\ x.live /\ i # NIL
  BY <1>0, TcpConstants DEF LiveTcp, Sound, ClientSound
<1>2. PICK v : v = IF x.deferred # <<>> THEN "WRITE" ELSE "READ"
  OBVIOUS
<1>3. PICK y : y = [x EXCEPT !.rw = v]
  OBVIOUS
<1>4. t = PutInst(s, i, y)
  <2>1. CASE x.deferred # <<>>
    BY <1>0, <1>1, <1>2, <1>3, <2>1 DEF multi_tcp_set_global_rw_flags, PutInst
  <2>2. CASE x.deferred = <<>>
    <3>1. t = Asserted([s EXCEPT !.inst[i].rw = "READ"], s.inst[i].res = 0, "residual")
      BY <1>0, <1>1, <2>2 DEF multi_tcp_set_global_rw_flags
    <3>2. t = [s EXCEPT !.inst[i].rw = "READ"]
      BY <3>1 DEF Asserted
    <3> QED
      BY <1>0, <1>2, <1>3, <2>2, <3>2 DEF PutInst
  <2> QED
    BY <2>1, <2>2
<1>5. v \in {"none", "READ", "WRITE"}
  BY <1>2
<1>6. y \in TcpClients /\ SamePackets(x, y) /\ SameInput(x, y) /\ y.sig = x.sig /\ y.tun = x.tun /\ y.rw = v
  BY <1>1, <1>3, <1>5, PutRw
<1>7. ClientSound(y) /\ y.live
  BY <1>1, <1>6, SamePacketsSound DEF SamePackets
<1>8. Sound(t) /\ i \in LiveTcp(t) /\ Only(t, i) /\ t.inst[i] = y /\ t.pending = s.pending
  BY <1>4, <1>7, PutInstHere
<1>9. y.rw = IF y.deferred # <<>> THEN "WRITE" ELSE "READ"
  BY <1>2, <1>6 DEF SamePackets
<1> QED
  BY <1>0, <1>6, <1>8, <1>9

\* The first pass for a new client.
LEMMA InitialDone ==
  ASSUME topt \in TcpOptions, NEW s, Sound(s), NEW i \in LiveTcp(s), Only(s, i), Looked(s.inst[i]), ~s.inst[i].formed,
         NEW o \in Initial(s, i)
  PROVE  Done(o, i)
<1>1. i \in Client /\ s.inst[i].res = 0 /\ i # NIL
  <2>1. i \in Client /\ s.inst[i].res \in 0 .. 1 /\ ~(s.inst[i].res > 0)
    BY StateFields, ClientFields DEF LiveTcp, Sound, Looked
  <2> QED
    BY <2>1, TcpConstants
<1>2. PICK t : t = multi_tcp_set_global_rw_flags(s, i)
  OBVIOUS
<1>3. Sound(t) /\ i \in LiveTcp(t) /\ Only(t, i) /\ SameInput(s.inst[i], t.inst[i])
  BY <1>1, <1>2, SetRwIs
<1>4. Looked(t.inst[i])
  BY <1>3 DEF Looked, SameInput
<1>5. o \in PostTouching(t, i)
  BY <1>2 DEF Initial
<1> QED
  BY <1>1, <1>3, <1>4, <1>5, PostTouchingDone

-----------------------------------------------------------------------------
(* Output to a client's socket.                                              *)

LEMMA RankedSound ==
  ASSUME topt \in TcpOptions, NEW x \in TcpClients, x.live, NEW k \in Nat, x.link = 0,
         \A n \in 1 .. Len(x.deferred) : x.deferred[n] = n + k,
         Len(x.deferred) <= topt.n_bcast_buf, Limited => Len(x.deferred) <= QueueLimit + 1 + x.ctl,
         NEW y, y = Ranked2(x)
  PROVE  ClientSound(y) /\ y.live /\ SameInput(x, y)
<1>1. /\ y \in TcpClients /\ y.link = 0 /\ Len(y.deferred) = Len(x.deferred)
      /\ \A n \in 1 .. Len(y.deferred) : y.deferred[n] = n
      /\ y.ctl = (IF Len(x.deferred) = 0 THEN 0 ELSE x.ctl) /\ y.live = x.live /\ SameInput(x, y)
  BY Ranked2Is
<1>2. Len(x.deferred) \in Nat /\ x.ctl \in Nat /\ QueueLimit \in Nat
  BY ClientFields, TcpConstants
<1>3. Limited => Len(y.deferred) + (IF y.link = 0 THEN 0 ELSE 1) <= QueueLimit + 1 + y.ctl
  BY <1>1, <1>2
<1>4. PacketsOK(y)
  BY <1>1, <1>3 DEF PacketsOK
<1> QED
  BY <1>1, <1>4 DEF ClientSound

\* The packet in to_link is sent, and none of the deferred ones is older.
LEMMA TransmitIs ==
  ASSUME NEW s \in TcpStates, ~s.overtaken, NEW i \in Client, NEW x, x = s.inst[i],
         \A q \in ToSet(x.deferred) : ~(q < x.link), NEW z, z = [x EXCEPT !.link = 0]
  PROVE  Transmit(s, i) = PutInst(s, i, Ranked2(z))
<1>1. s.overtaken = FALSE
  BY StateFields
<1>2. (s.overtaken \/ \E q \in ToSet(s.inst[i].deferred) : q < s.inst[i].link) = FALSE
  BY <1>1
<1>3. Transmit(s, i) = [s EXCEPT !.inst[i] = Ranked2(z), !.overtaken = FALSE]
  BY <1>2 DEF Transmit
<1>4. PICK y : y = Ranked2(z)
  OBVIOUS
<1>5. [s EXCEPT !.inst[i] = y, !.overtaken = FALSE] = [s EXCEPT !.inst[i] = y]
  BY <1>1 DEF TcpStates
<1> QED
  BY <1>3, <1>4, <1>5 DEF PutInst

LEMMA PutTwice ==
  ASSUME NEW s \in TcpStates, NEW i \in Client, NEW y, NEW z
  PROVE  PutInst(PutInst(s, i, y), i, z) = PutInst(s, i, z)
BY DEF PutInst, TcpStates

\* A packet of a client's own is sent when none is deferred.
LEMMA SendSound ==
  ASSUME topt \in TcpOptions, NEW s, Sound(s), NEW i \in LiveTcp(s), Only(s, i), s.inst[i].deferred = <<>>,
         NEW t, t = Transmit(s, i)
  PROVE  Sound(t) /\ i \in LiveTcp(t) /\ Only(t, i) /\ SameInput(s.inst[i], t.inst[i])
<1>0. PICK x : x = s.inst[i]
  OBVIOUS
<1>1. i \in Client /\ ClientSound(x) /\ x \in TcpClients /\ x.live /\ s \in TcpStates /\ ~s.overtaken /\ 0 \in Nat
  BY <1>0 DEF LiveTcp, Sound, ClientSound
<1>2. PICK z : z = [x EXCEPT !.link = 0]
  OBVIOUS
<1>3. ToSet(x.deferred) = {}
  BY <1>0 DEF ToSet
<1>4. t = PutInst(s, i, Ranked2(z))
  BY <1>0, <1>1, <1>2, <1>3, TransmitIs
<1>5. z \in TcpClients /\ z.link = 0 /\ z.deferred = <<>> /\ z.live /\ SameInput(x, z)
  BY <1>0, <1>1, <1>2, PutLink
<1>6. PICK y : y = Ranked2(z)
  OBVIOUS
<1>7. ClientSound(y) /\ y.live /\ SameInput(z, y)
  <2>1. Len(z.deferred) = 0 /\ z.ctl \in Nat /\ QueueLimit \in Nat /\ topt.n_bcast_buf \in Nat
    BY <1>5, ClientFields, TcpConstants
  <2>2. /\ \A n \in 1 .. Len(z.deferred) : z.deferred[n] = n + 0
        /\ Len(z.deferred) <= topt.n_bcast_buf /\ Len(z.deferred) <= QueueLimit + 1 + z.ctl
    BY <2>1
  <2> QED
    BY <1>1, <1>5, <1>6, <2>2, RankedSound
<1>8. Sound(t) /\ i \in LiveTcp(t) /\ Only(t, i) /\ t.inst[i] = y
  BY <1>4, <1>6, <1>7, PutInstHere
<1> QED
  BY <1>0, <1>5, <1>7, <1>8 DEF SameInput

\* The oldest deferred packet is sent.
LEMMA WriteReadyDone ==
  ASSUME topt \in TcpOptions, NEW s, Sound(s), NEW i \in LiveTcp(s), Only(s, i), s.pending = NIL, Resting(s.inst[i]),
         NEW o \in WriteReady(s, i)
  PROVE  Done(o, i)
<1>0. PICK x : x = s.inst[i]
  OBVIOUS
<1>1. /\ i \in Client /\ ClientSound(x) /\ x \in TcpClients /\ x.live /\ s \in TcpStates /\ ~s.overtaken /\ PacketsOK(x)
      /\ x.deferred \in Seq(Nat) /\ Len(x.deferred) \in Nat /\ x.link = 0 /\ i # NIL
  BY <1>0, ClientFields, TcpConstants DEF LiveTcp, Sound, ClientSound, Resting
<1>2. CASE x.deferred = <<>>
  <2>1. o = [s |-> s, touched |-> i]
    BY <1>0, <1>2 DEF WriteReady, Touching
  <2>2. Only(s, NIL)
    BY <1>1 DEF Only
  <2> QED
    BY <2>1, <2>2, TouchedResting
<1>3. CASE x.deferred # <<>>
  <2>1. PICK d : d = x.deferred
    OBVIOUS
  <2>2. PICK e : e = Tail(d)
    OBVIOUS
  <2>3. PICK x1 : x1 = [x EXCEPT !.link = Head(d)]
    OBVIOUS
  <2>4. PICK x2 : x2 = [x1 EXCEPT !.deferred = e]
    OBVIOUS
  <2>5. PICK u : u = PutInst(s, i, x2)
    OBVIOUS
  <2>6. /\ d \in Seq(Nat) /\ Len(d) \in Nat \ {0} /\ Head(d) = 1 /\ Head(d) \in Nat
        /\ e \in Seq(Nat) /\ Len(e) = Len(d) - 1 /\ \A n \in 1 .. Len(e) : e[n] = n + 1
    <3>1. d \in Seq(Nat) /\ d # <<>> /\ \A n \in 1 .. Len(d) : d[n] = n
      BY <1>1, <1>3, <2>1 DEF PacketsOK
    <3>2. Len(d) \in Nat \ {0} /\ e \in Seq(Nat) /\ Len(e) = Len(d) - 1 /\ Head(d) = d[1] /\ \A n \in 1 .. Len(e) : e[n] = d[n + 1]
      BY <2>2, <3>1
    <3> QED
      BY <3>1, <3>2
  <2>7. x1 \in TcpClients /\ x1.link = 1 /\ x1.deferred = d /\ x1.ctl = x.ctl /\ x1.live = x.live /\ SameInput(x, x1)
    <3>1. x1 = [x EXCEPT !.link = 1] /\ 1 \in Nat
      BY <2>3, <2>6
    <3>2. x \in TcpClients
      BY <1>1
    <3>3. /\ x1 \in TcpClients /\ x1.link = 1 /\ x1.deferred = x.deferred /\ x1.ctl = x.ctl /\ x1.live = x.live
          /\ SameInput(x, x1)
      BY <3>1, <3>2, PutLink
    <3> QED
      BY <2>1, <3>3
  <2>8. x2 \in TcpClients /\ x2.link = 1 /\ x2.deferred = e /\ x2.ctl = x.ctl /\ x2.live = x.live /\ SameInput(x, x2)
    BY <2>4, <2>6, <2>7, PutDeferred DEF SameInput
  <2>9. [s EXCEPT !.inst[i].link = Head(s.inst[i].deferred), !.inst[i].deferred = Tail(@)] = u
    <3>1. s.inst \in [Client -> TcpClients] /\ IsPut(s, i, x1, PutInst(s, i, x1))
      BY <1>1, <2>7, StateFields, PutInstIs
    <3>2. PICK w : w = PutInst(s, i, x1)
      OBVIOUS
    <3>3. w = [s EXCEPT !.inst[i].link = Head(s.inst[i].deferred)] /\ w.inst[i] = x1
      BY <1>0, <2>1, <2>3, <3>1, <3>2 DEF PutInst, IsPut
    <3>4. [s EXCEPT !.inst[i].link = Head(s.inst[i].deferred), !.inst[i].deferred = Tail(@)]
            = [w EXCEPT !.inst[i].deferred = Tail(@)]
      BY <3>3
    <3>5. [w EXCEPT !.inst[i].deferred = Tail(@)] = PutInst(w, i, x2)
      BY <2>2, <2>4, <2>7, <3>3 DEF PutInst
    <3>6. PutInst(w, i, x2) = u
      BY <1>1, <2>5, <3>2, PutTwice
    <3> QED
      BY <3>4, <3>5, <3>6
  <2>10. o \in PostTouching(Transmit(u, i), i)
    BY <1>0, <1>3, <2>9 DEF WriteReady
  <2>11. IsPut(s, i, x2, u)
    BY <1>1, <2>5, <2>8, PutInstIs
  <2>12. PICK z : z = [x2 EXCEPT !.link = 0]
    OBVIOUS
  <2>13. PICK y : y = Ranked2(z)
    OBVIOUS
  <2>14. Transmit(u, i) = PutInst(s, i, y)
    <3>1. u \in TcpStates /\ ~u.overtaken /\ x2 = u.inst[i]
      BY <1>1, <2>11 DEF IsPut
    <3>2. \A q \in ToSet(x2.deferred) : ~(q < x2.link)
      <4>1. DOMAIN e = 1 .. Len(e) /\ Len(e) \in Nat
        BY <2>6
      <4>2. \A n \in DOMAIN e : ~(e[n] < 1)
        BY <2>6, <4>1
      <4> QED
        BY <2>8, <4>2 DEF ToSet
    <3>3. Transmit(u, i) = PutInst(u, i, y)
      BY <1>1, <2>12, <2>13, <3>1, <3>2, TransmitIs
    <3> QED
      BY <1>1, <2>5, <3>3, PutTwice
  <2>15. z \in TcpClients /\ z.link = 0 /\ z.deferred = e /\ z.ctl = x.ctl /\ z.live /\ SameInput(x, z)
    <3>1. 0 \in Nat
      OBVIOUS
    <3>2. /\ z \in TcpClients /\ z.link = 0 /\ z.deferred = x2.deferred /\ z.ctl = x2.ctl /\ z.live = x2.live
          /\ SameInput(x2, z)
      BY <2>8, <2>12, <3>1, PutLink
    <3> QED
      BY <1>1, <2>8, <3>2 DEF SameInput
  <2>16. ClientSound(y) /\ y.live /\ SameInput(z, y)
    <3>1. Len(e) <= topt.n_bcast_buf /\ (Limited => Len(e) <= QueueLimit + 1 + z.ctl)
      <4>1. /\ Len(d) <= topt.n_bcast_buf /\ topt.n_bcast_buf \in Nat /\ QueueLimit \in Nat /\ x.ctl \in Nat
            /\ Limited => Len(d) + 0 <= QueueLimit + 1 + x.ctl
        BY <1>1, <2>1, ClientFields, TcpConstants DEF PacketsOK
      <4> QED
        BY <2>6, <2>15, <4>1
    <3>2. 1 \in Nat /\ \A n \in 1 .. Len(z.deferred) : z.deferred[n] = n + 1
      BY <2>6, <2>15
    <3> QED
      BY <2>13, <2>15, <3>1, <3>2, RankedSound
  <2>17. PICK t : t = PutInst(s, i, y)
    OBVIOUS
  <2>18. Sound(t) /\ i \in LiveTcp(t) /\ Only(t, i) /\ t.inst[i] = y
    BY <2>16, <2>17, PutInstHere
  <2>19. Looked(y)
    BY <1>0, <2>15, <2>16, RestingLooked DEF Looked, SameInput
  <2> QED
    BY <1>1, <2>10, <2>14, <2>17, <2>18, <2>19, PostTouchingDone
<1> QED
  BY <1>2, <1>3

\* The packet in to_link is deferred.
LEMMA DeferSound ==
  ASSUME topt \in TcpOptions, NEW s, Sound(s), NEW i \in LiveTcp(s), Only(s, i), s.inst[i].link # 0,
         NEW t, t = Defer(s, i)
  PROVE  Sound(t) /\ i \in LiveTcp(t) /\ Only(t, i) /\ SameInput(s.inst[i], t.inst[i])
<1>0. PICK x : x = s.inst[i]
  OBVIOUS
<1>1. /\ i \in Client /\ ClientSound(x) /\ x \in TcpClients /\ x.live /\ s \in TcpStates /\ PacketsOK(x)
      /\ x.deferred \in Seq(Nat) /\ Len(x.deferred) \in Nat /\ topt.n_bcast_buf \in Nat \ {0} /\ 0 \in Nat
  BY <1>0, ClientFields, TcpConstants DEF LiveTcp, Sound, ClientSound
<1>2. PICK d : d = x.deferred
  OBVIOUS
<1>3. /\ d \in Seq(Nat) /\ Len(d) \in Nat /\ Len(d) <= topt.n_bcast_buf /\ x.link = Len(d) + 1
      /\ \A n \in 1 .. Len(d) : d[n] = n
      /\ Limited => Len(d) + 1 <= QueueLimit + 1 + x.ctl
  BY <1>0, <1>1, <1>2 DEF PacketsOK
<1>4. PICK k : k = IF Len(d) = topt.n_bcast_buf THEN 1 ELSE 0
  OBVIOUS
<1>5. PICK b : b = IF Len(d) = topt.n_bcast_buf THEN Tail(d) ELSE d
  OBVIOUS
<1>6. k \in Nat /\ b \in Seq(Nat) /\ Len(b) = Len(d) - k /\ (\A n \in 1 .. Len(b) : b[n] = n + k) /\ Len(b) < topt.n_bcast_buf
  <2>1. CASE Len(d) = topt.n_bcast_buf
    <3>1. b = Tail(d) /\ k = 1 /\ d # <<>>
      BY <1>1, <1>3, <1>4, <1>5, <2>1
    <3>2. b \in Seq(Nat) /\ Len(b) = Len(d) - 1 /\ \A n \in 1 .. Len(b) : b[n] = d[n + 1]
      BY <1>3, <3>1
    <3> QED
      BY <1>1, <1>3, <2>1, <3>1, <3>2
  <2>2. CASE Len(d) # topt.n_bcast_buf
    <3>1. b = d /\ k = 0
      BY <1>4, <1>5, <2>2
    <3> QED
      BY <1>1, <1>3, <2>2, <3>1
  <2> QED
    BY <2>1, <2>2
<1>7. PICK e : e = Append(b, x.link)
  OBVIOUS
<1>8. /\ e \in Seq(Nat) /\ Len(e) = Len(b) + 1 /\ (\A n \in 1 .. Len(e) : e[n] = n + k)
      /\ Len(e) <= topt.n_bcast_buf /\ (Limited => Len(e) <= QueueLimit + 1 + x.ctl)
  <2>1. x.link \in Nat
    BY <1>3
  <2>2. /\ e \in Seq(Nat) /\ Len(e) = Len(b) + 1 /\ (\A n \in 1 .. Len(b) : e[n] = b[n])
        /\ e[Len(b) + 1] = x.link
    BY <1>6, <1>7, <2>1, AppendProperties
  <2>3. Len(b) \in Nat /\ x.link = Len(b) + 1 + k
    BY <1>3, <1>6
  <2>4. ASSUME NEW n \in 1 .. Len(e) PROVE e[n] = n + k
    <3>1. CASE n \in 1 .. Len(b)
      BY <1>6, <2>2, <3>1
    <3>2. CASE n = Len(b) + 1
      BY <2>2, <2>3, <3>2
    <3> QED
      BY <2>2, <2>3, <3>1, <3>2
  <2>5. Len(e) <= topt.n_bcast_buf
    BY <1>1, <1>6, <2>2, <2>3
  <2>6. Limited => Len(e) <= QueueLimit + 1 + x.ctl
    <3>1. x.ctl \in Nat /\ QueueLimit \in Nat
      BY <1>1, ClientFields, TcpConstants
    <3> QED
      BY <1>3, <1>6, <2>2, <2>3, <3>1
  <2> QED
    BY <2>2, <2>4, <2>5, <2>6
<1>9. PICK x1 : x1 = [x EXCEPT !.deferred = e]
  OBVIOUS
<1>10. PICK z : z = [x1 EXCEPT !.link = 0]
  OBVIOUS
<1>11. PICK y : y = Ranked2(z)
  OBVIOUS
<1>12. t = PutInst(s, i, y)
  <2>1. Queued(x.deferred, x.link) = e
    BY <1>2, <1>5, <1>7 DEF Queued
  <2>2. [x EXCEPT !.deferred = Queued(x.deferred, x.link), !.link = 0] = z
    BY <1>9, <1>10, <2>1
  <2>3. Defer(s, i) = PutInst(s, i, Ranked2([s.inst[i] EXCEPT !.deferred = Queued(s.inst[i].deferred, s.inst[i].link), !.link = 0]))
    BY DEF Defer, PutInst
  <2> QED
    BY <1>0, <1>11, <2>2, <2>3
<1>13. x1 \in TcpClients /\ x1.deferred = e /\ x1.ctl = x.ctl /\ x1.live = x.live /\ SameInput(x, x1)
  <2>1. x \in TcpClients /\ e \in Seq(Nat)
    BY <1>1, <1>8
  <2> QED
    BY <1>9, <2>1, PutDeferred
<1>14. z \in TcpClients /\ z.link = 0 /\ z.deferred = x1.deferred /\ z.ctl = x1.ctl /\ z.live = x1.live /\ SameInput(x1, z)
  <2>1. x1 \in TcpClients /\ 0 \in Nat
    BY <1>13
  <2> QED
    BY <1>10, <2>1, PutLink
<1>15. ClientSound(y) /\ y.live /\ SameInput(z, y)
  <2>1. /\ z.live /\ \A n \in 1 .. Len(z.deferred) : z.deferred[n] = n + k
        /\ Len(z.deferred) <= topt.n_bcast_buf /\ (Limited => Len(z.deferred) <= QueueLimit + 1 + z.ctl)
    BY <1>1, <1>8, <1>13, <1>14
  <2> QED
    BY <1>6, <1>11, <1>14, <2>1, RankedSound
<1>16. Sound(t) /\ i \in LiveTcp(t) /\ Only(t, i) /\ t.inst[i] = y
  BY <1>12, <1>15, PutInstHere
<1> QED
  BY <1>0, <1>13, <1>14, <1>15, <1>16 DEF SameInput

\* The pending client, or the first of the broadcast queue, with its packet or without.
LEMMA OutgoingIs ==
  ASSUME topt \in TcpOptions, NEW s, Sound(s), NEW i \in LiveTcp(s), Only(s, i), ~s.inst[i].sig, Pended(s, i),
         s.pending = NIL => Peeked(s.mbuf) = i, NEW p \in OutgoingPre(s)
  PROVE  /\ p.mi = i /\ Sound(p.s) /\ i \in LiveTcp(p.s) /\ Only(p.s, i) /\ SameInput(s.inst[i], p.s.inst[i])
         /\ LinkOut(p.s, i) \/ Pended(p.s, i)
<1>0. PICK x : x = s.inst[i]
  OBVIOUS
<1>1. i \in Client /\ i # NIL /\ ClientSound(x) /\ x \in TcpClients /\ x.live /\ s \in TcpStates /\ s.mbuf \in Seq(Client \cup {NIL})
  BY <1>0, StateFields, TcpConstants DEF LiveTcp, Sound, ClientSound
<1>2. CASE s.pending # NIL
  <2>1. p = [s |-> s, mi |-> s.pending] /\ s.pending = i
    BY <1>2 DEF OutgoingPre, Only
  <2>2. p.s = s /\ p.mi = i
    BY <2>1
  <2> QED
    BY <2>2 DEF SameInput
<1>3. CASE s.pending = NIL
  <2>1. PICK t : t = [s EXCEPT !.mbuf = Extracted(s.mbuf)]
    OBVIOUS
  <2>2. p = [s |-> t, mi |-> i] \/ p = [s |-> encrypt_sign(t, i), mi |-> i]
    BY <1>1, <1>3, <2>1 DEF OutgoingPre
  <2>3. ~Limited
    BY <1>1, <1>3, PeekedIs DEF Sound
  <2>4. x.link = 0
    <3>1. ~AnyOut(s, i)
      BY <1>1, <1>3 DEF Pended
    <3> QED
      BY <1>0, <1>1, <3>1 DEF AnyOut, LinkOut
  <2>5. PICK e : e = Extracted(s.mbuf)
    OBVIOUS
  <2>6. /\ e \in Seq(Client \cup {NIL}) /\ Len(e) <= Len(s.mbuf) /\ Len(s.mbuf) \in Nat /\ Len(e) \in Nat
        /\ \A n \in 1 .. Len(e) : \E k \in 1 .. Len(s.mbuf) : e[n] = s.mbuf[k]
    <3>1. /\ e \in Seq(Client \cup {NIL}) /\ Len(e) <= Len(s.mbuf)
          /\ \A n \in 1 .. Len(e) : \E k \in 1 .. Len(s.mbuf) : e[n] = s.mbuf[k]
      BY <1>1, <2>5, PeekedIs
    <3> QED
      BY <1>1, <3>1
  <2>7. /\ t \in TcpStates /\ t.inst = s.inst /\ t.pending = s.pending /\ t.mbuf = e /\ t.wakeup = s.wakeup
        /\ t.esr = s.esr /\ t.overtaken = s.overtaken /\ t.abort = s.abort
    BY <1>1, <2>1, <2>5, <2>6 DEF TcpStates
  <2>8. LiveTcp(t) = LiveTcp(s)
    BY <2>7 DEF LiveTcp
  <2>9. IsAdded(s, t)
    <3>1. \A n \in 1 .. Len(e) : e[n] \in LiveTcp(s) \cup {NIL}
      BY <2>6 DEF Sound
    <3>2. Len(e) <= topt.n_bcast_buf
      BY <2>6, TcpConstants DEF Sound
    <3>3. Sound(t)
      BY <2>3, <2>7, <2>8, <3>1, <3>2 DEF Sound
    <3> QED
      BY <2>7, <3>3 DEF IsAdded
  <2>10. Sound(t) /\ i \in LiveTcp(t) /\ Only(t, i) /\ Pended(t, i) /\ t.inst[i] = x
    BY <1>0, <2>7, <2>8, <2>9, AddedOnly DEF IsAdded, Pended, AnyOut, TunOut, LinkOut
  <2>11. CASE p = [s |-> t, mi |-> i]
    <3>1. p.s = t /\ p.mi = i
      BY <2>11
    <3> QED
      BY <1>0, <2>10, <3>1 DEF SameInput
  <2>12. CASE p = [s |-> encrypt_sign(t, i), mi |-> i]
    <3>1. p.s = encrypt_sign(t, i) /\ p.mi = i
      BY <2>12
    <3>2. PICK y : Encrypted(x, y) /\ encrypt_sign(t, i) = PutInst(t, i, y)
      BY <1>1, <2>4, <2>10, EncryptIs
    <3>3. ClientSound(y)
      BY <1>1, <2>3, <2>4, <3>2, EncryptedSound
    <3>4. y.live /\ SameInput(x, y) /\ y.link # 0
      <4>1. x.deferred \in Seq(Nat)
        BY <1>1, ClientFields
      <4> QED
        BY <1>1, <3>2, <4>1 DEF Encrypted
    <3>5. Sound(p.s) /\ i \in LiveTcp(p.s) /\ Only(p.s, i) /\ p.s.inst[i] = y
      BY <2>10, <3>1, <3>2, <3>3, <3>4, PutInstHere
    <3> QED
      BY <1>0, <1>1, <3>1, <3>4, <3>5 DEF LinkOut
  <2> QED
    BY <2>2, <2>11, <2>12
<1> QED
  BY <1>2, <1>3

\* A packet is sent or deferred.
LEMMA SocketWriteDone ==
  ASSUME topt \in TcpOptions, NEW s, Sound(s), NEW i \in LiveTcp(s), Only(s, i), ~s.inst[i].sig, Pended(s, i),
         Looked(s.inst[i]), s.pending = NIL => Peeked(s.mbuf) = i, NEW defer \in BOOLEAN, NEW o \in SocketWrite(s, i, defer)
  PROVE  Done(o, i)
<1>1. PICK p \in OutgoingPre(s) :
        o \in IF p.mi = NIL THEN Touching({p.s}, i)
              ELSE IF must_defer(p.s.inst[p.mi], defer)
              THEN IF LinkOut(p.s, p.mi) THEN PostTouching(Defer(p.s, p.mi), p.mi) ELSE Touching({p.s}, i)
              ELSE PostTouching(IF LinkOut(p.s, p.mi) THEN Transmit(p.s, p.mi) ELSE p.s, p.mi)
  BY DEF SocketWrite
<1>2. /\ p.mi = i /\ Sound(p.s) /\ i \in LiveTcp(p.s) /\ Only(p.s, i) /\ SameInput(s.inst[i], p.s.inst[i])
      /\ LinkOut(p.s, i) \/ Pended(p.s, i)
  BY OutgoingIs
<1>3. PICK u : u = p.s
  OBVIOUS
<1>4. i # NIL /\ i \in Client
  BY TcpConstants DEF LiveTcp
<1>5. Looked(u.inst[i])
  BY <1>2, <1>3 DEF Looked, SameInput
<1>6. CASE must_defer(u.inst[i], defer) /\ LinkOut(u, i)
  <2>1. PICK t : t = Defer(u, i)
    OBVIOUS
  <2>2. o \in PostTouching(t, i)
    BY <1>1, <1>2, <1>3, <1>4, <1>6, <2>1
  <2>3. u.inst[i].link # 0
    BY <1>6 DEF LinkOut
  <2>4. Sound(t) /\ i \in LiveTcp(t) /\ Only(t, i) /\ SameInput(u.inst[i], t.inst[i])
    BY <1>2, <1>3, <2>1, <2>3, DeferSound
  <2>5. Looked(t.inst[i])
    BY <1>5, <2>4 DEF Looked, SameInput
  <2> QED
    BY <1>4, <2>2, <2>4, <2>5, PostTouchingDone
<1>7. CASE must_defer(u.inst[i], defer) /\ ~LinkOut(u, i)
  <2>1. o = [s |-> u, touched |-> i]
    BY <1>1, <1>2, <1>3, <1>4, <1>7 DEF Touching
  <2>2. o.s = u /\ o.touched = i
    BY <2>1
  <2> QED
    BY <1>2, <1>3, <1>4, <1>5, <1>7, <2>2 DEF Done
<1>8. CASE ~must_defer(u.inst[i], defer)
  <2>1. u.inst[i].deferred = <<>>
    BY <1>8 DEF must_defer
  <2>2. PICK t : t = IF LinkOut(u, i) THEN Transmit(u, i) ELSE u
    OBVIOUS
  <2>3. o \in PostTouching(t, i)
    BY <1>1, <1>2, <1>3, <1>4, <1>8, <2>2
  <2>4. Sound(t) /\ i \in LiveTcp(t) /\ Only(t, i) /\ SameInput(u.inst[i], t.inst[i])
    <3>1. CASE LinkOut(u, i)
      BY <1>2, <1>3, <2>1, <2>2, <3>1, SendSound
    <3>2. CASE ~LinkOut(u, i)
      BY <1>2, <1>3, <2>2, <3>2 DEF SameInput
    <3> QED
      BY <3>1, <3>2
  <2>5. Looked(t.inst[i])
    BY <1>5, <2>4 DEF Looked, SameInput
  <2> QED
    BY <1>4, <2>3, <2>4, <2>5, PostTouchingDone
<1> QED
  BY <1>6, <1>7, <1>8

-----------------------------------------------------------------------------
(* Input from a client's socket.                                             *)

\* The server while client i is served and nothing is pending.
Serving(s, i) == Sound(s) /\ i \in LiveTcp(s) /\ Only(s, i) /\ s.pending = NIL

LEMMA ServingPut ==
  ASSUME NEW s, NEW i, Serving(s, i), NEW x, x = s.inst[i], NEW y \in TcpClients, SamePackets(x, y)
  PROVE  Serving(PutInst(s, i, y), i)
<1>1. Sound(s) /\ i \in LiveTcp(s) /\ Only(s, i) /\ s.pending = NIL
  BY DEF Serving
<1>2. ClientSound(x) /\ x.live
  BY <1>1 DEF Sound, LiveTcp
<1>3. ClientSound(y) /\ y.live
  BY <1>2, SamePacketsSound DEF SamePackets
<1> QED
  BY <1>1, <1>3, PutInstHere DEF Serving

LEMMA ReadLinkIs ==
  ASSUME NEW s, NEW i, Serving(s, i), Looked(s.inst[i]), NEW r \in ReadLink(s, i)
  PROVE  Serving(r.t, i)
<1>0. PICK x : x = s.inst[i]
  OBVIOUS
<1>1. /\ i \in Client /\ s \in TcpStates /\ s.inst \in [Client -> TcpClients] /\ x \in TcpClients /\ x.res \in 0 .. 1
      /\ FALSE \in BOOLEAN /\ TRUE \in BOOLEAN /\ (x.formed <=> x.res > 0)
  BY <1>0, StateFields, ClientFields DEF Serving, LiveTcp, Sound, Looked
<1>2. CASE x.formed
  <2>1. r.t = [s EXCEPT !.inst[i].formed = FALSE, !.inst[i].res = x.res - 1]
    BY <1>0, <1>2 DEF ReadLink
  <2>2. PICK x1 : x1 = [x EXCEPT !.formed = FALSE]
    OBVIOUS
  <2>3. PICK y : y = [x1 EXCEPT !.res = x.res - 1]
    OBVIOUS
  <2>4. x1 \in TcpClients /\ SamePackets(x, x1) /\ x1.res = x.res
    BY <1>1, <2>2, PutFormed
  <2>5. x.res - 1 \in 0 .. 1
    BY <1>1, <1>2, <2>4
  <2>6. y \in TcpClients /\ SamePackets(x1, y)
    BY <2>3, <2>4, <2>5, PutRes
  <2>7. r.t = PutInst(s, i, y)
    <3>1. PICK w : w = PutInst(s, i, x1)
      OBVIOUS
    <3>2. w = [s EXCEPT !.inst[i].formed = FALSE] /\ w.inst[i] = x1
      BY <1>0, <1>1, <2>2, <2>4, <3>1, PutInstIs DEF PutInst, IsPut
    <3>3. r.t = [w EXCEPT !.inst[i].res = x.res - 1]
      BY <2>1, <3>2
    <3>4. r.t = PutInst(w, i, y)
      BY <2>3, <3>2, <3>3 DEF PutInst
    <3> QED
      BY <1>1, <3>1, <3>4, PutTwice
  <2>8. SamePackets(x, y)
    BY <2>4, <2>6 DEF SamePackets
  <2> QED
    BY <1>0, <2>6, <2>7, <2>8, ServingPut
<1>3. CASE ~x.formed /\ r = [t |-> [s EXCEPT !.inst[i].sig = TRUE], len |-> 0]
  <2>1. PICK y : y = [x EXCEPT !.sig = TRUE]
    OBVIOUS
  <2>2. r.t = PutInst(s, i, y)
    BY <1>0, <1>3, <2>1 DEF PutInst
  <2>3. y \in TcpClients /\ SamePackets(x, y)
    BY <1>1, <2>1, PutSig
  <2> QED
    BY <1>0, <2>2, <2>3, ServingPut
<1>4. CASE ~x.formed /\ r = [t |-> s, len |-> 0]
  <2>1. r.t = s
    BY <1>4
  <2> QED
    BY <2>1
<1>5. CASE ~x.formed /\ \E n \in 1 .. 2 : r = [t |-> [s EXCEPT !.inst[i].res = n - 1], len |-> 1]
  <2>1. PICK n \in 1 .. 2 : r = [t |-> [s EXCEPT !.inst[i].res = n - 1], len |-> 1]
    BY <1>5
  <2>2. PICK y : y = [x EXCEPT !.res = n - 1]
    OBVIOUS
  <2>3. r.t = PutInst(s, i, y)
    BY <1>0, <2>1, <2>2 DEF PutInst
  <2>4. n - 1 \in 0 .. 1
    OBVIOUS
  <2>5. y \in TcpClients /\ SamePackets(x, y)
    BY <1>1, <2>2, <2>4, PutRes
  <2> QED
    BY <1>0, <2>3, <2>5, ServingPut
<1> QED
  BY <1>0, <1>2, <1>3, <1>4, <1>5 DEF ReadLink

LEMMA ServingAdded ==
  ASSUME NEW s, NEW i, Serving(s, i), NEW t, IsAdded(s, t)
  PROVE  Serving(t, i)
BY AddedOnly DEF Serving, IsAdded

\* What a client sends goes to the tun device, to other clients or nowhere.
LEMMA IncomingIs ==
  ASSUME topt \in TcpOptions, NEW s, NEW i, Serving(s, i), NEW t \in Incoming(s, i)
  PROVE  Serving(t, i)
<1>0. PICK x : x = s.inst[i]
  OBVIOUS
<1>1. x \in TcpClients /\ TRUE \in BOOLEAN
  BY <1>0, StateFields DEF Serving, LiveTcp, Sound
<1>2. CASE t = s
  BY <1>2
<1>3. CASE t = [s EXCEPT !.inst[i].sig = TRUE]
  <2>1. PICK y : y = [x EXCEPT !.sig = TRUE]
    OBVIOUS
  <2>2. t = PutInst(s, i, y)
    BY <1>0, <1>3, <2>1 DEF PutInst
  <2>3. y \in TcpClients /\ SamePackets(x, y)
    BY <1>1, <2>1, PutSig
  <2> QED
    BY <1>0, <2>2, <2>3, ServingPut
<1>4. PICK u : u = [s EXCEPT !.inst[i].tun = TRUE]
  OBVIOUS
<1>5. Serving(u, i)
  <2>1. PICK y : y = [x EXCEPT !.tun = TRUE]
    OBVIOUS
  <2>2. u = PutInst(s, i, y)
    BY <1>0, <1>4, <2>1 DEF PutInst
  <2>3. y \in TcpClients /\ SamePackets(x, y)
    BY <1>1, <2>1, PutTun
  <2> QED
    BY <1>0, <2>2, <2>3, ServingPut
<1>6. CASE topt.c2c /\ t \in multi_bcast_tcp(u, i)
  <2>1. IsAdded(u, t)
    BY <1>5, <1>6, BcastIs DEF Limited, Serving
  <2> QED
    BY <1>5, <2>1, ServingAdded
<1>7. CASE topt.c2c /\ \E j \in {j \in LiveTcp(s) : s.inst[j].est} : t = multi_add_mbuf(s, j)
  <2>1. IsAdded(s, t)
    BY <1>7, AddIs DEF Limited, Serving
  <2> QED
    BY <2>1, ServingAdded
<1> QED
  BY <1>2, <1>3, <1>4, <1>5, <1>6, <1>7 DEF Incoming

LEMMA ReceivedIs ==
  ASSUME topt \in TcpOptions, NEW i, NEW r, Serving(r.t, i), NEW o \in Received(r, i)
  PROVE  /\ o.touched = i /\ Sound(o.s) /\ Only(o.s, i) /\ i \in LiveTcp(o.s) /\ DOMAIN o = {"s", "touched"}
         /\ o.s.inst[i].sig \/ Pended(o.s, i)
<1>1. CASE r.t.inst[i].sig
  <2>1. o = [s |-> r.t, touched |-> i]
    BY <1>1 DEF Received, Touching
  <2>2. o.s = r.t /\ o.touched = i /\ DOMAIN o = {"s", "touched"}
    BY <2>1
  <2> QED
    BY <1>1, <2>2 DEF Serving
<1>2. CASE ~r.t.inst[i].sig
  <2>1. PICK t \in (IF r.len = 0 THEN {r.t} ELSE Incoming(r.t, i)) :
          o \in PostTouching(Asserted([t EXCEPT !.pending = i], t.pending = NIL, "pending"), i)
    BY <1>2 DEF Received
  <2>2. Serving(t, i)
    BY <2>1, IncomingIs
  <2>3. PICK u : u = [t EXCEPT !.pending = i]
    OBVIOUS
  <2>4. o \in PostTouching(u, i)
    BY <2>1, <2>2, <2>3 DEF Asserted, Serving
  <2>5. t \in TcpStates /\ i \in Client
    BY <2>2 DEF Serving, Sound, LiveTcp
  <2>6. /\ u \in TcpStates /\ u.inst = t.inst /\ u.pending = i /\ u.mbuf = t.mbuf /\ u.wakeup = t.wakeup
        /\ u.esr = t.esr /\ u.overtaken = t.overtaken
    BY <2>3, <2>5 DEF TcpStates
  <2>7. LiveTcp(u) = LiveTcp(t)
    BY <2>6 DEF LiveTcp
  <2>8. Sound(u) /\ Only(u, i) /\ i \in LiveTcp(u)
    BY <2>2, <2>6, <2>7 DEF Serving, Sound, Only
  <2>9. DOMAIN o = {"s", "touched"}
    BY <2>4 DEF PostTouching, Touching
  <2> QED
    BY <2>4, <2>8, <2>9, PostTouchingIs
<1> QED
  BY <1>1, <1>2

\* Input from a client.
LEMMA SocketReadDone ==
  ASSUME topt \in TcpOptions, NEW s, NEW i, Serving(s, i), Looked(s.inst[i]), NEW o \in SocketRead(s, i)
  PROVE  Done(o, i)
<1>1. PICK r \in ReadLink(s, i) : \E p \in Received(r, i) : o = [p EXCEPT !.s = stream_buf_read_setup_tcp(@, i)]
  BY DEF SocketRead
<1>2. PICK p \in Received(r, i) : o = [p EXCEPT !.s = stream_buf_read_setup_tcp(@, i)]
  BY <1>1
<1>3. /\ p.touched = i /\ Sound(p.s) /\ Only(p.s, i) /\ i \in LiveTcp(p.s) /\ DOMAIN p = {"s", "touched"}
      /\ p.s.inst[i].sig \/ Pended(p.s, i)
  BY ReadLinkIs, ReceivedIs
<1>4. PICK u : u = p.s
  OBVIOUS
<1>5. o.s = stream_buf_read_setup_tcp(u, i) /\ o.touched = i
  BY <1>2, <1>3, <1>4
<1>6. CASE u.inst[i].sig
  <2>1. o.s = u
    BY <1>5, <1>6 DEF stream_buf_read_setup_tcp
  <2> QED
    BY <1>3, <1>4, <1>5, <1>6, <2>1 DEF Done
<1>7. CASE ~u.inst[i].sig
  <2>0. PICK x : x = u.inst[i]
    OBVIOUS
  <2>1. PICK b \in BOOLEAN : b <=> x.res > 0
    OBVIOUS
  <2>2. PICK y : y = [x EXCEPT !.formed = b]
    OBVIOUS
  <2>3. i \in Client /\ i # NIL /\ ClientSound(x) /\ x \in TcpClients /\ x.live /\ x.res \in 0 .. 1
    BY <1>3, <1>4, <2>0, ClientFields, TcpConstants DEF LiveTcp, Sound, ClientSound
  <2>4. b = (x.res > 0)
    BY <2>1, <2>3
  <2>5. o.s = PutInst(u, i, y)
    BY <1>5, <1>7, <2>0, <2>2, <2>4 DEF stream_buf_read_setup_tcp, PutInst
  <2>6. /\ y \in TcpClients /\ SamePackets(x, y) /\ y.res = x.res /\ y.formed = b /\ y.sig = x.sig /\ y.tun = x.tun
    BY <2>2, <2>3, PutFormed
  <2>7. ClientSound(y) /\ y.live
    BY <2>3, <2>6, SamePacketsSound DEF SamePackets
  <2>8. PICK v : v = o.s
    OBVIOUS
  <2>9. Sound(v) /\ i \in LiveTcp(v) /\ Only(v, i) /\ v.inst[i] = y /\ v.pending = u.pending
    BY <1>3, <1>4, <2>5, <2>7, <2>8, PutInstHere
  <2>10. Pended(v, i) /\ Looked(y)
    BY <1>3, <1>4, <1>7, <2>0, <2>1, <2>6, <2>9 DEF Pended, AnyOut, TunOut, LinkOut, Looked, SamePackets
  <2> QED
    BY <1>5, <2>3, <2>8, <2>9, <2>10 DEF Done
<1> QED
  BY <1>6, <1>7

-----------------------------------------------------------------------------
(* One pass of multi_tcp_action.                                             *)

\* What polling can make of an action.
Polled(action) ==
  CASE action = "TUN_WRITE" -> {"TUN_WRITE", "TUN_WRITE_TIMEOUT"}
    [] action = "SOCKET_WRITE" -> {"SOCKET_WRITE", "SOCKET_WRITE_DEFERRED"}
    [] action \notin {"TUN_WRITE", "SOCKET_WRITE"} -> {action}

\* multi_tcp_wait_lite never has to block: it is only asked about writing.
LEMMA WaitedIs ==
  ASSUME NEW s, NEW b, ActOK(s, b), NEW a \in Waited(b)
  PROVE  a.mi = b.mi /\ a.tip \in BOOLEAN /\ a.action \in Polled(b.action)
<1>1. /\ b \in [mi : Client \cup {NIL}, action : TcpActions \cup {"UNDEF"}, poll : BOOLEAN, tip : BOOLEAN]
      /\ b.poll => b.action \in {"TUN_WRITE", "SOCKET_WRITE", "SOCKET_READ_RESIDUAL"}
  BY DEF ActOK
<1>2. CASE b.poll /\ b.action # "SOCKET_READ_RESIDUAL"
  <2>1. PICK w \in WaitLite(b.action) : a = [b EXCEPT !.action = w[1], !.tip = b.tip \/ w[2]]
    BY <1>2 DEF Waited
  <2>2. b.action \in {"TUN_WRITE", "SOCKET_WRITE"}
    BY <1>1, <1>2
  <2>3. w[1] \in Polled(b.action) /\ w[2] \in BOOLEAN
    <3>1. CASE b.action = "TUN_WRITE"
      <4>1. w \in {<<"TUN_WRITE", FALSE>>, <<"TUN_WRITE_TIMEOUT", FALSE>>}
        BY <3>1 DEF WaitLite
      <4>2. CASE w = <<"TUN_WRITE", FALSE>>
        <5>1. w[1] = "TUN_WRITE" /\ w[2] = FALSE
          BY <4>2
        <5> QED
          BY <3>1, <5>1 DEF Polled
      <4>3. CASE w = <<"TUN_WRITE_TIMEOUT", FALSE>>
        <5>1. w[1] = "TUN_WRITE_TIMEOUT" /\ w[2] = FALSE
          BY <4>3
        <5> QED
          BY <3>1, <5>1 DEF Polled
      <4> QED
        BY <4>1, <4>2, <4>3
    <3>2. CASE b.action = "SOCKET_WRITE"
      <4>1. w \in {"SOCKET_WRITE", "SOCKET_WRITE_DEFERRED"} \X BOOLEAN
        BY <3>2 DEF WaitLite
      <4> QED
        BY <3>2, <4>1 DEF Polled
    <3> QED
      BY <2>2, <3>1, <3>2
  <2> QED
    BY <1>1, <2>1, <2>3
<1>3. CASE ~(b.poll /\ b.action # "SOCKET_READ_RESIDUAL")
  <2>1. a = b
    BY <1>3 DEF Waited
  <2> QED
    BY <1>1, <2>1 DEF Polled
<1> QED
  BY <1>2, <1>3

LEMMA DispatchDone ==
  ASSUME topt \in TcpOptions, NEW s, Sound(s), NEW b, ActOK(s, b), b.action # "UNDEF",
         NEW action \in Polled(b.action), NEW o \in multi_tcp_dispatch(s, b.mi, action)
  PROVE  Done(o, b.mi)
<1>0. PICK i : i = b.mi
  OBVIOUS
<1>1. /\ b.action \in TcpActions /\ i \in LiveTcp(s) \cup {NIL} /\ Only(s, i)
      /\ i = NIL <=> b.action \in {"TUN_READ", "TIMEOUT"}
      /\ i # NIL => Ready(s, i, b.action)
  BY <1>0 DEF ActOK
<1>2. CASE b.action = "TUN_READ"
  <2>1. action = "TUN_READ" /\ i = NIL
    BY <1>1, <1>2 DEF Polled
  <2>2. s.pending = NIL
    BY <1>1, <2>1 DEF Only
  <2>3. o \in TunRead(s, NIL)
    BY <1>0, <2>1, <2>2 DEF multi_tcp_dispatch, Asserted
  <2> QED
    BY <1>0, <1>1, <2>1, <2>3, TunReadDone
<1>3. CASE b.action = "TIMEOUT"
  <2>1. action = "TIMEOUT" /\ i = NIL
    BY <1>1, <1>3 DEF Polled
  <2>2. o \in TimeoutTcp(s, NIL)
    BY <1>0, <2>1 DEF multi_tcp_dispatch
  <2> QED
    BY <1>0, <1>1, <2>1, <2>2, TimeoutDone
<1>4. ASSUME b.action \notin {"TUN_READ", "TIMEOUT"}
      PROVE  i \in LiveTcp(s) /\ i # NIL /\ Ready(s, i, b.action) /\ Looked(s.inst[i])
  BY <1>1, <1>4 DEF Ready
<1>5. CASE b.action \in {"SOCKET_READ", "SOCKET_READ_RESIDUAL"}
  <2>1. action = b.action
    BY <1>5 DEF Polled
  <2>2. o \in SocketRead(s, i)
    BY <1>0, <1>5, <2>1 DEF multi_tcp_dispatch
  <2>3. s.pending = NIL
    BY <1>4, <1>5 DEF Ready, Pended, AnyOut, TunOut, LinkOut, Resting
  <2>4. Serving(s, i)
    BY <1>1, <1>4, <1>5, <2>3 DEF Serving
  <2> QED
    BY <1>0, <1>4, <1>5, <2>2, <2>4, SocketReadDone
<1>6. CASE b.action = "TUN_WRITE"
  <2>1. action \in {"TUN_WRITE", "TUN_WRITE_TIMEOUT"}
    BY <1>6 DEF Polled
  <2>2. o \in TunWrite(s, i)
    BY <1>0, <2>1 DEF multi_tcp_dispatch
  <2>3. s.pending = i
    BY <1>4, <1>6 DEF Ready, Pended, AnyOut, TunOut
  <2> QED
    BY <1>0, <1>1, <1>4, <1>6, <2>2, <2>3, TunWriteDone
<1>7. CASE b.action = "SOCKET_WRITE_READY"
  <2>1. action = "SOCKET_WRITE_READY"
    BY <1>7 DEF Polled
  <2>2. o \in WriteReady(s, i)
    BY <1>0, <2>1 DEF multi_tcp_dispatch
  <2>3. s.pending = NIL /\ Resting(s.inst[i])
    BY <1>4, <1>7 DEF Ready, Pended, AnyOut, TunOut, LinkOut, Resting
  <2> QED
    BY <1>0, <1>1, <1>4, <1>7, <2>2, <2>3, WriteReadyDone
<1>8. CASE b.action = "SOCKET_WRITE"
  <2>1. PICK defer \in BOOLEAN : o \in SocketWrite(s, i, defer)
    <3>1. action \in {"SOCKET_WRITE", "SOCKET_WRITE_DEFERRED"}
      BY <1>8 DEF Polled
    <3> QED
      BY <1>0, <3>1 DEF multi_tcp_dispatch
  <2>2. ~s.inst[i].sig /\ Pended(s, i) /\ (s.pending = NIL => Peeked(s.mbuf) = i)
    BY <1>4, <1>8 DEF Ready
  <2> QED
    BY <1>0, <1>1, <1>4, <1>8, <2>1, <2>2, SocketWriteDone
<1>9. CASE b.action = "INITIAL"
  <2>1. action = "INITIAL"
    BY <1>9 DEF Polled
  <2>2. o \in Initial(s, i)
    BY <1>0, <2>1 DEF multi_tcp_dispatch
  <2>3. ~s.inst[i].formed
    BY <1>4, <1>9 DEF Ready
  <2> QED
    BY <1>0, <1>1, <1>4, <1>9, <2>2, <2>3, InitialDone
<1> QED
  BY <1>1, <1>2, <1>3, <1>5, <1>6, <1>7, <1>8, <1>9 DEF TcpActions

\* When all clients rest, multi_tcp_action is over, or goes on with the tun device.
LEMMA RestStart ==
  ASSUME NEW s, Only(s, NIL), NEW action \in {"UNDEF", "TUN_READ", "TIMEOUT"},
         NEW a, a = [mi |-> NIL, action |-> action, poll |-> FALSE, tip |-> FALSE]
  PROVE  ActOK(s, a)
<1>1. action \in TcpActions \cup {"UNDEF"} /\ NIL \in Client \cup {NIL} /\ FALSE \in BOOLEAN
  BY DEF TcpActions
<1>2. a.mi = NIL /\ a.action = action /\ a.poll = FALSE
  OBVIOUS
<1>3. a \in [mi : Client \cup {NIL}, action : TcpActions \cup {"UNDEF"}, poll : BOOLEAN, tip : BOOLEAN]
  BY <1>1
<1> QED
  BY <1>2, <1>3 DEF ActOK

LEMMA RestContinue ==
  ASSUME NEW s, Only(s, NIL), NEW a, a \in {Idle, [Idle EXCEPT !.action = "TUN_READ"]}
  PROVE  ActOK(s, a)
<1>1. PICK action \in {"UNDEF", "TUN_READ"} : a = [mi |-> NIL, action |-> action, poll |-> FALSE, tip |-> FALSE]
  BY DEF Idle
<1> QED
  BY <1>1, RestStart

LEMMA NothingLeft ==
  ASSUME topt \in TcpOptions, NEW s, Sound(s), Only(s, NIL), NEW tip \in BOOLEAN, Continue(s, NIL, tip)
  PROVE  Sound(mt') /\ ActOK(mt', act')
<1>1. multi_tcp_post(s, NIL) = "UNDEF"
  BY DEF multi_tcp_post, AnyOut, TunOut, LinkOut
<1>2. mt' = s /\ act' \in {Idle, [Idle EXCEPT !.action = "TUN_READ"]}
  BY <1>1 DEF Continue, multi_tcp_set_global_rw_flags
<1> QED
  BY <1>2, RestContinue

LEMMA NowResting ==
  ASSUME NEW s, NEW i, Only(s, i), s.pending = NIL, Resting(s.inst[i])
  PROVE  Only(s, NIL)
BY DEF Only

\* A client without a signal goes on with its output, then with its residual, and then waits.
LEMMA ClientContinue ==
  ASSUME topt \in TcpOptions, NEW s, Sound(s), NEW i \in LiveTcp(s), Only(s, i), ~s.inst[i].sig, Pended(s, i),
         Looked(s.inst[i]), NEW tip \in BOOLEAN, Continue(s, i, tip)
  PROVE  Sound(mt') /\ ActOK(mt', act')
<1>1. i \in Client /\ i # NIL
  BY TcpConstants DEF LiveTcp
<1>2. CASE multi_tcp_post(s, i) # "UNDEF"
  <2>1. mt' = s /\ act' = [mi |-> i, action |-> multi_tcp_post(s, i), poll |-> TRUE, tip |-> tip]
    BY <1>2 DEF Continue
  <2>2. PICK action : action = multi_tcp_post(s, i)
    OBVIOUS
  <2>3. /\ action \in {"TUN_WRITE", "SOCKET_WRITE", "SOCKET_READ_RESIDUAL"}
        /\ action = "TUN_WRITE" => s.inst[i].tun
        /\ action = "SOCKET_WRITE" => AnyOut(s, i)
        /\ action = "SOCKET_READ_RESIDUAL" => s.inst[i].formed /\ ~AnyOut(s, i)
    BY <1>2, <2>2 DEF multi_tcp_post, AnyOut, TunOut
  <2>4. Ready(s, i, action)
    BY <1>1, <2>3 DEF Ready, Pended
  <2>5. /\ act'.mi = i /\ act'.action = action /\ act'.poll = TRUE
        /\ act' \in [mi : Client \cup {NIL}, action : TcpActions \cup {"UNDEF"}, poll : BOOLEAN, tip : BOOLEAN]
    BY <1>1, <2>1, <2>2, <2>3 DEF TcpActions
  <2> QED
    BY <1>1, <2>1, <2>3, <2>4, <2>5 DEF ActOK
<1>3. CASE multi_tcp_post(s, i) = "UNDEF"
  <2>1. /\ mt' = multi_tcp_set_global_rw_flags(s, i)
        /\ act' \in {Idle, [Idle EXCEPT !.action = "TUN_READ"]}
    BY <1>3 DEF Continue
  <2>2. ~AnyOut(s, i) /\ ~s.inst[i].formed /\ s.pending = NIL
    BY <1>1, <1>3 DEF multi_tcp_post, AnyOut, Pended
  <2>3. s.inst[i].res = 0
    <3>1. s.inst[i].res \in 0 .. 1
      BY <1>1, StateFields, ClientFields DEF Sound
    <3> QED
      BY <2>2, <3>1 DEF Looked
  <2>4. PICK t : t = multi_tcp_set_global_rw_flags(s, i)
    OBVIOUS
  <2>5. /\ Sound(t) /\ i \in LiveTcp(t) /\ Only(t, i) /\ t.pending = s.pending
        /\ \E y : /\ y = t.inst[i] /\ SamePackets(s.inst[i], y) /\ SameInput(s.inst[i], y)
                  /\ y.sig = s.inst[i].sig /\ y.tun = s.inst[i].tun
                  /\ y.rw = IF y.deferred # <<>> THEN "WRITE" ELSE "READ"
    BY <2>3, <2>4, SetRwIs
  <2>6. Resting(t.inst[i])
    BY <1>1, <2>2, <2>3, <2>5 DEF Resting, Still, SamePackets, SameInput, AnyOut, TunOut, LinkOut
  <2>7. Only(t, NIL)
    BY <2>2, <2>5, <2>6, NowResting
  <2> QED
    BY <2>1, <2>4, <2>5, <2>7, RestContinue
<1> QED
  BY <1>2, <1>3

LEMMA FinishSound ==
  ASSUME topt \in TcpOptions, NEW o, NEW a, Done(o, a.mi), a.tip \in BOOLEAN, Finish(o, close_touched(o), a)
  PROVE  Sound(mt') /\ ActOK(mt', act')
<1>0. PICK j : j = o.touched
  OBVIOUS
<1>1. /\ Sound(o.s) /\ Only(o.s, j) /\ a.mi \in {NIL, j}
      /\ j = NIL \/ j \in LiveTcp(o.s)
  BY <1>0 DEF Done
<1>2. CASE j = NIL
  <2>1. close_touched(o) = o.s /\ o.s.pending = NIL /\ a.mi = NIL
    BY <1>0, <1>1, <1>2 DEF close_touched, Only
  <2>2. Continue(o.s, NIL, a.tip)
    BY <2>1 DEF Finish
  <2> QED
    BY <1>1, <1>2, <2>2, NothingLeft
<1>3. CASE j # NIL /\ o.s.inst[j].sig
  <2>1. PICK t : t = multi_close_instance_tcp(o.s, {j})
    OBVIOUS
  <2>2. close_touched(o) = t
    BY <1>0, <1>3, <2>1 DEF close_touched
  <2>3. j \in Client /\ {j} \in SUBSET Client /\ j \in {j} /\ o.s \in TcpStates
    BY <1>1, <1>3 DEF LiveTcp, Sound
  <2>4. Sound(t) /\ IsClosed(o.s, {j}, t)
    BY <1>1, <2>1, <2>3, CloseSound
  <2>5. Only(t, NIL)
    BY <1>1, <2>3, <2>4, CloseOnly
  <2>6. t.pending = NIL
    BY <2>5 DEF Only
  <2>7. Continue(t, NIL, a.tip)
    BY <1>0, <1>1, <1>3, <2>2, <2>6 DEF Finish
  <2> QED
    BY <2>4, <2>5, <2>7, NothingLeft
<1>4. CASE j # NIL /\ ~o.s.inst[j].sig
  <2>1. close_touched(o) = o.s
    BY <1>0, <1>4 DEF close_touched
  <2>2. PICK s : s = o.s
    OBVIOUS
  <2>3. /\ j \in LiveTcp(s) /\ Pended(s, j) /\ Looked(s.inst[j]) /\ (a.mi = NIL => Still(s.inst[j]))
        /\ Sound(s) /\ Only(s, j) /\ ~s.inst[j].sig
    BY <1>0, <1>4, <2>2 DEF Done
  <2>4. Continue(s, IF s.pending # NIL THEN s.pending ELSE a.mi, a.tip)
    BY <1>0, <1>1, <1>4, <2>1, <2>2 DEF Finish
  <2>5. CASE s.pending # NIL \/ a.mi = j
    <3>1. Continue(s, j, a.tip)
      BY <2>3, <2>4, <2>5 DEF Pended
    <3> QED
      BY <2>3, <3>1, ClientContinue
  <2>6. CASE s.pending = NIL /\ a.mi = NIL
    <3>1. Resting(s.inst[j])
      BY <1>4, <2>3, <2>6 DEF Resting, Pended, AnyOut, TunOut, LinkOut
    <3>2. Only(s, NIL)
      BY <2>3, <2>6, <3>1, NowResting
    <3>3. Continue(s, NIL, a.tip)
      BY <2>4, <2>6
    <3> QED
      BY <2>3, <3>2, <3>3, NothingLeft
  <2> QED
    BY <1>1, <2>5, <2>6
<1> QED
  BY <1>2, <1>3, <1>4

\* The options do not change, so what is sound before a step in these options is so after it.
LEMMA InvKept ==
  ASSUME TcpIInv, topt' = topt, turn' \in {"wait", "io", "drain", "timeout"}, Sound(mt'), ActOK(mt', act')
  PROVE  TcpIInv'
<1>1. Sound(mt)'
  BY DEF Sound, ClientSound, PacketsOK, Limited
<1>2. ActOK(mt, act)'
  BY DEF ActOK, Ready, Only, Looked, Pended
<1> QED
  BY <1>1, <1>2 DEF TcpIInv

LEMMA PassSound ==
  ASSUME TcpIInv, NEW action \in TcpActions, ActionPass(action)
  PROVE  TcpIInv'
<1>1. topt \in TcpOptions /\ Sound(mt) /\ ActOK(mt, act) /\ act.action # "UNDEF"
  BY DEF TcpIInv, ActionPass, TcpActions
<1>2. PICK a \in Waited(act) :
        IF a.action = "UNDEF" THEN mt' = [mt EXCEPT !.abort = "blocking"] /\ act' = Idle
        ELSE \E o \in multi_tcp_dispatch(mt, a.mi, a.action) : Finish(o, close_touched(o), a)
  BY DEF ActionPass
<1>3. a.mi = act.mi /\ a.tip \in BOOLEAN /\ a.action \in Polled(act.action)
  BY <1>1, WaitedIs
<1>4. a.action # "UNDEF"
  BY <1>1, <1>3 DEF Polled
<1>5. PICK o \in multi_tcp_dispatch(mt, a.mi, a.action) : Finish(o, close_touched(o), a)
  BY <1>2, <1>4
<1>6. Done(o, a.mi)
  BY <1>1, <1>3, <1>5, DispatchDone
<1>7. Sound(mt') /\ ActOK(mt', act')
  BY <1>1, <1>3, <1>5, <1>6, FinishSound
<1>8. topt' = topt /\ turn' = turn
  BY DEF ActionPass
<1> QED
  BY <1>7, <1>8, InvKept DEF TcpIInv

-----------------------------------------------------------------------------
(* The event loop.                                                           *)

\* Between two runs of multi_tcp_action all clients rest.
LEMMA InLoopIs ==
  ASSUME TcpIInv, NEW stage, InLoop(stage)
  PROVE  topt \in TcpOptions /\ Sound(mt) /\ Only(mt, NIL) /\ ActOK(mt, act) /\ act.action = "UNDEF"
BY DEF TcpIInv, InLoop, ActOK

LEMMA IdleKept ==
  ASSUME NEW s, NEW t, NEW a, ActOK(s, a), a.action = "UNDEF", Only(t, NIL)
  PROVE  ActOK(t, a)
BY DEF ActOK

\* Other events are reported, another client is to be woken.
LEMMA EventsSound ==
  ASSUME NEW s, Sound(s), NEW E \in SUBSET Event, \A e \in E : e.who \in Client => s.inst[e.who].live,
         NEW t \in TcpStates, t.inst = s.inst, t.pending = s.pending, t.mbuf = s.mbuf, t.overtaken = s.overtaken,
         t.esr = E, t.wakeup \in LiveTcp(s) \cup {NIL}
  PROVE  Sound(t) /\ LiveTcp(t) = LiveTcp(s) /\ (Only(s, NIL) => Only(t, NIL))
<1>1. LiveTcp(t) = LiveTcp(s)
  BY DEF LiveTcp
<1>2. Sound(t)
  BY <1>1 DEF Sound
<1> QED
  BY <1>1, <1>2 DEF Only

LEMMA TakeSound ==
  ASSUME Sound(mt), Only(mt, NIL), NEW E \in SUBSET mt.esr, NEW t, t = [mt EXCEPT !.esr = E]
  PROVE  Sound(t) /\ LiveTcp(t) = LiveTcp(mt) /\ Only(t, NIL) /\ t.inst = mt.inst
<1>1. mt \in TcpStates /\ mt.esr \in SUBSET Event /\ mt.wakeup \in LiveTcp(mt) \cup {NIL}
      /\ \A e \in mt.esr : e.who \in Client => mt.inst[e.who].live
  BY StateFields DEF Sound
<1>2. E \in SUBSET Event
  BY <1>1
<1>3. /\ t \in TcpStates /\ t.inst = mt.inst /\ t.pending = mt.pending /\ t.mbuf = mt.mbuf
      /\ t.overtaken = mt.overtaken /\ t.esr = E /\ t.wakeup = mt.wakeup
  BY <1>1, <1>2 DEF TcpStates
<1>4. \A e \in E : e.who \in Client => mt.inst[e.who].live
  BY <1>1
<1> QED
  BY <1>1, <1>2, <1>3, <1>4, EventsSound

\* What a run of multi_tcp_action knows of a resting client.
LEMMA RestingReady ==
  ASSUME topt \in TcpOptions, NEW s, Sound(s), Only(s, NIL), NEW i \in LiveTcp(s),
         NEW action \in {"SOCKET_READ", "SOCKET_WRITE_READY", "SOCKET_WRITE"},
         action = "SOCKET_WRITE" => Peeked(s.mbuf) = i, NEW poll \in BOOLEAN, poll => action = "SOCKET_WRITE",
         NEW a, a = [mi |-> i, action |-> action, poll |-> poll, tip |-> FALSE]
  PROVE  ActOK(s, a)
<1>1. i \in Client /\ i # NIL
  BY TcpConstants DEF LiveTcp
<1>2. s.pending = NIL /\ Resting(s.inst[i]) /\ Only(s, i)
  BY <1>1, OnlyNil
<1>3. Looked(s.inst[i])
  BY <1>2, RestingLooked
<1>4. Pended(s, i) /\ ~s.inst[i].sig
  BY <1>1, <1>2 DEF Pended, AnyOut, TunOut, LinkOut, Resting
<1>5. Ready(s, i, action)
  BY <1>2, <1>3, <1>4 DEF Ready
<1>6. /\ a \in [mi : Client \cup {NIL}, action : TcpActions \cup {"UNDEF"}, poll : BOOLEAN, tip : BOOLEAN]
      /\ a.mi = i /\ a.action = action /\ a.poll = poll
  <2>1. action \in TcpActions \cup {"UNDEF"} /\ i \in Client \cup {NIL} /\ FALSE \in BOOLEAN
    BY <1>1 DEF TcpActions
  <2> QED
    BY <2>1
<1> QED
  BY <1>1, <1>2, <1>5, <1>6 DEF ActOK

LEMMA WaitSound ==
  ASSUME TcpIInv, WaitTcp
  PROVE  TcpIInv'
<1>1. topt \in TcpOptions /\ Sound(mt) /\ Only(mt, NIL) /\ ActOK(mt, act) /\ act.action = "UNDEF"
  BY InLoopIs DEF WaitTcp
<1>2. PICK w \in {NIL} \cup LiveTcp(mt),
          E \in SUBSET ({[who |-> i, rw |-> mt.inst[i].rw] : i \in {i \in LiveTcp(mt) : mt.inst[i].rw # "none"}}
                        \cup {[who |-> x, rw |-> "READ"] : x \in {"TUN", "SOCKET", "MANAGEMENT"}}) :
        /\ mt' = [mt EXCEPT !.wakeup = w, !.esr = E]
        /\ turn' = IF E = {} THEN "timeout" ELSE "io"
        /\ IF E = {} THEN Started(NIL, "TIMEOUT", FALSE) ELSE UNCHANGED act
  BY DEF WaitTcp
<1>3. mt \in TcpStates /\ \A i \in Client : mt.inst[i].rw \in {"none", "READ", "WRITE"}
  BY <1>1, StateFields, ClientFields DEF Sound
<1>4. ASSUME NEW e \in E PROVE e \in Event /\ (e.who \in Client => mt.inst[e.who].live)
  <2>1. CASE \E i \in LiveTcp(mt) : mt.inst[i].rw # "none" /\ e = [who |-> i, rw |-> mt.inst[i].rw]
    <3>1. PICK i \in LiveTcp(mt) : mt.inst[i].rw # "none" /\ e = [who |-> i, rw |-> mt.inst[i].rw]
      BY <2>1
    <3>2. i \in Client /\ mt.inst[i].live /\ mt.inst[i].rw \in {"READ", "WRITE"}
      BY <1>3, <3>1 DEF LiveTcp
    <3> QED
      BY <3>1, <3>2 DEF Event
  <2>2. CASE \E x \in {"TUN", "SOCKET", "MANAGEMENT"} : e = [who |-> x, rw |-> "READ"]
    <3>1. PICK x \in {"TUN", "SOCKET", "MANAGEMENT"} : e = [who |-> x, rw |-> "READ"]
      BY <2>2
    <3>2. x \notin Client
      BY MultiTcpAssumption
    <3> QED
      BY <3>1, <3>2 DEF Event
  <2> QED
    BY <1>2, <2>1, <2>2
<1>5. w \in Client \cup {NIL} /\ w \in LiveTcp(mt) \cup {NIL} /\ E \in SUBSET Event
  BY <1>4 DEF LiveTcp
<1>6. PICK t : t = mt'
  OBVIOUS
<1>7. /\ t \in TcpStates /\ t.inst = mt.inst /\ t.pending = mt.pending /\ t.mbuf = mt.mbuf
      /\ t.overtaken = mt.overtaken /\ t.esr = E /\ t.wakeup = w
  BY <1>2, <1>3, <1>5, <1>6 DEF TcpStates
<1>8. Sound(t) /\ Only(t, NIL)
  BY <1>1, <1>4, <1>5, <1>7, EventsSound
<1>9. ActOK(t, act')
  <2>1. CASE E = {}
    <3>1. act' = [mi |-> NIL, action |-> "TIMEOUT", poll |-> FALSE, tip |-> FALSE]
      BY <1>2, <2>1 DEF Started
    <3> QED
      BY <1>8, <3>1, RestStart
  <2>2. CASE E # {}
    <3>1. act' = act
      BY <1>2, <2>2
    <3> QED
      BY <1>1, <1>8, <3>1, IdleKept
  <2> QED
    BY <2>1, <2>2
<1>10. topt' = topt /\ turn' \in {"wait", "io", "drain", "timeout"}
  BY <1>2 DEF WaitTcp
<1> QED
  BY <1>6, <1>8, <1>9, <1>10, InvKept

LEMMA StageSound ==
  ASSUME TcpIInv, EndOfTimeout \/ EndOfEvents
  PROVE  TcpIInv'
<1>1. UNCHANGED <<topt, mt, act>> /\ turn' \in {"wait", "io", "drain", "timeout"}
  BY DEF EndOfTimeout, EndOfEvents
<1>2. Sound(mt') /\ ActOK(mt', act')
  BY <1>1 DEF TcpIInv
<1> QED
  BY <1>1, <1>2, InvKept

LEMMA DrainSound ==
  ASSUME TcpIInv, Drain
  PROVE  TcpIInv'
<1>1. /\ topt \in TcpOptions /\ Sound(mt) /\ Only(mt, NIL) /\ ActOK(mt, act) /\ act.action = "UNDEF"
      /\ topt' = topt /\ mt' = mt
  BY InLoopIs DEF Drain
<1>2. CASE Peeked(mt.mbuf) = NIL
  <2>1. turn' = "wait" /\ act' = act
    BY <1>2 DEF Drain
  <2> QED
    BY <1>1, <2>1, InvKept
<1>3. CASE Peeked(mt.mbuf) # NIL
  <2>1. PICK i : i = Peeked(mt.mbuf)
    OBVIOUS
  <2>2. mt.mbuf \in Seq(Client \cup {NIL}) /\ \A n \in 1 .. Len(mt.mbuf) : mt.mbuf[n] \in LiveTcp(mt) \cup {NIL}
    BY <1>1, StateFields DEF Sound
  <2>3. \E k \in 1 .. Len(mt.mbuf) : i = mt.mbuf[k]
    BY <1>3, <2>1, <2>2, PeekedIs
  <2>4. i \in LiveTcp(mt)
    BY <1>3, <2>1, <2>2, <2>3
  <2>5. act' = [mi |-> i, action |-> "SOCKET_WRITE", poll |-> TRUE, tip |-> FALSE] /\ turn' = turn
    BY <1>3, <2>1 DEF Drain, Started
  <2>6. ActOK(mt, act')
    BY <1>1, <2>1, <2>4, <2>5, RestingReady
  <2> QED
    BY <1>1, <2>5, <2>6, InvKept DEF TcpIInv
<1> QED
  BY <1>2, <1>3

LEMMA ClientEventSound ==
  ASSUME TcpIInv, NEW e \in mt.esr, ClientEvent(e)
  PROVE  TcpIInv'
<1>1. topt \in TcpOptions /\ Sound(mt) /\ Only(mt, NIL) /\ ActOK(mt, act) /\ act.action = "UNDEF"
  BY InLoopIs DEF ClientEvent
<1>2. PICK t : t = mt'
  OBVIOUS
<1>3. mt.esr \ {e} \in SUBSET mt.esr /\ t = [mt EXCEPT !.esr = mt.esr \ {e}]
  BY <1>2 DEF ClientEvent, Take
<1>4. Sound(t) /\ LiveTcp(t) = LiveTcp(mt) /\ Only(t, NIL) /\ t.inst = mt.inst
  BY <1>1, <1>3, TakeSound
<1>5. PICK i : i = e.who
  OBVIOUS
<1>6. i \in LiveTcp(t)
  BY <1>1, <1>4, <1>5 DEF ClientEvent, Sound, LiveTcp
<1>7. PICK action \in {"SOCKET_READ", "SOCKET_WRITE_READY"} :
        act' = [mi |-> i, action |-> action, poll |-> FALSE, tip |-> FALSE]
  BY <1>5 DEF ClientEvent, Started
<1>8. ActOK(t, act')
  BY <1>1, <1>4, <1>6, <1>7, RestingReady
<1>9. topt' = topt /\ turn' \in {"wait", "io", "drain", "timeout"}
  BY DEF ClientEvent, TcpIInv
<1> QED
  BY <1>2, <1>4, <1>8, <1>9, InvKept

LEMMA TunEventSound ==
  ASSUME TcpIInv, NEW e \in mt.esr, TunEvent(e)
  PROVE  TcpIInv'
<1>1. topt \in TcpOptions /\ Sound(mt) /\ Only(mt, NIL) /\ ActOK(mt, act) /\ act.action = "UNDEF"
  BY InLoopIs DEF TunEvent
<1>2. PICK t : t = mt'
  OBVIOUS
<1>3. mt.esr \ {e} \in SUBSET mt.esr /\ t = [mt EXCEPT !.esr = mt.esr \ {e}]
  BY <1>2 DEF TunEvent, Take
<1>4. Sound(t) /\ Only(t, NIL)
  BY <1>1, <1>3, TakeSound
<1>5. act' = [mi |-> NIL, action |-> "TUN_READ", poll |-> FALSE, tip |-> FALSE]
  BY DEF TunEvent, Started
<1>6. ActOK(t, act')
  BY <1>4, <1>5, RestStart
<1>7. topt' = topt /\ turn' \in {"wait", "io", "drain", "timeout"}
  BY DEF TunEvent, TcpIInv
<1> QED
  BY <1>2, <1>4, <1>6, <1>7, InvKept

LEMMA ManagementEventSound ==
  ASSUME TcpIInv, NEW e \in mt.esr, ManagementEvent(e)
  PROVE  TcpIInv'
<1>1. topt \in TcpOptions /\ Sound(mt) /\ Only(mt, NIL) /\ ActOK(mt, act) /\ act.action = "UNDEF"
  BY InLoopIs DEF ManagementEvent
<1>2. PICK t : t = Take(e)
  OBVIOUS
<1>3. mt.esr \ {e} \in SUBSET mt.esr /\ t = [mt EXCEPT !.esr = mt.esr \ {e}]
  BY <1>2 DEF Take
<1>4. Sound(t) /\ Only(t, NIL)
  BY <1>1, <1>3, TakeSound
<1>5. PICK u : u = mt'
  OBVIOUS
<1>6. Sound(u) /\ Only(u, NIL)
  <2>1. CASE u = t
    BY <1>4, <2>1
  <2>2. CASE \E i \in LiveTcp(mt) : u = multi_close_instance_tcp(t, {i})
    <3>1. PICK i \in LiveTcp(mt) : u = multi_close_instance_tcp(t, {i})
      BY <2>2
    <3>2. {i} \in SUBSET Client /\ t \in TcpStates /\ NIL \in Client \cup {NIL}
      BY <1>4 DEF LiveTcp, Sound
    <3>3. Sound(u) /\ IsClosed(t, {i}, u)
      BY <1>1, <1>4, <3>1, <3>2, CloseSound
    <3>4. Only(u, NIL)
      BY <1>1, <1>4, <3>2, <3>3, CloseOnly
    <3> QED
      BY <3>3, <3>4
  <2> QED
    BY <1>2, <1>5, <2>1, <2>2 DEF ManagementEvent
<1>7. topt' = topt /\ act' = act /\ turn' \in {"wait", "io", "drain", "timeout"}
  BY DEF ManagementEvent, TcpIInv
<1>8. ActOK(u, act')
  BY <1>1, <1>6, <1>7, IdleKept
<1> QED
  BY <1>5, <1>6, <1>7, <1>8, InvKept

\* The record of a client that was just accepted.
LEMMA NewClientIs ==
  ASSUME topt \in TcpOptions, NEW y, y = [NoClient EXCEPT !.live = TRUE]
  PROVE  ClientSound(y) /\ y.live /\ ~y.formed /\ y.res = 0
<1>1. /\ NoClient.sig = FALSE /\ NoClient.formed = FALSE /\ NoClient.res = 0 /\ NoClient.link = 0
      /\ NoClient.deferred = <<>> /\ NoClient.ctl = 0
  BY DEF NoClient
<1>2. NoClient \in TcpClients
  BY NoClientIs DEF ClientSound
<1>3. /\ y \in TcpClients /\ y.live = TRUE /\ y.sig = FALSE /\ y.formed = FALSE /\ y.res = 0 /\ y.link = 0
      /\ y.deferred = <<>> /\ y.ctl = 0
  BY <1>1, <1>2 DEF TcpClients
<1>4. QueueLimit \in Nat /\ topt.n_bcast_buf \in Nat
  BY TcpConstants
<1>5. PacketsOK(y)
  BY <1>3, <1>4 DEF PacketsOK
<1> QED
  BY <1>3, <1>5 DEF ClientSound

LEMMA AcceptSound ==
  ASSUME topt \in TcpOptions, NEW s, Sound(s), Only(s, NIL), NEW i \in Client \ LiveTcp(s),
         NEW y, y = [NoClient EXCEPT !.live = TRUE], NEW t, t = PutInst(s, i, y)
  PROVE  Sound(t) /\ i \in LiveTcp(t) /\ Only(t, i) /\ t.inst[i] = y
<1>1. ClientSound(y) /\ y.live /\ y \in TcpClients
  BY NewClientIs DEF ClientSound
<1>2. s \in TcpStates /\ s.pending = NIL /\ Only(s, i)
  BY OnlyNil DEF Sound
<1>3. IsPut(s, i, y, t)
  BY <1>1, <1>2, PutInstIs
<1>4. t.inst[i] = y /\ \A j \in Client \ {i} : t.inst[j] = s.inst[j]
  BY <1>3 DEF IsPut
<1>5. LiveTcp(s) \subseteq LiveTcp(t) /\ i \in LiveTcp(t)
  BY <1>1, <1>4 DEF LiveTcp
<1>6. \A j \in Client : ClientSound(t.inst[j])
  BY <1>1, <1>4 DEF Sound
<1>7. \A j \in Client : s.inst[j].live => t.inst[j].live
  BY <1>1, <1>4
<1>8. Sound(t)
  BY <1>3, <1>5, <1>6, <1>7 DEF Sound, IsPut
<1>9. Only(t, i)
  BY <1>1, <1>2, PutInstOnly
<1> QED
  BY <1>4, <1>5, <1>8, <1>9

LEMMA AcceptEventSound ==
  ASSUME TcpIInv, NEW e \in mt.esr, AcceptEvent(e)
  PROVE  TcpIInv'
<1>1. topt \in TcpOptions /\ Sound(mt) /\ Only(mt, NIL) /\ ActOK(mt, act) /\ act.action = "UNDEF"
  BY InLoopIs DEF AcceptEvent
<1>2. mt \in TcpStates
  BY <1>1 DEF Sound
<1>3. topt' = topt /\ turn' \in {"wait", "io", "drain", "timeout"}
  BY DEF AcceptEvent, TcpIInv
<1>4. CASE mt' = [Take(e) EXCEPT !.esr = {}] /\ act' = act
  <2>1. PICK t : t = mt'
    OBVIOUS
  <2>2. {} \in SUBSET mt.esr /\ t = [mt EXCEPT !.esr = {}]
    BY <1>4, <2>1 DEF Take
  <2>3. Sound(t) /\ Only(t, NIL)
    BY <1>1, <2>2, TakeSound
  <2>4. ActOK(t, act')
    BY <1>1, <1>4, <2>3, IdleKept
  <2> QED
    BY <1>3, <2>1, <2>3, <2>4, InvKept
<1>5. ASSUME NEW i \in Client \ LiveTcp(mt), Started(i, "INITIAL", FALSE),
             mt' \in multi_process_post_tcp([Take(e) EXCEPT !.inst[i] = [NoClient EXCEPT !.live = TRUE]], i)
      PROVE  TcpIInv'
  <2>1. PICK s : s = Take(e)
    OBVIOUS
  <2>2. mt.esr \ {e} \in SUBSET mt.esr /\ s = [mt EXCEPT !.esr = mt.esr \ {e}]
    BY <2>1 DEF Take
  <2>3. Sound(s) /\ LiveTcp(s) = LiveTcp(mt) /\ Only(s, NIL)
    BY <1>1, <2>2, TakeSound
  <2>4. PICK y : y = [NoClient EXCEPT !.live = TRUE]
    OBVIOUS
  <2>5. PICK t : t = PutInst(s, i, y)
    OBVIOUS
  <2>6. i \in Client \ LiveTcp(s)
    BY <2>3
  <2>7. Sound(t) /\ i \in LiveTcp(t) /\ Only(t, i) /\ t.inst[i] = y
    BY <1>1, <2>3, <2>4, <2>5, <2>6, AcceptSound
  <2>8. y.live /\ ~y.formed /\ y.res = 0
    BY <1>1, <2>4, NewClientIs
  <2>9. PICK u : u = mt'
    OBVIOUS
  <2>10. u \in multi_process_post_tcp(t, i)
    BY <1>5, <2>1, <2>4, <2>5, <2>9 DEF PutInst
  <2>11. i \in Client /\ i # NIL /\ t.inst[i].live
    BY <1>1, <2>7, <2>8, TcpConstants
  <2>12. Sound(u) /\ Only(u, i) /\ PostKept(y, u.inst[i])
    BY <1>1, <2>7, <2>10, <2>11, PostIs
  <2>13. i \in LiveTcp(u) /\ ~u.inst[i].formed /\ Looked(u.inst[i])
    <3>1. u.inst[i].live = y.live /\ u.inst[i].res = y.res /\ u.inst[i].formed = y.formed
      BY <2>12 DEF PostKept, SameInput
    <3>2. ~u.inst[i].formed /\ u.inst[i].res = 0
      BY <2>8, <3>1
    <3>3. i \in LiveTcp(u)
      BY <2>8, <2>11, <3>1 DEF LiveTcp
    <3> QED
      BY <3>2, <3>3 DEF Looked
  <2>14. Ready(u, i, "INITIAL")
    BY <2>13 DEF Ready
  <2>15. /\ act' \in [mi : Client \cup {NIL}, action : TcpActions \cup {"UNDEF"}, poll : BOOLEAN, tip : BOOLEAN]
         /\ act'.mi = i /\ act'.action = "INITIAL" /\ act'.poll = FALSE
    BY <1>5, <2>11 DEF Started, TcpActions
  <2>16. ActOK(u, act')
    BY <2>11, <2>12, <2>13, <2>14, <2>15 DEF ActOK
  <2> QED
    BY <1>3, <2>9, <2>12, <2>16, InvKept
<1> QED
  BY <1>4, <1>5 DEF AcceptEvent

-----------------------------------------------------------------------------
(* The invariant.                                                            *)

LEMMA TcpInitSound ==
  ASSUME TcpInit
  PROVE  TcpIInv
<1>1. topt \in TcpOptions /\ turn \in {"wait", "io", "drain", "timeout"} /\ act = Idle
  BY DEF TcpInit
<1>2. ClientSound(NoClient) /\ Resting(NoClient) /\ ~NoClient.live
  BY <1>1, NoClientIs
<1>3. /\ \A i \in Client : mt.inst[i] = NoClient
      /\ mt.pending = NIL /\ mt.mbuf = <<>> /\ mt.wakeup = NIL /\ mt.esr = {} /\ mt.overtaken = FALSE
  BY DEF TcpInit
<1>4. mt \in TcpStates
  <2>1. NoClient \in TcpClients
    BY <1>2 DEF ClientSound
  <2>2. mt.inst \in [Client -> TcpClients]
    BY <2>1 DEF TcpInit
  <2> QED
    BY <2>2 DEF TcpInit, TcpStates
<1>5. topt.n_bcast_buf \in Nat
  BY <1>1, TcpConstants
<1>6. Sound(mt)
  BY <1>2, <1>3, <1>4, <1>5 DEF Sound
<1>7. Only(mt, NIL)
  BY <1>2, <1>3 DEF Only
<1>8. ActOK(mt, act)
  BY <1>1, <1>6, <1>7, RestContinue
<1> QED
  BY <1>1, <1>6, <1>8 DEF TcpIInv

LEMMA TcpNextSound ==
  ASSUME TcpIInv, [TcpNext]_tcpVars
  PROVE  TcpIInv'
<1>1. CASE TcpNext
  <2>1. CASE WaitTcp
    BY <2>1, WaitSound
  <2>2. CASE EndOfTimeout \/ EndOfEvents
    BY <2>2, StageSound
  <2>3. CASE Drain
    BY <2>3, DrainSound
  <2>4. ASSUME NEW e \in mt.esr, ClientEvent(e) \/ TunEvent(e) \/ ManagementEvent(e) \/ AcceptEvent(e)
        PROVE  TcpIInv'
    BY <2>4, ClientEventSound, TunEventSound, ManagementEventSound, AcceptEventSound
  <2>5. ASSUME NEW a \in TcpActions, ActionPass(a)
        PROVE  TcpIInv'
    BY <2>5, PassSound
  <2> QED
    BY <1>1, <2>1, <2>2, <2>3, <2>4, <2>5 DEF TcpNext
<1>2. CASE UNCHANGED tcpVars
  <2>1. topt' = topt /\ mt' = mt /\ act' = act /\ turn' = turn
    BY <1>2 DEF tcpVars
  <2>2. Sound(mt') /\ ActOK(mt', act') /\ turn' \in {"wait", "io", "drain", "timeout"}
    BY <2>1 DEF TcpIInv
  <2> QED
    BY <2>1, <2>2, InvKept
<1> QED
  BY <1>1, <1>2

LEMMA SeqBounded ==
  ASSUME NEW S, NEW q \in Seq(S), NEW T, NEW n \in Nat, Len(q) <= n, \A k \in 1 .. Len(q) : q[k] \in T
  PROVE  q \in BoundedSeq(T, n)
<1>1. Len(q) \in 0 .. n /\ q = [k \in 1 .. Len(q) |-> q[k]]
  OBVIOUS
<1>2. q \in [1 .. Len(q) -> T]
  BY <1>1
<1> QED
  BY <1>1, <1>2 DEF BoundedSeq, SeqOf

LEMMA ClientTyped ==
  ASSUME topt \in TcpOptions, NEW x, ClientSound(x)
  PROVE  x \in [live : BOOLEAN, sig : BOOLEAN, est : BOOLEAN, res : 0 .. 1,
                formed : BOOLEAN, link : 0 .. topt.n_bcast_buf + 1, tun : BOOLEAN,
                deferred : BoundedSeq(1 .. topt.n_bcast_buf + 1, topt.n_bcast_buf), ctl : 0 .. CtlBudget,
                rw : {"none", "READ", "WRITE"}]
<1>1. x \in TcpClients /\ PacketsOK(x)
  BY DEF ClientSound
<1>2. topt.n_bcast_buf \in Nat /\ x.deferred \in Seq(Nat) /\ Len(x.deferred) \in Nat /\ x.link \in Nat
  BY <1>1, TcpConstants, ClientFields
<1>3. /\ Len(x.deferred) <= topt.n_bcast_buf
      /\ \A n \in 1 .. Len(x.deferred) : x.deferred[n] \in 1 .. topt.n_bcast_buf + 1
  BY <1>1, <1>2 DEF PacketsOK
<1>4. x.deferred \in BoundedSeq(1 .. topt.n_bcast_buf + 1, topt.n_bcast_buf)
  BY <1>2, <1>3, SeqBounded
<1>5. x.link \in 0 .. topt.n_bcast_buf + 1
  BY <1>1, <1>2, <1>3 DEF PacketsOK
<1> QED
  BY <1>1, <1>4, <1>5 DEF TcpClients

LEMMA TcpTyped ==
  ASSUME TcpIInv
  PROVE  TcpTypeOK
<1>1. topt \in TcpOptions /\ turn \in {"wait", "io", "drain", "timeout"} /\ Sound(mt) /\ mt \in TcpStates
  BY DEF TcpIInv, Sound
<1>2. /\ mt.inst \in [Client -> TcpClients] /\ mt.pending \in Client \cup {NIL} /\ mt.wakeup \in Client \cup {NIL}
      /\ mt.mbuf \in Seq(Client \cup {NIL}) /\ mt.esr \subseteq Event
  BY <1>1, StateFields
<1>3. \A i \in Client : ClientSound(mt.inst[i])
  BY <1>1 DEF Sound
<1> DEFINE R == [live : BOOLEAN, sig : BOOLEAN, est : BOOLEAN, res : 0 .. 1,
                 formed : BOOLEAN, link : 0 .. topt.n_bcast_buf + 1, tun : BOOLEAN,
                 deferred : BoundedSeq(1 .. topt.n_bcast_buf + 1, topt.n_bcast_buf), ctl : 0 .. CtlBudget,
                 rw : {"none", "READ", "WRITE"}]
<1>4. \A i \in Client : mt.inst[i] \in R
  BY <1>1, <1>3, ClientTyped
<1> HIDE DEF R
<1>5. mt.inst \in [Client -> R]
  BY <1>2, <1>4
<1>6. mt.mbuf \in BoundedSeq(Client \cup {NIL}, topt.n_bcast_buf)
  <2>1. topt.n_bcast_buf \in Nat /\ Len(mt.mbuf) <= topt.n_bcast_buf
    BY <1>1, TcpConstants DEF Sound
  <2>2. \A k \in 1 .. Len(mt.mbuf) : mt.mbuf[k] \in Client \cup {NIL}
    BY <1>2
  <2> QED
    BY <1>2, <2>1, <2>2, SeqBounded
<1>7. act.mi \in Client \cup {NIL} /\ act.action \in TcpActions \cup {"UNDEF"}
  BY DEF TcpIInv, ActOK
<1> QED
  BY <1>1, <1>2, <1>5, <1>6, <1>7 DEF TcpTypeOK, R

LEMMA TcpHolds ==
  ASSUME TcpIInv
  PROVE  TcpInv
<1>1. topt \in TcpOptions /\ Sound(mt) /\ ActOK(mt, act) /\ mt \in TcpStates
  BY DEF TcpIInv, Sound
<1>2. mt.mbuf \in Seq(Client \cup {NIL}) /\ mt.abort \in {"no", "mbuf"}
  BY <1>1, StateFields
<1>3. TcpNoDangling
  <2>1. {e.who : e \in mt.esr} \cap Client \subseteq LiveTcp(mt)
    BY <1>1 DEF Sound, LiveTcp
  <2>2. ToSet(mt.mbuf) \subseteq LiveTcp(mt) \cup {NIL}
    BY <1>1, <1>2 DEF Sound, ToSet
  <2>3. {act.mi, mt.pending, mt.wakeup} \subseteq LiveTcp(mt) \cup {NIL}
    BY <1>1 DEF Sound, ActOK
  <2> QED
    BY <2>1, <2>2, <2>3 DEF TcpNoDangling
<1>4. TcpAtRest
  <2> SUFFICES ASSUME InLoop("wait") PROVE
         /\ mt.pending = NIL
         /\ \A i \in LiveTcp(mt) :
              /\ ~AnyOut(mt, i) /\ ~mt.inst[i].sig /\ ~mt.inst[i].formed
              /\ mt.inst[i].rw = IF mt.inst[i].deferred # <<>> THEN "WRITE" ELSE "READ"
    BY DEF TcpAtRest
  <2>1. mt.pending = NIL /\ \A i \in Client : Resting(mt.inst[i])
    BY <1>1, InLoopIs, OnlyNil
  <2>2. ASSUME NEW i \in LiveTcp(mt)
        PROVE  /\ ~AnyOut(mt, i) /\ ~mt.inst[i].sig /\ ~mt.inst[i].formed
               /\ mt.inst[i].rw = IF mt.inst[i].deferred # <<>> THEN "WRITE" ELSE "READ"
    <3>1. mt.inst[i].live /\ Resting(mt.inst[i])
      BY <2>1 DEF LiveTcp
    <3> QED
      BY <3>1 DEF Resting, Still, AnyOut, TunOut, LinkOut
  <2> QED
    BY <2>1, <2>2
<1>5. DeferredBounded
  <2> SUFFICES ASSUME Limited, NEW i \in Client PROVE Len(mt.inst[i].deferred) <= QueueLimit + 1 + CtlBudget
    BY DEF DeferredBounded, Limited
  <2>1. PICK x : x = mt.inst[i]
    OBVIOUS
  <2>2. x \in TcpClients /\ PacketsOK(x)
    BY <1>1, <2>1 DEF Sound, ClientSound
  <2>3. x.ctl \in 0 .. CtlBudget /\ x.deferred \in Seq(Nat) /\ Len(x.deferred) \in Nat /\ QueueLimit \in Nat /\ CtlBudget \in Nat
    BY <1>1, <2>2, ClientFields, TcpConstants
  <2>4. Len(x.deferred) + (IF x.link = 0 THEN 0 ELSE 1) <= QueueLimit + 1 + x.ctl
    BY <2>2 DEF PacketsOK
  <2>5. PICK n \in Nat, c \in 0 .. CtlBudget, k \in {0, 1} :
          n = Len(x.deferred) /\ c = x.ctl /\ n + k <= QueueLimit + 1 + c
    <3>1. CASE x.link = 0
      BY <2>3, <2>4, <3>1
    <3>2. CASE x.link # 0
      BY <2>3, <2>4, <3>2
    <3> QED
      BY <3>1, <3>2
  <2>6. n <= QueueLimit + 1 + CtlBudget
    BY <2>3, <2>5
  <2> QED
    BY <2>1, <2>5, <2>6
<1>6. InOrder
  BY <1>1 DEF Sound, InOrder
<1> QED
  BY <1>2, <1>3, <1>4, <1>5, <1>6, TcpTyped DEF TcpInv, TcpAsserts

\* The event loop of the TCP server (multi_tcp_process_io, multi_tcp_action and the handlers they call) keeps TcpInv, for
\* any number of clients, queue limits and options: no assertion but that of mbuf_add_item fails, nothing points to a
\* closed client, no client is left with work and without an event to wake it, packets leave in the order they were
\* encrypted and the queue of deferred packets keeps within its limit.
THEOREM TcpCorrect == TcpSpec => []TcpInv
<1>1. TcpInit => TcpIInv
  BY TcpInitSound
<1>2. TcpIInv /\ [TcpNext]_tcpVars => TcpIInv'
  BY TcpNextSound
<1>3. TcpIInv => TcpInv
  BY TcpHolds
<1> QED
  BY <1>1, <1>2, <1>3, PTL DEF TcpSpec
==============================================================================
