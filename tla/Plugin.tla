------------------------------ MODULE Plugin ------------------------------
(***************************************************************************)
(* The plugin list of plugin.c and the two plugins of the distribution,    *)
(* auth-pam and down-root, each of which keeps a privileged background     *)
(* process at the other end of a datagram socket pair.  The main process   *)
(* calls a plugin and blocks until the background process has answered;    *)
(* background processes may fail or be killed at any time.  Without        *)
(* --daemon: waitpid waits for the background process itself.              *)
(***************************************************************************)
EXTENDS Naturals, Sequences, FiniteSets

CONSTANTS Plugins,     \* --plugin options in order: [kind, accepts], "pam" or "down"
          Clients,     \* whose username and password are verified
          MaxCalls,    \* signals and authentications of a run
          MaxPluginFails  \* failed starts, failed scripts, killed background processes

ASSUME PluginAssumption == Plugins \in Seq([kind : {"pam", "down"}, accepts : SUBSET Clients])

P == 1 .. Len(Plugins)

VARIABLES pl,      \* the context of each plugin: [handle, fd]
          npl,     \* pl->n
          abortable, \* static_plugin_list is set
          prog,    \* where the main process is: [at, i, type, count, user, next]
          bg,      \* the background process of each plugin: [at, user]
          toBg, toFg,
          granted, \* clients for whom plugin_call returned 0
          calls, failures
pluginVars == <<pl, npl, abortable, prog, bg, toBg, toFg, granted, calls, failures>>
---------------------------------------------------------------------------
NoContext == [handle |-> "none", fd |-> FALSE]
NoServer == [at |-> "none", user |-> "none"]
BgAlive(p) == bg[p].at \notin {"none", "exited", "killed"}
Go(at) == prog' = [prog EXCEPT !.at = at]
Fails(b) == failures' = failures + (IF b THEN 1 ELSE 0) /\ failures' <= MaxPluginFails

\* the types a plugin intercepts
Mask(p) == IF Plugins[p].kind = "pam" THEN {"VERIFY"} ELSE {"UP", "DOWN"}

PluginInit ==
    /\ pl = [p \in P |-> NoContext] /\ npl = 0 /\ abortable = FALSE
    /\ prog = [at |-> "start", i |-> 1, type |-> "UP", count |-> 0, user |-> "none", next |-> "run"]
    /\ bg = [p \in P |-> NoServer] /\ toBg = [p \in P |-> <<>>] /\ toFg = [p \in P |-> <<>>]
    /\ granted = {} /\ calls = 0 /\ failures = 0

\* openvpn_exit, plugin_abort: the abort function of each plugin of the list
\* mutant: the abort function closes its socket without a word
PluginAbort_Silent ==
    /\ prog' = [prog EXCEPT !.at = "exit", !.next = "fatal"] /\ abortable' = FALSE /\ toBg' = toBg
    /\ pl' = [p \in P |-> IF abortable /\ p <= npl THEN [handle |-> "aborted", fd |-> FALSE] ELSE pl[p]]
PluginAbort ==
    /\ prog' = [prog EXCEPT !.at = "exit", !.next = "fatal"]
    /\ toBg' = [p \in P |-> IF abortable /\ p <= npl /\ pl[p].fd /\ BgAlive(p) THEN Append(toBg[p], "EXIT") ELSE toBg[p]]
    /\ pl' = [p \in P |-> IF abortable /\ p <= npl THEN [handle |-> IF pl[p].handle = "open" THEN "aborted" ELSE "misused", fd |-> FALSE]
                          ELSE pl[p]]
    /\ abortable' = FALSE

\* plugin_list_open
PluginListOpen ==
    /\ prog.at = "start" /\ prog' = [prog EXCEPT !.at = "open", !.i = 1]
    /\ npl' = 0 /\ abortable' = TRUE
    /\ UNCHANGED <<pl, bg, toBg, toFg, granted, calls, failures>>
Loaded(p, fd, n) ==
    /\ pl' = [pl EXCEPT ![p] = [handle |-> "open", fd |-> fd]]
    /\ npl' = n /\ prog' = [prog EXCEPT !.at = "open", !.i = p + 1]
\* mutant: the plugin counts before it is open
Counted_Early(p) == p
Counted(p) == npl
\* plugin_init_item, openvpn_plugin_open_v1 of down-root: only the context
OpenDownRoot(p) == Loaded(p, FALSE, p) /\ UNCHANGED <<abortable, bg, toBg, toFg>>
\* openvpn_plugin_open_v1 of auth-pam: fork, and wait for the background process
Forked(p) ==
    /\ bg' = [bg EXCEPT ![p] = [at |-> "init", user |-> "none"]]
    /\ toBg' = [toBg EXCEPT ![p] = <<>>] /\ toFg' = [toFg EXCEPT ![p] = <<>>]
OpenAuthPam(p) == Forked(p) /\ Go("openwait") /\ npl' = Counted(p) /\ UNCHANGED <<pl, abortable>>
PluginInitItem(p) ==
    /\ prog.at = "open" /\ prog.i = p
    /\ \/ Fails(FALSE) /\ Plugins[p].kind = "down" /\ OpenDownRoot(p)
       \/ Fails(FALSE) /\ Plugins[p].kind = "pam" /\ OpenAuthPam(p)
       \/ Fails(TRUE) /\ PluginAbort /\ UNCHANGED <<npl, bg, toFg>>   \* cannot be loaded, bad arguments
    /\ UNCHANGED <<granted, calls>>
OpenAnswer(p) ==
    /\ prog.at = "openwait" /\ prog.i = p /\ toFg[p] # <<>>
    /\ toFg' = [toFg EXCEPT ![p] = Tail(@)]
    /\ \/ Head(toFg[p]) = "INIT_SUCCEEDED" /\ Loaded(p, TRUE, p) /\ UNCHANGED <<abortable, toBg>>
       \/ Head(toFg[p]) # "INIT_SUCCEEDED" /\ PluginAbort /\ UNCHANGED npl
    /\ UNCHANGED <<bg, granted, calls, failures>>
\* do_open_tun follows, with PLUGIN_UP
CallStarts(type, user, next) ==
    prog' = [at |-> "call", i |-> 1, type |-> type, count |-> 0, user |-> user, next |-> next]
ListOpened ==
    /\ prog.at = "open" /\ prog.i = Len(Plugins) + 1 /\ CallStarts("UP", "none", "run")
    /\ UNCHANGED <<pl, npl, abortable, bg, toBg, toFg, granted, calls, failures>>
---------------------------------------------------------------------------
\* plugin_call_item: a plugin that does not intercept the type succeeds
Returned(b) == prog' = [prog EXCEPT !.at = "call", !.i = @ + 1, !.count = @ + (IF b THEN 1 ELSE 0)]
Sends(p, msgs) ==
    IF BgAlive(p) THEN toBg' = [toBg EXCEPT ![p] = @ \o msgs] /\ Go("callwait") ELSE Returned(FALSE) /\ UNCHANGED toBg
\* openvpn_plugin_func_v1 of auth-pam
FuncAuthPam(p) ==
    /\ IF pl[p].fd THEN Sends(p, <<"VERIFY", prog.user, prog.user>>) ELSE Returned(FALSE) /\ UNCHANGED toBg
    /\ UNCHANGED <<bg, toFg>>
\* openvpn_plugin_func_v1 of down-root: the first UP forks
FuncDownRoot(p) ==
    \/ prog.type = "UP" /\ ~pl[p].fd /\ Forked(p) /\ Go("callwait")
    \/ prog.type = "DOWN" /\ pl[p].fd /\ Sends(p, <<"RUN_SCRIPT">>) /\ UNCHANGED <<bg, toFg>>
    \/ prog.type = (IF pl[p].fd THEN "UP" ELSE "DOWN") /\ Returned(FALSE) /\ UNCHANGED <<bg, toBg, toFg>>
PluginCallItem(p) ==
    /\ prog.at = "call" /\ prog.i = p /\ p <= npl
    /\ \/ prog.type \notin Mask(p) /\ Returned(TRUE) /\ UNCHANGED <<bg, toBg, toFg>>
       \/ prog.type \in Mask(p) /\ Plugins[p].kind = "pam" /\ FuncAuthPam(p)
       \/ prog.type \in Mask(p) /\ Plugins[p].kind = "down" /\ FuncDownRoot(p)
    /\ UNCHANGED <<pl, npl, abortable, granted, calls, failures>>
\* recv_control in the plugin
\* mutant: the answer stays in the socket
CallAnswer_Peek(p) ==
    /\ prog.at = "callwait" /\ prog.i = p /\ toFg[p] # <<>>
    /\ Returned(Head(toFg[p]) \in {"INIT_SUCCEEDED", "VERIFY_SUCCEEDED", "SCRIPT_SUCCEEDED"})
    /\ pl' = [pl EXCEPT ![p].fd = @ \/ Head(toFg[p]) = "INIT_SUCCEEDED"]
    /\ UNCHANGED <<npl, abortable, bg, toBg, toFg, granted, calls, failures>>
CallAnswer(p) ==
    /\ prog.at = "callwait" /\ prog.i = p /\ toFg[p] # <<>>
    /\ toFg' = [toFg EXCEPT ![p] = Tail(@)]
    /\ Returned(Head(toFg[p]) \in {"INIT_SUCCEEDED", "VERIFY_SUCCEEDED", "SCRIPT_SUCCEEDED"})
    /\ pl' = [pl EXCEPT ![p].fd = @ \/ Head(toFg[p]) = "INIT_SUCCEEDED"]
    /\ UNCHANGED <<npl, abortable, bg, toBg, granted, calls, failures>>
\* plugin_call: 0 only when all of them returned success
\* mutant: one plugin is enough
AllSucceeded_Any == prog.count > 0
AllSucceeded == prog.count = npl
\* run_up_down (a failure is fatal), verify_user_pass_plugin
PluginCallEnds ==
    /\ prog.at = "call" /\ prog.i = npl + 1
    /\ \/ prog.type = "VERIFY" /\ Go("run")
          /\ granted' = (IF AllSucceeded THEN granted \cup {prog.user} ELSE granted)
          /\ UNCHANGED <<pl, abortable, toBg>>
       \/ prog.type = "UP" /\ AllSucceeded /\ Go("run") /\ UNCHANGED <<pl, abortable, toBg, granted>>
       \/ prog.type = "DOWN" /\ AllSucceeded /\ prog.next = "SIGUSR1" /\ CallStarts("UP", "none", "run")
          /\ UNCHANGED <<pl, abortable, toBg, granted>>
       \/ prog.type = "DOWN" /\ AllSucceeded /\ prog.next # "SIGUSR1" /\ abortable' = FALSE
          /\ prog' = [prog EXCEPT !.at = "close", !.i = 1] /\ UNCHANGED <<pl, toBg, granted>>
       \/ prog.type \in {"UP", "DOWN"} /\ ~AllSucceeded /\ PluginAbort /\ UNCHANGED granted
    /\ UNCHANGED <<npl, bg, toFg, calls, failures>>

\* the tunnel runs: a client authenticates, or a signal ends the instance; do_close_plugins
\* keeps the plugins for SIGUSR1
Authenticate(u) ==
    /\ prog.at = "run" /\ calls < MaxCalls /\ calls' = calls + 1 /\ CallStarts("VERIFY", u, "run")
    /\ UNCHANGED <<pl, npl, abortable, bg, toBg, toFg, granted, failures>>
Signalled(sig) ==
    /\ prog.at = "run" /\ calls < MaxCalls /\ calls' = calls + 1 /\ CallStarts("DOWN", "none", sig)
    /\ UNCHANGED <<pl, npl, abortable, bg, toBg, toFg, granted, failures>>
---------------------------------------------------------------------------
\* plugin_list_close, plugin_close_item, openvpn_plugin_close_v1: ask the background process
\* to exit, wait for it
PluginCloseItem(p) ==
    /\ prog.at = "close" /\ prog.i = p /\ p <= npl
    /\ toBg' = [toBg EXCEPT ![p] = IF pl[p].fd /\ BgAlive(p) THEN Append(@, "EXIT") ELSE @]
    /\ Go("closewait") /\ UNCHANGED <<pl, npl, abortable, bg, toFg, granted, calls, failures>>
CloseWaited(p) ==
    /\ prog.at = "closewait" /\ prog.i = p /\ (pl[p].fd => ~BgAlive(p))
    /\ pl' = [pl EXCEPT ![p] = [handle |-> IF @.handle = "open" THEN "closed" ELSE "misused", fd |-> FALSE]]
    /\ prog' = [prog EXCEPT !.at = "close", !.i = @ + 1]
    /\ UNCHANGED <<npl, abortable, bg, toBg, toFg, granted, calls, failures>>
ListClosed ==
    /\ prog.at = "close" /\ prog.i = npl + 1
    /\ IF prog.next = "SIGHUP" THEN pl' = [p \in P |-> NoContext] /\ npl' = 0 /\ Go("start")
       ELSE Go("exit") /\ UNCHANGED <<pl, npl>>
    /\ UNCHANGED <<abortable, bg, toBg, toFg, granted, calls, failures>>
---------------------------------------------------------------------------
\* the background processes
Answers(p, msg, at) == toFg' = [toFg EXCEPT ![p] = Append(@, msg)] /\ bg' = [bg EXCEPT ![p].at = at]
Takes(p) == toBg[p] # <<>> /\ toBg' = [toBg EXCEPT ![p] = Tail(@)]
\* pam_server, down_root_server: initialisation
ServerInit(p) ==
    /\ bg[p].at = "init"
    /\ \/ Fails(FALSE) /\ Answers(p, "INIT_SUCCEEDED", "loop")
       \/ Fails(TRUE) /\ Plugins[p].kind = "pam" /\ Answers(p, "INIT_FAILED", "exited")
    /\ UNCHANGED toBg
\* the event loop of pam_server: command, username, password, pam_auth
PamCommand(p) ==
    /\ Plugins[p].kind = "pam" /\ bg[p].at = "loop" /\ Takes(p)
    /\ bg' = [bg EXCEPT ![p].at = IF Head(toBg[p]) = "VERIFY" THEN "username" ELSE "exited"]
    /\ UNCHANGED <<toFg, failures>>
PamString(p) ==
    /\ bg[p].at \in {"username", "password"} /\ Takes(p)
    /\ bg' = [bg EXCEPT ![p] = IF @.at = "username" THEN [at |-> "password", user |-> Head(toBg[p])]
                               ELSE [@ EXCEPT !.at = "auth"]]
    /\ UNCHANGED <<toFg, failures>>
\* mutant: nothing is sent when the authentication failed
PamAuth_Silent(p) ==
    /\ bg[p].at = "auth"
    /\ IF bg[p].user \in Plugins[p].accepts THEN Answers(p, "VERIFY_SUCCEEDED", "loop")
       ELSE bg' = [bg EXCEPT ![p].at = "loop"] /\ UNCHANGED toFg
    /\ UNCHANGED <<toBg, failures>>
PamAuth(p) ==
    /\ bg[p].at = "auth"
    /\ Answers(p, IF bg[p].user \in Plugins[p].accepts THEN "VERIFY_SUCCEEDED" ELSE "VERIFY_FAILED", "loop")
    /\ UNCHANGED <<toBg, failures>>
\* the event loop of down_root_server
DownCommand(p) ==
    /\ Plugins[p].kind = "down" /\ bg[p].at = "loop" /\ Takes(p)
    /\ bg' = [bg EXCEPT ![p].at = IF Head(toBg[p]) = "RUN_SCRIPT" THEN "script" ELSE "exited"]
    /\ UNCHANGED <<toFg, failures>>
DownScript(p) ==
    /\ bg[p].at = "script"
    /\ \/ Fails(FALSE) /\ Answers(p, "SCRIPT_SUCCEEDED", "loop")
       \/ Fails(TRUE) /\ Answers(p, "SCRIPT_FAILED", "loop")
    /\ UNCHANGED toBg
Killed(p) == BgAlive(p) /\ Fails(TRUE) /\ bg' = [bg EXCEPT ![p].at = "killed"] /\ UNCHANGED <<toBg, toFg>>

PluginNext ==
    \/ PluginListOpen \/ ListOpened \/ PluginCallEnds \/ ListClosed
    \/ \E p \in P : \/ PluginInitItem(p) \/ OpenAnswer(p) \/ PluginCallItem(p) \/ CallAnswer(p)
                    \/ PluginCloseItem(p) \/ CloseWaited(p)
                    \/ /\ \/ ServerInit(p) \/ PamCommand(p) \/ PamString(p) \/ PamAuth(p)
                          \/ DownCommand(p) \/ DownScript(p) \/ Killed(p)
                       /\ UNCHANGED <<pl, npl, abortable, prog, granted, calls>>
    \/ \E u \in Clients : Authenticate(u)
    \/ \E sig \in {"SIGUSR1", "SIGHUP", "SIGTERM"} : Signalled(sig)
PluginSpec == PluginInit /\ [][PluginNext]_pluginVars
---------------------------------------------------------------------------
\* Type invariant.
PluginTypeOK ==
    /\ pl \in [P -> [handle : {"none", "open", "closed", "aborted", "misused"}, fd : BOOLEAN]]
    /\ npl \in 0 .. Len(Plugins) /\ prog.i \in 1 .. Len(Plugins) + 1 /\ prog.count \in 0 .. Len(Plugins)
    /\ \A p \in P : Len(toBg[p]) <= 4 /\ Len(toFg[p]) <= 1

\* A client is authenticated only if the PAM service of every auth-pam plugin accepted that
\* client (openvpn-plugin.h: "every module and script must return success"), whatever was
\* asked, answered or killed before.
GrantedByAll == \A u \in granted, p \in P : Plugins[p].kind = "pam" => u \in Plugins[p].accepts

\* Each handle that a plugin's open function returned is closed or aborted once, and no
\* other handle is: when a plugin fails to open, the program aborts those before it.
HandlesEndOnce ==
    /\ \A p \in P : pl[p].handle # "misused"
    /\ prog.at = "exit" => \A p \in P : pl[p].handle # "open" /\ ~pl[p].fd

\* The main process waits for an answer only while its background process has one to give,
\* or was killed (then it waits for ever: the read of a datagram socket sees no end).
AnswerOwed ==
    prog.at \in {"openwait", "callwait"} =>
        \/ toFg[prog.i] # <<>> \/ toBg[prog.i] # <<>>
        \/ bg[prog.i].at \notin {"loop", "exited", "none"}

\* No privileged background process outlives the program: once it ended, every one has
\* exited or will read the command to exit.
NoOrphan ==
    prog.at = "exit" => \A p \in P : BgAlive(p) => bg[p].at = "loop" /\ toBg[p] = <<"EXIT">>

\* The two processes of a plugin and the list that calls them: nobody is let in whom one
\* of them refused, nobody waits in vain, and nothing privileged outlives the program.
PluginInv == PluginTypeOK /\ GrantedByAll /\ HandlesEndOnce /\ AnswerOwed /\ NoOrphan
=============================================================================
