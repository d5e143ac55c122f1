----------------------------- MODULE Management -----------------------------
(* The management interface, manage.c: one TCP client at a time, served by   *)
(* the event loop of the tunnel, or by loops of its own while the program is *)
(* outside of that loop (a hold, a query for a password, a sleep).           *)
(*                                                                           *)
(* A message to the client (msg with M_CLIENT) is queued and left to the     *)
(* event loop while standalone_disabled is set; else it is written at once,  *)
(* in a loop in which the client may be lost.  Functions that send messages  *)
(* therefore return the set of states they may leave behind.  Connections    *)
(* are named alternately "a" and "b", so that what one left behind can be    *)
(* told from what belongs to the next.                                       *)
EXTENDS Integers, FiniteSets, Sequences, SequencesExt

CONSTANTS
  ManOptions,      \* [pw, hold, over_tunnel, sleeps]: a password file; --management-hold;
                   \* --management tunnel; the event loop may sleep (do_up reopens the tun device)
  Commands,        \* command lines that clients send
  MaxOut,          \* messages queued for the client (the list itself is unbounded)
  N_PASSWORD_RETRIES

ASSUME ManagementAssumption ==
  /\ MaxOut \in Nat \ {0} /\ N_PASSWORD_RETRIES \in Nat \ {0}
  /\ ManOptions \subseteq [pw : BOOLEAN, hold : BOOLEAN, over_tunnel : BOOLEAN, sleeps : BOOLEAN]

VARIABLES
  mset,    \* struct man_settings
  man,     \* struct man_connection and struct man_persist
  at       \* where the program is: [loop, ret, save], see Positions

manVars == <<mset, man, at>>

(* "main": outside of the event loop; "event": in it; the others are the     *)
(* loops of manage.c: waiting for a client, then serving it.  ret is where   *)
(* they return to, save is the standalone_disabled they found.               *)
Positions == {"start", "main", "event", "hold_wait", "hold", "query_wait", "query", "sleep_wait", "sleep", "exit"}

ConnectionClear(s) ==
  [s EXCEPT !.st = "INITIAL", !.who = "none", !.out = <<>>, !.in = "none", !.verified = FALSE, !.tries = 0,
            !.halt = FALSE, !.log = FALSE, !.mode = "disabled", !.user = FALSE, !.pass = FALSE]

ClientConnected(s) == s.st \in {"READ", "WRITE"}
PasswordNeeded(s) == mset.pw /\ ~s.verified
StandaloneOk(s) == ~mset.over_tunnel /\ s.st # "INITIAL"

----------------------------------------------------------------------------
(* Sockets and output.                                                       *)

\* mutant: the next client inherits the input buffer
reset_client_KeepInput(s, listen) ==
  IF s.who = "none" THEN s
  ELSE [s EXCEPT !.out = <<>>, !.who = IF listen THEN "none" ELSE @, !.st = IF listen THEN "LISTEN" ELSE @]
\* man_reset_client_socket and man_listen
man_reset_client_socket(s, listen) ==
  IF s.who = "none" THEN s
  ELSE [s EXCEPT !.in = "none", !.out = <<>>, !.who = IF listen THEN "none" ELSE @,
                 !.st = IF listen THEN "LISTEN" ELSE @]

\* mutant: the state follows the queue only when the client is served
update_io_state_Lazy(s) == s
man_update_io_state(s) ==
  IF s.who = "none" THEN s ELSE [s EXCEPT !.st = IF s.out = <<>> THEN "READ" ELSE "WRITE"]

\* man_output_standalone: written to the end, or the client is lost.
Flushed(s) ==
  IF ~s.disabled /\ StandaloneOk(s) /\ s.st = "WRITE"
  THEN {man_update_io_state([s EXCEPT !.out = <<>>]), man_reset_client_socket(s, TRUE)}
  ELSE {s}

man_output_list_push(s) ==
  IF ClientConnected(s)
  THEN Flushed(man_update_io_state([s EXCEPT !.out = IF Len(@) < MaxOut THEN Append(@, s.who) ELSE @]))
  ELSE {s}

\* msg (M_CLIENT, ...) through virtual_output_callback_func
ClientMsg(s) == IF PasswordNeeded(s) THEN {s} ELSE man_output_list_push(s)

\* Any other message of the program, shown when the client asked for the log.
LogMsg(s) == IF ~PasswordNeeded(s) /\ s.log THEN man_output_list_push(s) ELSE {s}

\* mutant: a new client is not told what the program waits for
man_welcome_Plain(s) == ClientMsg(s)
\* man_welcome: the version, and the message about a hold or a password needed.
man_welcome(s) ==
  IF s.special = "none" THEN ClientMsg(s)
  ELSE UNION {ClientMsg([t EXCEPT !.told = TRUE]) : t \in ClientMsg(s)}

man_prompt(s) == IF PasswordNeeded(s) THEN man_output_list_push(s) ELSE {s}

----------------------------------------------------------------------------
(* Commands.                                                                 *)

\* mutant: one try too many
man_check_password_Late(s, line) ==
  IF line = "secret"
  THEN UNION {man_welcome(t) : t \in ClientMsg([s EXCEPT !.verified = TRUE, !.gave = TRUE])}
  ELSE {[s EXCEPT !.tries = @ + 1, !.halt = s.tries + 1 > N_PASSWORD_RETRIES]}
man_check_password(s, line) ==
  IF line = "secret"
  THEN UNION {man_welcome(t) : t \in ClientMsg([s EXCEPT !.verified = TRUE, !.gave = TRUE])}
  ELSE {[s EXCEPT !.tries = @ + 1, !.halt = s.tries + 1 >= N_PASSWORD_RETRIES]}

\* man_up_finalize
Answered(s) == s.pass /\ (s.mode = "user_pass" => s.user)

\* mutant: the callbacks stay when the event loop is left
callback_Stays(s) == s
management_callback_cleared(s) == [s EXCEPT !.callback = FALSE]

\* man_kill and man_status call back into the tunnel, whose objects exist only in the event loop.
CalledBack(s) == IF s.callback /\ at.loop # "event" /\ at.ret # "event" THEN [s EXCEPT !.alarm = "callback"] ELSE s

man_dispatch_command(s, line) ==
  CASE line = "exit" -> {[s EXCEPT !.halt = TRUE]}
    [] line = "hold release" -> ClientMsg([s EXCEPT !.release = TRUE])
    [] line = "hold on" -> ClientMsg([s EXCEPT !.hold = TRUE])
    [] line = "hold off" -> ClientMsg([s EXCEPT !.hold = FALSE])
    [] line = "kill" -> ClientMsg(CalledBack(s))
    [] line = "log on" -> ClientMsg([s EXCEPT !.log = TRUE])
    [] line = "username" -> ClientMsg([s EXCEPT !.user = @ \/ s.mode = "user_pass"])
    [] line = "password" -> ClientMsg([s EXCEPT !.pass = @ \/ s.mode # "disabled"])
    [] OTHER -> ClientMsg(s)

man_process_command(s, line) ==
  IF PasswordNeeded(s) THEN man_check_password(s, line)
  ELSE man_dispatch_command(IF mset.pw /\ ~s.gave THEN [s EXCEPT !.alarm = "unverified"] ELSE s, line)

\* The next line of a recv, unless the client is to be dropped or was lost.
ProcessLine(S) ==
  UNION {IF t.halt \/ ~ClientConnected(t) THEN {t} ELSE UNION {man_process_command(t, line) : line \in Commands} : t \in S}

----------------------------------------------------------------------------
(* management_io.                                                            *)

\* mutant: a new client inherits the standing of the last one
accept_Verified(s) ==
  [s EXCEPT !.who = IF s.last = "a" THEN "b" ELSE "a", !.last = IF @ = "a" THEN "b" ELSE "a", !.log = FALSE,
            !.tries = 0, !.halt = FALSE, !.st = "WRITE", !.out = <<>>, !.gave = FALSE, !.told = FALSE]
Accepted(s) ==
  [s EXCEPT !.who = IF s.last = "a" THEN "b" ELSE "a", !.last = IF @ = "a" THEN "b" ELSE "a", !.log = FALSE,
            !.verified = FALSE, !.tries = 0, !.halt = FALSE, !.st = "WRITE", !.out = <<>>, !.gave = FALSE, !.told = FALSE]

man_accept(s) ==
  {s} \cup {man_update_io_state(u) :
              u \in UNION {man_prompt(t) : t \in IF PasswordNeeded(Accepted(s)) THEN {Accepted(s)}
                                                 ELSE man_welcome(Accepted(s))}}

\* After the lines of a recv: the client is dropped, or prompted.
ReadDone(s, processed) ==
  IF s.halt THEN {man_reset_client_socket(s, TRUE)}
  ELSE {man_update_io_state(t) : t \in IF processed THEN man_prompt(s) ELSE {s}}

\* command_line_add, _get and _next: behind the lines of a recv the buffer is empty, or holds a piece of the next one.
Received(s) == {[s EXCEPT !.out = <<>>, !.in = piece] : piece \in {"none", s.who}}

\* man_read: the end or a failure of the connection, or up to two lines and a piece of one.
man_read(s) ==
  LET got == Received(s)
      one == ProcessLine(got)
      two == ProcessLine(one)
  IN  {man_reset_client_socket(s, TRUE), s}
      \cup (UNION {ReadDone(t, FALSE) : t \in got}) \cup (UNION {ReadDone(t, TRUE) : t \in one \cup two})

\* man_write: a message, nothing, or a failure.
man_write(s) ==
  {man_update_io_state([s EXCEPT !.out = Tail(@)]), s, man_reset_client_socket(s, TRUE)}

management_io(s) ==
  CASE s.st = "LISTEN" -> man_accept(s)
    [] s.st = "READ" -> man_read(s)
    [] s.st = "WRITE" -> man_write(s)
    [] s.st = "INITIAL" -> {s}

----------------------------------------------------------------------------
(* The program around it.                                                    *)

Goto(loop) == at' = [at EXCEPT !.loop = loop]

\* open_management: the settings are kept once they are read; then a possible hold.
ManOpen ==
  /\ at.loop = "start"
  /\ man' = IF man.st = "INITIAL" /\ ~mset.over_tunnel THEN [man EXCEPT !.st = "LISTEN"] ELSE man
  /\ at' = [loop |-> "main", ret |-> "main", save |-> FALSE]
  /\ UNCHANGED mset

\* management_post_tunnel_open and management_pre_tunnel_close
TunnelOpen ==
  /\ at.loop \in {"main", "event"} /\ mset.over_tunnel /\ man.st = "INITIAL"
  /\ man' = [man EXCEPT !.st = "LISTEN"]
  /\ UNCHANGED <<mset, at>>

TunnelClose ==
  /\ at.loop \in {"main", "event"} /\ mset.over_tunnel /\ man.st # "INITIAL"
  /\ man' = ConnectionClear(man)
  /\ UNCHANGED <<mset, at>>

\* management_set_callback, management_clear_callback
SetCallback ==
  /\ at.loop = "main"
  /\ man' = [man EXCEPT !.disabled = TRUE, !.callback = TRUE]
  /\ Goto("event") /\ UNCHANGED mset

ClearCallback ==
  /\ at.loop = "event"
  /\ man' \in Flushed(man_update_io_state(management_callback_cleared([man EXCEPT !.disabled = FALSE, !.release = FALSE])))
  /\ Goto("main") /\ UNCHANGED mset

\* The event loop serves the client and logs.
ServeClient == at.loop = "event" /\ man' \in management_io(man) /\ UNCHANGED <<mset, at>>
ManLog == at.loop \in {"main", "event"} /\ man' \in LogMsg(man) /\ UNCHANGED <<mset, at>>

\* The beginning of the loops of manage.c: wait for a client, or go on with the one there is.
Announce(s, what) == ClientMsg([s EXCEPT !.special = what, !.told = ~PasswordNeeded(s)])

Enter(wait, serve, s, S) ==
  /\ at' = [loop |-> IF s.st = "LISTEN" THEN wait ELSE serve, ret |-> at.loop, save |-> man.disabled]
  /\ man' \in IF s.st = "LISTEN" THEN {s} ELSE S
  /\ UNCHANGED mset

\* One round of the wait: it ends when a client is there and verified.
WaitRound(wait, serve, S(_)) ==
  /\ at.loop = wait
  /\ \E s \in management_io(man) :
       IF s.st = "LISTEN" \/ PasswordNeeded(s) THEN man' = s /\ UNCHANGED at
       ELSE man' \in S(s) /\ Goto(serve)
  /\ UNCHANGED mset

\* management_would_hold and management_hold
HoldStart(s) == [s EXCEPT !.disabled = FALSE, !.special = "none"]
Holding(s) == Announce(s, "hold")
Hold ==
  /\ at.loop = "main" /\ man.hold /\ ~man.release /\ StandaloneOk(man)
  /\ Enter("hold_wait", "hold", HoldStart(man), Holding(HoldStart(man)))
HoldWait == WaitRound("hold_wait", "hold", Holding)

\* mutant: the loops do not revert standalone_disabled
reverted_Not(s) == [s EXCEPT !.special = "none"]
Reverted(s) == [s EXCEPT !.disabled = at.save, !.special = "none"]

HoldRound ==
  /\ at.loop = "hold"
  /\ \E s \in management_io(man) :
       IF s.release THEN man' = Reverted(s) /\ Goto(at.ret) ELSE man' = s /\ UNCHANGED at
  /\ UNCHANGED mset

\* management_query_user_pass, from the start of the program or from the TLS negotiation
QueryStart(s) == [s EXCEPT !.disabled = FALSE, !.special = "none", !.user = FALSE, !.pass = FALSE]
AskUserPass(s) == {[t EXCEPT !.mode = "user_pass"] : t \in Announce(s, "password")}
Query ==
  /\ at.loop \in {"main", "event"} /\ StandaloneOk(man)
  /\ Enter("query_wait", "query", QueryStart(man), AskUserPass(QueryStart(man)))
QueryWait == WaitRound("query_wait", "query", AskUserPass)

QueryEnd(s) == [Reverted(s) EXCEPT !.mode = "disabled", !.user = FALSE, !.pass = FALSE]
QueryRound ==
  /\ at.loop = "query"
  /\ \E s \in management_io(man) :
       IF Answered(s) THEN man' = QueryEnd(s) /\ Goto(at.ret) ELSE man' = s /\ UNCHANGED at
  /\ UNCHANGED mset

\* management_event_loop_n_seconds; without a standalone interface it is a plain sleep.
Slept(s) == {s}
Sleep ==
  /\ at.loop = "main" \/ (at.loop = "event" /\ mset.sleeps)
  /\ StandaloneOk(man)
  /\ Enter("sleep_wait", "sleep", [man EXCEPT !.disabled = FALSE], {[man EXCEPT !.disabled = FALSE]})
SleepWait == WaitRound("sleep_wait", "sleep", Slept)
SleepRound == at.loop = "sleep" /\ man' \in management_io(man) /\ UNCHANGED <<mset, at>>

\* The time is over, or a signal arrived: the function returns from the middle of its loop.
SleepEnd == at.loop \in {"sleep_wait", "sleep"} /\ Goto(at.ret) /\ UNCHANGED <<mset, man>>

\* A signal ends a hold; it ends a query too, which is fatal.
Interrupted ==
  \/ /\ at.loop \in {"hold_wait", "hold"}
     /\ man' = Reverted(man) /\ Goto(at.ret) /\ UNCHANGED mset
  \/ /\ at.loop \in {"query_wait", "query"}
     /\ man' = QueryEnd(man) /\ Goto("exit") /\ UNCHANGED mset

\* A fatal error is shown to the client whatever loop the program is in, then the program ends.
ManFatal ==
  /\ at.loop \in {"main", "event"}
  /\ man' \in {IF PasswordNeeded(t) THEN t ELSE man_reset_client_socket(t, FALSE)
                : t \in ClientMsg([man EXCEPT !.disabled = FALSE])}
  /\ Goto("exit") /\ UNCHANGED mset

\* management_close
ManClose ==
  /\ at.loop = "main"
  /\ man' = ConnectionClear(man)
  /\ Goto("exit") /\ UNCHANGED mset

\* management_init
ManagementInit ==
  [st |-> "INITIAL", who |-> "none", last |-> "b", out |-> <<>>, in |-> "none", verified |-> FALSE,
   tries |-> 0, halt |-> FALSE, log |-> FALSE, gave |-> FALSE, told |-> FALSE,
   mode |-> "disabled", user |-> FALSE, pass |-> FALSE,
   hold |-> FALSE, disabled |-> FALSE, release |-> FALSE, special |-> "none", callback |-> FALSE,
   alarm |-> "none"]

ManInit ==
  /\ mset \in ManOptions
  /\ man = [ManagementInit EXCEPT !.hold = mset.hold]
  /\ at = [loop |-> "start", ret |-> "main", save |-> FALSE]

ManNext ==
  \/ ManOpen \/ TunnelOpen \/ TunnelClose \/ SetCallback \/ ClearCallback \/ ServeClient \/ ManLog
  \/ Hold \/ HoldWait \/ HoldRound \/ Query \/ QueryWait \/ QueryRound
  \/ Sleep \/ SleepWait \/ SleepRound \/ SleepEnd \/ Interrupted \/ ManFatal \/ ManClose

ManSpec == ManInit /\ [][ManNext]_manVars

----------------------------------------------------------------------------
(* Properties.                                                               *)

ManTypeOK ==
  /\ mset \in ManOptions
  /\ man \in [st : {"INITIAL", "LISTEN", "READ", "WRITE"}, who : {"none", "a", "b"}, last : {"a", "b"},
              out : BoundedSeq({"a", "b"}, MaxOut), in : {"none", "a", "b"}, verified : BOOLEAN,
              tries : 0 .. N_PASSWORD_RETRIES, halt : BOOLEAN, log : BOOLEAN, gave : BOOLEAN, told : BOOLEAN,
              mode : {"disabled", "user_pass"}, user : BOOLEAN, pass : BOOLEAN, hold : BOOLEAN, disabled : BOOLEAN,
              release : BOOLEAN, special : {"none", "hold", "password"}, callback : BOOLEAN,
              alarm : {"none", "callback", "unverified"}]
  /\ at \in [loop : Positions, ret : {"main", "event"}, save : BOOLEAN]

\* No command of a client is carried out before that client, on that connection, gave the password.
Authenticated == man.alarm # "unverified"

\* A command never calls into a tunnel that is not running any more.
CallbackAlive == man.alarm # "callback"

\* What is buffered belongs to the client that is connected: a new one neither completes a line that another one
\* began, nor gets an answer meant for another one.
OwnData == at.loop # "exit" => man.in \in {"none", man.who} /\ ToSet(man.out) \subseteq {man.who}

\* The state that decides what the event loop waits for follows the queue: with output queued it waits for room in
\* the socket, without for a command.  Else one side waits for the other for ever.
IoState == at.loop # "exit" => (ClientConnected(man) <=> man.who # "none") /\ (man.st = "WRITE" <=> man.out # <<>>)

\* While the program waits for a hold release or a password, the client that could give it has been told so, also when
\* it connected after the wait began, or in place of the client that was told.
ClientTold == man.special # "none" /\ ClientConnected(man) /\ ~PasswordNeeded(man) => man.told

\* In the event loop output is queued, never written in a loop that waits for the client: the loops of manage.c
\* revert standalone_disabled when they return to it.
LoopNonblocking == at.loop = "event" => man.disabled

\* The management interface serves the client that is connected, once it gave the password, and does not hold up
\* the tunnel; the states of the socket, of the queue and of what the program waits for agree.
ManInv == ManTypeOK /\ Authenticated /\ CallbackAlive /\ OwnData /\ IoState /\ ClientTold /\ LoopNonblocking
=============================================================================
