----------------------------- MODULE EventSet -----------------------------
(***************************************************************************)
(* The event sets of event.c, one interface (event_ctl, event_del,         *)
(* event_reset, event_wait) over four system calls: WSAWaitForMultiple-    *)
(* Events ("we", one slot per event and direction), epoll ("ep"), poll     *)
(* ("po") and select ("se").  A fast set is emptied and filled before      *)
(* every wait; a scalable one keeps its registrations, and a file          *)
(* descriptor that was closed comes back for another client.               *)
(***************************************************************************)
EXTENDS Naturals, FiniteSets, Sequences, SequencesExt, FiniteSetsExt

CONSTANTS Fds,          \* event_t: file descriptors, or handle pairs on Windows
          EventMethods, \* of "we", "ep", "po", "se"
          EventLimits,  \* values of WSA_MAXIMUM_WAIT_EVENTS, SELECT_MAX_FDS
          MaxEvents,    \* set of values of maxevents that callers ask for
          OutLens,      \* lengths of the event_set_return array
          MaxReuse      \* times a descriptor is closed and reused

ASSUME EventAssumption == Fds \subseteq Nat

VARIABLES es,      \* struct we_set, ep_set, po_set or se_set, with its kernel side
          wants,   \* what the caller asked for: flags of each event, {} for none
          gen,     \* which client has the descriptor: the caller's arg is <<fd, gen[fd]>>
          filled,  \* the events given to event_ctl and not deleted since
          spent,   \* fast sets: to be reset before they are filled again
          waited   \* the last event_wait: what was ready, and what it returned
eventVars == <<es, wants, gen, filled, spent, waited>>

Arg(e) == <<e, gen[e]>>
NoArg == <<>>
NoWait == [ready |-> {}, hup |-> {}, outlen |-> 0, out |-> <<>>]
Slot(e, rw, arg) == [ev |-> e, rw |-> rw, arg |-> arg]
---------------------------------------------------------------------------
EmptySet(method, fast, capacity, max) ==
    [method |-> method, fast |-> fast, capacity |-> capacity, maxevents |-> max,
     slots |-> <<>>, readfds |-> {}, writefds |-> {}, args |-> [e \in Fds |-> NoArg], maxfd |-> 0]

\* we_init, ep_init, po_init, se_init: the capacity, and maxevents on output
WeInit(fast, max, limit) ==
    EmptySet("we", fast, Min({2 * max, limit}), Min({max, limit}))
EpInit(fast, max) == EmptySet("ep", fast, Cardinality(Fds), max)
PoInit(fast, max) == EmptySet("po", fast, max, max)
SeInit(fast, max, limit) == EmptySet("se", fast, limit, Min({max, limit}))

\* event_set_init, event_set_init_simple, event_set_init_scalable: epoll only for a
\* scalable set, and when the kernel has it
EventSetInitSimple(fast, max) ==
    {s \in UNION {{WeInit(fast, max, n), PoInit(fast, max), SeInit(fast, max, n)} : n \in EventLimits} :
        s.method \in EventMethods}
EventSetInitScalable(max) ==
    EventSetInitSimple(FALSE, max) \cup (IF "ep" \in EventMethods THEN {EpInit(FALSE, max)} ELSE {})
EventSetInit(fast, max) == IF fast THEN EventSetInitSimple(TRUE, max) ELSE EventSetInitScalable(max)
---------------------------------------------------------------------------
\* we_set_event
WeSetEvent(s, i, e, d, arg) == [s EXCEPT !.slots[i] = Slot(e, {d}, arg)]
\* we_append_event: write, then read, each while there is room
\* mutant: no look at the capacity
WeAppendOne_NoLimit(s, e, rw, d, arg) ==
    IF d \in rw THEN [s EXCEPT !.slots = Append(@, Slot(e, {d}, arg))] ELSE s
WeAppendOne(s, e, rw, d, arg) ==
    IF d \in rw /\ Len(s.slots) < s.capacity THEN [s EXCEPT !.slots = Append(@, Slot(e, {d}, arg))] ELSE s
WeAppendEvent(s, e, rw, arg) == WeAppendOne(WeAppendOne(s, e, rw, "w", arg), e, rw, "r", arg)
\* we_del_event, we_del_index
WeDelEvent(s, e) == [s EXCEPT !.slots = SelectSeq(@, LAMBDA x : x.ev # e)]
WeDelIndex(s, i) == [s EXCEPT !.slots = RemoveAt(@, i)]
\* we_get_rw_indices: 0 for -1
WeIndex(s, e, d) == SelectInSeq(s.slots, LAMBDA x : x.ev = e /\ x.rw = {d})
\* we_ctl
\* mutant: both are registered and one is wanted: the wrong one goes
WeCtlScalable_Swapped(s, e, rw, arg, ri, wi) ==
    IF ri > 0 /\ wi > 0 /\ Cardinality(rw) = 1 THEN WeDelIndex(s, IF rw = {"r"} THEN ri ELSE wi)
    ELSE IF ri = 0 /\ wi = 0 THEN WeAppendEvent(s, e, rw, arg)
    ELSE IF rw = {} THEN WeDelEvent(s, e) ELSE WeAppendEvent(s, e, rw \ s.slots[Max({ri, wi})].rw, arg)
WeCtlScalable(s, e, rw, arg, ri, wi) ==
    CASE ri = 0 /\ wi = 0 -> WeAppendEvent(s, e, rw, arg)
      [] rw = {} /\ ri > 0 /\ wi > 0 -> WeDelEvent(s, e)
      [] rw = {} /\ (ri = 0) # (wi = 0) -> WeDelIndex(s, IF ri > 0 THEN ri ELSE wi)
      [] rw = {"r"} /\ ri > 0 /\ wi > 0 -> WeDelIndex(s, wi)
      [] rw = {"w"} /\ ri > 0 /\ wi > 0 -> WeDelIndex(s, ri)
      [] Cardinality(rw) = 1 /\ (ri = 0) # (wi = 0) ->
            WeSetEvent(s, IF ri > 0 THEN ri ELSE wi, e, CHOOSE d \in rw : TRUE, arg)
      [] rw = {"r", "w"} /\ ri = 0 /\ wi > 0 -> WeAppendEvent(s, e, {"r"}, arg)
      [] rw = {"r", "w"} /\ ri > 0 /\ wi = 0 -> WeAppendEvent(s, e, {"w"}, arg)
      [] rw = {"r", "w"} /\ ri > 0 /\ wi > 0 -> s
WeCtl(s, e, rw, arg) ==
    IF s.fast THEN WeAppendEvent(s, e, rw, arg)
    ELSE WeCtlScalable(s, e, rw, arg, WeIndex(s, e, "r"), WeIndex(s, e, "w"))

\* ep_ctl: MOD, and ADD when there is none (ENOENT); ep_del
PutSlot(s, e, rw, arg) == [s EXCEPT !.slots = [i \in 1 .. Len(@) |-> IF @[i].ev = e THEN Slot(e, rw, arg) ELSE @[i]]]
HasSlot(s, e) == \E i \in 1 .. Len(s.slots) : s.slots[i].ev = e
EpCtl(s, e, rw, arg) ==
    IF HasSlot(s, e) THEN PutSlot(s, e, rw, arg) ELSE [s EXCEPT !.slots = Append(@, Slot(e, rw, arg))]
EpDel(s, e) == [s EXCEPT !.slots = SelectSeq(@, LAMBDA x : x.ev # e)]

\* po_append_event, po_ctl, po_del
PoAppendEvent(s, e, rw, arg) ==
    IF Len(s.slots) < s.capacity THEN [s EXCEPT !.slots = Append(@, Slot(e, rw, arg))] ELSE s
PoCtl(s, e, rw, arg) ==
    IF ~s.fast /\ HasSlot(s, e) THEN PutSlot(s, e, rw, arg) ELSE PoAppendEvent(s, e, rw, arg)
\* mutant: the args do not move down with the events
PoDel_Args(s, e) ==
    LET i == SelectInSeq(s.slots, LAMBDA x : x.ev = e)
    IN IF i = 0 THEN s
       ELSE [s EXCEPT !.slots = [j \in 1 .. Len(@) - 1 |-> [RemoveAt(@, i)[j] EXCEPT !.arg = s.slots[j].arg]]]
PoDel(s, e) ==
    LET i == SelectInSeq(s.slots, LAMBDA x : x.ev = e)
    IN IF i = 0 THEN s ELSE [s EXCEPT !.slots = RemoveAt(@, i)]

\* se_ctl, se_del, se_reset; maxfd is one more than in the code
\* mutant: the largest descriptor is the last one
SeCtl_Last(s, e, rw, arg) ==
    IF e >= s.capacity THEN s
    ELSE [s EXCEPT !.maxfd = e + 1, !.args[e] = arg,
                   !.readfds = IF "r" \in rw THEN @ \cup {e} ELSE @ \ {e},
                   !.writefds = IF "w" \in rw THEN @ \cup {e} ELSE @ \ {e}]
SeCtl(s, e, rw, arg) ==
    IF e >= s.capacity THEN s
    ELSE [s EXCEPT !.maxfd = Max({@, e + 1}), !.args[e] = arg,
                   !.readfds = IF "r" \in rw THEN @ \cup {e} ELSE IF s.fast THEN @ ELSE @ \ {e},
                   !.writefds = IF "w" \in rw THEN @ \cup {e} ELSE IF s.fast THEN @ ELSE @ \ {e}]
SeDel(s, e) ==
    IF e >= s.capacity THEN s
    ELSE [s EXCEPT !.readfds = @ \ {e}, !.writefds = @ \ {e}, !.args[e] = NoArg]
SeReset(s) == [s EXCEPT !.readfds = {}, !.writefds = {}, !.maxfd = 0,
                        !.args = [e \in Fds |-> IF e < s.maxfd THEN NoArg ELSE s.args[e]]]

Ctl(s, e, rw, arg) ==
    CASE s.method = "we" -> WeCtl(s, e, rw, arg) [] s.method = "ep" -> EpCtl(s, e, rw, arg)
      [] s.method = "po" -> PoCtl(s, e, rw, arg) [] s.method = "se" -> SeCtl(s, e, rw, arg)
Del(s, e) ==
    CASE s.method = "we" -> WeDelEvent(s, e) [] s.method = "ep" -> EpDel(s, e)
      [] s.method = "po" -> PoDel(s, e) [] s.method = "se" -> SeDel(s, e)
\* we_reset, po_reset, se_reset
ResetSet(s) == IF s.method = "se" THEN SeReset(s) ELSE [s EXCEPT !.slots = <<>>]
---------------------------------------------------------------------------
\* we_wait, po_wait: the ready slots in order, as many as fit; a hangup reads as input for
\* poll even when nothing is wanted, epoll reports it with no flag
Ready(x, ready) == {d \in x.rw : <<x.ev, d>> \in ready}
Esr(rw, arg) == [rw |-> rw, arg |-> arg]
SlotFlags(x, ready, hup) == Ready(x, ready) \cup (IF es.method = "po" /\ x.ev \in hup THEN {"r"} ELSE {})
SlotReported(x, ready, hup) == Ready(x, ready) # {} \/ (es.method \in {"po", "ep"} /\ x.ev \in hup)
SlotOut(ready, hup) ==
    LET hit == SelectSeq(es.slots, LAMBDA x : SlotReported(x, ready, hup))
    IN [i \in 1 .. Len(hit) |-> Esr(SlotFlags(hit[i], ready, hup), hit[i].arg)]
WeWait(ready) == SlotOut(ready, {})
EpWait(ready, hup) == SlotOut(ready, hup)
PoWait(ready, hup) == SlotOut(ready, hup)
\* se_wait_return: descriptors up to maxfd, in order
SeFlags(e, ready) ==
    (IF e \in es.readfds /\ <<e, "r">> \in ready THEN {"r"} ELSE {})
    \cup (IF e \in es.writefds /\ <<e, "w">> \in ready THEN {"w"} ELSE {})
SeWaitReturn(ready) ==
    LET hit == SetToSortSeq({e \in Fds : e < es.maxfd /\ SeFlags(e, ready) # {}}, LAMBDA a, b : a < b)
    IN [i \in 1 .. Len(hit) |-> Esr(SeFlags(hit[i], ready), es.args[hit[i]])]
WaitReturn(ready, hup) ==
    CASE es.method = "we" -> WeWait(ready) [] es.method = "ep" -> EpWait(ready, hup)
      [] es.method = "po" -> PoWait(ready, hup) [] es.method = "se" -> SeWaitReturn(ready)
---------------------------------------------------------------------------
EventInit ==
    /\ \E fast \in BOOLEAN, max \in MaxEvents : es \in EventSetInit(fast, max)
    /\ wants = [e \in Fds |-> {}] /\ gen = [e \in Fds |-> 0]
    /\ filled = {} /\ spent = es.fast /\ waited = NoWait

\* event_ctl: a caller keeps at most maxevents events, and gives a fast set each one once
EventCtl(e, rw) ==
    /\ Cardinality(filled \cup {e}) <= es.maxevents
    /\ es.fast => ~spent /\ e \notin filled /\ rw # {}
    /\ filled' = filled \cup {e}
    /\ es' = Ctl(es, e, rw, Arg(e)) /\ wants' = [wants EXCEPT ![e] = rw]
    /\ waited' = NoWait /\ UNCHANGED <<gen, spent>>
\* event_del, and the descriptor is closed; its number comes back for another client
EventDel(e) ==
    /\ ~es.fast /\ gen[e] < MaxReuse
    /\ es' = Del(es, e) /\ wants' = [wants EXCEPT ![e] = {}]
    /\ gen' = [gen EXCEPT ![e] = @ + 1]
    /\ filled' = filled \ {e} /\ waited' = NoWait /\ UNCHANGED spent
\* event_reset: before a fast set is filled
EventReset ==
    /\ es.fast /\ spent /\ spent' = FALSE
    /\ es' = ResetSet(es) /\ wants' = [e \in Fds |-> {}] /\ filled' = {} /\ waited' = NoWait
    /\ UNCHANGED gen
\* event_wait: select overwrites the sets of a fast set (se_wait_fast), not those of a
\* scalable one (se_wait_scalable)
EventWait(ready, hup, outlen) ==
    /\ ~spent /\ waited = NoWait
    /\ waited' = [ready |-> ready, hup |-> hup, outlen |-> outlen,
                  out |-> SubSeq(WaitReturn(ready, hup), 1, Min({outlen, Len(WaitReturn(ready, hup))}))]
    /\ es' = IF es.method = "se" /\ es.fast
             THEN [es EXCEPT !.readfds = {e \in @ : <<e, "r">> \in ready}, !.writefds = {e \in @ : <<e, "w">> \in ready}]
             ELSE es
    /\ spent' = es.fast
    /\ UNCHANGED <<wants, gen, filled>>

EventNext ==
    \/ \E e \in Fds, rw \in SUBSET {"r", "w"} : EventCtl(e, rw)
    \/ \E e \in Fds : EventDel(e)
    \/ EventReset
    \/ \E ready \in SUBSET (Fds \X {"r", "w"}), hup \in SUBSET Fds, n \in OutLens :
          Cardinality(hup) <= 1 /\ EventWait(ready, hup, n)
EventSpec == EventInit /\ [][EventNext]_eventVars
---------------------------------------------------------------------------
\* Type invariant.
EventTypeOK ==
    /\ Len(es.slots) <= es.capacity /\ es.maxevents <= es.capacity
    /\ es.readfds \subseteq Fds /\ es.writefds \subseteq Fds
    /\ wants \in [Fds -> SUBSET {"r", "w"}] /\ gen \in [Fds -> 0 .. MaxReuse]

Registered(e) ==
    IF es.method = "se"
    THEN (IF e \in es.readfds THEN {"r"} ELSE {}) \cup (IF e \in es.writefds THEN {"w"} ELSE {})
    ELSE UNION {es.slots[i].rw : i \in {j \in 1 .. Len(es.slots) : es.slots[j].ev = e}}

\* The set watches exactly what its callers asked for with event_ctl, through any sequence of
\* changes of flags and closed descriptors, as long as they keep to the maxevents that
\* event_set_init returned.  Excepted is Windows when two slots per event do not fit under
\* WSA_MAXIMUM_WAIT_EVENTS: there the registration is dropped with a message.
RequestsKept ==
    (es.method = "we" => 2 * es.maxevents <= es.capacity) /\ ~spent
        => \A e \in Fds : Registered(e) = wants[e]

\* What a wait returns goes to the client that has the descriptor now, and tells it only of
\* what it asked for, or (poll, epoll) of a hangup: no arg of a closed connection survives.
ReportsCurrent ==
    \A i \in 1 .. Len(waited.out) :
        \E e \in Fds : /\ waited.out[i].arg = Arg(e)
                       /\ \/ waited.out[i].rw \subseteq wants[e] /\ waited.out[i].rw # {}
                          \/ e \in waited.hup /\ waited.out[i].rw \subseteq wants[e] \cup {"r"}

\* A wait whose array is long enough reports every wanted direction that is ready (else the
\* client it belongs to would wait for ever).
ReportsComplete ==
    (es.method = "we" => 2 * es.maxevents <= es.capacity) /\ waited.outlen >= 2 * Cardinality(Fds)
        => \A e \in Fds, d \in {"r", "w"} :
             d \in wants[e] /\ <<e, d>> \in waited.ready
                => \E i \in 1 .. Len(waited.out) : waited.out[i].arg = Arg(e) /\ d \in waited.out[i].rw

\* The four implementations of an event set keep what was asked and report what holds, for
\* the present owner of a descriptor.
EventInv == EventTypeOK /\ RequestsKept /\ ReportsCurrent /\ ReportsComplete
=============================================================================
