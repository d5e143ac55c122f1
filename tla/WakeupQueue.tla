---------------------------- MODULE WakeupQueue ----------------------------
(***************************************************************************)
(* What the scheduler of the server promises to multi.c: every entry has   *)
(* at most one wakeup time, the one it was last given, up to Sigma; and    *)
(* the entry it names as the next one to wake is a scheduled entry that no *)
(* other precedes, as long as any is scheduled.                            *)
(***************************************************************************)
EXTENDS Integers

CONSTANTS Entries, Times, NoEntry, NoTime

VARIABLES wake,    \* the wakeup time of every entry, or NoTime
          answer   \* the last answer: the entry named as the next to wake, or
                   \* NoEntry, and the number of the question
queueVars == <<wake, answer>>

Scheduled == {e \in Entries : wake[e] # NoTime}

QueueInit == wake = [e \in Entries |-> NoTime] /\ answer = [entry |-> NoEntry, n |-> 0]

\* an entry is given a time; the scheduler may leave it at one that is near
Set(e, t) ==
    /\ wake' = [wake EXCEPT ![e] = t]
    /\ UNCHANGED answer

Clear(e) ==
    /\ wake' = [wake EXCEPT ![e] = NoTime]
    /\ UNCHANGED answer

Earliest ==
    /\ answer'.n = answer.n + 1
    /\ IF Scheduled = {} THEN answer'.entry = NoEntry
       ELSE answer'.entry \in {e \in Scheduled : \A f \in Scheduled : wake[e] <= wake[f]}
    /\ UNCHANGED wake

QueueNext ==
    \/ \E e \in Entries : Clear(e) \/ \E t \in Times : Set(e, t)
    \/ Earliest

QueueSpec == QueueInit /\ [][QueueNext]_queueVars
===========================================================================
