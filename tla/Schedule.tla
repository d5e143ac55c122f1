----------------------------- MODULE Schedule -----------------------------
(***************************************************************************)
(* The wakeup scheduler of the server (schedule.c): a treap, that is a     *)
(* binary search tree on the wakeup times whose nodes also carry random    *)
(* priorities that a parent never exceeds, linked through pointers in the  *)
(* client instances themselves, with a cached earliest entry.  Every loop  *)
(* iteration of an operation is a step, so that the tree is seen between   *)
(* any two rotations.                                                      *)
(***************************************************************************)
EXTENDS Integers, FiniteSets

CONSTANTS Entries, Times, Sigma,
          MaxPri,      \* random () yields 0 .. MaxPri
          MaxOps,      \* calls of a run
          NoEntry      \* a null pointer

ASSUME ScheduleAssumption ==
    /\ NoEntry \notin Entries /\ Times \subseteq Nat /\ Sigma \in Nat
    /\ MaxPri \in Nat \ {0}

VARIABLES node,        \* struct schedule_entry: [tv, pri, parent, lt, gt]
          root, earliest,
          op,          \* the call in progress: [at, e, c, add]
          answered,    \* what schedule_get_earliest_wakeup last returned
          asked,       \* the time each scheduled entry was last given
          ops
scheduleVars == <<node, root, earliest, op, answered, asked, ops>>
---------------------------------------------------------------------------
NoTime == -1
Idle == [at |-> "idle", e |-> NoEntry, c |-> NoEntry, add |-> FALSE]
Unlinked == [tv |-> 0, pri |-> 0, parent |-> NoEntry, lt |-> NoEntry, gt |-> NoEntry]
InTree(e) == node[e].pri # 0

\* schedule_set_pri
Priorities == {IF r < 1 THEN 1 ELSE r : r \in 0 .. MaxPri}

\* schedule_entry_compare: the time, then the priority
Before(e, f) == node[e].tv < node[f].tv \/ (node[e].tv = node[f].tv /\ node[e].pri < node[f].pri)
Same(e, f) == node[e].tv = node[f].tv /\ node[e].pri = node[f].pri

WithinSigma(t, e) == t - node[e].tv \in -Sigma .. Sigma

ScheduleInit ==
    /\ node = [e \in Entries |-> Unlinked] /\ root = NoEntry /\ earliest = NoEntry
    /\ op = Idle /\ answered = [entry |-> NoEntry, n |-> 0] /\ asked = [e \in Entries |-> NoTime] /\ ops = 0

\* set one pointer of the tree, if there is a node to set it in
Link(n, e, f, v) == IF e = NoEntry THEN n ELSE [n EXCEPT ![e][f] = v]
\* the child link of p that leads to e
Side(n, p, e) == IF n[p].lt = e THEN "lt" ELSE "gt"

\* schedule_rotate_up (s, e), for an e with a parent: e takes the place of
\* its parent p under the grandparent, p becomes its child and takes over
\* the subtree between the two
Rotated(n, e, p, side, back) ==
    Link(Link(Link(Link([n EXCEPT ![e].parent = n[p].parent, ![p].parent = e],
                        n[p].parent, IF n[p].parent = NoEntry THEN "lt" ELSE Side(n, n[p].parent, p), e),
                   n[e][back], "parent", p),
              p, side, n[e][back]),
         e, back, p)
\* mutant: the subtree that changes its parent is not told
RotateUp_Orphan(e) ==
    LET p == node[e].parent IN
    LET side == Side(node, p, e) IN
    LET back == IF side = "lt" THEN "gt" ELSE "lt" IN
    /\ node' = [Rotated(node, e, p, side, back) EXCEPT ![IF node[e][back] = NoEntry THEN e ELSE node[e][back]].parent =
                   IF node[e][back] = NoEntry THEN @ ELSE e]
    /\ root' = IF node[p].parent = NoEntry THEN e ELSE root
RotateUp(e) ==
    LET p == node[e].parent IN
    LET side == Side(node, p, e) IN
    /\ node' = Rotated(node, e, p, side, IF side = "lt" THEN "gt" ELSE "lt")
    /\ root' = IF node[p].parent = NoEntry THEN e ELSE root

\* schedule_add_entry, schedule_add_modify: a time near the present one is ignored
\* mutant: a time near the last one given is ignored
AddEntry_Drift(e, t) ==
    /\ op.at = "idle" /\ ops < MaxOps /\ ops' = ops + 1
    /\ asked' = [asked EXCEPT ![e] = t]
    /\ IF InTree(e) /\ Sigma # 0 /\ t - asked[e] \in -Sigma .. Sigma THEN UNCHANGED <<node, earliest, op>>
       ELSE /\ node' = [node EXCEPT ![e].tv = t] /\ earliest' = NoEntry
            /\ op' = [at |-> IF InTree(e) THEN "remove" ELSE "priority", e |-> e, c |-> NoEntry, add |-> TRUE]
    /\ UNCHANGED <<root, answered>>
AddEntry(e, t) ==
    /\ op.at = "idle" /\ ops < MaxOps /\ ops' = ops + 1
    /\ asked' = [asked EXCEPT ![e] = t]
    /\ IF InTree(e) /\ Sigma # 0 /\ WithinSigma(t, e) THEN UNCHANGED <<node, earliest, op>>
       ELSE /\ node' = [node EXCEPT ![e].tv = t] /\ earliest' = NoEntry
            /\ op' = [at |-> IF InTree(e) THEN "remove" ELSE "priority", e |-> e, c |-> NoEntry, add |-> TRUE]
    /\ UNCHANGED <<root, answered>>

\* schedule_remove_entry; the caller may pass an entry that is not in the tree
\* mutant: the cached entry is kept
RemoveEntry_Cached(e) ==
    /\ op.at = "idle" /\ ops < MaxOps /\ ops' = ops + 1
    /\ op' = [at |-> "remove", e |-> e, c |-> NoEntry, add |-> FALSE]
    /\ asked' = [asked EXCEPT ![e] = NoTime]
    /\ UNCHANGED <<node, root, answered, earliest>>
RemoveEntry(e) ==
    /\ op.at = "idle" /\ ops < MaxOps /\ ops' = ops + 1
    /\ op' = [at |-> "remove", e |-> e, c |-> NoEntry, add |-> FALSE]
    /\ asked' = [asked EXCEPT ![e] = NoTime] /\ earliest' = NoEntry
    /\ UNCHANGED <<node, root, answered>>

\* schedule_remove_node: the child of lower priority is rotated above e
\* mutant: the left child if there is one
Lesser_Left(lt, gt) == IF lt # NoEntry THEN lt ELSE gt
Lesser(lt, gt) == IF lt # NoEntry /\ (gt = NoEntry \/ node[lt].pri < node[gt].pri) THEN lt ELSE gt
RotateDown ==
    /\ op.at = "remove"
    /\ Lesser(node[op.e].lt, node[op.e].gt) # NoEntry
    /\ RotateUp(Lesser(node[op.e].lt, node[op.e].gt))
    /\ UNCHANGED <<earliest, op, answered, asked, ops>>

\* no child is left: schedule_detach_parent, and e is out of the tree
Detach ==
    /\ op.at = "remove" /\ node[op.e].lt = NoEntry /\ node[op.e].gt = NoEntry
    /\ LET p == node[op.e].parent IN
       /\ node' = [Link(node, p, IF p = NoEntry THEN "lt" ELSE Side(node, p, op.e), NoEntry)
                      EXCEPT ![op.e].parent = NoEntry, ![op.e].pri = 0]
       /\ root' = IF p = NoEntry /\ root = op.e THEN NoEntry ELSE root
    /\ op' = IF op.add THEN [op EXCEPT !.at = "priority"] ELSE Idle
    /\ UNCHANGED <<earliest, answered, asked, ops>>

\* schedule_set_pri; the first entry is the root, any other starts down from it
\* mutant: an entry that comes back into the empty tree starts from the root too
SetPri_Empty ==
    /\ op.at = "priority"
    /\ \E pri \in Priorities : node' = [node EXCEPT ![op.e].pri = pri]
    /\ op' = [op EXCEPT !.at = "insert", !.c = root]
    /\ UNCHANGED <<root, earliest, answered, asked, ops>>
SetPri ==
    /\ op.at = "priority"
    /\ \E pri \in Priorities : node' = [node EXCEPT ![op.e].pri = pri]
    /\ root' = IF root = NoEntry THEN op.e ELSE root
    /\ op' = IF root = NoEntry THEN Idle ELSE [op EXCEPT !.at = "insert", !.c = root]
    /\ UNCHANGED <<earliest, answered, asked, ops>>

\* one comparison of schedule_insert: down, linked as a leaf, or, on a
\* collision, another priority and again from the root
\* mutant: a collision goes to the right
Insert_Collide ==
    /\ op.at = "insert"
    /\ LET side == IF Before(op.e, op.c) THEN "lt" ELSE "gt" IN
            /\ op' = IF node[op.c][side] # NoEntry THEN [op EXCEPT !.c = node[op.c][side]]
                     ELSE [op EXCEPT !.at = "raise", !.c = NoEntry]
            /\ node' = IF node[op.c][side] # NoEntry THEN node
                       ELSE Link([node EXCEPT ![op.e].parent = op.c], op.c, side, op.e)
    /\ UNCHANGED <<root, earliest, answered, asked, ops>>
Insert ==
    /\ op.at = "insert"
    /\ LET side == IF Before(op.e, op.c) THEN "lt" ELSE "gt" IN
       IF Same(op.e, op.c)
       THEN /\ \E pri \in Priorities : node' = [node EXCEPT ![op.e].pri = pri]
            /\ op' = [op EXCEPT !.c = root]
       ELSE /\ op' = IF node[op.c][side] # NoEntry THEN [op EXCEPT !.c = node[op.c][side]]
                     ELSE [op EXCEPT !.at = "raise", !.c = NoEntry]
            /\ node' = IF node[op.c][side] # NoEntry THEN node
                       ELSE Link([node EXCEPT ![op.e].parent = op.c], op.c, side, op.e)
    /\ UNCHANGED <<root, earliest, answered, asked, ops>>

\* the end of schedule_add_modify: up while the parent has the greater priority
Raise ==
    /\ op.at = "raise" /\ UNCHANGED <<earliest, answered, asked, ops>>
    /\ IF node[op.e].parent # NoEntry /\ node[node[op.e].parent].pri > node[op.e].pri
       THEN RotateUp(op.e) /\ UNCHANGED op
       ELSE op' = Idle /\ UNCHANGED <<node, root>>

\* schedule_find_least: the end of the chain of lt links from e
Least(e) ==
    LET down[k \in 0 .. Cardinality(Entries)] ==
          IF k = 0 THEN e
          ELSE IF down[k-1] = NoEntry \/ node[down[k-1]].lt = NoEntry THEN down[k-1] ELSE node[down[k-1]].lt
    IN  down[Cardinality(Entries)]

\* schedule_get_earliest_wakeup
GetEarliestWakeup ==
    /\ op.at = "idle" /\ ops < MaxOps /\ ops' = ops + 1
    /\ earliest' = IF earliest = NoEntry THEN Least(root) ELSE earliest
    /\ answered' = [entry |-> earliest', n |-> answered.n + 1]
    /\ UNCHANGED <<node, root, op, asked>>

ScheduleNext ==
    \/ \E e \in Entries : RemoveEntry(e) \/ \E t \in Times : AddEntry(e, t)
    \/ RotateDown \/ Detach \/ SetPri \/ Insert \/ Raise \/ GetEarliestWakeup

ScheduleSpec == ScheduleInit /\ [][ScheduleNext]_scheduleVars
---------------------------------------------------------------------------
(* Properties: what schedule_debug_entry asserts when SCHEDULE_TEST is     *)
(* defined, and what multi.c relies on.                                    *)

\* The type of the state; schedule_insert always has an entry to compare with.
ScheduleTypeOK ==
    /\ op.at # "idle" => op.e # NoEntry
    /\ op.at = "insert" => op.c # NoEntry
    /\ node \in [Entries -> [tv : Times \cup {0}, pri : 0 .. MaxPri, parent : Entries \cup {NoEntry},
                             lt : Entries \cup {NoEntry}, gt : Entries \cup {NoEntry}]]
    /\ {root, earliest, answered.entry} \subseteq Entries \cup {NoEntry} /\ answered.n \in 0 .. MaxOps
    /\ op \in [at : {"idle", "remove", "priority", "insert", "raise"}, e : Entries \cup {NoEntry},
               c : Entries \cup {NoEntry}, add : BOOLEAN]
    /\ asked \in [Entries -> Times \cup {NoTime}] /\ ops \in 0 .. MaxOps

\* the entries below e, e included
Reach(E) == E \cup {node[e].lt : e \in E \ {NoEntry}} \cup {node[e].gt : e \in E \ {NoEntry}}
Below(e) ==
    LET reach[k \in 0 .. Cardinality(Entries)] == IF k = 0 THEN {e} ELSE Reach(reach[k-1])
    IN  reach[Cardinality(Entries)] \ {NoEntry}
Linked(e) == InTree(e) /\ ~(op.e = e /\ op.at = "insert")

\* schedule_debug_entry, between any two rotations: a child and its parent
\* name each other, and the tree below the root holds every entry that has
\* a priority.
TreeLinked ==
    /\ root # NoEntry => node[root].parent = NoEntry
    /\ \A e \in Entries : /\ \A c \in {node[e].lt, node[e].gt} \ {NoEntry} : node[c].parent = e
                          /\ node[e].parent # NoEntry => e \in {node[node[e].parent].lt, node[node[e].parent].gt}
    /\ Below(root) = {e \in Entries : Linked(e)}

\* The search order: everything to the left of an entry is before it and
\* everything to the right after it, in the midst of rotations too, for all
\* entries but the one whose time was just changed and that is on its way out.
TreeOrdered ==
    \A e \in Entries : \A f \in Entries : 
        op.at # "remove" \/ op.e \notin {e, f} =>
            /\ node[e].lt # NoEntry /\ f \in Below(node[e].lt) => Before(f, e)
            /\ node[e].gt # NoEntry /\ f \in Below(node[e].gt) => Before(e, f)

\* The heap order that keeps the tree balanced: when a call has returned no
\* entry has a lower priority than its parent.
TreeBalanced ==
    op.at = "idle" => \A e \in Entries : node[e].parent # NoEntry => node[node[e].parent].pri <= node[e].pri

\* However often an entry is given a new time, the time it is kept under is
\* never further than Sigma from the last one it was given.
NearAsked == op.at = "idle" => \A e \in Entries : asked[e] # NoTime <=> InTree(e) /\ WithinSigma(asked[e], e)

\* The scheduler implements the queue of wakeup times: it names an earliest
\* entry, from the tree or from the cache, and never one that was removed.
Queue == INSTANCE WakeupQueue WITH
            wake <- [e \in Entries |-> IF (op.e = e /\ op.add) \/ (InTree(e) /\ op.e # e) THEN node[e].tv ELSE NoTime],
            answer <- answered
RefinesQueue == Queue!QueueSpec

\* The treap is a search tree on the times and a heap on the priorities, its links agree,
\* and every client has the wakeup it asked for last, to within sigma.
TreeInv == ScheduleTypeOK /\ TreeLinked /\ TreeOrdered /\ TreeBalanced /\ NearAsked
===========================================================================
