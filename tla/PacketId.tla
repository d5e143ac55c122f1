------------------------------ MODULE PacketId ------------------------------
(***************************************************************************)
(* Replay protection of data and tls-auth packets (packet_id.c).  A sender *)
(* numbers its packets; a receiver remembers, for the highest time stamp   *)
(* seen, the highest id and a sliding window of the SeqBacktrack ids below *)
(* it.  The network may reorder, lose and replay: every packet ever sent   *)
(* can arrive at any moment, any number of times.                          *)
(***************************************************************************)
EXTENDS Integers, Sequences

CONSTANTS
  LongForm,        \* CO_PACKET_ID_LONG_FORM: packets carry a time stamp
  SeqBacktrack,    \* --replay-window n (64 by default); 0 is the TCP mode
  TimeBacktrack,   \* --replay-window t (15 s by default)
  ReapInterval,    \* SEQ_REAP_INTERVAL (5 s)
  IdLimit,         \* 2^32, the modulus of packet_id_type
  MaxNow           \* bound: the last second of the run

ASSUME PacketIdAssumption ==
  /\ LongForm \in BOOLEAN
  /\ SeqBacktrack \in Nat
  /\ TimeBacktrack \in Nat
  /\ ReapInterval \in Nat \ {0}
  /\ IdLimit \in Nat /\ IdLimit > 1
  /\ MaxNow \in Nat

VARIABLES
  now,       \* the clock, in seconds
  snd,       \* struct packet_id_send
  rec,       \* struct packet_id_rec; list[1] is CIRC_LIST_ITEM 0, the newest
  sent,      \* the packet ids put on the wire
  accepted,  \* history: packet ids accepted, with the time of acceptance
  replayed   \* history: some packet id was accepted a second time

vars == <<now, snd, rec, sent, accepted, replayed>>

SEQ_UNSEEN  == 0
SEQ_EXPIRED == 1

\* A clock is far from the two special time values.
Start == SEQ_EXPIRED + 1

Pin == [id : Nat, time : Nat]
Rec == [time : Nat, id : Nat, list : Seq(Nat), lastReap : Nat]

SmallerOf(a, b) == IF a <= b THEN a ELSE b

-----------------------------------------------------------------------------
(* Sender.                                                                 *)

\* packet_id_alloc_outgoing: struct packet_id_send after the allocation.
packet_id_alloc_outgoing(s) ==
  LET t  == IF s.time = 0 THEN now ELSE s.time
      id == (s.id + 1) % IdLimit
  IN  IF id = 0 THEN [time |-> now, id |-> 1] ELSE [time |-> t, id |-> id]

\* packet_id_write then packet_id_read: the short form carries no time.
OnWire(pin) == IF LongForm THEN pin ELSE [pin EXCEPT !.time = 0]

-----------------------------------------------------------------------------
(* Receiver.                                                               *)

packet_id_init == [time |-> 0, id |-> 0, list |-> <<>>, lastReap |-> 0]

\* mutant: a higher id starts a new window even when the old one overlaps it.
NewSequence_Overlap(r, pin) == r.list = <<>> \/ pin.time > r.time \/ pin.id > r.id

\* The window starts afresh: it is empty, the time stamp grows, or the id lies
\* so far ahead that no slot of the old window would remain.
NewSequence(r, pin) ==
  \/ r.list = <<>>
  \/ pin.time > r.time
  \/ pin.id >= SeqBacktrack /\ pin.id - SeqBacktrack > r.id

\* mutant: the fresh window is one slot short.
SequenceBase_OffByOne(pin) == IF pin.id > SeqBacktrack THEN pin.id - SeqBacktrack + 1 ELSE 0

\* The id below a fresh window that ends at pin.
SequenceBase(pin) == IF pin.id > SeqBacktrack THEN pin.id - SeqBacktrack ELSE 0

\* mutant: the list grows beyond its capacity.
PushUnseen_NoCap(list, n) ==
  [i \in 1 .. n + Len(list) |-> IF i <= n THEN SEQ_UNSEEN ELSE list[i - n]]

\* CIRC_LIST_PUSH of SEQ_UNSEEN, n times, on a list of capacity SeqBacktrack.
PushUnseen(list, n) ==
  [i \in 1 .. SmallerOf(n + Len(list), SeqBacktrack) |->
     IF i <= n THEN SEQ_UNSEEN ELSE list[i - n]]

\* packet_id_add: push an unseen slot per id up to the new one, stamp its slot
\* (now is beyond SEQ_EXPIRED).  Without a list only time and id are kept.
packet_id_add(r, pin) ==
  LET fresh == NewSequence(r, pin)
      base  == IF fresh THEN SequenceBase(pin) ELSE r.id
      top   == IF base < pin.id THEN pin.id ELSE base
      list  == PushUnseen(IF fresh THEN <<>> ELSE r.list, top - base)
      slot  == top - pin.id + 1
  IN  IF SeqBacktrack = 0
      THEN [r EXCEPT !.time = pin.time, !.id = pin.id]
      ELSE [r EXCEPT !.time = IF fresh THEN pin.time ELSE @,
                     !.id   = top,
                     !.list = IF slot <= Len(list) THEN [list EXCEPT ![slot] = now] ELSE list]

\* mutant: only the slot that is too old is expired, not the ids below it.
packet_id_reap_One(r) ==
  LET Old(t) == t > SEQ_EXPIRED /\ t + TimeBacktrack < now
  IN  [r EXCEPT !.lastReap = now,
                !.list = [i \in 1 .. Len(@) |-> IF Old(@[i]) THEN SEQ_EXPIRED ELSE @[i]]]

\* packet_id_reap: from the first stamp older than TimeBacktrack on, every id
\* is expired, unless an expired slot comes first (the scan stops there).
packet_id_reap(r) ==
  LET Old(t)    == t > SEQ_EXPIRED /\ t + TimeBacktrack < now
      Expire(i) == /\ \E j \in 1 .. i : Old(r.list[j])
                   /\ \A j \in 1 .. i : r.list[j] # SEQ_EXPIRED
  IN  [r EXCEPT !.lastReap = now,
                !.list = IF SeqBacktrack = 0 \/ TimeBacktrack = 0 THEN @
                         ELSE [i \in 1 .. Len(@) |-> IF Expire(i) THEN SEQ_EXPIRED ELSE @[i]]]

packet_id_reap_test(r) ==
  IF r.lastReap + ReapInterval <= now THEN packet_id_reap(r) ELSE r

\* mutant: an id below the window passes for one never seen.
packet_id_test_Below(r, pin) ==
  /\ pin.id # 0
  /\ IF SeqBacktrack # 0
     THEN \/ pin.time > r.time
          \/ pin.time = r.time /\ (\/ pin.id > r.id
                                   \/ r.id - pin.id >= Len(r.list)
                                   \/ r.list[r.id - pin.id + 1] = SEQ_UNSEEN)
     ELSE \/ pin.time > r.time /\ pin.id = 1
          \/ pin.time = r.time /\ pin.id = r.id + 1

\* mutant: TCP mode accepts gaps.
packet_id_test_Gap(r, pin) ==
  /\ pin.id # 0
  /\ \/ pin.time > r.time
     \/ pin.time = r.time /\ pin.id > r.id

\* packet_id_test: backtrack mode (UDP), then the strict mode of TCP.
packet_id_test(r, pin) ==
  /\ pin.id # 0
  /\ IF SeqBacktrack # 0
     THEN \/ pin.time > r.time
          \/ /\ pin.time = r.time
             /\ \/ pin.id > r.id
                \/ /\ r.id - pin.id < Len(r.list)
                   /\ r.list[r.id - pin.id + 1] = SEQ_UNSEEN
     ELSE \/ pin.time > r.time /\ pin.id = 1
          \/ pin.time = r.time /\ pin.id = r.id + 1

-----------------------------------------------------------------------------
Init ==
  /\ now = Start
  /\ snd = [time |-> 0, id |-> 0]
  /\ rec = packet_id_init
  /\ sent = {}
  /\ accepted = {}
  /\ replayed = FALSE

\* openvpn_encrypt numbers a packet.  In short form the id must not wrap
\* (ASSERT (long_form)): the process would stop.
Encrypt ==
  /\ LongForm \/ snd.id + 1 < IdLimit
  /\ snd' = packet_id_alloc_outgoing(snd)
  /\ sent' = sent \cup {OnWire(snd')}
  /\ UNCHANGED <<now, rec, accepted, replayed>>

\* openvpn_decrypt, after authentication and decryption: reap, test, add.
Decrypt(pin) ==
  LET r == packet_id_reap_test(rec)
  IN  /\ IF packet_id_test(r, pin)
         THEN /\ rec' = packet_id_add(r, pin)
              /\ replayed' = (replayed \/ \E a \in accepted : a.pin = pin)
              /\ accepted' = accepted \cup {[pin |-> pin, at |-> now]}
         ELSE /\ rec' = r
              /\ UNCHANGED <<accepted, replayed>>
      /\ UNCHANGED <<now, snd, sent>>

Tick ==
  /\ now < MaxNow
  /\ now' = now + 1
  /\ UNCHANGED <<snd, rec, sent, accepted, replayed>>

Next == Encrypt \/ Tick \/ \E pin \in sent : Decrypt(pin)

Spec == Init /\ [][Next]_vars

-----------------------------------------------------------------------------
(* Properties.                                                             *)

TypeOK ==
  /\ now \in Nat /\ now >= Start
  /\ snd \in Pin
  /\ rec \in Rec /\ Len(rec.list) <= SeqBacktrack
  /\ sent \in SUBSET Pin
  /\ accepted \in SUBSET [pin : Pin, at : Nat]
  /\ replayed \in BOOLEAN

\* "No packet-id ... is accepted more than once" (struct packet_id_rec),
\* whatever the network replays and in whatever order.
AcceptOnce == replayed = FALSE

\* The window has no hole of its own: an id within SeqBacktrack of the highest
\* that was never accepted still is acceptable unless its slot expired.
WindowComplete ==
  \A pin \in sent :
    /\ SeqBacktrack # 0 /\ accepted # {}
    /\ pin.time = rec.time /\ pin.id <= rec.id /\ rec.id - pin.id < SeqBacktrack
    /\ \A a \in accepted : a.pin # pin
    => /\ rec.id - pin.id < Len(rec.list)
       /\ rec.list[rec.id - pin.id + 1] \in {SEQ_UNSEEN, SEQ_EXPIRED}

\* A packet is accepted at most `slack` seconds later than TimeBacktrack after
\* one with a higher id.
AcceptedWithin(slack) ==
  \A a, b \in accepted :
    /\ a.pin.time = b.pin.time /\ a.pin.id < b.pin.id /\ b.at <= a.at
    => a.at <= b.at + TimeBacktrack + slack

\* What the code ensures of --replay-window's t: a late packet is accepted
\* less than SEQ_REAP_INTERVAL seconds beyond it, since reaping is periodic
\* (the manual's "no later than t seconds" is AcceptedWithin(0)); t = 0 turns
\* reaping off.
TimeBacktrackBound == TimeBacktrack # 0 => AcceptedWithin(ReapInterval - 1)

\* In TCP mode the ids accepted under one time stamp are 1, 2, ... n: a gap
\* means a lost or reordered packet, which a TCP stream cannot have.
NoGaps ==
  SeqBacktrack = 0 =>
    \A a \in accepted : \A i \in 1 .. a.pin.id :
      \E b \in accepted : b.pin = [id |-> i, time |-> a.pin.time]

\* The window refuses no fresh packet and keeps no slot open beyond its time.
WindowInv == WindowComplete /\ TimeBacktrackBound
=============================================================================
