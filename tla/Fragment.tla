------------------------------ MODULE Fragment ------------------------------
(***************************************************************************)
(* Datagram fragmentation (--fragment, fragment.c).  A sender cuts a       *)
(* datagram that exceeds the dynamic payload size into at most MaxFrags    *)
(* fragments that share a sequence id; a receiver reassembles them in a    *)
(* sliding window of NFragBuf buffers.  Fragments may be lost and          *)
(* reordered on the way (the packet ids underneath keep out duplicates).   *)
(*                                                                         *)
(* Sequence ids wrap after NSeqId datagrams.  What keeps two datagrams of  *)
(* the same id apart is that neither a fragment in flight nor a partial    *)
(* datagram (FRAG_TTL_SEC) gets old: MaxLag states it in datagrams.        *)
(***************************************************************************)
EXTENDS Integers, Sequences, FiniteSets

CONSTANTS
  NSeqId,      \* N_SEQ_ID (256)
  NFragBuf,    \* N_FRAG_BUF (25)
  MaxFrags,    \* MAX_FRAGS (32), the bits of the map
  BufSize,     \* BUF_SIZE(frame), the capacity of a reassembly buffer
  Lens,        \* lengths of the datagrams read from the tun device
  Payloads,    \* values of PAYLOAD_SIZE_DYNAMIC as the path MTU changes
  Starts,      \* initial values of outgoing_seq_id
  MaxLag,      \* no fragment or partial datagram is this many datagrams old
  MaxDgrams,   \* bound: datagrams fragmented
  MaxSizes       \* bound: lengths for which the fragment size is examined

ASSUME FragmentAssumption ==
  /\ NSeqId \in Nat \ {0} /\ NFragBuf \in Nat \ {0} /\ 2 * NFragBuf <= NSeqId
  /\ MaxFrags \in Nat \ {0} /\ BufSize \in Nat
  /\ Lens \subseteq Nat \ {0} /\ \A len \in Lens : len <= BufSize
  /\ Payloads \subseteq Nat /\ \A p \in Payloads : p >= 4
  /\ Starts \subseteq 0 .. NSeqId - 1
  /\ MaxLag \in 0 .. NSeqId /\ MaxDgrams \in Nat /\ MaxSizes \in Nat

VARIABLES
  frag,    \* outgoing half of struct fragment_master; rest is the buffer outgoing
  list,   \* struct fragment_list incoming
  net,    \* fragments in flight
  dgrams,   \* history: dgrams[d] describes the d-th datagram that was fragmented
  got,    \* history: datagrams handed to the receiver's tun device
  calm    \* history: nothing lost or expired, reordering within the window

fragVars == <<frag, list, net, dgrams, got, calm>>

-----------------------------------------------------------------------------
(* integer.h: arithmetic on a circle.                                      *)

Abs(x) == IF x < 0 THEN -x ELSE x

modulo_subtract(x, y, mod) ==
  LET d1 == x - y
      d2 == (IF x > y THEN -mod ELSE mod) + d1
  IN  IF Abs(d1) > Abs(d2) THEN d2 ELSE d1

\* mutant: the sum wraps one step too late.
modulo_add_OffByOne(x, y, mod) ==
  LET sum == x + y
  IN  IF sum > mod THEN sum - mod ELSE IF sum < 0 THEN sum + mod ELSE sum

modulo_add(x, y, mod) ==
  LET sum == x + y
  IN  IF sum >= mod THEN sum - mod ELSE IF sum < 0 THEN sum + mod ELSE sum

-----------------------------------------------------------------------------
(* Sender.                                                                 *)

FRAG_SIZE_ROUND == 4

\* x & ~FRAG_SIZE_ROUND_MASK
RoundDown(x) == x - (x % FRAG_SIZE_ROUND)

\* mutant: the remainder is spread over one fragment too few.
optimal_fragment_size_Div(len, max) ==
  LET aligned == RoundDown(max)
      div     == len \div aligned
      mod     == len % aligned
  IN  IF div > 0 /\ mod > 0 /\ mod < (aligned * 3) \div 4
      THEN RoundDown(max - ((max - mod) \div div) + FRAG_SIZE_ROUND - 1)
      ELSE aligned

\* A fragment size, not above max, that evens out the last two fragments.
optimal_fragment_size(len, max) ==
  LET aligned == RoundDown(max)
      div     == len \div aligned
      mod     == len % aligned
      even    == RoundDown(max - ((max - mod) \div (div + 1)) + FRAG_SIZE_ROUND - 1)
  IN  IF div > 0 /\ mod > 0 /\ mod < (aligned * 3) \div 4
      THEN IF aligned <= even THEN aligned ELSE even
      ELSE aligned

\* fragment_outgoing_defined
Pending(s) == s.rest > 0

\* The bytes a fragment carries: len bytes of datagram d from offset from.
Bytes(d, from, len) == [d |-> d, from |-> from, len |-> len]

\* The bytes that fragment_ready_to_send takes from the pending datagram.
CutLen(s) == IF s.rest <= s.size THEN s.rest ELSE s.size

\* The fragment that fragment_ready_to_send cuts off, header included.  A last
\* fragment carries the size of the others, in units of FRAG_SIZE_ROUND.
NextFragment(s, d) ==
  LET last == s.rest <= s.size
      len  == CutLen(s)
  IN  [type |-> IF last THEN "YES_LAST" ELSE "YES_NOTLAST",
       seq |-> s.seq, id |-> s.id,
       size |-> IF last THEN RoundDown(s.size) ELSE len,
       data |-> Bytes(d, s.from, len)]

\* fragment_ready_to_send: the sender's state after it has cut a fragment off.
fragment_ready_to_send(s) ==
  [s EXCEPT !.rest = @ - CutLen(s), !.from = @ + CutLen(s), !.id = @ + 1]

\* fragment_outgoing for a datagram that is sent as several fragments.
NewDatagram(s, len, size) ==
  [s EXCEPT !.size = size, !.seq = modulo_add(@, 1, NSeqId), !.id = 0, !.rest = len, !.from = 0]

-----------------------------------------------------------------------------
(* Receiver.                                                               *)

NoFrag == [defined |-> FALSE, size |-> 0, map |-> {}, buf |-> <<>>]

\* mutant: one sequence id too many is taken to lie in the window.
fragment_list_get_buf_OffByOne(l, seq) ==
  LET diff == modulo_subtract(seq, l.seq, NSeqId)
      passed == {modulo_add(l.index, k, NFragBuf) : k \in 1 .. diff}
  IN  IF Abs(diff) > NFragBuf
      THEN [seq |-> seq, index |-> 0, frags |-> [i \in 0 .. NFragBuf - 1 |-> NoFrag]]
      ELSE IF diff > 0
      THEN [seq |-> seq, index |-> modulo_add(l.index, diff, NFragBuf),
            frags |-> [i \in 0 .. NFragBuf - 1 |-> IF i \in passed THEN NoFrag ELSE l.frags[i]]]
      ELSE l

\* mutant: a datagram behind the newest one starts the window afresh.
fragment_list_get_buf_Reset(l, seq) ==
  LET diff == modulo_subtract(seq, l.seq, NSeqId)
  IN  IF diff = 0 THEN l
      ELSE [seq |-> seq, index |-> 0, frags |-> [i \in 0 .. NFragBuf - 1 |-> NoFrag]]

\* fragment_list_get_buf: the list after the window has moved to take in seq.
fragment_list_get_buf(l, seq) ==
  LET diff   == modulo_subtract(seq, l.seq, NSeqId)
      passed == {modulo_add(l.index, k, NFragBuf) : k \in 1 .. diff}
  IN  IF Abs(diff) >= NFragBuf
      THEN [seq |-> seq, index |-> 0, frags |-> [i \in 0 .. NFragBuf - 1 |-> NoFrag]]
      ELSE IF diff > 0
      THEN [seq |-> seq, index |-> modulo_add(l.index, diff, NFragBuf),
            frags |-> [i \in 0 .. NFragBuf - 1 |-> IF i \in passed THEN NoFrag ELSE l.frags[i]]]
      ELSE l

\* The buffer that fragment_list_get_buf returns, in the list it leaves.
SlotOf(l, seq) == modulo_add(l.index, modulo_subtract(seq, l.seq, NSeqId), NFragBuf)

\* The bits that fragment f sets in the map.
MapBits(f) == IF f.type = "YES_LAST" THEN f.id .. MaxFrags - 1 ELSE {f.id}

\* buf_copy_range: the data of fragment f at its place in the buffer.
CopyRange(b, at, data) == [o \in DOMAIN b \cup {at} |-> IF o = at THEN data ELSE b[o]]

\* A partial datagram, after the buffer is reset for the first fragment of a
\* datagram (or for one of another size), and after the copy.
Started(e, f) ==
  IF e.defined /\ e.size = f.size
  THEN e
  ELSE [defined |-> TRUE, size |-> f.size, map |-> {}, buf |-> <<>>]

Joined(e, f) ==
  [e EXCEPT !.map = @ \cup MapBits(f), !.buf = CopyRange(@, f.id * f.size, f.data)]

\* fragment_incoming, a fragment: the list and what is passed up ({} or one).
fragment_incoming(l, f) ==
  LET l1 == fragment_list_get_buf(l, f.seq)
      i  == SlotOf(l1, f.seq)
      e1 == Started(l1.frags[i], f)
      e2 == Joined(e1, f)
      With(e) == [l1 EXCEPT !.frags[i] = e]
  IN  CASE f.size % FRAG_SIZE_ROUND # 0 -> [list |-> l1, up |-> {}]
        [] f.id * f.size + f.data.len > BufSize -> [list |-> With(e1), up |-> {}]
        [] e2.map = 0 .. MaxFrags - 1 -> [list |-> With(NoFrag), up |-> {e2.buf}]
        [] OTHER -> [list |-> With(e2), up |-> {}]

\* The partial datagrams that the receiver holds.
Partials == {list.frags[i] : i \in {j \in DOMAIN list.frags : list.frags[j].defined}}

\* The datagrams with a fragment in flight or in a partial datagram.
Alive ==
  {f.data.d : f \in {g \in net : g.type # "WHOLE"}}
    \cup UNION {{e.buf[o].d : o \in DOMAIN e.buf} : e \in Partials}

-----------------------------------------------------------------------------
(* Steps.                                                                  *)

\* A datagram from the tun device, read only while nothing is pending for the
\* link: encrypt_sign and fragment_outgoing under the payload size p.  It is
\* sent whole, refused for needing too many fragments, or fragmented.
Whole(len, p) ==
  /\ ~Pending(frag) /\ len <= p
  /\ net' = net \cup {[type |-> "WHOLE", data |-> Bytes(0, 0, len)]}
  /\ UNCHANGED <<frag, list, dgrams, got, calm>>

TooMany(len, p) ==
  /\ ~Pending(frag) /\ len > p
  /\ len > optimal_fragment_size(len, p) * MaxFrags
  /\ frag' = [frag EXCEPT !.size = optimal_fragment_size(len, p)]
  /\ UNCHANGED <<list, net, dgrams, got, calm>>

Outgoing(len, p) ==
  LET size == optimal_fragment_size(len, p)
      s    == NewDatagram(frag, len, size)
  IN  /\ ~Pending(frag) /\ len > p
      /\ len <= size * MaxFrags
      /\ dgrams' = Append(dgrams, [len |-> len, size |-> size])
      /\ frag' = fragment_ready_to_send(s)
      /\ net' = net \cup {NextFragment(s, Len(dgrams) + 1)}
      /\ calm' = (calm /\ \A d \in Alive : Len(dgrams) + 1 - d < NFragBuf)
      /\ UNCHANGED <<list, got>>

\* check_fragment_dowork: the next fragment of the pending datagram.
ReadyToSend ==
  /\ Pending(frag)
  /\ frag' = fragment_ready_to_send(frag)
  /\ net' = net \cup {NextFragment(frag, Len(dgrams))}
  /\ UNCHANGED <<list, dgrams, got, calm>>

\* process_incoming_link: fragment_incoming, then the tun device.
Incoming(f) ==
  /\ f \in net /\ net' = net \ {f}
  /\ IF f.type = "WHOLE"
     THEN got' = got \cup {[o \in {0} |-> f.data]} /\ UNCHANGED list
     ELSE LET r == fragment_incoming(list, f)
          IN  /\ list' = r.list
              /\ got' = got \cup r.up
  /\ UNCHANGED <<frag, dgrams, calm>>

\* fragment_ttl_reap, of the partial datagrams S whose time is up.
Reap(S) ==
  /\ S # {}
  /\ \A i \in S : list.frags[i].defined
  /\ list' = [list EXCEPT !.frags = [i \in DOMAIN @ |-> IF i \in S THEN NoFrag ELSE @[i]]]
  /\ calm' = FALSE
  /\ UNCHANGED <<frag, net, dgrams, got>>

\* The network, or encrypt_sign without a key, drops a fragment.
Lose(f) ==
  /\ f \in net
  /\ net' = net \ {f}
  /\ calm' = FALSE
  /\ UNCHANGED <<frag, list, dgrams, got>>

-----------------------------------------------------------------------------
(* Specification.                                                          *)

\* The time assumption, in datagrams.
Fresh == \A d \in Alive : Len(dgrams) - d < MaxLag

FragInit ==
  /\ \E q \in Starts :
       /\ frag = [seq |-> q, size |-> 0, id |-> 0, rest |-> 0, from |-> 0]
       /\ calm = (q = 0)   \* the receiver's window starts at 0 as well
  /\ list = [seq |-> 0, index |-> 0, frags |-> [i \in 0 .. NFragBuf - 1 |-> NoFrag]]
  /\ net = {} /\ dgrams = <<>> /\ got = {}

FragNext ==
  \/ \E len \in Lens, p \in Payloads : Whole(len, p) \/ TooMany(len, p)
  \/ \E len \in Lens, p \in Payloads :
       Len(dgrams) < MaxDgrams /\ Outgoing(len, p) /\ Fresh'
  \/ ReadyToSend
  \/ \E f \in net : Incoming(f) \/ Lose(f)
  \/ \E S \in SUBSET (0 .. NFragBuf - 1) : Reap(S)

FragSpec == FragInit /\ [][FragNext]_fragVars

-----------------------------------------------------------------------------
(* Properties.                                                             *)

\* How many fragments of at most size bytes a datagram of len bytes takes.
Count(len, size) == (len + size - 1) \div size

\* The window keeps its shape (fragment_list_get_buf), a partial datagram is
\* never complete (fragment_incoming passes it up at once), and the sender's
\* fragment ids stay below the number of bits of the map.
FragTypeOK ==
  /\ frag.seq \in 0 .. NSeqId - 1 /\ frag.id \in 0 .. MaxFrags
  /\ frag.rest \in Nat /\ (Pending(frag) => frag.id < MaxFrags)
  /\ list.seq \in 0 .. NSeqId - 1 /\ list.index \in 0 .. NFragBuf - 1
  /\ DOMAIN list.frags = 0 .. NFragBuf - 1
  /\ \A e \in Partials :
       /\ e.map # {} /\ e.map \subseteq 0 .. MaxFrags - 1 /\ e.map # 0 .. MaxFrags - 1
       /\ e.size % FRAG_SIZE_ROUND = 0

\* Every datagram handed to the tun device (fragment_incoming) is one that was
\* sent, byte for byte: no part is missing, out of place or of another one.
Integrity ==
  \A b \in got : \E d \in 0 .. Len(dgrams) :
    /\ \A o \in DOMAIN b : b[o].d = d /\ b[o].from = o
    /\ IF d = 0
       THEN DOMAIN b = {0}
       ELSE DOMAIN b = {k * dgrams[d].size : k \in 0 .. Count(dgrams[d].len, dgrams[d].size) - 1}

\* When no fragment is lost, none expires and reordering stays inside the
\* window of NFragBuf buffers, a datagram none of whose fragments is still to
\* come has been handed to the tun device: the moving window of
\* fragment_list_get_buf discards no partial datagram that is still wanted.
Reassembled ==
  calm =>
    \A d \in 1 .. Len(dgrams) :
      \/ \E f \in net : f.data.d = d
      \/ Pending(frag) /\ d = Len(dgrams)
      \/ \E b \in got : b[0].d = d

\* "Without changing the number of fragments" (above optimal_fragment_size):
\* the evened-out size is a multiple of four, no larger than the payload size,
\* and needs as many fragments as the payload size does.  It is examined for
\* every length and payload size up to MaxSizes, in the states where the first
\* fragment of the first datagram has left the network.
SameCount ==
  Len(dgrams) = 1 /\ Pending(frag) /\ net = {} /\ got = {} =>
  \A p \in FRAG_SIZE_ROUND .. MaxSizes : \A len \in p + 1 .. MaxSizes :
    LET size == optimal_fragment_size(len, p) IN
      /\ size % FRAG_SIZE_ROUND = 0 /\ size <= p
      /\ Count(len, size) = Count(len, RoundDown(p))

\* Reassembly (fragment_incoming) gives out the datagrams that were sent and
\* no mixture, all of them on a calm channel, cut the way the sender meant.
FragInv == FragTypeOK /\ Integrity /\ Reassembled /\ SameCount
=============================================================================
