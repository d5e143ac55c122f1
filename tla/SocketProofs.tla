---------------------------- MODULE SocketProofs ----------------------------
(***************************************************************************)
(* Proofs about socket.c.  StreamBuf: for every size of the buffer, every  *)
(* set of packets, every number of them and every way recv cuts the        *)
(* stream.  LinkSocket: for any list of servers, addresses, proxy and the  *)
(* options that options_postprocess lets through.                          *)
(***************************************************************************)
EXTENDS StreamBuf, LinkSocket, SequenceTheorems, FiniteSetTheorems, WellFoundedInduction, TLAPS

(* The stream of packets. *)

Byte == 0 .. 255

SbType ==
  [buf : Seq(Byte), off : Nat, len : Int, next : Int, residual : Seq(Byte),
   formed : BOOLEAN, error : BOOLEAN, asserted : BOOLEAN]

\* A buffer by its fields.
Sb(b, o, l, n, r, f, e, a) ==
  [buf |-> b, off |-> o, len |-> l, next |-> n, residual |-> r,
   formed |-> f, error |-> e, asserted |-> a]

-----------------------------------------------------------------------------
(* The inductive invariant.                                                *)

\* What is known of a buffer that waits for bytes, up to next: it has less
\* than a length prefix, or less than the packet that the prefix announces.
Wanted(s) == (IF s.len >= 0 THEN s.len ELSE MaxLen) - Len(s.buf)
Filling(s) ==
  /\ ~s.formed /\ s.asserted /\ s.residual = <<>>
  /\ \/ s.len = -1 /\ s.off = 0 /\ Len(s.buf) <= 1
     \/ s.len \in 1 .. MaxLen /\ s.off = 2 /\ Len(s.buf) < s.len

\* The buffer holds a packet, and perhaps a residual.
Holding(s) ==
  /\ s.asserted
  /\ s.len \in 1 .. MaxLen /\ s.off = 2 /\ Len(s.buf) = s.len /\ Len(s.residual) <= MaxLen

\* It has a residual that stream_buf_read_setup has not looked at.
Waiting(s) ==
  /\ ~s.formed /\ s.asserted /\ s.len = -1 /\ s.off = 0 /\ s.buf = <<>>
  /\ s.next = 0 /\ Len(s.residual) <= MaxLen

Shape(s) ==
  \/ s.formed /\ Holding(s)
  \/ Waiting(s)
  \/ Filling(s) /\ s.next \in {0, Wanted(s)}

\* The bytes of the stream that the receiver has and has not returned.
Held(s) == (IF s.len >= 0 THEN Prefix(s.len) ELSE <<>>) \o (s.buf \o s.residual)

\* S[j] is the stream behind the first j packets: what follows the last packet
\* written whole is what a short write and those after it have sent.
Suffixes(S) ==
  /\ S \in [0 .. Len(written) -> Seq(Byte)]
  /\ whole => S[Len(written)] = <<>>
  /\ \A j \in 1 .. Len(written) : S[j - 1] = Encode(written[j]) \o S[j]

\* The history variable read still follows the stream.
Tracked == whole \/ Len(read) < Len(written)

Types ==
  /\ wire \in Seq(Byte) /\ sb \in SbType /\ conn \in {"open", "eof", "reset"}
  /\ written \in Seq(Packets) /\ read \in Seq(Packets) /\ whole \in BOOLEAN

InOrder ==
  /\ Len(read) <= Len(written)
  /\ \A j \in 1 .. Len(read) : read[j] = written[j]

\* What the receiver holds and what is on the wire is the rest of the stream.
InStream == 
  \E S : /\ Suffixes(S)
         /\ Tracked => ~sb.error /\ Held(sb) \o wire = S[Len(read)]

IInv == Types /\ Shape(sb) /\ InOrder /\ InStream

-----------------------------------------------------------------------------
(* Sequences of bytes.                                                     *)

\* Two ways of cutting a sequence at the same place give the same pieces.
LEMMA ConcatCancel ==
  ASSUME NEW T, NEW a \in Seq(T), NEW b \in Seq(T), NEW c \in Seq(T), NEW d \in Seq(T),
         Len(a) = Len(c), a \o b = c \o d
  PROVE  a = c /\ b = d
  <1>1. \A i \in 1 .. Len(a) : a[i] = c[i]
    <2> TAKE i \in 1 .. Len(a)
    <2>1. (a \o b)[i] = a[i] /\ (c \o d)[i] = c[i] BY ConcatProperties
    <2> QED BY <2>1
  <1>2. a = c BY <1>1, SeqEqual
  <1>3. a \o b = a \o d BY <1>2
  <1>4. b = d BY <1>3, ConcatSimplifications, Zenon
  <1> QED BY <1>2, <1>4

\* A sequence is its first k elements and the others.
LEMMA Cut ==
  ASSUME NEW T, NEW s \in Seq(T), NEW k \in 0 .. Len(s)
  PROVE  /\ SubSeq(s, 1, k) \in Seq(T) /\ SubSeq(s, k + 1, Len(s)) \in Seq(T)
         /\ Len(SubSeq(s, 1, k)) = k /\ Len(SubSeq(s, k + 1, Len(s))) = Len(s) - k
         /\ SubSeq(s, 1, k) \o SubSeq(s, k + 1, Len(s)) = s
         /\ \A i \in 1 .. k : SubSeq(s, 1, k)[i] = s[i]
  <1>1. \A i \in 1 .. Len(s) : s[i] \in T BY ElementOfSeq
  <1>2. Len(s) \in Nat /\ k \in Nat /\ k <= Len(s) BY LenProperties
  <1>3. \A i \in 1 .. k : s[i] \in T BY <1>1, <1>2
  <1>4. \A i \in k + 1 .. Len(s) : s[i] \in T BY <1>1, <1>2
  <1>5. /\ SubSeq(s, 1, k) \in Seq(T)
        /\ Len(SubSeq(s, 1, k)) = IF 1 <= k THEN k - 1 + 1 ELSE 0
        /\ \A i \in 1 .. k - 1 + 1 : SubSeq(s, 1, k)[i] = s[1 + i - 1]
    BY <1>2, <1>3, SubSeqProperties
  <1>6. /\ SubSeq(s, k + 1, Len(s)) \in Seq(T)
        /\ Len(SubSeq(s, k + 1, Len(s))) = IF k + 1 <= Len(s) THEN Len(s) - (k + 1) + 1 ELSE 0
    BY <1>2, <1>4, SubSeqProperties
  <1>7. SubSeq(s, 1, k) \o SubSeq(s, k + 1, Len(s)) = SubSeq(s, 1, Len(s))
    <2>1. 1 \in 1 .. Len(s) + 1 /\ k \in 1 - 1 .. Len(s) /\ Len(s) \in k .. Len(s) BY <1>2
    <2> QED BY <2>1, ConcatAdjacentSubSeq, Zenon
  <1>8. SubSeq(s, 1, Len(s)) = s BY SubSeqFull
  <1>9. \A i \in 1 .. k : SubSeq(s, 1, k)[i] = s[i]
    <2> TAKE i \in 1 .. k
    <2>1. i \in 1 .. k - 1 + 1 /\ 1 + i - 1 = i BY <1>2
    <2>2. SubSeq(s, 1, k)[i] = s[1 + i - 1] BY <2>1, <1>5
    <2> QED BY <2>1, <2>2
  <1>10. Len(SubSeq(s, 1, k)) = k /\ Len(SubSeq(s, k + 1, Len(s))) = Len(s) - k
    BY <1>2, <1>5, <1>6
  <1> QED BY <1>5, <1>6, <1>7, <1>8, <1>9, <1>10

\* The constants, as the provers use them.
LEMMA Sizes == MaxLen \in Nat /\ MaxLen >= 3 /\ Slack \in Nat /\ Slack >= 2
  BY StreamAssumption, Zenon
\* A length fits its prefix.
LEMMA Longest == MaxLen < 256 * 256
  BY StreamAssumption, Zenon
\* A packet is a sequence of bytes that fits the buffer.
LEMMA PacketSizes == \A p \in Packets : p \in Seq(Byte) /\ Len(p) \in 1 .. MaxLen
  <1>1. \A p \in Packets : p \in Seq(0 .. 255) /\ Len(p) \in 1 .. MaxLen BY StreamAssumption, Zenon
  <1>2. Byte = 0 .. 255 BY DEF Byte
  <1> HIDE DEF Byte
  <1> QED BY ONLY <1>1, <1>2

\* The length prefix.
LEMMA PrefixProps ==
  ASSUME NEW n \in 1 .. MaxLen
  PROVE  Prefix(n) \in Seq(Byte) /\ Len(Prefix(n)) = 2 /\ PrefixValue(Prefix(n)) = n
  <1> DEFINE x == n \div 256
             y == n % 256
  <1>1. x \in Byte /\ y \in Byte /\ x * 256 + y = n
    <2>1. n \in Int /\ 1 <= n /\ n < 256 * 256 BY Sizes, Longest
    <2>2. n \div 256 \in Int BY <2>1
    <2>3. n % 256 \in 0 .. 255 BY <2>1
    <2>4. n = 256 * (n \div 256) + (n % 256) BY <2>1
    <2> QED BY <2>1, <2>2, <2>3, <2>4 DEF Byte
  <1>2. Prefix(n) = <<x, y>> BY DEF Prefix
  <1> HIDE DEF x, y
  <1>3. <<x, y>> \in Seq(Byte) /\ Len(<<x, y>>) = 2 BY <1>1
  <1>4. PrefixValue(<<x, y>>) = n BY <1>1 DEF PrefixValue
  <1> QED BY <1>2, <1>3, <1>4, Zenon

\* The two bytes that announce a length.
LEMMA PrefixOfValue ==
  ASSUME NEW b \in Seq(Byte), Len(b) >= 2, NEW v, v = PrefixValue(b)
  PROVE  /\ v \in Nat
         /\ Prefix(v) = SubSeq(b, 1, 2)
  <1> DEFINE x == b[1]
             y == b[2]
             p == SubSeq(b, 1, 2)
  <1>1. x \in Byte /\ y \in Byte BY ElementOfSeq
  <1>2. v = x * 256 + y BY DEF PrefixValue
  <1>3. p \in Seq(Byte) /\ Len(p) = 2 /\ p[1] = x /\ p[2] = y
    <2>1. 2 \in 0 .. Len(b) OBVIOUS
    <2> QED BY <2>1, Cut
  <1> HIDE DEF x, y, p
  <1>4. v \in Nat /\ v \div 256 = x /\ v % 256 = y
    <2>1. x \in Int /\ 0 <= x /\ x <= 255 /\ y \in Int /\ 0 <= y /\ y <= 255 BY <1>1 DEF Byte
    <2>2. v \div 256 = x BY <1>2, <2>1
    <2>3. v % 256 = y BY <1>2, <2>1
    <2> QED BY <1>2, <2>1, <2>2, <2>3
  <1>5. Prefix(v) = <<x, y>> BY <1>4 DEF Prefix
  <1>6. <<x, y>> = p BY <1>1, <1>3
  <1>7. Prefix(v) = p BY <1>5, <1>6
  <1>8. Prefix(v) = SubSeq(b, 1, 2) BY <1>7, Zenon DEF p
  <1>9. v \in Nat BY ONLY <1>4
  <1> QED BY ONLY <1>8, <1>9

-----------------------------------------------------------------------------
(* The operations on the buffer, by its fields.                            *)

\* Bytes put into a buffer leave its other fields alone.
LEMMA SetBuf ==
  ASSUME NEW s \in SbType, NEW x
  PROVE  [s EXCEPT !.buf = x] = Sb(x, s.off, s.len, s.next, s.residual, s.formed, s.error, s.asserted)
  BY DEF SbType, Sb

\* The fields of a buffer that is given by them.
LEMMA SbGet ==
  ASSUME NEW b, NEW o, NEW l, NEW n, NEW r, NEW f, NEW e, NEW a
  PROVE  LET s == Sb(b, o, l, n, r, f, e, a)
         IN  /\ s.buf = b /\ s.off = o /\ s.len = l /\ s.next = n /\ s.residual = r
             /\ s.formed = f /\ s.error = e /\ s.asserted = a
  BY DEF Sb

\* Such a buffer is well-typed if its fields are.
LEMMA SbIn ==
  ASSUME NEW b \in Seq(Byte), NEW o \in Nat, NEW l \in Int, NEW n \in Int, NEW r \in Seq(Byte),
         NEW f \in BOOLEAN, NEW e \in BOOLEAN, NEW a \in BOOLEAN
  PROVE  Sb(b, o, l, n, r, f, e, a) \in SbType
  BY DEF Sb, SbType

\* stream_buf_reset keeps the residual, the error and nothing else.
LEMMA Reset ==
  ASSUME NEW s \in SbType
  PROVE  stream_buf_reset(s) = Sb(<<>>, 0, -1, 0, s.residual, FALSE, s.error, s.asserted)
  <1> DEFINE no == FALSE
             s1 == [s EXCEPT !.formed = no]
             s2 == [s1 EXCEPT !.buf = <<>>]
             s3 == [s2 EXCEPT !.off = 0]
             s4 == [s3 EXCEPT !.next = 0]
             s5 == [s4 EXCEPT !.len = -1]
  <1>0. stream_buf_reset(s) = s5 BY Zenon DEF stream_buf_reset
  <1> HIDE DEF no
  <1>1. s1 = Sb(s.buf, s.off, s.len, s.next, s.residual, no, s.error, s.asserted) BY DEF SbType, Sb
  <1> HIDE DEF s1
  <1>2. s2 = Sb(<<>>, s.off, s.len, s.next, s.residual, no, s.error, s.asserted) BY <1>1 DEF Sb
  <1> HIDE DEF s2
  <1>3. s3 = Sb(<<>>, 0, s.len, s.next, s.residual, no, s.error, s.asserted) BY <1>2 DEF Sb
  <1> HIDE DEF s3
  <1>4. s4 = Sb(<<>>, 0, s.len, 0, s.residual, no, s.error, s.asserted) BY <1>3 DEF Sb
  <1> HIDE DEF s4
  <1>5. s5 = Sb(<<>>, 0, -1, 0, s.residual, no, s.error, s.asserted) BY <1>4 DEF Sb
  <1> HIDE DEF s5
  <1> QED BY <1>0, <1>5, Zenon DEF no

\* stream_buf_set_next asks for what is wanted, and its assertions hold.
LEMMA SetNext ==
  ASSUME NEW s \in SbType, Filling(s)
  PROVE  /\ stream_buf_set_next(s) \in SbType /\ Filling(stream_buf_set_next(s))
         /\ stream_buf_set_next(s).next = Wanted(stream_buf_set_next(s))
         /\ stream_buf_set_next(s).error = s.error
         /\ Held(stream_buf_set_next(s)) = Held(s)
  <1> DEFINE n == Wanted(s)
             a == s.asserted /\ n > 0 /\ s.off + Len(s.buf) + n <= MaxLen + Slack
             t1 == [s EXCEPT !.next = n]
             t == [t1 EXCEPT !.asserted = a]
  <1>0. stream_buf_set_next(s) = t BY Zenon DEF stream_buf_set_next, Wanted
  <1>1. /\ s.buf \in Seq(Byte) /\ s.off \in Nat /\ s.len \in Int /\ Len(s.buf) \in Nat /\ s.residual \in Seq(Byte)
    BY LenProperties DEF SbType
  <1>2. s.asserted BY DEF Filling
  <1>3. n \in Nat /\ n > 0 /\ n <= MaxLen /\ s.off + Len(s.buf) + n <= MaxLen + Slack
    <2>1. CASE s.len = -1 /\ s.off = 0 /\ Len(s.buf) <= 1
      <3>1. ~(s.len >= 0) BY <2>1
      <3>2. n = MaxLen - Len(s.buf) BY <3>1, Zenon DEF Wanted
      <3> HIDE DEF n
      <3> QED BY ONLY <1>1, <2>1, <3>2, Sizes
    <2>2. CASE s.len \in 1 .. MaxLen /\ s.off = 2 /\ Len(s.buf) < s.len
      <3>1. s.len >= 0 BY <2>2, Sizes
      <3>2. n = s.len - Len(s.buf) BY <3>1, Zenon DEF Wanted
      <3> HIDE DEF n
      <3> QED BY ONLY <1>1, <2>2, <3>2, Sizes
    <2> QED BY <2>1, <2>2, Zenon DEF Filling
  <1>4. a = TRUE BY <1>2, <1>3
  <1> HIDE DEF n, a
  <1>5. t1 = Sb(s.buf, s.off, s.len, n, s.residual, s.formed, s.error, s.asserted) BY DEF SbType, Sb
  <1> HIDE DEF t1
  <1>6. t = Sb(s.buf, s.off, s.len, n, s.residual, s.formed, s.error, a) BY <1>5 DEF Sb
  <1> HIDE DEF t
  <1>7. /\ t.buf = s.buf /\ t.off = s.off /\ t.len = s.len /\ t.next = n /\ t.residual = s.residual
        /\ t.formed = s.formed /\ t.error = s.error /\ t.asserted = a
    BY <1>6, SbGet
  <1>8. t \in SbType
    <2>1. s.formed \in BOOLEAN /\ s.error \in BOOLEAN BY DEF SbType
    <2>2. a \in BOOLEAN BY <1>4
    <2>3. n \in Int BY <1>3
    <2> QED BY <1>1, <1>6, <2>1, <2>2, <2>3, SbIn
  <1>9. Filling(t) BY <1>4, <1>7 DEF Filling
  <1>10. Wanted(t) = n BY <1>7 DEF Wanted, n
  <1>11. Held(t) = Held(s) BY <1>7 DEF Held
  <1> QED BY <1>0, <1>7, <1>8, <1>9, <1>10, <1>11

\* The excess of a buffer with a whole packet becomes the residual.
LEMMA Split ==
  ASSUME NEW s \in SbType, s.asserted, s.len \in 1 .. MaxLen, s.off = 2, s.residual = <<>>,
         Len(s.buf) >= s.len, Len(s.buf) - s.len <= MaxLen
  PROVE  /\ SplitExcess(s) \in SbType /\ Holding(SplitExcess(s))
         /\ SplitExcess(s).error = s.error /\ SplitExcess(s).formed = s.formed
         /\ Held(SplitExcess(s)) = Held(s)
  <1> DEFINE b == SubSeq(s.buf, 1, s.len)
             r == SubSeq(s.buf, s.len + 1, Len(s.buf))
             a == s.asserted /\ Len(s.buf) - s.len <= MaxLen
             t1 == [s EXCEPT !.buf = b]
             t2 == [t1 EXCEPT !.residual = r]
             t == [t2 EXCEPT !.asserted = a]
  <1>0. SplitExcess(s) = t BY Zenon DEF SplitExcess
  <1>1. s.buf \in Seq(Byte) /\ s.len \in 0 .. Len(s.buf) /\ Len(s.buf) \in Nat
    BY LenProperties, Sizes DEF SbType
  <1>2. b \in Seq(Byte) /\ r \in Seq(Byte) /\ Len(b) = s.len /\ Len(r) = Len(s.buf) - s.len /\ b \o r = s.buf
    <2> DEFINE B == s.buf
               k == s.len
    <2>1. B \in Seq(Byte) /\ k \in 0 .. Len(B) BY <1>1
    <2> HIDE DEF B, k
    <2>2. /\ SubSeq(B, 1, k) \in Seq(Byte) /\ SubSeq(B, k + 1, Len(B)) \in Seq(Byte)
          /\ Len(SubSeq(B, 1, k)) = k /\ Len(SubSeq(B, k + 1, Len(B))) = Len(B) - k
          /\ SubSeq(B, 1, k) \o SubSeq(B, k + 1, Len(B)) = B
      BY ONLY <2>1, Cut
    <2> QED BY ONLY <2>2 DEF B, k
  <1>3. a = TRUE OBVIOUS
  <1> HIDE DEF b, r, a
  <1>5. t1 = Sb(b, s.off, s.len, s.next, s.residual, s.formed, s.error, s.asserted) BY ONLY s \in SbType DEF SbType, Sb
  <1> HIDE DEF t1
  <1>6. t2 = Sb(b, s.off, s.len, s.next, r, s.formed, s.error, s.asserted) BY ONLY <1>5 DEF Sb
  <1> HIDE DEF t2
  <1>7. t = Sb(b, s.off, s.len, s.next, r, s.formed, s.error, a) BY <1>6 DEF Sb
  <1> HIDE DEF t
  <1>8. /\ t.buf = b /\ t.off = s.off /\ t.len = s.len /\ t.residual = r
        /\ t.formed = s.formed /\ t.error = s.error /\ t.asserted = a
    BY <1>7, SbGet
  <1>9. t \in SbType
    <2>1. s.formed \in BOOLEAN /\ s.error \in BOOLEAN BY DEF SbType
    <2>2. a \in BOOLEAN BY <1>3
    <2>3. s.off \in Nat /\ s.len \in Int /\ s.next \in Int BY DEF SbType
    <2>4. b \in Seq(Byte) /\ r \in Seq(Byte) BY <1>2
    <2> QED BY ONLY <1>7, <2>1, <2>2, <2>3, <2>4, SbIn
  <1>10. Holding(t) BY <1>2, <1>3, <1>8 DEF Holding
  <1>11. Held(t) = Held(s)
    <2>1. s.buf \o s.residual = s.buf BY <1>1, ConcatEmptySeq
    <2> QED BY <1>2, <1>8, <2>1 DEF Held
  <1> QED BY <1>0, <1>8, <1>9, <1>10, <1>11

\* A buffer with the bytes of recv added and the length not looked at.
Added(s) ==
  /\ s \in SbType /\ ~s.formed /\ s.asserted /\ s.residual = <<>>
  /\ \/ s.len = -1 /\ s.off = 0 /\ Len(s.buf) \in 1 .. MaxLen
     \/ s.len \in 1 .. MaxLen /\ s.off = 2 /\ Len(s.buf) <= s.len

\* The stream is in error: its two first bytes are no length.
BadLength(s) == s.len = -1 /\ Len(s.buf) >= 2 /\ PrefixValue(s.buf) \notin 1 .. MaxLen

\* The buffer is empty after an error.
Emptied(s) ==
  /\ s \in SbType /\ s.error /\ s.asserted /\ ~s.formed /\ s.buf = <<>> /\ s.len = -1
  /\ s.off = 0 /\ s.next = 0 /\ s.residual = <<>>

\* A buffer with a good length is as if the prefix had never been in buf.
Measured(s) ==
  /\ s \in SbType /\ ~s.formed /\ s.asserted /\ s.residual = <<>>
  /\ \/ s.len = -1 /\ s.off = 0 /\ Len(s.buf) = 1
     \/ s.len \in 1 .. MaxLen /\ s.off = 2 /\ Len(s.buf) <= MaxLen

\* Reading the length.
LEMMA Taken ==
  ASSUME NEW s, Added(s)
  PROVE  \/ BadLength(s) /\ Emptied(TakePrefix(s))
         \/ /\ Measured(TakePrefix(s)) /\ TakePrefix(s).error = s.error
            /\ Held(TakePrefix(s)) = Held(s)
  <1> DEFINE n == PrefixValue(s.buf)
  <1>1. s \in SbType BY DEF Added
  <1>2. s.buf \in Seq(Byte) /\ Len(s.buf) \in Nat /\ s.len \in Int /\ s.residual = <<>>
    BY <1>1, LenProperties DEF SbType, Added
  <1>3. CASE ~(s.len < 0 /\ Len(s.buf) >= 2)
    <2>1. TakePrefix(s) = s BY <1>3 DEF TakePrefix, PrefixLen
    <2>2. \/ s.len = -1 /\ s.off = 0 /\ Len(s.buf) = 1
          \/ s.len \in 1 .. MaxLen /\ s.off = 2 /\ Len(s.buf) <= MaxLen
      <3>1. CASE s.len = -1 /\ s.off = 0 /\ Len(s.buf) \in 1 .. MaxLen 
        <4> DEFINE L == Len(s.buf)
        <4>1. s.len < 0 BY ONLY <3>1
        <4>2. L \in Nat /\ ~(L >= 2) /\ L >= 1
          <5>1. ~(L >= 2) BY ONLY <1>3, <4>1, Zenon
          <5> HIDE DEF L
          <5>2. L \in 1 .. MaxLen BY <3>1 DEF L
          <5> QED BY <5>1, <5>2, Sizes
        <4> HIDE DEF L
        <4>3. L = 1 BY ONLY <4>2
        <4> QED BY ONLY <3>1, <4>3, Zenon DEF L
      <3>2. CASE s.len \in 1 .. MaxLen /\ s.off = 2 /\ Len(s.buf) <= s.len BY <1>2, <3>2, Sizes
      <3> QED BY <3>1, <3>2 DEF Added
    <2>3. Measured(s) BY <1>1, <2>2, Zenon DEF Added, Measured
    <2> QED BY <2>1, <2>3
  <1>4. CASE s.len < 0 /\ Len(s.buf) >= 2
    <2>1. s.len = -1 /\ s.off = 0 /\ Len(s.buf) <= MaxLen BY <1>4, Sizes DEF Added
    <2>2. n \in Nat /\ Prefix(n) = SubSeq(s.buf, 1, 2)
      <3> DEFINE B == s.buf
                 v == PrefixValue(B)
      <3>1. B \in Seq(Byte) /\ Len(B) >= 2 BY <1>2, <1>4
      <3> HIDE DEF B
      <3>2. v = PrefixValue(B) OBVIOUS
      <3> HIDE DEF v
      <3>3. v \in Nat /\ Prefix(v) = SubSeq(B, 1, 2) BY ONLY <3>1, <3>2, PrefixOfValue, Zenon
      <3> QED BY ONLY <3>3, Zenon DEF v, B
    <2> HIDE DEF n
    <2>3. CASE n < 1 \/ n > MaxLen
      <3> DEFINE u == stream_buf_reset(s)
                 yes == TRUE
                 no == FALSE
                 t == [u EXCEPT !.error = yes]
      <3>1. TakePrefix(s) = t BY <1>4, <2>3 DEF TakePrefix, PrefixLen, n
      <3>2. u = Sb(<<>>, 0, -1, 0, s.residual, no, s.error, s.asserted) BY <1>1, Reset, Zenon
      <3>3. s.asserted = TRUE BY DEF Added
      <3> HIDE DEF u, yes, no
      <3>4. t = Sb(<<>>, 0, -1, 0, s.residual, no, yes, s.asserted) BY ONLY <3>2 DEF Sb
      <3> HIDE DEF t
      <3>5. /\ t.buf = <<>> /\ t.off = 0 /\ t.len = -1 /\ t.next = 0 /\ t.residual = s.residual
            /\ t.formed = no /\ t.error = yes /\ t.asserted = s.asserted
        BY ONLY <3>4, SbGet
      <3>6. t \in SbType
        <4>1. <<>> \in Seq(Byte) /\ 0 \in Nat /\ 0 \in Int /\ -1 \in Int OBVIOUS
        <4>2. no \in BOOLEAN /\ yes \in BOOLEAN /\ s.asserted \in BOOLEAN BY <3>3 DEF yes, no
        <4> QED BY <1>2, <3>4, <4>1, <4>2, SbIn
      <3>7. Emptied(t) BY <1>2, <3>3, <3>5, <3>6 DEF Emptied, yes, no
      <3>8. BadLength(s)
        <4>1. n \notin 1 .. MaxLen BY <2>2, <2>3, Sizes
        <4> QED BY <1>4, <2>1, <4>1, Zenon DEF BadLength, n
      <3> QED BY <3>1, <3>7, <3>8
    <2>4. CASE ~(n < 1 \/ n > MaxLen)
      <3> DEFINE b == SubSeq(s.buf, 2 + 1, Len(s.buf))
                 t1 == [s EXCEPT !.len = n]
                 t2 == [t1 EXCEPT !.buf = b]
                 t == [t2 EXCEPT !.off = s.off + 2]
      <3>1. TakePrefix(s) = t BY <1>4, <2>4 DEF TakePrefix, PrefixLen, n
      <3>2. /\ b \in Seq(Byte) /\ Len(b) = Len(s.buf) - 2 /\ SubSeq(s.buf, 1, 2) \o b = s.buf
        <4>1. 2 \in 0 .. Len(s.buf) BY <1>2, <1>4
        <4> QED BY <1>2, <4>1, Cut
      <3> HIDE DEF b
      <3>3. t1 = Sb(s.buf, s.off, n, s.next, s.residual, s.formed, s.error, s.asserted) BY <1>1 DEF SbType, Sb
      <3> HIDE DEF t1
      <3>4. t2 = Sb(b, s.off, n, s.next, s.residual, s.formed, s.error, s.asserted) BY <3>3 DEF Sb
      <3> HIDE DEF t2
      <3>5. t = Sb(b, s.off + 2, n, s.next, s.residual, s.formed, s.error, s.asserted) BY <3>4 DEF Sb
      <3> HIDE DEF t
      <3>6. /\ t.buf = b /\ t.off = s.off + 2 /\ t.len = n /\ t.residual = s.residual
            /\ t.formed = s.formed /\ t.error = s.error /\ t.asserted = s.asserted
        BY <3>5, SbGet
      <3>7. t \in SbType
        <4>1. s.formed \in BOOLEAN /\ s.error \in BOOLEAN /\ s.asserted \in BOOLEAN BY <1>1 DEF SbType
        <4>2. s.off + 2 \in Nat /\ n \in Int /\ s.next \in Int /\ s.residual \in Seq(Byte)
          BY <1>1, <2>1, <2>2 DEF SbType
        <4> QED BY <3>2, <3>5, <4>1, <4>2, SbIn
      <3>8. Measured(t)
        <4>1. n \in 1 .. MaxLen BY <2>2, <2>4, Sizes
        <4>2. Len(b) <= MaxLen BY <1>2, <2>1, <3>2, Sizes
        <4>3. t.off = 2 BY <2>1, <3>6
        <4>4. ~s.formed /\ s.asserted BY DEF Added
        <4> QED BY <1>2, <3>6, <3>7, <4>1, <4>2, <4>3, <4>4 DEF Measured
      <3>9. Held(t) = Held(s)
        <4>1. Held(t) = Prefix(n) \o (b \o <<>>)
          <5>1. t.len >= 0 BY <2>2, <3>6
          <5> QED BY ONLY <1>2, <3>6, <5>1, Zenon DEF Held
        <4>2. b \o <<>> = b BY <3>2, ConcatEmptySeq
        <4>3. Held(s) = <<>> \o (s.buf \o <<>>) BY <1>2, <2>1 DEF Held
        <4>4. <<>> \o (s.buf \o <<>>) = s.buf BY <1>2, ConcatEmptySeq
        <4> QED BY ONLY <2>2, <3>2, <4>1, <4>2, <4>3, <4>4, Zenon
      <3> QED BY <3>1, <3>6, <3>8, <3>9
    <2> QED BY <2>3, <2>4
  <1> QED BY <1>3, <1>4

\* What stream_buf_added may find in the buffer s: a packet, nothing yet that
\* is whole, or an error.
GotPacket(r, s) ==
  /\ r.done /\ r.sb \in SbType /\ Holding(r.sb) /\ ~r.sb.formed
  /\ r.sb.error = s.error /\ Held(r.sb) = Held(s)
GotPart(r, s) ==
  /\ ~r.done /\ r.sb \in SbType /\ Filling(r.sb) /\ r.sb.next = Wanted(r.sb)
  /\ r.sb.error = s.error /\ Held(r.sb) = Held(s)
GotError(r, s) == ~r.done /\ Emptied(r.sb) /\ BadLength(s)
Got(r, s) == GotPacket(r, s) \/ GotPart(r, s) \/ GotError(r, s)

\* With a good length, or none yet, there is a packet or a part of one.
LEMMA AfterGood ==
  ASSUME NEW s, Measured(s)
  PROVE  GotPacket(AfterPrefix(s), s) \/ GotPart(AfterPrefix(s), s)
  <1>1. s \in SbType /\ ~s.formed /\ s.asserted /\ s.residual = <<>> BY Zenon DEF Measured
  <1>2. s.buf \in Seq(Byte) /\ Len(s.buf) \in Nat /\ s.len \in Int BY <1>1, LenProperties DEF SbType
  <1>3. ~(s.error /\ s.len < 0 /\ s.buf = <<>>)
    <2>1. CASE s.len = -1 /\ s.off = 0 /\ Len(s.buf) = 1
      <3>1. s.buf # <<>> BY <2>1, <1>2, EmptySeq
      <3> QED BY <3>1
    <2>2. CASE s.len \in 1 .. MaxLen
      <3>1. ~(s.len < 0) BY <2>2, Sizes
      <3> QED BY <3>1
    <2> QED BY <2>1, <2>2 DEF Measured
  <1>4. CASE Complete(s)
    <2>1. AfterPrefix(s) = [done |-> TRUE, sb |-> SplitExcess(s)] BY <1>3, <1>4, Zenon DEF AfterPrefix
    <2>2. AfterPrefix(s).done /\ AfterPrefix(s).sb = SplitExcess(s) BY ONLY <2>1
    <2>3. s.len > 0 /\ Len(s.buf) >= s.len BY <1>4 DEF Complete
    <2>4. s.len \in 1 .. MaxLen /\ s.off = 2 /\ Len(s.buf) <= MaxLen
      <3>1. CASE s.len = -1 BY <2>3, <3>1
      <3>2. CASE s.len \in 1 .. MaxLen /\ s.off = 2 /\ Len(s.buf) <= MaxLen BY <3>2
      <3> QED BY <3>1, <3>2 DEF Measured
    <2>5. Len(s.buf) - s.len <= MaxLen BY <1>2, <2>4, Sizes
    <2>6. /\ SplitExcess(s) \in SbType /\ Holding(SplitExcess(s))
          /\ SplitExcess(s).error = s.error /\ SplitExcess(s).formed = s.formed
          /\ Held(SplitExcess(s)) = Held(s)
      BY <1>1, <2>3, <2>4, <2>5, Split, Zenon
    <2> QED BY <1>1, <2>2, <2>6, Zenon DEF GotPacket
  <1>5. CASE ~Complete(s)
    <2>1. AfterPrefix(s) = [done |-> FALSE, sb |-> stream_buf_set_next(s)]
      BY <1>3, <1>5, Zenon DEF AfterPrefix
    <2>2. ~AfterPrefix(s).done /\ AfterPrefix(s).sb = stream_buf_set_next(s) BY ONLY <2>1
    <2>3. \/ s.len = -1 /\ s.off = 0 /\ Len(s.buf) <= 1
          \/ s.len \in 1 .. MaxLen /\ s.off = 2 /\ Len(s.buf) < s.len
      <3>1. CASE s.len = -1 /\ s.off = 0 /\ Len(s.buf) = 1 BY ONLY <3>1
      <3>2. CASE s.len \in 1 .. MaxLen /\ s.off = 2 /\ Len(s.buf) <= MaxLen
        <4>1. s.len > 0 BY <3>2, Sizes
        <4>2. ~(Len(s.buf) >= s.len) BY <1>5, <4>1, Zenon DEF Complete
        <4> QED BY <1>2, <3>2, <4>2
      <3> QED BY <3>1, <3>2 DEF Measured
    <2>4. Filling(s) BY <1>1, <2>3, Zenon DEF Filling
    <2> QED BY <1>1, <2>2, <2>4, SetNext, Zenon DEF GotPart
  <1> QED BY <1>4, <1>5

\* stream_buf_added finds a packet, a part of one or an error.
LEMMA AddedResult ==
  ASSUME NEW s, Added(s)
  PROVE  Got(AfterPrefix(TakePrefix(s)), s)
  <1> DEFINE t == TakePrefix(s)
  <1>1. CASE BadLength(s) /\ Emptied(t)
    <2>1. t.error /\ t.len = -1 /\ t.buf = <<>> BY <1>1 DEF Emptied
    <2> HIDE DEF t
    <2>2. t.len < 0 BY <2>1
    <2>3. AfterPrefix(t) = [done |-> FALSE, sb |-> t] BY <2>1, <2>2, Zenon DEF AfterPrefix
    <2>4. ~AfterPrefix(t).done /\ AfterPrefix(t).sb = t BY ONLY <2>3
    <2>5. GotError(AfterPrefix(t), s) BY <1>1, <2>4, Zenon DEF GotError
    <2> QED BY <2>5, Zenon DEF Got, t
  <1>2. CASE Measured(t) /\ t.error = s.error /\ Held(t) = Held(s)
    <2> HIDE DEF t
    <2>1. GotPacket(AfterPrefix(t), t) \/ GotPart(AfterPrefix(t), t) BY <1>2, AfterGood
    <2>2. GotPacket(AfterPrefix(t), s) \/ GotPart(AfterPrefix(t), s)
      BY <1>2, <2>1, Zenon DEF GotPacket, GotPart
    <2> QED BY <2>2, Zenon DEF Got, t
  <1> QED BY <1>1, <1>2, Taken

-----------------------------------------------------------------------------
(* The two ways bytes get into the buffer.                                 *)

\* recv.
LEMMA AddedBytes ==
  ASSUME NEW s \in SbType, Filling(s), NEW x \in Seq(Byte), Len(x) >= 1, Len(x) <= Wanted(s)
  PROVE  \E t : /\ Added(t) /\ t.error = s.error /\ Held(t) = Held(s) \o x
                /\ Got(stream_buf_added(s, x), t)
  <1> DEFINE B == s.buf \o x
             t == [s EXCEPT !.buf = B]
  <1>1. stream_buf_added(s, x) = AfterPrefix(TakePrefix(t)) BY Zenon DEF stream_buf_added
  <1>2. /\ s.buf \in Seq(Byte) /\ Len(s.buf) \in Nat /\ s.len \in Int /\ Len(x) \in Nat
        /\ s.off \in Nat /\ s.next \in Int /\ s.residual \in Seq(Byte)
    BY LenProperties DEF SbType
  <1>3. B \in Seq(Byte) /\ Len(B) = Len(s.buf) + Len(x) BY <1>2, ConcatProperties
  <1>4. t = Sb(B, s.off, s.len, s.next, s.residual, s.formed, s.error, s.asserted)
    <2> HIDE DEF B
    <2> QED BY SetBuf, Zenon
  <1>5. /\ t.buf = B /\ t.off = s.off /\ t.len = s.len /\ t.residual = s.residual
        /\ t.formed = s.formed /\ t.error = s.error /\ t.asserted = s.asserted
    <2> HIDE DEF B, t
    <2> QED BY ONLY <1>4, SbGet
  <1>6. t \in SbType
    <2>1. s.formed \in BOOLEAN /\ s.error \in BOOLEAN /\ s.asserted \in BOOLEAN BY DEF SbType
    <2> HIDE DEF B, t
    <2> QED BY <1>2, <1>3, <1>4, <2>1, SbIn
  <1>7. \/ s.len = -1 /\ s.off = 0 /\ Len(B) \in 1 .. MaxLen
        \/ s.len \in 1 .. MaxLen /\ s.off = 2 /\ Len(B) <= s.len
    <2> HIDE DEF B
    <2>1. CASE s.len = -1 /\ s.off = 0 BY <1>2, <1>3, <2>1, Sizes DEF Wanted
    <2>2. CASE s.len \in 1 .. MaxLen /\ s.off = 2 BY <1>2, <1>3, <2>2, Sizes DEF Wanted
    <2> QED BY <2>1, <2>2 DEF Filling
  <1>8. ~s.formed /\ s.asserted /\ s.residual = <<>> BY Zenon DEF Filling
  <1>9. Added(t)
    <2> HIDE DEF B, t
    <2> QED BY <1>5, <1>6, <1>7, <1>8, Zenon DEF Added
  <1>10. Held(t) = Held(s) \o x
    <2> DEFINE P == IF s.len >= 0 THEN Prefix(s.len) ELSE <<>>
    <2>1. P \in Seq(Byte)
      <3>1. CASE s.len >= 0
        <4> DEFINE k == s.len
        <4>0. k \in 1 .. MaxLen BY <3>1 DEF Filling
        <4> HIDE DEF k
        <4>2. Prefix(k) \in Seq(Byte) BY ONLY <4>0, PrefixProps, Zenon
        <4> USE DEF k
        <4> QED BY <3>1, <4>2, Zenon
      <3>2. CASE ~(s.len >= 0) BY <3>2
      <3> QED BY <3>1, <3>2
    <2>2. Held(s) = P \o (s.buf \o <<>>) BY <1>8, Zenon DEF Held
    <2>3. Held(t) = P \o (B \o <<>>)
      <3> HIDE DEF B, t
      <3> QED BY <1>5, <1>8, Zenon DEF Held
    <2> HIDE DEF P
    <2>4. s.buf \o <<>> = s.buf /\ B \o <<>> = B BY <1>2, <1>3, ConcatEmptySeq
    <2>5. (P \o s.buf) \o x = P \o B
      <3> DEFINE b == s.buf
      <3>1. b \in Seq(Byte) /\ B = b \o x BY <1>2
      <3> HIDE DEF b, B
      <3>2. (P \o b) \o x = P \o (b \o x) BY ONLY <2>1, <3>1, x \in Seq(Byte), ConcatAssociative
      <3> QED BY ONLY <3>1, <3>2, Zenon DEF b
    <2> HIDE DEF B, t
    <2> QED BY <2>2, <2>3, <2>4, <2>5
  <1>11. Got(stream_buf_added(s, x), t)
    <2> HIDE DEF t
    <2> QED BY <1>1, <1>9, AddedResult, Zenon
  <1> HIDE DEF t
  <1> QED BY <1>5, <1>9, <1>10, <1>11, Zenon

\* stream_buf_read_setup_dowork moves the residual into the buffer.
LEMMA AddedResidual ==
  ASSUME NEW s \in SbType, Waiting(s), s.residual # <<>>
  PROVE  \E t : /\ Added(t) /\ t.error = s.error /\ Held(t) = Held(s)
                /\ Got(stream_buf_added([s EXCEPT !.buf = s.residual, !.residual = <<>>], <<>>), t)
  <1> DEFINE R == s.residual
             u1 == [s EXCEPT !.buf = R]
             u == [u1 EXCEPT !.residual = <<>>]
             B == R \o <<>>
             t == [u EXCEPT !.buf = u.buf \o <<>>]
  <1>1. stream_buf_added([s EXCEPT !.buf = s.residual, !.residual = <<>>], <<>>) = AfterPrefix(TakePrefix(t))
    BY Zenon DEF stream_buf_added
  <1>2. /\ R \in Seq(Byte) /\ Len(R) \in Nat /\ s.len \in Int /\ s.off \in Nat /\ s.next \in Int
        /\ Len(R) \in 1 .. MaxLen
    BY LenProperties, EmptySeq, Sizes DEF SbType, Waiting
  <1>3. R \o <<>> = R /\ <<>> \o R = R BY <1>2, ConcatEmptySeq
  <1>4. u1 = Sb(R, s.off, s.len, s.next, s.residual, s.formed, s.error, s.asserted)
    <2> HIDE DEF R
    <2> QED BY ONLY s \in SbType DEF SbType, Sb
  <1> HIDE DEF u1
  <1>5. u = Sb(R, s.off, s.len, s.next, <<>>, s.formed, s.error, s.asserted)
    <2> HIDE DEF R
    <2> QED BY ONLY <1>4 DEF Sb
  <1> HIDE DEF u
  <1>6. u.buf = R
    <2> HIDE DEF R
    <2> QED BY ONLY <1>5, SbGet
  <1>7. t = Sb(R, s.off, s.len, s.next, <<>>, s.formed, s.error, s.asserted)
    <2>1. t = [u EXCEPT !.buf = R] BY <1>3, <1>6, Zenon
    <2> HIDE DEF R, t
    <2> QED BY ONLY <1>5, <2>1 DEF Sb
  <1>8. /\ t.buf = R /\ t.off = s.off /\ t.len = s.len /\ t.residual = <<>>
        /\ t.formed = s.formed /\ t.error = s.error /\ t.asserted = s.asserted
    <2> HIDE DEF R, t
    <2> QED BY ONLY <1>7, SbGet
  <1>9. t \in SbType
    <2>1. s.formed \in BOOLEAN /\ s.error \in BOOLEAN /\ s.asserted \in BOOLEAN BY DEF SbType
    <2>2. <<>> \in Seq(Byte) OBVIOUS
    <2> HIDE DEF R, t
    <2> QED BY ONLY <1>2, <1>7, <2>1, <2>2, SbIn
  <1>10. /\ ~s.formed /\ s.asserted /\ s.len = -1 /\ s.off = 0 /\ s.buf = <<>> BY Zenon DEF Waiting
  <1>11. Added(t)
    <2> HIDE DEF R, t
    <2> QED BY <1>2, <1>8, <1>9, <1>10, Zenon DEF Added
  <1>12. Held(t) = Held(s)
    <2>1. ~(s.len >= 0) BY <1>10
    <2> HIDE DEF t
    <2>2. Held(t) = <<>> \o (R \o <<>>) BY <1>8, <2>1, Zenon DEF Held
    <2>3. Held(s) = <<>> \o (<<>> \o R) BY <1>10, <2>1, Zenon DEF Held
    <2> HIDE DEF R
    <2> QED BY <1>3, <2>2, <2>3, Zenon
  <1>13. Got(AfterPrefix(TakePrefix(t)), t)
    <2> HIDE DEF t
    <2> QED BY <1>11, AddedResult, Zenon
  <1> HIDE DEF t
  <1> QED BY <1>1, <1>8, <1>11, <1>12, <1>13, Zenon

-----------------------------------------------------------------------------
(* The stream.                                                             *)

\* What the receiver holds are bytes.
LEMMA HeldType ==
  ASSUME NEW s \in SbType, s.len = -1 \/ s.len \in 1 .. MaxLen
  PROVE  Held(s) \in Seq(Byte)
  <1> DEFINE P == IF s.len >= 0 THEN Prefix(s.len) ELSE <<>>
             b == s.buf
             q == s.residual
  <1>1. P \in Seq(Byte)
    <2>1. CASE s.len = -1
      <3>1. ~(s.len >= 0) BY <2>1
      <3> QED BY <3>1
    <2>2. CASE s.len \in 1 .. MaxLen
      <3>1. s.len >= 0 BY <2>2, Sizes
      <3>2. Prefix(s.len) \in Seq(Byte) BY <2>2, PrefixProps, Zenon
      <3> QED BY <3>1, <3>2, Zenon
    <2> QED BY <2>1, <2>2
  <1>2. b \in Seq(Byte) /\ q \in Seq(Byte) BY DEF SbType
  <1>3. Held(s) = P \o (b \o q) BY Zenon DEF Held
  <1> HIDE DEF P, b, q
  <1>4. b \o q \in Seq(Byte) BY ONLY <1>2, ConcatProperties
  <1>5. P \o (b \o q) \in Seq(Byte) BY ONLY <1>1, <1>4, ConcatProperties
  <1> QED BY <1>3, <1>5, Zenon

\* While read follows the stream, bytes in hand are those of the next packet.
LEMMA StreamHead ==
  ASSUME NEW S, Suffixes(S), written \in Seq(Packets), NEW r \in 0 .. Len(written),
         whole \/ r < Len(written), S[r] # <<>>
  PROVE  /\ r < Len(written) /\ written[r + 1] \in Packets
         /\ S[r + 1] \in Seq(Byte)
         /\ S[r] = Prefix(Len(written[r + 1])) \o (written[r + 1] \o S[r + 1])
  <1>1. Len(written) \in Nat /\ r \in Nat /\ r <= Len(written) BY LenProperties
  <1>2. r < Len(written)
    <2>1. CASE whole
      <3>1. S[Len(written)] = <<>> BY <2>1, Zenon DEF Suffixes
      <3>2. r # Len(written) BY <3>1
      <3> QED BY <1>1, <3>2
    <2> QED BY <2>1
  <1>3. r + 1 \in 1 .. Len(written) /\ (r + 1) - 1 = r /\ r + 1 \in 0 .. Len(written) BY <1>1, <1>2
  <1> DEFINE k == r + 1
             p == written[k]
  <1>4. p \in Packets BY <1>3, ElementOfSeq
  <1>5. S[k - 1] = Encode(p) \o S[k] /\ S[k] \in Seq(Byte) BY <1>3 DEF Suffixes
  <1>6. p \in Seq(Byte) /\ Len(p) \in 1 .. MaxLen BY <1>4, PacketSizes
  <1>7. Prefix(Len(p)) \in Seq(Byte) BY <1>6, PrefixProps, Zenon
  <1>8. Encode(p) = Prefix(Len(p)) \o p BY Zenon DEF Encode
  <1> DEFINE x == Prefix(Len(p))
             y == S[k]
  <1> HIDE DEF p, x, y
  <1>9. (x \o p) \o y = x \o (p \o y)
    <2>1. x \in Seq(Byte) /\ y \in Seq(Byte) BY <1>5, <1>7, Zenon DEF x, y
    <2> QED BY ONLY <1>6, <2>1, ConcatAssociative
  <1>10. S[r] = (x \o p) \o y
    <2>1. k - 1 = r BY <1>1
    <2> HIDE DEF k
    <2> QED BY <1>5, <1>8, <2>1, Zenon DEF x, y
  <1> HIDE DEF k
  <1>11. S[r] = x \o (p \o y) BY <1>9, <1>10, Zenon
  <1> QED BY <1>2, <1>4, <1>5, <1>11, Zenon DEF k, p, x, y

\* A length that is none is not met while read follows the stream.
LEMMA GoodLength ==
  ASSUME NEW S, Suffixes(S), written \in Seq(Packets), NEW r \in 0 .. Len(written),
         whole \/ r < Len(written),
         NEW H \in Seq(Byte), NEW W \in Seq(Byte), H \o W = S[r], Len(H) >= 2
  PROVE  PrefixValue(H) \in 1 .. MaxLen
  <1>1. H \o W # <<>>
    <2>1. Len(H \o W) = Len(H) + Len(W) /\ Len(W) \in Nat /\ Len(H) \in Nat BY ConcatProperties, LenProperties
    <2>2. Len(H \o W) >= 2 BY <2>1
    <2>3. Len(<<>>) = 0 OBVIOUS
    <2> QED BY <2>2, <2>3
  <1> DEFINE p == written[r + 1]
             n == Len(p)
             Z == p \o S[r + 1]
  <1>2. /\ p \in Packets /\ S[r + 1] \in Seq(Byte)
        /\ S[r] = Prefix(n) \o Z
    BY <1>1, StreamHead, Zenon
  <1>3. p \in Seq(Byte) /\ n \in 1 .. MaxLen BY <1>2, PacketSizes
  <1>4. Z \in Seq(Byte) BY <1>2, <1>3, ConcatProperties
  <1> HIDE DEF p, n, Z
  <1> DEFINE x == Prefix(n)
             h == SubSeq(H, 1, 2)
             g == SubSeq(H, 2 + 1, Len(H))
  <1>5. x \in Seq(Byte) /\ Len(x) = 2 /\ PrefixValue(x) = n BY <1>3, PrefixProps, Zenon
  <1>6. h \in Seq(Byte) /\ g \in Seq(Byte) /\ Len(h) = 2 /\ h \o g = H /\ h[1] = H[1] /\ h[2] = H[2]
    <2>1. 2 \in 0 .. Len(H) BY LenProperties
    <2> QED BY <2>1, Cut
  <1>7. x \o Z = H \o W BY <1>2, Zenon
  <1> HIDE DEF x, h, g
  <1>8. H \o W = h \o (g \o W)
    <2>1. h \in Seq(Byte) /\ g \in Seq(Byte) BY <1>6
    <2>2. (h \o g) \o W = h \o (g \o W) BY ONLY <2>1, W \in Seq(Byte), ConcatAssociative
    <2> QED BY <1>6, <2>2, Zenon
  <1>9. g \o W \in Seq(Byte) BY <1>6, ConcatProperties
  <1> DEFINE G == g \o W
  <1>10. x \o Z = h \o G BY <1>7, <1>8
  <1> HIDE DEF G
  <1>11. G \in Seq(Byte) BY <1>9 DEF G
  <1>12. x = h BY ONLY <1>4, <1>5, <1>6, <1>10, <1>11, ConcatCancel
  <1>13. PrefixValue(H) = PrefixValue(h) BY <1>6, Zenon DEF PrefixValue
  <1> QED BY <1>3, <1>5, <1>12, <1>13, Zenon

\* A packet that is complete is the next one that was written.
LEMMA NextPacket ==
  ASSUME NEW S, Suffixes(S), written \in Seq(Packets), NEW r \in 0 .. Len(written),
         whole \/ r < Len(written),
         NEW s \in SbType, Holding(s), NEW W \in Seq(Byte), Held(s) \o W = S[r]
  PROVE  /\ r < Len(written) /\ written[r + 1] \in Packets
         /\ s.buf = written[r + 1] /\ s.residual \o W = S[r + 1]
  <1> DEFINE l == s.len
             b == s.buf
             q == s.residual
             x == Prefix(l)
  <1>1. l \in 1 .. MaxLen /\ Len(b) = l /\ b \in Seq(Byte) /\ q \in Seq(Byte) BY DEF Holding, SbType
  <1>2. x \in Seq(Byte) /\ Len(x) = 2 /\ PrefixValue(x) = l BY <1>1, PrefixProps, Zenon
  <1>3. Held(s) = x \o (b \o q)
    <2>1. s.len >= 0 BY <1>1, Sizes
    <2> QED BY <2>1, Zenon DEF Held
  <1> HIDE DEF l, b, q, x
  <1>4. b \o q \in Seq(Byte) BY ONLY <1>1, ConcatProperties
  <1>5. (b \o q) \o W = b \o (q \o W) BY ONLY <1>1, W \in Seq(Byte), ConcatAssociative
  <1>6. q \o W \in Seq(Byte) BY ONLY <1>1, W \in Seq(Byte), ConcatProperties
  <1> DEFINE G == q \o W
             bq == b \o q
             bG == b \o G
  <1>7. bG \in Seq(Byte)
    <2>1. G \in Seq(Byte) BY <1>6
    <2> HIDE DEF G
    <2> QED BY ONLY <1>1, <2>1, ConcatProperties
  <1>8. S[r] = x \o bG
    <2>1. bq \in Seq(Byte) /\ bq \o W = bG BY <1>4, <1>5
    <2>2. S[r] = (x \o bq) \o W BY <1>3, Zenon
    <2> HIDE DEF bq, bG
    <2>4. x \in Seq(Byte) /\ bq \in Seq(Byte) BY <1>2, <2>1, Zenon
    <2>3. (x \o bq) \o W = x \o (bq \o W) BY ONLY <2>4, W \in Seq(Byte), ConcatAssociative
    <2> QED BY ONLY <2>1, <2>2, <2>3, Zenon
  <1>9. S[r] # <<>>
    <2> HIDE DEF bG
    <2>1. Len(x \o bG) = Len(x) + Len(bG) /\ Len(bG) \in Nat BY ONLY <1>2, <1>7, ConcatProperties, LenProperties
    <2>2. Len(x \o bG) >= 2 BY ONLY <2>1, <1>2
    <2>3. Len(<<>>) = 0 OBVIOUS
    <2> QED BY <1>8, <2>2, <2>3
  <1> DEFINE p == written[r + 1]
             Y == S[r + 1]
             Z == p \o Y
  <1>10. /\ r < Len(written) /\ p \in Packets /\ Y \in Seq(Byte) /\ S[r] = Prefix(Len(p)) \o Z
    BY <1>9, StreamHead, Zenon
  <1> HIDE DEF p, Y, G
  <1>11. p \in Seq(Byte) /\ Len(p) \in 1 .. MaxLen BY <1>10, PacketSizes
  <1>12. Z \in Seq(Byte) BY ONLY <1>10, <1>11, ConcatProperties
  <1> DEFINE w == Prefix(Len(p))
  <1>13. w \in Seq(Byte) /\ Len(w) = 2 /\ PrefixValue(w) = Len(p) BY <1>11, PrefixProps, Zenon
  <1>14. w \o Z = x \o bG BY <1>8, <1>10, Zenon
  <1>15. w = x /\ Z = bG
    <2> HIDE DEF w, Z, bG
    <2> QED BY ONLY <1>2, <1>7, <1>12, <1>13, <1>14, ConcatCancel
  <1>16. Len(p) = l BY <1>2, <1>13, <1>15, Zenon
  <1>17. p \o Y = b \o G BY <1>15
  <1>18. G \in Seq(Byte) BY <1>6 DEF G
  <1>19. p = b /\ Y = G BY ONLY <1>1, <1>10, <1>11, <1>16, <1>17, <1>18, ConcatCancel
  <1> QED BY <1>10, <1>19, Zenon DEF p, Y, G, b, q

-----------------------------------------------------------------------------
(* Every step preserves the inductive invariant.                           *)

\* A length is unknown or possible.
LEMMA ShapeLen ==
  ASSUME NEW s \in SbType, Shape(s)
  PROVE  s.len = -1 \/ s.len \in 1 .. MaxLen
  BY Zenon DEF Shape, Holding, Waiting, Filling

\* stream_buf_init gives an empty buffer that has not asked for bytes.
LEMMA InitSb ==
  /\ stream_buf_init = Sb(<<>>, 0, -1, 0, <<>>, FALSE, FALSE, TRUE)
  /\ stream_buf_init \in SbType
  /\ Waiting(stream_buf_init) /\ ~stream_buf_init.error /\ stream_buf_init.residual = <<>>
  <1> DEFINE no == FALSE
             yes == TRUE
             s == Sb(<<>>, 0, -1, 0, <<>>, no, no, yes)
  <1>1. stream_buf_init = stream_buf_reset(s) BY Zenon DEF stream_buf_init, Sb
  <1>2. no \in BOOLEAN /\ yes \in BOOLEAN BY Zenon
  <1>3. no = FALSE /\ yes = TRUE OBVIOUS
  <1> HIDE DEF no, yes
  <1>4. <<>> \in Seq(Byte) /\ 0 \in Nat /\ -1 \in Int /\ 0 \in Int OBVIOUS
  <1>5. s \in SbType BY ONLY <1>2, <1>4, SbIn
  <1>6. /\ s.buf = <<>> /\ s.off = 0 /\ s.len = -1 /\ s.next = 0 /\ s.residual = <<>>
        /\ s.formed = no /\ s.error = no /\ s.asserted = yes
    BY ONLY SbGet
  <1>7. s = Sb(<<>>, 0, -1, 0, <<>>, no, no, yes) OBVIOUS
  <1> HIDE DEF s
  <1>8. stream_buf_reset(s) = Sb(<<>>, 0, -1, 0, <<>>, no, no, yes)
    BY <1>3, <1>5, <1>6, Reset, Zenon
  <1>9. stream_buf_init = s BY <1>1, <1>7, <1>8, Zenon
  <1>10. Len(<<>>) <= MaxLen BY Sizes
  <1>11. Waiting(s) BY <1>3, <1>6, <1>10, Zenon DEF Waiting
  <1> QED BY <1>3, <1>5, <1>6, <1>7, <1>9, <1>11, Zenon

\* The inductive invariant holds initially.
LEMMA InitInv == StreamInit => IInv
  <1> SUFFICES ASSUME StreamInit PROVE IInv OBVIOUS
  <1>1. wire = <<>> /\ sb = stream_buf_init /\ conn = "open" /\ written = <<>> /\ whole = TRUE /\ read = <<>>
    BY Zenon DEF StreamInit
  <1>2. Types
    <2>1. <<>> \in Seq(Byte) /\ <<>> \in Seq(Packets) OBVIOUS
    <2>2. conn \in {"open", "eof", "reset"} BY <1>1
    <2>3. whole \in BOOLEAN BY <1>1
    <2> QED BY <1>1, <2>1, <2>2, <2>3, InitSb, Zenon DEF Types
  <1>3. Shape(sb) BY <1>1, InitSb, Zenon DEF Shape
  <1>4. InOrder BY <1>1 DEF InOrder
  <1>5. InStream
    <2> DEFINE S == [j \in 0 .. 0 |-> <<>>]
    <2>1. Len(written) = 0 BY <1>1
    <2>2. <<>> \in Seq(Byte) OBVIOUS
    <2>3. S \in [0 .. Len(written) -> Seq(Byte)] /\ S[Len(written)] = <<>> /\ S[0] = <<>> BY <2>1, <2>2
    <2>4. Suffixes(S) 
      <3>1. 1 .. Len(written) = {} BY <2>1
      <3> HIDE DEF S
      <3> QED BY <2>3, <3>1 DEF Suffixes
    <2>5. Held(sb) \o wire = S[Len(read)]
      <3>1. sb.len = -1 /\ sb.buf = <<>> /\ sb.residual = <<>> BY <1>1, InitSb, Zenon DEF Waiting
      <3>2. ~(sb.len >= 0) BY <3>1
      <3>3. Held(sb) = <<>> \o (<<>> \o <<>>) BY <3>1, <3>2, Zenon DEF Held
      <3>4. (<<>> \o (<<>> \o <<>>)) \o <<>> = <<>> OBVIOUS
      <3>5. Len(read) = 0 BY <1>1
      <3> HIDE DEF S
      <3> QED BY <1>1, <2>3, <3>3, <3>4, <3>5, Zenon
    <2>6. ~sb.error BY <1>1, InitSb, Zenon
    <2> HIDE DEF S
    <2> QED BY <2>4, <2>5, <2>6, Zenon DEF InStream
  <1> QED BY <1>2, <1>3, <1>4, <1>5, Zenon DEF IInv

\* A step of the receiver that returns no packet.
LEMMA Keep ==
  ASSUME IInv, NEW p, p \in SbType, Shape(p), sb' = p, wire' \in Seq(Byte),
         conn' \in {"open", "eof", "reset"}, UNCHANGED <<written, whole, read>>,
         Tracked => ~p.error /\ Held(p) \o wire' = Held(sb) \o wire
  PROVE  IInv'
  <1>1. written' = written /\ whole' = whole /\ read' = read BY Zenon
  <1>1a. whole' <=> whole BY <1>1
  <1>2. Types' BY <1>1, Zenon DEF IInv, Types
  <1>3. Shape(sb)' BY Zenon DEF Shape, Holding, Waiting, Filling, Wanted
  <1>4. InOrder' BY <1>1, Zenon DEF IInv, InOrder
  <1>5. InStream'
    <2>1. PICK S : /\ Suffixes(S)
                   /\ Tracked => ~sb.error /\ Held(sb) \o wire = S[Len(read)]
      BY Zenon DEF IInv, InStream
    <2>2. Suffixes(S)' BY <1>1, <1>1a, <2>1, Zenon DEF Suffixes
    <2>3. Tracked' <=> Tracked BY <1>1, <1>1a, Zenon DEF Tracked
    <2>4. Held(sb)' = Held(p) BY Zenon DEF Held
    <2>5. Tracked => ~sb'.error /\ Held(sb)' \o wire' = S[Len(read')]
      BY <1>1, <2>1, <2>4, Zenon
    <2> QED BY <2>2, <2>3, <2>5, Zenon DEF InStream
  <1> QED BY <1>2, <1>3, <1>4, <1>5, Zenon DEF IInv

\* A step that returns the packet in p.
LEMMA Return ==
  ASSUME IInv, NEW p, p \in SbType, Holding(p), p.error = sb.error, wire' \in Seq(Byte),
         Held(p) \o wire' = Held(sb) \o wire,
         sb' = stream_buf_reset(p), UNCHANGED <<conn, written, whole>>,
         read' = IF whole \/ Len(read) < Len(written) THEN Append(read, p.buf) ELSE read
  PROVE  /\ IInv'
         /\ Tracked => /\ Len(read) < Len(written)
                       /\ read' = Append(read, written[Len(read) + 1])
  <1>1. written' = written /\ whole' = whole /\ conn' = conn BY Zenon
  <1>1a. whole' <=> whole BY <1>1
  <1>2. wire \in Seq(Byte) /\ sb \in SbType /\ conn \in {"open", "eof", "reset"}
        /\ written \in Seq(Packets) /\ read \in Seq(Packets) /\ whole \in BOOLEAN
        /\ Len(read) <= Len(written) /\ \A j \in 1 .. Len(read) : read[j] = written[j]
    BY Zenon DEF IInv, Types, InOrder
  <1>3. Len(read) \in Nat /\ Len(written) \in Nat BY <1>2, LenProperties
  <1>4. Len(read) \in 0 .. Len(written) BY <1>2, <1>3
  <1> DEFINE no == FALSE
             q == p.residual
             e == p.error
             a == p.asserted
             t == stream_buf_reset(p)
  <1>5. no \in BOOLEAN /\ q \in Seq(Byte) /\ e \in BOOLEAN /\ a \in BOOLEAN BY DEF SbType
  <1>6. t = Sb(<<>>, 0, -1, 0, q, no, e, a) BY Reset, Zenon
  <1>7. no = FALSE /\ a = TRUE /\ Len(q) <= MaxLen BY DEF Holding
  <1>7a. e = sb.error BY Zenon
  <1> HIDE DEF no, q, e, a, t
  <1>8. <<>> \in Seq(Byte) /\ 0 \in Nat /\ -1 \in Int /\ 0 \in Int OBVIOUS
  <1>9. t \in SbType BY ONLY <1>5, <1>6, <1>8, SbIn
  <1>10. /\ t.buf = <<>> /\ t.off = 0 /\ t.len = -1 /\ t.next = 0 /\ t.residual = q
         /\ t.formed = no /\ t.error = e /\ t.asserted = a
    BY ONLY <1>6, SbGet
  <1>11. Waiting(t) BY <1>7, <1>10, Zenon DEF Waiting
  <1>12. Held(t) = q
    <2>1. ~(t.len >= 0) BY <1>10
    <2>2. Held(t) = <<>> \o (<<>> \o q) BY <1>10, <2>1, Zenon DEF Held
    <2>3. <<>> \o q = q BY <1>5, ConcatEmptySeq
    <2> QED BY <2>2, <2>3, Zenon
  <1>13. sb' = t BY Zenon DEF t
  <1>14. PICK S : Suffixes(S) /\ (Tracked => ~sb.error /\ Held(sb) \o wire = S[Len(read)])
    BY Zenon DEF IInv, InStream
  <1>15. Suffixes(S)' BY <1>1, <1>1a, <1>14, Zenon DEF Suffixes
  <1>16. Shape(sb)' BY <1>11, <1>13, Zenon DEF Shape, Waiting
  <1>17. Held(sb)' = q BY <1>12, <1>13, Zenon DEF Held
  <1>18. CASE ~Tracked
    <2>1. read' = read BY <1>18, Zenon DEF Tracked
    <2>2. Types' BY <1>1, <1>2, <1>9, <1>13, <2>1, Zenon DEF Types
    <2>3. InOrder' BY <1>1, <1>2, <2>1, Zenon DEF InOrder
    <2>4. ~Tracked' BY <1>1, <1>1a, <1>18, <2>1, Zenon DEF Tracked
    <2>5. InStream' BY <1>15, <2>4, Zenon DEF InStream
    <2> QED BY <1>16, <1>18, <2>2, <2>3, <2>5, Zenon DEF IInv
  <1>19. CASE Tracked
    <2> DEFINE r == Len(read)
               W == wire'
    <2>1. Held(p) \o W = S[r] BY <1>14, <1>19, Zenon
    <2>2. whole \/ r < Len(written) BY <1>19, Zenon DEF Tracked
    <2>3. /\ r < Len(written) /\ written[r + 1] \in Packets
          /\ p.buf = written[r + 1] /\ p.residual \o W = S[r + 1]
      BY <1>2, <1>4, <1>14, <2>1, <2>2, NextPacket, Zenon
    <2>4. read' = Append(read, written[r + 1]) BY <2>2, <2>3, Zenon
    <2> DEFINE d == written[r + 1]
    <2>5. /\ read' \in Seq(Packets) /\ Len(read') = r + 1 /\ read'[r + 1] = d
          /\ \A j \in 1 .. r : read'[j] = read[j]
      <3>1. d \in Packets /\ read' = Append(read, d) BY <2>3, <2>4, Zenon
      <3> HIDE DEF d
      <3> QED BY ONLY <1>2, <3>1, AppendProperties
    <2>6. Types' BY <1>1, <1>2, <1>9, <1>13, <2>5, Zenon DEF Types
    <2>7. InOrder'
      <3>1. Len(read') <= Len(written) BY <1>3, <2>3, <2>5
      <3>2. ASSUME NEW j \in 1 .. r + 1 PROVE read'[j] = written[j]
        <4>1. CASE j = r + 1 BY <2>5, <4>1
        <4>2. CASE j # r + 1
          <5>1. j \in 1 .. r BY <1>3, <4>2
          <5> QED BY <1>2, <2>5, <5>1
        <4> QED BY <4>1, <4>2
      <3> HIDE DEF r
      <3>3. \A j \in 1 .. Len(read') : read'[j] = written[j] BY <2>5, <3>2, Zenon
      <3> QED BY <1>1, <3>1, <3>3, Zenon DEF InOrder
    <2>8. InStream'
      <3>1. Held(sb)' \o wire' = S[Len(read')] BY <1>17, <2>3, <2>5, Zenon DEF q
      <3>2. ~sb'.error BY <1>7a, <1>10, <1>13, <1>14, <1>19, Zenon
      <3> QED BY <1>15, <3>1, <3>2, Zenon DEF InStream
    <2> QED BY <1>16, <2>3, <2>4, <2>6, <2>7, <2>8, Zenon DEF IInv
  <1> QED BY <1>18, <1>19

\* Encode of a packet is a sequence of bytes.
LEMMA EncodeType ==
  ASSUME NEW p \in Packets
  PROVE  p \in Seq(Byte) /\ Encode(p) \in Seq(Byte) /\ Len(Encode(p)) = Len(p) + 2
  <1>1. p \in Seq(Byte) /\ Len(p) \in 1 .. MaxLen BY PacketSizes
  <1> DEFINE x == Prefix(Len(p))
  <1>2. x \in Seq(Byte) /\ Len(x) = 2 BY <1>1, PrefixProps, Zenon
  <1>3. Encode(p) = x \o p BY Zenon DEF Encode
  <1> HIDE DEF x
  <1>4. x \o p \in Seq(Byte) /\ Len(x \o p) = Len(x) + Len(p) BY ONLY <1>1, <1>2, ConcatProperties
  <1>5. Len(x \o p) = Len(p) + 2 BY ONLY <1>1, <1>2, <1>4, LenProperties
  <1> QED BY <1>1, <1>3, <1>4, <1>5, Zenon

\* Bytes behind the last whole packet.
LEMMA Extend ==
  ASSUME IInv, NEW x \in Seq(Byte), wire' = wire \o x, whole' = FALSE,
         UNCHANGED <<sb, conn, written, read>>
  PROVE  IInv'
  <1>1. sb' = sb /\ conn' = conn /\ written' = written /\ read' = read BY Zenon
  <1>2. wire \in Seq(Byte) /\ sb \in SbType BY Zenon DEF IInv, Types
  <1>3. Types'
    <2>1. wire' \in Seq(Byte) BY <1>2, ConcatProperties
    <2>2. whole' \in BOOLEAN OBVIOUS
    <2> QED BY <1>1, <2>1, <2>2, Zenon DEF IInv, Types
  <1>4. Shape(sb)' BY <1>1, Zenon DEF IInv, Shape, Holding, Waiting, Filling, Wanted
  <1>5. InOrder' BY <1>1, Zenon DEF IInv, InOrder
  <1>6. InStream'
    <2>1. PICK S : Suffixes(S) /\ (Tracked => ~sb.error /\ Held(sb) \o wire = S[Len(read)])
      BY Zenon DEF IInv, InStream
    <2> DEFINE n == Len(written)
               Z == [j \in 0 .. n |-> S[j] \o x]
    <2>2. n \in Nat BY LenProperties DEF IInv, Types
    <2>3. \A j \in 0 .. n : S[j] \in Seq(Byte) BY <2>1 DEF Suffixes
    <2>4. Z \in [0 .. n -> Seq(Byte)]
      <3>1. ASSUME NEW j \in 0 .. n PROVE S[j] \o x \in Seq(Byte)
        <4> DEFINE y == S[j]
        <4>1. y \in Seq(Byte) BY <2>3
        <4> HIDE DEF y
        <4>2. y \o x \in Seq(Byte) BY ONLY <4>1, x \in Seq(Byte), ConcatProperties
        <4> QED BY <4>2 DEF y
      <3> HIDE DEF n
      <3> QED BY <3>1
    <2>5. ASSUME NEW j \in 1 .. n PROVE Z[j - 1] = Encode(written[j]) \o Z[j]
      <3>1. j - 1 \in 0 .. n /\ j \in 0 .. n BY <2>2
      <3> DEFINE y == S[j]
                 E == Encode(written[j])
      <3>2. S[j - 1] = E \o y BY <2>1, Zenon DEF Suffixes
      <3>3. y \in Seq(Byte) BY <2>3, <3>1
      <3>4. E \in Seq(Byte)
        <4>1. written[j] \in Packets BY ElementOfSeq DEF IInv, Types
        <4> QED BY <4>1, EncodeType, Zenon
      <3>5. Z[j] = y \o x /\ Z[j - 1] = S[j - 1] \o x BY <3>1
      <3> HIDE DEF y, E, Z
      <3>6. (E \o y) \o x = E \o (y \o x) BY ONLY <3>3, <3>4, x \in Seq(Byte), ConcatAssociative
      <3> QED BY <3>2, <3>5, <3>6, Zenon DEF E
    <2>6. PICK Y : Y = Z OBVIOUS
    <2>6a. Suffixes(Y)'
      <3> HIDE DEF Z, n
      <3>1. Y \in [0 .. n -> Seq(Byte)] BY <2>4, <2>6, Zenon
      <3>2. \A j \in 1 .. n : Y[j - 1] = Encode(written[j]) \o Y[j] BY <2>5, <2>6, Zenon
      <3>3. ~whole' OBVIOUS
      <3> QED BY <1>1, <3>1, <3>2, <3>3, Zenon DEF Suffixes, n
    <2>7. ASSUME Tracked' PROVE ~sb'.error /\ Held(sb)' \o wire' = Z[Len(read')]
      <3>1. Tracked BY <1>1, <2>7, Zenon DEF Tracked
      <3>2. ~sb.error /\ Held(sb) \o wire = S[Len(read)] BY <2>1, <3>1, Zenon
      <3>3. Held(sb)' = Held(sb) BY <1>1, Zenon DEF Held
      <3> DEFINE h == Held(sb)
                 r == Len(read)
      <3>4. h \in Seq(Byte) BY <1>2, HeldType, ShapeLen, Zenon DEF IInv
      <3>5. Z[r] = S[r] \o x
        <4>1. r \in 0 .. n BY LenProperties DEF IInv, Types, InOrder
        <4> QED BY <4>1
      <3> HIDE DEF h, Z
      <3>6. (h \o wire) \o x = h \o (wire \o x) BY ONLY <1>2, <3>4, x \in Seq(Byte), ConcatAssociative
      <3> QED BY <1>1, <3>2, <3>3, <3>5, <3>6, Zenon DEF h
    <2> HIDE DEF Z
    <2>8. Tracked' => ~sb'.error /\ Held(sb)' \o wire' = Y[Len(read')] BY <2>6, <2>7, Zenon
    <2> QED BY <2>6a, <2>8, Zenon DEF InStream
  <1> QED BY <1>3, <1>4, <1>5, <1>6, Zenon DEF IInv

\* A packet that is written whole behind whole packets.
LEMMA WriteWhole ==
  ASSUME IInv, whole, NEW p \in Packets, wire' = wire \o Encode(p),
         written' = Append(written, p), UNCHANGED <<sb, conn, whole, read>>
  PROVE  IInv'
  <1>1. sb' = sb /\ conn' = conn /\ whole' = whole /\ read' = read BY Zenon
  <1>1a. whole' <=> whole BY <1>1
  <1>2. wire \in Seq(Byte) /\ sb \in SbType /\ written \in Seq(Packets) /\ read \in Seq(Packets)
    BY Zenon DEF IInv, Types
  <1> DEFINE x == Encode(p)
             n == Len(written)
  <1>3. x \in Seq(Byte) BY EncodeType, Zenon
  <1>4. n \in Nat /\ Len(read) \in Nat BY <1>2, LenProperties
  <1>5. /\ written' \in Seq(Packets) /\ Len(written') = n + 1 /\ written'[n + 1] = p
        /\ \A j \in 1 .. n : written'[j] = written[j]
    BY ONLY <1>2, p \in Packets, written' = Append(written, p), AppendProperties
  <1> HIDE DEF x
  <1>6. Types'
    <2>1. wire' = wire \o x BY Zenon DEF x
    <2>2. wire \o x \in Seq(Byte) BY ONLY <1>2, <1>3, ConcatProperties
    <2>3. whole' \in BOOLEAN BY <1>1, Zenon DEF IInv, Types
    <2> QED BY <1>1, <1>5, <2>1, <2>2, <2>3, Zenon DEF IInv, Types
  <1>7. Shape(sb)' BY <1>1, Zenon DEF IInv, Shape, Holding, Waiting, Filling, Wanted
  <1>8. InOrder'
    <2>1. Len(read) <= n /\ \A j \in 1 .. Len(read) : read[j] = written[j] BY Zenon DEF IInv, InOrder
    <2>2. Len(read) <= n + 1 BY <1>4, <2>1
    <2>3. \A j \in 1 .. Len(read) : read[j] = written'[j] BY <1>4, <1>5, <2>1
    <2> QED BY <1>1, <1>5, <2>2, <2>3, Zenon DEF InOrder
  <1>9. InStream'
    <2>1. PICK S : Suffixes(S) /\ (Tracked => ~sb.error /\ Held(sb) \o wire = S[Len(read)])
      BY Zenon DEF IInv, InStream
    <2> DEFINE Z == [j \in 0 .. n + 1 |-> IF j <= n THEN S[j] \o x ELSE <<>>]
    <2>2. S[n] = <<>> BY <2>1, Zenon DEF Suffixes
    <2>3. \A j \in 0 .. n : S[j] \in Seq(Byte) BY <2>1 DEF Suffixes
    <2>4. Z \in [0 .. n + 1 -> Seq(Byte)]
      <3>1. ASSUME NEW j \in 0 .. n + 1 PROVE (IF j <= n THEN S[j] \o x ELSE <<>>) \in Seq(Byte)
        <4> DEFINE y == S[j]
        <4>1. CASE j <= n
          <5>1. y \in Seq(Byte) BY <1>4, <2>3, <4>1
          <5> HIDE DEF y
          <5>2. y \o x \in Seq(Byte) BY ONLY <5>1, <1>3, ConcatProperties
          <5> QED BY <4>1, <5>2, Zenon DEF y
        <4>2. CASE ~(j <= n)
          <5>1. <<>> \in Seq(Byte) OBVIOUS
          <5> QED BY <4>2, <5>1, Zenon
        <4> QED BY <4>1, <4>2
      <3> HIDE DEF n
      <3> QED BY <3>1, Zenon
    <2>5. \A j \in 0 .. n : Z[j] = S[j] \o x BY <1>4
    <2>6. Z[n + 1] = <<>> BY <1>4
    <2> HIDE DEF Z
    <2>7. ASSUME NEW j \in 1 .. n + 1 PROVE Z[j - 1] = Encode(written'[j]) \o Z[j]
      <3>1. CASE j = n + 1
        <4>1. j - 1 = n /\ n \in 0 .. n BY <1>4, <3>1
        <4>2. Z[j - 1] = <<>> \o x BY <2>2, <2>5, <4>1, Zenon
        <4>3. Z[j] = <<>> BY <2>6, <3>1, Zenon
        <4>4. Encode(written'[j]) = x BY <1>5, <3>1, Zenon DEF x
        <4>5. <<>> \o x = x /\ x \o <<>> = x BY <1>3, ConcatEmptySeq
        <4> QED BY <4>2, <4>3, <4>4, <4>5, Zenon
      <3>2. CASE j # n + 1
        <4>1. j - 1 \in 0 .. n /\ j \in 0 .. n /\ j \in 1 .. n BY <1>4, <3>2
        <4> DEFINE y == S[j]
                   E == Encode(written[j])
        <4>2. S[j - 1] = E \o y BY <2>1, <4>1, Zenon DEF Suffixes
        <4>3. y \in Seq(Byte) BY <2>3, <4>1
        <4>4. E \in Seq(Byte)
          <5>1. written[j] \in Packets BY <1>2, <4>1, ElementOfSeq
          <5> QED BY <5>1, EncodeType, Zenon
        <4>5. Z[j] = y \o x /\ Z[j - 1] = S[j - 1] \o x BY <2>5, <4>1, Zenon
        <4>6. written'[j] = written[j] BY <1>5, <4>1
        <4> HIDE DEF y, E
        <4>7. (E \o y) \o x = E \o (y \o x) BY ONLY <1>3, <4>3, <4>4, ConcatAssociative
        <4> QED BY <4>2, <4>5, <4>6, <4>7, Zenon DEF E
      <3> QED BY <3>1, <3>2
    <2>8. PICK Y : Y = Z OBVIOUS
    <2>8a. Suffixes(Y)'
      <3> HIDE DEF n
      <3>1. Y \in [0 .. n + 1 -> Seq(Byte)] /\ Y[n + 1] = <<>> BY <2>4, <2>6, <2>8, Zenon
      <3>2. \A j \in 1 .. n + 1 : Y[j - 1] = Encode(written'[j]) \o Y[j] BY <2>7, <2>8, Zenon
      <3>3. Len(written') = n + 1 BY <1>5
      <3> QED BY <3>1, <3>2, <3>3, Zenon DEF Suffixes
    <2>9. ~sb'.error /\ Held(sb)' \o wire' = Z[Len(read')]
      <3>1. Tracked BY Zenon DEF Tracked
      <3>2. ~sb.error /\ Held(sb) \o wire = S[Len(read)] BY <2>1, <3>1, Zenon
      <3>3. Held(sb)' = Held(sb) BY <1>1, Zenon DEF Held
      <3> DEFINE h == Held(sb)
                 r == Len(read)
      <3>4. h \in Seq(Byte) BY <1>2, HeldType, ShapeLen, Zenon DEF IInv
      <3>5. Z[r] = S[r] \o x
        <4>1. r \in 0 .. n BY <1>4 DEF IInv, InOrder
        <4> QED BY <2>5, <4>1
      <3> HIDE DEF h
      <3>6. (h \o wire) \o x = h \o (wire \o x) BY ONLY <1>2, <1>3, <3>4, ConcatAssociative
      <3>7. wire' = wire \o x BY Zenon DEF x
      <3> QED BY <1>1, <3>2, <3>3, <3>5, <3>6, <3>7, Zenon DEF h
    <2>10. ~sb'.error /\ Held(sb)' \o wire' = Y[Len(read')] BY <2>8, <2>9, Zenon
    <2> QED BY <2>8a, <2>10, Zenon DEF InStream
  <1> QED BY <1>6, <1>7, <1>8, <1>9, Zenon DEF IInv

\* link_socket_write_tcp.
LEMMA WriteStep ==
  ASSUME IInv, NEW p \in Packets, Write(p)
  PROVE  IInv'
  <1>1. CASE whole
    <2>1. /\ wire' = wire \o Encode(p) /\ written' = Append(written, p)
          /\ UNCHANGED <<sb, conn, whole, read>>
      BY <1>1, Zenon DEF Write
    <2> QED BY <1>1, <2>1, WriteWhole, Zenon
  <1>2. CASE ~whole
    <2>1. /\ wire' = wire \o Encode(p) /\ UNCHANGED <<sb, conn, written, read>>
      BY <1>2, Zenon DEF Write
    <2>2. whole' = whole BY Zenon DEF Write
    <2>3. whole \in BOOLEAN BY Zenon DEF IInv, Types
    <2>4. whole' = FALSE BY <1>2, <2>2, <2>3
    <2>5. Encode(p) \in Seq(Byte) BY EncodeType, Zenon
    <2> QED BY <2>1, <2>4, <2>5, Extend, Zenon
  <1> QED BY <1>1, <1>2

\* A short write.
LEMMA WriteShortStep ==
  ASSUME IInv, NEW p \in Packets, NEW n \in 0 .. Len(p) + 1, WriteShort(p, n)
  PROVE  IInv'
  <1> DEFINE E == Encode(p)
             x == SubSeq(E, 1, n)
  <1>1. /\ wire' = wire \o x /\ whole' = FALSE /\ UNCHANGED <<sb, conn, written, read>>
    BY Zenon DEF WriteShort
  <1>2. E \in Seq(Byte) /\ Len(E) = Len(p) + 2 /\ p \in Seq(Byte) BY EncodeType, Zenon
  <1>3. n \in 0 .. Len(E)
    <2>1. Len(p) \in Nat BY <1>2, LenProperties
    <2> HIDE DEF E
    <2> QED BY <1>2, <2>1
  <1> HIDE DEF E
  <1>4. x \in Seq(Byte) BY ONLY <1>2, <1>3, Cut
  <1> HIDE DEF x
  <1> QED BY <1>1, <1>4, Extend, Zenon

\* recv_line keeps a byte of the stream.
LEMMA LookaheadStep ==
  ASSUME IInv, Lookahead
  PROVE  IInv'
  <1>1. /\ sb = stream_buf_init /\ wire # <<>> /\ sb' = [sb EXCEPT !.residual = <<Head(wire)>>]
        /\ wire' = Tail(wire) /\ conn' = conn /\ UNCHANGED <<written, whole, read>>
    BY Zenon DEF Lookahead
  <1>2. wire \in Seq(Byte) /\ conn \in {"open", "eof", "reset"} BY Zenon DEF IInv, Types
  <1> DEFINE x == <<Head(wire)>>
             t == [sb EXCEPT !.residual = x]
  <1>3. x \in Seq(Byte) /\ Len(x) = 1 /\ Tail(wire) \in Seq(Byte) BY <1>1, <1>2, HeadTailProperties
  <1>4. x \o Tail(wire) = wire
    <2>1. Len(wire) \in Nat /\ Len(wire) # 0 BY <1>1, <1>2, EmptySeq
    <2>2. 1 \in 0 .. Len(wire) BY <2>1
    <2>3. SubSeq(wire, 1, 1) \o SubSeq(wire, 1 + 1, Len(wire)) = wire BY <1>2, <2>2, Cut, Zenon
    <2>4. SubSeq(wire, 2, Len(wire)) = Tail(wire) BY <1>1, <1>2, TailIsSubSeq
    <2>5. SubSeq(wire, 1, 1) = x
      <3> DEFINE y == SubSeq(wire, 1, 1)
      <3>1. y \in Seq(Byte) /\ Len(y) = 1 /\ y[1] = wire[1] BY <1>2, <2>2, Cut
      <3>2. Head(wire) = wire[1] BY <1>1, <1>2
      <3> HIDE DEF y
      <3>3. y = <<wire[1]>> BY <3>1
      <3> QED BY <3>2, <3>3, Zenon DEF y
    <2>6. 1 + 1 = 2 OBVIOUS
    <2> QED BY <2>3, <2>4, <2>5, <2>6, Zenon
  <1> HIDE DEF x
  <1>5. /\ sb \in SbType /\ Waiting(sb) /\ ~sb.error /\ sb.residual = <<>> BY <1>1, InitSb, Zenon
  <1>6. t = Sb(sb.buf, sb.off, sb.len, sb.next, x, sb.formed, sb.error, sb.asserted)
    <2>1. sb \in SbType BY <1>5
    <2> QED BY ONLY <2>1 DEF SbType, Sb
  <1>7. /\ sb.buf \in Seq(Byte) /\ sb.off \in Nat /\ sb.len \in Int /\ sb.next \in Int
        /\ sb.formed \in BOOLEAN /\ sb.error \in BOOLEAN /\ sb.asserted \in BOOLEAN
    BY <1>5 DEF SbType
  <1> HIDE DEF t
  <1>8. t \in SbType BY ONLY <1>3, <1>6, <1>7, SbIn
  <1>9. /\ t.buf = sb.buf /\ t.off = sb.off /\ t.len = sb.len /\ t.next = sb.next /\ t.residual = x
        /\ t.formed = sb.formed /\ t.error = sb.error /\ t.asserted = sb.asserted
    BY ONLY <1>6, SbGet
  <1>10. Shape(t)
    <2>1. Len(x) <= MaxLen BY <1>3, Sizes
    <2> QED BY <1>5, <1>9, <2>1, Zenon DEF Waiting, Shape
  <1>11. Held(t) \o wire' = Held(sb) \o wire
    <2>1. sb.len = -1 /\ sb.buf = <<>> BY <1>5, Zenon DEF Waiting
    <2>2. ~(sb.len >= 0) BY <2>1
    <2>3. Held(t) = <<>> \o (<<>> \o x) BY <1>9, <2>1, <2>2, Zenon DEF Held
    <2>4. Held(sb) = <<>> \o (<<>> \o <<>>) BY <1>5, <2>1, <2>2, Zenon DEF Held
    <2>5. <<>> \o x = x BY <1>3, ConcatEmptySeq
    <2>6. <<>> \o <<>> = <<>> OBVIOUS
    <2>7. <<>> \o wire = wire BY <1>2, ConcatEmptySeq
    <2> QED BY <1>1, <1>4, <2>3, <2>4, <2>5, <2>6, <2>7, Zenon
  <1>12. sb' = t BY <1>1, Zenon DEF t, x
  <1>13. wire' \in Seq(Byte) BY <1>1, <1>3, Zenon
  <1>14. conn' \in {"open", "eof", "reset"} BY <1>1, <1>2, Zenon
  <1>15. Tracked => ~t.error /\ Held(t) \o wire' = Held(sb) \o wire BY <1>5, <1>9, <1>11, Zenon
  <1> QED BY <1>1, <1>8, <1>10, <1>12, <1>13, <1>14, <1>15, Keep, Zenon

\* An error shows that a short write came before.
LEMMA ErrorUntracked ==
  ASSUME IInv, NEW t, Added(t), BadLength(t), NEW W \in Seq(Byte),
         Held(t) \o W = Held(sb) \o wire
  PROVE  ~Tracked
  <1> SUFFICES ASSUME Tracked PROVE FALSE OBVIOUS
  <1>1. PICK S : Suffixes(S) /\ Held(sb) \o wire = S[Len(read)] BY Zenon DEF IInv, InStream
  <1> DEFINE H == t.buf
             r == Len(read)
  <1>2. t \in SbType /\ t.residual = <<>> /\ t.len = -1 /\ Len(H) >= 2 /\ PrefixValue(H) \notin 1 .. MaxLen
    BY Zenon DEF Added, BadLength
  <1>3. H \in Seq(Byte) BY <1>2 DEF SbType
  <1>4. Held(t) = H
    <2>1. ~(t.len >= 0) BY <1>2
    <2>2. Held(t) = <<>> \o (H \o <<>>) BY <1>2, <2>1, Zenon DEF Held
    <2> HIDE DEF H
    <2>3. H \o <<>> = H /\ <<>> \o H = H BY <1>3, ConcatEmptySeq
    <2> QED BY <2>2, <2>3, Zenon
  <1>5. H \o W = S[r] BY <1>1, <1>4, Zenon
  <1>6. written \in Seq(Packets) /\ read \in Seq(Packets) /\ Len(read) <= Len(written)
    BY Zenon DEF IInv, Types, InOrder
  <1>7. r \in 0 .. Len(written) BY <1>6, LenProperties
  <1>8. whole \/ r < Len(written) BY Zenon DEF Tracked
  <1> QED BY <1>1, <1>2, <1>3, <1>5, <1>6, <1>7, <1>8, GoodLength, Zenon

\* What follows from an error found, or a part of a packet.
LEMMA EmptiedShape ==
  ASSUME NEW s, Emptied(s)
  PROVE  s \in SbType /\ Filling(s) /\ Shape(s)
  <1>1. /\ s \in SbType /\ s.asserted /\ ~s.formed /\ s.buf = <<>> /\ s.len = -1
        /\ s.off = 0 /\ s.next = 0 /\ s.residual = <<>>
    BY Zenon DEF Emptied
  <1>2. Len(s.buf) <= 1 /\ Len(s.residual) <= MaxLen BY <1>1, Sizes
  <1>3. Filling(s) BY <1>1, <1>2, Zenon DEF Filling
  <1> QED BY <1>1, <1>2, <1>3, Zenon DEF Shape, Waiting

\* stream_buf_read_setup.
LEMMA SetupStep ==
  ASSUME IInv, Setup
  PROVE  IInv'
  <1>1. /\ sb' = stream_buf_read_setup(sb) /\ wire' = wire /\ conn' = conn
        /\ UNCHANGED <<written, whole, read>>
    BY Zenon DEF Setup
  <1>2. sb \in SbType /\ Shape(sb) /\ wire \in Seq(Byte) /\ conn \in {"open", "eof", "reset"}
    BY Zenon DEF IInv, Types
  <1>3. wire' \in Seq(Byte) /\ conn' \in {"open", "eof", "reset"} BY <1>1, <1>2, Zenon
  <1>4. Tracked => ~sb.error BY Zenon DEF IInv, InStream
  <1>5. CASE sb.residual # <<>> /\ ~sb.formed
    <2> DEFINE r == stream_buf_added([sb EXCEPT !.buf = sb.residual, !.residual = <<>>], <<>>)
               p == FromResidual(r)
    <2>1. sb' = p BY <1>1, <1>5, Zenon DEF stream_buf_read_setup
    <2>2. Waiting(sb) BY <1>2, <1>5, Zenon DEF Shape, Filling
    <2>3. PICK t : Added(t) /\ t.error = sb.error /\ Held(t) = Held(sb) /\ Got(r, t)
      BY <1>2, <1>5, <2>2, AddedResidual, Zenon
    <2> HIDE DEF r
    <2>4. CASE GotPacket(r, t)
      <3> DEFINE yes == TRUE
                 q == r.sb
                 u == [q EXCEPT !.formed = yes]
      <3>1. p = u BY <2>4, Zenon DEF FromResidual, GotPacket
      <3>2. q \in SbType /\ Holding(q) /\ q.error = sb.error /\ Held(q) = Held(sb)
        BY <2>3, <2>4, Zenon DEF GotPacket
      <3>3. yes = TRUE /\ yes \in BOOLEAN BY Zenon
      <3> HIDE DEF yes, q
      <3>4. u = Sb(q.buf, q.off, q.len, q.next, q.residual, yes, q.error, q.asserted)
        <4>1. q \in SbType BY <3>2
        <4> QED BY ONLY <4>1 DEF SbType, Sb
      <3>5. /\ q.buf \in Seq(Byte) /\ q.off \in Nat /\ q.len \in Int /\ q.next \in Int
            /\ q.residual \in Seq(Byte) /\ q.error \in BOOLEAN /\ q.asserted \in BOOLEAN
        BY <3>2 DEF SbType
      <3> HIDE DEF u, p
      <3>6. u \in SbType BY ONLY <3>3, <3>4, <3>5, SbIn
      <3>7. /\ u.buf = q.buf /\ u.off = q.off /\ u.len = q.len /\ u.residual = q.residual
            /\ u.formed = yes /\ u.error = q.error /\ u.asserted = q.asserted
        BY ONLY <3>4, SbGet
      <3>8. Shape(u) BY <3>2, <3>3, <3>7, Zenon DEF Shape, Holding
      <3>9. Held(u) = Held(sb) BY <3>2, <3>7, Zenon DEF Held
      <3>10. Tracked => ~u.error /\ Held(u) \o wire' = Held(sb) \o wire
        BY <1>1, <1>4, <3>2, <3>7, <3>9, Zenon
      <3> QED BY <1>1, <1>3, <2>1, <3>1, <3>6, <3>8, <3>10, Keep, Zenon
    <2>5. CASE GotPart(r, t)
      <3> DEFINE q == r.sb
                 u == stream_buf_set_next(q)
      <3>1. p = u BY <2>5, Zenon DEF FromResidual, GotPart
      <3>2. q \in SbType /\ Filling(q) /\ q.error = sb.error /\ Held(q) = Held(sb)
        BY <2>3, <2>5, Zenon DEF GotPart
      <3>3. u \in SbType /\ Filling(u) /\ u.next = Wanted(u) /\ u.error = q.error /\ Held(u) = Held(q)
        BY <3>2, SetNext, Zenon
      <3> HIDE DEF q, u, p
      <3>4. Shape(u) BY <3>3 DEF Shape
      <3>10. Tracked => ~u.error /\ Held(u) \o wire' = Held(sb) \o wire
        BY <1>1, <1>4, <3>2, <3>3, Zenon
      <3> QED BY <1>1, <1>3, <2>1, <3>1, <3>3, <3>4, <3>10, Keep, Zenon
    <2>6. CASE GotError(r, t)
      <3> DEFINE q == r.sb
                 u == stream_buf_set_next(q)
      <3>1. p = u BY <2>6, Zenon DEF FromResidual, GotError
      <3>2. q \in SbType /\ Filling(q) BY <2>6, EmptiedShape, Zenon DEF GotError
      <3>3. u \in SbType /\ Filling(u) /\ u.next = Wanted(u) BY <3>2, SetNext, Zenon
      <3> HIDE DEF q, u, p
      <3>4. Shape(u) BY <3>3 DEF Shape
      <3>5. ~Tracked BY <1>2, <2>3, <2>6, ErrorUntracked, Zenon DEF GotError
      <3> QED BY <1>1, <1>3, <2>1, <3>1, <3>3, <3>4, <3>5, Keep, Zenon
    <2> QED BY <2>3, <2>4, <2>5, <2>6, Zenon DEF Got
  <1>6. CASE ~(sb.residual # <<>> /\ ~sb.formed) /\ sb.formed
    <2>1. sb' = sb BY <1>1, <1>6, Zenon DEF stream_buf_read_setup
    <2>2. Tracked => ~sb.error /\ Held(sb) \o wire' = Held(sb) \o wire BY <1>1, <1>4, Zenon
    <2> QED BY <1>1, <1>2, <1>3, <2>1, <2>2, Keep, Zenon
  <1>7. CASE ~(sb.residual # <<>> /\ ~sb.formed) /\ ~sb.formed
    <2> DEFINE u == stream_buf_set_next(sb)
    <2>1. sb' = u BY <1>1, <1>7, Zenon DEF stream_buf_read_setup
    <2>2. sb.residual = <<>> BY <1>7, Zenon
    <2>3. Filling(sb)
      <3>1. CASE Waiting(sb)
        <4>1. Len(sb.buf) <= 1 BY <3>1 DEF Waiting
        <4> QED BY <2>2, <3>1, <4>1, Zenon DEF Waiting, Filling
      <3> QED BY <1>2, <1>7, <3>1, Zenon DEF Shape
    <2>4. u \in SbType /\ Filling(u) /\ u.next = Wanted(u) /\ u.error = sb.error /\ Held(u) = Held(sb)
      BY <1>2, <2>3, SetNext, Zenon
    <2> HIDE DEF u
    <2>5. Shape(u) BY <2>4 DEF Shape
    <2>6. Tracked => ~u.error /\ Held(u) \o wire' = Held(sb) \o wire BY <1>1, <1>4, <2>4, Zenon
    <2> QED BY <1>1, <1>3, <2>1, <2>4, <2>5, <2>6, Keep, Zenon
  <1> QED BY <1>5, <1>6, <1>7, Zenon

\* link_socket_read_tcp returns the packet that stream_buf_read_setup found.
LEMMA ReadFormedStep ==
  ASSUME IInv, ReadFormed
  PROVE  /\ IInv' /\ written' = written
         /\ \/ read' = read
            \/ /\ Len(read) < Len(written)
               /\ read' = Append(read, written[Len(read) + 1])
  <1> DEFINE r == [done |-> TRUE, sb |-> sb]
  <1>1. sb.formed /\ ReadResult(r) /\ UNCHANGED <<wire, written, whole>> BY Zenon DEF ReadFormed
  <1>2. r.done /\ r.sb = sb OBVIOUS
  <1> HIDE DEF r
  <1>3. /\ read' = IF whole \/ Len(read) < Len(written) THEN Append(read, sb.buf) ELSE read
        /\ sb' = stream_buf_reset(sb) /\ UNCHANGED conn
    BY <1>1, <1>2, Zenon DEF ReadResult
  <1>4. sb \in SbType /\ wire \in Seq(Byte) BY Zenon DEF IInv, Types
  <1>5. Holding(sb) BY <1>1, Zenon DEF IInv, Shape, Waiting, Filling
  <1>6. wire' \in Seq(Byte) /\ Held(sb) \o wire' = Held(sb) \o wire BY <1>1, <1>4, Zenon
  <1>7. UNCHANGED <<conn, written, whole>> BY <1>1, <1>3, Zenon
  <1>8. /\ IInv'
        /\ Tracked => /\ Len(read) < Len(written)
                      /\ read' = Append(read, written[Len(read) + 1])
    BY <1>3, <1>4, <1>5, <1>6, <1>7, Return, Zenon
  <1>9. ~Tracked => read' = read BY <1>3, Zenon DEF Tracked
  <1> QED BY <1>7, <1>8, <1>9, Zenon

\* link_socket_read_tcp reads from the socket.
LEMMA ReadSomeStep ==
  ASSUME IInv, NEW k \in 1 .. MaxLen, ReadSome(k)
  PROVE  /\ IInv' /\ written' = written
         /\ \/ read' = read
            \/ /\ Len(read) < Len(written)
               /\ read' = Append(read, written[Len(read) + 1])
  <1> DEFINE x == SubSeq(wire, 1, k)
             W == SubSeq(wire, k + 1, Len(wire))
             r == stream_buf_added(sb, x)
  <1>1. /\ ~sb.formed /\ k \in 1 .. sb.next /\ k <= Len(wire) /\ wire' = W /\ ReadResult(r)
        /\ UNCHANGED <<written, whole>>
    BY Zenon DEF ReadSome
  <1>2. sb \in SbType /\ wire \in Seq(Byte) /\ conn \in {"open", "eof", "reset"} /\ Shape(sb)
    BY Zenon DEF IInv, Types
  <1>3. k \in Nat /\ k >= 1 /\ k \in 0 .. Len(wire) BY <1>1, <1>2, Sizes, LenProperties
  <1>4. x \in Seq(Byte) /\ W \in Seq(Byte) /\ Len(x) = k /\ x \o W = wire BY <1>2, <1>3, Cut
  <1>5. sb.next # 0 /\ k <= sb.next /\ sb.next \in Int
    <2>1. sb.next \in Int BY <1>2 DEF SbType
    <2> QED BY <1>1, <1>3, <2>1
  <1>6. Filling(sb) /\ sb.next = Wanted(sb)
    <2>1. ~Waiting(sb) BY <1>5, Zenon DEF Waiting
    <2>2. Filling(sb) /\ sb.next \in {0, Wanted(sb)} BY <1>1, <1>2, <2>1, Zenon DEF Shape
    <2> QED BY <1>5, <2>2, Zenon
  <1> HIDE DEF x, W
  <1>7. Len(x) >= 1 /\ Len(x) <= Wanted(sb)
    <2>1. Len(x) >= 1 BY <1>3, <1>4
    <2>2. k <= Wanted(sb) BY <1>5, <1>6, Zenon
    <2> QED BY <1>4, <2>1, <2>2, Zenon
  <1>8. PICK t : Added(t) /\ t.error = sb.error /\ Held(t) = Held(sb) \o x /\ Got(r, t)
    BY <1>2, <1>4, <1>6, <1>7, AddedBytes, Zenon
  <1> HIDE DEF r
  <1>9. (Held(sb) \o x) \o W = Held(sb) \o wire
    <2> DEFINE h == Held(sb)
    <2>1. h \in Seq(Byte) BY <1>2, HeldType, ShapeLen, Zenon
    <2> HIDE DEF h
    <2>3. x \in Seq(Byte) /\ W \in Seq(Byte) BY <1>4
    <2>2. (h \o x) \o W = h \o (x \o W) BY ONLY <2>1, <2>3, ConcatAssociative
    <2> QED BY <1>4, <2>2, Zenon DEF h
  <1>10. wire' \in Seq(Byte) /\ Held(t) \o wire' = Held(sb) \o wire BY <1>1, <1>4, <1>8, <1>9, Zenon
  <1>11. Tracked => ~sb.error BY Zenon DEF IInv, InStream
  <1>12. CASE GotPacket(r, t)
    <2> DEFINE q == r.sb
    <2>1. r.done /\ q \in SbType /\ Holding(q) /\ q.error = sb.error /\ Held(q) = Held(t)
      BY <1>8, <1>12, Zenon DEF GotPacket
    <2>2. /\ read' = IF whole \/ Len(read) < Len(written) THEN Append(read, q.buf) ELSE read
          /\ sb' = stream_buf_reset(q) /\ UNCHANGED conn
      BY <1>1, <2>1, Zenon DEF ReadResult
    <2> HIDE DEF q
    <2>3. Held(q) \o wire' = Held(sb) \o wire BY <1>10, <2>1, Zenon
    <2>4. UNCHANGED <<conn, written, whole>> BY <1>1, <2>2, Zenon
    <2>5. /\ IInv'
          /\ Tracked => /\ Len(read) < Len(written)
                        /\ read' = Append(read, written[Len(read) + 1])
      BY <1>10, <2>1, <2>2, <2>3, <2>4, Return, Zenon
    <2>6. ~Tracked => read' = read BY <2>2, Zenon DEF Tracked
    <2> QED BY <2>4, <2>5, <2>6, Zenon
  <1>13. CASE ~r.done
    <2> DEFINE q == r.sb
    <2>1. /\ sb' = q /\ conn' = (IF q.error THEN "reset" ELSE conn) /\ read' = read
      BY <1>1, <1>13, Zenon DEF ReadResult
    <2>2. conn' \in {"open", "eof", "reset"} BY <1>2, <2>1
    <2>3. UNCHANGED <<written, whole, read>> BY <1>1, <2>1, Zenon
    <2>4. CASE GotPart(r, t)
      <3>1. q \in SbType /\ Filling(q) /\ q.next = Wanted(q) /\ q.error = sb.error /\ Held(q) = Held(t)
        BY <1>8, <2>4, Zenon DEF GotPart
      <3> HIDE DEF q
      <3>2. Shape(q) BY <3>1 DEF Shape
      <3>3. Tracked => ~q.error /\ Held(q) \o wire' = Held(sb) \o wire BY <1>10, <1>11, <3>1, Zenon
      <3>4. IInv' BY <1>10, <2>1, <2>2, <2>3, <3>1, <3>2, <3>3, Keep, Zenon
      <3> QED BY <2>3, <3>4, Zenon
    <2>5. CASE GotError(r, t)
      <3>1. Emptied(q) /\ BadLength(t) BY <2>5, Zenon DEF GotError
      <3>2. q \in SbType /\ Shape(q) BY <3>1, EmptiedShape, Zenon
      <3>3. ~Tracked BY <1>8, <1>10, <3>1, ErrorUntracked, Zenon
      <3> HIDE DEF q
      <3>4. IInv' BY <1>10, <2>1, <2>2, <2>3, <3>2, <3>3, Keep, Zenon
      <3> QED BY <2>3, <3>4, Zenon
    <2> QED BY <1>8, <1>13, <2>4, <2>5, Zenon DEF Got, GotPacket
  <1> QED BY <1>8, <1>12, <1>13, Zenon DEF Got, GotPart, GotError

\* The end of the stream.
LEMMA ReadEofStep ==
  ASSUME IInv, ReadEof
  PROVE  IInv'
  <1>1. conn' = "eof" /\ wire' = wire /\ sb' = sb /\ UNCHANGED <<written, whole, read>> BY Zenon DEF ReadEof
  <1>2. sb \in SbType /\ Shape(sb) /\ wire' \in Seq(Byte) BY <1>1, Zenon DEF IInv, Types
  <1>3. conn' \in {"open", "eof", "reset"} BY <1>1
  <1>4. Tracked => ~sb.error /\ Held(sb) \o wire' = Held(sb) \o wire BY <1>1, Zenon DEF IInv, InStream
  <1> QED BY <1>1, <1>2, <1>3, <1>4, Keep, Zenon

\* The histories of packets change as those of a channel do.
HistoryStep ==
  \/ UNCHANGED <<written, read>>
  \/ (\E p \in Packets : written' = Append(written, p)) /\ read' = read
  \/ /\ written' = written /\ Len(read) < Len(written)
     /\ read' = Append(read, written[Len(read) + 1])

\* Every step preserves the inductive invariant and is one of a channel.
LEMMA StepInv == IInv /\ [StreamNext]_streamVars => IInv' /\ HistoryStep
  <1> SUFFICES ASSUME IInv, [StreamNext]_streamVars PROVE IInv' /\ HistoryStep OBVIOUS
  <1>1. ASSUME NEW p \in Packets, Write(p) PROVE IInv' /\ HistoryStep
    <2>1. IInv' BY <1>1, WriteStep, Zenon
    <2>2. HistoryStep BY <1>1, Zenon DEF HistoryStep, Write
    <2> QED BY <2>1, <2>2
  <1>2. ASSUME NEW p \in Packets, NEW n \in 0 .. Len(p) + 1, WriteShort(p, n) PROVE IInv' /\ HistoryStep
    <2>1. IInv' BY <1>2, WriteShortStep, Zenon
    <2>2. HistoryStep BY <1>2, Zenon DEF HistoryStep, WriteShort
    <2> QED BY <2>1, <2>2
  <1>3. CASE Lookahead
    <2>1. IInv' BY <1>3, LookaheadStep, Zenon
    <2>2. HistoryStep BY <1>3, Zenon DEF HistoryStep, Lookahead
    <2> QED BY <2>1, <2>2
  <1>4. CASE Setup
    <2>1. IInv' BY <1>4, SetupStep, Zenon
    <2>2. HistoryStep BY <1>4, Zenon DEF HistoryStep, Setup
    <2> QED BY <2>1, <2>2
  <1>5. CASE ReadFormed BY <1>5, ReadFormedStep, Zenon DEF HistoryStep
  <1>6. ASSUME NEW k \in 1 .. MaxLen, ReadSome(k) PROVE IInv' /\ HistoryStep
    BY <1>6, ReadSomeStep, Zenon DEF HistoryStep
  <1>7. CASE ReadEof
    <2>1. IInv' BY <1>7, ReadEofStep, Zenon
    <2>2. HistoryStep BY <1>7, Zenon DEF HistoryStep, ReadEof
    <2> QED BY <2>1, <2>2
  <1>8. CASE UNCHANGED streamVars
    <2>1. /\ sb' = sb /\ wire' = wire /\ conn' = conn /\ UNCHANGED <<written, whole, read>>
      BY <1>8, Zenon DEF streamVars
    <2>2. sb \in SbType /\ Shape(sb) /\ wire' \in Seq(Byte) /\ conn' \in {"open", "eof", "reset"}
      BY <2>1, Zenon DEF IInv, Types
    <2>3. Tracked => ~sb.error /\ Held(sb) \o wire' = Held(sb) \o wire BY <2>1, Zenon DEF IInv, InStream
    <2>4. IInv' BY <2>1, <2>2, <2>3, Keep, Zenon
    <2> QED BY <2>1, <2>4, Zenon DEF HistoryStep
  <1> QED BY <1>1, <1>2, <1>3, <1>4, <1>5, <1>6, <1>7, <1>8, Zenon DEF StreamNext

\* The inductive invariant is an invariant of the specification.
LEMMA StreamIInv == StreamSpec => []IInv
  <1>1. IInv /\ [StreamNext]_streamVars => IInv' BY StepInv
  <1> QED BY <1>1, InitInv, PTL DEF StreamSpec

-----------------------------------------------------------------------------
(* The theorems.                                                           *)

\* The assertions of stream_buf_set_next and of the copy of the residual hold
\* for every stream of bytes, and no packet gets stuck: with nothing on the
\* wire or in the buffer, what was written has been read (StreamInv).
THEOREM StreamCorrect == StreamSpec => []StreamInv
<1>1. IInv => StreamInv
  <2> SUFFICES ASSUME IInv PROVE StreamInv OBVIOUS
  <2>1. sb \in SbType /\ Shape(sb) /\ wire \in Seq(Byte) /\ written \in Seq(Packets) /\ read \in Seq(Packets)
    BY Zenon DEF IInv, Types
  <2>2. sb.buf \in Seq(Byte) /\ Len(sb.buf) \in Nat BY <2>1, LenProperties DEF SbType
  <2>3. StreamAsserts
    <3>1. sb.asserted BY <2>1, Zenon DEF Shape, Holding, Waiting, Filling
    <3>2. sb.formed => Len(sb.buf) = sb.len BY <2>1, Zenon DEF Shape, Holding, Waiting, Filling
    <3>3. sb.len \in {-1} \cup 1 .. MaxLen BY <2>1, ShapeLen
    <3>4. sb.off + Len(sb.buf) <= MaxLen + Slack
      <4>1. CASE Holding(sb) BY <2>2, <4>1, Sizes DEF Holding
      <4>2. CASE Waiting(sb) BY <2>2, <4>2, Sizes DEF Waiting
      <4>3. CASE Filling(sb) BY <2>2, <4>3, Sizes DEF Filling
      <4> QED BY <2>1, <4>1, <4>2, <4>3, Zenon DEF Shape
    <3> QED BY <3>1, <3>2, <3>3, <3>4, Zenon DEF StreamAsserts
  <2>4. ASSUME whole, wire = <<>>, ~sb.formed, sb.buf = <<>>, sb.residual = <<>>
        PROVE  read = written
    <3> DEFINE r == Len(read)
               n == Len(written)
    <3>1. r \in Nat /\ n \in Nat /\ r <= n /\ \A j \in 1 .. r : read[j] = written[j]
      BY <2>1, LenProperties DEF IInv, InOrder
    <3>2. PICK S : Suffixes(S) /\ Held(sb) \o wire = S[r] BY <2>4, Zenon DEF IInv, InStream, Tracked
    <3>3. ASSUME r # n PROVE FALSE
      <4>1. r \in 0 .. n /\ r + 1 \in 1 .. n /\ (r + 1) - 1 = r /\ r + 1 \in 0 .. n BY <3>1, <3>3
      <4> DEFINE p == written[r + 1]
                 Y == S[r + 1]
      <4>2. p \in Packets BY <2>1, <4>1, ElementOfSeq
      <4>3. S[r] = Encode(p) \o Y /\ Y \in Seq(Byte)
        <5>1. S[(r + 1) - 1] = Encode(p) \o Y BY <3>2, <4>1, Zenon DEF Suffixes
        <5>2. Y \in Seq(Byte) BY <3>2, <4>1 DEF Suffixes
        <5> QED BY <4>1, <5>1, <5>2, Zenon
      <4> HIDE DEF p, Y
      <4>4. Encode(p) \in Seq(Byte) /\ Len(Encode(p)) = Len(p) + 2 BY <4>2, EncodeType, Zenon
      <4>5. Len(p) \in Nat /\ Len(p) >= 1 BY <4>2, PacketSizes, Sizes
      <4> DEFINE E == Encode(p)
      <4>6. Len(E \o Y) >= 3
        <5>1. E \in Seq(Byte) /\ Len(E) >= 3 BY <4>4, <4>5
        <5> HIDE DEF E
        <5>2. Len(E \o Y) = Len(E) + Len(Y) /\ Len(Y) \in Nat /\ Len(E) \in Nat
          BY ONLY <4>3, <5>1, ConcatProperties, LenProperties
        <5> QED BY ONLY <5>1, <5>2
      <4>7. Len(Held(sb) \o wire) <= 2
        <5> DEFINE P == IF sb.len >= 0 THEN Prefix(sb.len) ELSE <<>>
        <5>1. Held(sb) = P \o (<<>> \o <<>>) BY <2>4, Zenon DEF Held
        <5>2. P \in Seq(Byte) /\ Len(P) <= 2
          <6>1. CASE sb.len >= 0
            <7>1. sb.len \in 1 .. MaxLen BY <2>1, <6>1, ShapeLen
            <7>2. P = Prefix(sb.len) BY <6>1, Zenon
            <7>3. P \in Seq(Byte) /\ Len(P) = 2 BY <7>1, <7>2, PrefixProps, Zenon
            <7> HIDE DEF P
            <7> QED BY <7>3
          <6>2. CASE ~(sb.len >= 0)
            <7>1. P = <<>> BY <6>2
            <7> HIDE DEF P
            <7> QED BY <7>1
          <6> QED BY <6>1, <6>2
        <5> HIDE DEF P
        <5>3. (P \o (<<>> \o <<>>)) \o <<>> = P BY <5>2, ConcatEmptySeq
        <5>4. Held(sb) \o wire = P BY <2>4, <5>1, <5>3, Zenon
        <5> QED BY <5>2, <5>4, Zenon
      <4>8. Len(S[r]) >= 3 /\ Len(S[r]) <= 2 BY <3>2, <4>3, <4>6, <4>7, Zenon
      <4>9. Len(S[r]) \in Nat
        <5>1. S[r] \in Seq(Byte) BY <3>2, <4>1 DEF Suffixes
        <5> QED BY <5>1, LenProperties
      <4> QED BY <4>8, <4>9
    <3> QED BY <2>1, <3>1, <3>3, SeqEqual
  <2>5. StreamDrained BY <2>4, Zenon DEF StreamDrained
  <2> QED BY <2>3, <2>5 DEF StreamInv
<1> QED BY <1>1, StreamIInv, PTL

\* struct stream_buf implements a first-in first-out channel of packets: a
\* packet written whole, before any short write, comes out of
\* link_socket_read_tcp as it was, in its order, however recv cuts the stream.
THEOREM StreamRefinesFifo == StreamSpec => StreamIsFifo
<1> DEFINE prod == [e \in {"tx", "rx"} |-> IF e = "tx" THEN written ELSE <<>>]
           deliv == [e \in {"tx", "rx"} |-> IF e = "rx" THEN read ELSE <<>>]
<1>1. StreamInit => Channel!Init
  <2> SUFFICES ASSUME StreamInit PROVE Channel!Init OBVIOUS
  <2>1. written = <<>> /\ read = <<>> BY Zenon DEF StreamInit
  <2> QED BY <2>1 DEF Channel!Init, Channel!Ends
<1>2. HistoryStep => [Channel!Next]_<<prod, deliv>>
  <2> SUFFICES ASSUME HistoryStep PROVE [Channel!Next]_<<prod, deliv>> OBVIOUS
  <2>1. CASE UNCHANGED <<written, read>> BY <2>1
  <2>2. ASSUME NEW p \in Packets, written' = Append(written, p), read' = read PROVE Channel!Next
    <3>1. prod' = [prod EXCEPT !["tx"] = Append(@, p)] BY <2>2
    <3>2. deliv' = deliv BY <2>2
    <3>3. Channel!Put("tx", p) BY <3>1, <3>2 DEF Channel!Put
    <3> QED BY <3>3 DEF Channel!Next, Channel!Ends
  <2>3. ASSUME written' = written, Len(read) < Len(written), read' = Append(read, written[Len(read) + 1])
        PROVE  Channel!Next
    <3>1. deliv["rx"] = read /\ prod["tx"] = written /\ Channel!Peer("rx") = "tx" BY DEF Channel!Peer
    <3>2. deliv' = [deliv EXCEPT !["rx"] = Append(@, written[Len(read) + 1])] BY <2>3
    <3>3. prod' = prod BY <2>3
    <3>4. Channel!Get("rx") BY <2>3, <3>1, <3>2, <3>3 DEF Channel!Get
    <3> QED BY <3>4 DEF Channel!Next, Channel!Ends
  <2> QED BY <2>1, <2>2, <2>3, Zenon DEF HistoryStep
<1>3. IInv /\ [StreamNext]_streamVars => [Channel!Next]_<<prod, deliv>> BY <1>2, StepInv
<1> QED BY <1>1, <1>3, StreamIInv, PTL DEF StreamSpec, StreamIsFifo, Channel!Spec

-----------------------------------------------------------------------------
(* The link socket: its inductive invariant.                               *)

Hosts == DOMAIN Ips \cup {NoHost}
Address == [ip : Nat, port : Nat]
Addresses == [remote : Address, actual : Address]
SockRec ==
  [sd : Nat, ctrl : Nat, host : Hosts, port : Nat, dest : Nat, list : BOOLEAN, did : BOOLEAN,
   dyn : Hosts, changed : BOOLEAN, verify : Address, left : Nat, established : BOOLEAN,
   asserted : BOOLEAN, stale : BOOLEAN]
Places ==
  {"off", "phase2", "default", "listen", "accept_from", "connect", "http", "ntlm", "drain",
   "socks", "request", "finish", "up", "close", "exit"}
Dialogue == {"connect", "http", "ntlm", "drain", "socks", "request"}
Settled == Dialogue \cup {"default", "finish", "up"}

LinkType ==
  /\ lopt \in LinkOptions /\ rl \in [current : 0 .. lopt.n, no_advance : BOOLEAN]
  /\ lsa \in Addresses /\ sock \in SockRec
  /\ lpc \in Places /\ lsig \in {"none", "USR1", "TERM"}

\* Where the options lead.
PlaceOK(p) ==
  /\ p \in Dialogue => lopt.proto = "client" \/ (lopt.proto = "udp" /\ lopt.proxy = "socks")
  /\ p \in {"http", "ntlm", "drain"} => lopt.proxy = "http"
  /\ p \in {"socks", "request"} => lopt.proxy = "socks"
  /\ p = "default" => lopt.proto = "server"
  /\ p \in {"default", "listen", "accept_from"} => lopt.mode = p
  /\ p \in Settled /\ lopt.mode = "accept_from" => p \in {"finish", "up"}

Lent == IF lopt.mode = "accept_from" THEN {Listener} ELSE {}

\* The descriptors.
Holds(s, p, open) ==
  /\ p = "off" => open = Lent
  /\ p \notin {"off", "exit"} =>
       /\ open = Owned(s) \cup Lent
       /\ s.sd = NoFd => p = "close" /\ lopt.mode = "accept_from"
       /\ s.ctrl # NoFd => lopt.proto = "udp" /\ s.ctrl # s.sd
       /\ lopt.proto = "udp" /\ lopt.proxy = "socks" => s.ctrl # NoFd
       /\ lopt.mode = "accept_from" => (s.sd = Listener <=> p \in {"phase2", "accept_from"})

\* Whom a socket was made to connect to.
Aim == IF lopt.proxy # "none" THEN Proxy ELSE Entries[rl.current]
Named == lopt.proxy # "none" \/ lopt.n > 0
Aimed(s, p) ==
  /\ s.asserted /\ s.dest <= lopt.n
  /\ p \notin {"off", "exit"} => (lopt.n > 0 => s.dest > 0 /\ rl.current > 0)
  /\ p \in Dialogue \cup {"phase2"} => s.list = (lopt.proxy = "none" /\ lopt.n > 0)
  /\ p = "phase2" =>
       /\ ~s.changed /\ ~s.stale
       /\ Named => s.host = Aim.host /\ s.port = Aim.port
       /\ ~Named => s.host = NoHost
       /\ lopt.retry = 0 => s.did \/ s.host = NoHost
  /\ p = "default" /\ lopt.n > 0 => s.verify.ip # 0
  /\ p \in Dialogue \cup {"default"} => s.dyn = NoHost \/ (Named /\ s.dyn = Aim.host)

NamedIps == {b.ip : b \in ListAddrs \cup HostAddrs(Proxy)}

\* The addresses, whatever was kept from before.
Known(s, l, p) ==
  lopt.n > 0 =>
    /\ p \in Settled \/ (p = "phase2" /\ s.did) => l.actual.ip # 0
    /\ ~lopt.float =>
         /\ l.remote.ip \in NamedIps \cup {0}
         /\ p \in Settled \/ (p = "phase2" /\ s.did) => l.remote.ip # 0
         /\ lopt.proto # "server" => l.actual.ip \in NamedIps \cup {0}
         /\ lopt.proto = "server" /\ s.changed =>
              /\ p = "default" => s.verify.ip \in NamedIps
              /\ p = "finish" => l.actual.ip \in NamedIps

\* The addresses, where nothing is kept over a restart.
Fresh(s, l, p) ==
  ~lopt.persist =>
    /\ p = "off" \/ (p = "phase2" /\ ~s.did) => ~addr_defined(l.remote) /\ ~addr_defined(l.actual)
    /\ p = "phase2" /\ s.did /\ s.host # NoHost => l.remote \in HostAddrs(Aim) /\ l.actual = l.remote
    /\ p \in Dialogue \/ (p = "finish" /\ lopt.proto = "client") =>
         /\ l.actual.port = Aim.port
         /\ ~s.stale => l.actual.ip \in Ips[Aim.host]
         /\ s.stale => s.dyn # NoHost
         /\ ~s.changed => l.actual.ip = l.remote.ip
    /\ p = "finish" /\ lopt.proto = "udp" /\ lopt.n > 0 =>
         l.remote \in ListAddrs /\ l.actual = l.remote
    /\ p = "up" /\ lopt.proto = "udp" /\ lopt.n > 0 /\ ~lopt.float =>
         l.remote \in ListAddrs /\ l.actual \in ListAddrs
    /\ p = "up" /\ lopt.proto = "client" =>
         /\ ~s.stale => l.actual \in HostAddrs(Aim)
         /\ l.actual.ip = l.remote.ip

LInv ==
  /\ LinkType /\ PlaceOK(lpc) /\ Holds(sock, lpc, fds) /\ Aimed(sock, lpc)
  /\ Known(sock, lsa, lpc) /\ Fresh(sock, lsa, lpc) /\ NoStranger

-----------------------------------------------------------------------------
(* The options, the descriptors, the addresses that the options name.      *)

LEMMA Options ==
  ASSUME lopt \in LinkOptions
  PROVE  /\ lopt.proto \in {"udp", "client", "server"} /\ lopt.mode \in {"default", "listen", "accept_from"}
         /\ lopt.proxy \in {"none", "http", "socks"} /\ lopt.retry \in 0 .. Infinite
         /\ lopt.n \in 0 .. Len(Entries) /\ lopt.n \in Nat
         /\ lopt.mode # "default" => lopt.proto = "server" /\ lopt.n = 0
         /\ lopt.proto = "client" => lopt.n > 0
         /\ lopt.proxy = "http" => lopt.proto = "client"
         /\ lopt.proxy = "socks" => lopt.proto # "server"
<1>1. lopt \in [proto : {"udp", "client", "server"}, mode : {"default", "listen", "accept_from"},
        proxy : {"none", "http", "socks"}, auth : {"none", "basic", "ntlm"}, retry : 0 .. Infinite,
        persist : BOOLEAN, float : BOOLEAN, proxyRetry : BOOLEAN, n : 0 .. Len(Entries)]
  BY LinkAssumption
<1>2. Len(Entries) \in Nat BY LinkAssumption
<1> QED BY <1>1, <1>2, LinkAssumption

\* The descriptor that the system hands out was not open.
LEMMA FreshFdNew ==
  ASSUME NEW S, S \subseteq Nat, IsFiniteSet(S)
  PROVE  FreshFd(S) \in Nat \ {0} /\ FreshFd(S) \notin S
<1> DEFINE n == Cardinality(S)
           I == 1 .. n + 1
           F == I \ S
           R == OpToRel(<, Nat)
<1>1. n \in Nat BY FS_CardinalityType
<1>2. IsFiniteSet(I) /\ Cardinality(I) = n + 1 BY <1>1, FS_Interval
<1>3. F # {}
  <2> SUFFICES ASSUME I \subseteq S PROVE FALSE OBVIOUS
  <2>1. Cardinality(I) <= Cardinality(S) BY FS_Subset
  <2> QED BY <1>1, <1>2, <2>1
<1>4. F \subseteq Nat BY <1>1
<1>5. IsWellFoundedOn(R, Nat) BY NatLessThanWellFounded
<1>6. \A x, y : <<x, y>> \in R <=> x \in Nat /\ y \in Nat /\ x < y BY Zenon DEF OpToRel
<1> HIDE DEF R, F
<1>7. PICK d \in F : \A y \in F : <<y, d>> \notin R BY <1>3, <1>4, <1>5, WFMin
<1> USE DEF F
<1>8. d \in I /\ d \notin S BY <1>7
<1>9. ASSUME NEW e \in 1 .. d - 1, e \notin S PROVE FALSE
  <2>1. e \in I /\ e \in Nat /\ d \in Nat /\ e < d BY <1>1, <1>8
  <2>2. e \in F BY <1>9, <2>1
  <2>3. <<e, d>> \in R BY <1>6, <2>1
  <2> QED BY <1>7, <2>2, <2>3
<1>10. \E x \in 1 .. Cardinality(S) + 1 : x \notin S /\ \A e \in 1 .. x - 1 : e \in S BY <1>8, <1>9
<1>11. FreshFd(S) \in 1 .. Cardinality(S) + 1 /\ FreshFd(S) \notin S BY <1>10 DEF FreshFd
<1> QED BY <1>1, <1>11

\* An entry of the list, the proxy, and the one of them that is aimed at.
LEMMA Entry ==
  ASSUME lopt \in LinkOptions, NEW i \in 1 .. lopt.n
  PROVE  /\ Entries[i] \in [host : DOMAIN Ips, port : Nat]
         /\ Entries[i].host \in DOMAIN Ips /\ Entries[i].host # NoHost /\ Entries[i].port \in Nat
         /\ HostAddrs(Entries[i]) \subseteq ListAddrs /\ Ips[Entries[i].host] \subseteq NamedIps
<1>1. i \in 1 .. Len(Entries) BY Options
<1>2. Entries[i] \in [host : DOMAIN Ips, port : Nat]
  <2> DEFINE E == [host : DOMAIN Ips, port : Nat]
  <2>1. Entries \in Seq(E) BY LinkAssumption
  <2> HIDE DEF E
  <2>2. Entries[i] \in E BY <1>1, <2>1
  <2> QED BY <2>2 DEF E
<1>3. HostAddrs(Entries[i]) \subseteq ListAddrs BY DEF ListAddrs
<1>4. ASSUME NEW ip \in Ips[Entries[i].host] PROVE ip \in NamedIps
  <2>1. [ip |-> ip, port |-> Entries[i].port] \in HostAddrs(Entries[i]) BY DEF HostAddrs
  <2>2. [ip |-> ip, port |-> Entries[i].port] \in ListAddrs \cup HostAddrs(Proxy) BY <1>3, <2>1
  <2> QED BY <2>2 DEF NamedIps
<1> QED BY <1>2, <1>3, <1>4, LinkAssumption

LEMMA ProxyEntry ==
  /\ Proxy \in [host : DOMAIN Ips, port : Nat]
  /\ Proxy.host \in DOMAIN Ips /\ Proxy.host # NoHost /\ Proxy.port \in Nat /\ Ips[Proxy.host] \subseteq NamedIps
<1>1. Proxy \in [host : DOMAIN Ips, port : Nat] BY LinkAssumption
<1>2. ASSUME NEW ip \in Ips[Proxy.host] PROVE ip \in NamedIps
  <2>1. [ip |-> ip, port |-> Proxy.port] \in ListAddrs \cup HostAddrs(Proxy) BY DEF HostAddrs
  <2> QED BY <2>1 DEF NamedIps
<1> QED BY <1>1, <1>2, LinkAssumption

LEMMA AimEntry ==
  ASSUME lopt \in LinkOptions, rl.current \in 0 .. lopt.n, lopt.proxy = "none" => rl.current > 0
  PROVE  /\ Aim \in [host : DOMAIN Ips, port : Nat]
         /\ Aim.host \in DOMAIN Ips /\ Aim.host # NoHost /\ Aim.port \in Nat
         /\ Ips[Aim.host] \subseteq NamedIps /\ Ips[Aim.host] \subseteq Nat \ {0}
<1>1. lopt.n \in Nat BY Options
<1>2. CASE lopt.proxy = "none"
  <2>1. rl.current \in 1 .. lopt.n BY <1>1, <1>2
  <2> QED BY <1>2, <2>1, Entry, LinkAssumption DEF Aim
<1>3. CASE lopt.proxy # "none" BY <1>3, ProxyEntry, LinkAssumption DEF Aim
<1> QED BY <1>2, <1>3

LEMMA HostAddr ==
  ASSUME NEW e, e.host \in DOMAIN Ips, e.port \in Nat, NEW a
  PROVE  /\ a \in HostAddrs(e) => a \in Address /\ a.ip \in Ips[e.host] /\ a.ip # 0 /\ a.port = e.port
         /\ a \in Address /\ a.ip \in Ips[e.host] /\ a.port = e.port => a \in HostAddrs(e)
  BY LinkAssumption DEF HostAddrs, Address

-----------------------------------------------------------------------------
(* Resolution.                                                             *)

LEMMA Getaddr ==
  ASSUME NEW h, NEW fatal, NEW once, NEW seconds, NEW r \in getaddr(h, fatal, once, seconds)
  PROVE  /\ r.how \in {"ok", "fail", "fatal"}
         /\ r.how = "ok" => r.ip \in Ips[h]
  BY DEF getaddr

\* Without retries a name that does not resolve ends the program.
LEMMA GetaddrFatal ==
  ASSUME NEW h, NEW r \in getaddr(h, TRUE, FALSE, 0)
  PROVE  r.how # "fail"
<1>1. 0 \div 5 = 0 OBVIOUS
<1> QED BY <1>1 DEF getaddr

LEMMA UpdateRemote ==
  ASSUME NEW h \in Hosts, NEW a \in Address, NEW u \in update_remote(h, a)
  PROVE  /\ u.addr \in Address /\ u.changed \in BOOLEAN /\ u.stale \in BOOLEAN /\ u.addr.port = a.port
         /\ u.addr.ip = a.ip \/ (h # NoHost /\ u.addr.ip \in Ips[h])
         /\ ~u.changed => u.addr.ip = a.ip
         /\ u.changed => h # NoHost /\ u.addr.ip \in Ips[h]
         /\ ~u.stale => h = NoHost \/ u.addr.ip \in Ips[h]
         /\ u.stale => h # NoHost
<1>1. CASE h = NoHost
  <2>1. u = [addr |-> a, changed |-> FALSE, stale |-> FALSE] BY <1>1 DEF update_remote
  <2>2. u.addr = a /\ u.changed = FALSE /\ u.stale = FALSE BY <2>1
  <2> QED BY <1>1, <2>2
<1>2. CASE h # NoHost
  <2>1. PICK r \in getaddr(h, FALSE, FALSE, 1) :
          u = IF r.how = "ok"
              THEN [addr |-> [a EXCEPT !.ip = r.ip], changed |-> r.ip # a.ip, stale |-> FALSE]
              ELSE [addr |-> a, changed |-> FALSE, stale |-> TRUE]
    BY <1>2 DEF update_remote
  <2>2. r.how = "ok" => r.ip \in Ips[h] /\ r.ip \in Nat BY <1>2, Getaddr, LinkAssumption DEF Hosts
  <2>3. CASE r.how = "ok"
    <3>1. u = [addr |-> [a EXCEPT !.ip = r.ip], changed |-> r.ip # a.ip, stale |-> FALSE] BY <2>1, <2>3
    <3>2. u.addr = [a EXCEPT !.ip = r.ip] /\ u.changed = (r.ip # a.ip) /\ u.stale = FALSE BY <3>1
    <3>3. u.addr \in Address /\ u.addr.ip = r.ip /\ u.addr.port = a.port BY <2>2, <2>3, <3>2 DEF Address
    <3> QED BY <1>2, <2>2, <2>3, <3>2, <3>3
  <2>4. CASE r.how # "ok" BY <1>2, <2>1, <2>4
  <2> QED BY <2>3, <2>4
<1> QED BY <1>1, <1>2

\* What resolve_remote leaves as it was.
Same(s, t) ==
  /\ t \in SockRec /\ t.sd = s.sd /\ t.ctrl = s.ctrl /\ t.host = s.host /\ t.port = s.port
  /\ t.dest = s.dest /\ t.list = s.list /\ t.changed = s.changed /\ t.verify = s.verify /\ t.stale = s.stale

\* An address that is known is preferred to the one found.
Prefers(known, found, act) ==
  (addr_defined(known) /\ act = known) \/ (~addr_defined(known) /\ act = found)

Outcome(s, l, phase, r) ==
  /\ Same(s, r.sock) /\ r.lsa \in Addresses /\ r.how \in {"ok", "fail", "fatal"}
  /\ (phase = 1 \/ lopt.retry # 0 \/ s.did \/ s.host = NoHost) => r.sock.asserted = s.asserted
  /\ r.how = "ok" =>
       /\ r.sock.did /\ r.sock.dyn \in {s.dyn, NoHost}
       /\ s.did => r.lsa = l
       /\ ~s.did =>
            /\ Prefers(l.actual, r.lsa.remote, r.lsa.actual)
            /\ addr_defined(l.remote) => r.lsa.remote = l.remote
            /\ ~addr_defined(l.remote) /\ s.host # NoHost => r.lsa.remote \in HostAddrs(s)
  /\ r.how # "ok" => r.lsa = l /\ ~s.did /\ ~r.sock.did
  /\ phase = 1 /\ lopt.retry = 0 => r.how # "fail"
  /\ s.host = NoHost => r.how = "ok"

LEMMA ResolvedOutcome ==
  ASSUME NEW s \in SockRec, NEW l \in Addresses
  PROVE  /\ Same(s, Resolved(s, l).sock) /\ Resolved(s, l).sock.asserted = s.asserted
         /\ Resolved(s, l).sock.did /\ Resolved(s, l).sock.dyn \in {s.dyn, NoHost}
         /\ Resolved(s, l).lsa \in Addresses /\ Resolved(s, l).lsa.remote = l.remote
         /\ Prefers(l.actual, l.remote, Resolved(s, l).lsa.actual) /\ Resolved(s, l).how = "ok"
<1> DEFINE yes == TRUE
           a == [s EXCEPT !.did = yes, !.dyn = NoHost]
           b == [s EXCEPT !.did = yes]
           m == [l EXCEPT !.actual = l.remote]
<1>1. yes \in BOOLEAN /\ yes BY Zenon
<1> HIDE DEF yes
<1>2. a \in SockRec BY <1>1 DEF SockRec, Hosts
<1>3. Same(s, a) /\ a.asserted = s.asserted /\ a.did = yes /\ a.dyn = NoHost BY <1>2 DEF SockRec, Same
<1>4. b \in SockRec BY <1>1 DEF SockRec
<1>5. Same(s, b) /\ b.asserted = s.asserted /\ b.did = yes /\ b.dyn = s.dyn BY <1>4 DEF SockRec, Same
<1>6. m \in Addresses /\ m.remote = l.remote /\ m.actual = l.remote BY DEF Addresses
<1>7. Resolved(s, l) = IF addr_defined(l.actual) THEN [sock |-> a, lsa |-> l, how |-> "ok"] ELSE [sock |-> b, lsa |-> m, how |-> "ok"]
  BY DEF Resolved, yes
<1> HIDE DEF a, b, m
<1>8. CASE addr_defined(l.actual)
  <2>1. Resolved(s, l).sock = a /\ Resolved(s, l).lsa = l /\ Resolved(s, l).how = "ok" BY <1>7, <1>8
  <2>2. Prefers(l.actual, l.remote, l.actual) BY <1>8 DEF Prefers
  <2> QED BY <1>1, <1>3, <2>1, <2>2
<1>9. CASE ~addr_defined(l.actual)
  <2>1. Resolved(s, l).sock = b /\ Resolved(s, l).lsa = m /\ Resolved(s, l).how = "ok" BY <1>7, <1>9
  <2>2. Prefers(l.actual, l.remote, l.remote) BY <1>9 DEF Prefers
  <2> QED BY <1>1, <1>5, <1>6, <2>1, <2>2
<1> QED BY <1>8, <1>9

LEMMA Resolution ==
  ASSUME lopt \in LinkOptions, NEW s \in SockRec, NEW l \in Addresses, NEW phase \in {1, 2},
         NEW r \in resolve_remote(s, l, phase)
  PROVE  Outcome(s, l, phase, r)
<1>0. lopt.retry \in 0 .. Infinite /\ Infinite \in Nat \ {0} BY Options, LinkAssumption
<1>1. CASE s.did
  <2>1. r = [sock |-> s, lsa |-> l, how |-> "ok"] BY <1>1 DEF resolve_remote
  <2>2. r.sock = s /\ r.lsa = l /\ r.how = "ok" BY <2>1
  <2>3. Same(s, s) BY DEF Same
  <2> QED BY <1>1, <2>2, <2>3 DEF Outcome
<1>2. CASE ~s.did /\ addr_defined(l.remote)
  <2>1. r = Resolved(s, l) BY <1>2 DEF resolve_remote
  <2> QED BY <1>2, <2>1, ResolvedOutcome DEF Outcome
<1>3. CASE ~s.did /\ ~addr_defined(l.remote) /\ s.host = NoHost
  <2> DEFINE m == [l EXCEPT !.remote = [ip |-> 0, port |-> s.port]]
  <2>1. m \in Addresses /\ m.actual = l.actual BY DEF Addresses, Address, SockRec
  <2>2. r = Resolved(s, m) BY <1>3 DEF resolve_remote
  <2> HIDE DEF m
  <2> QED BY <1>3, <2>1, <2>2, ResolvedOutcome DEF Outcome
<1>4. CASE ~s.did /\ ~addr_defined(l.remote) /\ s.host # NoHost /\ phase = 2 /\ lopt.retry = 0
  <2> DEFINE no == FALSE
             t == [s EXCEPT !.asserted = no]
  <2>1. no \in BOOLEAN BY Zenon
  <2> HIDE DEF no
  <2>2. t \in SockRec BY <2>1 DEF SockRec
  <2>3. Same(s, t) /\ t.did = s.did BY <2>2 DEF Same, SockRec
  <2>4. r = [sock |-> t, lsa |-> l, how |-> "fatal"] BY <1>4 DEF resolve_remote, no
  <2>5. r.sock = t /\ r.lsa = l /\ r.how = "fatal" BY <2>4
  <2> QED BY <1>4, <2>3, <2>5 DEF Outcome
<1>5. CASE ~s.did /\ ~addr_defined(l.remote) /\ s.host # NoHost /\ ~(phase = 2 /\ lopt.retry = 0)
  <2>1. PICK q \in Attempts(s, phase) :
          r = IF q.how = "ok"
              THEN Resolved(s, [l EXCEPT !.remote = [ip |-> q.ip, port |-> s.port]])
              ELSE [sock |-> s, lsa |-> l, how |-> q.how]
    BY <1>5 DEF resolve_remote
  <2>2. \E fatal, once, seconds : q \in getaddr(s.host, fatal, once, seconds) BY DEF Attempts
  <2>3. q.how \in {"ok", "fail", "fatal"} /\ (q.how = "ok" => q.ip \in Ips[s.host]) BY <2>2, Getaddr
  <2>4. phase = 1 /\ lopt.retry = 0 => q.how # "fail"
    <3> SUFFICES ASSUME phase = 1, lopt.retry = 0 PROVE q.how # "fail" OBVIOUS
    <3>1. q \in getaddr(s.host, TRUE, FALSE, 0) BY <1>0 DEF Attempts
    <3> QED BY <3>1, GetaddrFatal
  <2>5. s.host \in DOMAIN Ips /\ s.port \in Nat BY <1>5 DEF SockRec, Hosts
  <2>6. CASE q.how = "ok"
    <3> DEFINE f == [ip |-> q.ip, port |-> s.port]
               m == [l EXCEPT !.remote = f]
    <3>1. f \in HostAddrs(s) /\ f \in Address BY <2>3, <2>5, <2>6, LinkAssumption DEF HostAddrs, Address
    <3> HIDE DEF f
    <3>2. m \in Addresses /\ m.actual = l.actual /\ m.remote = f BY <3>1 DEF Addresses
    <3>3. r = Resolved(s, m) BY <2>1, <2>6 DEF f
    <3> HIDE DEF m
    <3> QED BY <1>5, <3>1, <3>2, <3>3, ResolvedOutcome DEF Outcome
  <2>7. CASE q.how # "ok"
    <3>1. r.sock = s /\ r.lsa = l /\ r.how = q.how BY <2>1, <2>7
    <3>2. Same(s, s) BY DEF Same
    <3> QED BY <1>5, <2>3, <2>4, <2>7, <3>1, <3>2 DEF Outcome
  <2> QED BY <2>6, <2>7
<1> QED BY <1>1, <1>2, <1>3, <1>4, <1>5

-----------------------------------------------------------------------------
(* Steps that change the place only.                                       *)

\* On to the next step of a dialogue.
Onward(p, q) ==
  \/ p \in Dialogue /\ q \in Dialogue
  \/ p \in Dialogue /\ q = "finish" /\ lopt.proto = "client"
  \/ p = "listen" /\ q = "finish"
  \/ p \notin {"off", "exit", "accept_from"} /\ q = "close" /\ (p = "phase2" => lopt.mode # "accept_from")

LEMMA Move ==
  ASSUME LInv, UNCHANGED <<lopt, rl, lsa, sock, fds, accepted>>, lsig' \in {"none", "USR1", "TERM"},
         Onward(lpc, lpc'), PlaceOK(lpc')
  PROVE  LInv'
<1> USE DEF LInv
<1>0. lpc' \in Places BY DEF Onward, Places, Dialogue
<1>1. LinkType' BY <1>0 DEF LinkType
<1>2. PlaceOK(lpc)' BY DEF PlaceOK
<1>o. lopt.mode = "listen" => lopt.n = 0 /\ lopt.proto = "server" BY Options DEF LinkType
<1>3. Holds(sock, lpc', fds) BY DEF Holds, Onward, Dialogue, PlaceOK, Lent
<1>4. Aimed(sock, lpc') BY <1>o DEF Aimed, Onward, Dialogue, PlaceOK
<1>5. Known(sock, lsa, lpc') BY <1>o DEF Known, Onward, Dialogue, PlaceOK, Settled
<1>6. Fresh(sock, lsa, lpc') BY <1>o DEF Fresh, Onward, Dialogue, PlaceOK
<1> HIDE DEF LInv
<1>7. Holds(sock, lpc, fds)' BY <1>3 DEF Holds, Lent
<1>8. Aimed(sock, lpc)' BY <1>4 DEF Aimed, Aim, Named
<1>9. Known(sock, lsa, lpc)' BY <1>5 DEF Known, NamedIps, ListAddrs, HostAddrs
<1>10. Fresh(sock, lsa, lpc)' BY <1>6 DEF Fresh, Aim, ListAddrs, HostAddrs
<1>11. NoStranger' BY DEF LInv, NoStranger, ListAddrs, HostAddrs
<1> QED BY <1>1, <1>2, <1>7, <1>8, <1>9, <1>10, <1>11 DEF LInv

\* What depends on the options and the list only.
LEMMA SameOptions ==
  ASSUME lopt' = lopt
  PROVE  /\ NamedIps' = NamedIps /\ ListAddrs' = ListAddrs /\ Named' = Named /\ Lent' = Lent
         /\ rl'.current = rl.current => Aim' = Aim
  BY DEF NamedIps, ListAddrs, HostAddrs, Named, Lent, Aim

LEMMA Caller ==
  ASSUME lopt \in LinkOptions, NEW a \in Callers
  PROVE  a \in Address /\ a.ip # 0
<1>1. CASE a \in Strangers BY <1>1, LinkAssumption DEF Address
<1>2. CASE a \in ListAddrs
  <2>1. PICK i \in 1 .. lopt.n : a \in HostAddrs(Entries[i]) BY <1>2 DEF ListAddrs
  <2> QED BY <2>1, Entry, HostAddr
<1> QED BY <1>1, <1>2 DEF Callers

LEMMA Pair ==
  ASSUME NEW x \in Nat, NEW y \in Nat
  PROVE  IsFiniteSet({}) /\ IsFiniteSet({x}) /\ IsFiniteSet({x, y})
  BY FS_EmptySet, FS_Singleton, FS_AddElement

-----------------------------------------------------------------------------
(* Accepting.                                                              *)

LEMMA AcceptStep ==
  ASSUME LInv, NEW a \in Callers, Accept(a)
  PROVE  LInv'
<1> USE DEF LInv
<1>1. /\ lopt \in LinkOptions /\ sock \in SockRec /\ lsa \in Addresses /\ rl.current \in 0 .. lopt.n
      /\ rl \in [current : 0 .. lopt.n, no_advance : BOOLEAN] /\ lsig \in {"none", "USR1", "TERM"}
  BY DEF LinkType
<1>2. lpc = "default" /\ lopt' = lopt /\ rl' = rl /\ lsig' = lsig /\ accepted' = accepted
      /\ lsa' = [lsa EXCEPT !.actual = a]
  BY DEF Accept
<1>3. lopt.proto = "server" /\ lopt.mode = "default" /\ lopt.proxy = "none" /\ lopt.n \in Nat
  BY <1>1, <1>2, Options DEF PlaceOK
<1>4. PICK u \in update_remote(sock.dyn, sock.verify) :
       IF addr_defined(u.addr) /\ u.addr.ip # a.ip
       THEN /\ sock' = [sock EXCEPT !.verify = u.addr, !.changed = @ \/ u.changed]
            /\ UNCHANGED <<fds, lpc>>
       ELSE /\ sock' = [sock EXCEPT !.verify = u.addr, !.sd = FreshFd(fds), !.changed = @ \/ u.changed]
            /\ fds' = (fds \cup {FreshFd(fds)}) \ {sock.sd}
            /\ lpc' = "finish"
  BY DEF Accept
<1>5. sock.dyn \in Hosts /\ sock.verify \in Address /\ sock.sd \in Nat /\ sock.ctrl \in Nat /\ sock.changed \in BOOLEAN
  BY <1>1 DEF SockRec
<1>6. /\ u.addr \in Address /\ u.changed \in BOOLEAN
      /\ u.addr.ip = sock.verify.ip \/ (sock.dyn # NoHost /\ u.addr.ip \in Ips[sock.dyn])
      /\ ~u.changed => u.addr.ip = sock.verify.ip
      /\ u.changed => sock.dyn # NoHost /\ u.addr.ip \in Ips[sock.dyn]
  BY <1>5, UpdateRemote
<1>7. a \in Address /\ a.ip # 0 BY <1>1, Caller
<1>8. lsa' \in Addresses /\ lsa'.actual = a /\ lsa'.remote = lsa.remote BY <1>1, <1>2, <1>7 DEF Addresses
<1>9. lopt.n > 0 /\ sock.dyn # NoHost => Ips[sock.dyn] \subseteq NamedIps /\ Ips[sock.dyn] \subseteq Nat \ {0}
  BY <1>1, <1>2, <1>3, AimEntry DEF Aimed, Dialogue
<1>10. fds = {sock.sd} /\ sock.ctrl = NoFd /\ sock.sd # NoFd BY <1>2, <1>3, <1>5 DEF Holds, Owned, Lent
<1>11. FreshFd(fds) \in Nat \ {0} /\ FreshFd(fds) # sock.sd
  <2>1. IsFiniteSet(fds) /\ fds \subseteq Nat BY <1>5, <1>10, FS_Singleton
  <2> QED BY <1>10, <2>1, FreshFdNew
<1> DEFINE c == sock.changed \/ u.changed
<1>12. c \in BOOLEAN BY <1>5, <1>6, Zenon
<1>13. lopt.n > 0 => u.addr.ip # 0 /\ (c /\ ~lopt.float => u.addr.ip \in NamedIps)
  BY <1>2, <1>3, <1>6, <1>9 DEF Aimed, Known
<1> HIDE DEF c
<1>14. CASE addr_defined(u.addr) /\ u.addr.ip # a.ip
  <2>1. sock' = [sock EXCEPT !.verify = u.addr, !.changed = c] /\ fds' = fds /\ lpc' = "default" BY <1>2, <1>4, <1>14 DEF c
  <2>2. sock' \in SockRec BY <1>1, <1>6, <1>12, <2>1 DEF SockRec
  <2>3. /\ sock'.verify = u.addr /\ sock'.changed = c /\ sock'.sd = sock.sd /\ sock'.ctrl = sock.ctrl
        /\ sock'.asserted = sock.asserted /\ sock'.dest = sock.dest /\ sock'.dyn = sock.dyn
    BY <1>1, <2>1 DEF SockRec
  <2>4. LinkType' BY <1>1, <1>2, <1>8, <2>1, <2>2 DEF LinkType, Places
  <2>5. PlaceOK(lpc)' BY <1>2, <2>1 DEF PlaceOK
  <2>6. Holds(sock, lpc, fds)' BY <1>2, <2>1, <2>3, SameOptions DEF Holds, Owned
  <2>7. Aimed(sock, lpc)' BY <1>2, <1>3, <1>13, <2>1, <2>3, SameOptions DEF Aimed, Dialogue
  <2>8. Known(sock, lsa, lpc)' BY <1>2, <1>3, <1>7, <1>8, <1>13, <2>1, <2>3, SameOptions DEF Known, Settled, Dialogue
  <2>9. Fresh(sock, lsa, lpc)' BY <1>2, <1>3, <2>1 DEF Fresh, Dialogue
  <2>10. NoStranger' BY <1>2 DEF NoStranger, ListAddrs, HostAddrs
  <2> QED BY <2>4, <2>5, <2>6, <2>7, <2>8, <2>9, <2>10
<1>15. CASE ~(addr_defined(u.addr) /\ u.addr.ip # a.ip)
  <2> DEFINE d == FreshFd(fds)
  <2>1. sock' = [sock EXCEPT !.verify = u.addr, !.sd = d, !.changed = c] /\ lpc' = "finish"
        /\ fds' = (fds \cup {d}) \ {sock.sd}
    BY <1>4, <1>15 DEF c
  <2> HIDE DEF d
  <2>2. d \in Nat /\ d # 0 /\ d # sock.sd BY <1>11 DEF d
  <2>3. sock' \in SockRec BY <1>1, <1>6, <1>12, <2>1, <2>2 DEF SockRec
  <2>4. /\ sock'.changed = c /\ sock'.sd = d /\ sock'.ctrl = sock.ctrl
        /\ sock'.asserted = sock.asserted /\ sock'.dest = sock.dest
    BY <1>1, <2>1 DEF SockRec
  <2>5. fds' = {d} BY <1>10, <2>1, <2>2
  <2>6. LinkType' BY <1>1, <1>2, <1>8, <2>1, <2>3 DEF LinkType, Places
  <2>7. PlaceOK(lpc)' BY <1>2, <1>3, <2>1 DEF PlaceOK, Dialogue
  <2>8. Holds(sock, lpc, fds)' BY <1>2, <1>3, <1>10, <2>1, <2>2, <2>4, <2>5 DEF Holds, Owned, Lent, NoFd
  <2>9. Aimed(sock, lpc)' BY <1>2, <2>1, <2>4 DEF Aimed, Dialogue
  <2>10. Known(sock, lsa, lpc)'
    <3>1. lopt.n > 0 => u.addr.ip = a.ip BY <1>13, <1>15 DEF addr_defined
    <3> QED BY <1>2, <1>3, <1>7, <1>8, <1>13, <2>1, <2>4, <3>1, SameOptions DEF Known, Settled, Dialogue
  <2>11. Fresh(sock, lsa, lpc)' BY <1>2, <1>3, <2>1 DEF Fresh, Dialogue
  <2>12. NoStranger' BY <1>2 DEF NoStranger, ListAddrs, HostAddrs
  <2> QED BY <2>6, <2>7, <2>8, <2>9, <2>10, <2>11, <2>12
<1> QED BY <1>14, <1>15

LEMMA AcceptFromStep ==
  ASSUME LInv, NEW a \in Callers, AcceptFrom(a)
  PROVE  LInv'
<1> USE DEF LInv
<1>1. /\ lopt \in LinkOptions /\ sock \in SockRec /\ lsa \in Addresses
      /\ rl \in [current : 0 .. lopt.n, no_advance : BOOLEAN] /\ lsig \in {"none", "USR1", "TERM"}
  BY DEF LinkType
<1>2. lpc = "accept_from" /\ lopt' = lopt /\ rl' = rl /\ accepted' = accepted BY DEF AcceptFrom
<1>3. lopt.mode = "accept_from" /\ lopt.proto = "server" /\ lopt.n = 0 /\ lopt.proxy = "none"
  BY <1>1, <1>2, Options DEF PlaceOK
<1>4. fds = {Listener} /\ sock.ctrl = NoFd BY <1>2, <1>3 DEF Holds, Owned, Lent, Listener, NoFd
<1>5. FreshFd(fds) \in Nat \ {0} /\ FreshFd(fds) # Listener
  <2>0. Listener \in Nat BY DEF Listener
  <2>1. IsFiniteSet(fds) /\ fds \subseteq Nat BY <1>4, <2>0, FS_Singleton
  <2> QED BY <1>4, <2>1, FreshFdNew
<1> DEFINE d == FreshFd(fds)
<1>6. \/ sock' = [sock EXCEPT !.sd = d] /\ fds' = {Listener, d} /\ lpc' = "finish"
         /\ lsa' = [lsa EXCEPT !.actual = a] /\ lsig' = lsig
      \/ sock' = [sock EXCEPT !.sd = NoFd] /\ fds' = {Listener} /\ lpc' = "close" /\ lsa' = lsa /\ lsig' = "TERM"
  BY <1>4 DEF AcceptFrom
<1>7. d \in Nat /\ d # NoFd /\ d # Listener /\ NoFd \in Nat BY <1>5 DEF NoFd
<1> HIDE DEF d
<1>8. lsa' \in Addresses /\ lsig' \in {"none", "USR1", "TERM"} BY <1>1, <1>6, Caller DEF Addresses
<1>9. sock' \in SockRec /\ sock'.ctrl = sock.ctrl /\ sock'.asserted = sock.asserted /\ sock'.dest = sock.dest
  BY <1>1, <1>6, <1>7 DEF SockRec
<1>10. \/ sock'.sd = d /\ lpc' = "finish" /\ fds' = {Listener, d}
       \/ sock'.sd = NoFd /\ lpc' = "close" /\ fds' = {Listener}
  BY <1>1, <1>6 DEF SockRec
<1>11. LinkType' BY <1>1, <1>2, <1>8, <1>9, <1>10 DEF LinkType, Places
<1>12. PlaceOK(lpc)' BY <1>2, <1>10 DEF PlaceOK, Dialogue, Settled
<1>13. Holds(sock, lpc, fds)' BY <1>2, <1>3, <1>4, <1>7, <1>9, <1>10 DEF Holds, Owned, Lent
<1>14. Aimed(sock, lpc)' BY <1>2, <1>3, <1>9, <1>10 DEF Aimed, Dialogue
<1>15. Known(sock, lsa, lpc)' BY <1>2, <1>3 DEF Known
<1>16. Fresh(sock, lsa, lpc)' BY <1>2, <1>3, <1>10 DEF Fresh, Dialogue
<1>17. NoStranger' BY <1>2 DEF NoStranger, ListAddrs, HostAddrs
<1> QED BY <1>11, <1>12, <1>13, <1>14, <1>15, <1>16, <1>17

-----------------------------------------------------------------------------
(* The link in use.                                                        *)

LEMMA FinishStep ==
  ASSUME LInv, Finish
  PROVE  LInv'
<1> USE DEF LInv
<1>1. /\ lopt \in LinkOptions /\ sock \in SockRec /\ lsa \in Addresses /\ rl.current \in 0 .. lopt.n
      /\ rl \in [current : 0 .. lopt.n, no_advance : BOOLEAN] /\ lsig \in {"none", "USR1", "TERM"}
      /\ lopt.proto \in {"udp", "client", "server"}
  BY Options DEF LinkType
<1>2. lpc = "finish" /\ lpc' = "up" /\ accepted' = {} /\ lopt' = lopt /\ rl' = rl /\ sock' = sock /\ fds' = fds /\ lsig' = lsig
      /\ lsa' = IF sock.changed THEN [lsa EXCEPT !.remote.ip = lsa.actual.ip] ELSE lsa
  BY DEF Finish
<1>3. lsa' \in Addresses /\ lsa'.actual = lsa.actual /\ lsa'.remote.port = lsa.remote.port
      /\ lsa'.remote.ip = IF sock.changed THEN lsa.actual.ip ELSE lsa.remote.ip
  BY <1>1, <1>2 DEF Addresses, Address
<1>4. LinkType' BY <1>1, <1>2, <1>3 DEF LinkType, Places
<1>5. PlaceOK(lpc)' BY <1>2 DEF PlaceOK, Dialogue
<1>6. Holds(sock, lpc, fds)' BY <1>2, SameOptions DEF Holds
<1>7. Aimed(sock, lpc)' BY <1>2 DEF Aimed, Dialogue
<1>8. Known(sock, lsa, lpc)' BY <1>2, <1>3, SameOptions DEF Known, Settled
<1>9. Fresh(sock, lsa, lpc)'
  <2> SUFFICES ASSUME ~lopt.persist
               PROVE  /\ lopt.proto = "udp" /\ lopt.n > 0 /\ ~lopt.float => lsa'.remote \in ListAddrs /\ lsa'.actual \in ListAddrs
                      /\ lopt.proto = "client" => /\ ~sock.stale => lsa'.actual \in HostAddrs(Aim)
                                                  /\ lsa'.actual.ip = lsa'.remote.ip
    BY <1>2, SameOptions DEF Fresh, Dialogue
  <2>1. ASSUME lopt.proto = "udp", lopt.n > 0 PROVE lsa'.remote \in ListAddrs /\ lsa'.actual \in ListAddrs
    <3>1. lsa.remote \in ListAddrs /\ lsa.actual = lsa.remote BY <1>2, <2>1 DEF Fresh
    <3>2. lsa.remote \in Address /\ lsa'.remote \in Address BY <1>1, <1>3 DEF Addresses
    <3>3. lsa'.remote = lsa.remote BY <1>3, <3>1, <3>2 DEF Address
    <3> QED BY <1>3, <3>1, <3>3
  <2>2. ASSUME lopt.proto = "client" PROVE /\ ~sock.stale => lsa'.actual \in HostAddrs(Aim)
                                           /\ lsa'.actual.ip = lsa'.remote.ip
    <3>1. lsa.actual.port = Aim.port /\ (~sock.stale => lsa.actual.ip \in Ips[Aim.host])
          /\ (~sock.changed => lsa.actual.ip = lsa.remote.ip)
      BY <1>2, <2>2 DEF Fresh
    <3>2. lopt.n \in Nat /\ lopt.n > 0 /\ rl.current > 0 BY <1>1, <1>2, <2>2, Options DEF Aimed
    <3>3. Aim.host \in DOMAIN Ips /\ Aim.port \in Nat BY <1>1, <3>2, AimEntry
    <3>4. lsa.actual \in Address BY <1>1 DEF Addresses
    <3>5. ~sock.stale => lsa.actual \in HostAddrs(Aim) BY <3>1, <3>3, <3>4, HostAddr
    <3> QED BY <1>3, <3>1, <3>5
  <2> QED BY <2>1, <2>2
<1>10. NoStranger' BY <1>2 DEF NoStranger
<1> QED BY <1>4, <1>5, <1>6, <1>7, <1>8, <1>9, <1>10

LEMMA InitializedStep ==
  ASSUME LInv, Initialized
  PROVE  LInv'
<1> DEFINE yes == TRUE
<1>0. yes \in BOOLEAN BY Zenon
<1>1. rl' = [rl EXCEPT !.no_advance = yes] /\ UNCHANGED <<lopt, lsa, sock, fds, lsig, lpc, accepted>> BY DEF Initialized
<1> HIDE DEF yes
<1>2. rl \in [current : 0 .. lopt.n, no_advance : BOOLEAN] BY DEF LInv, LinkType
<1>3. rl' \in [current : 0 .. lopt.n, no_advance : BOOLEAN] /\ rl'.current = rl.current BY <1>0, <1>1, <1>2
<1>4. LinkType' BY <1>1, <1>3 DEF LInv, LinkType
<1>5. PlaceOK(lpc)' BY <1>1 DEF LInv, PlaceOK
<1>6. Holds(sock, lpc, fds)' BY <1>1, SameOptions DEF LInv, Holds
<1>7. Aimed(sock, lpc)' BY <1>1, <1>3, SameOptions DEF LInv, Aimed
<1>8. Known(sock, lsa, lpc)' BY <1>1, SameOptions DEF LInv, Known
<1>9. Fresh(sock, lsa, lpc)' BY <1>1, <1>3, SameOptions DEF LInv, Fresh
<1>10. NoStranger' BY <1>1, SameOptions DEF LInv, NoStranger
<1> QED BY <1>4, <1>5, <1>6, <1>7, <1>8, <1>9, <1>10 DEF LInv

LEMMA ReceiveStep ==
  ASSUME LInv, NEW a \in Callers, Receive(a)
  PROVE  LInv'
<1> USE DEF LInv
<1> DEFINE yes == TRUE
           fits == lopt.float \/ ~addr_defined(lsa.remote) \/ addr_match_proto(a, lsa.remote)
           new == (~sock.established \/ ~addr_match_proto(a, lsa.actual)) /\ fits
<1>0. yes \in BOOLEAN BY Zenon
<1>1. /\ lopt \in LinkOptions /\ sock \in SockRec /\ lsa \in Addresses /\ rl.current \in 0 .. lopt.n
      /\ rl \in [current : 0 .. lopt.n, no_advance : BOOLEAN] /\ lsig \in {"none", "USR1", "TERM"}
  BY DEF LinkType
<1>2. /\ lpc = "up" /\ UNCHANGED <<lopt, rl, fds, lsig, lpc>> /\ accepted' = accepted \cup {a} /\ addr_defined(a) /\ fits
      /\ lopt.mode # "listen" /\ (lopt.proto # "udp" => a = lsa.actual)
      /\ lsa' = (IF new THEN [lsa EXCEPT !.actual = a] ELSE lsa)
      /\ sock' = (IF new THEN [sock EXCEPT !.established = yes] ELSE sock)
  BY DEF Receive, link_socket_verify_incoming_addr
<1>3. a \in Address /\ a.ip # 0 BY <1>1, Caller
<1>4. lsa' \in Addresses /\ lsa'.remote = lsa.remote /\ lsa'.actual \in {a, lsa.actual} BY <1>1, <1>2, <1>3 DEF Addresses
<1> HIDE DEF yes, new
<1>5. sock' \in SockRec BY <1>0, <1>1, <1>2 DEF SockRec
<1>6. /\ sock'.sd = sock.sd /\ sock'.ctrl = sock.ctrl /\ sock'.asserted = sock.asserted /\ sock'.dest = sock.dest
      /\ sock'.changed = sock.changed /\ sock'.stale = sock.stale
  BY <1>1, <1>2 DEF SockRec
<1>7. lopt.n > 0 /\ ~lopt.float => addr_match_proto(a, lsa.remote) /\ a.ip = lsa.remote.ip /\ a.ip \in NamedIps
  BY <1>2, <1>3 DEF Known, Settled, addr_match_proto, addr_defined
<1>8. LinkType' BY <1>1, <1>2, <1>4, <1>5 DEF LinkType
<1>9. PlaceOK(lpc)' BY <1>2 DEF PlaceOK
<1>10. Holds(sock, lpc, fds)' BY <1>2, <1>6, SameOptions DEF Holds, Owned
<1>11. Aimed(sock, lpc)' BY <1>2, <1>6 DEF Aimed, Dialogue
<1>12. Known(sock, lsa, lpc)' BY <1>2, <1>3, <1>4, <1>6, <1>7, SameOptions DEF Known, Settled
<1>13. Fresh(sock, lsa, lpc)'
  <2>1. ASSUME ~lopt.persist, lopt.proto = "udp", lopt.n > 0, ~lopt.float PROVE lsa'.actual \in ListAddrs
    <3>1. lsa.remote \in ListAddrs /\ lsa.actual \in ListAddrs BY <1>2, <2>1 DEF Fresh
    <3>2. a.ip = lsa.remote.ip /\ a.port = lsa.remote.port BY <1>7, <2>1 DEF addr_match_proto
    <3>3. a = lsa.remote BY <1>1, <1>3, <3>2 DEF Addresses, Address
    <3> QED BY <1>4, <3>1, <3>3
  <2>2. lopt.proto # "udp" => lsa'.actual = lsa.actual BY <1>2, <1>4
  <2> QED BY <1>2, <1>4, <1>6, <2>1, <2>2, SameOptions DEF Fresh, Dialogue
<1>14. NoStranger'
  <2>1. NamedIps' = NamedIps BY <1>2, SameOptions
  <2>2. NoStranger <=> (~lopt.float /\ lopt.n > 0 => \A b \in accepted : b.ip \in NamedIps) BY DEF NoStranger, NamedIps
  <2>3. NoStranger' <=> (~lopt'.float /\ lopt'.n > 0 => \A b \in accepted' : b.ip \in NamedIps') BY DEF NoStranger, NamedIps
  <2> QED BY <1>2, <1>7, <2>1, <2>2, <2>3
<1> QED BY <1>8, <1>9, <1>10, <1>11, <1>12, <1>13, <1>14

LEMMA SocketsType ==
  /\ SOCKETS \in SockRec /\ SOCKETS.asserted /\ SOCKETS.dest = 0 /\ SOCKETS.sd = NoFd /\ SOCKETS.ctrl = NoFd
  /\ ~SOCKETS.list /\ ~SOCKETS.did /\ ~SOCKETS.changed /\ ~SOCKETS.stale
<1> DEFINE yes == TRUE
           no == FALSE
<1>1. yes \in BOOLEAN /\ no \in BOOLEAN /\ yes /\ ~no BY Zenon
<1>2. SOCKETS = [sd |-> NoFd, ctrl |-> NoFd, host |-> NoHost, port |-> 0, dest |-> 0, list |-> no,
            did |-> no, dyn |-> NoHost, changed |-> no, verify |-> NoAddr, left |-> 0,
            established |-> no, asserted |-> yes, stale |-> no]
  BY DEF SOCKETS
<1>3. NoFd \in Nat /\ NoHost \in Hosts /\ NoAddr \in Address BY DEF NoFd, Hosts, NoAddr, Address
<1> HIDE DEF yes, no
<1> QED BY <1>1, <1>2, <1>3 DEF SockRec

LEMMA CloseStep ==
  ASSUME LInv, Close
  PROVE  LInv'
<1> USE DEF LInv
<1>1. /\ lopt \in LinkOptions /\ sock \in SockRec /\ lsa \in Addresses
      /\ rl \in [current : 0 .. lopt.n, no_advance : BOOLEAN] /\ lsig \in {"none", "USR1", "TERM"}
      /\ lopt.n \in Nat
  BY Options DEF LinkType
<1>2. /\ lpc = "close" /\ lpc' \in {"off", "exit"} /\ sock' = SOCKETS /\ lsig' = "none" /\ accepted' = {}
      /\ lopt' = lopt /\ rl' = rl /\ fds' = fds \ Owned(sock)
      /\ lsa' = IF lsig = "USR1" /\ lopt.persist THEN lsa ELSE [remote |-> NoAddr, actual |-> NoAddr]
  BY DEF Close, link_socket_close
<1>3. NoAddr \in Address /\ NoAddr.ip = 0 BY DEF NoAddr, Address
<1>4. lsa' \in Addresses /\ (lsa' = lsa \/ (lsa'.remote = NoAddr /\ lsa'.actual = NoAddr))
      /\ (~lopt.persist => lsa'.remote = NoAddr /\ lsa'.actual = NoAddr)
  BY <1>1, <1>2, <1>3 DEF Addresses
<1>5. fds' = Lent
  <2>1. fds = Owned(sock) \cup Lent BY <1>2 DEF Holds
  <2>2. lopt.mode = "accept_from" => lopt.proto = "server" BY <1>1, Options
  <2>3. Owned(sock) \cap Lent = {} BY <1>2, <2>2 DEF Holds, Owned, Lent, NoFd
  <2> QED BY <1>2, <2>1, <2>3
<1>6. LinkType' BY <1>1, <1>2, <1>4, SocketsType DEF LinkType, Places
<1>7. PlaceOK(lpc)' BY <1>2 DEF PlaceOK, Dialogue, Settled
<1>8. Holds(sock, lpc, fds)' BY <1>2, <1>5, SameOptions DEF Holds
<1>9. Aimed(sock, lpc)' BY <1>1, <1>2, SocketsType DEF Aimed, Dialogue
<1>10. Known(sock, lsa, lpc)' BY <1>2, <1>3, <1>4, SameOptions DEF Known, Settled, Dialogue
<1>11. Fresh(sock, lsa, lpc)' BY <1>2, <1>3, <1>4 DEF Fresh, Dialogue, addr_defined
<1>12. NoStranger' BY <1>2 DEF NoStranger
<1> QED BY <1>6, <1>7, <1>8, <1>9, <1>10, <1>11, <1>12

-----------------------------------------------------------------------------
(* Connecting.                                                             *)

LEMMA ListNext ==
  ASSUME lopt \in LinkOptions, lopt.n > 0, NEW l \in [current : 0 .. lopt.n, no_advance : BOOLEAN]
  PROVE  /\ remote_list_next(l) \in [current : 0 .. lopt.n, no_advance : BOOLEAN]
         /\ remote_list_next(l).current \in 1 .. lopt.n
<1> DEFINE no == FALSE
           c == IF l.current + 1 > lopt.n THEN 1 ELSE l.current + 1
<1>1. no \in BOOLEAN BY Zenon
<1>2. lopt.n \in Nat BY Options
<1>3. l.current \in 0 .. lopt.n /\ c \in 1 .. lopt.n BY <1>2
<1>4. remote_list_next(l) = IF l.no_advance /\ l.current > 0 THEN [l EXCEPT !.no_advance = no] ELSE [l EXCEPT !.current = c]
  BY DEF remote_list_next
<1> HIDE DEF no, c
<1> QED BY <1>1, <1>2, <1>3, <1>4

LEMMA ConnectFailedStep ==
  ASSUME LInv, ConnectFailed
  PROVE  LInv'
<1> USE DEF LInv
<1> DEFINE next == sock.list
           l == IF next THEN remote_list_next(rl) ELSE rl
           dyn == IF next THEN remote_list_host(l) ELSE sock.dyn
           to == IF next THEN [lsa.actual EXCEPT !.port = remote_list_port(l)] ELSE lsa.actual
           udp == lopt.proto = "udp"
           old == IF udp THEN sock.ctrl ELSE sock.sd
           d == FreshFd(fds \ {old})
<1>1. /\ lopt \in LinkOptions /\ sock \in SockRec /\ lsa \in Addresses /\ rl.current \in 0 .. lopt.n
      /\ rl \in [current : 0 .. lopt.n, no_advance : BOOLEAN] /\ lsig \in {"none", "USR1", "TERM"}
      /\ lopt.n \in Nat
  BY Options DEF LinkType
<1>2. lpc = "connect" /\ UNCHANGED <<lopt, lsig, lpc, accepted>> /\ rl' = l /\ fds' = (fds \ {old}) \cup {d}
  BY DEF ConnectFailed, Reopened
<1>3. PICK u \in update_remote(dyn, to) :
        /\ lsa' = [lsa EXCEPT !.actual = u.addr]
        /\ sock' = [sock EXCEPT !.sd = IF udp THEN @ ELSE d, !.ctrl = IF udp THEN d ELSE @,
                                !.dyn = dyn, !.dest = IF next THEN l.current ELSE @,
                                !.changed = @ \/ next \/ u.changed, !.stale = u.stale]
  BY DEF ConnectFailed, Reopened
<1>4. /\ lopt.proto = "client" \/ (udp /\ lopt.proxy = "socks")
      /\ lopt.proto = "client" => lopt.n > 0
      /\ Named /\ lopt.mode = "default" /\ (lopt.proxy = "none" => rl.current > 0)
  BY <1>1, <1>2, Options DEF PlaceOK, Dialogue, Named, Aimed
<1>5. next = (lopt.proxy = "none" /\ lopt.n > 0) BY <1>2 DEF Aimed, Dialogue
<1>6. rl' \in [current : 0 .. lopt.n, no_advance : BOOLEAN] /\ rl'.current \in 0 .. lopt.n
      /\ (rl'.current > 0 \/ rl' = rl) /\ (lopt.proxy = "none" => rl'.current > 0)
  <2>1. CASE next
    <3>1. rl' = remote_list_next(rl) /\ lopt.n > 0 BY <1>2, <1>5, <2>1
    <3>2. rl' \in [current : 0 .. lopt.n, no_advance : BOOLEAN] /\ rl'.current \in 1 .. lopt.n BY <1>1, <3>1, ListNext
    <3> QED BY <1>1, <3>2
  <2>2. CASE ~next
    <3>1. rl' = rl /\ lopt.proxy # "none" BY <1>2, <1>4, <1>5, <2>2 DEF Named
    <3> QED BY <1>1, <3>1
  <2> QED BY <2>1, <2>2
<1>7. Aim' = (IF lopt.proxy # "none" THEN Proxy ELSE Entries[rl'.current]) BY <1>2 DEF Aim
<1>8. /\ Aim'.host \in DOMAIN Ips /\ Aim'.host # NoHost /\ Aim'.port \in Nat
      /\ Ips[Aim'.host] \subseteq NamedIps /\ Ips[Aim'.host] \subseteq Nat \ {0}
  <2>1. CASE lopt.proxy = "none"
    <3>1. rl'.current \in 1 .. lopt.n BY <1>1, <1>6, <2>1
    <3> QED BY <1>1, <1>7, <2>1, <3>1, Entry, LinkAssumption
  <2>2. CASE lopt.proxy # "none" BY <1>7, <2>2, ProxyEntry, LinkAssumption
  <2> QED BY <2>1, <2>2
<1>9. next => dyn = Aim'.host /\ remote_list_port(l) = Aim'.port
  <2> SUFFICES ASSUME next PROVE dyn = Aim'.host /\ remote_list_port(l) = Aim'.port OBVIOUS
  <2>1. lopt.proxy = "none" /\ lopt.n > 0 /\ dyn = remote_list_host(l) /\ rl' = l BY <1>2, <1>5
  <2>2. Aim' = Entries[l.current] /\ lopt.n # 0 BY <1>1, <1>7, <2>1
  <2> HIDE DEF l, dyn, next
  <2> QED BY <2>1, <2>2 DEF remote_list_host, remote_list_port
<1>10. ~next => Aim' = Aim /\ dyn = sock.dyn /\ to = lsa.actual BY <1>1, <1>2, <1>4, <1>5, <1>7 DEF Aim
<1>11. dyn \in Hosts /\ (dyn = NoHost \/ dyn = Aim'.host)
  BY <1>1, <1>2, <1>8, <1>9, <1>10 DEF Aimed, Dialogue, Hosts, SockRec
<1>12. to \in Address /\ to.ip = lsa.actual.ip /\ (next => to.port = Aim'.port)
  <2>1. lsa.actual \in Address BY <1>1 DEF Addresses
  <2> QED BY <1>8, <1>9, <2>1 DEF Address
<1>13. d \in Nat \ {0} /\ d \notin fds \ {old}
  <2>1. fds = Owned(sock) BY <1>2, <1>4 DEF Holds, Lent
  <2>2. fds \ {old} \subseteq {sock.sd, sock.ctrl} /\ {sock.sd, sock.ctrl} \subseteq Nat BY <1>1, <2>1 DEF Owned, SockRec
  <2>3. IsFiniteSet({sock.sd, sock.ctrl}) BY <1>1, Pair DEF SockRec
  <2>4. IsFiniteSet(fds \ {old}) BY <2>2, <2>3, FS_Subset
  <2> QED BY <2>2, <2>4, FreshFdNew
<1> HIDE DEF l, dyn, to, d, next
<1>14. /\ u.addr \in Address /\ u.changed \in BOOLEAN /\ u.stale \in BOOLEAN /\ u.addr.port = to.port
       /\ u.addr.ip = to.ip \/ (dyn # NoHost /\ u.addr.ip \in Ips[dyn])
       /\ ~u.changed => u.addr.ip = to.ip
       /\ ~u.stale => dyn = NoHost \/ u.addr.ip \in Ips[dyn]
       /\ u.stale => dyn # NoHost
  BY <1>11, <1>12, UpdateRemote
<1>15. lsa' \in Addresses /\ lsa'.actual = u.addr /\ lsa'.remote = lsa.remote BY <1>1, <1>3, <1>14 DEF Addresses
<1> DEFINE sd == IF udp THEN sock.sd ELSE d
           ctrl == IF udp THEN d ELSE sock.ctrl
           dest == IF next THEN l.current ELSE sock.dest
           ch == sock.changed \/ next \/ u.changed
<1>16. ch \in BOOLEAN
  <2>1. sock.changed \in BOOLEAN /\ sock.list \in BOOLEAN BY <1>1 DEF SockRec
  <2> QED BY <1>14, <2>1, Zenon DEF next
<1>17. sd \in Nat /\ ctrl \in Nat /\ dest \in Nat /\ dest <= lopt.n /\ (lopt.n > 0 => dest > 0)
  <2>1. sock.sd \in Nat /\ sock.ctrl \in Nat /\ sock.dest \in Nat BY <1>1 DEF SockRec
  <2>2. sock.dest <= lopt.n /\ (lopt.n > 0 => sock.dest > 0) BY <1>2 DEF Aimed
  <2>3. next => l.current \in 0 .. lopt.n /\ l.current > 0 BY <1>2, <1>5, <1>6
  <2> QED BY <1>1, <1>13, <2>1, <2>2, <2>3
<1>18. sock' = [sock EXCEPT !.sd = sd, !.ctrl = ctrl, !.dyn = dyn, !.dest = dest, !.changed = ch, !.stale = u.stale]
  BY <1>3
<1>19. /\ fds' = {sd, ctrl} \ {NoFd} /\ sd # NoFd /\ (ctrl # NoFd => udp /\ ctrl # sd)
       /\ (udp /\ lopt.proxy = "socks" => ctrl # NoFd)
  <2>1. fds = {sock.sd, sock.ctrl} \ {NoFd} BY <1>2, <1>4 DEF Holds, Lent, Owned
  <2>2. sock.sd # NoFd /\ (sock.ctrl # NoFd => udp /\ sock.ctrl # sock.sd) BY <1>2, <1>4 DEF Holds
  <2>3. CASE udp BY <1>2, <1>13, <2>1, <2>2, <2>3 DEF NoFd
  <2>4. CASE ~udp BY <1>2, <1>13, <2>1, <2>2, <2>4 DEF NoFd
  <2> QED BY <2>3, <2>4
<1> HIDE DEF sd, ctrl, dest, ch
<1> DEFINE s1 == [sock EXCEPT !.sd = sd, !.ctrl = ctrl, !.dyn = dyn]
<1>20. s1 \in SockRec BY <1>1, <1>11, <1>17 DEF SockRec
<1>21. /\ s1.sd = sd /\ s1.ctrl = ctrl /\ s1.dyn = dyn /\ s1.asserted = sock.asserted /\ s1.list = sock.list
  BY <1>1 DEF SockRec
<1>22. sock' = [s1 EXCEPT !.dest = dest, !.changed = ch, !.stale = u.stale] BY <1>1, <1>18 DEF SockRec
<1> HIDE DEF s1
<1>23. sock' \in SockRec BY <1>14, <1>16, <1>17, <1>20, <1>22 DEF SockRec
<1>24. /\ sock'.sd = sd /\ sock'.ctrl = ctrl /\ sock'.dyn = dyn /\ sock'.asserted = sock.asserted /\ sock'.list = sock.list
       /\ sock'.dest = dest /\ sock'.changed = ch /\ sock'.stale = u.stale
  BY <1>20, <1>21, <1>22 DEF SockRec
<1>25. LinkType' BY <1>1, <1>2, <1>6, <1>15, <1>23 DEF LinkType, Places
<1>26. PlaceOK(lpc)' BY <1>2 DEF PlaceOK
<1>27. Holds(sock, lpc, fds)' BY <1>2, <1>4, <1>19, <1>24 DEF Holds, Owned, Lent
<1>28. Aimed(sock, lpc)'
  <2>1. lopt.n > 0 => rl'.current > 0 BY <1>1, <1>2, <1>6 DEF Aimed
  <2>2. Named' = Named BY <1>2, SameOptions
  <2> QED BY <1>2, <1>4, <1>5, <1>11, <1>17, <1>24, <2>1, <2>2 DEF Aimed, Dialogue, next
<1>29. Known(sock, lsa, lpc)'
  <2>1. lopt.n > 0 => lsa.actual.ip # 0 /\ (~lopt.float => lsa.actual.ip \in NamedIps)
    BY <1>2, <1>4 DEF Known, Settled, Dialogue
  <2>2. lopt.n > 0 => u.addr.ip # 0 /\ (~lopt.float => u.addr.ip \in NamedIps) BY <1>8, <1>11, <1>12, <1>14, <2>1
  <2> QED BY <1>2, <1>4, <1>15, <2>2, SameOptions DEF Known, Settled, Dialogue
<1>30. Fresh(sock, lsa, lpc)'
  <2> SUFFICES ASSUME ~lopt.persist
               PROVE  /\ u.addr.port = Aim'.port
                      /\ ~u.stale => u.addr.ip \in Ips[Aim'.host]
                      /\ u.stale => dyn # NoHost
                      /\ ~ch => u.addr.ip = lsa.remote.ip
    BY <1>2, <1>15, <1>24 DEF Fresh, Dialogue
  <2>1. /\ lsa.actual.port = Aim.port /\ (~sock.stale => lsa.actual.ip \in Ips[Aim.host])
        /\ (sock.stale => sock.dyn # NoHost) /\ (~sock.changed => lsa.actual.ip = lsa.remote.ip)
    BY <1>2 DEF Fresh, Dialogue
  <2>2. u.addr.port = Aim'.port BY <1>10, <1>12, <1>14, <2>1
  <2>3. ASSUME ~u.stale PROVE u.addr.ip \in Ips[Aim'.host]
    <3>1. CASE dyn # NoHost BY <1>11, <1>14, <2>3, <3>1
    <3>2. CASE dyn = NoHost BY <1>8, <1>9, <1>10, <1>12, <1>14, <2>1, <3>2
    <3> QED BY <3>1, <3>2
  <2>4. ~ch => u.addr.ip = lsa.remote.ip BY <1>12, <1>14, <2>1 DEF ch
  <2> QED BY <1>14, <2>2, <2>3, <2>4
<1>31. NoStranger' BY <1>2 DEF NoStranger, ListAddrs, HostAddrs
<1> QED BY <1>25, <1>26, <1>27, <1>28, <1>29, <1>30, <1>31

LEMMA SocksReplyStep ==
  ASSUME LInv, NEW atyp \in {"ipv4", "ipv6", "name"}, SocksReply(atyp)
  PROVE  LInv'
<1> USE DEF LInv
<1>1. /\ lopt \in LinkOptions /\ sock \in SockRec /\ lsa \in Addresses /\ rl.current \in 0 .. lopt.n
      /\ rl \in [current : 0 .. lopt.n, no_advance : BOOLEAN] /\ lsig \in {"none", "USR1", "TERM"}
      /\ lopt.n \in Nat
  BY Options DEF LinkType
<1>2. lpc = "request" /\ UNCHANGED <<lopt, rl, accepted>> /\ lopt.proxy = "socks" /\ lopt.mode = "default"
  BY <1>1, Options DEF SocksReply, PlaceOK
<1>3. NoStranger' BY <1>2 DEF NoStranger, ListAddrs, HostAddrs
<1>4. CASE lopt.proto = "client"
  <2> DEFINE left == ReplyBytes(atyp, 4) - recv_socks_reply(atyp, 4)
  <2>1. left \in Nat BY DEF ReplyBytes, recv_socks_reply
  <2>2. sock' = [sock EXCEPT !.left = left] /\ lpc' = "finish" /\ lsa' = lsa /\ lsig' = lsig /\ fds' = fds
    BY <1>4 DEF SocksReply
  <2> HIDE DEF left
  <2>3. sock' \in SockRec BY <1>1, <2>1, <2>2 DEF SockRec
  <2>4. /\ sock'.sd = sock.sd /\ sock'.ctrl = sock.ctrl /\ sock'.asserted = sock.asserted /\ sock'.dest = sock.dest
        /\ sock'.changed = sock.changed /\ sock'.stale = sock.stale /\ sock'.dyn = sock.dyn
    BY <1>1, <2>2 DEF SockRec
  <2>5. LinkType' BY <1>1, <1>2, <2>2, <2>3 DEF LinkType, Places
  <2>6. PlaceOK(lpc)' BY <1>2, <2>2 DEF PlaceOK, Dialogue
  <2>7. Holds(sock, lpc, fds)' BY <1>2, <2>2, <2>4, SameOptions DEF Holds, Owned
  <2>8. Aimed(sock, lpc)' BY <1>2, <2>2, <2>4 DEF Aimed, Dialogue
  <2>9. Known(sock, lsa, lpc)' BY <1>2, <1>4, <2>2, <2>4, SameOptions DEF Known, Settled, Dialogue
  <2>10. Fresh(sock, lsa, lpc)' BY <1>2, <1>4, <2>2, <2>4, SameOptions DEF Fresh, Dialogue
  <2> QED BY <1>3, <2>5, <2>6, <2>7, <2>8, <2>9, <2>10
<1>5. CASE lopt.proto = "udp"
  <2> DEFINE no == FALSE
             to == [rl EXCEPT !.current = sock.dest]
             h == remote_list_host(to)
             q == remote_list_port(to)
             s == [sock EXCEPT !.host = h, !.port = q, !.did = no]
             l == [remote |-> NoAddr, actual |-> NoAddr]
  <2>1. no \in BOOLEAN /\ ~no BY Zenon
  <2>2. s = Redirected(sock) BY DEF Redirected
  <2>3. l \in Addresses /\ ~addr_defined(l.remote) /\ ~addr_defined(l.actual) BY DEF Addresses, Address, NoAddr, addr_defined
  <2>4. PICK r \in resolve_remote(Redirected(sock), l, 1) :
                 /\ sock' = r.sock /\ lsa' = r.lsa
                 /\ \/ r.how = "ok" /\ lpc' = "finish" /\ UNCHANGED lsig
                    \/ r.how = "fail" /\ lpc' = "close" /\ lsig' = "USR1"
                    \/ r.how = "fatal" /\ lpc' = "exit" /\ UNCHANGED lsig
    BY <1>5 DEF SocksReply
  <2>5. sock.dest \in Nat /\ sock.dest <= lopt.n /\ (lopt.n > 0 => sock.dest > 0) BY <1>1, <1>2 DEF Aimed, SockRec
  <2>6. /\ h \in Hosts /\ q \in Nat
        /\ lopt.n > 0 => h # NoHost /\ HostAddrs([host |-> h, port |-> q]) \subseteq ListAddrs /\ h \in DOMAIN Ips /\ Ips[h] \subseteq NamedIps
    <3>1. CASE lopt.n = 0 BY <3>1 DEF remote_list_host, remote_list_port, Hosts
    <3>2. CASE lopt.n > 0
      <4>1. sock.dest \in 1 .. lopt.n BY <1>1, <2>5, <3>2
      <4>2. to.current = sock.dest BY <1>1
      <4>3. h = Entries[sock.dest].host /\ q = Entries[sock.dest].port BY <1>1, <3>2, <4>2 DEF remote_list_host, remote_list_port
      <4>4. HostAddrs([host |-> h, port |-> q]) = HostAddrs(Entries[sock.dest]) BY <4>3 DEF HostAddrs
      <4> QED BY <1>1, <4>1, <4>3, <4>4, Entry DEF Hosts
    <3> QED BY <1>1, <3>1, <3>2
  <2> HIDE DEF no, to, h, q, l
  <2>7. s \in SockRec BY <1>1, <2>1, <2>6 DEF SockRec
  <2>8. /\ s.sd = sock.sd /\ s.ctrl = sock.ctrl /\ s.asserted = sock.asserted /\ s.dest = sock.dest
        /\ s.host = h /\ s.port = q /\ s.did = no
    BY <1>1 DEF SockRec
  <2> HIDE DEF s
  <2>9. Outcome(s, l, 1, r) BY <1>1, <2>2, <2>3, <2>4, <2>7, Resolution
  <2>10. /\ sock' \in SockRec /\ sock'.sd = sock.sd /\ sock'.ctrl = sock.ctrl /\ sock'.asserted = sock.asserted
         /\ sock'.dest = sock.dest /\ lsa' \in Addresses /\ lsig' \in {"none", "USR1", "TERM"}
    BY <1>1, <2>4, <2>8, <2>9 DEF Outcome, Same
  <2>11. lpc' \in {"finish", "close", "exit"} /\ fds' = IF lpc' = "exit" THEN {} ELSE fds BY <2>4 DEF SocksReply
  <2>12. lpc' # "finish" => lsa'.remote.ip = 0 /\ lsa'.actual.ip = 0
    BY <2>3, <2>4, <2>9 DEF Outcome, addr_defined
  <2>13. lpc' = "finish" /\ lopt.n > 0 =>
           /\ lsa'.remote \in ListAddrs /\ lsa'.actual = lsa'.remote /\ lsa'.remote.ip # 0 /\ lsa'.remote.ip \in NamedIps
    <3> SUFFICES ASSUME lpc' = "finish", lopt.n > 0
                 PROVE  /\ lsa'.remote \in ListAddrs /\ lsa'.actual = lsa'.remote /\ lsa'.remote.ip # 0
                        /\ lsa'.remote.ip \in NamedIps
      OBVIOUS
    <3>1. r.how = "ok" BY <2>4
    <3>2. lsa'.remote \in HostAddrs(s) /\ lsa'.actual = lsa'.remote
      BY <2>1, <2>3, <2>4, <2>6, <2>8, <2>9, <3>1 DEF Outcome, Prefers
    <3>3. HostAddrs(s) = HostAddrs([host |-> h, port |-> q]) BY <2>8 DEF HostAddrs
    <3>4. lsa'.remote.ip \in Ips[h] /\ lsa'.remote.ip # 0 BY <2>6, <2>8, <3>2, HostAddr
    <3> QED BY <2>6, <3>2, <3>3, <3>4
  <2>14. LinkType' BY <1>1, <1>2, <2>10, <2>11 DEF LinkType, Places
  <2>15. PlaceOK(lpc)' BY <1>2, <2>11 DEF PlaceOK, Dialogue, Settled
  <2>16. Holds(sock, lpc, fds)' BY <1>2, <2>10, <2>11, SameOptions DEF Holds, Owned
  <2>17. Aimed(sock, lpc)' BY <1>2, <2>10, <2>11 DEF Aimed, Dialogue
  <2>18. Known(sock, lsa, lpc)' BY <1>2, <1>5, <2>11, <2>12, <2>13, SameOptions DEF Known, Settled, Dialogue
  <2>19. Fresh(sock, lsa, lpc)' BY <1>2, <1>5, <2>11, <2>13, SameOptions DEF Fresh, Dialogue
  <2> QED BY <1>3, <2>14, <2>15, <2>16, <2>17, <2>18, <2>19
<1> QED BY <1>4, <1>5 DEF SocksReply

-----------------------------------------------------------------------------
(* link_socket_init_phase1 and link_socket_init_phase2.                    *)

\* A socket made for entry c of the list, or for the proxy.
MadeFor(s, c) ==
  /\ s \in SockRec /\ s.asserted /\ s.dest = c /\ ~s.did /\ ~s.changed /\ ~s.stale
  /\ s.list = (lopt.proxy = "none" /\ lopt.n > 0)
  /\ lopt.proxy # "none" => s.host = Proxy.host /\ s.port = Proxy.port
  /\ lopt.proxy = "none" /\ lopt.n > 0 => s.host = Entries[c].host /\ s.port = Entries[c].port
  /\ ~Named => s.host = NoHost

LEMMA ChosenFor ==
  ASSUME lopt \in LinkOptions, NEW l, l.current \in 0 .. lopt.n, lopt.n > 0 => l.current > 0
  PROVE  MadeFor(Chosen(l), l.current) /\ Chosen(l).sd = NoFd /\ Chosen(l).ctrl = NoFd
<1> DEFINE some == lopt.n > 0
<1>1. lopt.n \in Nat /\ l.current \in Nat BY Options
<1>2. CASE lopt.proxy # "none"
  <2> DEFINE a == [SOCKETS EXCEPT !.host = Proxy.host, !.port = Proxy.port, !.dest = l.current]
  <2>1. a \in SockRec BY <1>1, SocketsType, ProxyEntry DEF SockRec, Hosts
  <2>2. /\ a.host = Proxy.host /\ a.port = Proxy.port /\ a.dest = l.current /\ a.sd = SOCKETS.sd /\ a.ctrl = SOCKETS.ctrl
        /\ a.asserted = SOCKETS.asserted /\ a.did = SOCKETS.did /\ a.changed = SOCKETS.changed /\ a.stale = SOCKETS.stale
        /\ a.list = SOCKETS.list
    BY SocketsType DEF SockRec
  <2>3. Chosen(l) = a BY <1>2 DEF Chosen
  <2> HIDE DEF a
  <2>4. a.list \in BOOLEAN BY <2>1 DEF SockRec
  <2>5. a.list = FALSE BY <2>2, <2>4, SocketsType
  <2> QED BY <1>2, <2>1, <2>2, <2>3, <2>5, SocketsType DEF MadeFor, Named
<1>3. CASE lopt.proxy = "none"
  <2> DEFINE h == remote_list_host(l)
             q == remote_list_port(l)
             b == [SOCKETS EXCEPT !.host = h, !.port = q, !.dest = l.current, !.list = some]
  <2>1. /\ h \in Hosts /\ q \in Nat
        /\ lopt.n > 0 => h = Entries[l.current].host /\ q = Entries[l.current].port
        /\ lopt.n = 0 => h = NoHost
    <3>1. CASE lopt.n = 0 BY <3>1 DEF remote_list_host, remote_list_port, Hosts
    <3>2. CASE lopt.n > 0
      <4>1. l.current \in 1 .. lopt.n BY <1>1, <3>2
      <4> QED BY <1>1, <3>2, <4>1, Entry DEF remote_list_host, remote_list_port, Hosts
    <3> QED BY <1>1, <3>1, <3>2
  <2>2. some \in BOOLEAN BY <1>1
  <2> HIDE DEF h, q, some
  <2>3. b \in SockRec BY <1>1, <2>1, <2>2, SocketsType DEF SockRec
  <2>4. /\ b.host = h /\ b.port = q /\ b.dest = l.current /\ b.sd = SOCKETS.sd /\ b.ctrl = SOCKETS.ctrl
        /\ b.asserted = SOCKETS.asserted /\ b.did = SOCKETS.did /\ b.changed = SOCKETS.changed /\ b.stale = SOCKETS.stale
        /\ b.list = some
    BY SocketsType DEF SockRec
  <2>5. Chosen(l) = b BY <1>3 DEF Chosen, h, q, some
  <2> HIDE DEF b
  <2>6. b.list = (lopt.proxy = "none" /\ lopt.n > 0) BY <1>3, <2>4 DEF some
  <2>7. b.asserted /\ ~b.did /\ ~b.changed /\ ~b.stale /\ b.sd = NoFd /\ b.ctrl = NoFd BY <2>4, SocketsType
  <2>8. lopt.n > 0 => b.host = Entries[l.current].host /\ b.port = Entries[l.current].port BY <2>1, <2>4
  <2>9. ~Named => b.host = NoHost BY <1>1, <2>1, <2>4 DEF Named
  <2>10. MadeFor(b, l.current) BY <1>3, <2>3, <2>4, <2>6, <2>7, <2>8, <2>9 DEF MadeFor
  <2> QED BY <2>5, <2>7, <2>10
<1> QED BY <1>2, <1>3

\* The descriptors of a new socket.
LEMMA CreatedFor ==
  ASSUME lopt \in LinkOptions, NEW c, NEW s, MadeFor(s, c), s.sd = NoFd, s.ctrl = NoFd, fds = Lent
  PROVE  /\ MadeFor(Created(s), c)
         /\ Created(s).sd # NoFd
         /\ Created(s).ctrl # NoFd => lopt.proto = "udp" /\ Created(s).ctrl # Created(s).sd
         /\ lopt.proto = "udp" /\ lopt.proxy = "socks" => Created(s).ctrl # NoFd
         /\ lopt.mode = "accept_from" => Created(s).sd = Listener
<1> DEFINE a == FreshFd(fds)
           b == FreshFd(fds \cup {a})
           t == Created(s)
<1>1. Listener \in Nat /\ Listener # NoFd /\ NoFd \in Nat BY DEF Listener, NoFd
<1>2. fds \subseteq Nat /\ IsFiniteSet(fds) BY <1>1, FS_EmptySet, FS_Singleton DEF Lent
<1>3. a \in Nat \ {0} BY <1>2, FreshFdNew
<1>4. fds \cup {a} \subseteq Nat /\ IsFiniteSet(fds \cup {a}) BY <1>2, <1>3, FS_AddElement
<1>5. b \in Nat \ {0} /\ b # a BY <1>4, FreshFdNew
<1>6. lopt.mode = "accept_from" => lopt.proto # "udp" BY Options
<1>7. a # NoFd /\ b # NoFd BY <1>3, <1>5 DEF NoFd
<1>8. \/ lopt.mode = "accept_from" /\ t = [s EXCEPT !.sd = Listener]
      \/ lopt.mode # "accept_from" /\ lopt.proto = "udp" /\ lopt.proxy = "socks" /\ t = [s EXCEPT !.sd = a, !.ctrl = b]
      \/ lopt.mode # "accept_from" /\ ~(lopt.proto = "udp" /\ lopt.proxy = "socks") /\ t = [s EXCEPT !.sd = a]
  BY DEF Created
<1> HIDE DEF a, b, t
<1>9. s \in SockRec BY DEF MadeFor
<1>10. t \in SockRec BY <1>1, <1>3, <1>5, <1>8, <1>9 DEF SockRec
<1>11. /\ t.asserted = s.asserted /\ t.dest = s.dest /\ t.did = s.did /\ t.changed = s.changed /\ t.stale = s.stale
       /\ t.list = s.list /\ t.host = s.host /\ t.port = s.port
  BY <1>8, <1>9 DEF SockRec
<1>12. \/ lopt.mode = "accept_from" /\ t.sd = Listener /\ t.ctrl = s.ctrl
       \/ lopt.mode # "accept_from" /\ lopt.proto = "udp" /\ lopt.proxy = "socks" /\ t.sd = a /\ t.ctrl = b
       \/ lopt.mode # "accept_from" /\ ~(lopt.proto = "udp" /\ lopt.proxy = "socks") /\ t.sd = a /\ t.ctrl = s.ctrl
  BY <1>8, <1>9 DEF SockRec
<1>13. MadeFor(t, c) BY <1>10, <1>11 DEF MadeFor
<1>14. t.sd # NoFd BY <1>1, <1>7, <1>12
<1>15. t.ctrl # NoFd => lopt.proto = "udp" /\ t.ctrl # t.sd BY <1>5, <1>12
<1>16. lopt.proto = "udp" /\ lopt.proxy = "socks" => t.ctrl # NoFd BY <1>6, <1>7, <1>12
<1>17. lopt.mode = "accept_from" => t.sd = Listener BY <1>12
<1> QED BY <1>13, <1>14, <1>15, <1>16, <1>17 DEF t

LEMMA Phase1Step ==
  ASSUME LInv, Phase1
  PROVE  LInv'
<1> USE DEF LInv
<1>1. /\ lopt \in LinkOptions /\ lsa \in Addresses /\ lsig \in {"none", "USR1", "TERM"} /\ lopt.n \in Nat
      /\ rl \in [current : 0 .. lopt.n, no_advance : BOOLEAN]
  BY Options DEF LinkType
<1>2. lpc = "off" /\ UNCHANGED <<lopt, accepted>> /\ rl' = IF lopt.n > 0 THEN remote_list_next(rl) ELSE rl BY DEF Phase1
<1>3. rl' \in [current : 0 .. lopt.n, no_advance : BOOLEAN] /\ (lopt.n > 0 => rl'.current > 0)
  <2>1. CASE lopt.n > 0
    <3>1. rl' \in [current : 0 .. lopt.n, no_advance : BOOLEAN] /\ rl'.current \in 1 .. lopt.n BY <1>1, <1>2, <2>1, ListNext
    <3> QED BY <1>1, <3>1
  <2>2. CASE ~(lopt.n > 0) BY <1>1, <1>2, <2>2
  <2> QED BY <2>1, <2>2
<1>4. rl'.current \in 0 .. lopt.n /\ rl'.current \in Nat /\ rl'.current <= lopt.n BY <1>1, <1>3
<1> DEFINE s == Created(Chosen(rl'))
<1>5. PICK r \in IF lopt.mode = "accept_from" THEN {[sock |-> s, lsa |-> lsa, how |-> "ok"]} ELSE resolve_remote(s, lsa, 1) :
       /\ sock' = r.sock /\ lsa' = r.lsa
       /\ \/ r.how = "fatal" /\ lpc' = "exit" /\ fds' = {} /\ lsig' = lsig
          \/ /\ r.how # "fatal" /\ lpc' = "phase2"
             /\ fds' = fds \cup Owned(r.sock) /\ lsig' = "none"
  BY DEF Phase1, Fatal
<1>6. fds = Lent BY <1>2 DEF Holds
<1>7. MadeFor(Chosen(rl'), rl'.current) /\ Chosen(rl').sd = NoFd /\ Chosen(rl').ctrl = NoFd BY <1>1, <1>3, <1>4, ChosenFor
<1>8. /\ MadeFor(s, rl'.current) /\ s.sd # NoFd
      /\ s.ctrl # NoFd => lopt.proto = "udp" /\ s.ctrl # s.sd
      /\ lopt.proto = "udp" /\ lopt.proxy = "socks" => s.ctrl # NoFd
      /\ lopt.mode = "accept_from" => s.sd = Listener
  BY <1>1, <1>6, <1>7, CreatedFor
<1> HIDE DEF s
<1>9. s \in SockRec /\ ~s.did BY <1>8 DEF MadeFor
<1>10. lopt.mode = "accept_from" => lopt.proto = "server" /\ lopt.n = 0 /\ lopt.proxy = "none" BY <1>1, Options
<1>11. /\ Same(s, sock') /\ sock'.asserted = s.asserted /\ lsa' \in Addresses /\ r.how \in {"ok", "fail", "fatal"}
       /\ sock'.did =>
            /\ lopt.mode # "accept_from" /\ Prefers(lsa.actual, lsa'.remote, lsa'.actual)
            /\ addr_defined(lsa.remote) => lsa'.remote = lsa.remote
            /\ ~addr_defined(lsa.remote) /\ s.host # NoHost => lsa'.remote \in HostAddrs(s)
       /\ ~sock'.did => lsa' = lsa
       /\ lopt.retry = 0 /\ lpc' = "phase2" => sock'.did \/ s.host = NoHost
  <2>1. CASE lopt.mode = "accept_from"
    <3>1. r = [sock |-> s, lsa |-> lsa, how |-> "ok"] BY <1>5, <2>1
    <3>2. sock' = s /\ lsa' = lsa /\ r.how = "ok" BY <1>5, <3>1
    <3>3. s.host = NoHost BY <1>8, <1>10, <2>1 DEF MadeFor, Named
    <3> QED BY <1>1, <1>9, <3>2, <3>3 DEF Same
  <2>2. CASE lopt.mode # "accept_from"
    <3>1. Outcome(s, lsa, 1, r) BY <1>1, <1>5, <1>9, <2>2, Resolution
    <3> QED BY <1>5, <1>9, <2>2, <3>1 DEF Outcome
  <2> QED BY <2>1, <2>2
<1>12. /\ sock' \in SockRec /\ sock'.sd = s.sd /\ sock'.ctrl = s.ctrl /\ sock'.host = s.host /\ sock'.port = s.port
       /\ sock'.dest = s.dest /\ sock'.list = s.list /\ sock'.changed = s.changed /\ sock'.stale = s.stale
       /\ sock'.asserted = s.asserted
  BY <1>11 DEF Same
<1>13. /\ lpc' \in {"phase2", "exit"} /\ lsig' \in {"none", "USR1", "TERM"}
       /\ lpc' = "phase2" => fds' = Lent \cup Owned(sock')
  BY <1>1, <1>5, <1>6
<1>14. Aim' = (IF lopt.proxy # "none" THEN Proxy ELSE Entries[rl'.current]) BY <1>2 DEF Aim
<1>15. Named => s.host = Aim'.host /\ s.port = Aim'.port BY <1>1, <1>8, <1>14 DEF MadeFor, Named
<1>16. Named => Aim'.host \in DOMAIN Ips /\ Aim'.host # NoHost /\ Aim'.port \in Nat /\ Ips[Aim'.host] \subseteq NamedIps
  <2>1. CASE lopt.proxy # "none" BY <1>14, <2>1, ProxyEntry
  <2>2. CASE lopt.proxy = "none" /\ lopt.n > 0
    <3>1. rl'.current \in 1 .. lopt.n BY <1>1, <1>3, <1>4, <2>2
    <3> QED BY <1>1, <1>14, <2>2, <3>1, Entry
  <2> QED BY <2>1, <2>2 DEF Named
<1>17. HostAddrs(s) = HostAddrs(Aim') \/ ~Named BY <1>15 DEF HostAddrs
<1>18. LinkType' BY <1>1, <1>2, <1>3, <1>11, <1>12, <1>13 DEF LinkType, Places
<1>19. PlaceOK(lpc)' BY <1>2, <1>13 DEF PlaceOK, Dialogue, Settled
<1>20. Holds(sock, lpc, fds)' BY <1>2, <1>8, <1>10, <1>12, <1>13, SameOptions DEF Holds, Owned
<1>21. Aimed(sock, lpc)'
  <2>1. Named' = Named BY <1>2, SameOptions
  <2> QED BY <1>2, <1>3, <1>4, <1>8, <1>11, <1>12, <1>13, <1>15, <2>1 DEF Aimed, Dialogue, MadeFor
<1>22. Known(sock, lsa, lpc)'
  <2> SUFFICES ASSUME lopt.n > 0
               PROVE  /\ lpc' = "phase2" /\ sock'.did => lsa'.actual.ip # 0
                      /\ ~lopt.float =>
                           /\ lsa'.remote.ip \in NamedIps \cup {0}
                           /\ lpc' = "phase2" /\ sock'.did => lsa'.remote.ip # 0
                           /\ lopt.proto # "server" => lsa'.actual.ip \in NamedIps \cup {0}
    BY <1>2, <1>13, SameOptions DEF Known, Settled, Dialogue
  <2>1. Named BY DEF Named
  <2>2. ~lopt.float => /\ lsa.remote.ip \in NamedIps \cup {0}
                       /\ lopt.proto # "server" => lsa.actual.ip \in NamedIps \cup {0}
    BY DEF Known
  <2>3. CASE ~sock'.did BY <1>11, <2>2, <2>3
  <2>4. CASE sock'.did
    <3>1. lsa'.remote.ip # 0 /\ (~lopt.float => lsa'.remote.ip \in NamedIps)
      <4>1. CASE addr_defined(lsa.remote) BY <1>11, <2>2, <2>4, <4>1 DEF addr_defined
      <4>2. CASE ~addr_defined(lsa.remote)
        <5>1. lsa'.remote \in HostAddrs(Aim') BY <1>11, <1>15, <1>16, <1>17, <2>1, <2>4, <4>2
        <5> QED BY <1>16, <2>1, <5>1, HostAddr
      <4> QED BY <4>1, <4>2
    <3>2. (lsa'.actual = lsa.actual /\ lsa.actual.ip # 0) \/ lsa'.actual = lsa'.remote
      BY <1>11, <2>4 DEF Prefers, addr_defined
    <3> QED BY <2>2, <3>1, <3>2
  <2> QED BY <2>3, <2>4
<1>23. Fresh(sock, lsa, lpc)'
  <2> SUFFICES ASSUME ~lopt.persist, lpc' = "phase2"
               PROVE  /\ ~sock'.did => ~addr_defined(lsa'.remote) /\ ~addr_defined(lsa'.actual)
                      /\ sock'.did /\ sock'.host # NoHost => lsa'.remote \in HostAddrs(Aim') /\ lsa'.actual = lsa'.remote
    BY <1>2, <1>13 DEF Fresh, Dialogue, addr_defined, HostAddrs
  <2>1. ~addr_defined(lsa.remote) /\ ~addr_defined(lsa.actual) BY <1>2 DEF Fresh
  <2>2. s.host # NoHost => Named BY <1>8 DEF MadeFor
  <2> QED BY <1>11, <1>12, <1>17, <2>1, <2>2 DEF Prefers
<1>24. NoStranger' BY <1>2 DEF NoStranger, ListAddrs, HostAddrs
<1> QED BY <1>18, <1>19, <1>20, <1>21, <1>22, <1>23, <1>24

LEMMA Phase2Step ==
  ASSUME LInv, Phase2
  PROVE  LInv'
<1> USE DEF LInv
<1> DEFINE y == IF lopt.retry # 0 THEN sock.host ELSE NoHost
           s == [sock EXCEPT !.dyn = y]
<1>1. /\ lopt \in LinkOptions /\ sock \in SockRec /\ lsa \in Addresses /\ lsig \in {"none", "USR1", "TERM"} /\ lopt.n \in Nat
      /\ rl \in [current : 0 .. lopt.n, no_advance : BOOLEAN] /\ rl.current \in 0 .. lopt.n
  BY Options DEF LinkType
<1>2. lpc = "phase2" /\ UNCHANGED <<lopt, rl, accepted>> BY DEF Phase2
<1>3. PICK r \in resolve_remote(s, lsa, 2) :
       /\ sock' = [r.sock EXCEPT !.verify = r.lsa.actual] /\ lsa' = r.lsa
       /\ \/ r.how = "fatal" /\ lpc' = "exit" /\ fds' = {} /\ lsig' = lsig
          \/ r.how = "fail" /\ lsig' = "USR1" /\ lpc' = "close" /\ UNCHANGED fds
          \/ r.how = "ok" /\ lpc' = AfterResolve /\ UNCHANGED <<lsig, fds>>
  BY DEF Phase2, Fatal
<1>4. y \in Hosts BY <1>1 DEF SockRec, Hosts
<1> HIDE DEF y
<1>5. s \in SockRec BY <1>1, <1>4 DEF SockRec
<1>6. /\ s.dyn = y /\ s.did = sock.did /\ s.host = sock.host /\ s.port = sock.port /\ s.sd = sock.sd /\ s.ctrl = sock.ctrl
      /\ s.dest = sock.dest /\ s.list = sock.list /\ s.changed = sock.changed /\ s.stale = sock.stale /\ s.asserted = sock.asserted
  BY <1>1 DEF SockRec
<1> HIDE DEF s
<1>7. Outcome(s, lsa, 2, r) BY <1>1, <1>3, <1>5, Resolution
<1>8. r.sock \in SockRec /\ r.lsa \in Addresses /\ lsa' \in Addresses /\ r.lsa.actual \in Address
  BY <1>3, <1>7 DEF Outcome, Same, Addresses
<1>9. sock' \in SockRec BY <1>3, <1>8 DEF SockRec
<1>10. /\ sock'.verify = lsa'.actual /\ sock'.sd = r.sock.sd /\ sock'.ctrl = r.sock.ctrl /\ sock'.dest = r.sock.dest
       /\ sock'.list = r.sock.list /\ sock'.changed = r.sock.changed /\ sock'.stale = r.sock.stale
       /\ sock'.dyn = r.sock.dyn /\ sock'.asserted = r.sock.asserted /\ sock'.did = r.sock.did
  BY <1>3, <1>8 DEF SockRec
<1>11. /\ sock'.sd = sock.sd /\ sock'.ctrl = sock.ctrl /\ sock'.dest = sock.dest /\ sock'.list = sock.list
       /\ ~sock'.changed /\ ~sock'.stale
  BY <1>2, <1>6, <1>7, <1>10 DEF Outcome, Same, Aimed
<1>12. sock'.asserted BY <1>2, <1>6, <1>7, <1>10 DEF Outcome, Aimed
<1>13. AfterResolve \in {"default", "listen", "accept_from", "connect", "finish"}
       /\ (AfterResolve = "connect" => lopt.proto = "client" \/ (lopt.proto = "udp" /\ lopt.proxy = "socks"))
       /\ (AfterResolve \in {"default", "listen", "accept_from"} => lopt.proto = "server" /\ lopt.mode = AfterResolve)
       /\ (AfterResolve = "finish" => lopt.proto = "udp" /\ lopt.proxy = "none" /\ lopt.mode = "default")
       /\ (lopt.mode = "accept_from" => AfterResolve = "accept_from")
  <2>1. CASE lopt.proto = "server"
    <3>0. ~(lopt.proto = "client" \/ lopt.proxy = "socks") BY <1>1, <2>1, Options
    <3>1. AfterResolve = lopt.mode BY <2>1, <3>0 DEF AfterResolve
    <3> QED BY <1>1, <2>1, <3>1, Options
  <2>2. CASE lopt.proto # "server" /\ (lopt.proto = "client" \/ lopt.proxy = "socks")
    <3>1. AfterResolve = "connect" BY <2>2 DEF AfterResolve
    <3> QED BY <1>1, <2>2, <3>1, Options
  <2>3. CASE lopt.proto # "server" /\ lopt.proto # "client" /\ lopt.proxy # "socks"
    <3>1. AfterResolve = "finish" BY <2>3 DEF AfterResolve
    <3> QED BY <1>1, <2>3, <3>1, Options
  <2> QED BY <2>1, <2>2, <2>3
<1>14. r.how \in {"ok", "fail", "fatal"} BY <1>7 DEF Outcome
<1>15. sock.host # NoHost => Named BY <1>2 DEF Aimed
<1>16. Named => /\ sock.host = Aim.host /\ sock.port = Aim.port /\ Aim.host \in DOMAIN Ips /\ Aim.host # NoHost /\ Aim.port \in Nat
                /\ Ips[Aim.host] \subseteq NamedIps /\ HostAddrs(s) = HostAddrs(Aim)
                /\ (lopt.proxy = "none" => rl.current \in 1 .. lopt.n)
  <2> SUFFICES ASSUME Named
               PROVE  /\ sock.host = Aim.host /\ sock.port = Aim.port /\ Aim.host \in DOMAIN Ips /\ Aim.host # NoHost /\ Aim.port \in Nat
                      /\ Ips[Aim.host] \subseteq NamedIps /\ HostAddrs(s) = HostAddrs(Aim)
                      /\ (lopt.proxy = "none" => rl.current \in 1 .. lopt.n)
    OBVIOUS
  <2>1. sock.host = Aim.host /\ sock.port = Aim.port BY <1>2 DEF Aimed
  <2>2. lopt.proxy = "none" => rl.current > 0 BY <1>2 DEF Aimed, Named
  <2>3. HostAddrs(s) = HostAddrs(Aim) BY <1>6, <2>1 DEF HostAddrs
  <2> QED BY <1>1, <2>1, <2>2, <2>3, AimEntry
<1>17. NoStranger' BY <1>2 DEF NoStranger, ListAddrs, HostAddrs
<1>18. CASE r.how # "ok"
  <2>1. lsa' = lsa /\ lpc' \in {"close", "exit"} /\ (lpc' = "close" => fds' = fds) /\ lsig' \in {"none", "USR1", "TERM"}
    BY <1>1, <1>3, <1>7, <1>18 DEF Outcome
  <2>2. LinkType' BY <1>1, <1>2, <1>8, <1>9, <2>1 DEF LinkType, Places
  <2>3. PlaceOK(lpc)' BY <1>2, <2>1 DEF PlaceOK, Dialogue, Settled
  <2>4. Holds(sock, lpc, fds)'
    <3>1. lpc' = "close" => lopt.mode # "accept_from"
      <4> SUFFICES ASSUME lopt.mode = "accept_from", r.how = "fail" PROVE FALSE BY <1>3, <1>18
      <4>1. lopt.n = 0 /\ lopt.proxy = "none" BY <1>1, Options
      <4>2. s.host = NoHost BY <1>2, <1>6, <4>1 DEF Aimed, Named
      <4> QED BY <1>7, <4>2 DEF Outcome
    <3> QED BY <1>2, <1>11, <2>1, <3>1, SameOptions DEF Holds, Owned
  <2>5. Aimed(sock, lpc)' BY <1>2, <1>11, <1>12, <2>1 DEF Aimed, Dialogue
  <2>6. Known(sock, lsa, lpc)' BY <1>2, <2>1, SameOptions DEF Known, Settled, Dialogue
  <2>7. Fresh(sock, lsa, lpc)' BY <1>2, <2>1 DEF Fresh, Dialogue
  <2> QED BY <1>17, <2>2, <2>3, <2>4, <2>5, <2>6, <2>7
<1>19. CASE r.how = "ok"
  <2>1. lpc' = AfterResolve /\ lsig' = lsig /\ fds' = fds BY <1>3, <1>19
  <2>2. sock'.dyn \in {y, NoHost} /\ sock'.dyn \in {sock.host, NoHost} BY <1>6, <1>7, <1>10, <1>19 DEF Outcome, y
  <2>3. /\ sock.did => lsa' = lsa
        /\ ~sock.did =>
            /\ Prefers(lsa.actual, lsa'.remote, lsa'.actual)
            /\ addr_defined(lsa.remote) => lsa'.remote = lsa.remote
            /\ ~addr_defined(lsa.remote) /\ sock.host # NoHost => lsa'.remote \in HostAddrs(s)
    BY <1>3, <1>6, <1>7, <1>19 DEF Outcome
  <2>4. ASSUME lopt.n > 0
        PROVE  /\ lsa'.actual.ip # 0
               /\ ~lopt.float =>
                    /\ lsa'.remote.ip \in NamedIps \cup {0} /\ lsa'.remote.ip # 0
                    /\ lopt.proto # "server" => lsa'.actual.ip \in NamedIps \cup {0}
    <3>1. Named BY <2>4 DEF Named
    <3>2. ~lopt.float => /\ lsa.remote.ip \in NamedIps \cup {0}
                         /\ lopt.proto # "server" => lsa.actual.ip \in NamedIps \cup {0}
      BY <2>4 DEF Known
    <3>3. CASE sock.did BY <1>2, <2>3, <2>4, <3>3 DEF Known
    <3>4. CASE ~sock.did
      <4>1. lsa'.remote.ip # 0 /\ (~lopt.float => lsa'.remote.ip \in NamedIps)
        <5>1. CASE addr_defined(lsa.remote) BY <2>3, <3>2, <3>4, <5>1 DEF addr_defined
        <5>2. CASE ~addr_defined(lsa.remote)
          <6>1. lsa'.remote \in HostAddrs(Aim) BY <1>16, <2>3, <3>1, <3>4, <5>2
          <6> QED BY <1>16, <3>1, <6>1, HostAddr
        <5> QED BY <5>1, <5>2
      <4>2. (lsa'.actual = lsa.actual /\ lsa.actual.ip # 0) \/ lsa'.actual = lsa'.remote BY <2>3, <3>4 DEF Prefers, addr_defined
      <4> QED BY <3>2, <4>1, <4>2
    <3> QED BY <3>3, <3>4
  <2>5. ASSUME ~lopt.persist, Named PROVE lsa'.remote \in HostAddrs(Aim) /\ lsa'.actual = lsa'.remote
    <3>1. CASE sock.did BY <1>2, <1>16, <2>3, <2>5, <3>1 DEF Fresh
    <3>2. CASE ~sock.did
      <4>1. ~addr_defined(lsa.remote) /\ ~addr_defined(lsa.actual) BY <1>2, <2>5, <3>2 DEF Fresh
      <4> QED BY <1>16, <2>3, <2>5, <3>2, <4>1 DEF Prefers
    <3> QED BY <3>1, <3>2
  <2>6. LinkType' BY <1>1, <1>2, <1>8, <1>9, <1>13, <2>1 DEF LinkType, Places
  <2>7. PlaceOK(lpc)' BY <1>2, <1>13, <2>1 DEF PlaceOK, Dialogue, Settled
  <2>8. Holds(sock, lpc, fds)' BY <1>2, <1>11, <1>13, <2>1, SameOptions DEF Holds, Owned
  <2>9. Aimed(sock, lpc)'
    <3>1. sock'.dyn = NoHost \/ (Named /\ sock'.dyn = Aim.host) BY <1>15, <1>16, <2>2
    <3>2. Named' = Named /\ Aim' = Aim BY <1>2, SameOptions
    <3> QED BY <1>2, <1>11, <1>12, <1>13, <1>10, <2>1, <2>4, <3>1, <3>2 DEF Aimed, Dialogue
  <2>10. Known(sock, lsa, lpc)' BY <1>2, <1>11, <1>13, <2>1, <2>4, SameOptions DEF Known, Settled, Dialogue
  <2>11. Fresh(sock, lsa, lpc)'
    <3> SUFFICES ASSUME ~lopt.persist
                 PROVE  /\ lpc' = "connect" => /\ lsa'.actual.port = Aim.port /\ lsa'.actual.ip \in Ips[Aim.host]
                                               /\ lsa'.actual.ip = lsa'.remote.ip
                        /\ lpc' = "finish" /\ lopt.n > 0 => lsa'.remote \in ListAddrs /\ lsa'.actual = lsa'.remote
      BY <1>2, <1>11, <1>13, <2>1, SameOptions DEF Fresh, Dialogue
    <3>1. ASSUME lpc' = "connect" PROVE /\ lsa'.actual.port = Aim.port /\ lsa'.actual.ip \in Ips[Aim.host]
                                        /\ lsa'.actual.ip = lsa'.remote.ip
      <4>1. Named BY <1>1, <1>13, <2>1, <3>1, Options DEF Named
      <4> QED BY <1>16, <2>5, <4>1, HostAddr
    <3>2. ASSUME lpc' = "finish", lopt.n > 0 PROVE lsa'.remote \in ListAddrs /\ lsa'.actual = lsa'.remote
      <4>1. Named /\ lopt.proxy = "none" BY <1>13, <2>1, <3>2 DEF Named
      <4>2. Aim = Entries[rl.current] /\ rl.current \in 1 .. lopt.n BY <1>16, <4>1 DEF Aim
      <4>3. HostAddrs(Aim) \subseteq ListAddrs BY <1>1, <4>2, Entry
      <4> QED BY <2>5, <4>1, <4>3
    <3> QED BY <3>1, <3>2
  <2> QED BY <1>17, <2>6, <2>7, <2>8, <2>9, <2>10, <2>11
<1> QED BY <1>18, <1>19

-----------------------------------------------------------------------------
LEMMA LinkInitInv == LinkInit => LInv
<1> SUFFICES ASSUME LinkInit PROVE LInv OBVIOUS
<1> DEFINE no == FALSE
<1>0. no \in BOOLEAN BY Zenon
<1>1. lopt \in LinkOptions /\ sock = SOCKETS /\ lsig = "none" /\ lpc = "off" /\ accepted = {} /\ fds = Lent
      /\ rl = [current |-> 0, no_advance |-> no] /\ lsa = [remote |-> NoAddr, actual |-> NoAddr]
  BY DEF LinkInit, Lent
<1> HIDE DEF no
<1>2. lopt.n \in Nat BY <1>1, Options
<1>3. rl \in [current : 0 .. lopt.n, no_advance : BOOLEAN] BY <1>0, <1>1, <1>2
<1>4. NoAddr \in Address /\ NoAddr.ip = 0 BY DEF NoAddr, Address
<1>5. lsa \in Addresses /\ lsa.remote.ip = 0 /\ lsa.actual.ip = 0 BY <1>1, <1>4 DEF Addresses
<1>6. LinkType BY <1>1, <1>3, <1>5, SocketsType DEF LinkType, Places
<1>7. PlaceOK(lpc) BY <1>1 DEF PlaceOK, Dialogue, Settled
<1>8. Holds(sock, lpc, fds) BY <1>1 DEF Holds
<1>9. Aimed(sock, lpc) BY <1>1, <1>2, SocketsType DEF Aimed, Dialogue
<1>10. Known(sock, lsa, lpc) BY <1>1, <1>5 DEF Known, Settled, Dialogue
<1>11. Fresh(sock, lsa, lpc) BY <1>1, <1>5 DEF Fresh, Dialogue, addr_defined
<1>12. NoStranger BY <1>1 DEF NoStranger
<1> QED BY <1>6, <1>7, <1>8, <1>9, <1>10, <1>11, <1>12 DEF LInv

\* The steps of a dialogue, and signals.
LEMMA DialogueStep ==
  ASSUME LInv,
         \/ Listen \/ Connected \/ HttpDrained \/ SocksHandshake \/ Phase2Signal
         \/ \E st \in {200, 407} : HttpStatus(st)
         \/ \E g \in Signals \cup {"none"} : ProxyError(g)
         \/ \E g \in Signals : AcceptSignal(g) \/ ConnectSignal(g) \/ UpSignal(g)
  PROVE  LInv'
<1>1. LinkType /\ PlaceOK(lpc) /\ Aimed(sock, lpc) BY DEF LInv
<1>2. lopt \in LinkOptions /\ lsig \in {"none", "USR1", "TERM"} BY <1>1 DEF LinkType
<1>3. UNCHANGED <<lopt, rl, lsa, sock, fds, accepted>>
  BY DEF Listen, Connected, HttpDrained, SocksHandshake, Phase2Signal, HttpStatus, ProxyError, AcceptSignal, ConnectSignal, UpSignal
<1>4. lsig' \in {"none", "USR1", "TERM"}
  BY <1>2 DEF Listen, Connected, HttpDrained, SocksHandshake, Phase2Signal, HttpStatus, ProxyError, AcceptSignal, ConnectSignal, UpSignal, Signals
<1>5. /\ lopt.proxy \in {"none", "http", "socks"} /\ lopt.proto \in {"udp", "client", "server"}
      /\ lopt.proxy = "http" => lopt.proto = "client"
      /\ lopt.mode # "default" => lopt.proto = "server" /\ lopt.n = 0
      /\ lopt.proxy = "socks" => lopt.proto # "server"
  BY <1>2, Options
<1>6. CASE Listen BY <1>1, <1>3, <1>4, <1>6, Move DEF Listen, Onward, PlaceOK, Dialogue, Settled
<1>7. CASE Connected
  <2>1. lpc = "connect" /\ lpc' = IF lopt.proxy = "none" THEN "finish" ELSE lopt.proxy BY <1>7 DEF Connected
  <2>2. lopt.proto = "client" \/ (lopt.proto = "udp" /\ lopt.proxy = "socks") BY <1>1, <2>1 DEF PlaceOK, Dialogue
  <2>3. Onward(lpc, lpc') BY <1>5, <2>1, <2>2 DEF Onward, Dialogue
  <2>4. PlaceOK(lpc') BY <1>5, <2>1, <2>2 DEF PlaceOK, Dialogue, Settled
  <2> QED BY <1>3, <1>4, <2>3, <2>4, Move
<1>8. CASE HttpDrained
  <2>1. lpc = "drain" /\ lpc' = "finish" BY <1>8 DEF HttpDrained
  <2>2. Onward(lpc, lpc') BY <1>1, <1>5, <2>1 DEF Onward, Dialogue, PlaceOK
  <2>3. PlaceOK(lpc') BY <2>1 DEF PlaceOK, Dialogue, Settled
  <2> QED BY <1>3, <1>4, <2>2, <2>3, Move
<1>9. CASE SocksHandshake
  <2>1. lpc = "socks" /\ lpc' = "request" BY <1>9 DEF SocksHandshake
  <2>2. Onward(lpc, lpc') BY <2>1 DEF Onward, Dialogue
  <2>3. PlaceOK(lpc') BY <1>1, <2>1 DEF PlaceOK, Dialogue, Settled
  <2> QED BY <1>3, <1>4, <2>2, <2>3, Move
<1>10. CASE \E st \in {200, 407} : HttpStatus(st)
  <2>1. lpc \in {"http", "ntlm"} /\ lpc' \in {"drain", "ntlm"} BY <1>10 DEF HttpStatus
  <2>2. Onward(lpc, lpc') BY <2>1 DEF Onward, Dialogue
  <2>3. PlaceOK(lpc') BY <1>1, <2>1 DEF PlaceOK, Dialogue, Settled
  <2> QED BY <1>3, <1>4, <2>2, <2>3, Move
<1>11. CASE Phase2Signal \/ (\E g \in Signals \cup {"none"} : ProxyError(g))
            \/ (\E g \in Signals : AcceptSignal(g) \/ ConnectSignal(g) \/ UpSignal(g))
  <2>1. /\ lpc' = "close" /\ lpc \in {"phase2", "http", "ntlm", "drain", "socks", "request", "default", "connect", "up"}
        /\ lpc = "phase2" => sock.host # NoHost
    BY <1>11 DEF Phase2Signal, ProxyError, AcceptSignal, ConnectSignal, UpSignal
  <2>2. lpc = "phase2" => lopt.mode # "accept_from"
    BY <1>1, <1>2, <1>5, <2>1, Options DEF Aimed, Named
  <2>3. Onward(lpc, lpc') BY <2>1, <2>2 DEF Onward
  <2>4. PlaceOK(lpc') BY <2>1 DEF PlaceOK, Dialogue, Settled
  <2> QED BY <1>3, <1>4, <2>3, <2>4, Move
<1> QED BY <1>6, <1>7, <1>8, <1>9, <1>10, <1>11

LEMMA LinkNextInv == LInv /\ [LinkNext]_linkVars => LInv'
<1> SUFFICES ASSUME LInv, [LinkNext]_linkVars PROVE LInv' OBVIOUS
<1>1. CASE UNCHANGED linkVars
  <2>1. UNCHANGED <<lopt, rl, lsa, sock, fds, lsig, lpc, accepted>> BY <1>1 DEF linkVars
  <2>2. LinkType' BY <2>1 DEF LInv, LinkType
  <2>3. PlaceOK(lpc)' BY <2>1 DEF LInv, PlaceOK
  <2>4. Holds(sock, lpc, fds)' BY <2>1, SameOptions DEF LInv, Holds
  <2>5. Aimed(sock, lpc)' BY <2>1, SameOptions DEF LInv, Aimed
  <2>6. Known(sock, lsa, lpc)' BY <2>1, SameOptions DEF LInv, Known
  <2>7. Fresh(sock, lsa, lpc)' BY <2>1, SameOptions DEF LInv, Fresh
  <2>8. NoStranger' BY <2>1, SameOptions DEF LInv, NoStranger
  <2> QED BY <2>2, <2>3, <2>4, <2>5, <2>6, <2>7, <2>8 DEF LInv
<1>2. CASE Phase1 BY <1>2, Phase1Step
<1>3. CASE Phase2 BY <1>3, Phase2Step
<1>4. CASE ConnectFailed BY <1>4, ConnectFailedStep
<1>5. CASE \E a \in Callers : AcceptFrom(a) BY <1>5, AcceptFromStep
<1>6. CASE \E k \in {"ipv4", "ipv6", "name"} : SocksReply(k) BY <1>6, SocksReplyStep
<1>7. CASE Finish BY <1>7, FinishStep
<1>8. CASE Close BY <1>8, CloseStep
<1>9. CASE \E a \in Callers : Accept(a) BY <1>9, AcceptStep
<1>10. CASE \E a \in Callers : Receive(a) BY <1>10, ReceiveStep
<1>11. CASE Initialized BY <1>11, InitializedStep
<1>12. CASE \/ Listen \/ Connected \/ HttpDrained \/ SocksHandshake \/ Phase2Signal
            \/ \E st \in {200, 407} : HttpStatus(st)
            \/ \E g \in Signals \cup {"none"} : ProxyError(g)
            \/ \E g \in Signals : AcceptSignal(g) \/ ConnectSignal(g) \/ UpSignal(g)
  BY <1>12, DialogueStep
<1> QED BY <1>1, <1>2, <1>3, <1>4, <1>5, <1>6, <1>7, <1>8, <1>9, <1>10, <1>11, <1>12 DEF LinkNext, Establish, Environment

\* The invariant implies what is asked of a link.
LEMMA LinkImplied == LInv => LinkInv
<1> SUFFICES ASSUME LInv PROVE LinkInv OBVIOUS
<1> USE DEF LInv
<1>1. lopt \in LinkOptions /\ lsa \in Addresses /\ rl.current \in 0 .. lopt.n /\ lopt.n \in Nat BY Options DEF LinkType
<1>2. Descriptors BY DEF Descriptors, Holds, Aimed, Lent
<1>3. ASSUME ~sock.stale, ~lopt.persist PROVE RightPeer
  <2> SUFFICES ASSUME lpc \in {"connect", "finish", "up"}, lopt.proto # "server", lopt.n > 0, ~lopt.float
               PROVE  lsa.actual \in Peers
    BY DEF RightPeer
  <2>1. lopt.proto \in {"udp", "client"} BY <1>1, Options
  <2>2. rl.current \in 1 .. lopt.n BY <1>1 DEF Aimed
  <2>3. Aim.host \in DOMAIN Ips /\ Aim.port \in Nat BY <1>1, <2>2, AimEntry
  <2>4. lopt.proxy = "none" => HostAddrs(Aim) \subseteq ListAddrs BY <1>1, <2>2, Entry DEF Aim
  <2>5. lopt.proxy # "none" => HostAddrs(Aim) = HostAddrs(Proxy) BY DEF Aim
  <2>6. CASE lopt.proto = "client" \/ lpc = "connect"
    <3>1. lsa.actual \in HostAddrs(Aim)
      <4>1. CASE lpc = "up" BY <1>3, <2>6, <4>1 DEF Fresh
      <4>2. CASE lpc # "up"
        <5>1. lsa.actual.port = Aim.port /\ lsa.actual.ip \in Ips[Aim.host] BY <1>3, <2>6, <4>2 DEF Fresh, Dialogue
        <5>2. lsa.actual \in Address BY <1>1 DEF Addresses
        <5> QED BY <2>3, <5>1, <5>2, HostAddr
      <4> QED BY <4>1, <4>2
    <3> QED BY <2>4, <2>5, <2>6, <3>1 DEF Peers
  <2>7. CASE lopt.proto = "udp" /\ lpc # "connect"
    <3>1. lsa.actual \in ListAddrs BY <1>3, <2>7 DEF Fresh
    <3> QED BY <2>7, <3>1 DEF Peers
  <2> QED BY <2>1, <2>6, <2>7
<1>4. ASSUME ~lopt.persist, lpc = "up", lopt.proto = "client" PROVE link_socket_verify_incoming_addr(lsa.actual)
  <2>1. lopt.n > 0 BY <1>1, <1>4, Options
  <2>2. addr_defined(lsa.actual) BY <1>4, <2>1 DEF Known, Settled, addr_defined
  <2>3. lsa.actual.ip = lsa.remote.ip BY <1>4 DEF Fresh
  <2> QED BY <1>4, <2>2, <2>3 DEF link_socket_verify_incoming_addr, addr_match_proto
<1> QED BY <1>2, <1>3, <1>4 DEF LinkInv, RightPeerFresh, PeerHeardFresh, PeerHeard

\* For any list of servers, any addresses behind their names, a proxy and every set of
\* options that options_postprocess lets through: socket_connect, socket_listen_accept,
\* the dialogues with proxies and any number of restarts lose no descriptor, lead to a
\* peer that the options name, and let in nobody else.
THEOREM LinkCorrect == LinkSpec => []LinkInv
<1> QED BY LinkInitInv, LinkNextInv, LinkImplied, PTL DEF LinkSpec
=============================================================================
