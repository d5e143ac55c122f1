---------------------------- MODULE TunnelProofs ----------------------------
(***************************************************************************)
(* The tunnel with one peer: who the peer is (TlsVerify), for every set of *)
(* options, of names in certificates and of user names and any number of   *)
(* handshakes; and the event loop that serves it (Tunnel), for every set   *)
(* of options, packets and signals and any times.                          *)
(***************************************************************************)
EXTENDS TlsVerify, Tunnel, TLAPS

-----------------------------------------------------------------------------
(* The inductive invariant, in parts that speak of a table of sessions t,  *)
(* so that they can be stated of the tables inside one tls_multi_process.  *)

VKeys == [st : VS_ERROR .. VS_ACTIVE, authenticated : BOOLEAN, cert : CertNames \cup {Nobody},
          depth : -1 .. 1, user : UserNames \cup {Nobody}]
VLameKeys == {k \in VKeys : k.st # VS_ERROR}
VSessions == [common_name : VName, verified : BOOLEAN, prim : VKeys, lame : VLameKeys]

Carries(k) == DECRYPT_KEY_ENABLED(k) /\ k.authenticated

\* No source of names is configured.
Unnamed == ~vopt.cert /\ ~(UserPass /\ vopt.as_cn)

\* What a key knows of its own handshake.
KeyOK(k) ==
    /\ k.authenticated => /\ k.depth < 0 /\ (UserPass => k.user # Nobody) /\ (vopt.cert => k.cert # Nobody)
                          /\ k.st \notin VS_UNDEF .. VS_START
    /\ k.st = VS_START /\ vopt.cert => k.cert # Nobody
    /\ k.depth >= 0 => vopt.cert

\* With the chain checked, and before key_method_2_read, the name of the session is the one
\* in the certificate of this handshake.
SessionOK(s) ==
    /\ s \in VSessions
    /\ KeyOK(s.prim) /\ KeyOK(s.lame)
    /\ s.prim.st = VS_START /\ s.prim.depth < 0 /\ vopt.cert => s.common_name = s.prim.cert
    /\ Unnamed => s.common_name \in {Nobody, BlankName}

TableOK(t) ==
    /\ t \in [VerifySession -> VSessions]
    /\ \A i \in VerifySession : SessionOK(t[i])
    /\ t["TM_UNTRUSTED"].lame.st = VS_UNDEF
    /\ t["TM_UNTRUSTED"].prim.st # VS_ACTIVE
    /\ t["TM_LAME_DUCK"].prim.st <= VS_UNDEF

\* A session whose key carries data goes by the name that the key proved.
NamesOK(t, lock) ==
    \A i \in VerifySession : Carries(t[i].prim) =>
        /\ t[i].common_name = ProvedName(t[i].prim)
        /\ lock # Nobody => t[i].common_name = lock

\* An old key carries data for the locked name only.
LameOK(t, lock) ==
    \A i \in VerifySession : Carries(t[i].lame) => lock # Nobody /\ ProvedName(t[i].lame) = lock

\* A key of another name goes with keys that carry nothing.
CutOK(t, lock) ==
    lock # Nobody =>
        \A i \in {"TM_ACTIVE", "TM_UNTRUSTED"} :
            /\ DECRYPT_KEY_ENABLED(t[i].prim)
            /\ UserPass => t[i].prim.user # Nobody
            /\ ProvedName(t[i].prim) # lock
            => ~Carries(t[i].prim) /\ ~Carries(t[i].lame) /\ ~Carries(t["TM_LAME_DUCK"].lame)

IdentityOK(t, lock, e) == NamesOK(t, lock) /\ (~e => LameOK(t, lock) /\ CutOK(t, lock))

IInv ==
    /\ vopt \in VerifyOptions /\ linked \in BOOLEAN /\ established \in BOOLEAN /\ vpost \in BOOLEAN
    /\ early \in BOOLEAN /\ locked_cn \in VName
    /\ Unnamed => locked_cn \in {Nobody, BlankName}
    /\ TableOK(vsess) /\ IdentityOK(vsess, locked_cn, early)
    /\ ~DECRYPT_KEY_ENABLED(vsess["TM_UNTRUSTED"].prim)
    /\ vsess["TM_ACTIVE"].prim.st = VS_ACTIVE => linked
    /\ ~vpost /\ linked /\ ~established => ~tls_authenticated
    /\ ~early /\ established => locked_cn # Nobody

-----------------------------------------------------------------------------
(* Lemmas on tables of sessions.                                           *)

USE DEF VS_ERROR, VS_UNDEF, VS_INITIAL, VS_START, VS_SENT_KEY, VS_GOT_KEY, VS_ACTIVE

\* A session that starts anew is in order, and carries nothing.
LEMMA InitSession ==
    ASSUME vopt \in VerifyOptions
    PROVE  /\ SessionOK(VSessionInit)
           /\ SessionOK([VSessionInit EXCEPT !.prim.st = VS_UNDEF])
           /\ VSessionInit.prim.st = VS_INITIAL /\ VSessionInit.lame.st = VS_UNDEF
           /\ [VSessionInit EXCEPT !.prim.st = VS_UNDEF].prim.st = VS_UNDEF
           /\ [VSessionInit EXCEPT !.prim.st = VS_UNDEF].lame.st = VS_UNDEF
<1>1. VKey(VS_INITIAL) \in VKeys /\ VKey(VS_UNDEF) \in VLameKeys
  BY DEF VKey, VKeys, VLameKeys
<1>2. VSessionInit \in VSessions /\ [VSessionInit EXCEPT !.prim.st = VS_UNDEF] \in VSessions
  <2>1. VSessionInit \in VSessions
    BY <1>1 DEF VSessionInit, VSessions, VName
  <2> QED
    BY <2>1 DEF VSessions, VKeys
<1> QED
  BY <1>2 DEF VSessionInit, VKey, SessionOK, KeyOK

\* One session of a table may be replaced by another that is in order.
LEMMA UpdateTable ==
    ASSUME NEW t, TableOK(t), NEW i \in VerifySession, NEW s, SessionOK(s),
           i = "TM_UNTRUSTED" => s.lame.st = VS_UNDEF /\ s.prim.st # VS_ACTIVE,
           i = "TM_LAME_DUCK" => s.prim.st <= VS_UNDEF
    PROVE  TableOK([t EXCEPT ![i] = s])
  BY DEF TableOK, VerifySession, SessionOK

LEMMA UpdateIdentity ==
    ASSUME NEW t, TableOK(t), NEW lock, NEW e \in BOOLEAN, IdentityOK(t, lock, e),
           NEW i \in {"TM_ACTIVE", "TM_UNTRUSTED"}, NEW s, SessionOK(s),
           Carries(s.prim) => s.common_name = ProvedName(s.prim) /\ (lock # Nobody => s.common_name = lock),
           ~e /\ Carries(s.lame) => lock # Nobody /\ ProvedName(s.lame) = lock,
           /\ ~e /\ lock # Nobody /\ DECRYPT_KEY_ENABLED(s.prim)
           /\ UserPass => s.prim.user # Nobody
           /\ ProvedName(s.prim) # lock
           => ~Carries(s.prim) /\ ~Carries(s.lame) /\ ~Carries(t["TM_LAME_DUCK"].lame)
    PROVE  IdentityOK([t EXCEPT ![i] = s], lock, e)
<1> DEFINE u == [t EXCEPT ![i] = s]
<1>1. u[i] = s /\ \A j \in VerifySession : j # i => u[j] = t[j]
  BY DEF TableOK, VerifySession
<1>2. u["TM_LAME_DUCK"] = t["TM_LAME_DUCK"]
  BY <1>1 DEF VerifySession
<1> HIDE DEF u
<1>3. NamesOK(u, lock)
  BY <1>1 DEF NamesOK, IdentityOK
<1>4. ~e => LameOK(u, lock)
  BY <1>1 DEF LameOK, IdentityOK
<1>5. ~e => CutOK(u, lock)
  <2> SUFFICES ASSUME ~e, lock # Nobody, NEW j \in {"TM_ACTIVE", "TM_UNTRUSTED"},
                      DECRYPT_KEY_ENABLED(u[j].prim), UserPass => u[j].prim.user # Nobody,
                      ProvedName(u[j].prim) # lock
               PROVE  ~Carries(u[j].prim) /\ ~Carries(u[j].lame) /\ ~Carries(u["TM_LAME_DUCK"].lame)
    BY DEF CutOK
  <2>1. CASE j = i
    BY <1>1, <1>2, <2>1
  <2>2. CASE j # i
    <3>1. u[j] = t[j]
      BY <1>1, <2>2 DEF VerifySession
    <3> QED
      BY <3>1, <1>2 DEF IdentityOK, CutOK
  <2> QED
    BY <2>1, <2>2
<1> QED
  BY <1>3, <1>4, <1>5 DEF IdentityOK, u

\* The end of tls_multi_process keeps what holds of the table.
LEMMA PromotedKeeps ==
    ASSUME NEW t, TableOK(t), NEW lock, NEW e \in BOOLEAN, IdentityOK(t, lock, e), vopt \in VerifyOptions
    PROVE  /\ TableOK(Promoted(t)) /\ IdentityOK(Promoted(t), lock, e)
           /\ ~DECRYPT_KEY_ENABLED(Promoted(t)["TM_UNTRUSTED"].prim)
           /\ Promoted(t)["TM_ACTIVE"].prim.st = VS_ACTIVE => t["TM_ACTIVE"].prim.st = VS_ACTIVE
<1>1. CASE ~DECRYPT_KEY_ENABLED(t["TM_UNTRUSTED"].prim)
  BY <1>1 DEF Promoted
<1>2. CASE DECRYPT_KEY_ENABLED(t["TM_UNTRUSTED"].prim)
  <2> DEFINE u == Promoted(t)
  <2>1. /\ u \in [VerifySession -> VSessions]
        /\ u["TM_ACTIVE"] = t["TM_UNTRUSTED"] /\ u["TM_UNTRUSTED"] = VSessionInit
        /\ u["TM_LAME_DUCK"] = t["TM_LAME_DUCK"]
    BY <1>2, InitSession DEF Promoted, TableOK, VerifySession, SessionOK
  <2> HIDE DEF u
  <2>2. TableOK(u)
    BY <2>1, InitSession DEF TableOK, VerifySession
  <2>3. ~DECRYPT_KEY_ENABLED(u["TM_UNTRUSTED"].prim)
    BY <2>1, InitSession DEF DECRYPT_KEY_ENABLED
  <2>4. ~Carries(u["TM_UNTRUSTED"].lame)
    BY <2>1, InitSession DEF DECRYPT_KEY_ENABLED, Carries
  <2>5. NamesOK(u, lock)
    BY <2>1, <2>3 DEF NamesOK, IdentityOK, VerifySession, Carries
  <2>6. ~e => LameOK(u, lock)
    BY <2>1, <2>4 DEF LameOK, IdentityOK, VerifySession
  <2>7. ~e => CutOK(u, lock)
    BY <2>1, <2>3 DEF CutOK, IdentityOK
  <2>8. u["TM_ACTIVE"].prim.st # VS_ACTIVE
    BY <2>1 DEF TableOK
  <2> QED
    BY <2>2, <2>3, <2>5, <2>6, <2>7, <2>8 DEF IdentityOK, u
<1> QED
  BY <1>1, <1>2

\* A handshake that fails leaves the table in order, whatever name its session, q, goes by.
LEMMA ErrorKeeps ==
    ASSUME NEW t, TableOK(t), NEW lock, NEW e \in BOOLEAN, IdentityOK(t, lock, e), vopt \in VerifyOptions,
           NEW i \in {"TM_ACTIVE", "TM_UNTRUSTED"}, ~DECRYPT_KEY_ENABLED(t["TM_UNTRUSTED"].prim),
           NEW q \in VSessions, q.lame = t[i].lame, KeyOK(q.prim), Unnamed => q.common_name \in {Nobody, BlankName}
    PROVE  LET u == HandshakeError([t EXCEPT ![i] = q], i)
           IN  /\ TableOK(u) /\ IdentityOK(u, lock, e)
               /\ u["TM_ACTIVE"].prim.st = VS_ACTIVE => t["TM_ACTIVE"].prim.st = VS_ACTIVE
<1> DEFINE v == [t EXCEPT ![i] = q]
           u == HandshakeError(v, i)
<1>1. ~DECRYPT_KEY_ENABLED(VSessionInit.prim) /\ ~Carries(VSessionInit.prim) /\ ~Carries(VSessionInit.lame)
      /\ SessionOK(VSessionInit) /\ VSessionInit.lame.st = VS_UNDEF /\ VSessionInit.prim.st # VS_ACTIVE
  BY InitSession DEF DECRYPT_KEY_ENABLED, Carries
<1>2. t \in [VerifySession -> VSessions] /\ i \in VerifySession /\ SessionOK(t[i]) /\ VSessionInit \in VSessions
  BY <1>1 DEF TableOK, SessionOK, VerifySession
<1>3. v[i] = q
  BY <1>2
<1>4. CASE ~(i = "TM_ACTIVE" /\ v[i].lame.st >= VS_ACTIVE)
  <2>1. u = [v EXCEPT ![i] = VSessionInit]
    BY <1>4 DEF HandshakeError
  <2>2. u = [t EXCEPT ![i] = VSessionInit]
    BY <1>2, <2>1
  <2> HIDE DEF u
  <2>3. TableOK(u)
    <3>1. i # "TM_LAME_DUCK"
      OBVIOUS
    <3> QED
      BY <1>1, <1>2, <2>2, <3>1, UpdateTable
  <2>4. IdentityOK(u, lock, e)
    BY <2>2, <1>1, UpdateIdentity
  <2>5. u["TM_ACTIVE"].prim.st = VS_ACTIVE => t["TM_ACTIVE"].prim.st = VS_ACTIVE
    BY <1>1, <1>2, <2>2 DEF VerifySession
  <2> QED
    BY <2>3, <2>4, <2>5 DEF u
<1>5. CASE i = "TM_ACTIVE" /\ v[i].lame.st >= VS_ACTIVE
  <2> DEFINE d == [q EXCEPT !.prim.st = VS_ERROR]
  <2>1. u = [v EXCEPT !["TM_LAME_DUCK"] = d, !["TM_ACTIVE"] = VSessionInit]
    BY <1>3, <1>5 DEF HandshakeError
  <2>2. q.prim \in VKeys
    BY DEF VSessions
  <2>3. /\ d \in VSessions /\ d.common_name = q.common_name /\ d.lame = q.lame
        /\ d.prim.st = VS_ERROR /\ d.prim.authenticated = q.prim.authenticated
        /\ d.prim.depth = q.prim.depth /\ d.prim.cert = q.prim.cert
        /\ d.prim.user = q.prim.user
    BY <2>2 DEF VSessions, VKeys
  <2> HIDE DEF d
  <2>4. SessionOK(d)
    <3>1. KeyOK(d.prim)
      <4>1. q.prim.authenticated \in BOOLEAN
        BY <2>2 DEF VKeys
      <4> QED
        BY <4>1, <2>3 DEF KeyOK
    <3>2. KeyOK(d.lame) /\ (Unnamed => d.common_name \in {Nobody, BlankName})
      BY <1>2, <2>3 DEF SessionOK
    <3>3. d \in VSessions /\ d.prim.st # VS_START
      BY <2>3
    <3> QED
      BY <3>1, <3>2, <3>3, Zenon DEF SessionOK
  <2>5. /\ u \in [VerifySession -> VSessions]
        /\ u["TM_ACTIVE"] = VSessionInit /\ u["TM_LAME_DUCK"] = d /\ u["TM_UNTRUSTED"] = t["TM_UNTRUSTED"]
    BY <1>2, <1>5, <2>1, <2>3, ZenonT(60) DEF VerifySession
  <2> HIDE DEF u
  <2>6. TableOK(u)
    BY <1>1, <2>3, <2>4, <2>5 DEF TableOK, VerifySession
  <2>7. NamesOK(u, lock)
    BY <2>3, <2>5, <1>1 DEF NamesOK, IdentityOK, VerifySession, Carries, DECRYPT_KEY_ENABLED
  <2>8. ~e => LameOK(u, lock)
    BY <1>5, <2>3, <2>5, <1>1 DEF LameOK, IdentityOK, VerifySession
  <2>9. ~e => CutOK(u, lock)
    BY <2>5, <1>1 DEF CutOK
  <2> QED
    BY <1>1, <2>5, <2>6, <2>7, <2>8, <2>9 DEF IdentityOK, u
<1> QED
  BY <1>4, <1>5

\* No key of the table carries data: nothing is asked of the names.
LEMMA SilentIdentity ==
    ASSUME NEW t, NEW lock, NEW e \in BOOLEAN,
           \A j \in VerifySession : ~Carries(t[j].prim) /\ ~Carries(t[j].lame)
    PROVE  IdentityOK(t, lock, e)
  BY DEF IdentityOK, NamesOK, LameOK, CutOK, VerifySession

LEMMA DeauthenticatedKeeps ==
    ASSUME NEW t, TableOK(t), NEW lock, NEW e \in BOOLEAN
    PROVE  /\ TableOK(Deauthenticated(t)) /\ IdentityOK(Deauthenticated(t), lock, e)
           /\ \A j \in VerifySession : Deauthenticated(t)[j].prim.st = t[j].prim.st
<1> DEFINE u == Deauthenticated(t)
<1>1. ASSUME NEW j \in VerifySession
      PROVE  /\ u[j] \in VSessions /\ ~u[j].prim.authenticated /\ ~u[j].lame.authenticated
             /\ u[j].common_name = t[j].common_name
             /\ u[j].prim.st = t[j].prim.st /\ u[j].lame.st = t[j].lame.st
             /\ u[j].prim.depth = t[j].prim.depth /\ u[j].prim.cert = t[j].prim.cert
             /\ u[j].lame.cert = t[j].lame.cert /\ u[j].lame.depth = t[j].lame.depth
  <2>1. u[j] = [t[j] EXCEPT !.prim.authenticated = FALSE, !.lame.authenticated = FALSE]
    BY <1>1 DEF Deauthenticated
  <2>2. t[j] \in VSessions
    BY <1>1 DEF TableOK, SessionOK
  <2> DEFINE a == [t[j].prim EXCEPT !.authenticated = FALSE]
             b == [t[j].lame EXCEPT !.authenticated = FALSE]
  <2>3. u[j] = [t[j] EXCEPT !.prim = a, !.lame = b]
    BY <2>1, <2>2 DEF VSessions
  <2>4. t[j].prim \in VKeys /\ t[j].lame \in VKeys /\ t[j].lame.st # VS_ERROR
    BY <2>2 DEF VSessions, VLameKeys
  <2>5. /\ a \in VKeys /\ ~a.authenticated /\ a.st = t[j].prim.st /\ a.depth = t[j].prim.depth
        /\ a.cert = t[j].prim.cert
        /\ b \in VKeys /\ ~b.authenticated /\ b.st = t[j].lame.st /\ b.cert = t[j].lame.cert
        /\ b.depth = t[j].lame.depth
    BY <2>4 DEF VKeys
  <2> HIDE DEF u, a, b
  <2>6. u[j] \in VSessions /\ u[j].prim = a /\ u[j].lame = b /\ u[j].common_name = t[j].common_name
    BY <2>2, <2>3, <2>4, <2>5 DEF VSessions, VLameKeys
  <2> QED
    BY <2>5, <2>6
<1>2. u \in [VerifySession -> VSessions]
  <2>1. DOMAIN u = VerifySession /\ u = [j \in VerifySession |-> u[j]]
    BY DEF Deauthenticated
  <2> HIDE DEF u
  <2> QED
    BY <1>1, <2>1
<1> HIDE DEF u
<1>3. ASSUME NEW j \in VerifySession PROVE SessionOK(u[j])
  <2>1. SessionOK(t[j])
    BY <1>3 DEF TableOK
  <2>2. KeyOK(u[j].prim) /\ KeyOK(u[j].lame)
    BY <1>1, <1>3, <2>1 DEF SessionOK, KeyOK
  <2>3. Unnamed => u[j].common_name \in {Nobody, BlankName}
    BY <1>1, <1>3, <2>1 DEF SessionOK
  <2>4. u[j].prim.st = VS_START /\ u[j].prim.depth < 0 /\ vopt.cert => u[j].common_name = u[j].prim.cert
    BY <1>1, <1>3, <2>1 DEF SessionOK
  <2>5. u[j] \in VSessions
    BY <1>1, <1>3
  <2> QED
    BY <2>2, <2>3, <2>4, <2>5, Zenon DEF SessionOK
<1>4. TableOK(u)
  BY <1>1, <1>2, <1>3 DEF TableOK, VerifySession
<1>5. IdentityOK(u, lock, e)
  BY <1>1, SilentIdentity DEF Carries
<1> QED
  BY <1>1, <1>4, <1>5 DEF u

\* --ccd-exclusive takes a flag away, which is always in order.
LEMMA ClientConfigKeeps ==
    ASSUME NEW t, TableOK(t), NEW lock, NEW e \in BOOLEAN, IdentityOK(t, lock, e),
           NEW i \in {"TM_ACTIVE", "TM_UNTRUSTED"}, NEW file
    PROVE  LET u == ClientConfig(t, i, file)
           IN  /\ TableOK(u) /\ IdentityOK(u, lock, e)
               /\ \A j \in VerifySession : u[j].prim.st = t[j].prim.st
<1> DEFINE u == ClientConfig(t, i, file)
           v == [t EXCEPT ![i].prim.authenticated = FALSE]
           q == [t[i] EXCEPT !.prim.authenticated = FALSE]
<1>1. u = t \/ u = v
  BY DEF ClientConfig
<1>2. i \in VerifySession /\ SessionOK(t[i]) /\ t[i] \in VSessions
  BY DEF TableOK, SessionOK, VerifySession
<1>3. v = [t EXCEPT ![i] = q]
  BY <1>2 DEF TableOK
<1>4. /\ q \in VSessions /\ ~q.prim.authenticated /\ q.lame = t[i].lame
      /\ q.common_name = t[i].common_name /\ q.prim.st = t[i].prim.st /\ q.prim.user = t[i].prim.user
      /\ q.prim.depth = t[i].prim.depth /\ q.prim.cert = t[i].prim.cert
  BY <1>2 DEF VSessions, VKeys
<1>5. v[i] = q /\ \A j \in VerifySession : v[j].prim.st = t[j].prim.st
  BY <1>2, <1>3, <1>4 DEF TableOK
<1> HIDE DEF u, v, q
<1>6. SessionOK(q)
  <2>1. KeyOK(q.prim)
    BY <1>2, <1>4 DEF SessionOK, KeyOK
  <2>2. KeyOK(q.lame) /\ (Unnamed => q.common_name \in {Nobody, BlankName})
    BY <1>2, <1>4 DEF SessionOK
  <2>3. q.prim.st = VS_START /\ q.prim.depth < 0 /\ vopt.cert => q.common_name = q.prim.cert
    BY <1>2, <1>4 DEF SessionOK
  <2>4. q \in VSessions
    BY <1>4
  <2> QED
    BY <2>1, <2>2, <2>3, <2>4, Zenon DEF SessionOK
<1>7. TableOK(v)
  <2>1. i = "TM_UNTRUSTED" => q.lame.st = VS_UNDEF /\ q.prim.st # VS_ACTIVE
    BY <1>4 DEF TableOK
  <2>2. i # "TM_LAME_DUCK"
    OBVIOUS
  <2> QED
    BY <1>2, <1>3, <1>6, <2>1, <2>2, UpdateTable
<1>8. IdentityOK(v, lock, e)
  <2>1. ~Carries(q.prim)
    BY <1>4 DEF Carries
  <2>2. ~e /\ Carries(q.lame) => lock # Nobody /\ ProvedName(q.lame) = lock
    BY <1>2, <1>4 DEF IdentityOK, LameOK
  <2>3. /\ ~e /\ lock # Nobody /\ DECRYPT_KEY_ENABLED(q.prim)
        /\ UserPass => q.prim.user # Nobody
        /\ ProvedName(q.prim) # lock
        => ~Carries(q.lame) /\ ~Carries(t["TM_LAME_DUCK"].lame)
    BY <1>2, <1>4 DEF IdentityOK, CutOK, ProvedName, DECRYPT_KEY_ENABLED
  <2> QED
    BY <1>3, <1>6, <2>1, <2>2, <2>3, UpdateIdentity
<1> QED
  BY <1>1, <1>5, <1>7, <1>8 DEF u

\* What key_method_2_read writes before it looks at the locked name.
KeyRead(t, i, u, ok) ==
    [t EXCEPT ![i].prim.authenticated = ok, ![i].common_name = NameRead(t[i], u, ok),
              ![i].prim.user = IF ok /\ UserPass THEN u ELSE Nobody,
              ![i].prim.st = VS_GOT_KEY]

\* A verdict on a name and a password: only a name that was given passes, and without
\* a check of passwords every client does.
Verdict(u, ok) == ok \in BOOLEAN /\ (UserPass /\ ok => u \in UserNames) /\ (UserPass \/ ok)

LEMMA KeyReadFields ==
    ASSUME NEW t, TableOK(t), NEW i \in {"TM_ACTIVE", "TM_UNTRUSTED"}, NEW u \in UserNames \cup {BlankName},
           NEW ok, Verdict(u, ok)
    PROVE  LET s == KeyRead(t, i, u, ok)
               k == t[i].prim
           IN  /\ s = [t EXCEPT ![i] = s[i]]
               /\ s[i] \in VSessions /\ s[i].common_name = NameRead(t[i], u, ok) /\ s[i].lame = t[i].lame
               /\ s[i].prim.st = VS_GOT_KEY /\ s[i].prim.cert = k.cert /\ s[i].prim.depth = k.depth
               /\ s[i].prim.authenticated <=> ok
               /\ s[i].prim.user = IF ok /\ UserPass THEN u ELSE Nobody
<1> DEFINE w == IF ok /\ UserPass THEN u ELSE Nobody
           nm == NameRead(t[i], u, ok)
           s == KeyRead(t, i, u, ok)
           k == t[i].prim
           m == [k EXCEPT !.authenticated = ok, !.user = w, !.st = VS_GOT_KEY]
           q == [t[i] EXCEPT !.common_name = nm, !.prim = m]
<1>1. t \in [VerifySession -> VSessions] /\ i \in VerifySession /\ t[i] \in VSessions
  BY DEF TableOK, VerifySession
<1>2. nm \in VName /\ w \in UserNames \cup {Nobody}
  BY <1>1 DEF NameRead, VName, VSessions, Verdict
<1>3. k \in VKeys
  BY <1>1 DEF VSessions
<1> HIDE DEF nm, w
<1>4. /\ m \in VKeys /\ m.st = VS_GOT_KEY /\ (m.authenticated <=> ok) /\ m.user = w
      /\ m.cert = k.cert /\ m.depth = k.depth
  <2> DEFINE k1 == [k EXCEPT !.authenticated = ok]
             k2 == [k1 EXCEPT !.user = w]
  <2>1. k1 \in VKeys
    BY <1>3 DEF VKeys, Verdict
  <2>2. k2 \in VKeys
    <3> HIDE DEF k1
    <3> QED
      BY <1>2, <2>1 DEF VKeys
  <2>3. m = [k2 EXCEPT !.st = VS_GOT_KEY]
    OBVIOUS
  <2>4. m \in VKeys
    <3> HIDE DEF k2, m
    <3> QED
      BY <2>2, <2>3 DEF VKeys
  <2> HIDE DEF k
  <2> QED
    BY <1>3, <2>4 DEF VKeys
<1>5. s = [t EXCEPT ![i] = q]
  BY <1>1, ZenonT(30) DEF KeyRead, VSessions, VKeys, nm, w
<1> HIDE DEF s, m
<1>6. s[i] = q
  BY <1>1, <1>5
<1>7. s[i] \in VSessions /\ s[i].common_name = nm /\ s[i].lame = t[i].lame /\ s[i].prim = m
  BY <1>1, <1>2, <1>4, <1>6 DEF VSessions
<1>8. s = [t EXCEPT ![i] = s[i]]
  BY <1>5, <1>6
<1> HIDE DEF q
<1> QED
  BY <1>4, <1>7, <1>8 DEF s, w, nm

\* What key_method_2_read makes of the table t of sessions.
ReadTable(t, i, v) ==
    /\ TableOK(v) /\ IdentityOK(v, locked_cn, early)
    /\ \A j \in VerifySession : v[j].prim.st = IF j = i THEN VS_GOT_KEY ELSE t[j].prim.st

\* The handshake of a key is over: the name it proved is the name of its session, and if
\* that is not the locked one, no key carries data.
LEMMA ReadKeeps ==
    ASSUME NEW t, TableOK(t), IdentityOK(t, locked_cn, early), early \in BOOLEAN,
           vopt \in VerifyOptions, locked_cn \in VName, Unnamed => locked_cn \in {Nobody, BlankName},
           NEW i \in {"TM_ACTIVE", "TM_UNTRUSTED"}, t[i].prim.st = VS_START, t[i].prim.depth < 0,
           NEW u \in UserNames \cup {BlankName}, NEW ok, Verdict(u, ok), NEW file
    PROVE  ReadTable(t, i, key_method_2_read(t, i, u, ok, file))
<1> SUFFICES LET v == key_method_2_read(t, i, u, ok, file)
             IN  /\ TableOK(v) /\ IdentityOK(v, locked_cn, early)
                 /\ \A j \in VerifySession : v[j].prim.st = IF j = i THEN VS_GOT_KEY ELSE t[j].prim.st
  BY Zenon DEF ReadTable
<1> DEFINE s == KeyRead(t, i, u, ok)
           x == LockedName(s, i)
<1>1. key_method_2_read(t, i, u, ok, file) = ClientConfig(x, i, file)
  BY DEF key_method_2_read, KeyRead
<1>2. t \in [VerifySession -> VSessions] /\ i \in VerifySession /\ SessionOK(t[i])
  BY DEF TableOK, VerifySession
<1>0. s = [t EXCEPT ![i] = s[i]]
  BY KeyReadFields
<1>3. /\ s[i] \in VSessions /\ s[i].common_name = NameRead(t[i], u, ok) /\ s[i].lame = t[i].lame
      /\ s[i].prim.st = VS_GOT_KEY /\ s[i].prim.cert = t[i].prim.cert /\ s[i].prim.depth = t[i].prim.depth
      /\ s[i].prim.authenticated <=> ok
      /\ s[i].prim.user = IF ok /\ UserPass THEN u ELSE Nobody
  BY KeyReadFields
<1>4. \A j \in VerifySession : s[j].prim.st = IF j = i THEN VS_GOT_KEY ELSE t[j].prim.st
  BY <1>0, <1>2, <1>3
<1> HIDE DEF s
<1>5. vopt.cert \in BOOLEAN /\ vopt.as_cn \in BOOLEAN /\ vopt.plugin \in BOOLEAN /\ vopt.script \in BOOLEAN
  BY VerifyAssumption
<1>6. vopt.cert => t[i].common_name = t[i].prim.cert /\ t[i].prim.cert # Nobody
  BY <1>2 DEF SessionOK, KeyOK
<1>7. ok => s[i].common_name = ProvedName(s[i].prim)
  <2>1. Unnamed => t[i].common_name \in {Nobody, BlankName}
    BY <1>2 DEF SessionOK
  <2> QED
    BY <1>3, <1>5, <1>6, <2>1 DEF NameRead, ProvedName, Unnamed, Verdict
<1>8. SessionOK(s[i])
  <2>1. KeyOK(s[i].prim)
    <3>1. s[i].prim.depth \in -1 .. 1
      BY <1>3 DEF VSessions, VKeys
    <3>2. ~(s[i].prim.depth >= 0) /\ s[i].prim.depth < 0
      BY <1>3, <3>1
    <3> QED
      BY <1>3, <1>5, <1>6, <3>2, VerifyAssumption DEF KeyOK, Verdict
  <2>2. KeyOK(s[i].lame)
    BY <1>2, <1>3 DEF SessionOK
  <2>3. Unnamed => s[i].common_name \in {Nobody, BlankName}
    BY <1>2, <1>3 DEF SessionOK, NameRead, Unnamed
  <2>4. s[i] \in VSessions /\ s[i].prim.st # VS_START
    BY <1>3
  <2> QED
    BY <2>1, <2>2, <2>3, <2>4, Zenon DEF SessionOK
<1>9. TableOK(s)
  <2>1. i = "TM_UNTRUSTED" => s[i].lame.st = VS_UNDEF /\ s[i].prim.st # VS_ACTIVE
    BY <1>3 DEF TableOK
  <2>2. i # "TM_LAME_DUCK"
    OBVIOUS
  <2>3. TableOK([t EXCEPT ![i] = s[i]])
    BY <1>2, <1>8, <2>1, <2>2, UpdateTable
  <2> QED
    BY <1>0, <2>3, Zenon
<1>10. TableOK(x) /\ IdentityOK(x, locked_cn, early) /\ \A j \in VerifySession : x[j].prim.st = s[j].prim.st
  <2>1. CASE s[i].prim.authenticated /\ locked_cn # Nobody /\ s[i].common_name # locked_cn
    <3> DEFINE y == [s EXCEPT ![i].common_name = locked_cn]
               q == [s[i] EXCEPT !.common_name = locked_cn]
    <3>1. x = Deauthenticated(y)
      BY <2>1 DEF LockedName
    <3>2. y = [s EXCEPT ![i] = q] /\ s \in [VerifySession -> VSessions]
      BY <1>2, <1>9 DEF TableOK
    <3>3. /\ q \in VSessions /\ q.common_name = locked_cn /\ q.prim = s[i].prim /\ q.lame = s[i].lame
      BY <1>3 DEF VSessions
    <3> HIDE DEF q
    <3>4. SessionOK(q)
      <4>1. KeyOK(q.prim) /\ KeyOK(q.lame) /\ q \in VSessions /\ q.prim.st # VS_START
        BY <1>3, <1>8, <3>3 DEF SessionOK
      <4>2. Unnamed => q.common_name \in {Nobody, BlankName}
        BY <3>3
      <4> QED
        BY <4>1, <4>2, Zenon DEF SessionOK
    <3>5. TableOK(y)
      <4>1. i = "TM_UNTRUSTED" => q.lame.st = VS_UNDEF /\ q.prim.st # VS_ACTIVE
        BY <1>9, <3>3 DEF TableOK
      <4>2. i # "TM_LAME_DUCK"
        OBVIOUS
      <4> QED
        BY <1>2, <1>9, <3>2, <3>4, <4>1, <4>2, UpdateTable
    <3>6. \A j \in VerifySession : y[j].prim.st = s[j].prim.st
      BY <1>2, <3>2, <3>3
    <3> HIDE DEF y
    <3> QED
      BY <3>1, <3>5, <3>6, DeauthenticatedKeeps
  <2>2. CASE ~(s[i].prim.authenticated /\ locked_cn # Nobody /\ s[i].common_name # locked_cn)
    <3>1. x = s
      BY <2>2 DEF LockedName
    <3>2. Carries(s[i].prim) => /\ s[i].common_name = ProvedName(s[i].prim)
                                /\ locked_cn # Nobody => s[i].common_name = locked_cn
      BY <1>3, <1>7, <2>2 DEF Carries
    <3>3. ~early /\ Carries(s[i].lame) => locked_cn # Nobody /\ ProvedName(s[i].lame) = locked_cn
      BY <1>2, <1>3 DEF IdentityOK, LameOK
    <3>4. /\ ~early /\ locked_cn # Nobody /\ DECRYPT_KEY_ENABLED(s[i].prim)
          /\ UserPass => s[i].prim.user # Nobody
          => ProvedName(s[i].prim) = locked_cn
      BY <1>3, <1>7, <2>2 DEF Verdict
    <3>5. IdentityOK([t EXCEPT ![i] = s[i]], locked_cn, early)
      BY <1>8, <3>2, <3>3, <3>4, UpdateIdentity
    <3> QED
      BY <1>0, <1>9, <3>1, <3>5, Zenon
  <2> QED
    BY <2>1, <2>2
<1> HIDE DEF x
<1>11. LET v == ClientConfig(x, i, file)
       IN  /\ TableOK(v) /\ IdentityOK(v, locked_cn, early)
           /\ \A j \in VerifySession : v[j].prim.st = x[j].prim.st
  BY <1>10, ClientConfigKeeps
<1> QED
  BY <1>1, <1>4, <1>10, <1>11

WithState(t, i, st) == [t EXCEPT ![i].prim.st = st]

\* A key that carries data goes on to do so, in whatever state.
LEMMA StateKeeps ==
    ASSUME NEW t, TableOK(t), NEW lock, NEW e \in BOOLEAN, IdentityOK(t, lock, e),
           NEW i \in {"TM_ACTIVE", "TM_UNTRUSTED"}, NEW st \in VS_SENT_KEY .. VS_ACTIVE,
           DECRYPT_KEY_ENABLED(t[i].prim), i = "TM_UNTRUSTED" => st # VS_ACTIVE
    PROVE  LET u == WithState(t, i, st)
           IN  TableOK(u) /\ IdentityOK(u, lock, e) /\ u[i].prim.st = st
<1> DEFINE u == WithState(t, i, st)
           q == [t[i] EXCEPT !.prim.st = st]
<1>1. t \in [VerifySession -> VSessions] /\ i \in VerifySession /\ SessionOK(t[i]) /\ t[i] \in VSessions
  BY DEF TableOK, VerifySession
<1>2. u = [t EXCEPT ![i] = q] /\ u[i] = q
  BY <1>1 DEF WithState
<1>3. /\ q \in VSessions /\ q.lame = t[i].lame /\ q.common_name = t[i].common_name
      /\ q.prim.st = st /\ q.prim.authenticated = t[i].prim.authenticated
      /\ q.prim.depth = t[i].prim.depth /\ q.prim.cert = t[i].prim.cert /\ q.prim.user = t[i].prim.user
  BY <1>1 DEF VSessions, VKeys
<1> HIDE DEF q, u
<1>4. SessionOK(q)
  <2>1. KeyOK(q.prim)
    <3>1. t[i].prim.authenticated \in BOOLEAN /\ KeyOK(t[i].prim)
      BY <1>1 DEF VSessions, VKeys, SessionOK
    <3> QED
      BY <1>3, <3>1 DEF KeyOK
  <2>2. KeyOK(q.lame) /\ (Unnamed => q.common_name \in {Nobody, BlankName})
    BY <1>1, <1>3 DEF SessionOK
  <2>3. q \in VSessions /\ q.prim.st # VS_START
    BY <1>3
  <2> QED
    BY <2>1, <2>2, <2>3, Zenon DEF SessionOK
<1>5. i = "TM_UNTRUSTED" => q.lame.st = VS_UNDEF /\ q.prim.st # VS_ACTIVE
  BY <1>3 DEF TableOK
<1>6. i # "TM_LAME_DUCK"
  OBVIOUS
<1>7. (Carries(q.prim) <=> Carries(t[i].prim)) /\ DECRYPT_KEY_ENABLED(q.prim)
  BY <1>3 DEF Carries, DECRYPT_KEY_ENABLED
<1>8. ProvedName(q.prim) = ProvedName(t[i].prim)
  BY <1>3 DEF ProvedName
<1>9. Carries(q.prim) => q.common_name = ProvedName(q.prim) /\ (lock # Nobody => q.common_name = lock)
  BY <1>1, <1>3, <1>7, <1>8 DEF IdentityOK, NamesOK
<1>10. ~e /\ Carries(q.lame) => lock # Nobody /\ ProvedName(q.lame) = lock
  BY <1>1, <1>3 DEF IdentityOK, LameOK
<1>11. /\ ~e /\ lock # Nobody /\ DECRYPT_KEY_ENABLED(q.prim)
       /\ UserPass => q.prim.user # Nobody
       /\ ProvedName(q.prim) # lock
       => ~Carries(q.prim) /\ ~Carries(q.lame) /\ ~Carries(t["TM_LAME_DUCK"].lame)
  BY <1>3, <1>7, <1>8 DEF IdentityOK, CutOK
<1>12. TableOK(u)
  BY <1>1, <1>2, <1>4, <1>5, <1>6, UpdateTable
<1>13. IdentityOK(u, lock, e)
  BY <1>2, <1>4, <1>9, <1>10, <1>11, UpdateIdentity
<1> QED
  BY <1>2, <1>3, <1>12, <1>13 DEF u

LEMMA SendKeyKeeps ==
    ASSUME NEW t, TableOK(t), NEW lock, NEW e \in BOOLEAN, IdentityOK(t, lock, e),
           NEW i \in {"TM_ACTIVE", "TM_UNTRUSTED"}
    PROVE  LET u == SendKey(t, i)
           IN  /\ TableOK(u) /\ IdentityOK(u, lock, e)
               /\ u["TM_ACTIVE"].prim.st = VS_ACTIVE => t["TM_ACTIVE"].prim.st = VS_ACTIVE
<1>1. CASE t[i].prim.st = VS_GOT_KEY
  <2> DEFINE u == WithState(t, i, VS_SENT_KEY)
  <2>1. SendKey(t, i) = u
    BY <1>1 DEF SendKey, WithState
  <2>2. TableOK(u) /\ IdentityOK(u, lock, e) /\ u[i].prim.st = VS_SENT_KEY
    <3>1. DECRYPT_KEY_ENABLED(t[i].prim)
      BY <1>1 DEF DECRYPT_KEY_ENABLED
    <3>2. VS_SENT_KEY \in VS_SENT_KEY .. VS_ACTIVE /\ VS_SENT_KEY # VS_ACTIVE
      OBVIOUS
    <3> QED
      BY <3>1, <3>2, StateKeeps
  <2>3. i # "TM_ACTIVE" => u["TM_ACTIVE"] = t["TM_ACTIVE"]
    BY DEF TableOK, VerifySession, WithState
  <2> HIDE DEF u
  <2> QED
    BY <2>1, <2>2, <2>3
<1>2. CASE t[i].prim.st # VS_GOT_KEY
  BY <1>2 DEF SendKey
<1> QED
  BY <1>1, <1>2

-----------------------------------------------------------------------------
(* The steps.                                                              *)

LEMMA InitIInv == VerifyInit => IInv
<1> SUFFICES ASSUME VerifyInit PROVE IInv
  OBVIOUS
<1> DEFINE d == [VSessionInit EXCEPT !.prim.st = VS_UNDEF]
<1>1. vopt \in VerifyOptions
  BY DEF VerifyInit
<1>2. vsess["TM_ACTIVE"] = VSessionInit /\ vsess["TM_UNTRUSTED"] = VSessionInit /\ vsess["TM_LAME_DUCK"] = d
  BY DEF VerifyInit, VerifySession
<1>3. vsess = [i \in VerifySession |-> vsess[i]]
  BY DEF VerifyInit
<1> HIDE DEF d
<1>4. /\ SessionOK(VSessionInit) /\ SessionOK(d)
      /\ VSessionInit.prim.st = VS_INITIAL /\ VSessionInit.lame.st = VS_UNDEF
      /\ d.prim.st = VS_UNDEF /\ d.lame.st = VS_UNDEF
  BY <1>1, InitSession DEF d
<1>5. TableOK(vsess)
  BY <1>2, <1>3, <1>4 DEF TableOK, VerifySession, SessionOK
<1>6. \A i \in VerifySession : ~Carries(vsess[i].prim) /\ ~Carries(vsess[i].lame)
  BY <1>2, <1>4 DEF Carries, DECRYPT_KEY_ENABLED, VerifySession
<1>7. early = FALSE /\ locked_cn = Nobody /\ linked = FALSE /\ established = FALSE /\ vpost = FALSE
  BY DEF VerifyInit
<1>8. IdentityOK(vsess, locked_cn, early)
  BY <1>6, <1>7, SilentIdentity
<1>9. ~DECRYPT_KEY_ENABLED(vsess["TM_UNTRUSTED"].prim) /\ vsess["TM_ACTIVE"].prim.st # VS_ACTIVE
  BY <1>2, <1>4 DEF DECRYPT_KEY_ENABLED
<1> QED
  BY <1>1, <1>5, <1>7, <1>8, <1>9 DEF IInv, VName

\* The options of an instance do not change, and what is said of a table depends on
\* nothing else of the state.
LEMMA SameOptions ==
    ASSUME vopt' = vopt, NEW lock, NEW e
    PROVE  /\ TableOK(vsess)' <=> TableOK(vsess')
           /\ IdentityOK(vsess, locked_cn, early)' <=> IdentityOK(vsess', locked_cn', early')
           /\ Unnamed' <=> Unnamed
  BY DEF TableOK, SessionOK, KeyOK, Unnamed, UserPass, IdentityOK, NamesOK, LameOK, CutOK, ProvedName

\* A call of tls_multi_process that hands a table in order to its last part.
LEMMA TlsStepKeeps ==
    ASSUME IInv, NEW t, TlsStep(t), TableOK(t), IdentityOK(t, locked_cn, early'),
           early' \in BOOLEAN, early => early', linked' \in BOOLEAN,
           t["TM_ACTIVE"].prim.st = VS_ACTIVE => linked'
    PROVE  IInv'
<1>1. vsess' = Promoted(t) /\ vpost' = TRUE /\ vopt' = vopt /\ locked_cn' = locked_cn /\ established' = established
  BY DEF TlsStep
<1>2. /\ TableOK(vsess') /\ IdentityOK(vsess', locked_cn, early')
      /\ ~DECRYPT_KEY_ENABLED(vsess'["TM_UNTRUSTED"].prim)
      /\ vsess'["TM_ACTIVE"].prim.st = VS_ACTIVE => t["TM_ACTIVE"].prim.st = VS_ACTIVE
  BY <1>1, PromotedKeeps DEF IInv
<1>3. TableOK(vsess)' /\ IdentityOK(vsess, locked_cn, early)' /\ (Unnamed' <=> Unnamed)
  BY <1>1, <1>2, SameOptions
<1> QED
  BY <1>1, <1>2, <1>3 DEF IInv, DECRYPT_KEY_ENABLED

\* The key of a handshake in progress is replaced: it carries nothing before and after.
LEMMA PrimKeeps ==
    ASSUME IInv, NEW i \in {"TM_ACTIVE", "TM_UNTRUSTED"}, NEW t,
           t = [vsess EXCEPT ![i] = t[i]], SessionOK(t[i]), t[i].lame = vsess[i].lame,
           ~DECRYPT_KEY_ENABLED(t[i].prim)
    PROVE  TableOK(t) /\ IdentityOK(t, locked_cn, early) /\ t[i].prim.st # VS_ACTIVE
<1>1. TableOK(vsess) /\ IdentityOK(vsess, locked_cn, early) /\ early \in BOOLEAN /\ i \in VerifySession
  BY DEF IInv, VerifySession
<1>2. i = "TM_UNTRUSTED" => t[i].lame.st = VS_UNDEF
  BY <1>1 DEF TableOK
<1>3. t[i].prim.st # VS_ACTIVE /\ ~Carries(t[i].prim) /\ i # "TM_LAME_DUCK"
  BY DEF DECRYPT_KEY_ENABLED, Carries
<1>4. ~early /\ Carries(t[i].lame) => locked_cn # Nobody /\ ProvedName(t[i].lame) = locked_cn
  BY <1>1 DEF IdentityOK, LameOK
<1>5. TableOK([vsess EXCEPT ![i] = t[i]])
  BY <1>1, <1>2, <1>3, UpdateTable
<1>6. IdentityOK([vsess EXCEPT ![i] = t[i]], locked_cn, early)
  BY <1>1, <1>3, <1>4, UpdateIdentity, ZenonT(60)
<1> QED
  BY <1>3, <1>5, <1>6

LEMMA BeginHandshakeKeeps ==
    ASSUME IInv, NEW i \in {"TM_ACTIVE", "TM_UNTRUSTED"}, BeginHandshake(i)
    PROVE  IInv'
<1> PICK cn \in CertNames :
           TlsStep([vsess EXCEPT ![i].prim = [@ EXCEPT !.st = VS_START, !.cert = PeerCert(cn).cert,
                                                       !.depth = PeerCert(cn).depth]])
  BY DEF BeginHandshake
<1> DEFINE k == vsess[i].prim
           k1 == [k EXCEPT !.st = VS_START]
           k2 == [k1 EXCEPT !.cert = PeerCert(cn).cert]
           k3 == [k2 EXCEPT !.depth = PeerCert(cn).depth]
           q == [vsess[i] EXCEPT !.prim = k3]
           t == [vsess EXCEPT ![i] = q]
<1>1. vsess \in [VerifySession -> VSessions] /\ i \in VerifySession /\ SessionOK(vsess[i]) /\ vsess[i] \in VSessions
      /\ vopt \in VerifyOptions
  BY DEF IInv, TableOK, VerifySession
<1>2. vsess[i].prim.st = VS_INITIAL /\ linked' = linked /\ early' = early
  BY DEF BeginHandshake
<1>3. TlsStep(t)
  BY <1>1 DEF VSessions
<1>4. k \in VKeys
  BY <1>1 DEF VSessions
<1>5. /\ PeerCert(cn).cert \in CertNames \cup {Nobody} /\ PeerCert(cn).depth \in -1 .. 1
      /\ vopt.cert => PeerCert(cn).cert # Nobody /\ PeerCert(cn).depth = 1
      /\ ~vopt.cert => PeerCert(cn).depth = -1
  BY VerifyAssumption DEF PeerCert
<1>6. k3 \in VKeys /\ k3.st = VS_START /\ k3.cert = PeerCert(cn).cert /\ k3.depth = PeerCert(cn).depth
      /\ k3.authenticated = k.authenticated
  <2>1. k1 \in VKeys /\ k1.st = VS_START /\ k1.authenticated = k.authenticated
    BY <1>4 DEF VKeys
  <2> HIDE DEF k1
  <2>2. k2 \in VKeys /\ k2.st = VS_START /\ k2.cert = PeerCert(cn).cert /\ k2.authenticated = k.authenticated
    BY <1>5, <2>1 DEF VKeys
  <2> HIDE DEF k2
  <2> QED
    BY <1>5, <2>2 DEF VKeys
<1> HIDE DEF k3
<1>7. q \in VSessions /\ q.prim = k3 /\ q.lame = vsess[i].lame /\ q.common_name = vsess[i].common_name
  BY <1>1, <1>6 DEF VSessions
<1>8. t[i] = q /\ t = [vsess EXCEPT ![i] = t[i]]
  BY <1>1
<1>9. (i = "TM_UNTRUSTED" => t["TM_ACTIVE"] = vsess["TM_ACTIVE"])
  BY <1>1 DEF VerifySession
<1> HIDE DEF q, t
<1>10. SessionOK(q)
  <2>1. ~k3.authenticated
    BY <1>1, <1>2, <1>4, <1>6 DEF SessionOK, KeyOK
  <2>2. KeyOK(q.prim) /\ KeyOK(q.lame)
    BY <1>1, <1>5, <1>6, <1>7, <2>1 DEF SessionOK, KeyOK
  <2>3. Unnamed => q.common_name \in {Nobody, BlankName}
    BY <1>1, <1>7 DEF SessionOK
  <2>4. ~(q.prim.depth < 0 /\ vopt.cert)
    BY <1>5, <1>6, <1>7
  <2> QED
    BY <1>7, <2>2, <2>3, <2>4 DEF SessionOK
<1>11. ~DECRYPT_KEY_ENABLED(q.prim)
  BY <1>6, <1>7 DEF DECRYPT_KEY_ENABLED
<1>12. TableOK(t) /\ IdentityOK(t, locked_cn, early) /\ t[i].prim.st # VS_ACTIVE
  BY <1>7, <1>8, <1>10, <1>11, PrimKeeps
<1>13. t["TM_ACTIVE"].prim.st = VS_ACTIVE => linked
  BY <1>9, <1>12 DEF IInv
<1> QED
  BY <1>2, <1>3, <1>12, <1>13, TlsStepKeeps DEF IInv

LEMMA VerifyCertificateKeeps ==
    ASSUME IInv, NEW i \in {"TM_ACTIVE", "TM_UNTRUSTED"}, VerifyCertificate(i)
    PROVE  IInv'
<1> PICK verdict \in {"preverify", "check", "ok"} :
           LET t == [vsess EXCEPT ![i] = verify_callback(@, verdict)]
           IN  TlsStep(IF verdict = "ok" THEN t ELSE HandshakeError(t, i))
  BY DEF VerifyCertificate
<1> DEFINE s == vsess[i]
           cn == IF verdict # "preverify" /\ s.prim.depth = 0 THEN s.prim.cert ELSE s.common_name
           k == [s.prim EXCEPT !.depth = @ - 1]
           q == verify_callback(s, verdict)
           t == [vsess EXCEPT ![i] = q]
<1>1. vsess \in [VerifySession -> VSessions] /\ i \in VerifySession /\ SessionOK(s) /\ s \in VSessions
      /\ vopt \in VerifyOptions /\ s.prim \in VKeys
  BY DEF IInv, TableOK, VerifySession, VSessions
<1>2. /\ s.prim.st = VS_START /\ s.prim.depth >= 0 /\ linked' = linked /\ early' = early
      /\ TlsStep(IF verdict = "ok" THEN t ELSE HandshakeError(t, i))
  BY <1>1 DEF VerifyCertificate
<1>3. /\ k \in VKeys /\ k.depth = s.prim.depth - 1 /\ k.st = VS_START /\ k.cert = s.prim.cert
      /\ k.authenticated = s.prim.authenticated
  BY <1>1, <1>2 DEF VKeys
<1>4. cn \in VName
  BY <1>1 DEF VSessions, VKeys, VName
<1> HIDE DEF k, cn
<1>5. q \in VSessions /\ q.common_name = cn /\ q.prim = k /\ q.lame = s.lame
  <2>1. q = [[[s EXCEPT !.verified = (verdict = "ok")] EXCEPT !.common_name = cn] EXCEPT !.prim = k]
    BY <1>1 DEF verify_callback, cn, k, VSessions
  <2> DEFINE s1 == [s EXCEPT !.verified = (verdict = "ok")]
             s2 == [s1 EXCEPT !.common_name = cn]
  <2>2. s1 \in VSessions /\ s1.lame = s.lame
    BY <1>1 DEF VSessions
  <2> HIDE DEF s1
  <2>3. s2 \in VSessions /\ s2.common_name = cn /\ s2.lame = s.lame
    BY <1>4, <2>2 DEF VSessions
  <2>4. q = [s2 EXCEPT !.prim = k]
    BY <2>1 DEF s1
  <2> HIDE DEF s2, q
  <2> QED
    BY <1>3, <2>3, <2>4 DEF VSessions
<1>6. t[i] = q /\ t = [vsess EXCEPT ![i] = t[i]]
  BY <1>1
<1>7. i = "TM_UNTRUSTED" => t["TM_ACTIVE"] = vsess["TM_ACTIVE"]
  BY <1>1 DEF VerifySession
<1>8. i # "TM_UNTRUSTED" => t["TM_UNTRUSTED"] = vsess["TM_UNTRUSTED"]
  BY <1>1 DEF VerifySession
<1> HIDE DEF q, t
<1>9. KeyOK(q.prim) /\ KeyOK(q.lame) /\ (Unnamed => q.common_name \in {Nobody, BlankName})
  <2>1. ~k.authenticated /\ KeyOK(k)
    BY <1>1, <1>2, <1>3, VerifyAssumption DEF SessionOK, KeyOK, VKeys
  <2>2. vopt.cert
    BY <1>1, <1>2 DEF SessionOK, KeyOK
  <2> QED
    BY <1>1, <1>5, <2>1, <2>2 DEF SessionOK, Unnamed
<1>10. CASE verdict = "ok"
  <2>1. q.prim.depth < 0 => q.common_name = q.prim.cert
    BY <1>1, <1>2, <1>3, <1>5, <1>10 DEF cn, VKeys
  <2>2. SessionOK(q)
    BY <1>5, <1>9, <2>1 DEF SessionOK
  <2>3. ~DECRYPT_KEY_ENABLED(q.prim)
    BY <1>3, <1>5 DEF DECRYPT_KEY_ENABLED
  <2>4. TableOK(t) /\ IdentityOK(t, locked_cn, early) /\ t[i].prim.st # VS_ACTIVE
    BY <1>5, <1>6, <2>2, <2>3, PrimKeeps
  <2>5. t["TM_ACTIVE"].prim.st = VS_ACTIVE => linked
    BY <1>7, <2>4 DEF IInv
  <2> QED
    BY <1>2, <1>10, <2>4, <2>5, TlsStepKeeps DEF IInv
<1>11. CASE verdict # "ok"
  <2> DEFINE u == HandshakeError([vsess EXCEPT ![i] = q], i)
  <2>1. TlsStep(u)
    BY <1>2, <1>11 DEF t
  <2>2. /\ TableOK(u) /\ IdentityOK(u, locked_cn, early)
        /\ u["TM_ACTIVE"].prim.st = VS_ACTIVE => vsess["TM_ACTIVE"].prim.st = VS_ACTIVE
    BY <1>1, <1>5, <1>9, ErrorKeeps, ZenonT(30) DEF IInv
  <2> HIDE DEF u
  <2> QED
    BY <1>2, <2>1, <2>2, TlsStepKeeps DEF IInv
<1> QED
  BY <1>10, <1>11

\* A handshake that fails where it is.
LEMMA HandshakeErrorKeeps ==
    ASSUME IInv, NEW i \in {"TM_ACTIVE", "TM_UNTRUSTED"}, TlsStep(HandshakeError(vsess, i)),
           linked' = linked, early' = early
    PROVE  IInv'
<1> DEFINE u == HandshakeError(vsess, i)
<1>1. /\ vsess \in [VerifySession -> VSessions] /\ i \in VerifySession /\ SessionOK(vsess[i])
      /\ vsess[i] \in VSessions /\ vopt \in VerifyOptions
  BY DEF IInv, TableOK, VerifySession
<1>2. vsess = [vsess EXCEPT ![i] = vsess[i]]
  BY <1>1
<1>3. LET w == HandshakeError([vsess EXCEPT ![i] = vsess[i]], i)
      IN  /\ TableOK(w) /\ IdentityOK(w, locked_cn, early)
          /\ w["TM_ACTIVE"].prim.st = VS_ACTIVE => vsess["TM_ACTIVE"].prim.st = VS_ACTIVE
  BY <1>1, ErrorKeeps, ZenonT(30) DEF IInv, SessionOK
<1>4. /\ TableOK(u) /\ IdentityOK(u, locked_cn, early)
      /\ u["TM_ACTIVE"].prim.st = VS_ACTIVE => vsess["TM_ACTIVE"].prim.st = VS_ACTIVE
  BY <1>2, <1>3
<1> HIDE DEF u
<1>5. TlsStep(u)
  BY DEF u
<1> QED
  BY <1>4, <1>5, TlsStepKeeps DEF IInv

LEMMA ReceiveKeyKeeps ==
    ASSUME IInv, NEW i \in {"TM_ACTIVE", "TM_UNTRUSTED"}, ReceiveKey(i)
    PROVE  IInv'
<1>1. vsess[i].prim.st = VS_START /\ vsess[i].prim.depth < 0 /\ linked' = linked /\ early' = early
  BY DEF ReceiveKey
<1>2. CASE TlsStep(HandshakeError(vsess, i))
  BY <1>1, <1>2, HandshakeErrorKeeps
<1>3. ASSUME NEW u \in UserNames \cup {BlankName}, NEW pluginOk \in BOOLEAN, NEW scriptOk \in BOOLEAN,
             NEW file \in BOOLEAN, NEW sent \in BOOLEAN,
             LET ok == IF UserPass THEN verify_user_pass(u, pluginOk, scriptOk) ELSE TRUE
                 t  == key_method_2_read(vsess, i, u, ok, file)
             IN  TlsStep(IF sent THEN SendKey(t, i) ELSE t)
      PROVE  IInv'
  <2> DEFINE ok == IF UserPass THEN verify_user_pass(u, pluginOk, scriptOk) ELSE TRUE
             t == key_method_2_read(vsess, i, u, ok, file)
             v == IF sent THEN SendKey(t, i) ELSE t
  <2>1. Verdict(u, ok)
    BY DEF Verdict, verify_user_pass
  <2> HIDE DEF ok
  <2>2. /\ TableOK(t) /\ IdentityOK(t, locked_cn, early)
        /\ \A j \in VerifySession : t[j].prim.st = IF j = i THEN VS_GOT_KEY ELSE vsess[j].prim.st
    <3>1. /\ TableOK(vsess) /\ IdentityOK(vsess, locked_cn, early) /\ early \in BOOLEAN
          /\ vopt \in VerifyOptions /\ locked_cn \in VName
          /\ Unnamed => locked_cn \in {Nobody, BlankName}
      BY DEF IInv
    <3>2. ReadTable(vsess, i, t)
      BY <1>1, <2>1, <3>1, ReadKeeps
    <3> HIDE DEF t
    <3> QED
      BY <3>2 DEF ReadTable
  <2> HIDE DEF t
  <2>3. TlsStep(v)
    BY <1>3 DEF t, ok
  <2>4. i \in VerifySession /\ t[i].prim.st = VS_GOT_KEY /\ early \in BOOLEAN
        /\ (t["TM_ACTIVE"].prim.st = VS_ACTIVE => linked)
    BY <2>2 DEF IInv, VerifySession
  <2>5. /\ TableOK(v) /\ IdentityOK(v, locked_cn, early)
        /\ v["TM_ACTIVE"].prim.st = VS_ACTIVE => t["TM_ACTIVE"].prim.st = VS_ACTIVE
    BY <2>2, <2>4, SendKeyKeeps
  <2> HIDE DEF v
  <2> QED
    BY <1>1, <2>3, <2>4, <2>5, TlsStepKeeps DEF IInv
<1> QED
  BY <1>2, <1>3, ZenonT(60) DEF ReceiveKey

LEMMA KeySentKeeps ==
    ASSUME IInv, KeySent
    PROVE  IInv'
<1> DEFINE v == SendKey(vsess, "TM_ACTIVE")
<1>1. TlsStep(v) /\ linked' = linked /\ early' = early
  BY DEF KeySent
<1>2. /\ TableOK(v) /\ IdentityOK(v, locked_cn, early)
      /\ v["TM_ACTIVE"].prim.st = VS_ACTIVE => vsess["TM_ACTIVE"].prim.st = VS_ACTIVE
  BY SendKeyKeeps DEF IInv
<1> HIDE DEF v
<1> QED
  BY <1>1, <1>2, TlsStepKeeps DEF IInv

LEMMA KeyAckedKeeps ==
    ASSUME IInv, KeyAcked
    PROVE  IInv'
<1> DEFINE v == WithState(vsess, "TM_ACTIVE", VS_ACTIVE)
<1>1. TlsStep(v) /\ linked' = TRUE /\ early' = early /\ vsess["TM_ACTIVE"].prim.st = VS_SENT_KEY
  BY DEF KeyAcked, WithState
<1>2. TableOK(v) /\ IdentityOK(v, locked_cn, early)
  <2>1. TableOK(vsess) /\ IdentityOK(vsess, locked_cn, early) /\ early \in BOOLEAN
    BY DEF IInv
  <2>2. DECRYPT_KEY_ENABLED(vsess["TM_ACTIVE"].prim)
    BY <1>1 DEF DECRYPT_KEY_ENABLED
  <2>3. VS_ACTIVE \in VS_SENT_KEY .. VS_ACTIVE
    OBVIOUS
  <2>4. "TM_ACTIVE" # "TM_UNTRUSTED"
    OBVIOUS
  <2> HIDE DEF VS_SENT_KEY, VS_ACTIVE
  <2> QED
    BY <2>1, <2>2, <2>3, <2>4, StateKeeps, Zenon
<1> HIDE DEF v
<1> QED
  BY <1>1, <1>2, TlsStepKeeps DEF IInv

LEMMA SoftResetKeeps ==
    ASSUME IInv, SoftReset
    PROVE  IInv'
<1> DEFINE a == vsess["TM_ACTIVE"]
           q == [[a EXCEPT !.lame = a.prim] EXCEPT !.prim = VKey(VS_INITIAL)]
           v == [vsess EXCEPT !["TM_ACTIVE"] = q]
<1>1. /\ vsess \in [VerifySession -> VSessions] /\ SessionOK(a) /\ a \in VSessions /\ vopt \in VerifyOptions
      /\ "TM_ACTIVE" \in VerifySession /\ TableOK(vsess) /\ early \in BOOLEAN /\ linked \in BOOLEAN
  BY DEF IInv, TableOK, VerifySession
<1>2. DECRYPT_KEY_ENABLED(a.prim) /\ early' = (early \/ a.prim.st < VS_ACTIVE) /\ linked' = linked /\ ~vpost
  BY DEF SoftReset, TlsStep
<1>3. TlsStep(v)
  BY <1>1 DEF SoftReset, VSessions
<1>4. /\ q \in VSessions /\ q.lame = a.prim /\ q.prim = VKey(VS_INITIAL) /\ q.common_name = a.common_name
  <2> DEFINE q1 == [a EXCEPT !.lame = a.prim]
  <2>0. a.prim \in VLameKeys
    BY <1>1, <1>2 DEF VSessions, VLameKeys, DECRYPT_KEY_ENABLED
  <2>1. q1 \in VSessions /\ q1.lame = a.prim /\ q1.common_name = a.common_name
    BY <1>1, <2>0 DEF VSessions
  <2>2. q = [q1 EXCEPT !.prim = VKey(VS_INITIAL)]
    OBVIOUS
  <2> HIDE DEF q1, q
  <2>3. VKey(VS_INITIAL) \in VKeys
    BY DEF VKey, VKeys
  <2> QED
    BY <2>1, <2>2, <2>3 DEF VSessions
<1> HIDE DEF q
<1>5. /\ VKey(VS_INITIAL).st = VS_INITIAL /\ KeyOK(VKey(VS_INITIAL)) /\ ~DECRYPT_KEY_ENABLED(VKey(VS_INITIAL))
      /\ ~Carries(VKey(VS_INITIAL))
  BY DEF VKey, KeyOK, DECRYPT_KEY_ENABLED, Carries
<1>6. SessionOK(q)
  <2>1. KeyOK(q.prim) /\ KeyOK(q.lame) /\ (Unnamed => q.common_name \in {Nobody, BlankName}) /\ q.prim.st # VS_START
    BY <1>1, <1>4, <1>5 DEF SessionOK
  <2> QED
    BY <1>4, <2>1, Zenon DEF SessionOK
<1>7. TableOK(v)
  BY <1>1, <1>6, UpdateTable
<1>8. early' \in BOOLEAN /\ (early => early')
  BY <1>2
<1>9. ~early' /\ Carries(q.lame) => locked_cn # Nobody /\ ProvedName(q.lame) = locked_cn
  <2> SUFFICES ASSUME ~early', Carries(a.prim) PROVE locked_cn # Nobody /\ ProvedName(a.prim) = locked_cn
    BY <1>4
  <2>1. ~early /\ linked
    <3>1. a.prim.st \in VS_ERROR .. VS_ACTIVE
      BY <1>1 DEF VSessions, VKeys
    <3>2. ~early /\ ~(a.prim.st < VS_ACTIVE)
      BY <1>2, Zenon
    <3>3. a.prim.st = VS_ACTIVE
      BY <3>1, <3>2
    <3> QED
      BY <3>2, <3>3 DEF IInv
  <2>2. tls_authenticated
    BY DEF tls_authenticated, KeyScan, Carries
  <2>3. locked_cn # Nobody
    BY <1>2, <2>1, <2>2 DEF IInv
  <2> QED
    BY <1>1, <2>3 DEF IInv, IdentityOK, NamesOK
<1>10. IdentityOK(vsess, locked_cn, early')
  BY <1>1, <1>8 DEF IInv, IdentityOK
<1>11. IdentityOK(v, locked_cn, early')
  BY <1>1, <1>4, <1>5, <1>6, <1>8, <1>9, <1>10, UpdateIdentity
<1>12. v["TM_ACTIVE"].prim.st # VS_ACTIVE
  BY <1>1, <1>4, <1>5
<1> HIDE DEF v
<1> QED
  BY <1>1, <1>2, <1>3, <1>7, <1>8, <1>11, <1>12, TlsStepKeeps

LEMMA HandshakeTimeoutKeeps ==
    ASSUME IInv, NEW i \in {"TM_ACTIVE", "TM_UNTRUSTED"}, HandshakeTimeout(i)
    PROVE  IInv'
  BY HandshakeErrorKeeps DEF HandshakeTimeout

LEMMA LameDuckDiesKeeps ==
    ASSUME IInv, LameDuckDies
    PROVE  IInv'
<1>1. /\ vsess \in [VerifySession -> VSessions] /\ vopt \in VerifyOptions /\ TableOK(vsess) /\ early \in BOOLEAN
      /\ linked \in BOOLEAN /\ IdentityOK(vsess, locked_cn, early) /\ linked' = linked /\ early' = early
  BY DEF IInv, TableOK, LameDuckDies
<1>2. CASE TlsStep([vsess EXCEPT !["TM_ACTIVE"].lame = VKey(VS_UNDEF)])
  <2> DEFINE a == vsess["TM_ACTIVE"]
             q == [a EXCEPT !.lame = VKey(VS_UNDEF)]
             v == [vsess EXCEPT !["TM_ACTIVE"] = q]
  <2>1. a \in VSessions /\ SessionOK(a) /\ "TM_ACTIVE" \in VerifySession
    BY <1>1 DEF TableOK, VerifySession
  <2>2. TlsStep(v)
    BY <1>1, <1>2, <2>1
  <2>3. VKey(VS_UNDEF) \in VLameKeys /\ KeyOK(VKey(VS_UNDEF)) /\ ~Carries(VKey(VS_UNDEF))
    BY DEF VKey, VKeys, VLameKeys, KeyOK, Carries, DECRYPT_KEY_ENABLED
  <2>4. q \in VSessions /\ q.prim = a.prim /\ q.lame = VKey(VS_UNDEF) /\ q.common_name = a.common_name
    BY <2>1, <2>3 DEF VSessions
  <2> HIDE DEF q
  <2>5. SessionOK(q)
    BY <2>1, <2>3, <2>4 DEF SessionOK
  <2>6. TableOK(v)
    BY <1>1, <2>1, <2>5, UpdateTable
  <2>7. Carries(q.prim) => q.common_name = ProvedName(q.prim) /\ (locked_cn # Nobody => q.common_name = locked_cn)
    BY <1>1, <2>1, <2>4 DEF IdentityOK, NamesOK
  <2>8. /\ ~early /\ locked_cn # Nobody /\ DECRYPT_KEY_ENABLED(q.prim)
        /\ UserPass => q.prim.user # Nobody
        /\ ProvedName(q.prim) # locked_cn
        => ~Carries(q.prim) /\ ~Carries(vsess["TM_LAME_DUCK"].lame)
    BY <1>1, <2>4 DEF IdentityOK, CutOK
  <2>9. IdentityOK(v, locked_cn, early)
    BY <1>1, <2>3, <2>4, <2>5, <2>7, <2>8, UpdateIdentity
  <2>10. v["TM_ACTIVE"].prim.st = VS_ACTIVE => linked
    BY <1>1, <2>1, <2>4 DEF IInv
  <2> HIDE DEF v
  <2> QED
    BY <1>1, <2>2, <2>6, <2>9, <2>10, TlsStepKeeps
<1>3. CASE TlsStep([vsess EXCEPT !["TM_LAME_DUCK"] = [VSessionInit EXCEPT !.prim.st = VS_UNDEF]])
  <2> DEFINE d == [VSessionInit EXCEPT !.prim.st = VS_UNDEF]
             v == [vsess EXCEPT !["TM_LAME_DUCK"] = d]
  <2>1. SessionOK(d) /\ d.prim.st = VS_UNDEF /\ d.lame.st = VS_UNDEF
    BY <1>1, InitSession
  <2> HIDE DEF d
  <2>2. ~Carries(d.prim) /\ ~Carries(d.lame)
    BY <2>1 DEF Carries, DECRYPT_KEY_ENABLED
  <2>3. v["TM_LAME_DUCK"] = d /\ v["TM_ACTIVE"] = vsess["TM_ACTIVE"] /\ v["TM_UNTRUSTED"] = vsess["TM_UNTRUSTED"]
    BY <1>1 DEF VerifySession
  <2>4. TableOK(v)
    <3>1. "TM_LAME_DUCK" \in VerifySession
      BY DEF VerifySession
    <3>2. d.prim.st <= VS_UNDEF /\ "TM_LAME_DUCK" # "TM_UNTRUSTED"
      BY <2>1
    <3> QED
      BY <1>1, <2>1, <3>1, <3>2, UpdateTable, Zenon
  <2>5. TlsStep(v)
    BY <1>3 DEF d
  <2> HIDE DEF v
  <2>6. IdentityOK(v, locked_cn, early)
    BY <1>1, <2>2, <2>3 DEF IdentityOK, NamesOK, LameOK, CutOK, VerifySession
  <2> QED
    BY <1>1, <2>3, <2>4, <2>5, <2>6, TlsStepKeeps DEF IInv
<1> QED
  BY <1>2, <1>3 DEF LameDuckDies

\* The common name is locked on the strength of a key that carries data: unless a soft
\* reset came early this is the active key, and the name is the one it proved.
LEMMA EstablishedKeeps ==
    ASSUME IInv, ConnectionEstablished
    PROVE  IInv'
<1>1. /\ vopt' = vopt /\ vsess' = vsess /\ linked' = linked /\ early' = early /\ vpost' = FALSE
  BY DEF ConnectionEstablished
<1>2. /\ vopt \in VerifyOptions /\ linked \in BOOLEAN /\ established \in BOOLEAN
      /\ early \in BOOLEAN /\ locked_cn \in VName /\ (Unnamed => locked_cn \in {Nobody, BlankName})
      /\ TableOK(vsess) /\ IdentityOK(vsess, locked_cn, early)
      /\ ~DECRYPT_KEY_ENABLED(vsess["TM_UNTRUSTED"].prim)
      /\ vsess["TM_ACTIVE"].prim.st = VS_ACTIVE => linked
      /\ ~early /\ established => locked_cn # Nobody
  BY DEF IInv
<1>3. tls_authenticated' <=> tls_authenticated
  BY <1>1 DEF tls_authenticated, KeyScan, DECRYPT_KEY_ENABLED
<1>4. /\ TableOK(vsess)' <=> TableOK(vsess)
      /\ Unnamed' <=> Unnamed
      /\ IdentityOK(vsess, locked_cn, early)' <=> IdentityOK(vsess, locked_cn', early)
  BY <1>1, SameOptions
<1>5. CASE ~(linked /\ ~established /\ tls_authenticated)
  <2>1. established' = established /\ locked_cn' = locked_cn
    BY <1>5 DEF ConnectionEstablished
  <2> QED
    BY <1>1, <1>2, <1>3, <1>4, <1>5, <2>1 DEF IInv, DECRYPT_KEY_ENABLED
<1>6. CASE (linked /\ ~established /\ tls_authenticated) /\ locked_cn # Nobody
  <2>1. established' = TRUE /\ locked_cn' = locked_cn
    BY <1>6 DEF ConnectionEstablished
  <2> QED
    BY <1>1, <1>2, <1>3, <1>4, <1>6, <2>1 DEF IInv, DECRYPT_KEY_ENABLED
<1>7. CASE (linked /\ ~established /\ tls_authenticated) /\ locked_cn = Nobody
  <2> DEFINE a == vsess["TM_ACTIVE"]
  <2>1. established' = TRUE /\ locked_cn' = a.common_name
    BY <1>7 DEF ConnectionEstablished
  <2>2. SessionOK(a) /\ a \in VSessions
    BY <1>2 DEF TableOK, VerifySession
  <2>3. locked_cn' \in VName /\ (Unnamed => locked_cn' \in {Nobody, BlankName})
    BY <2>1, <2>2 DEF VSessions, SessionOK
  <2>4. \A i \in VerifySession : i # "TM_ACTIVE" => ~Carries(vsess[i].prim)
    BY <1>2 DEF TableOK, VerifySession, Carries, DECRYPT_KEY_ENABLED, VSessions, VKeys
  <2>5. Carries(a.prim) => a.common_name = ProvedName(a.prim)
    BY <1>2 DEF IdentityOK, NamesOK, VerifySession
  <2>6. NamesOK(vsess, locked_cn')
    BY <2>1, <2>4, <2>5 DEF NamesOK
  <2>7. ASSUME ~early PROVE locked_cn' # Nobody /\ LameOK(vsess, locked_cn') /\ CutOK(vsess, locked_cn')
    <3>1. \A i \in VerifySession : ~Carries(vsess[i].lame)
      BY <1>2, <1>7, <2>7 DEF IdentityOK, LameOK
    <3>2. Carries(a.prim)
      BY <1>7, <3>1 DEF tls_authenticated, KeyScan, Carries, VerifySession
    <3>3. ProvedName(a.prim) # Nobody
      BY <2>2, <3>2, VerifyAssumption DEF ProvedName, SessionOK, KeyOK, Carries
    <3>4. CutOK(vsess, locked_cn')
      BY <1>2, <2>1, <2>5, <3>2 DEF CutOK
    <3> QED
      BY <2>1, <2>5, <3>1, <3>2, <3>3, <3>4 DEF LameOK
  <2>8. IdentityOK(vsess, locked_cn', early)
    BY <2>6, <2>7 DEF IdentityOK
  <2> QED
    BY <1>1, <1>2, <1>3, <1>4, <2>1, <2>3, <2>7, <2>8 DEF IInv, DECRYPT_KEY_ENABLED
<1> QED
  BY <1>5, <1>6, <1>7

LEMMA NextIInv == IInv /\ [VerifyNext]_verifyVars => IInv'
<1> SUFFICES ASSUME IInv, [VerifyNext]_verifyVars PROVE IInv'
  OBVIOUS
<1>1. ASSUME NEW i \in {"TM_ACTIVE", "TM_UNTRUSTED"},
             BeginHandshake(i) \/ VerifyCertificate(i) \/ ReceiveKey(i) \/ HandshakeTimeout(i)
      PROVE  IInv'
  BY <1>1, BeginHandshakeKeeps, VerifyCertificateKeeps, ReceiveKeyKeeps, HandshakeTimeoutKeeps
<1>2. CASE KeySent \/ KeyAcked \/ SoftReset \/ LameDuckDies \/ ConnectionEstablished
  BY <1>2, KeySentKeeps, KeyAckedKeeps, SoftResetKeeps, LameDuckDiesKeeps, EstablishedKeeps
<1>3. CASE UNCHANGED verifyVars
  <2>1. /\ vopt' = vopt /\ vsess' = vsess /\ linked' = linked /\ early' = early /\ vpost' = vpost
        /\ locked_cn' = locked_cn /\ established' = established
    BY <1>3 DEF verifyVars
  <2>2. TableOK(vsess)' /\ IdentityOK(vsess, locked_cn, early)' /\ (Unnamed' <=> Unnamed)
    BY <2>1, SameOptions DEF IInv
  <2> QED
    BY <2>1, <2>2 DEF IInv, DECRYPT_KEY_ENABLED, tls_authenticated, KeyScan
<1> QED
  BY <1>1, <1>2, <1>3 DEF VerifyNext

\* The inductive invariant is what VerifyInv needs.
LEMMA IInvImplies == IInv => VerifyInv
<1> SUFFICES ASSUME IInv PROVE VerifyInv
  OBVIOUS
<1>1. TableOK(vsess) /\ IdentityOK(vsess, locked_cn, early) /\ locked_cn \in VName
  BY DEF IInv
<1>2. \A i \in VerifySession : SessionOK(vsess[i]) /\ vsess[i] \in VSessions
  BY <1>1 DEF TableOK
<1>3. VerifyTypeOK
  <2> SUFFICES ASSUME NEW i \in VerifySession
               PROVE  /\ vsess[i].common_name \in VName /\ vsess[i].verified \in BOOLEAN
                      /\ vsess[i].prim.st \in VS_ERROR .. VS_ACTIVE
                      /\ vsess[i].lame.st \in VS_UNDEF .. VS_ACTIVE
    BY <1>1 DEF VerifyTypeOK
  <2> QED
    BY <1>2 DEF VSessions, VKeys, VLameKeys
<1>4. KeyProved
  BY <1>2 DEF KeyProved, SessionOK, KeyOK
<1>5. NameCurrent
  BY <1>1 DEF NameCurrent, IdentityOK, NamesOK, Carries, VerifySession
<1>6. OneIdentity
  BY <1>1 DEF OneIdentity, IdentityOK, NamesOK, LameOK, Carries, VerifySession, KeyScan
<1>7. TunnelCut
  BY <1>1 DEF TunnelCut, IdentityOK, CutOK, Carries, KeyScan, tls_authenticated
<1> QED
  BY <1>3, <1>4, <1>5, <1>6, <1>7 DEF VerifyInv

\* Through all handshakes of a client, whatever is configured: a key carries data only if
\* its own handshake passed every check; with the name locked all keys are of that name,
\* and the name that the server goes by is the one that the active key proved.
THEOREM VerifyCorrect == VerifySpec => []VerifyInv
<1>1. VerifySpec => []IInv
  BY InitIInv, NextIInv, PTL DEF VerifySpec
<1> QED
  BY <1>1, IInvImplies, PTL

-----------------------------------------------------------------------------
(***************************************************************************)
(* The event loop.  What the wait may last is computed in several places,  *)
(* from timers that later places start or move.  The inductive invariant   *)
(* LoopState says, for each place in the round, which timers the wait      *)
(* computed so far already serves, and that the cached wakeup of the       *)
(* coarse timers serves all of them, so that a round which skips the look  *)
(* at the timers loses nothing.                                            *)
(***************************************************************************)

TimerRec == [def : BOOLEAN, n : Nat, last : 0 .. MaxTime]
TmpRec == [future : Nat, action : Nat, tested : Nat]
LoopSignals == {None, "TERM", "USR1"} \cup Signals
CtxFields ==
    [to_link : {None, "data", "frag", "ping", "occ", "tls"}, to_tun : {None, "data"}, frag : 0 .. 1,
     occ_op : {None, "request", "reply", "load", "exit"}, occ_tries : Nat, load_tries : 0 .. LoadTests,
     tm : [Timers -> TimerRec], coarse : Nat, tv : Nat, tmp : TmpRec,
     ctl_out : 0 .. 1, rx : {None} \cup Control, ctl_in : {None, "PUSH_REPLY", "AUTH_FAILED"}, wake : Nat,
     addr : BOOLEAN, conn : BOOLEAN, up : BOOLEAN, tun : BOOLEAN, residual : {None, "whole", "formed"},
     shaper : Nat, exit_wait : Nat, sig : LoopSignals]

\* How late a timer may be served because what it does has to wait.
GraceOf(x, t) ==
    CASE t = "ping_send" /\ (ToLinkDef(x) \/ (cfg.frag /\ (cfg.tls \/ ~ cfg.remote))) -> 1
      [] t = "ping_rec" /\ cfg.timer_remote /\ ~ cfg.remote -> 15
      [] OTHER -> 0

\* SIGUSR2 makes the loop start a round again without having looked at all the timers.
Undisturbed == "USR2" \notin Signals

\* A wakeup at time w serves the timer: it is not later than the deadline, or than its grace. The timer of the
\* exit notifications has none.
Serves(x, t, w) == Undisturbed /\ x.tm[t].def => w <= Deadline(x, t) \/ (t # "exit" /\ w <= now + GraceOf(x, t))
Covered(x, S) == \A t \in S : Serves(x, t, now + x.tv)
CachedOK(x) == \A t \in Timers : Serves(x, t, x.coarse)

\* What holds of the context at every point of the loop.
TimersSane(x) ==
    /\ \A t \in Timers : x.tm[t].last <= now
    /\ x.tm["ping_send"].def => x.tm["ping_send"].n >= 1
    /\ x.tm["exit"].def => x.tm["exit"].n = 1 /\ x.exit_wait # 0
    /\ Undisturbed /\ x.exit_wait # 0 /\ x.sig = None => x.tm["exit"].def /\ x.tm["exit"].last < x.exit_wait + cfg.exit_notify
Sane(x) ==
    /\ x \in CtxFields
    /\ TimersSane(x)
    /\ x.to_tun # None => x.tun
    /\ x.residual = "formed" => x.to_tun = None
    /\ x.frag # 0 => cfg.frag
    /\ x.rx # None => cfg.tls /\ x.tmp.action = now
    /\ x.ctl_in # None \/ x.rx \in {"PUSH_REPLY", "AUTH_FAILED"} => cfg.pull
    /\ x.tmp.tested <= now
    /\ cfg.tls => x.wake = x.tmp.future
    /\ cfg.remote => x.addr
    /\ x.exit_wait <= now

\* Before TLS was first served it is still the first second, so that it is served at once.
FirstRound(x, p) ==
    cfg.tls /\ x.tmp.future = 0 =>
      now = 1 /\ (p \in {"coarse", "coarse2", "coarse3", "tls"} \/ (p \in {"post", "end"} /\ x.sig # None))

\* With --pull the timers may be started after the wait was computed; that of the exit notifications is not.
Exact == IF cfg.pull THEN {"exit"} ELSE Timers

\* How long the wait may last so far.
Early == {"persist", "connect", "push", "inactive"}
Awake(x, p) ==
    /\ p = "coarse2" => Covered(x, Early)
    /\ p = "coarse3" => Covered(x, Early \cup {"ping_rec"})
    /\ p \in {"tls", "ctl"} => Covered(x, Timers)
    /\ p = "post" => Covered(x, Exact)
    /\ p \notin {"coarse2", "coarse3"} => CachedOK(x)
    /\ p \in {"ctl", "post"} /\ cfg.tls => x.tv <= cfg.refresh /\ now + x.tv <= x.wake

\* Nothing is left that the wait does not know of.
Ready(x) ==
    /\ x.frag # 0 => x.to_link # None
    /\ x.rx = None /\ x.ctl_in = None
Served(x, p) ==
    /\ p = "ctl" => x.rx = None
    /\ p = "post" /\ x.sig = None => Ready(x) /\ (x.occ_op # None => x.tv = 0)
    /\ p \in {"wait", "post2"} => x.rx = None

\* What a step has to establish of the context it leaves.
StateOf(x, p) ==
    /\ Sane(x) /\ FirstRound(x, p)
    /\ x.sig = None => Awake(x, p)
    /\ Served(x, p)

\* The wait the loop is in.
Asleep ==
    pc = "wait" =>
      /\ Ready(c) /\ req = Wanted /\ until \in Nat
      /\ c.occ_op # None => until <= now
      /\ c.to_link # None /\ Shaped => until <= c.shaper
      /\ Undisturbed /\ c.exit_wait # 0 => until <= c.exit_wait + cfg.exit_notify
      /\ c.sig = None => \A t \in Exact : Serves(c, t, until)
      /\ cfg.tls => until <= c.wake /\ until <= now + cfg.refresh
Events ==
    pc = "post2" =>
      /\ "tunW" \in status => c.to_tun # None
      /\ "sockR" \in status => c.to_tun = None
      /\ "tunR" \in status => c.to_link = None /\ c.frag = 0

Places == {"coarse", "coarse2", "coarse3", "tls", "ctl", "post", "wait", "post2", "post3", "end"}
LoopState ==
    /\ cfg \in Configs /\ now \in 1 .. MaxTime
    /\ pc \in Places
    /\ StateOf(c, pc)
    /\ Asleep
    /\ Events

\* The smaller of two, and the larger.
LEMMA MinTwo == ASSUME NEW a \in Int, NEW b \in Int PROVE Min({a, b}) = IF a <= b THEN a ELSE b
<1> DEFINE m == IF a <= b THEN a ELSE b
<1>1. m \in {a, b} /\ \A y \in {a, b} : m <= y
  OBVIOUS
<1>2. \A x \in {a, b} : (\A y \in {a, b} : x <= y) => x = m
  OBVIOUS
<1> HIDE DEF m
<1>3. (CHOOSE x \in {a, b} : \A y \in {a, b} : x <= y) = m
  BY <1>1, <1>2
<1> QED
  BY <1>3 DEF Min, m

LEMMA MaxTwo == ASSUME NEW a \in Int, NEW b \in Int PROVE Max({a, b}) = IF a <= b THEN b ELSE a
<1> DEFINE m == IF a <= b THEN b ELSE a
<1>1. m \in {a, b} /\ \A y \in {a, b} : m >= y
  OBVIOUS
<1>2. \A x \in {a, b} : (\A y \in {a, b} : x >= y) => x = m
  OBVIOUS
<1> HIDE DEF m
<1>3. (CHOOSE x \in {a, b} : \A y \in {a, b} : x >= y) = m
  BY <1>1, <1>2
<1> QED
  BY <1>3 DEF Max, m

\* The wait is shortened, never lengthened.
LEMMA RescheduleIs ==
    ASSUME NEW x \in CtxFields, NEW sec \in Int
    PROVE  \E v \in Nat : RescheduleSec(x, sec) = [x EXCEPT !.tv = v] /\ v <= x.tv /\ (sec >= 0 => v <= sec)
                          /\ (sec < 0 => v = 0)
<1> DEFINE p == IF sec < 0 THEN 0 ELSE sec
           v == Min({x.tv, p})
<1>1. p \in Int /\ x.tv \in Nat /\ p >= 0 /\ (sec >= 0 => p = sec) /\ (sec < 0 => p = 0)
  BY DEF CtxFields
<1>2. RescheduleSec(x, sec) = [x EXCEPT !.tv = v]
  BY DEF RescheduleSec
<1> HIDE DEF p
<1>3. v = IF x.tv <= p THEN x.tv ELSE p
  BY <1>1, MinTwo
<1> HIDE DEF v
<1>4. v \in Nat /\ v <= x.tv /\ (sec >= 0 => v <= sec) /\ (sec < 0 => v = 0)
  BY <1>1, <1>3
<1> QED
  BY <1>2, <1>4

\* What event_timeout_trigger does to the timer and to the wait.
Triggered(x, t, retry, m, v) ==
    /\ m \in [Timers -> TimerRec] /\ v \in Nat /\ v <= x.tv
    /\ \A s \in Timers \ {t} : m[s] = x.tm[s]
    /\ m[t].def = x.tm[t].def /\ m[t].n = x.tm[t].n
    /\ m[t].last = IF Fires(x, t, retry) THEN now ELSE x.tm[t].last
    /\ m[t].def => \/ now + v <= m[t].last + m[t].n
                   \/ Due(x, t) /\ retry >= 0 /\ v <= retry

\* event_timeout_trigger sets at most the last time of its timer, and shortens the wait to what is left of it.
LEMMA TriggerIs ==
    ASSUME NEW x \in CtxFields, now \in 1 .. MaxTime, NEW t \in Timers, NEW retry \in Int
    PROVE  \E m, v : Trigger(x, t, retry) = [x EXCEPT !.tm = m, !.tv = v] /\ Triggered(x, t, retry, m, v)
<1> USE TunnelAssumption
<1>0. /\ x.tm \in [Timers -> TimerRec] /\ x.tv \in Nat /\ x.tm[t].def \in BOOLEAN /\ x.tm[t].n \in Nat
      /\ x.tm[t].last \in 0 .. MaxTime /\ x.tm[t] \in TimerRec /\ now \in Nat /\ Deadline(x, t) \in Nat
      /\ Deadline(x, t) = x.tm[t].last + x.tm[t].n
  BY DEF CtxFields, TimerRec, Deadline
<1>1. CASE ~x.tm[t].def
  <2>1. Trigger(x, t, retry) = [x EXCEPT !.tm = x.tm, !.tv = x.tv]
    BY <1>1 DEF Trigger, CtxFields
  <2>2. Triggered(x, t, retry, x.tm, x.tv)
    BY <1>0, <1>1 DEF Triggered, Fires, Due
  <2> QED
    BY <2>1, <2>2
<1>2. CASE x.tm[t].def /\ ~Due(x, t)
  <2>1. Trigger(x, t, retry) = RescheduleSec(x, Deadline(x, t) - now)
    BY <1>2 DEF Trigger
  <2>2. Deadline(x, t) - now \in Int /\ Deadline(x, t) - now >= 0
    BY <1>0, <1>2 DEF Due
  <2>3. PICK v \in Nat : /\ RescheduleSec(x, Deadline(x, t) - now) = [x EXCEPT !.tv = v] /\ v <= x.tv
                         /\ v <= Deadline(x, t) - now
    BY <2>2, RescheduleIs
  <2>4. Triggered(x, t, retry, x.tm, v)
    BY <1>0, <1>2, <2>3 DEF Triggered, Fires
  <2>5. [x EXCEPT !.tv = v] = [x EXCEPT !.tm = x.tm, !.tv = v]
    BY DEF CtxFields
  <2> QED
    BY <2>1, <2>3, <2>4, <2>5
<1>3. CASE x.tm[t].def /\ Due(x, t) /\ retry >= 0
  <2>1. Trigger(x, t, retry) = RescheduleSec(x, retry)
    BY <1>3 DEF Trigger
  <2>3. PICK v \in Nat : RescheduleSec(x, retry) = [x EXCEPT !.tv = v] /\ v <= x.tv /\ v <= retry
    BY <1>3, RescheduleIs
  <2>4. Triggered(x, t, retry, x.tm, v)
    BY <1>0, <1>3, <2>3 DEF Triggered, Fires
  <2>5. [x EXCEPT !.tv = v] = [x EXCEPT !.tm = x.tm, !.tv = v]
    BY DEF CtxFields
  <2> QED
    BY <2>1, <2>3, <2>4, <2>5
<1>4. CASE x.tm[t].def /\ Due(x, t) /\ retry < 0
  <2> DEFINE m == [x.tm EXCEPT ![t] = [x.tm[t] EXCEPT !.last = now]]
             y == [x EXCEPT !.tm = m]
  <2>1. Trigger(x, t, retry) = RescheduleSec(y, x.tm[t].n)
    BY <1>4, <1>0 DEF Trigger, CtxFields
  <2>2. /\ m \in [Timers -> TimerRec] /\ m[t].def = TRUE /\ m[t].n = x.tm[t].n /\ m[t].last = now
        /\ \A s \in Timers \ {t} : m[s] = x.tm[s]
    BY <1>0, <1>4 DEF TimerRec
  <2> HIDE DEF m
  <2>3. y \in CtxFields /\ y.tv = x.tv
    BY <2>2 DEF CtxFields
  <2> HIDE DEF y
  <2> DEFINE n == x.tm[t].n
  <2>n. n \in Int /\ n >= 0 /\ n \in Nat
    BY <1>0
  <2> HIDE DEF n
  <2>4. PICK v \in Nat : RescheduleSec(y, n) = [y EXCEPT !.tv = v] /\ v <= y.tv /\ v <= n
    BY <2>3, <2>n, RescheduleIs
  <2>5. [y EXCEPT !.tv = v] = [x EXCEPT !.tm = m, !.tv = v]
    BY DEF y, CtxFields
  <2>6. Triggered(x, t, retry, m, v)
    <3>1. m[t].last + m[t].n = now + n /\ now \in Nat /\ Fires(x, t, retry)
      BY <1>0, <1>4, <2>2 DEF n, Fires
    <3>2. now + v <= now + n
      BY <1>0, <2>n, <2>4
    <3> QED
      BY <1>4, <2>2, <2>3, <2>4, <3>1, <3>2 DEF Triggered
  <2> QED
    BY <2>1, <2>4, <2>5, <2>6 DEF n
<1>5. retry >= 0 \/ retry < 0
  OBVIOUS
<1>6. Due(x, t) => x.tm[t].def
  BY DEF Due
<1> QED
  BY <1>1, <1>2, <1>3, <1>4, <1>5, <1>6

-----------------------------------------------------------------------------
\* The loop runs with options the program accepts, within the bound of the clock.
Env == cfg \in Configs /\ now \in 1 .. MaxTime

\* The types of the options, in the form the steps use.
LEMMA EnvTypes ==
    ASSUME Env
    PROVE  /\ cfg.tls \in BOOLEAN /\ cfg.pull \in BOOLEAN /\ cfg.frag \in BOOLEAN /\ cfg.shaper \in Nat /\ cfg.ping \in Nat
           /\ cfg.ping_rec \in Nat /\ cfg.ping_action \in {"USR1", "TERM"} /\ cfg.inactive \in Nat /\ cfg.occ \in Nat
           /\ cfg.mtu_test \in Nat /\ cfg.exit_notify \in Nat /\ cfg.remote \in BOOLEAN /\ cfg.refresh \in Nat
           /\ cfg.refresh >= 1 /\ (cfg.pull => cfg.tls) /\ now \in Nat /\ now >= 1 /\ now <= MaxTime /\ MaxTime \in Nat
  BY TunnelAssumption DEF Env

\* A grace is a number of seconds.
LEMMA GraceType == ASSUME Env, NEW x, NEW t PROVE GraceOf(x, t) \in Nat
  BY EnvTypes DEF GraceOf

\* The wait is not lengthened and no deadline moves forward.
Keeps(x, y, E) ==
    /\ y.tv <= x.tv
    /\ \A s \in Timers \ E : y.tm[s].def => x.tm[s].def /\ Deadline(x, s) <= Deadline(y, s)
\* No packet is lost on the way, and TLS has not been served.
Holds(x, y) ==
    /\ y.to_tun = x.to_tun /\ y.tmp.future = x.tmp.future
    /\ ToLinkDef(x) => y.to_link = x.to_link /\ y.frag = x.frag

\* What the wait served is served after a step that only shortens it.
LEMMA CoveredKeeps ==
    ASSUME Env, NEW x \in CtxFields, NEW y \in CtxFields, NEW E, NEW S \in SUBSET (Timers \ E), Keeps(x, y, E),
           Covered(x, S), "ping_send" \notin S \/ (ToLinkDef(x) => ToLinkDef(y))
    PROVE  Covered(y, S)
<1> SUFFICES ASSUME NEW t \in S, y.tm[t].def PROVE Serves(y, t, now + y.tv)
  BY DEF Covered, Serves
<1>1. x.tm[t].def /\ Deadline(x, t) <= Deadline(y, t) /\ y.tv <= x.tv
  BY DEF Keeps
<1>2. Serves(x, t, now + x.tv)
  BY DEF Covered
<1>3. GraceOf(x, t) <= GraceOf(y, t)
  BY EnvTypes DEF GraceOf
<1>4. /\ GraceOf(x, t) \in Nat /\ GraceOf(y, t) \in Nat /\ Deadline(x, t) \in Nat /\ Deadline(y, t) \in Nat
      /\ x.tv \in Nat /\ y.tv \in Nat /\ now \in Nat
  BY EnvTypes, GraceType DEF Deadline, CtxFields, TimerRec
<1> QED
  BY <1>1, <1>2, <1>3, <1>4 DEF Serves

\* A look at a timer that needs nothing else.
LEMMA TriggerSane ==
    ASSUME Env, NEW x, Sane(x), NEW t \in Timers \ {"exit"}, NEW retry \in Int,
           retry < 0 \/ retry <= GraceOf(x, t)
    PROVE  LET y == Trigger(x, t, retry)
           IN  /\ Sane(y) /\ Keeps(x, y, {}) /\ Serves(y, t, now + y.tv)
               /\ y = [x EXCEPT !.tm = y.tm, !.tv = y.tv]
<1>0. now \in 1 .. MaxTime /\ x \in CtxFields
  BY DEF Env, Sane
<1>1. PICK m, v : Trigger(x, t, retry) = [x EXCEPT !.tm = m, !.tv = v] /\ Triggered(x, t, retry, m, v)
  BY <1>0, TriggerIs
<1> DEFINE y == [x EXCEPT !.tm = m, !.tv = v]
<1>2. y \in CtxFields /\ y.tm = m /\ y.tv = v
  BY <1>0, <1>1 DEF CtxFields, Triggered
<1>3. \A s \in Timers : x.tm[s] \in TimerRec /\ m[s] \in TimerRec
  BY <1>0, <1>1 DEF CtxFields, Triggered
<1>4. \A s \in Timers : m[s].def = x.tm[s].def /\ m[s].n = x.tm[s].n /\ x.tm[s].last <= m[s].last /\ m[s].last <= now
  <2> SUFFICES ASSUME NEW s \in Timers
               PROVE  m[s].def = x.tm[s].def /\ m[s].n = x.tm[s].n /\ x.tm[s].last <= m[s].last /\ m[s].last <= now
    OBVIOUS
  <2>1. x.tm[s].last <= now /\ x.tm[s].last \in Nat /\ now \in Nat
    BY <1>3, EnvTypes DEF Sane, TimersSane, TimerRec
  <2> QED
    BY <1>1, <2>1 DEF Triggered
<1>5. Sane(y)
  <2>1. TimersSane(y)
    <3>1. m["exit"] = x.tm["exit"] /\ y.exit_wait = x.exit_wait /\ y.sig = x.sig
      BY <1>0, <1>1 DEF Triggered, Timers, CtxFields
    <3>2. "ping_send" \in Timers /\ TimersSane(x)
      BY DEF Timers, Sane
    <3> HIDE DEF y
    <3> QED
      BY <1>2, <1>4, <3>1, <3>2 DEF TimersSane
  <2>2. /\ y.to_tun = x.to_tun /\ y.tun = x.tun /\ y.residual = x.residual /\ y.frag = x.frag /\ y.rx = x.rx
        /\ y.tmp = x.tmp /\ y.ctl_in = x.ctl_in /\ y.wake = x.wake /\ y.addr = x.addr /\ y.exit_wait = x.exit_wait
    BY <1>0 DEF CtxFields
  <2> HIDE DEF y
  <2> QED
    BY <1>2, <2>1, <2>2 DEF Sane
<1>6. Keeps(x, y, {})
  <2>1. v <= x.tv
    BY <1>1 DEF Triggered
  <2> HIDE DEF y
  <2> QED
    BY <1>2, <1>3, <1>4, <2>1 DEF Keeps, Deadline, TimerRec
<1>7. Serves(y, t, now + y.tv)
  <2>1. m[t].def => now + v <= m[t].last + m[t].n \/ (retry >= 0 /\ v <= retry)
    BY <1>1 DEF Triggered
  <2>2. GraceOf(y, t) = GraceOf(x, t)
    BY <1>0 DEF GraceOf, ToLinkDef, CtxFields
  <2>3. GraceOf(x, t) \in Nat /\ v \in Nat /\ now \in Nat /\ t # "exit"
    BY <1>1, GraceType, EnvTypes DEF Triggered
  <2>4. Deadline(y, t) = m[t].last + m[t].n
    BY <1>2 DEF Deadline
  <2> HIDE DEF y
  <2>5. retry >= 0 /\ v <= retry => v <= GraceOf(x, t)
    BY <2>3
  <2> QED
    BY <1>2, <2>1, <2>2, <2>3, <2>4, <2>5 DEF Serves
<1> QED
  BY <1>1, <1>2, <1>5, <1>6, <1>7

\* A change that leaves what the invariant speaks of.
LEMMA SaneFrame ==
    ASSUME Env, NEW x, Sane(x), NEW y \in CtxFields, TimersSane(y),
           y.to_tun = x.to_tun, x.tun => y.tun, y.residual = x.residual, y.frag = x.frag, y.rx = x.rx,
           y.tmp.action \in {x.tmp.action, now}, y.tmp.tested = x.tmp.tested, y.tmp.future = x.tmp.future,
           y.ctl_in = x.ctl_in, y.wake = x.wake, x.addr => y.addr, y.exit_wait = x.exit_wait
    PROVE  Sane(y)
  BY DEF Sane

\* Steps that only shorten the wait compose.
LEMMA KeepsTrans ==
    ASSUME NEW x \in CtxFields, NEW y \in CtxFields, NEW z \in CtxFields, NEW E, NEW F, Keeps(x, y, E), Keeps(y, z, F)
    PROVE  Keeps(x, z, E \cup F)
<1>1. x.tv \in Nat /\ y.tv \in Nat /\ z.tv \in Nat
  BY DEF CtxFields
<1>2. \A s \in Timers : Deadline(x, s) \in Nat /\ Deadline(y, s) \in Nat /\ Deadline(z, s) \in Nat
  BY DEF CtxFields, Deadline, TimerRec
<1>3. z.tv <= x.tv
  BY <1>1 DEF Keeps
<1> QED
  BY <1>2, <1>3 DEF Keeps

\* One timer that was served still is.
LEMMA ServesKeeps ==
    ASSUME Env, NEW x \in CtxFields, NEW y \in CtxFields, NEW E, NEW t \in Timers \ E, Keeps(x, y, E),
           Serves(x, t, now + x.tv), t # "ping_send" \/ (ToLinkDef(x) => ToLinkDef(y))
    PROVE  Serves(y, t, now + y.tv)
<1>1. Covered(x, {t}) /\ {t} \in SUBSET (Timers \ E)
  BY DEF Covered
<1>2. "ping_send" \notin {t} \/ (ToLinkDef(x) => ToLinkDef(y))
  OBVIOUS
<1>3. Covered(y, {t})
  BY <1>1, <1>2, CoveredKeeps
<1> QED
  BY <1>3 DEF Covered

\* A timer is set.
LEMMA SetTimer ==
    ASSUME Env, NEW x, Sane(x), NEW t \in Timers \ {"exit"}, NEW r \in TimerRec, r.last <= now,
           t = "ping_send" /\ r.def => r.n >= 1
    PROVE  LET y == [x EXCEPT !.tm[t] = r]
           IN  /\ Sane(y) /\ Keeps(x, y, {t}) /\ y.tm[t] = r /\ y = [x EXCEPT !.tm = y.tm]
               /\ \A s \in Timers \ {t} : y.tm[s] = x.tm[s]
<1> DEFINE m == [x.tm EXCEPT ![t] = r]
           y == [x EXCEPT !.tm = m]
<1>0. x \in CtxFields /\ x.tm \in [Timers -> TimerRec] /\ x.tv \in Nat
  BY DEF Sane, CtxFields
<1>1. [x EXCEPT !.tm[t] = r] = y
  BY <1>0 DEF CtxFields
<1>2. m \in [Timers -> TimerRec] /\ m[t] = r /\ \A s \in Timers \ {t} : m[s] = x.tm[s]
  BY <1>0
<1>3. y \in CtxFields /\ y.tm = m
  BY <1>0, <1>2 DEF CtxFields
<1>4. /\ y.to_tun = x.to_tun /\ y.tun = x.tun /\ y.residual = x.residual /\ y.frag = x.frag /\ y.rx = x.rx
      /\ y.tmp = x.tmp /\ y.ctl_in = x.ctl_in /\ y.wake = x.wake /\ y.addr = x.addr /\ y.exit_wait = x.exit_wait
      /\ y.sig = x.sig /\ y.tv = x.tv
  BY <1>0 DEF CtxFields
<1> HIDE DEF y, m
<1>5. TimersSane(y)
  <2>1. m["exit"] = x.tm["exit"] /\ "ping_send" \in Timers /\ TimersSane(x)
    BY <1>2 DEF Timers, Sane
  <2>2. \A s \in Timers : m[s].last <= now
    BY <1>2, <2>1 DEF TimersSane
  <2>3. m["ping_send"].def => m["ping_send"].n >= 1
    BY <1>2, <2>1 DEF TimersSane
  <2> QED
    BY <1>3, <1>4, <2>1, <2>2, <2>3 DEF TimersSane
<1>6. Sane(y)
  BY <1>3, <1>4, <1>5, SaneFrame
<1>7. Keeps(x, y, {t})
  <2>1. \A s \in Timers : Deadline(x, s) \in Nat
    BY <1>0 DEF Deadline, TimerRec
  <2>2. \A s \in Timers \ {t} : Deadline(y, s) = Deadline(x, s)
    BY <1>2, <1>3 DEF Deadline
  <2> QED
    BY <1>0, <1>2, <1>3, <1>4, <2>1, <2>2 DEF Keeps
<1>8. y = [x EXCEPT !.tm = m]
  BY DEF y
<1> QED
  BY <1>1, <1>2, <1>3, <1>6, <1>7, <1>8

\* event_timeout_clear.
LEMMA ClearTimer ==
    ASSUME Env, NEW x, Sane(x), NEW t \in Timers \ {"exit"}
    PROVE  LET y == TimerClear(x, t)
           IN  Sane(y) /\ Keeps(x, y, {}) /\ ~ y.tm[t].def /\ y = [x EXCEPT !.tm = y.tm]
<1>1. Off \in TimerRec /\ Off.last <= now /\ ~ Off.def
  BY EnvTypes DEF Off, TimerRec
<1> DEFINE y == [x EXCEPT !.tm[t] = Off]
<1>2. Sane(y) /\ Keeps(x, y, {t}) /\ y.tm[t] = Off /\ y = [x EXCEPT !.tm = y.tm]
  BY <1>1, SetTimer
<1> HIDE DEF y
<1>3. Keeps(x, y, {})
  BY <1>1, <1>2 DEF Keeps
<1> QED
  BY <1>1, <1>2, <1>3 DEF TimerClear, y

\* event_timeout_reset.
LEMMA ResetTimer ==
    ASSUME Env, NEW x, Sane(x), NEW t \in Timers \ {"exit"}
    PROVE  LET y == TimerReset(x, t)
           IN  /\ Sane(y) /\ Keeps(x, y, {}) /\ y = [x EXCEPT !.tm = y.tm]
               /\ y.tm[t].def => y.tm[t].last = now
<1>0. x \in CtxFields /\ x.tm[t] \in TimerRec /\ now \in 0 .. MaxTime /\ x.tm[t].last <= now /\ x.tm \in [Timers -> TimerRec]
  BY EnvTypes DEF Sane, CtxFields, TimersSane
<1>1. CASE ~ x.tm[t].def
  <2>1. TimerReset(x, t) = x
    BY <1>1 DEF TimerReset
  <2>2. x = [x EXCEPT !.tm = x.tm]
    BY <1>0 DEF CtxFields
  <2>3. Keeps(x, x, {})
    BY <1>0 DEF Keeps, Deadline, CtxFields, TimerRec
  <2> QED
    BY <1>1, <2>1, <2>2, <2>3
<1>2. CASE x.tm[t].def
  <2> DEFINE r == [x.tm[t] EXCEPT !.last = now]
             y == [x EXCEPT !.tm[t] = r]
  <2>1. TimerReset(x, t) = y
    BY <1>0, <1>2 DEF TimerReset, CtxFields
  <2>2. r \in TimerRec /\ r.last = now /\ r.n = x.tm[t].n /\ r.def = x.tm[t].def /\ r.last <= now
    BY <1>0, EnvTypes DEF TimerRec
  <2>3. t = "ping_send" /\ r.def => r.n >= 1
    BY <2>2 DEF Sane, TimersSane
  <2> HIDE DEF r
  <2>4. Sane(y) /\ Keeps(x, y, {t}) /\ y.tm[t] = r /\ y = [x EXCEPT !.tm = y.tm]
    BY <2>2, <2>3, SetTimer
  <2> HIDE DEF y
  <2>5. Deadline(x, t) <= Deadline(y, t)
    BY <1>0, <2>2, <2>4 DEF Deadline, TimerRec
  <2>6. Keeps(x, y, {})
    BY <1>2, <2>4, <2>5 DEF Keeps
  <2> QED
    BY <2>1, <2>2, <2>4, <2>6
<1> QED
  BY <1>1, <1>2

-----------------------------------------------------------------------------
\* What a look at one timer does: the timer is covered, and so is what was.
Looked(x, y, t, E) == Sane(y) /\ Keeps(x, y, E) /\ Serves(y, t, now + y.tv) /\ Holds(x, y)

\* A step that sets timers and the wait leaves every packet where it is.
LEMMA OnlyTimers ==
    ASSUME NEW x \in CtxFields, NEW y, y = [x EXCEPT !.tm = y.tm, !.tv = y.tv]
    PROVE  /\ Holds(x, y) /\ y.to_link = x.to_link /\ y.frag = x.frag /\ y.sig = x.sig /\ y.conn = x.conn
           /\ y.occ_op = x.occ_op /\ y.exit_wait = x.exit_wait /\ y.addr = x.addr
           /\ (y \in CtxFields => y.load_tries \in 0 .. LoadTests)
<1> DEFINE m == y.tm
           v == y.tv
<1>1. y = [x EXCEPT !.tm = m, !.tv = v]
  OBVIOUS
<1> HIDE DEF m, v
<1>2. /\ y.to_tun = x.to_tun /\ y.tmp = x.tmp /\ y.to_link = x.to_link /\ y.frag = x.frag /\ y.sig = x.sig
      /\ y.conn = x.conn /\ y.occ_op = x.occ_op /\ y.exit_wait = x.exit_wait /\ y.addr = x.addr
  BY <1>1 DEF CtxFields
<1>3. y \in CtxFields => y.load_tries \in 0 .. LoadTests
  BY DEF CtxFields
<1> QED
  BY <1>2, <1>3 DEF Holds, ToLinkDef

\* What a due timer does next.
LEMMA LookThen ==
    ASSUME Env, NEW x, Sane(x), NEW t \in Timers \ {"exit"}, NEW retry \in Int,
           retry < 0 \/ retry <= GraceOf(x, t), NEW z, NEW E,
           t \notin E \/ Serves(z, t, now + z.tv),
           LET y == Trigger(x, t, retry)
           IN  z = y \/ (Sane(z) /\ Keeps(y, z, E) /\ Holds(y, z) /\ (t # "ping_send" \/ Serves(z, t, now + z.tv)))
    PROVE  Looked(x, z, t, E)
<1> DEFINE y == Trigger(x, t, retry)
<1>1. Sane(y) /\ Keeps(x, y, {}) /\ Serves(y, t, now + y.tv) /\ y = [x EXCEPT !.tm = y.tm, !.tv = y.tv]
  BY TriggerSane
<1>2. z = y \/ (Sane(z) /\ Keeps(y, z, E) /\ Holds(y, z) /\ (t # "ping_send" \/ Serves(z, t, now + z.tv)))
  OBVIOUS
<1> HIDE DEF y
<1>3. x \in CtxFields /\ y \in CtxFields
  BY <1>1 DEF Sane
<1>4. Holds(x, y)
  BY <1>1, <1>3, OnlyTimers
<1>5. CASE z = y
  BY <1>1, <1>4, <1>5 DEF Looked, Keeps
<1>6. CASE Sane(z) /\ Keeps(y, z, E) /\ Holds(y, z) /\ (t # "ping_send" \/ Serves(z, t, now + z.tv))
  <2>1. z \in CtxFields
    BY <1>6 DEF Sane
  <2>2. {} \cup E = E
    OBVIOUS
  <2>3. Keeps(x, z, {} \cup E)
    BY <1>1, <1>3, <1>6, <2>1, KeepsTrans
  <2>4. Serves(z, t, now + z.tv)
    <3>1. CASE t \in E \/ t = "ping_send"
      BY <3>1, <1>6
    <3>2. CASE t \notin E /\ t # "ping_send"
      BY <3>2, <1>1, <1>3, <1>6, <2>1, ServesKeeps
    <3> QED
      BY <3>1, <3>2
  <2>5. Holds(x, z)
    BY <1>4, <1>6 DEF Holds, ToLinkDef
  <2> QED
    BY <1>6, <2>2, <2>3, <2>4, <2>5 DEF Looked
<1> QED
  BY <1>2, <1>5, <1>6

\* Fields that no timer depends on.
LEMMA SideEffect ==
    ASSUME Env, NEW x, Sane(x), NEW y \in CtxFields, y.tm = x.tm, y.tv <= x.tv, y.to_link = x.to_link,
           y.to_tun = x.to_tun, x.tun => y.tun, y.residual = x.residual, y.frag = x.frag, y.rx = x.rx,
           y.tmp.action \in {x.tmp.action, now}, y.tmp.tested = x.tmp.tested, y.tmp.future = x.tmp.future,
           y.ctl_in = x.ctl_in, y.wake = x.wake, x.addr => y.addr, y.exit_wait = x.exit_wait,
           y.sig = None => x.sig = None
    PROVE  Sane(y) /\ Keeps(x, y, {}) /\ Holds(x, y)
<1>1. TimersSane(y)
  BY DEF Sane, TimersSane
<1>2. Sane(y)
  BY <1>1, SaneFrame
<1>3. \A s \in Timers : Deadline(x, s) \in Nat /\ Deadline(y, s) = Deadline(x, s)
  BY DEF Sane, CtxFields, TimerRec, Deadline
<1>4. Keeps(x, y, {})
  BY <1>3 DEF Keeps
<1>5. Holds(x, y)
  BY DEF Holds, ToLinkDef
<1> QED
  BY <1>2, <1>4, <1>5

\* A signal the loop raises for itself.
LEMMA RaiseSane ==
    ASSUME Env, NEW x, Sane(x), NEW s \in LoopSignals \ {None}
    PROVE  LET y == Raise(x, s) IN Sane(y) /\ Keeps(x, y, {}) /\ Holds(x, y) /\ y.sig = s
<1> DEFINE y == [x EXCEPT !.sig = s]
<1>0. x \in CtxFields
  BY DEF Sane
<1>1. /\ y \in CtxFields /\ y.tm = x.tm /\ y.tv = x.tv /\ y.to_link = x.to_link /\ y.to_tun = x.to_tun /\ y.tun = x.tun
      /\ y.residual = x.residual /\ y.frag = x.frag /\ y.rx = x.rx /\ y.tmp = x.tmp /\ y.ctl_in = x.ctl_in
      /\ y.wake = x.wake /\ y.addr = x.addr /\ y.exit_wait = x.exit_wait /\ y.sig = s /\ y.tv <= x.tv
  BY <1>0 DEF CtxFields
<1> HIDE DEF y
<1>2. Sane(y) /\ Keeps(x, y, {}) /\ Holds(x, y)
  BY <1>1, SideEffect
<1> QED
  BY <1>1, <1>2 DEF Raise, y

\* The names of the timers are distinct.
LEMMA TimerNames ==
    /\ {"persist", "connect", "push", "inactive", "ping_rec", "occ", "load", "ping_send"} = Timers \ {"exit"}
    /\ "exit" \in Timers
  BY DEF Timers

\* The look at each timer of check_coarse_timers leaves the wait serving it.
LEMMA LookPersist == ASSUME Env, NEW x, Sane(x) PROVE Looked(x, CheckPersist(x), "persist", {})
<1>1. CheckPersist(x) = Trigger(x, "persist", -1)
  BY DEF CheckPersist, WhenDue, ETT_DEFAULT
<1> QED
  BY <1>1, LookThen, TimerNames

LEMMA LookInactive == ASSUME Env, NEW x, Sane(x) PROVE Looked(x, CheckInactive(x), "inactive", {})
<1> DEFINE y == Trigger(x, "inactive", -1)
<1>1. CheckInactive(x) \in {y, Raise(y, "TERM")}
  BY DEF CheckInactive, WhenDue, ETT_DEFAULT
<1>2. Sane(y)
  <2>1. "inactive" \in Timers \ {"exit"} /\ -1 \in Int /\ -1 < 0
    BY TimerNames
  <2> QED
    BY <2>1, TriggerSane
<1>3. Sane(Raise(y, "TERM")) /\ Keeps(y, Raise(y, "TERM"), {}) /\ Holds(y, Raise(y, "TERM"))
  BY <1>2, RaiseSane DEF LoopSignals, None
<1> QED
  BY <1>1, <1>3, LookThen, TimerNames

LEMMA LookPingRestart == ASSUME Env, NEW x, Sane(x) PROVE Looked(x, CheckPingRestart(x), "ping_rec", {})
<1> DEFINE retry == IF ~ cfg.timer_remote \/ x.addr THEN -1 ELSE 15
           y == Trigger(x, "ping_rec", retry)
           z == Raise(y, cfg.ping_action)
<1>1. CheckPingRestart(x) \in {y, z}
  BY DEF CheckPingRestart, WhenDue, ETT_DEFAULT
<1>2. retry \in Int /\ (retry < 0 \/ retry <= GraceOf(x, "ping_rec"))
  BY EnvTypes DEF GraceOf, Sane
<1> HIDE DEF retry
<1>3. Sane(y)
  BY <1>2, TriggerSane, TimerNames
<1>4. cfg.ping_action \in LoopSignals \ {None}
  BY EnvTypes DEF LoopSignals, None
<1>5. Sane(z) /\ Keeps(y, z, {}) /\ Holds(y, z)
  BY <1>3, <1>4, RaiseSane
<1> QED
  BY <1>1, <1>2, <1>5, LookThen, TimerNames

\* send_control_channel_string queues a message and wakes TLS.
LEMMA SendControlSane ==
    ASSUME Env, NEW x, Sane(x)
    PROVE  LET y == SendControl(x) IN Sane(y) /\ Keeps(x, y, {}) /\ Holds(x, y) /\ y.tv = 0 /\ y.sig = x.sig
<1>0. x \in CtxFields /\ x.tmp \in TmpRec /\ now \in Nat /\ x.tv \in Nat
  BY EnvTypes DEF Sane, CtxFields
<1> DEFINE p == [x.tmp EXCEPT !.action = now]
           y == [x EXCEPT !.ctl_out = 1, !.tv = 0, !.tmp = p]
<1>1. SendControl(x) = y
  BY <1>0 DEF SendControl, IntervalAction, CtxFields
<1>2. p \in TmpRec /\ p.action = now /\ p.tested = x.tmp.tested /\ p.future = x.tmp.future
  BY <1>0 DEF TmpRec
<1> HIDE DEF p
<1>y. y \in CtxFields
  <2>1. [x EXCEPT !.ctl_out = 1] \in CtxFields
    BY <1>0 DEF CtxFields
  <2>2. [[x EXCEPT !.ctl_out = 1] EXCEPT !.tmp = p, !.tv = 0] \in CtxFields
    BY <1>2, <2>1 DEF CtxFields
  <2> QED
    BY <2>2
<1>3. /\ y.tm = x.tm /\ y.tv = 0 /\ y.to_link = x.to_link /\ y.to_tun = x.to_tun /\ y.tun = x.tun
      /\ y.residual = x.residual /\ y.frag = x.frag /\ y.rx = x.rx /\ y.tmp = p /\ y.ctl_in = x.ctl_in
      /\ y.wake = x.wake /\ y.addr = x.addr /\ y.exit_wait = x.exit_wait /\ y.sig = x.sig
  BY <1>0, <1>2 DEF CtxFields
<1> HIDE DEF y
<1>t. y.tv <= x.tv
  BY <1>0, <1>3
<1>4. Sane(y) /\ Keeps(x, y, {}) /\ Holds(x, y)
  BY <1>2, <1>3, <1>y, <1>t, SideEffect
<1> QED
  BY <1>1, <1>3, <1>4

LEMMA LookPush == ASSUME Env, NEW x, Sane(x) PROVE Looked(x, CheckPush(x), "push", {})
<1> DEFINE y == Trigger(x, "push", -1)
<1>1. CheckPush(x) \in {y, SendControl(y)}
  BY DEF CheckPush, WhenDue, ETT_DEFAULT
<1>2. "push" \in Timers \ {"exit"} /\ -1 \in Int /\ -1 < 0
  BY TimerNames
<1>3. Sane(y)
  BY <1>2, TriggerSane
<1>4. Sane(SendControl(y)) /\ Keeps(y, SendControl(y), {}) /\ Holds(y, SendControl(y))
  BY <1>3, SendControlSane
<1> QED
  BY <1>1, <1>2, <1>4, LookThen

\* The cached wakeup is forgotten.
LEMMA ResetCoarseSane ==
    ASSUME Env, NEW x, Sane(x)
    PROVE  LET y == ResetCoarse(x)
           IN  /\ Sane(y) /\ Keeps(x, y, {}) /\ Holds(x, y) /\ y.sig = x.sig /\ y.coarse = 0 /\ y.tm = x.tm /\ y.tv = x.tv
               /\ y = [x EXCEPT !.coarse = 0]
<1> DEFINE y == [x EXCEPT !.coarse = 0]
<1>0. x \in CtxFields
  BY DEF Sane
<1>1. /\ y \in CtxFields /\ y.tm = x.tm /\ y.tv = x.tv /\ y.to_link = x.to_link /\ y.to_tun = x.to_tun /\ y.tun = x.tun
      /\ y.residual = x.residual /\ y.frag = x.frag /\ y.rx = x.rx /\ y.tmp = x.tmp /\ y.ctl_in = x.ctl_in
      /\ y.wake = x.wake /\ y.addr = x.addr /\ y.exit_wait = x.exit_wait /\ y.sig = x.sig /\ y.coarse = 0 /\ y.tv <= x.tv
  BY <1>0 DEF CtxFields
<1> HIDE DEF y
<1>2. Sane(y) /\ Keeps(x, y, {}) /\ Holds(x, y)
  BY <1>1, SideEffect
<1> QED
  BY <1>1, <1>2 DEF ResetCoarse, y

\* do_up opens the device.
LEMMA OpenSane ==
    ASSUME Env, NEW x, Sane(x)
    PROVE  LET y == [x EXCEPT !.up = TRUE, !.tun = TRUE] IN Sane(y) /\ Keeps(x, y, {}) /\ Holds(x, y) /\ y.tm = x.tm
<1> DEFINE y == [x EXCEPT !.up = TRUE, !.tun = TRUE]
<1>0. x \in CtxFields
  BY DEF Sane
<1>1. /\ y \in CtxFields /\ y.tm = x.tm /\ y.tv = x.tv /\ y.to_link = x.to_link /\ y.to_tun = x.to_tun /\ y.tun = TRUE
      /\ y.residual = x.residual /\ y.frag = x.frag /\ y.rx = x.rx /\ y.tmp = x.tmp /\ y.ctl_in = x.ctl_in
      /\ y.wake = x.wake /\ y.addr = x.addr /\ y.exit_wait = x.exit_wait /\ y.sig = x.sig
  BY <1>0 DEF CtxFields
<1> HIDE DEF y
<1>t. y.tv <= x.tv
  BY <1>0, <1>1 DEF CtxFields
<1>2. Sane(y) /\ Keeps(x, y, {}) /\ Holds(x, y)
  BY <1>1, <1>t, SideEffect
<1> QED
  BY <1>1, <1>2 DEF y

\* Packets that are held by two steps are held by both together.
LEMMA HoldsTrans == ASSUME NEW x, NEW y, NEW z, Holds(x, y), Holds(y, z) PROVE Holds(x, z)
  BY DEF Holds, ToLinkDef

\* Two changes, one after the other.
LEMMA ThenSane ==
    ASSUME NEW x, NEW y, NEW z, Sane(x), Sane(y), Sane(z), NEW E, NEW F, Keeps(x, y, E), Keeps(y, z, F), Holds(x, y), Holds(y, z)
    PROVE  Keeps(x, z, E \cup F) /\ Holds(x, z)
<1>1. x \in CtxFields /\ y \in CtxFields /\ z \in CtxFields
  BY DEF Sane
<1> QED
  BY <1>1, KeepsTrans, HoldsTrans

\* check_connection_established_dowork starts the push requests.
LEMMA ConnectDoworkSane ==
    ASSUME Env, NEW x, Sane(x)
    PROVE  LET z == ConnectDowork(x)
           IN  z = x \/ (Sane(z) /\ Keeps(x, z, {"push"}) /\ Holds(x, z) /\ ~ z.tm["connect"].def)
<1>1. CASE ~ x.conn
  BY <1>1 DEF ConnectDowork
<1>2. CASE x.conn
  <2> DEFINE Up == IF cfg.tls /\ cfg.pull THEN ResetCoarse(TimerInit(SendControl(x), "push", 5, now)) ELSE DoUp(x, FALSE)
  <2>1. ConnectDowork(x) = TimerClear(Up, "connect")
    BY <1>2 DEF ConnectDowork
  <2>2. Sane(Up) /\ Keeps(x, Up, {"push"}) /\ Holds(x, Up)
    <3>1. CASE cfg.tls /\ cfg.pull
      <4> DEFINE y == SendControl(x)
                 r == [def |-> TRUE, n |-> 5, last |-> now]
                 z == [y EXCEPT !.tm["push"] = r]
      <4>1. Sane(y) /\ Keeps(x, y, {}) /\ Holds(x, y)
        BY SendControlSane
      <4>2. r \in TimerRec /\ r.last <= now
        BY EnvTypes DEF TimerRec
      <4>3. "push" \in Timers \ {"exit"} /\ "push" # "ping_send"
        BY TimerNames
      <4> HIDE DEF y, r
      <4>4. Sane(z) /\ Keeps(y, z, {"push"}) /\ z = [y EXCEPT !.tm = z.tm]
        BY <4>1, <4>2, <4>3, SetTimer
      <4>5. Holds(y, z)
        <5>1. y \in CtxFields
          BY <4>1 DEF Sane
        <5> QED
          BY <5>1 DEF Holds, ToLinkDef, CtxFields
      <4> HIDE DEF z
      <4>6. Keeps(x, z, {} \cup {"push"}) /\ Holds(x, z)
        BY <4>1, <4>4, <4>5, ThenSane
      <4>7. Sane(ResetCoarse(z)) /\ Keeps(z, ResetCoarse(z), {}) /\ Holds(z, ResetCoarse(z))
        BY <4>4, ResetCoarseSane
      <4>8. Keeps(x, ResetCoarse(z), ({} \cup {"push"}) \cup {}) /\ Holds(x, ResetCoarse(z))
        BY <4>4, <4>6, <4>7, ThenSane
      <4>9. Up = ResetCoarse(z) /\ ({} \cup {"push"}) \cup {} = {"push"}
        BY <3>1 DEF TimerInit, z, r, y
      <4> QED
        BY <4>7, <4>8, <4>9
    <3>2. CASE ~ (cfg.tls /\ cfg.pull)
      <4> DEFINE y == [x EXCEPT !.up = TRUE, !.tun = TRUE]
      <4>1. Up = IF x.up THEN x ELSE ResetCoarse(y)
        BY <3>2 DEF DoUp
      <4>2. Sane(y) /\ Keeps(x, y, {}) /\ Holds(x, y)
        BY OpenSane
      <4> HIDE DEF y
      <4>3. Sane(ResetCoarse(y)) /\ Keeps(y, ResetCoarse(y), {}) /\ Holds(y, ResetCoarse(y))
        BY <4>2, ResetCoarseSane
      <4>4. Keeps(x, ResetCoarse(y), {} \cup {}) /\ Holds(x, ResetCoarse(y))
        BY <4>2, <4>3, ThenSane
      <4>5. Keeps(x, x, {"push"}) /\ Holds(x, x)
        BY DEF Keeps, Holds, Sane, CtxFields, Deadline, TimerRec
      <4>6. Keeps(x, ResetCoarse(y), {"push"})
        BY <4>4 DEF Keeps
      <4> QED
        BY <4>1, <4>3, <4>4, <4>5, <4>6
    <3> QED
      BY <3>1, <3>2
  <2> HIDE DEF Up
  <2> DEFINE z == TimerClear(Up, "connect")
  <2>3. Sane(z) /\ Keeps(Up, z, {}) /\ ~ z.tm["connect"].def /\ z = [Up EXCEPT !.tm = z.tm]
    BY <2>2, ClearTimer, TimerNames
  <2> HIDE DEF z
  <2>4. Holds(Up, z)
    <3>1. Up \in CtxFields
      BY <2>2 DEF Sane
    <3> DEFINE m == z.tm
    <3>2. z = [Up EXCEPT !.tm = m]
      BY <2>3
    <3> HIDE DEF m
    <3> QED
      BY <3>1, <3>2 DEF Holds, ToLinkDef, CtxFields
  <2>5. Keeps(x, z, {"push"} \cup {}) /\ Holds(x, z)
    BY <2>2, <2>3, <2>4, ThenSane
  <2>6. {"push"} \cup {} = {"push"}
    OBVIOUS
  <2>7. Keeps(x, z, {"push"})
    BY <2>5, <2>6
  <2>8. ConnectDowork(x) = z
    BY <2>1 DEF z
  <2> QED
    BY <2>3, <2>5, <2>7, <2>8
<1> QED
  BY <1>1, <1>2

LEMMA LookConnect == ASSUME Env, NEW x, Sane(x) PROVE Looked(x, CheckConnect(x), "connect", {"push"})
<1> DEFINE y == Trigger(x, "connect", -1)
           z == ConnectDowork(y)
<1>1. CheckConnect(x) \in {y, z}
  BY DEF CheckConnect, WhenDue, ETT_DEFAULT
<1>2. "connect" \in Timers \ {"exit"} /\ -1 \in Int /\ -1 < 0
  BY TimerNames
<1>3. Sane(y)
  BY <1>2, TriggerSane
<1>4. z = y \/ (Sane(z) /\ Keeps(y, z, {"push"}) /\ Holds(y, z))
  BY <1>3, ConnectDoworkSane
<1> HIDE DEF z
<1> QED
  BY <1>1, <1>2, <1>4, LookThen

\* Setting timers holds every packet.
LEMMA ClearHolds ==
    ASSUME NEW x, Sane(x), NEW y, y = [x EXCEPT !.tm = y.tm]
    PROVE  /\ Holds(x, y) /\ y.sig = x.sig /\ y.coarse = x.coarse /\ y.tv = x.tv /\ y.to_link = x.to_link /\ y.frag = x.frag
           /\ y.wake = x.wake /\ y.exit_wait = x.exit_wait /\ y.rx = x.rx /\ y.ctl_in = x.ctl_in /\ y.occ_op = x.occ_op
           /\ y.tmp = x.tmp /\ y.tun = x.tun /\ y.residual = x.residual /\ y.addr = x.addr
<1>1. x \in CtxFields
  BY DEF Sane
<1> DEFINE m == y.tm
<1>2. y = [x EXCEPT !.tm = m]
  OBVIOUS
<1> HIDE DEF m
<1>3. /\ y.sig = x.sig /\ y.coarse = x.coarse /\ y.tv = x.tv /\ y.to_link = x.to_link /\ y.frag = x.frag
      /\ y.wake = x.wake /\ y.exit_wait = x.exit_wait /\ y.rx = x.rx /\ y.ctl_in = x.ctl_in /\ y.occ_op = x.occ_op
      /\ y.tmp = x.tmp /\ y.to_tun = x.to_tun /\ y.tun = x.tun /\ y.residual = x.residual /\ y.addr = x.addr
  BY <1>1, <1>2 DEF CtxFields
<1> QED
  BY <1>3 DEF Holds, ToLinkDef

OccSet(x, a, b, o) == [x EXCEPT !.occ_tries = a, !.load_tries = b, !.occ_op = o]

\* The consistency check, and the load test, only count and ask for a packet.
LEMMA OccSide ==
    ASSUME Env, NEW x, Sane(x), NEW a \in Nat, NEW b \in 0 .. LoadTests, NEW o \in {None, "request", "reply", "load", "exit"}
    PROVE  LET y == OccSet(x, a, b, o)
           IN  Sane(y) /\ Keeps(x, y, {}) /\ Holds(x, y) /\ y.tm = x.tm /\ y.sig = x.sig
<1> DEFINE y == [x EXCEPT !.occ_tries = a, !.load_tries = b, !.occ_op = o]
<1>0. x \in CtxFields
  BY DEF Sane
<1>y. y \in CtxFields
  <2>1. [x EXCEPT !.occ_tries = a] \in CtxFields
    BY <1>0 DEF CtxFields
  <2>2. [[x EXCEPT !.occ_tries = a] EXCEPT !.load_tries = b] \in CtxFields
    BY <2>1 DEF CtxFields
  <2>3. [[[x EXCEPT !.occ_tries = a] EXCEPT !.load_tries = b] EXCEPT !.occ_op = o] \in CtxFields
    BY <2>2 DEF CtxFields
  <2> QED
    BY <2>3
<1>1. /\ y.tm = x.tm /\ y.tv = x.tv /\ y.to_link = x.to_link /\ y.to_tun = x.to_tun /\ y.tun = x.tun
      /\ y.residual = x.residual /\ y.frag = x.frag /\ y.rx = x.rx /\ y.tmp = x.tmp /\ y.ctl_in = x.ctl_in
      /\ y.wake = x.wake /\ y.addr = x.addr /\ y.exit_wait = x.exit_wait /\ y.sig = x.sig
  BY <1>0 DEF CtxFields
<1> HIDE DEF y
<1>t. y.tv <= x.tv
  BY <1>0, <1>1 DEF CtxFields
<1>2. Sane(y) /\ Keeps(x, y, {}) /\ Holds(x, y)
  BY <1>y, <1>1, <1>t, SideEffect
<1> QED
  BY <1>1, <1>2 DEF y, OccSet

\* check_send_occ_req_dowork.
LEMMA OccReqSane ==
    ASSUME Env, NEW x, Sane(x)
    PROVE  LET z == OccReqDowork(x) IN Sane(z) /\ Keeps(x, z, {}) /\ Holds(x, z) /\ z.sig = x.sig
<1>0. x \in CtxFields /\ x.occ_tries \in Nat /\ x.load_tries \in 0 .. LoadTests /\ x.occ_op \in {None, "request", "reply", "load", "exit"}
  BY DEF Sane, CtxFields
<1>n. x.occ_tries + 1 \in Nat
  BY <1>0
<1>t. "occ" \in Timers \ {"exit"}
  BY TimerNames
<1> DEFINE u == OccSet(x, x.occ_tries + 1, x.load_tries, x.occ_op)
           w == OccSet(x, x.occ_tries + 1, x.load_tries, "request")
<1>1. OccReqDowork(x) \in {TimerClear(u, "occ"), TimerReset(w, "occ")}
  <2>1. [x EXCEPT !.occ_tries = @ + 1] = u
    BY <1>0 DEF CtxFields, OccSet
  <2>2. [[x EXCEPT !.occ_tries = @ + 1] EXCEPT !.occ_op = "request"] = w
    BY <1>0 DEF CtxFields, OccSet
  <2> QED
    BY <2>1, <2>2 DEF OccReqDowork
<1>2. Sane(u) /\ Keeps(x, u, {}) /\ Holds(x, u) /\ u.sig = x.sig
  BY <1>0, <1>n, OccSide
<1>3. Sane(w) /\ Keeps(x, w, {}) /\ Holds(x, w) /\ w.sig = x.sig
  BY <1>0, <1>n, OccSide
<1> HIDE DEF u, w
<1>4. \A z \in {TimerClear(u, "occ")} : Sane(z) /\ Keeps(u, z, {}) /\ z = [u EXCEPT !.tm = z.tm]
  BY <1>2, <1>t, ClearTimer
<1>5. \A z \in {TimerReset(w, "occ")} : Sane(z) /\ Keeps(w, z, {}) /\ z = [w EXCEPT !.tm = z.tm]
  BY <1>3, <1>t, ResetTimer
<1>6. CASE OccReqDowork(x) = TimerClear(u, "occ")
  <2> DEFINE z == TimerClear(u, "occ")
  <2>1. Sane(z) /\ Keeps(u, z, {}) /\ z = [u EXCEPT !.tm = z.tm]
    BY <1>4
  <2> HIDE DEF z
  <2>2. Holds(u, z) /\ z.sig = u.sig
    BY <1>2, <2>1, ClearHolds
  <2>3. Keeps(x, z, {} \cup {}) /\ Holds(x, z)
    BY <1>2, <2>1, <2>2, ThenSane
  <2> QED
    BY <1>2, <1>6, <2>1, <2>2, <2>3 DEF z
<1>7. CASE OccReqDowork(x) = TimerReset(w, "occ")
  <2> DEFINE z == TimerReset(w, "occ")
  <2>1. Sane(z) /\ Keeps(w, z, {}) /\ z = [w EXCEPT !.tm = z.tm]
    BY <1>5
  <2> HIDE DEF z
  <2>2. Holds(w, z) /\ z.sig = w.sig
    BY <1>3, <2>1, ClearHolds
  <2>3. Keeps(x, z, {} \cup {}) /\ Holds(x, z)
    BY <1>3, <2>1, <2>2, ThenSane
  <2> QED
    BY <1>3, <1>7, <2>1, <2>2, <2>3 DEF z
<1> QED
  BY <1>1, <1>6, <1>7

\* check_send_occ_load_test_dowork.
LEMMA OccLoadSane ==
    ASSUME Env, NEW x, Sane(x)
    PROVE  LET z == OccLoadDowork(x) IN z = x \/ (Sane(z) /\ Keeps(x, z, {}) /\ Holds(x, z) /\ z.sig = x.sig)
<1>0. x \in CtxFields /\ x.occ_tries \in Nat /\ x.load_tries \in 0 .. LoadTests /\ x.occ_op \in {None, "request", "reply", "load", "exit"}
  BY DEF Sane, CtxFields
<1>t. "load" \in Timers \ {"exit"} /\ LoadTests \in Nat
  BY TimerNames, TunnelAssumption
<1>1. CASE ~ x.conn
  BY <1>1 DEF OccLoadDowork
<1>2. CASE x.conn /\ x.load_tries < LoadTests
  <2> DEFINE u == OccSet(x, x.occ_tries, x.load_tries + 1, "load")
  <2>1. OccLoadDowork(x) = [x EXCEPT !.load_tries = x.load_tries + 1, !.occ_op = "load"]
    BY <1>2 DEF OccLoadDowork
  <2>2. [x EXCEPT !.load_tries = x.load_tries + 1, !.occ_op = "load"] = u
    BY <1>0 DEF CtxFields, OccSet
  <2>3. x.load_tries + 1 \in 0 .. LoadTests
    BY <1>0, <1>2, <1>t
  <2>4. Sane(u) /\ Keeps(x, u, {}) /\ Holds(x, u) /\ u.sig = x.sig
    BY <1>0, <2>3, OccSide
  <2> QED
    BY <2>1, <2>2, <2>4
<1>3. CASE x.conn /\ ~ (x.load_tries < LoadTests)
  <2> DEFINE u == OccSet(x, x.occ_tries, 0, x.occ_op)
             z == TimerClear(u, "load")
  <2>1. OccLoadDowork(x) = TimerClear([x EXCEPT !.load_tries = 0], "load")
    BY <1>3 DEF OccLoadDowork
  <2>2. [x EXCEPT !.load_tries = 0] = u
    BY <1>0 DEF CtxFields, OccSet
  <2>3. 0 \in 0 .. LoadTests
    BY <1>t
  <2>4. Sane(u) /\ Keeps(x, u, {}) /\ Holds(x, u) /\ u.sig = x.sig
    BY <1>0, <2>3, OccSide
  <2> HIDE DEF u
  <2>5. Sane(z) /\ Keeps(u, z, {}) /\ z = [u EXCEPT !.tm = z.tm]
    BY <2>4, <1>t, ClearTimer
  <2> HIDE DEF z
  <2>6. Holds(u, z) /\ z.sig = u.sig
    BY <2>4, <2>5, ClearHolds
  <2>7. Keeps(x, z, {} \cup {}) /\ Holds(x, z)
    BY <2>4, <2>5, <2>6, ThenSane
  <2> QED
    BY <2>1, <2>2, <2>4, <2>5, <2>6, <2>7 DEF z
<1> QED
  BY <1>1, <1>2, <1>3

\* The look at the two timers of OCC.
LEMMA LookOcc ==
    ASSUME Env, NEW x, Sane(x)
    PROVE  Looked(x, CheckOccReq(x), "occ", {}) /\ CheckOccReq(x).sig = x.sig
<1> DEFINE retry == OccRetry(x)
           y == Trigger(x, "occ", retry)
           z == OccReqDowork(y)
<1>1. CheckOccReq(x) \in {y, z}
  BY DEF CheckOccReq, WhenDue
<1>2. retry \in Int /\ (retry < 0 \/ retry <= GraceOf(x, "occ")) /\ "occ" \in Timers \ {"exit"}
  BY GraceType, TimerNames DEF OccRetry, ETT_DEFAULT
<1> HIDE DEF retry
<1>3. Sane(y) /\ y = [x EXCEPT !.tm = y.tm, !.tv = y.tv]
  BY <1>2, TriggerSane
<1>4. Sane(z) /\ Keeps(y, z, {}) /\ Holds(y, z) /\ z.sig = y.sig
  BY <1>3, OccReqSane
<1>5. y.sig = x.sig
  BY <1>3, OnlyTimers DEF Sane
<1> QED
  BY <1>1, <1>2, <1>4, <1>5, LookThen

LEMMA LookLoad ==
    ASSUME Env, NEW x, Sane(x)
    PROVE  Looked(x, CheckOccLoad(x), "load", {}) /\ CheckOccLoad(x).sig = x.sig
<1> DEFINE retry == OccRetry(x)
           y == Trigger(x, "load", retry)
           z == OccLoadDowork(y)
<1>1. CheckOccLoad(x) \in {y, z}
  BY DEF CheckOccLoad, WhenDue
<1>2. retry \in Int /\ (retry < 0 \/ retry <= GraceOf(x, "load")) /\ "load" \in Timers \ {"exit"}
  BY GraceType, TimerNames DEF OccRetry, ETT_DEFAULT
<1> HIDE DEF retry
<1>3. Sane(y) /\ y = [x EXCEPT !.tm = y.tm, !.tv = y.tv]
  BY <1>2, TriggerSane
<1>4. z = y \/ (Sane(z) /\ Keeps(y, z, {}) /\ Holds(y, z) /\ z.sig = y.sig)
  BY <1>3, OccLoadSane
<1>5. y.sig = x.sig
  BY <1>3, OnlyTimers DEF Sane
<1> HIDE DEF z
<1> QED
  BY <1>1, <1>2, <1>4, <1>5, LookThen

\* A packet is encrypted only when none is on its way.
Encrypted(x, y) ==
    Sane(y) /\ Keeps(x, y, {}) /\ Holds(x, y) /\ y = [x EXCEPT !.frag = y.frag, !.to_link = y.to_link]

\* encrypt_sign into an empty to_link.
LEMMA EncryptFree ==
    ASSUME Env, NEW x, Sane(x), ~ ToLinkDef(x), NEW pkt \in {"data", "frag", "ping", "occ", "tls"}, NEW k \in 1 .. 2
    PROVE  Encrypted(x, EncryptSign(x, pkt, k))
<1> DEFINE f == IF cfg.frag THEN k - 1 ELSE 0
           l == IF Sendable(x) THEN pkt ELSE None
           y == [x EXCEPT !.frag = f, !.to_link = l]
<1>0. x \in CtxFields /\ x.frag = 0
  BY DEF Sane, ToLinkDef
<1>1. EncryptSign(x, pkt, k) = y
  BY <1>0 DEF EncryptSign
<1>2. f \in 0 .. 1 /\ (f # 0 => cfg.frag) /\ l \in {None, "data", "frag", "ping", "occ", "tls"}
  OBVIOUS
<1> HIDE DEF f, l
<1>3. y \in CtxFields
  <2>1. [x EXCEPT !.frag = f] \in CtxFields
    BY <1>0, <1>2 DEF CtxFields
  <2>2. [[x EXCEPT !.frag = f] EXCEPT !.to_link = l] \in CtxFields
    BY <1>2, <2>1 DEF CtxFields
  <2> QED
    BY <2>2
<1>4. /\ y.tm = x.tm /\ y.tv = x.tv /\ y.to_link = l /\ y.to_tun = x.to_tun /\ y.tun = x.tun
      /\ y.residual = x.residual /\ y.frag = f /\ y.rx = x.rx /\ y.tmp = x.tmp /\ y.ctl_in = x.ctl_in
      /\ y.wake = x.wake /\ y.addr = x.addr /\ y.exit_wait = x.exit_wait /\ y.sig = x.sig
  BY <1>0 DEF CtxFields
<1>w. y = [x EXCEPT !.frag = y.frag, !.to_link = y.to_link]
  BY <1>4
<1> HIDE DEF y
<1>5. TimersSane(y)
  BY <1>4 DEF Sane, TimersSane
<1>6. Sane(y)
  BY <1>2, <1>3, <1>4, <1>5 DEF Sane
<1>7. Keeps(x, y, {})
  <2>1. \A s \in Timers : Deadline(x, s) \in Nat /\ Deadline(y, s) = Deadline(x, s)
    BY <1>0, <1>4 DEF CtxFields, TimerRec, Deadline
  <2>2. x.tv \in Nat
    BY <1>0 DEF CtxFields
  <2> QED
    BY <1>4, <2>1, <2>2 DEF Keeps
<1>8. Holds(x, y)
  BY <1>4 DEF Holds
<1> QED
  BY <1>1, <1>4, <1>w, <1>6, <1>7, <1>8 DEF Encrypted

\* The look at the ping timer: it waits while to_link is in use.
LEMMA LookPing ==
    ASSUME Env, NEW x, Sane(x)
    PROVE  Looked(x, CheckPingSend(x), "ping_send", {})
<1> DEFINE retry == IF ToLinkDef(x) THEN 1 ELSE -1
           y == Trigger(x, "ping_send", retry)
           z == SendPing(y)
<1>1. IF Fires(x, "ping_send", retry) THEN CheckPingSend(x) = z ELSE CheckPingSend(x) = y
  BY DEF CheckPingSend, WhenDue, ETT_DEFAULT
<1>2. /\ retry \in Int /\ (retry < 0 \/ retry <= GraceOf(x, "ping_send")) /\ "ping_send" \in Timers \ {"exit"}
      /\ Fires(x, "ping_send", retry) => ~ ToLinkDef(x)
  BY EnvTypes, TimerNames DEF GraceOf, Fires
<1> HIDE DEF retry
<1>3. Sane(y) /\ y = [x EXCEPT !.tm = y.tm, !.tv = y.tv] /\ Serves(y, "ping_send", now + y.tv)
  BY <1>2, TriggerSane
<1>4. y.to_link = x.to_link /\ y.frag = x.frag /\ y \in CtxFields
  BY <1>3, OnlyTimers DEF Sane
<1>5. CASE ~ ToLinkDef(x)
  <2>1. ~ ToLinkDef(y)
    BY <1>4, <1>5 DEF ToLinkDef
  <2> HIDE DEF y
  <2>2. Sane(z) /\ Keeps(y, z, {}) /\ Holds(y, z)
    <3>1. "ping" \in {"data", "frag", "ping", "occ", "tls"} /\ 1 \in 1 .. 2 /\ z = EncryptSign(y, "ping", 1)
      BY DEF SendPing
    <3> HIDE DEF z
    <3> QED
      BY <1>3, <2>1, <3>1, EncryptFree DEF Encrypted
  <2> HIDE DEF z
  <2>3. Serves(z, "ping_send", now + z.tv)
    <3>1. z \in CtxFields /\ "ping_send" \in Timers \ {}
      BY <1>2, <2>2 DEF Sane
    <3> QED
      BY <1>3, <1>4, <2>1, <2>2, <3>1, ServesKeeps
  <2>4. \A u \in {y, z} : Looked(x, u, "ping_send", {})
    BY <1>2, <2>2, <2>3, LookThen DEF y
  <2> QED
    BY <1>1, <2>4
<1>6. CASE ToLinkDef(x)
  BY <1>1, <1>2, <1>6, LookThen
<1> QED
  BY <1>5, <1>6

\* The exit notifications: one a second, and after the last one the loop ends.
LEMMA LookExit ==
    ASSUME Env, NEW x, Sane(x), x.sig = None
    PROVE  Looked(x, CheckExit(x), "exit", {})
<1>0. /\ x \in CtxFields /\ x.tm \in [Timers -> TimerRec] /\ now \in 1 .. MaxTime /\ x.tv \in Nat /\ x.exit_wait \in Nat
      /\ "exit" \in Timers /\ x.tm["exit"] \in TimerRec /\ TimersSane(x) /\ now \in Nat /\ cfg.exit_notify \in Nat
  BY EnvTypes, TimerNames DEF Env, Sane, CtxFields
<1>1. CASE x.exit_wait = 0
  <2>1. CheckExit(x) = x
    BY <1>1 DEF CheckExit
  <2>2. ~ x.tm["exit"].def
    BY <1>0, <1>1 DEF TimersSane
  <2>3. Keeps(x, x, {}) /\ Holds(x, x)
    BY <1>0 DEF Keeps, Holds, Deadline, TimerRec
  <2> QED
    BY <2>1, <2>2, <2>3 DEF Looked, Serves
<1>n. CASE x.exit_wait # 0 /\ ~ x.tm["exit"].def
  <2>1. CheckExit(x) = x
    BY <1>n DEF CheckExit, WhenDue, Fires, Due, Trigger
  <2>3. Keeps(x, x, {}) /\ Holds(x, x)
    BY <1>0 DEF Keeps, Holds, Deadline, TimerRec
  <2> QED
    BY <1>n, <2>1, <2>3 DEF Looked, Serves
<1>2. CASE x.exit_wait # 0 /\ x.tm["exit"].def
  <2> DEFINE y == Trigger(x, "exit", -1)
             F == Fires(x, "exit", -1)
  <2>1. PICK m, v : y = [x EXCEPT !.tm = m, !.tv = v] /\ Triggered(x, "exit", -1, m, v)
    <3>1. -1 \in Int
      OBVIOUS
    <3> QED
      BY <1>0, <3>1, TriggerIs
  <2>2. /\ m \in [Timers -> TimerRec] /\ v \in Nat /\ v <= x.tv
        /\ \A s \in Timers \ {"exit"} : m[s] = x.tm[s]
        /\ m["exit"].def = x.tm["exit"].def /\ m["exit"].n = x.tm["exit"].n
        /\ m["exit"].last = (IF F THEN now ELSE x.tm["exit"].last)
        /\ m["exit"].def => now + v <= m["exit"].last + m["exit"].n
    BY <2>1 DEF Triggered
  <2>3. y \in CtxFields /\ y.tm = m /\ y.tv = v
    <3> HIDE DEF y, F
    <3>1. m \in [Timers -> TimerRec] /\ v \in Nat
      BY <2>2
    <3>2. [x EXCEPT !.tm = m] \in CtxFields
      BY <1>0, <3>1 DEF CtxFields
    <3> DEFINE w == [x EXCEPT !.tm = m]
    <3>3. y = [w EXCEPT !.tv = v] /\ w.tm = m
      BY <1>0, <2>1 DEF CtxFields
    <3> HIDE DEF w
    <3>4. w \in CtxFields
      BY <3>2 DEF w
    <3> QED
      BY <3>1, <3>3, <3>4 DEF CtxFields
  <2>4. /\ y.to_tun = x.to_tun /\ y.tun = x.tun /\ y.residual = x.residual /\ y.frag = x.frag /\ y.rx = x.rx
        /\ y.tmp = x.tmp /\ y.ctl_in = x.ctl_in /\ y.wake = x.wake /\ y.addr = x.addr /\ y.exit_wait = x.exit_wait
        /\ y.sig = x.sig /\ y.to_link = x.to_link /\ y.occ_tries = x.occ_tries /\ y.load_tries = x.load_tries
    BY <1>0, <2>1, ZenonT(40) DEF CtxFields
  <2>5. /\ x.tm["exit"].def /\ x.tm["exit"].n = 1 /\ (Undisturbed => x.tm["exit"].last < x.exit_wait + cfg.exit_notify)
        /\ x.tm["exit"].last <= now
    BY <1>0, <1>2 DEF TimersSane
  <2>6. CheckExit(x) = IF F THEN ExitWakeup(y) ELSE y
    BY <1>2 DEF CheckExit, WhenDue, ETT_DEFAULT
  <2> HIDE DEF y, F
  <2>7. \A s \in Timers : m[s] \in TimerRec /\ x.tm[s] \in TimerRec /\ x.tm[s].last <= now
    BY <1>0, <2>2 DEF TimersSane
  <2>8. \A s \in Timers : x.tm[s].last <= m[s].last /\ m[s].last <= now /\ m[s].n = x.tm[s].n /\ m[s].def = x.tm[s].def
    <3> SUFFICES ASSUME NEW s \in Timers
                 PROVE  x.tm[s].last <= m[s].last /\ m[s].last <= now /\ m[s].n = x.tm[s].n /\ m[s].def = x.tm[s].def
      OBVIOUS
    <3>1. x.tm[s].last \in Nat
      BY <2>7 DEF TimerRec
    <3> QED
      BY <1>0, <2>2, <2>7, <3>1
  <2>9. Keeps(x, y, {})
    BY <1>0, <2>2, <2>3, <2>7, <2>8 DEF Keeps, Deadline, TimerRec
  <2>10. Holds(x, y)
    BY <2>4 DEF Holds
  <2>11. "ping_send" \in Timers /\ m["ping_send"] = x.tm["ping_send"]
    BY <2>2 DEF Timers
  <2>12. CASE ~ F \/ now < x.exit_wait + cfg.exit_notify
    <3>1. Undisturbed => m["exit"].last < x.exit_wait + cfg.exit_notify
      BY <2>2, <2>5, <2>12
    <3>2. TimersSane(y)
      BY <1>0, <1>2, <2>2, <2>3, <2>4, <2>5, <2>8, <2>11, <3>1 DEF TimersSane
    <3>3. Sane(y)
      BY <2>3, <2>4, <3>2, SaneFrame
    <3>4. Serves(y, "exit", now + y.tv)
      BY <2>2, <2>3 DEF Serves, Deadline
    <3>5. CASE ~ F
      BY <2>6, <2>9, <2>10, <3>3, <3>4, <3>5 DEF Looked
    <3>6. CASE F
      <4> DEFINE z == OccSet(y, y.occ_tries, y.load_tries, "exit")
      <4>1. ~ (now >= y.exit_wait + cfg.exit_notify)
        BY <1>0, <2>4, <2>12, <3>6
      <4>2. ExitWakeup(y) = [y EXCEPT !.occ_op = "exit"]
        BY <4>1 DEF ExitWakeup
      <4>3. [y EXCEPT !.occ_op = "exit"] = z
        BY <2>3 DEF OccSet, CtxFields
      <4>4. y.occ_tries \in Nat /\ y.load_tries \in 0 .. LoadTests
        BY <2>3 DEF CtxFields
      <4>5. Sane(z) /\ Keeps(y, z, {}) /\ Holds(y, z)
        BY <3>3, <4>4, OccSide
      <4> HIDE DEF z
      <4>6. Keeps(x, z, {} \cup {}) /\ Holds(x, z)
        BY <2>9, <2>10, <3>3, <4>5, ThenSane
      <4>7. Serves(z, "exit", now + z.tv)
        <5>1. z \in CtxFields /\ "exit" \in Timers \ {} /\ "exit" # "ping_send"
          BY <1>0, <4>5 DEF Sane
        <5> QED
          BY <2>3, <3>4, <4>5, <5>1, ServesKeeps
      <4>8. CheckExit(x) = z
        BY <2>6, <3>6, <4>2, <4>3
      <4> QED
        BY <4>5, <4>6, <4>7, <4>8 DEF Looked
    <3> QED
      BY <3>5, <3>6
  <2>13. CASE F /\ ~ (now < x.exit_wait + cfg.exit_notify)
    <3> DEFINE k == [m EXCEPT !["exit"] = Off]
               z == [y EXCEPT !.tm = k, !.sig = "TERM"]
    <3>1. now >= y.exit_wait + cfg.exit_notify
      BY <1>0, <2>4, <2>13
    <3>2. CheckExit(x) = Raise(TimerClear(y, "exit"), "TERM")
      BY <2>6, <2>13, <3>1 DEF ExitWakeup
    <3>3. Raise(TimerClear(y, "exit"), "TERM") = z
      BY <2>3 DEF Raise, TimerClear, CtxFields
    <3>4. Off \in TimerRec /\ Off.last = 0 /\ ~ Off.def
      BY EnvTypes DEF Off, TimerRec
    <3>5. k \in [Timers -> TimerRec] /\ k["exit"] = Off /\ \A s \in Timers \ {"exit"} : k[s] = x.tm[s]
      BY <1>0, <2>2, <3>4
    <3> HIDE DEF k
    <3>6. z \in CtxFields /\ z.tm = k /\ z.sig = "TERM" /\ z.tv = v
      <4>1. [y EXCEPT !.tm = k] \in CtxFields
        BY <2>3, <3>5 DEF CtxFields
      <4>2. "TERM" \in LoopSignals
        BY DEF LoopSignals
      <4>3. [[y EXCEPT !.tm = k] EXCEPT !.sig = "TERM"] \in CtxFields
        BY <4>1, <4>2, ZenonT(40) DEF CtxFields
      <4>4. z.tm = k /\ z.sig = "TERM" /\ z.tv = v
        BY <2>3 DEF CtxFields
      <4> QED
        BY <4>3, <4>4
    <3>7. /\ z.to_tun = x.to_tun /\ z.tun = x.tun /\ z.residual = x.residual /\ z.frag = x.frag /\ z.rx = x.rx
          /\ z.tmp = x.tmp /\ z.ctl_in = x.ctl_in /\ z.wake = x.wake /\ z.addr = x.addr /\ z.exit_wait = x.exit_wait
          /\ z.to_link = x.to_link
      BY <2>3, <2>4 DEF CtxFields
    <3> HIDE DEF z
    <3>8. TimersSane(z)
      <4>1. k["ping_send"] = x.tm["ping_send"]
        BY <3>5 DEF Timers
      <4>2. \A s \in Timers : k[s].last <= now
        BY <1>0, <2>7, <3>4, <3>5
      <4> QED
        BY <1>0, <3>4, <3>5, <3>6, <3>7, <4>1, <4>2 DEF TimersSane, None
    <3>9. Sane(z)
      BY <3>6, <3>7, <3>8, SaneFrame
    <3>10. Keeps(x, z, {})
      BY <1>0, <2>2, <2>7, <3>4, <3>5, <3>6 DEF Keeps, Deadline, TimerRec
    <3>11. Holds(x, z)
      BY <3>7 DEF Holds
    <3>12. Serves(z, "exit", now + z.tv)
      BY <3>4, <3>5, <3>6 DEF Serves
    <3> QED
      BY <3>2, <3>3, <3>9, <3>10, <3>11, <3>12 DEF Looked
  <2> QED
    BY <2>12, <2>13
<1> QED
  BY <1>1, <1>n, <1>2

-----------------------------------------------------------------------------
\* One look after another.
LEMMA LookChain ==
    ASSUME Env, NEW x, Sane(x), NEW y, NEW E, NEW S \in SUBSET (Timers \ E), NEW t \in Timers, Looked(x, y, t, E),
           Covered(x, S), "ping_send" \notin S, NEW o, Sane(o), Holds(o, x)
    PROVE  Sane(y) /\ Covered(y, S \cup {t}) /\ Holds(o, y)
<1>1. Sane(y) /\ Keeps(x, y, E) /\ Serves(y, t, now + y.tv) /\ Holds(x, y) /\ x \in CtxFields /\ y \in CtxFields
  BY DEF Looked, Sane
<1>2. Covered(y, S)
  BY <1>1, CoveredKeeps
<1> QED
  BY <1>1, <1>2, HoldsTrans DEF Covered

\* The three parts of check_coarse_timers, between which a signal may arrive.
LEMMA EarlyLook ==
    ASSUME Env, NEW x, Sane(x)
    PROVE  LET y == CheckInactive(CheckPush(CheckConnect(CheckPersist(x))))
           IN  Sane(y) /\ Covered(y, Early) /\ Holds(x, y)
<1> DEFINE a == CheckPersist(x)
           b == CheckConnect(a)
           d == CheckPush(b)
           e == CheckInactive(d)
<1>0. /\ {"persist", "connect", "push", "inactive"} \in SUBSET Timers /\ Covered(x, {})
      /\ {} \in SUBSET (Timers \ {}) /\ {"persist"} \in SUBSET (Timers \ {"push"})
      /\ {"persist", "connect"} \in SUBSET (Timers \ {}) /\ {"persist", "connect", "push"} \in SUBSET (Timers \ {})
  BY DEF Timers, Covered
<1>h. Holds(x, x)
  BY DEF Holds
<1>1. Looked(x, a, "persist", {})
  BY LookPersist
<1> HIDE DEF a
<1>2. Sane(a) /\ Covered(a, {"persist"}) /\ Holds(x, a)
  <2>1. Sane(a) /\ Covered(a, {} \cup {"persist"}) /\ Holds(x, a)
    BY <1>0, <1>1, <1>h, LookChain
  <2>2. {} \cup {"persist"} = {"persist"}
    OBVIOUS
  <2> QED
    BY <2>1, <2>2
<1>3. Looked(a, b, "connect", {"push"})
  BY <1>2, LookConnect
<1> HIDE DEF b
<1>4. Sane(b) /\ Covered(b, {"persist", "connect"}) /\ Holds(x, b)
  <2>1. Sane(b) /\ Covered(b, {"persist"} \cup {"connect"}) /\ Holds(x, b)
    BY <1>0, <1>2, <1>3, LookChain
  <2>2. {"persist"} \cup {"connect"} = {"persist", "connect"}
    OBVIOUS
  <2> QED
    BY <2>1, <2>2
<1>5. Looked(b, d, "push", {})
  BY <1>4, LookPush
<1> HIDE DEF d
<1>6. Sane(d) /\ Covered(d, {"persist", "connect", "push"}) /\ Holds(x, d)
  <2>1. Sane(d) /\ Covered(d, {"persist", "connect"} \cup {"push"}) /\ Holds(x, d)
    BY <1>0, <1>4, <1>5, LookChain
  <2>2. {"persist", "connect"} \cup {"push"} = {"persist", "connect", "push"}
    OBVIOUS
  <2> QED
    BY <2>1, <2>2
<1>7. Looked(d, e, "inactive", {})
  BY <1>6, LookInactive
<1> HIDE DEF e
<1>8. Sane(e) /\ Covered(e, Early) /\ Holds(x, e)
  <2>1. Sane(e) /\ Covered(e, {"persist", "connect", "push"} \cup {"inactive"}) /\ Holds(x, e)
    BY <1>0, <1>6, <1>7, LookChain
  <2>2. {"persist", "connect", "push"} \cup {"inactive"} = Early
    BY DEF Early
  <2> QED
    BY <2>1, <2>2
<1> QED
  BY <1>8 DEF e, d, b, a

Middle == Early \cup {"ping_rec"}

LEMMA MiddleLook ==
    ASSUME Env, NEW x, Sane(x), Covered(x, Early)
    PROVE  LET y == CheckPingRestart(x) IN Sane(y) /\ Covered(y, Middle) /\ Holds(x, y)
<1> DEFINE y == CheckPingRestart(x)
<1>1. Looked(x, y, "ping_rec", {})
  BY LookPingRestart
<1> HIDE DEF y
<1>2. Early \in SUBSET (Timers \ {}) /\ "ping_send" \notin Early /\ Holds(x, x) /\ "ping_rec" \in Timers
  BY DEF Early, Timers, Holds
<1>3. Sane(y) /\ Covered(y, Early \cup {"ping_rec"}) /\ Holds(x, y)
  BY <1>1, <1>2, LookChain
<1> QED
  BY <1>3 DEF y, Middle

LEMMA LateLook ==
    ASSUME Env, NEW x, Sane(x), Covered(x, Middle), x.sig = None
    PROVE  LET y == CheckPingSend(CheckExit(CheckOccLoad(CheckOccReq(x))))
           IN  Sane(y) /\ Covered(y, Timers) /\ Holds(x, y)
<1> DEFINE a == CheckOccReq(x)
           b == CheckOccLoad(a)
           d == CheckExit(b)
           e == CheckPingSend(d)
           A == Middle \cup {"occ"}
           B == A \cup {"load"}
           D == B \cup {"exit"}
<1>0. /\ Middle \in SUBSET (Timers \ {}) /\ A \in SUBSET (Timers \ {}) /\ B \in SUBSET (Timers \ {}) /\ D \in SUBSET (Timers \ {})
      /\ "ping_send" \notin D /\ D \cup {"ping_send"} = Timers /\ "occ" \in Timers /\ "load" \in Timers /\ "exit" \in Timers
      /\ "ping_send" \in Timers /\ "ping_send" \notin Middle /\ "ping_send" \notin A /\ "ping_send" \notin B
  BY DEF Timers, Middle, Early
<1>h. Holds(x, x)
  BY DEF Holds
<1> HIDE DEF A, B, D
<1>1. Looked(x, a, "occ", {}) /\ a.sig = None
  BY LookOcc
<1> HIDE DEF a
<1>2. Sane(a) /\ Covered(a, A) /\ Holds(x, a)
  BY <1>0, <1>1, <1>h, LookChain DEF A
<1>3. Looked(a, b, "load", {}) /\ b.sig = None
  BY <1>1, <1>2, LookLoad
<1> HIDE DEF b
<1>4. Sane(b) /\ Covered(b, B) /\ Holds(x, b)
  BY <1>0, <1>2, <1>3, LookChain DEF B
<1>5. Looked(b, d, "exit", {})
  BY <1>3, <1>4, LookExit
<1> HIDE DEF d
<1>6. Sane(d) /\ Covered(d, D) /\ Holds(x, d)
  BY <1>0, <1>4, <1>5, LookChain DEF D
<1>7. Looked(d, e, "ping_send", {})
  BY <1>6, LookPing
<1> HIDE DEF e
<1>8. Sane(e) /\ Covered(e, D \cup {"ping_send"}) /\ Holds(x, e)
  BY <1>0, <1>6, <1>7, LookChain
<1> QED
  BY <1>0, <1>8 DEF e, d, b, a

-----------------------------------------------------------------------------
\* At the end the wakeup is cached: it serves every timer, as the wait does.
LEMMA CoarseEndState ==
    ASSUME Env, NEW x, Sane(x), x.sig = None => Covered(x, Timers), cfg.tls /\ x.tmp.future = 0 => now = 1
    PROVE  StateOf(CoarseEnd(x), "tls") /\ Holds(x, CoarseEnd(x))
<1>0. x \in CtxFields /\ x.tv \in Nat /\ now \in Nat /\ now + x.tv \in Nat
  BY EnvTypes DEF Sane, CtxFields
<1> DEFINE w == now + x.tv
           y == [x EXCEPT !.coarse = w]
<1>1. /\ y \in CtxFields /\ y.tm = x.tm /\ y.tv = x.tv /\ y.to_link = x.to_link /\ y.to_tun = x.to_tun /\ y.tun = x.tun
      /\ y.residual = x.residual /\ y.frag = x.frag /\ y.rx = x.rx /\ y.tmp = x.tmp /\ y.ctl_in = x.ctl_in
      /\ y.wake = x.wake /\ y.addr = x.addr /\ y.exit_wait = x.exit_wait /\ y.sig = x.sig /\ y.coarse = w
  <2> HIDE DEF w
  <2>1. w \in Nat
    BY <1>0 DEF w
  <2> QED
    BY <1>0, <2>1 DEF CtxFields
<1>2. CoarseEnd(x) = y
  BY DEF CoarseEnd
<1> HIDE DEF y
<1>3. Sane(y) /\ Holds(x, y)
  <2>1. y.tv <= x.tv
    BY <1>0, <1>1
  <2> QED
    BY <1>1, <2>1, SideEffect
<1>4. y.sig = None => Covered(y, Timers) /\ CachedOK(y)
  <2> SUFFICES ASSUME y.sig = None PROVE Covered(y, Timers) /\ CachedOK(y)
    OBVIOUS
  <2>1. \A t \in Timers : Serves(x, t, now + x.tv)
    BY <1>1 DEF Covered
  <2>2. \A t \in Timers : Serves(y, t, now + x.tv)
    BY <1>1, <2>1 DEF Serves, Deadline, GraceOf, ToLinkDef
  <2> QED
    BY <1>1, <2>2 DEF Covered, CachedOK
<1> QED
  BY <1>1, <1>2, <1>3, <1>4 DEF StateOf, FirstRound, Awake, Served

\* The invariant of a state is that of the context the step leaves.
LEMMA StatePrime ==
    ASSUME cfg' = cfg, now' = now, StateOf(c', pc')
    PROVE  StateOf(c, pc)'
<1>1. \A t : GraceOf(c', t) = GraceOf(c, t)' /\ Deadline(c', t) = Deadline(c, t)'
  BY DEF GraceOf, Deadline, ToLinkDef
<1>2. \A t, w : Serves(c', t, w) => Serves(c, t, w)'
  BY <1>1 DEF Serves
<1>3. \A S : Covered(c', S) => Covered(c, S)'
  BY <1>2 DEF Covered
<1>4. CachedOK(c') => CachedOK(c)'
  BY <1>2 DEF CachedOK
<1>5. Awake(c', pc') => Awake(c, pc)'
  BY <1>3, <1>4 DEF Awake, Exact
<1>6. Sane(c') => Sane(c)'
  BY DEF Sane, TimersSane
<1>7. FirstRound(c', pc') => FirstRound(c, pc)'
  BY DEF FirstRound
<1>8. Served(c', pc') => Served(c, pc)'
  BY DEF Served, Ready
<1> QED
  BY <1>5, <1>6, <1>7, <1>8 DEF StateOf

\* A step that does not end or begin a wait.
LEMMA StepDone ==
    ASSUME LoopState, cfg' = cfg, now' = now, pc' \in Places \ {"wait", "post2"}, StateOf(c', pc')
    PROVE  LoopState'
  BY StatePrime DEF LoopState, Asleep, Events

\* What every step starts from.
LEMMA StateEnv == ASSUME LoopState PROVE Env /\ Sane(c) /\ StateOf(c, pc) /\ c \in CtxFields /\ pc \in Places
  BY DEF LoopState, Env, StateOf, Sane

\* The packets the loop holds survive the step.
NotLost ==
    /\ c.to_link # None /\ c'.to_link # c.to_link => pc = "post2" /\ "sockW" \in status
    /\ c.to_tun # None /\ c'.to_tun # c.to_tun => pc = "post2" /\ "tunW" \in status
    /\ c.frag # 0 => c'.frag \in {c.frag, c.frag - 1}

\* A step that holds the packets overwrites none.
LEMMA HoldsNotLost == ASSUME Holds(c, c') PROVE NotLost
  BY DEF Holds, NotLost, ToLinkDef

\* check_coarse_timers, from the cached wakeup to the ping timer.
LEMMA CoarseTimersStep == ASSUME LoopState, CoarseTimers PROVE LoopState' /\ NotLost
<1>0. Env /\ Sane(c) /\ StateOf(c, "coarse") /\ c \in CtxFields /\ pc = "coarse"
  BY StateEnv DEF CoarseTimers
<1> DEFINE x == [c EXCEPT !.tv = Big]
<1>1. /\ x \in CtxFields /\ x.tm = c.tm /\ x.to_link = c.to_link /\ x.to_tun = c.to_tun /\ x.tun = c.tun
      /\ x.residual = c.residual /\ x.frag = c.frag /\ x.rx = c.rx /\ x.tmp = c.tmp /\ x.ctl_in = c.ctl_in
      /\ x.wake = c.wake /\ x.addr = c.addr /\ x.exit_wait = c.exit_wait /\ x.sig = c.sig /\ x.coarse = c.coarse
  BY <1>0 DEF CtxFields, Big
<1>2. cfg' = cfg /\ now' = now
  BY DEF CoarseTimers
<1>3. \/ /\ c' = CheckInactive(CheckPush(CheckConnect(CheckPersist(x)))) /\ pc' = "coarse2"
      \/ /\ ~ (now >= c.coarse) /\ c' = RescheduleSec(x, c.coarse - now) /\ pc' = "tls"
  BY DEF CoarseTimers
<1> HIDE DEF x
<1>4. TimersSane(x)
  BY <1>0, <1>1 DEF Sane, TimersSane
<1>5. Sane(x) /\ Holds(c, x)
  <2>1. Sane(x)
    BY <1>0, <1>1, <1>4, SaneFrame
  <2> QED
    BY <1>1, <2>1 DEF Holds
<1>6. cfg.tls /\ c.tmp.future = 0 => now = 1
  BY <1>0 DEF StateOf, FirstRound
<1>7. CASE c' = CheckInactive(CheckPush(CheckConnect(CheckPersist(x)))) /\ pc' = "coarse2"
  <2>1. Sane(c') /\ Covered(c', Early) /\ Holds(x, c')
    BY <1>0, <1>5, <1>7, EarlyLook
  <2>2. Holds(c, c')
    BY <1>5, <2>1, HoldsTrans
  <2>3. StateOf(c', pc')
    BY <1>6, <1>7, <2>1, <2>2 DEF StateOf, FirstRound, Awake, Served, Holds
  <2>4. pc' \in Places \ {"wait", "post2"}
    BY <1>7 DEF Places
  <2> QED
    BY <1>2, <2>2, <2>3, <2>4, StepDone, HoldsNotLost
<1>8. CASE ~ (now >= c.coarse) /\ c' = RescheduleSec(x, c.coarse - now) /\ pc' = "tls"
  <2> DEFINE d == c.coarse - now
  <2>1. d \in Int /\ d >= 0 /\ now \in Nat /\ c.coarse \in Nat
    BY <1>0, <1>8, EnvTypes DEF CtxFields
  <2>2. c' = RescheduleSec(x, d)
    BY <1>8
  <2>d. now + d = c.coarse
    BY <2>1
  <2> HIDE DEF d
  <2>3. PICK v \in Nat : c' = [x EXCEPT !.tv = v] /\ v <= d
    BY <1>1, <2>1, <2>2, RescheduleIs
  <2>4. /\ c' \in CtxFields /\ c'.tm = c.tm /\ c'.to_link = c.to_link /\ c'.to_tun = c.to_tun /\ c'.tun = c.tun
        /\ c'.residual = c.residual /\ c'.frag = c.frag /\ c'.rx = c.rx /\ c'.tmp = c.tmp /\ c'.ctl_in = c.ctl_in
        /\ c'.wake = c.wake /\ c'.addr = c.addr /\ c'.exit_wait = c.exit_wait /\ c'.sig = c.sig /\ c'.coarse = c.coarse
        /\ c'.tv = v
    BY <1>1, <2>3 DEF CtxFields
  <2>5. TimersSane(c')
    BY <1>0, <2>4 DEF Sane, TimersSane
  <2>6. Sane(c')
    BY <1>0, <2>4, <2>5, SaneFrame
  <2>7. Holds(c, c')
    BY <2>4 DEF Holds
  <2>8. now + v <= c.coarse
    BY <2>1, <2>3, <2>d
  <2>9. c'.sig = None => Covered(c', Timers) /\ CachedOK(c')
    <3> SUFFICES ASSUME c'.sig = None PROVE Covered(c', Timers) /\ CachedOK(c')
      OBVIOUS
    <3>1. \A t \in Timers : Serves(c, t, c.coarse)
      BY <1>0, <2>4 DEF StateOf, Awake, CachedOK
    <3>2. \A t \in Timers : Deadline(c', t) = Deadline(c, t) /\ GraceOf(c', t) = GraceOf(c, t)
      BY <2>4 DEF Deadline, GraceOf, ToLinkDef
    <3>3. \A t \in Timers : Deadline(c, t) \in Nat /\ GraceOf(c, t) \in Nat
      BY <1>0, GraceType DEF CtxFields, TimerRec, Deadline
    <3>4. \A t \in Timers : Serves(c', t, c.coarse)
      BY <2>4, <3>1, <3>2 DEF Serves
    <3>5. \A t \in Timers : Serves(c', t, now + v)
      BY <2>1, <2>3, <2>8, <3>2, <3>3, <3>4 DEF Serves
    <3> QED
      BY <2>4, <3>4, <3>5 DEF Covered, CachedOK
  <2>10. StateOf(c', pc')
    BY <1>6, <1>8, <2>4, <2>6, <2>9 DEF StateOf, FirstRound, Awake, Served
  <2>11. pc' \in Places \ {"wait", "post2"}
    BY <1>8 DEF Places
  <2> QED
    BY <1>2, <2>7, <2>10, <2>11, StepDone, HoldsNotLost
<1> QED
  BY <1>3, <1>7, <1>8

LEMMA CoarseTimers2Step == ASSUME LoopState, CoarseTimers2 PROVE LoopState' /\ NotLost
<1>0. Env /\ Sane(c) /\ StateOf(c, "coarse2") /\ c \in CtxFields
  BY StateEnv DEF CoarseTimers2
<1>1. cfg' = cfg /\ now' = now
  BY DEF CoarseTimers2
<1>2. cfg.tls /\ c.tmp.future = 0 => now = 1
  BY <1>0 DEF StateOf, FirstRound
<1>3. CASE c.sig # None
  <2>1. c' = CoarseEnd(c) /\ pc' = "tls"
    BY <1>3 DEF CoarseTimers2
  <2>2. StateOf(c', pc') /\ Holds(c, c')
    BY <1>0, <1>2, <1>3, <2>1, CoarseEndState
  <2>3. pc' \in Places \ {"wait", "post2"}
    BY <2>1 DEF Places
  <2> QED
    BY <1>1, <2>2, <2>3, StepDone, HoldsNotLost
<1>4. CASE c.sig = None
  <2>1. c' = CheckPingRestart(c) /\ pc' = "coarse3"
    BY <1>4 DEF CoarseTimers2
  <2>2. Covered(c, Early)
    BY <1>0, <1>4 DEF StateOf, Awake
  <2>3. Sane(c') /\ Covered(c', Middle) /\ Holds(c, c')
    BY <1>0, <2>1, <2>2, MiddleLook
  <2>4. StateOf(c', pc')
    BY <1>2, <2>1, <2>3 DEF StateOf, FirstRound, Awake, Served, Holds, Middle
  <2>5. pc' \in Places \ {"wait", "post2"}
    BY <2>1 DEF Places
  <2> QED
    BY <1>1, <2>3, <2>4, <2>5, StepDone, HoldsNotLost
<1> QED
  BY <1>3, <1>4

LEMMA CoarseTimers3Step == ASSUME LoopState, CoarseTimers3 PROVE LoopState' /\ NotLost
<1>0. Env /\ Sane(c) /\ StateOf(c, "coarse3") /\ c \in CtxFields
  BY StateEnv DEF CoarseTimers3
<1>1. cfg' = cfg /\ now' = now /\ pc' = "tls" /\ pc' \in Places \ {"wait", "post2"}
  BY DEF CoarseTimers3, Places
<1>2. cfg.tls /\ c.tmp.future = 0 => now = 1
  BY <1>0 DEF StateOf, FirstRound
<1>3. CASE c.sig # None
  <2>1. c' = CoarseEnd(c)
    BY <1>3 DEF CoarseTimers3
  <2>2. StateOf(c', pc') /\ Holds(c, c')
    BY <1>0, <1>1, <1>2, <1>3, <2>1, CoarseEndState
  <2> QED
    BY <1>1, <2>2, StepDone, HoldsNotLost
<1>4. CASE c.sig = None
  <2> DEFINE y == CheckPingSend(CheckExit(CheckOccLoad(CheckOccReq(c))))
  <2>1. c' = CoarseEnd(y)
    BY <1>4 DEF CoarseTimers3
  <2>2. Covered(c, Middle)
    BY <1>0, <1>4 DEF StateOf, Awake, Middle
  <2>3. Sane(y) /\ Covered(y, Timers) /\ Holds(c, y)
    BY <1>0, <1>4, <2>2, LateLook
  <2> HIDE DEF y
  <2>4. cfg.tls /\ y.tmp.future = 0 => now = 1
    BY <1>2, <2>3 DEF Holds
  <2>5. StateOf(CoarseEnd(y), "tls") /\ Holds(y, CoarseEnd(y))
    BY <1>0, <2>3, <2>4, CoarseEndState
  <2>6. Holds(c, c')
    BY <2>1, <2>3, <2>5, HoldsTrans
  <2> QED
    BY <1>1, <2>1, <2>5, <2>6, StepDone, HoldsNotLost
<1> QED
  BY <1>3, <1>4

-----------------------------------------------------------------------------
\* The smallest of three, as tls_multi_process returns it.
LEMMA MinThree ==
    ASSUME NEW a \in Int, NEW b \in Int, NEW d \in Int
    PROVE  Min({a, b, d}) \in {a, b, d} /\ \A y \in {a, b, d} : Min({a, b, d}) <= y
<1>1. \E x \in {a, b, d} : \A y \in {a, b, d} : x <= y
  <2>1. CASE a <= b /\ a <= d
    BY <2>1
  <2>2. CASE b <= a /\ b <= d
    BY <2>2
  <2>3. CASE d <= a /\ d <= b
    BY <2>3
  <2> QED
    BY <2>1, <2>2, <2>3
<1> QED
  BY <1>1 DEF Min

\* A wakeup still serves a timer whose deadline did not move forward and which may be as late as before.
LEMMA ServesLater ==
    ASSUME Env, NEW x \in CtxFields, NEW y \in CtxFields, NEW t \in Timers, NEW w \in Int, NEW u \in Int, u <= w,
           y.tm[t].def => x.tm[t].def /\ Deadline(x, t) <= Deadline(y, t), GraceOf(x, t) <= GraceOf(y, t),
           Serves(x, t, w)
    PROVE  Serves(y, t, u)
<1>1. /\ GraceOf(x, t) \in Nat /\ GraceOf(y, t) \in Nat /\ Deadline(x, t) \in Nat /\ Deadline(y, t) \in Nat /\ now \in Nat
  BY EnvTypes, GraceType DEF Deadline, CtxFields, TimerRec
<1> QED
  BY <1>1 DEF Serves

\* A shorter wait serves all that a longer one did.
LEMMA AwakeLater ==
    ASSUME Env, NEW x \in CtxFields, NEW y \in CtxFields, Keeps(x, y, {}), y.coarse \in {x.coarse, 0},
           GraceOf(x, "ping_send") <= GraceOf(y, "ping_send"), NEW S \in SUBSET Timers
    PROVE  (CachedOK(x) => CachedOK(y)) /\ (Covered(x, S) => Covered(y, S))
<1>1. /\ x.tv \in Nat /\ y.tv \in Nat /\ now \in Nat /\ y.tv <= x.tv /\ x.coarse \in Nat /\ y.coarse \in Nat
      /\ y.coarse <= x.coarse
  BY EnvTypes DEF CtxFields, Keeps
<1>2. \A t \in Timers : GraceOf(x, t) <= GraceOf(y, t)
  BY DEF GraceOf
<1>3. \A t \in Timers : y.tm[t].def => x.tm[t].def /\ Deadline(x, t) <= Deadline(y, t)
  BY DEF Keeps
<1>4. CachedOK(x) => CachedOK(y)
  <2>1. x.coarse \in Int /\ y.coarse \in Int
    BY <1>1
  <2> QED
    BY <1>1, <1>2, <1>3, <2>1, ServesLater DEF CachedOK
<1>5. Covered(x, S) => Covered(y, S)
  <2>1. now + x.tv \in Int /\ now + y.tv \in Int /\ now + y.tv <= now + x.tv
    BY <1>1
  <2> QED
    BY <1>2, <1>3, <2>1, ServesLater DEF Covered
<1> QED
  BY <1>4, <1>5

\* TLS has been served, or need not be before the wait ends.
TlsDone(x, y) ==
    /\ Sane(y) /\ Keeps(x, y, {}) /\ y.coarse = x.coarse /\ y.rx = None /\ (ToLinkDef(x) => ToLinkDef(y))
    /\ y.tv <= cfg.refresh /\ now + y.tv <= y.wake /\ y.tmp.future # 0
    /\ y.to_tun = x.to_tun /\ y.frag = x.frag /\ (x.to_link # None => y.to_link = x.to_link)
    /\ y.sig = None => x.sig = None

\* check_tls when TLS has nothing to do.
LEMMA TlsIdle ==
    ASSUME Env, NEW x, Sane(x), cfg.tls, x.tmp.future = 0 => now = 1, NEW w \in Nat, w >= 1, ~ IntervalTest(x)
    PROVE  TlsDone(x, CheckTls(x, w))
<1> DEFINE a == x.tmp.tested + cfg.refresh - now
           b == x.tmp.future - now
           pending == {d \in {a, b} : d > 0}
           m == Min(pending \cup {Big})
<1>0. /\ x \in CtxFields /\ x.tmp \in TmpRec /\ x.tmp.future \in Nat /\ x.tmp.action \in Nat /\ x.tmp.tested \in Nat
      /\ now \in Nat /\ cfg.refresh \in Nat /\ x.tmp.tested <= now /\ x.wake = x.tmp.future /\ x.tv \in Nat
  BY EnvTypes DEF Sane, CtxFields, TmpRec
<1>1. x.tmp.future # 0 /\ now < x.tmp.future /\ now < x.tmp.tested + cfg.refresh /\ x.tmp.action # now
  BY <1>0 DEF IntervalTest, Horizon
<1>2. CheckTls(x, w) = RescheduleSec(x, m)
  BY DEF CheckTls
<1>3. a \in Int /\ b \in Int /\ a > 0 /\ b > 0 /\ a <= cfg.refresh /\ now + b = x.wake
  BY <1>0, <1>1
<1> HIDE DEF a, b
<1>4. pending \cup {Big} = {a, b, Big} /\ Big \in Int /\ Big > 0
  BY <1>3 DEF Big
<1>5. m \in Int /\ m >= 0 /\ m <= a /\ m <= b
  <2>1. m = Min({a, b, Big})
    BY <1>4
  <2>2. Min({a, b, Big}) \in {a, b, Big} /\ \A q \in {a, b, Big} : Min({a, b, Big}) <= q
    BY <1>3, <1>4, MinThree
  <2> HIDE DEF m
  <2> QED
    BY <1>3, <1>4, <2>1, <2>2
<1> HIDE DEF m
<1>6. PICK v \in Nat : CheckTls(x, w) = [x EXCEPT !.tv = v] /\ v <= x.tv /\ v <= m
  BY <1>0, <1>2, <1>5, RescheduleIs
<1> DEFINE y == [x EXCEPT !.tv = v]
<1>7. /\ y \in CtxFields /\ y.tm = x.tm /\ y.tv = v /\ y.to_link = x.to_link /\ y.to_tun = x.to_tun /\ y.tun = x.tun
      /\ y.residual = x.residual /\ y.frag = x.frag /\ y.rx = x.rx /\ y.tmp = x.tmp /\ y.ctl_in = x.ctl_in
      /\ y.wake = x.wake /\ y.addr = x.addr /\ y.exit_wait = x.exit_wait /\ y.sig = x.sig /\ y.coarse = x.coarse
  BY <1>0 DEF CtxFields
<1> HIDE DEF y
<1>8. Sane(y) /\ Keeps(x, y, {})
  <2>1. y.tv <= x.tv
    BY <1>6, <1>7
  <2> QED
    BY <1>7, <2>1, SideEffect
<1>9. y.tv <= cfg.refresh /\ now + y.tv <= y.wake
  BY <1>0, <1>3, <1>5, <1>6, <1>7
<1>10. y.rx = None
  BY <1>1, <1>7 DEF Sane
<1> QED
  BY <1>1, <1>6, <1>7, <1>8, <1>9, <1>10 DEF TlsDone, ToLinkDef, y

\* check_tls when tls_multi_process runs.
LEMMA TlsServed ==
    ASSUME Env, NEW x, Sane(x), cfg.tls, NEW w \in Nat, w >= 1, IntervalTest(x)
    PROVE  TlsDone(x, CheckTls(x, w))
<1>0. /\ x \in CtxFields /\ x.tmp \in TmpRec /\ now \in Nat /\ cfg.refresh \in Nat /\ x.tv \in Nat /\ x.addr \in BOOLEAN
      /\ x.conn \in BOOLEAN /\ x.to_link \in {None, "data", "frag", "ping", "occ", "tls"} /\ x.ctl_out \in 0 .. 1
      /\ x.ctl_in \in {None, "PUSH_REPLY", "AUTH_FAILED"} /\ x.sig \in LoopSignals
  BY EnvTypes DEF Sane, CtxFields
<1> DEFINE sends == x.ctl_out # 0 /\ x.to_link = None
           l == IF sends THEN "tls" ELSE x.to_link
           k == IF sends THEN 0 ELSE x.ctl_out
           h == x.conn \/ x.rx = "handshake"
           ad == x.addr \/ x.rx = "handshake"
           i == IF x.rx \in {"PUSH_REPLY", "AUTH_FAILED"} THEN x.rx ELSE x.ctl_in
           s == IF x.rx = "tls_error" /\ cfg.tcp THEN "USR1" ELSE x.sig
           f == now + w
           p == [future |-> f, action |-> IF sends \/ x.rx # None THEN now ELSE x.tmp.action, tested |-> now]
           m == Min({w, cfg.refresh})
           y0 == [x EXCEPT !.to_link = l, !.ctl_out = k, !.rx = None, !.conn = h, !.addr = ad, !.ctl_in = i, !.sig = s,
                           !.wake = f]
           y == [y0 EXCEPT !.tmp = p]
<1>1. TlsMultiProcess(x, w) = IF sends \/ x.rx # None THEN [y0 EXCEPT !.tmp.action = now] ELSE y0
  BY DEF TlsMultiProcess, IntervalAction
<1>3. /\ l \in {None, "data", "frag", "ping", "occ", "tls"} /\ k \in 0 .. 1 /\ h \in BOOLEAN /\ ad \in BOOLEAN
      /\ i \in {None, "PUSH_REPLY", "AUTH_FAILED"} /\ s \in LoopSignals /\ f \in Nat /\ f # 0
  BY <1>0 DEF LoopSignals
<1>4. p \in TmpRec /\ p.future = f /\ p.tested = now /\ p.action \in Nat
  BY <1>0 DEF TmpRec
<1>5. /\ (x.to_link # None => l = x.to_link) /\ (s = None => x.sig = None) /\ (cfg.remote => ad)
      /\ (i # None => cfg.pull)
  BY DEF Sane, None
<1>6. m \in Int /\ m >= 0 /\ m <= w /\ m <= cfg.refresh
  BY <1>0, MinTwo
<1>7. now + w = f
  OBVIOUS
<1>e. p = IF sends \/ x.rx # None THEN [[x.tmp EXCEPT !.action = now] EXCEPT !.tested = now, !.future = f]
          ELSE [x.tmp EXCEPT !.tested = now, !.future = f]
  BY <1>0 DEF TmpRec
<1> HIDE DEF sends, l, k, h, ad, i, s, f, p, m
<1>y. y0 \in CtxFields
  <2> DEFINE y1 == [x EXCEPT !.to_link = l, !.ctl_out = k]
             y2 == [y1 EXCEPT !.rx = None, !.conn = h]
             y3 == [y2 EXCEPT !.addr = ad, !.ctl_in = i]
             y4 == [y3 EXCEPT !.sig = s, !.wake = f]
  <2>1. y1 \in CtxFields
    BY <1>0, <1>3 DEF CtxFields
  <2>a. y4 = y0
    OBVIOUS
  <2> HIDE DEF y1
  <2>2. y2 \in CtxFields
    BY <1>3, <2>1 DEF CtxFields
  <2> HIDE DEF y2
  <2>3. y3 \in CtxFields
    BY <1>3, <2>2 DEF CtxFields
  <2> HIDE DEF y3
  <2>4. y4 \in CtxFields
    BY <1>3, <2>3 DEF CtxFields
  <2> HIDE DEF y4
  <2> QED
    BY <2>a, <2>4
<1>z. y0.tmp = x.tmp
  BY <1>0 DEF CtxFields
<1>2. CheckTls(x, w) = RescheduleSec(y, m)
  <2>1. CheckTls(x, w) = RescheduleSec([TlsMultiProcess(x, w) EXCEPT !.tmp.tested = now, !.tmp.future = f], m)
    BY <1>7 DEF CheckTls, m
  <2> HIDE DEF y0
  <2>2. CASE sends \/ x.rx # None
    <3>1. [[y0 EXCEPT !.tmp.action = now] EXCEPT !.tmp.tested = now, !.tmp.future = f] = y
      BY <1>0, <1>y, <1>z, <1>e, <2>2 DEF CtxFields
    <3> QED
      BY <1>1, <2>1, <2>2, <3>1
  <2>3. CASE ~ (sends \/ x.rx # None)
    <3>1. [y0 EXCEPT !.tmp.tested = now, !.tmp.future = f] = y
      BY <1>0, <1>y, <1>z, <1>e, <2>3 DEF CtxFields
    <3> QED
      BY <1>1, <2>1, <2>3, <3>1
  <2> QED
    BY <2>2, <2>3
<1>8. y \in CtxFields
  <2> HIDE DEF y0
  <2> QED
    BY <1>4, <1>y DEF CtxFields
<1>9. /\ y.tm = x.tm /\ y.tv = x.tv /\ y.to_link = l /\ y.to_tun = x.to_tun /\ y.tun = x.tun
      /\ y.residual = x.residual /\ y.frag = x.frag /\ y.rx = None /\ y.tmp = p /\ y.ctl_in = i
      /\ y.wake = f /\ y.addr = ad /\ y.exit_wait = x.exit_wait /\ y.sig = s /\ y.coarse = x.coarse
  BY <1>0 DEF CtxFields
<1> HIDE DEF y
<1>10. PICK v \in Nat : CheckTls(x, w) = [y EXCEPT !.tv = v] /\ v <= y.tv /\ v <= m
  BY <1>2, <1>6, <1>8, RescheduleIs
<1> DEFINE z == [y EXCEPT !.tv = v]
<1>11. /\ z \in CtxFields /\ z.tm = x.tm /\ z.tv = v /\ z.to_link = l /\ z.to_tun = x.to_tun /\ z.tun = x.tun
       /\ z.residual = x.residual /\ z.frag = x.frag /\ z.rx = None /\ z.tmp = p /\ z.ctl_in = i
       /\ z.wake = f /\ z.addr = ad /\ z.exit_wait = x.exit_wait /\ z.sig = s /\ z.coarse = x.coarse
  BY <1>8, <1>9 DEF CtxFields
<1> HIDE DEF z
<1>12. TimersSane(z)
  BY <1>5, <1>11 DEF Sane, TimersSane
<1>13. Sane(z)
  BY <1>0, <1>4, <1>5, <1>11, <1>12 DEF Sane, None
<1>14. Keeps(x, z, {})
  <2>1. \A t \in Timers : Deadline(x, t) \in Nat /\ Deadline(z, t) = Deadline(x, t)
    BY <1>0, <1>11 DEF CtxFields, TimerRec, Deadline
  <2>2. z.tv <= x.tv
    BY <1>9, <1>10, <1>11
  <2> QED
    BY <1>11, <2>1, <2>2 DEF Keeps
<1>15. z.tv <= cfg.refresh /\ now + z.tv <= z.wake
  BY <1>0, <1>6, <1>7, <1>10, <1>11
<1>16. ToLinkDef(x) => ToLinkDef(z)
  BY <1>5, <1>11 DEF ToLinkDef
<1> QED
  BY <1>3, <1>4, <1>5, <1>10, <1>11, <1>13, <1>14, <1>15, <1>16 DEF TlsDone, z

\* A context that stays as it is, at the next place.
LEMMA GraceByLink ==
    ASSUME Env, NEW x, NEW y, ToLinkDef(x) => ToLinkDef(y)
    PROVE  GraceOf(x, "ping_send") <= GraceOf(y, "ping_send")
  BY DEF GraceOf

\* check_tls keeps the invariant.
LEMMA PreSelectTlsStep == ASSUME LoopState, PreSelectTls PROVE LoopState' /\ NotLost
<1>0. Env /\ Sane(c) /\ StateOf(c, "tls") /\ c \in CtxFields
  BY StateEnv DEF PreSelectTls
<1>1. cfg' = cfg /\ now' = now
  BY DEF PreSelectTls
<1>2. cfg.tls /\ c.tmp.future = 0 => now = 1
  BY <1>0 DEF StateOf, FirstRound
<1>3. CASE c.sig # None
  <2>1. c' = c /\ pc' = "post" /\ pc' \in Places \ {"wait", "post2"}
    BY <1>3 DEF PreSelectTls, Places
  <2>2. StateOf(c', pc')
    BY <1>0, <1>2, <1>3, <2>1 DEF StateOf, FirstRound, Served
  <2> QED
    BY <1>1, <2>1, <2>2, StepDone DEF NotLost
<1>4. CASE c.sig = None /\ ~ cfg.tls
  <2>1. c' = c /\ pc' = "ctl" /\ pc' \in Places \ {"wait", "post2"}
    BY <1>4 DEF PreSelectTls, Places
  <2>2. c.rx = None
    BY <1>0, <1>4 DEF Sane
  <2>3. Covered(c, Timers) /\ CachedOK(c)
    BY <1>0, <1>4 DEF StateOf, Awake
  <2>4. StateOf(c', pc')
    BY <1>0, <1>4, <2>1, <2>2, <2>3 DEF StateOf, FirstRound, Served, Awake
  <2> QED
    BY <1>1, <2>1, <2>4, StepDone DEF NotLost
<1>5. CASE c.sig = None /\ cfg.tls
  <2>1. pc' = "ctl" /\ pc' \in Places \ {"wait", "post2"}
    BY <1>5 DEF PreSelectTls, Places
  <2>2. PICK w \in {1, cfg.refresh} : c' = CheckTls(c, w)
    BY <1>5 DEF PreSelectTls
  <2>3. w \in Nat /\ w >= 1
    BY <1>0, EnvTypes
  <2>4. TlsDone(c, c')
    <3>1. CASE IntervalTest(c)
      BY <1>0, <1>5, <2>2, <2>3, <3>1, TlsServed
    <3>2. CASE ~ IntervalTest(c)
      BY <1>0, <1>2, <1>5, <2>2, <2>3, <3>2, TlsIdle
    <3> QED
      BY <3>1, <3>2
  <2>5. Covered(c, Timers) /\ CachedOK(c)
    BY <1>0, <1>5 DEF StateOf, Awake
  <2>6. Covered(c', Timers) /\ CachedOK(c')
    <3>1. GraceOf(c, "ping_send") <= GraceOf(c', "ping_send")
      BY <1>0, <2>4, GraceByLink DEF TlsDone
    <3>2. c' \in CtxFields /\ Keeps(c, c', {}) /\ c'.coarse \in {c.coarse, 0} /\ Timers \in SUBSET Timers
      BY <2>4 DEF TlsDone, Sane
    <3> QED
      BY <1>0, <2>5, <3>1, <3>2, AwakeLater
  <2>7. StateOf(c', pc')
    BY <2>1, <2>4, <2>6 DEF StateOf, FirstRound, Served, Awake, TlsDone
  <2>8. NotLost
    BY <2>4 DEF NotLost, TlsDone
  <2> QED
    BY <1>1, <2>1, <2>7, <2>8, StepDone
<1> QED
  BY <1>3, <1>4, <1>5

-----------------------------------------------------------------------------
\* The timers that are started when the options have been pulled.
Begun(x, y) == Sane(y) /\ y.tm["exit"] = x.tm["exit"] /\ y = [x EXCEPT !.tm = y.tm]
LEMMA InitTimer ==
    ASSUME Env, NEW x, Sane(x), NEW t \in {"inactive", "ping_rec", "ping_send", "connect", "occ", "load", "persist"}, NEW n \in Nat,
           NEW last \in {0, now}, t = "ping_send" => n >= 1
    PROVE  Begun(x, TimerInit(x, t, n, last))
<1> DEFINE r == [def |-> TRUE, n |-> n, last |-> last]
           y == [x EXCEPT !.tm[t] = r]
<1>1. r \in TimerRec /\ r.last <= now /\ r.n = n
  BY EnvTypes DEF TimerRec
<1>2. t \in Timers \ {"exit"}
  BY DEF Timers
<1>3. t = "ping_send" /\ r.def => r.n >= 1
  BY <1>1
<1>a. r \in TimerRec /\ r.last <= now
  BY <1>1
<1>4. TimerInit(x, t, n, last) = y
  BY DEF TimerInit
<1> HIDE DEF r
<1>5. Sane(y) /\ y = [x EXCEPT !.tm = y.tm]
  BY <1>a, <1>2, <1>3, SetTimer, ZenonT(40)
<1>6. y.tm["exit"] = x.tm["exit"]
  BY <1>2 DEF Sane, CtxFields
<1> HIDE DEF y
<1> QED
  BY <1>4, <1>5, <1>6 DEF Begun

\* Only timers, the cached wakeup, and whether the device is open.
Started(x, y) ==
    /\ Sane(y) /\ y.tm["exit"] = x.tm["exit"] /\ Holds(x, y) /\ y.to_link = x.to_link /\ y.frag = x.frag
    /\ y.sig = x.sig /\ y.tv = x.tv /\ y.wake = x.wake /\ y.exit_wait = x.exit_wait /\ y.rx = x.rx
    /\ y.ctl_in = x.ctl_in /\ y.occ_op = x.occ_op

\* Timers are started one after the other.
LEMMA StartedTrans == ASSUME NEW x, NEW y, NEW z, Started(x, y), Started(y, z) PROVE Started(x, z)
  BY DEF Started, Holds, ToLinkDef

LEMMA TimerStarted ==
    ASSUME Env, NEW x, Sane(x), NEW y, Sane(y), y.tm["exit"] = x.tm["exit"], y = [x EXCEPT !.tm = y.tm]
    PROVE  Started(x, y) /\ y.coarse = x.coarse
  BY ClearHolds DEF Started

\* do_init_timers with deferred set: the timers the server may push.
LEMMA InitPingsSane ==
    ASSUME Env, NEW x, Sane(x)
    PROVE  LET y == InitPings(x) IN Started(x, y) /\ y.coarse = 0
<1> DEFINE a == ResetCoarse(x)
           b == IF cfg.inactive # 0 THEN TimerInit(a, "inactive", cfg.inactive, now) ELSE a
           d == IF cfg.ping # 0 THEN TimerInit(b, "ping_send", cfg.ping, 0) ELSE b
           e == IF cfg.ping_rec # 0 THEN TimerInit(d, "ping_rec", cfg.ping_rec, now) ELSE d
<1>0. cfg.inactive \in Nat /\ cfg.ping \in Nat /\ cfg.ping_rec \in Nat /\ (cfg.ping # 0 => cfg.ping >= 1)
  BY EnvTypes
<1>1. Started(x, a) /\ a.coarse = 0 /\ Sane(a)
  <2>1. Sane(a) /\ Holds(x, a) /\ a.sig = x.sig /\ a.coarse = 0 /\ a.tm = x.tm /\ a.tv = x.tv /\ a = [x EXCEPT !.coarse = 0]
    BY ResetCoarseSane
  <2> HIDE DEF a
  <2>2. /\ a.to_link = x.to_link /\ a.frag = x.frag /\ a.wake = x.wake /\ a.exit_wait = x.exit_wait /\ a.rx = x.rx
        /\ a.ctl_in = x.ctl_in /\ a.occ_op = x.occ_op
    BY <2>1 DEF Sane, CtxFields
  <2> QED
    BY <2>1, <2>2 DEF Started
<1>2. InitPings(x) = e
  BY DEF InitPings
<1> HIDE DEF a
<1>3. Started(a, b) /\ b.coarse = a.coarse
  <2>1. CASE cfg.inactive # 0
    <3>1. b = TimerInit(a, "inactive", cfg.inactive, now)
      BY <2>1
    <3> HIDE DEF b
    <3>2. now \in {0, now} /\ ("inactive" = "ping_send" => cfg.inactive >= 1)
      BY <1>0, <2>1
    <3>3. Begun(a, TimerInit(a, "inactive", cfg.inactive, now))
      BY <1>0, <1>1, <3>2, InitTimer
    <3> QED
      BY <1>1, <3>1, <3>3, TimerStarted DEF Begun
  <2>2. CASE cfg.inactive = 0
    BY <1>1, <2>2 DEF Started, Holds
  <2> QED
    BY <2>1, <2>2
<1>4. Sane(b)
  BY <1>3 DEF Started
<1> HIDE DEF b
<1>5. Started(b, d) /\ d.coarse = b.coarse
  <2>1. CASE cfg.ping # 0
    <3>1. d = TimerInit(b, "ping_send", cfg.ping, 0)
      BY <2>1
    <3> HIDE DEF d
    <3>2. 0 \in {0, now} /\ ("ping_send" = "ping_send" => cfg.ping >= 1)
      BY <1>0, <2>1
    <3>3. Begun(b, TimerInit(b, "ping_send", cfg.ping, 0))
      BY <1>0, <1>4, <3>2, InitTimer
    <3> QED
      BY <1>4, <3>1, <3>3, TimerStarted DEF Begun
  <2>2. CASE cfg.ping = 0
    BY <1>4, <2>2 DEF Started, Holds
  <2> QED
    BY <2>1, <2>2
<1>6. Sane(d)
  BY <1>5 DEF Started
<1> HIDE DEF d
<1>7. Started(d, e) /\ e.coarse = d.coarse
  <2>1. CASE cfg.ping_rec # 0
    <3>1. e = TimerInit(d, "ping_rec", cfg.ping_rec, now)
      BY <2>1
    <3> HIDE DEF e
    <3>2. now \in {0, now} /\ ("ping_rec" = "ping_send" => cfg.ping_rec >= 1)
      BY <1>0, <2>1
    <3>3. Begun(d, TimerInit(d, "ping_rec", cfg.ping_rec, now))
      BY <1>0, <1>6, <3>2, InitTimer
    <3> QED
      BY <1>6, <3>1, <3>3, TimerStarted DEF Begun
  <2>2. CASE cfg.ping_rec = 0
    BY <1>6, <2>2 DEF Started, Holds
  <2> QED
    BY <2>1, <2>2
<1> HIDE DEF e
<1> QED
  BY <1>1, <1>2, <1>3, <1>5, <1>7, StartedTrans

\* The timer of the exit notifications is not one of them.
LEMMA ExitKept ==
    ASSUME Env, NEW x, Sane(x), NEW y, Started(x, y), Covered(x, {"exit"})
    PROVE  Covered(y, {"exit"})
<1>1. Deadline(y, "exit") = Deadline(x, "exit") /\ y.tv = x.tv /\ y.tm["exit"] = x.tm["exit"]
  BY DEF Started, Deadline
<1> QED
  BY <1>1 DEF Covered, Serves

\* A wakeup that has passed is no obstacle to any timer.
LEMMA CoarseZero == ASSUME Env, NEW y, Sane(y), y.coarse = 0 PROVE CachedOK(y)
<1>1. \A t \in Timers : Deadline(y, t) \in Nat
  BY DEF Sane, CtxFields, TimerRec, Deadline
<1> QED
  BY <1>1 DEF CachedOK, Serves

\* do_up with the pulled options.
LEMMA DoUpSane ==
    ASSUME Env, NEW x, Sane(x)
    PROVE  LET y == DoUp(x, TRUE) IN y = x \/ (Started(x, y) /\ y.coarse = 0)
<1> DEFINE o == [x EXCEPT !.up = TRUE, !.tun = TRUE]
           a == ResetCoarse(o)
           y == InitPings(a)
<1>1. DoUp(x, TRUE) \in {x, y}
  BY DEF DoUp
<1>2. Sane(o) /\ Holds(x, o) /\ o.tm = x.tm
  BY OpenSane
<1>3. Started(x, o)
  <2>1. /\ o.to_link = x.to_link /\ o.frag = x.frag /\ o.wake = x.wake /\ o.exit_wait = x.exit_wait /\ o.rx = x.rx
        /\ o.ctl_in = x.ctl_in /\ o.occ_op = x.occ_op /\ o.sig = x.sig /\ o.tv = x.tv
    BY DEF Sane, CtxFields
  <2> HIDE DEF o
  <2> QED
    BY <1>2, <2>1 DEF Started
<1> HIDE DEF o
<1>4. Sane(a) /\ Holds(o, a) /\ a.sig = o.sig /\ a.tm = o.tm /\ a.tv = o.tv /\ a = [o EXCEPT !.coarse = 0]
  BY <1>2, ResetCoarseSane
<1> HIDE DEF a
<1>5. Started(o, a)
  <2>1. /\ a.to_link = o.to_link /\ a.frag = o.frag /\ a.wake = o.wake /\ a.exit_wait = o.exit_wait /\ a.rx = o.rx
        /\ a.ctl_in = o.ctl_in /\ a.occ_op = o.occ_op
    BY <1>2, <1>4 DEF Sane, CtxFields
  <2> QED
    BY <1>4, <2>1 DEF Started
<1>6. Started(a, y) /\ y.coarse = 0
  BY <1>4, InitPingsSane
<1> HIDE DEF y
<1> QED
  BY <1>1, <1>3, <1>5, <1>6, StartedTrans

\* What the rest of pre_select may leave.
AfterControl(x, y) ==
    /\ Sane(y) /\ Holds(x, y) /\ y.to_link = x.to_link /\ y.frag = x.frag /\ y.rx = x.rx /\ y.ctl_in = None
    /\ y.tv = x.tv /\ y.wake = x.wake
    /\ y.sig = None => CachedOK(y) /\ Covered(y, Exact) /\ x.sig = None

\* check_incoming_control_channel_dowork.
LEMMA IncomingControlSane ==
    ASSUME Env, NEW x, Sane(x), x.sig = None, Covered(x, Timers), CachedOK(x)
    PROVE  AfterControl(x, IncomingControl(x))
<1>0. x \in CtxFields /\ x.ctl_in \in {None, "PUSH_REPLY", "AUTH_FAILED"} /\ Covered(x, Exact) /\ "exit" \in Timers /\ Covered(x, {"exit"})
  BY TimerNames DEF Sane, CtxFields, Covered, Exact
<1> DEFINE o == [x EXCEPT !.ctl_in = None]
<1>1. /\ o \in CtxFields /\ o.tm = x.tm /\ o.tv = x.tv /\ o.to_link = x.to_link /\ o.to_tun = x.to_tun /\ o.tun = x.tun
      /\ o.residual = x.residual /\ o.frag = x.frag /\ o.rx = x.rx /\ o.tmp = x.tmp /\ o.ctl_in = None
      /\ o.wake = x.wake /\ o.addr = x.addr /\ o.exit_wait = x.exit_wait /\ o.sig = x.sig /\ o.coarse = x.coarse
  BY <1>0 DEF CtxFields
<1>c. /\ x.ctl_in = "PUSH_REPLY" => IncomingControl(x) = TimerClear(DoUp(o, TRUE), "push")
      /\ x.ctl_in = "AUTH_FAILED" => IncomingControl(x) = Raise(o, "TERM")
      /\ x.ctl_in = None => IncomingControl(x) = x
  BY DEF IncomingControl, None
<1> HIDE DEF o
<1>2. TimersSane(o)
  BY <1>1 DEF Sane, TimersSane
<1>3. Sane(o) /\ Holds(x, o)
  <2>1. Sane(o)
    BY <1>1, <1>2 DEF Sane
  <2> QED
    BY <1>1, <2>1 DEF Holds
<1>4. CachedOK(o) /\ Covered(o, {"exit"})
  <2>1. \A t \in Timers : \A w : Serves(x, t, w) => Serves(o, t, w)
    BY <1>1 DEF Serves, Deadline, GraceOf, ToLinkDef
  <2> QED
    BY <1>0, <1>1, <2>1 DEF CachedOK, Covered
<1>5. CASE x.ctl_in = None
  <2>1. Holds(x, x)
    BY DEF Holds
  <2> QED
    BY <1>0, <1>c, <1>5, <2>1 DEF AfterControl
<1>6. CASE x.ctl_in = "AUTH_FAILED"
  <2> DEFINE y == Raise(o, "TERM")
  <2>1. Sane(y) /\ Holds(o, y) /\ y.sig = "TERM"
    BY <1>3, RaiseSane DEF LoopSignals, None
  <2>2. /\ y.to_link = o.to_link /\ y.frag = o.frag /\ y.rx = o.rx /\ y.ctl_in = o.ctl_in /\ y.tv = o.tv
        /\ y.wake = o.wake
    BY <1>1 DEF Raise, CtxFields
  <2> HIDE DEF y
  <2>3. Holds(x, y)
    BY <1>3, <2>1, HoldsTrans
  <2> QED
    BY <1>1, <1>c, <1>6, <2>1, <2>2, <2>3 DEF AfterControl, None, y
<1>7. CASE x.ctl_in = "PUSH_REPLY"
  <2> DEFINE u == DoUp(o, TRUE)
             y == TimerClear(u, "push")
  <2>1. u = o \/ (Started(o, u) /\ u.coarse = 0)
    BY <1>3, DoUpSane
  <2> HIDE DEF u
  <2>2. Started(o, u) /\ Sane(u) /\ CachedOK(u)
    <3>1. CASE u = o
      BY <1>3, <1>4, <3>1 DEF Started, Holds
    <3>2. CASE Started(o, u) /\ u.coarse = 0
      <4>1. Sane(u)
        BY <3>2 DEF Started
      <4> QED
        BY <3>2, <4>1, CoarseZero
    <3> QED
      BY <2>1, <3>1, <3>2
  <2>3. Sane(y) /\ Keeps(u, y, {}) /\ y = [u EXCEPT !.tm = y.tm]
    BY <2>2, ClearTimer, TimerNames
  <2>4. y.tm["exit"] = u.tm["exit"]
    BY <1>0, <2>2 DEF TimerClear, Sane, CtxFields
  <2> HIDE DEF y
  <2>5. Started(u, y) /\ y.coarse = u.coarse
    BY <2>2, <2>3, <2>4, TimerStarted
  <2>6. Started(o, y)
    BY <2>2, <2>5, StartedTrans
  <2>7. Covered(y, {"exit"})
    BY <1>3, <1>4, <2>6, ExitKept
  <2>8. CachedOK(y)
    <3>1. u \in CtxFields /\ y \in CtxFields /\ Timers \in SUBSET Timers /\ y.coarse \in {u.coarse, 0}
      BY <2>2, <2>3, <2>5 DEF Sane
    <3>2. GraceOf(u, "ping_send") <= GraceOf(y, "ping_send")
      <4>1. ToLinkDef(u) => ToLinkDef(y)
        BY <2>5 DEF Started, ToLinkDef
      <4> QED
        BY <4>1, GraceByLink
    <3> QED
      BY <2>2, <2>3, <3>1, <3>2, AwakeLater
  <2>9. Exact = {"exit"}
    BY <1>7 DEF Exact, Sane, None
  <2>10. Holds(x, y)
    BY <1>3, <2>6, HoldsTrans DEF Started
  <2> QED
    BY <1>1, <1>c, <1>7, <2>3, <2>6, <2>7, <2>8, <2>9, <2>10 DEF AfterControl, Started, y, u
<1> QED
  BY <1>0, <1>5, <1>6, <1>7

\* An answer to the peer goes out, or the round is not to wait.
AfterOcc(x, y) ==
    /\ Sane(y) /\ Keeps(x, y, {}) /\ Holds(x, y) /\ y.coarse = x.coarse /\ y.rx = x.rx /\ y.ctl_in = x.ctl_in
    /\ y.wake = x.wake /\ y.sig = x.sig /\ (ToLinkDef(x) => ToLinkDef(y))
    /\ y.occ_op # None => y.tv = 0

\* check_send_occ_msg sends what is due if to_link is free.
LEMMA SendOccSane == ASSUME Env, NEW x, Sane(x) PROVE AfterOcc(x, SendOccMsg(x))
<1>0. x \in CtxFields /\ x.tv \in Nat
  BY DEF Sane, CtxFields
<1>1. CASE x.occ_op = None
  <2>1. SendOccMsg(x) = x
    BY <1>1 DEF SendOccMsg
  <2>2. Keeps(x, x, {}) /\ Holds(x, x)
    BY <1>0 DEF Keeps, Holds, Deadline, CtxFields, TimerRec
  <2> QED
    BY <1>1, <2>1, <2>2 DEF AfterOcc
<1>2. CASE x.occ_op # None /\ ToLinkDef(x)
  <2> DEFINE y == [x EXCEPT !.tv = 0]
  <2>1. SendOccMsg(x) = y
    BY <1>2 DEF SendOccMsg
  <2>2. /\ y \in CtxFields /\ y.tm = x.tm /\ y.tv = 0 /\ y.to_link = x.to_link /\ y.to_tun = x.to_tun /\ y.tun = x.tun
        /\ y.residual = x.residual /\ y.frag = x.frag /\ y.rx = x.rx /\ y.tmp = x.tmp /\ y.ctl_in = x.ctl_in
        /\ y.wake = x.wake /\ y.addr = x.addr /\ y.exit_wait = x.exit_wait /\ y.sig = x.sig /\ y.coarse = x.coarse
    BY <1>0 DEF CtxFields
  <2> HIDE DEF y
  <2>3. y.tv <= x.tv
    BY <1>0, <2>2
  <2>4. Sane(y) /\ Keeps(x, y, {}) /\ Holds(x, y)
    BY <2>2, <2>3, SideEffect
  <2> QED
    BY <2>1, <2>2, <2>4 DEF AfterOcc, ToLinkDef
<1>3. CASE x.occ_op # None /\ ~ ToLinkDef(x)
  <2> DEFINE e == EncryptSign(x, "occ", 1)
             y == [e EXCEPT !.occ_op = None]
  <2>1. SendOccMsg(x) = y
    BY <1>3 DEF SendOccMsg
  <2>2. Sane(e) /\ Keeps(x, e, {}) /\ Holds(x, e) /\ e = [x EXCEPT !.frag = e.frag, !.to_link = e.to_link]
    <3>1. "occ" \in {"data", "frag", "ping", "occ", "tls"} /\ 1 \in 1 .. 2 /\ e = EncryptSign(x, "occ", 1)
      OBVIOUS
    <3> HIDE DEF e
    <3> QED
      BY <1>3, <3>1, EncryptFree, ZenonT(60) DEF Encrypted
  <2> HIDE DEF e
  <2>3. e.coarse = x.coarse /\ e.rx = x.rx /\ e.ctl_in = x.ctl_in /\ e.wake = x.wake /\ e.sig = x.sig
    <3> DEFINE f == e.frag
               l == e.to_link
    <3>1. e = [x EXCEPT !.frag = f, !.to_link = l]
      BY <2>2
    <3> HIDE DEF f, l
    <3> QED
      BY <1>0, <3>1 DEF CtxFields
  <2>4. /\ y \in CtxFields /\ y.tm = e.tm /\ y.tv = e.tv /\ y.to_link = e.to_link /\ y.to_tun = e.to_tun /\ y.tun = e.tun
        /\ y.residual = e.residual /\ y.frag = e.frag /\ y.rx = e.rx /\ y.tmp = e.tmp /\ y.ctl_in = e.ctl_in
        /\ y.wake = e.wake /\ y.addr = e.addr /\ y.exit_wait = e.exit_wait /\ y.sig = e.sig /\ y.coarse = e.coarse
        /\ y.occ_op = None
    BY <2>2 DEF Sane, CtxFields
  <2> HIDE DEF y
  <2>5. y.tv <= e.tv
    BY <2>2, <2>4 DEF Sane, CtxFields
  <2>6. Sane(y) /\ Keeps(e, y, {}) /\ Holds(e, y)
    BY <2>2, <2>4, <2>5, SideEffect
  <2>7. Keeps(x, y, {} \cup {}) /\ Holds(x, y)
    BY <2>2, <2>6, ThenSane
  <2> QED
    BY <1>3, <2>1, <2>3, <2>4, <2>6, <2>7 DEF AfterOcc
<1> QED
  BY <1>1, <1>2, <1>3

\* The next fragment goes out, or is dropped when the peer cannot be reached.
AfterFragment(x, y) ==
    /\ Sane(y) /\ Keeps(x, y, {}) /\ y.coarse = x.coarse /\ y.rx = x.rx /\ y.ctl_in = x.ctl_in /\ y.tv = x.tv
    /\ y.wake = x.wake /\ y.sig = x.sig /\ y.occ_op = x.occ_op /\ y.to_tun = x.to_tun /\ y.tmp = x.tmp
    /\ GraceOf(x, "ping_send") <= GraceOf(y, "ping_send")
    /\ y.frag # 0 => y.to_link # None
    /\ x.to_link # None => y.to_link = x.to_link
    /\ x.frag # 0 => y.frag \in {x.frag, x.frag - 1}

\* check_fragment sends the next fragment if to_link is free.
LEMMA CheckFragmentSane == ASSUME Env, NEW x, Sane(x) PROVE AfterFragment(x, CheckFragment(x))
<1>0. x \in CtxFields /\ x.tv \in Nat /\ x.frag \in 0 .. 1
  BY DEF Sane, CtxFields
<1>1. CASE ~ (cfg.frag /\ x.frag # 0 /\ x.to_link = None)
  <2>1. CheckFragment(x) = x
    BY <1>1 DEF CheckFragment
  <2>2. Keeps(x, x, {})
    BY <1>0 DEF Keeps, Deadline, CtxFields, TimerRec
  <2>3. x.frag # 0 => x.to_link # None
    BY <1>1 DEF Sane
  <2>4. GraceOf(x, "ping_send") <= GraceOf(x, "ping_send")
    BY GraceByLink
  <2> QED
    BY <2>1, <2>2, <2>3, <2>4 DEF AfterFragment
<1>2. CASE cfg.frag /\ x.frag # 0 /\ x.to_link = None
  <2> DEFINE l == IF Sendable(x) THEN "frag" ELSE None
             y == [x EXCEPT !.frag = 0, !.to_link = l]
  <2>1. x.frag - 1 = 0
    BY <1>0, <1>2
  <2>2. CheckFragment(x) = y
    BY <1>2, <2>1 DEF CheckFragment
  <2>3. l \in {None, "data", "frag", "ping", "occ", "tls"}
    OBVIOUS
  <2>g. l # None \/ ~ x.addr \/ cfg.tls
    BY DEF Sendable, None
  <2> HIDE DEF l
  <2>4. y \in CtxFields
    <3>1. [x EXCEPT !.frag = 0] \in CtxFields
      BY <1>0 DEF CtxFields
    <3>2. [[x EXCEPT !.frag = 0] EXCEPT !.to_link = l] \in CtxFields
      BY <2>3, <3>1 DEF CtxFields
    <3> QED
      BY <3>2
  <2>5. /\ y.tm = x.tm /\ y.tv = x.tv /\ y.to_link = l /\ y.to_tun = x.to_tun /\ y.tun = x.tun
        /\ y.residual = x.residual /\ y.frag = 0 /\ y.rx = x.rx /\ y.tmp = x.tmp /\ y.ctl_in = x.ctl_in
        /\ y.wake = x.wake /\ y.addr = x.addr /\ y.exit_wait = x.exit_wait /\ y.sig = x.sig /\ y.coarse = x.coarse
        /\ y.occ_op = x.occ_op
    BY <1>0 DEF CtxFields
  <2> HIDE DEF y
  <2>6. TimersSane(y)
    BY <2>5 DEF Sane, TimersSane
  <2>7. Sane(y)
    BY <2>4, <2>5, <2>6 DEF Sane
  <2>8. Keeps(x, y, {})
    <3>1. \A t \in Timers : Deadline(x, t) \in Nat /\ Deadline(y, t) = Deadline(x, t)
      BY <1>0, <2>5 DEF CtxFields, TimerRec, Deadline
    <3> QED
      BY <1>0, <2>5, <3>1 DEF Keeps
  <2>9. GraceOf(x, "ping_send") <= GraceOf(y, "ping_send")
    <3>1. ToLinkDef(y) \/ (cfg.frag /\ (cfg.tls \/ ~ cfg.remote))
      BY <1>2, <2>5, <2>g DEF ToLinkDef, Sane
    <3> QED
      BY <3>1 DEF GraceOf
  <2> QED
    BY <1>2, <2>1, <2>2, <2>5, <2>7, <2>8, <2>9 DEF AfterFragment
<1> QED
  BY <1>1, <1>2

\* The rest of pre_select keeps the invariant.
LEMMA PreSelectRestStep == ASSUME LoopState, PreSelectRest PROVE LoopState' /\ NotLost
<1>0. Env /\ Sane(c) /\ StateOf(c, "ctl") /\ c \in CtxFields
  BY StateEnv DEF PreSelectRest
<1>1. cfg' = cfg /\ now' = now /\ pc' = "post" /\ pc' \in Places \ {"wait", "post2"}
  BY DEF PreSelectRest, Places
<1>2. (cfg.tls => c.tmp.future # 0) /\ c.rx = None
  BY <1>0 DEF StateOf, FirstRound, Served
<1>3. CASE c.sig # None
  <2>1. c' = c
    BY <1>3 DEF PreSelectRest
  <2>2. StateOf(c', pc')
    BY <1>0, <1>1, <1>2, <1>3, <2>1 DEF StateOf, FirstRound, Served
  <2> QED
    BY <1>1, <2>1, <2>2, StepDone DEF NotLost
<1>4. CASE c.sig = None
  <2> DEFINE a == IncomingControl(c)
             b == SendOccMsg(a)
  <2>1. c' = CheckFragment(b)
    BY <1>4 DEF PreSelectRest
  <2>2. Covered(c, Timers) /\ CachedOK(c) /\ (cfg.tls => c.tv <= cfg.refresh /\ now + c.tv <= c.wake)
    BY <1>0, <1>4 DEF StateOf, Awake
  <2>3. AfterControl(c, a) /\ Sane(a)
    BY <1>0, <1>4, <2>2, IncomingControlSane DEF AfterControl
  <2> HIDE DEF a
  <2>4. AfterOcc(a, b) /\ Sane(b)
    BY <1>0, <2>3, SendOccSane DEF AfterOcc
  <2> HIDE DEF b
  <2>5. AfterFragment(b, c') /\ Sane(c')
    BY <1>0, <2>1, <2>4, CheckFragmentSane DEF AfterFragment
  <2>6. c'.sig = None => CachedOK(c') /\ Covered(c', Exact)
    <3> SUFFICES ASSUME c'.sig = None PROVE CachedOK(c') /\ Covered(c', Exact)
      OBVIOUS
    <3>1. CachedOK(a) /\ Covered(a, Exact)
      BY <2>3, <2>4, <2>5 DEF AfterControl, AfterOcc, AfterFragment
    <3>2. Exact \in SUBSET Timers /\ a \in CtxFields /\ b \in CtxFields /\ c' \in CtxFields
      BY <2>3, <2>4, <2>5, TimerNames DEF Exact, Sane
    <3>3. CachedOK(b) /\ Covered(b, Exact)
      <4>1. GraceOf(a, "ping_send") <= GraceOf(b, "ping_send")
        BY <1>0, <2>4, GraceByLink DEF AfterOcc
      <4>2. Keeps(a, b, {}) /\ b.coarse \in {a.coarse, 0}
        BY <2>4 DEF AfterOcc
      <4> QED
        BY <1>0, <3>1, <3>2, <4>1, <4>2, AwakeLater
    <3>4. /\ Keeps(b, c', {}) /\ c'.coarse \in {b.coarse, 0} /\ GraceOf(b, "ping_send") <= GraceOf(c', "ping_send")
      BY <2>5 DEF AfterFragment
    <3> QED
      BY <1>0, <3>2, <3>3, <3>4, AwakeLater
  <2>7. c'.tv <= c.tv /\ c'.wake = c.wake /\ c'.tmp.future = c.tmp.future /\ c'.rx = None /\ c'.ctl_in = None
    BY <1>2, <2>3, <2>4, <2>5 DEF AfterControl, AfterOcc, AfterFragment, Holds, Keeps
  <2>8. cfg.tls => c'.tv <= cfg.refresh /\ now + c'.tv <= c'.wake
    <3>1. c.tv \in Nat /\ c'.tv \in Nat /\ now \in Nat /\ cfg.refresh \in Nat /\ c.wake \in Nat
      BY <1>0, <2>5, EnvTypes DEF Sane, CtxFields
    <3> QED
      BY <2>2, <2>7, <3>1
  <2>9. (c'.frag # 0 => c'.to_link # None) /\ (c'.occ_op # None => c'.tv = 0)
    BY <2>4, <2>5 DEF AfterOcc, AfterFragment
  <2>10. StateOf(c', pc')
    BY <1>1, <1>2, <2>5, <2>6, <2>7, <2>8, <2>9 DEF StateOf, FirstRound, Served, Ready, Awake
  <2>11. NotLost
    <3>1. Holds(c, a) /\ Holds(a, b)
      BY <2>3, <2>4 DEF AfterControl, AfterOcc
    <3>2. Holds(c, b)
      BY <3>1, HoldsTrans
    <3> QED
      BY <2>5, <3>2 DEF NotLost, Holds, ToLinkDef, AfterFragment
  <2> QED
    BY <1>1, <2>10, <2>11, StepDone
<1> QED
  BY <1>3, <1>4

-----------------------------------------------------------------------------
\* What process_io has to leave.
LEMMA IoDone ==
    ASSUME LoopState, pc = "post2", cfg' = cfg, now' = now, pc' = "post3", Sane(c'), c'.tmp.future = c.tmp.future,
           c'.sig = None => CachedOK(c')
    PROVE  LoopState'
<1>1. cfg.tls => c.tmp.future # 0
  BY DEF LoopState, StateOf, FirstRound
<1>2. StateOf(c', pc')
  BY <1>1 DEF StateOf, FirstRound, Awake, Served
<1>3. pc' \in Places \ {"wait", "post2"}
  BY DEF Places
<1> QED
  BY <1>2, <1>3, StepDone

\* What io_wait found, at process_io.
LEMMA AtIoFacts ==
    ASSUME LoopState, NEW e, AtIo(e)
    PROVE  /\ Env /\ Sane(c) /\ c \in CtxFields /\ pc = "post2" /\ c.sig = None /\ e \in status /\ pc' = "post3"
           /\ CachedOK(c) /\ Timers \in SUBSET Timers /\ Events
<1>1. pc = "post2" /\ c.sig = None /\ e \in status /\ pc' = "post3"
  BY DEF AtIo
<1>2. CachedOK(c)
  BY <1>1 DEF LoopState, StateOf, Awake
<1> QED
  BY <1>1, <1>2, StateEnv DEF LoopState

\* The steps of process_io keep the invariant.
LEMMA NextRoundStep == ASSUME LoopState, NextRound PROVE LoopState' /\ NotLost
<1>1. c.sig = None /\ pc \in {"post2", "post3"} /\ c' = c /\ pc' = "coarse" /\ cfg' = cfg /\ now' = now
  BY DEF NextRound
<1>2. StateOf(c', pc') /\ pc' \in Places \ {"wait", "post2"}
  BY <1>1 DEF LoopState, StateOf, FirstRound, Awake, Served, Places
<1> QED
  BY <1>1, <1>2, StepDone DEF NotLost

LEMMA ReadTunStep == ASSUME LoopState, ReadTun PROVE LoopState' /\ NotLost
<1>1. AtIo("tunR") /\ cfg' = cfg /\ now' = now
  BY DEF ReadTun
<1>2. /\ Env /\ Sane(c) /\ c \in CtxFields /\ pc = "post2" /\ c.sig = None /\ pc' = "post3" /\ CachedOK(c)
      /\ Timers \in SUBSET Timers /\ Events /\ "tunR" \in status
  BY <1>1, AtIoFacts
<1>3. ~ ToLinkDef(c) /\ c.to_link = None /\ c.frag = 0
  BY <1>2 DEF Events, ToLinkDef
<1>4. PICK k \in 1 .. 2 : c' = EncryptSign(c, "data", k)
  BY DEF ReadTun
<1>5. Sane(c') /\ Keeps(c, c', {}) /\ Holds(c, c') /\ c' = [c EXCEPT !.frag = c'.frag, !.to_link = c'.to_link]
  <2> DEFINE z == EncryptSign(c, "data", k)
  <2>1. "data" \in {"data", "frag", "ping", "occ", "tls"} /\ z = EncryptSign(c, "data", k) /\ c' = z
    BY <1>4
  <2> HIDE DEF z
  <2>2. Sane(z) /\ Keeps(c, z, {}) /\ Holds(c, z) /\ z = [c EXCEPT !.frag = z.frag, !.to_link = z.to_link]
    <3>1. Env /\ Sane(c) /\ ~ ToLinkDef(c)
      BY <1>2, <1>3
    <3>2. "data" \in {"data", "frag", "ping", "occ", "tls"} /\ z = EncryptSign(c, "data", k)
      BY <2>1
    <3>3. Encrypted(c, z)
      BY <3>1, <3>2, EncryptFree
    <3> QED
      BY <3>3 DEF Encrypted
  <2> QED
    BY <2>1, <2>2
<1>6. c'.coarse = c.coarse /\ c'.tmp = c.tmp
  <2> DEFINE f == c'.frag
             l == c'.to_link
  <2>1. c' = [c EXCEPT !.frag = f, !.to_link = l]
    BY <1>5
  <2> HIDE DEF f, l
  <2> QED
    BY <1>2, <2>1 DEF CtxFields
<1>7. CachedOK(c')
  <2>1. GraceOf(c, "ping_send") <= GraceOf(c', "ping_send")
    BY <1>2, <1>3, GraceByLink
  <2>2. c' \in CtxFields /\ c'.coarse \in {c.coarse, 0}
    BY <1>5, <1>6 DEF Sane
  <2> QED
    BY <1>2, <1>5, <2>1, <2>2, AwakeLater
<1> QED
  BY <1>1, <1>2, <1>5, <1>6, <1>7, IoDone, HoldsNotLost

LEMMA ProcessOutgoingLinkStep == ASSUME LoopState, ProcessOutgoingLink PROVE LoopState' /\ NotLost
<1>1. AtIo("sockW") /\ cfg' = cfg /\ now' = now
  BY DEF ProcessOutgoingLink
<1>2. /\ Env /\ Sane(c) /\ c \in CtxFields /\ pc = "post2" /\ c.sig = None /\ pc' = "post3" /\ CachedOK(c) /\ "sockW" \in status
  BY <1>1, AtIoFacts
<1> DEFINE y == TimerReset(c, "ping_send")
           h == IF cfg.shaper # 0 THEN now + cfg.shaper ELSE 0
           z == [y EXCEPT !.to_link = None, !.shaper = h]
<1>3. c' = z
  BY DEF ProcessOutgoingLink
<1>4. Sane(y) /\ Keeps(c, y, {}) /\ y = [c EXCEPT !.tm = y.tm] /\ (y.tm["ping_send"].def => y.tm["ping_send"].last = now)
  BY <1>2, ResetTimer, TimerNames
<1> HIDE DEF y
<1>5. /\ y.coarse = c.coarse /\ y.tmp = c.tmp /\ Holds(c, y) /\ y.frag = c.frag
  BY <1>2, <1>4, ClearHolds
<1>6. h \in Nat /\ now \in Nat /\ y \in CtxFields
  BY <1>2, <1>4, EnvTypes DEF Sane
<1> HIDE DEF h
<1>7. z \in CtxFields
  BY <1>6 DEF CtxFields
<1>8. /\ z.tm = y.tm /\ z.tv = y.tv /\ z.to_link = None /\ z.to_tun = y.to_tun /\ z.tun = y.tun
      /\ z.residual = y.residual /\ z.frag = y.frag /\ z.rx = y.rx /\ z.tmp = y.tmp /\ z.ctl_in = y.ctl_in
      /\ z.wake = y.wake /\ z.addr = y.addr /\ z.exit_wait = y.exit_wait /\ z.sig = y.sig /\ z.coarse = y.coarse
  BY <1>6 DEF CtxFields
<1> HIDE DEF z
<1>9. TimersSane(z)
  BY <1>4, <1>8 DEF Sane, TimersSane
<1>10. Sane(z)
  BY <1>4, <1>7, <1>8, <1>9 DEF Sane
<1>11. CachedOK(z)
  <2> SUFFICES ASSUME NEW t \in Timers, z.tm[t].def PROVE Serves(z, t, z.coarse)
    BY DEF CachedOK, Serves
  <2>1. /\ Serves(c, t, c.coarse) /\ c.tm[t].def /\ Deadline(c, t) <= Deadline(z, t) /\ z.coarse = c.coarse
    BY <1>2, <1>4, <1>5, <1>8 DEF CachedOK, Keeps, Deadline
  <2>2. Deadline(c, t) \in Nat /\ Deadline(z, t) \in Nat /\ c.coarse \in Nat /\ GraceOf(c, t) \in Nat
    BY <1>2, <1>7, GraceType DEF Deadline, CtxFields, TimerRec
  <2>3. CASE t # "ping_send"
    <3>1. GraceOf(z, t) = GraceOf(c, t)
      BY <2>3 DEF GraceOf
    <3> QED
      BY <2>1, <2>2, <3>1 DEF Serves
  <2>4. CASE t = "ping_send"
    <3>1. z.tm[t].last = now /\ z.tm[t].n \in Nat /\ z.tm[t].n >= 1
      BY <1>4, <1>7, <1>8, <1>9, <2>4 DEF TimersSane, CtxFields, TimerRec
    <3>2. now + 1 <= Deadline(z, t)
      BY <1>6, <3>1 DEF Deadline
    <3>3. GraceOf(c, t) <= 1
      BY <2>4 DEF GraceOf
    <3> QED
      BY <1>6, <2>1, <2>2, <3>2, <3>3 DEF Serves
  <2> QED
    BY <2>3, <2>4
<1>12. NotLost
  BY <1>2, <1>3, <1>5, <1>8 DEF NotLost, Holds
<1> QED
  BY <1>1, <1>2, <1>3, <1>5, <1>8, <1>10, <1>11, <1>12, IoDone

LEMMA ProcessOutgoingTunStep == ASSUME LoopState, ProcessOutgoingTun PROVE LoopState' /\ NotLost
<1>1. AtIo("tunW") /\ cfg' = cfg /\ now' = now
  BY DEF ProcessOutgoingTun
<1>2. /\ Env /\ Sane(c) /\ c \in CtxFields /\ pc = "post2" /\ c.sig = None /\ pc' = "post3" /\ CachedOK(c) /\ "tunW" \in status
      /\ Timers \in SUBSET Timers
  BY <1>1, AtIoFacts
<1> DEFINE y == TimerReset(c, "inactive")
           z == [y EXCEPT !.to_tun = None]
<1>3. c' = z
  BY DEF ProcessOutgoingTun
<1>4. Sane(y) /\ Keeps(c, y, {}) /\ y = [c EXCEPT !.tm = y.tm]
  BY <1>2, ResetTimer, TimerNames
<1> HIDE DEF y
<1>5. /\ y.coarse = c.coarse /\ y.tmp = c.tmp /\ y.frag = c.frag /\ y.to_link = c.to_link
  BY <1>2, <1>4, ClearHolds
<1>6. y \in CtxFields
  BY <1>4 DEF Sane
<1>7. /\ z \in CtxFields /\ z.tm = y.tm /\ z.tv = y.tv /\ z.to_link = y.to_link /\ z.to_tun = None /\ z.tun = y.tun
      /\ z.residual = y.residual /\ z.frag = y.frag /\ z.rx = y.rx /\ z.tmp = y.tmp /\ z.ctl_in = y.ctl_in
      /\ z.wake = y.wake /\ z.addr = y.addr /\ z.exit_wait = y.exit_wait /\ z.sig = y.sig /\ z.coarse = y.coarse
  BY <1>6 DEF CtxFields
<1> HIDE DEF z
<1>8. TimersSane(z)
  BY <1>4, <1>7 DEF Sane, TimersSane
<1>9. Sane(z)
  BY <1>4, <1>7, <1>8 DEF Sane
<1>10. CachedOK(z)
  <2>1. Keeps(c, z, {}) /\ z.coarse \in {c.coarse, 0}
    BY <1>4, <1>5, <1>7 DEF Keeps, Deadline
  <2>2. GraceOf(c, "ping_send") <= GraceOf(z, "ping_send")
    <3>1. ToLinkDef(c) => ToLinkDef(z)
      BY <1>5, <1>7 DEF ToLinkDef
    <3> QED
      BY <1>2, <3>1, GraceByLink
  <2> QED
    BY <1>2, <1>7, <2>1, <2>2, AwakeLater
<1>11. NotLost
  BY <1>2, <1>3, <1>5, <1>7 DEF NotLost
<1> QED
  BY <1>1, <1>2, <1>3, <1>5, <1>7, <1>9, <1>10, <1>11, IoDone

\* What a packet from the socket may do to the context.
Received(x, y) ==
    /\ y \in CtxFields /\ TimersSane(y) /\ Keeps(x, y, {}) /\ y.coarse = x.coarse /\ y.to_link = x.to_link /\ y.frag = x.frag
    /\ y.tun = x.tun /\ (y.to_tun # None => y.tun) /\ y.tmp.tested = x.tmp.tested /\ y.tmp.future = x.tmp.future
    /\ y.ctl_in = x.ctl_in /\ y.wake = x.wake /\ (x.addr => y.addr) /\ y.exit_wait = x.exit_wait
    /\ y.sig = None => x.sig = None
    /\ (y.rx = x.rx /\ y.tmp.action = x.tmp.action) \/ (cfg.tls /\ y.tmp.action = now /\ (y.rx \in {"PUSH_REPLY", "AUTH_FAILED"} => cfg.pull))

\* What a packet from the link may change.
LEMMA SaneReceived == ASSUME Env, NEW x, Sane(x) PROVE Received(x, x)
  BY DEF Received, Sane, Keeps, Deadline, CtxFields, TimerRec

LEMMA ReceivedTrans ==
    ASSUME Env, NEW x, Sane(x), NEW y, Received(x, y), NEW z \in CtxFields, TimersSane(z), Keeps(y, z, {}), z.coarse = y.coarse,
           z.to_link = y.to_link, z.frag = y.frag, z.tun = y.tun, z.to_tun # None => z.tun, z.tmp = y.tmp, z.ctl_in = y.ctl_in,
           z.wake = y.wake, y.addr => z.addr, z.exit_wait = y.exit_wait, z.sig = None => y.sig = None, z.rx = y.rx
    PROVE  Received(x, z)
<1>1. Keeps(x, z, {} \cup {})
  BY KeepsTrans DEF Received, Sane
<1> QED
  BY <1>1 DEF Received

\* Timers only.
LEMMA ReceivedTimers ==
    ASSUME Env, NEW x, Sane(x), NEW y, Sane(y), Keeps(x, y, {}), y = [x EXCEPT !.tm = y.tm]
    PROVE  Received(x, y)
<1>1. Received(x, x)
  BY SaneReceived
<1>2. Holds(x, y) /\ y.sig = x.sig /\ y.coarse = x.coarse /\ y.to_link = x.to_link /\ y.frag = x.frag
      /\ y.wake = x.wake /\ y.exit_wait = x.exit_wait /\ y.rx = x.rx /\ y.ctl_in = x.ctl_in /\ y.tmp = x.tmp
      /\ y.tun = x.tun /\ y.addr = x.addr
  BY ClearHolds
<1>3. y \in CtxFields /\ TimersSane(y) /\ (y.to_tun # None => y.tun)
  BY DEF Sane
<1> QED
  BY <1>1, <1>2, <1>3, ReceivedTrans

\* A control packet wakes TLS in the same second.
LEMMA ReceivedControlOK ==
    ASSUME Env, NEW x, Sane(x), x.sig = None, NEW k \in Control, cfg.tls, k \in {"PUSH_REPLY", "AUTH_FAILED"} => cfg.pull
    PROVE  Received(x, ReceivedControl(x, k))
<1>0. x \in CtxFields /\ x.tmp \in TmpRec /\ now \in Nat /\ x.tv \in Nat
  BY EnvTypes DEF Sane, CtxFields
<1> DEFINE p == [x.tmp EXCEPT !.action = now]
           y == [x EXCEPT !.rx = k, !.ctl_out = 1, !.to_tun = None, !.tmp = p]
           z == TimerReset(y, "ping_rec")
<1>1. ReceivedControl(x, k) = z
  <2>1. IntervalAction([x EXCEPT !.rx = k, !.ctl_out = 1, !.to_tun = None]) = y
    BY <1>0 DEF IntervalAction, CtxFields
  <2> QED
    BY <2>1 DEF ReceivedControl
<1>2. p \in TmpRec /\ p.action = now /\ p.tested = x.tmp.tested /\ p.future = x.tmp.future
  BY <1>0 DEF TmpRec
<1> HIDE DEF p
<1>3. y \in CtxFields
  <2> DEFINE y1 == [x EXCEPT !.rx = k]
             y2 == [y1 EXCEPT !.ctl_out = 1]
             y3 == [y2 EXCEPT !.to_tun = None]
             y4 == [y3 EXCEPT !.tmp = p]
  <2>1. y1 \in CtxFields
    BY <1>0 DEF CtxFields
  <2>a. y = y4
    OBVIOUS
  <2> HIDE DEF y1
  <2>2. y2 \in CtxFields
    BY <2>1 DEF CtxFields
  <2> HIDE DEF y2
  <2>3. y3 \in CtxFields
    BY <2>2 DEF CtxFields
  <2> HIDE DEF y3
  <2>4. y4 \in CtxFields
    BY <1>2, <2>3 DEF CtxFields
  <2> HIDE DEF y4
  <2> QED
    BY <2>a, <2>4
<1>4. /\ y.tm = x.tm /\ y.tv = x.tv /\ y.to_link = x.to_link /\ y.to_tun = None /\ y.tun = x.tun
      /\ y.residual = x.residual /\ y.frag = x.frag /\ y.rx = k /\ y.tmp = p /\ y.ctl_in = x.ctl_in
      /\ y.wake = x.wake /\ y.addr = x.addr /\ y.exit_wait = x.exit_wait /\ y.sig = x.sig /\ y.coarse = x.coarse
  BY <1>0 DEF CtxFields
<1> HIDE DEF y
<1>5. TimersSane(y)
  BY <1>4 DEF Sane, TimersSane
<1>6. Sane(y)
  BY <1>2, <1>3, <1>4, <1>5 DEF Sane, None
<1>7. Keeps(x, y, {})
  <2>1. \A t \in Timers : Deadline(x, t) \in Nat /\ Deadline(y, t) = Deadline(x, t)
    BY <1>0, <1>4 DEF CtxFields, TimerRec, Deadline
  <2> QED
    BY <1>0, <1>4, <2>1 DEF Keeps
<1>8. Received(x, y)
  BY <1>2, <1>3, <1>4, <1>5, <1>7 DEF Received
<1>9. Sane(z) /\ Keeps(y, z, {}) /\ z = [y EXCEPT !.tm = z.tm]
  BY <1>6, ResetTimer, TimerNames
<1> HIDE DEF z
<1>10. /\ z.sig = y.sig /\ z.coarse = y.coarse /\ z.to_link = y.to_link /\ z.frag = y.frag
       /\ z.wake = y.wake /\ z.exit_wait = y.exit_wait /\ z.rx = y.rx /\ z.ctl_in = y.ctl_in /\ z.tmp = y.tmp
       /\ z.tun = y.tun /\ z.addr = y.addr
  BY <1>6, <1>9, ClearHolds
<1>11. z \in CtxFields /\ TimersSane(z) /\ (z.to_tun # None => z.tun)
  BY <1>9 DEF Sane
<1> QED
  BY <1>1, <1>8, <1>9, <1>10, <1>11, ReceivedTrans

\* A field the invariant hardly speaks of.
LEMMA ReceivedSide ==
    ASSUME Env, NEW x, Sane(x), NEW y, Received(x, y), NEW z \in CtxFields, z.tm = y.tm, z.tv = y.tv, z.coarse = y.coarse,
           z.to_link = y.to_link, z.frag = y.frag, z.tun = y.tun, z.to_tun # None => z.tun, z.tmp = y.tmp, z.ctl_in = y.ctl_in,
           z.wake = y.wake, y.addr => z.addr, z.exit_wait = y.exit_wait, z.sig = None => y.sig = None, z.rx = y.rx
    PROVE  Received(x, z)
<1>1. y \in CtxFields /\ TimersSane(y)
  BY DEF Received
<1>2. TimersSane(z)
  BY <1>1 DEF TimersSane
<1>3. \A t \in Timers : Deadline(y, t) \in Nat /\ Deadline(z, t) = Deadline(y, t)
  BY <1>1 DEF CtxFields, TimerRec, Deadline
<1>4. Keeps(y, z, {})
  BY <1>1, <1>3 DEF Keeps, CtxFields
<1> QED
  BY <1>2, <1>4, ReceivedTrans

\* A packet for the device.
LEMMA ToTunReceived ==
    ASSUME Env, NEW x, Sane(x), NEW y, Received(x, y), NEW v \in {None, "data"}, v # None => x.tun
    PROVE  Received(x, [y EXCEPT !.to_tun = v])
<1> DEFINE z == [y EXCEPT !.to_tun = v]
<1>0. y \in CtxFields /\ y.tun = x.tun
  BY DEF Received
<1>1. /\ z \in CtxFields /\ z.tm = y.tm /\ z.tv = y.tv /\ z.to_link = y.to_link /\ z.to_tun = v /\ z.tun = y.tun
      /\ z.frag = y.frag /\ z.rx = y.rx /\ z.tmp = y.tmp /\ z.ctl_in = y.ctl_in
      /\ z.wake = y.wake /\ z.addr = y.addr /\ z.exit_wait = y.exit_wait /\ z.sig = y.sig /\ z.coarse = y.coarse
  BY <1>0 DEF CtxFields
<1> HIDE DEF z
<1>2. Received(x, z)
  BY <1>0, <1>1, ReceivedSide
<1> QED
  BY <1>2 DEF z

\* A packet that ends the connection.
LEMMA RaiseReceived ==
    ASSUME Env, NEW x, Sane(x), NEW y, Received(x, y), NEW s \in LoopSignals \ {None}
    PROVE  Received(x, Raise(y, s))
<1> DEFINE z == [y EXCEPT !.sig = s]
<1>0. y \in CtxFields /\ y.tun = x.tun /\ (y.to_tun # None => y.tun)
  BY DEF Received
<1>1. /\ z \in CtxFields /\ z.tm = y.tm /\ z.tv = y.tv /\ z.to_link = y.to_link /\ z.to_tun = y.to_tun /\ z.tun = y.tun
      /\ z.frag = y.frag /\ z.rx = y.rx /\ z.tmp = y.tmp /\ z.ctl_in = y.ctl_in
      /\ z.wake = y.wake /\ z.addr = y.addr /\ z.exit_wait = y.exit_wait /\ z.sig = s /\ z.coarse = y.coarse
  BY <1>0 DEF CtxFields
<1> HIDE DEF z
<1>2. Received(x, z)
  BY <1>0, <1>1, ReceivedSide
<1> QED
  BY <1>2 DEF z, Raise

\* The data packets: pings, OCC messages and payload.
LEMMA ReceivedDataOK ==
    ASSUME Env, NEW x, Sane(x), NEW k \in {"data", "ping", "occ_request", "occ_reply", "mtu_reply", "occ_exit"}
    PROVE  Received(x, ReceivedData(x, k))
<1>0. x \in CtxFields /\ x.conn \in BOOLEAN /\ x.tv \in Nat /\ cfg.tls \in BOOLEAN
  BY EnvTypes DEF Sane, CtxFields
<1> DEFINE h == x.conn \/ ~ cfg.tls
           u == [x EXCEPT !.addr = TRUE, !.conn = h]
           y == TimerReset(u, "ping_rec")
           v == IF x.tun THEN "data" ELSE None
<1>1. /\ k = "data" => ReceivedData(x, k) = [y EXCEPT !.to_tun = v]
      /\ k = "ping" => ReceivedData(x, k) = [y EXCEPT !.to_tun = None]
      /\ k \notin {"data", "ping"} => ReceivedData(x, k) = [ReceivedOcc(y, k) EXCEPT !.to_tun = None]
  BY DEF ReceivedData
<1>2. h \in BOOLEAN /\ v \in {None, "data"} /\ (v # None => x.tun)
  BY <1>0
<1> HIDE DEF h, v
<1>3. u \in CtxFields
  BY <1>0, <1>2 DEF CtxFields
<1>4. /\ u.tm = x.tm /\ u.tv = x.tv /\ u.to_link = x.to_link /\ u.to_tun = x.to_tun /\ u.tun = x.tun
      /\ u.residual = x.residual /\ u.frag = x.frag /\ u.rx = x.rx /\ u.tmp = x.tmp /\ u.ctl_in = x.ctl_in
      /\ u.wake = x.wake /\ u.addr = TRUE /\ u.exit_wait = x.exit_wait /\ u.sig = x.sig /\ u.coarse = x.coarse
  BY <1>0 DEF CtxFields
<1> HIDE DEF u
<1>5. Sane(u)
  <2>1. u.tv <= x.tv
    BY <1>0, <1>4
  <2> QED
    BY <1>3, <1>4, <2>1, SideEffect
<1>6. Received(x, u)
  <2>1. Received(x, x) /\ (x.to_tun # None => x.tun)
    BY SaneReceived DEF Sane
  <2> QED
    BY <1>3, <1>4, <2>1, ReceivedSide
<1>7. Sane(y) /\ Keeps(u, y, {}) /\ y = [u EXCEPT !.tm = y.tm]
  BY <1>5, ResetTimer, TimerNames
<1> HIDE DEF y
<1>8. Received(x, y)
  <2>1. /\ y.sig = u.sig /\ y.coarse = u.coarse /\ y.to_link = u.to_link /\ y.frag = u.frag
        /\ y.wake = u.wake /\ y.exit_wait = u.exit_wait /\ y.rx = u.rx /\ y.ctl_in = u.ctl_in /\ y.tmp = u.tmp
        /\ y.tun = u.tun /\ y.addr = u.addr
    BY <1>5, <1>7, ClearHolds
  <2>2. y \in CtxFields /\ TimersSane(y) /\ (y.to_tun # None => y.tun)
    BY <1>7 DEF Sane
  <2> QED
    BY <1>6, <1>7, <2>1, <2>2, ReceivedTrans
<1>9. Received(x, [y EXCEPT !.to_tun = v]) /\ Received(x, [y EXCEPT !.to_tun = None])
  BY <1>2, <1>8, ToTunReceived
<1>10. k \notin {"data", "ping"} => Received(x, ReceivedOcc(y, k))
  <2>1. CASE k = "occ_request"
    <3> DEFINE z == [y EXCEPT !.occ_op = "reply"]
    <3>1. ReceivedOcc(y, k) = z
      BY <2>1 DEF ReceivedOcc
    <3>2. y \in CtxFields /\ (y.to_tun # None => y.tun)
      BY <1>7 DEF Sane
    <3>3. /\ z \in CtxFields /\ z.tm = y.tm /\ z.tv = y.tv /\ z.to_link = y.to_link /\ z.to_tun = y.to_tun /\ z.tun = y.tun
          /\ z.frag = y.frag /\ z.rx = y.rx /\ z.tmp = y.tmp /\ z.ctl_in = y.ctl_in
          /\ z.wake = y.wake /\ z.addr = y.addr /\ z.exit_wait = y.exit_wait /\ z.sig = y.sig /\ z.coarse = y.coarse
      BY <3>2 DEF CtxFields
    <3> HIDE DEF z
    <3> QED
      BY <1>8, <3>1, <3>2, <3>3, ReceivedSide
  <2>2. CASE k \in {"occ_reply", "mtu_reply"}
    <3> DEFINE t == IF k = "occ_reply" THEN "occ" ELSE "load"
               z == TimerClear(y, t)
    <3>1. ReceivedOcc(y, k) = z /\ t \in Timers \ {"exit"}
      BY <2>2, TimerNames DEF ReceivedOcc
    <3> HIDE DEF t
    <3>2. Sane(z) /\ Keeps(y, z, {}) /\ z = [y EXCEPT !.tm = z.tm]
      BY <1>7, <3>1, ClearTimer
    <3> HIDE DEF z
    <3>3. /\ z.sig = y.sig /\ z.coarse = y.coarse /\ z.to_link = y.to_link /\ z.frag = y.frag
          /\ z.wake = y.wake /\ z.exit_wait = y.exit_wait /\ z.rx = y.rx /\ z.ctl_in = y.ctl_in /\ z.tmp = y.tmp
          /\ z.tun = y.tun /\ z.addr = y.addr
      BY <1>7, <3>2, ClearHolds
    <3>4. z \in CtxFields /\ TimersSane(z) /\ (z.to_tun # None => z.tun)
      BY <3>2 DEF Sane
    <3> QED
      BY <1>8, <3>1, <3>2, <3>3, <3>4, ReceivedTrans
  <2>3. CASE k = "occ_exit"
    <3>1. ReceivedOcc(y, k) = Raise(y, "TERM") /\ "TERM" \in LoopSignals \ {None}
      BY <2>3 DEF ReceivedOcc, LoopSignals, None
    <3> QED
      BY <1>8, <3>1, RaiseReceived
  <2> QED
    BY <2>1, <2>2, <2>3
<1>11. k \notin {"data", "ping"} => Received(x, [ReceivedOcc(y, k) EXCEPT !.to_tun = None])
  BY <1>10, ToTunReceived
<1> QED
  BY <1>1, <1>9, <1>11

\* read_incoming_link and process_incoming_link keep the invariant.
LEMMA ReadLinkStep == ASSUME LoopState, ReadLink PROVE LoopState' /\ NotLost
<1>1. AtIo("sockR") /\ cfg' = cfg /\ now' = now
  BY DEF ReadLink
<1>2. /\ Env /\ Sane(c) /\ c \in CtxFields /\ pc = "post2" /\ c.sig = None /\ pc' = "post3" /\ CachedOK(c)
      /\ Timers \in SUBSET Timers /\ Events /\ "sockR" \in status
  BY <1>1, AtIoFacts
<1>3. PICK k \in LinkPackets, left \in {None, "whole"} :
        CanArrive(k) /\ c' = [ProcessIncomingLink(c, k) EXCEPT !.residual = left]
  BY DEF ReadLink
<1> DEFINE y == ProcessIncomingLink(c, k)
           z == [y EXCEPT !.residual = left]
<1>4. Received(c, y)
  <2>s. "USR1" \in LoopSignals \ {None}
    BY DEF LoopSignals, None
  <2>c. Received(c, c)
    BY <1>2, SaneReceived
  <2>1. CASE k \in Control
    <3>1. y = ReceivedControl(c, k)
      BY <2>1 DEF ProcessIncomingLink, Control
    <3>2. cfg.tls /\ (k \in {"PUSH_REPLY", "AUTH_FAILED"} => cfg.pull)
      BY <1>3, <2>1 DEF CanArrive
    <3> HIDE DEF y
    <3> QED
      BY <1>2, <2>1, <3>1, <3>2, ReceivedControlOK
  <2>2. CASE k = "bad"
    <3>1. y \in {Raise(c, "USR1"), [c EXCEPT !.to_tun = None]}
      BY <2>2 DEF ProcessIncomingLink, Control
    <3>2. Received(c, Raise(c, "USR1")) /\ Received(c, [c EXCEPT !.to_tun = None])
      BY <1>2, <2>s, <2>c, RaiseReceived, ToTunReceived
    <3> HIDE DEF y
    <3> QED
      BY <3>1, <3>2
  <2>3. CASE k = "reset"
    <3>1. y = Raise(c, "USR1")
      BY <2>3 DEF ProcessIncomingLink, Control
    <3> HIDE DEF y
    <3> QED
      BY <1>2, <2>s, <2>c, <3>1, RaiseReceived
  <2>4. CASE k \notin Control \cup {"bad", "reset"}
    <3>1. y = ReceivedData(c, k)
      BY <2>4 DEF ProcessIncomingLink
    <3>2. k \in {"data", "ping", "occ_request", "occ_reply", "mtu_reply", "occ_exit"}
      BY <2>4, TunnelAssumption DEF Control
    <3> HIDE DEF y
    <3> QED
      BY <1>2, <3>1, <3>2, ReceivedDataOK
  <2> QED
    BY <2>1, <2>2, <2>3, <2>4
<1>5. c' = z
  BY <1>3
<1> HIDE DEF y
<1>6. y \in CtxFields
  BY <1>4 DEF Received
<1>7. /\ z \in CtxFields /\ z.tm = y.tm /\ z.tv = y.tv /\ z.to_link = y.to_link /\ z.to_tun = y.to_tun /\ z.tun = y.tun
      /\ z.residual = left /\ z.frag = y.frag /\ z.rx = y.rx /\ z.tmp = y.tmp /\ z.ctl_in = y.ctl_in
      /\ z.wake = y.wake /\ z.addr = y.addr /\ z.exit_wait = y.exit_wait /\ z.sig = y.sig /\ z.coarse = y.coarse
  BY <1>6 DEF CtxFields
<1> HIDE DEF z
<1>8. Received(c, z)
  <2>1. y.to_tun # None => y.tun
    BY <1>4 DEF Received
  <2> QED
    BY <1>2, <1>4, <1>7, <2>1, ReceivedSide
<1>9. left # "formed"
  BY DEF None
<1>10. Sane(z)
  BY <1>2, <1>7, <1>8, <1>9 DEF Sane, Received
<1>11. CachedOK(z)
  <2>1. Keeps(c, z, {}) /\ z.coarse \in {c.coarse, 0} /\ z \in CtxFields
    BY <1>8 DEF Received
  <2>2. GraceOf(c, "ping_send") <= GraceOf(z, "ping_send")
    <3>1. ToLinkDef(c) => ToLinkDef(z)
      BY <1>8 DEF ToLinkDef, Received
    <3> QED
      BY <1>2, <3>1, GraceByLink
  <2> QED
    BY <1>2, <2>1, <2>2, AwakeLater
<1>12. NotLost
  <2>1. c.to_tun = None
    BY <1>2 DEF Events
  <2> QED
    BY <1>5, <1>8, <2>1 DEF NotLost, Received
<1>13. c'.tmp.future = c.tmp.future
  BY <1>5, <1>8 DEF Received
<1> QED
  BY <1>1, <1>2, <1>5, <1>10, <1>11, <1>12, <1>13, IoDone

-----------------------------------------------------------------------------
\* What a sleeping loop relies on does not depend on signals.
LEMMA ThrowSignalStep == ASSUME LoopState, ThrowSignal PROVE LoopState' /\ NotLost
<1>0. Env /\ Sane(c) /\ StateOf(c, pc) /\ c \in CtxFields /\ pc \in Places /\ Asleep /\ Events
  BY StateEnv DEF LoopState
<1>1. PICK s \in Signals : c' = [c EXCEPT !.sig = s]
  BY DEF ThrowSignal
<1>2. s \in LoopSignals \ {None}
  BY TunnelAssumption DEF LoopSignals, None
<1>3. cfg' = cfg /\ now' = now /\ pc' = pc /\ req' = req /\ until' = until /\ status' = status
  BY DEF ThrowSignal
<1>4. Sane(c') /\ Holds(c, c') /\ c'.sig = s
  BY <1>0, <1>1, <1>2, RaiseSane DEF Raise
<1>5. /\ c'.to_link = c.to_link /\ c'.to_tun = c.to_tun /\ c'.frag = c.frag /\ c'.rx = c.rx /\ c'.ctl_in = c.ctl_in
      /\ c'.occ_op = c.occ_op /\ c'.shaper = c.shaper /\ c'.exit_wait = c.exit_wait /\ c'.wake = c.wake /\ c'.tun = c.tun
      /\ c'.tmp = c.tmp /\ c'.tv = c.tv
  BY <1>0, <1>1 DEF CtxFields
<1>6. StateOf(c', pc')
  BY <1>0, <1>2, <1>3, <1>4, <1>5 DEF StateOf, FirstRound, Served
<1>7. Asleep'
  <2>1. Shaped' = Shaped
    BY <1>3, <1>5 DEF Shaped
  <2>2. Wanted' = Wanted
    BY <1>5, <2>1 DEF Wanted
  <2>3. c'.sig # None
    BY <1>2, <1>4
  <2>4. Ready(c) => Ready(c)'
    BY <1>5 DEF Ready
  <2> QED
    BY <1>0, <1>3, <1>5, <2>1, <2>2, <2>3, <2>4 DEF Asleep
<1>8. Events'
  BY <1>0, <1>3, <1>5 DEF Events
<1>9. StateOf(c, pc)'
  BY <1>3, <1>6, StatePrime
<1> QED
  BY <1>0, <1>3, <1>4, <1>7, <1>8, <1>9, HoldsNotLost DEF LoopState

\* process_signal, and a restart of the round by SIGUSR2.
LEMMA CheckSignalStep == ASSUME LoopState, CheckSignal PROVE LoopState' /\ NotLost
<1>0. Env /\ Sane(c) /\ StateOf(c, pc) /\ c \in CtxFields /\ c.sig \in LoopSignals /\ now \in Nat /\ now >= 1 /\ cfg.exit_notify \in Nat
  BY StateEnv, EnvTypes DEF CtxFields
<1>1. cfg' = cfg /\ now' = now /\ pc \in {"post", "post2", "post3"} /\ c.sig # None
  BY DEF CheckSignal
<1>2. cfg.tls /\ c.tmp.future = 0 => now = 1
  BY <1>0 DEF StateOf, FirstRound
<1>3. CASE /\ c.exit_wait = 0 /\ pc' = "coarse"
           /\ c' = Raise(ResetCoarse(TimerInit([c EXCEPT !.exit_wait = now], "exit", 1, 0)), None)
  <2> DEFINE r == [def |-> TRUE, n |-> 1, last |-> 0]
             m == [c.tm EXCEPT !["exit"] = r]
             y == [c EXCEPT !.exit_wait = now, !.tm = m, !.coarse = 0, !.sig = None]
  <2>1. c' = y
    BY <1>0, <1>3 DEF Raise, ResetCoarse, TimerInit, CtxFields
  <2>2. r \in TimerRec /\ r.def /\ r.n = 1 /\ r.last = 0
    BY <1>0, EnvTypes DEF TimerRec
  <2> HIDE DEF r
  <2>3. m \in [Timers -> TimerRec] /\ m["exit"] = r /\ \A t \in Timers \ {"exit"} : m[t] = c.tm[t]
    BY <1>0, <2>2, TimerNames DEF CtxFields
  <2> HIDE DEF m
  <2>4. y \in CtxFields
    <3> DEFINE y1 == [c EXCEPT !.exit_wait = now]
               y2 == [y1 EXCEPT !.tm = m]
               y3 == [y2 EXCEPT !.coarse = 0]
               y4 == [y3 EXCEPT !.sig = None]
    <3>1. y1 \in CtxFields
      BY <1>0 DEF CtxFields
    <3>a. y = y4
      OBVIOUS
    <3> HIDE DEF y1
    <3>2. y2 \in CtxFields
      BY <2>3, <3>1 DEF CtxFields
    <3> HIDE DEF y2
    <3>3. y3 \in CtxFields
      BY <3>2 DEF CtxFields
    <3> HIDE DEF y3
    <3>4. None \in LoopSignals
      BY DEF LoopSignals
    <3>5. y4 \in CtxFields
      BY <3>3, <3>4 DEF CtxFields
    <3> HIDE DEF y4
    <3> QED
      BY <3>a, <3>5
  <2>5. /\ y.tm = m /\ y.tv = c.tv /\ y.to_link = c.to_link /\ y.to_tun = c.to_tun /\ y.tun = c.tun
        /\ y.residual = c.residual /\ y.frag = c.frag /\ y.rx = c.rx /\ y.tmp = c.tmp /\ y.ctl_in = c.ctl_in
        /\ y.wake = c.wake /\ y.addr = c.addr /\ y.exit_wait = now /\ y.sig = None /\ y.coarse = 0
    BY <1>0 DEF CtxFields
  <2> HIDE DEF y
  <2>6. TimersSane(y)
    <3>1. TimersSane(c) /\ "ping_send" \in Timers \ {"exit"}
      BY <1>0, TimerNames DEF Sane
    <3>2. \A t \in Timers : m[t].last <= now
      BY <1>0, <2>2, <2>3, <3>1 DEF TimersSane
    <3> QED
      BY <1>0, <2>2, <2>3, <2>5, <3>1, <3>2 DEF TimersSane
  <2>7. Sane(y)
    BY <1>0, <2>4, <2>5, <2>6 DEF Sane
  <2>8. CachedOK(y)
    BY <1>0, <2>5, <2>7, CoarseZero
  <2>9. StateOf(c', pc')
    BY <1>2, <1>3, <2>1, <2>5, <2>7, <2>8 DEF StateOf, FirstRound, Awake, Served
  <2>10. Holds(c, c') /\ pc' \in Places \ {"wait", "post2"}
    BY <1>3, <2>1, <2>5 DEF Holds, Places
  <2> QED
    BY <1>1, <2>9, <2>10, StepDone, HoldsNotLost
<1>4. CASE pc' = "end" /\ c' = c
  <2>1. StateOf(c', pc') /\ pc' \in Places \ {"wait", "post2"}
    BY <1>0, <1>1, <1>2, <1>4 DEF StateOf, FirstRound, Served, Places
  <2> QED
    BY <1>1, <1>4, <2>1, StepDone DEF NotLost
<1>5. CASE c.sig = "USR2" /\ c' = Raise(c, None) /\ pc' = "coarse"
  <2> DEFINE y == [c EXCEPT !.sig = None]
  <2>1. c' = y /\ ~ Undisturbed /\ None \in LoopSignals
    BY <1>0, <1>5 DEF Raise, Undisturbed, LoopSignals, None
  <2>2. /\ y \in CtxFields /\ y.tm = c.tm /\ y.tv = c.tv /\ y.to_link = c.to_link /\ y.to_tun = c.to_tun /\ y.tun = c.tun
        /\ y.residual = c.residual /\ y.frag = c.frag /\ y.rx = c.rx /\ y.tmp = c.tmp /\ y.ctl_in = c.ctl_in
        /\ y.wake = c.wake /\ y.addr = c.addr /\ y.exit_wait = c.exit_wait
    BY <1>0, <2>1 DEF CtxFields
  <2> HIDE DEF y
  <2>3. TimersSane(y)
    BY <1>0, <2>1, <2>2 DEF Sane, TimersSane
  <2>4. Sane(y)
    BY <1>0, <2>2, <2>3 DEF Sane
  <2>5. CachedOK(y)
    BY <2>1 DEF CachedOK, Serves
  <2>6. StateOf(c', pc')
    BY <1>2, <1>5, <2>1, <2>2, <2>4, <2>5 DEF StateOf, FirstRound, Awake, Served
  <2>7. Holds(c, c') /\ pc' \in Places \ {"wait", "post2"}
    BY <1>5, <2>1, <2>2 DEF Holds, Places
  <2> QED
    BY <1>1, <2>6, <2>7, StepDone, HoldsNotLost
<1> QED
  BY <1>3, <1>4, <1>5 DEF CheckSignal

-----------------------------------------------------------------------------
\* The smallest of one.
LEMMA MinOne == ASSUME NEW a \in Int PROVE Min({a}) = a
<1>1. {a} = {a, a} /\ Min({a, a}) = a
  BY MinTwo
<1> QED
  BY <1>1

\* How long the loop sleeps.
Sleep == Min({c.tv} \cup IF c.to_link # None /\ Shaped THEN {c.shaper - now} ELSE {})

\* io_wait sleeps no longer than the wait, nor than the shaper asks for.
LEMMA SleepBound ==
    ASSUME Env, Sane(c)
    PROVE  /\ Sleep \in Nat /\ Sleep <= c.tv
           /\ c.to_link # None /\ Shaped => now + Sleep <= c.shaper
<1>0. c.tv \in Nat /\ c.shaper \in Nat /\ now \in Nat
  BY EnvTypes DEF Sane, CtxFields
<1>1. CASE c.to_link # None /\ Shaped
  <2> DEFINE d == c.shaper - now
  <2>1. d \in Int /\ d > 0 /\ now + d = c.shaper
    BY <1>0, <1>1 DEF Shaped
  <2>2. Sleep = Min({c.tv, d})
    <3>1. {c.tv} \cup {d} = {c.tv, d}
      OBVIOUS
    <3> QED
      BY <1>1, <3>1 DEF Sleep
  <2> HIDE DEF d
  <2>3. Sleep = IF c.tv <= d THEN c.tv ELSE d
    BY <1>0, <2>1, <2>2, MinTwo
  <2> QED
    BY <1>0, <2>1, <2>3
<1>2. CASE ~ (c.to_link # None /\ Shaped)
  <2>1. {c.tv} \cup {} = {c.tv}
    OBVIOUS
  <2>2. Sleep = Min({c.tv})
    BY <1>2, <2>1 DEF Sleep
  <2>3. Sleep = c.tv
    BY <1>0, <2>2, MinOne
  <2> QED
    BY <1>0, <1>2, <2>3
<1> QED
  BY <1>1, <1>2

\* io_wait: what it asks for, and for how long.
LEMMA IoWaitStep == ASSUME LoopState, IoWait PROVE LoopState' /\ NotLost
<1>0. /\ Env /\ Sane(c) /\ StateOf(c, "post") /\ c \in CtxFields /\ pc = "post" /\ c.sig = None /\ now \in Nat
      /\ cfg \in Configs /\ now \in 1 .. MaxTime
  BY StateEnv, EnvTypes DEF IoWait, LoopState
<1>1. cfg' = cfg /\ now' = now
  BY DEF IoWait
<1>2. /\ Ready(c) /\ (c.occ_op # None => c.tv = 0) /\ CachedOK(c) /\ Covered(c, Exact) /\ (cfg.tls => c.tmp.future # 0)
      /\ cfg.tls => c.tv <= cfg.refresh /\ now + c.tv <= c.wake
  BY <1>0 DEF StateOf, Served, Awake, FirstRound
<1>3. CASE cfg.fast_io /\ (c.to_link # None \/ c.to_tun # None)
  <2>1. /\ c' = c /\ pc' = "post2"
        /\ status' = {e \in {"sockW", "tunW"} : IF e = "sockW" THEN c.to_link # None ELSE c.to_tun # None}
    BY <1>3 DEF IoWait
  <2>2. StateOf(c', pc') /\ pc' \in Places
    BY <1>0, <1>2, <2>1 DEF StateOf, FirstRound, Served, Awake, Ready, Places
  <2>3. Events'
    BY <2>1 DEF Events
  <2>4. StateOf(c, pc)'
    BY <1>1, <2>2, StatePrime
  <2>5. Asleep'
    BY <2>1 DEF Asleep
  <2>6. NotLost
    BY <2>1 DEF NotLost
  <2> QED
    BY <1>0, <1>1, <2>2, <2>3, <2>4, <2>5, <2>6 DEF LoopState
<1>4. CASE ~ (cfg.fast_io /\ (c.to_link # None \/ c.to_tun # None))
  <2> DEFINE f == Formed
             y == [c EXCEPT !.residual = f]
  <2>1. /\ c' = y /\ until' = now + Sleep
        /\ f = "formed" => status' = {"sockR"} /\ pc' = "post2"
        /\ f # "formed" => req' = Wanted /\ pc' = "wait"
    BY <1>4 DEF IoWait, Sleep
  <2>2. f \in {None, "whole", "formed"} /\ (f = "formed" => c.to_tun = None)
    <3>1. "sockR" \in Wanted => c.to_tun = None
      BY DEF Wanted
    <3>2. c.residual \in {None, "whole", "formed"} /\ (c.residual = "formed" => c.to_tun = None)
      BY <1>0 DEF Sane, CtxFields
    <3> QED
      BY <3>1, <3>2 DEF Formed
  <2> HIDE DEF f
  <2>3. /\ y \in CtxFields /\ y.tm = c.tm /\ y.tv = c.tv /\ y.to_link = c.to_link /\ y.to_tun = c.to_tun /\ y.tun = c.tun
        /\ y.residual = f /\ y.frag = c.frag /\ y.rx = c.rx /\ y.tmp = c.tmp /\ y.ctl_in = c.ctl_in
        /\ y.wake = c.wake /\ y.addr = c.addr /\ y.exit_wait = c.exit_wait /\ y.sig = c.sig /\ y.coarse = c.coarse
        /\ y.occ_op = c.occ_op /\ y.shaper = c.shaper
    BY <1>0, <2>2 DEF CtxFields
  <2> HIDE DEF y
  <2>4. TimersSane(y)
    BY <1>0, <2>3 DEF Sane, TimersSane
  <2>5. Sane(y)
    BY <1>0, <2>2, <2>3, <2>4 DEF Sane
  <2>6. \A t \in Timers : \A w : Serves(c, t, w) <=> Serves(y, t, w)
    BY <2>3 DEF Serves, Deadline, GraceOf, ToLinkDef
  <2>7. CachedOK(y)
    BY <1>2, <2>3, <2>6 DEF CachedOK
  <2>8. NotLost
    BY <2>1, <2>3 DEF NotLost
  <2>9. CASE f = "formed"
    <3>1. StateOf(c', pc') /\ pc' \in Places
      BY <1>2, <2>1, <2>3, <2>5, <2>7, <2>9 DEF StateOf, FirstRound, Served, Awake, Ready, Places
    <3>2. StateOf(c, pc)'
      BY <1>1, <3>1, StatePrime
    <3>3. Events' /\ Asleep'
      BY <2>1, <2>2, <2>3, <2>9 DEF Events, Asleep
    <3> QED
      BY <1>0, <1>1, <2>8, <3>1, <3>2, <3>3 DEF LoopState
  <2>10. CASE f # "formed"
    <3>1. StateOf(c', pc') /\ pc' \in Places /\ pc' = "wait"
      BY <1>2, <2>1, <2>3, <2>5, <2>7, <2>10 DEF StateOf, FirstRound, Served, Awake, Ready, Places
    <3>2. StateOf(c, pc)'
      BY <1>1, <3>1, StatePrime
    <3>3. /\ Sleep \in Nat /\ Sleep <= c.tv /\ c.tv \in Nat /\ (c.to_link # None /\ Shaped => now + Sleep <= c.shaper)
      BY <1>0, SleepBound DEF CtxFields
    <3>4. Shaped' = Shaped
      BY <1>1, <2>1, <2>3 DEF Shaped
    <3>5. Wanted' = Wanted
      BY <2>1, <2>3, <3>4 DEF Wanted
    <3>6. until' \in Nat /\ until' <= now + c.tv
      BY <1>0, <2>1, <3>3
    <3>7. c'.occ_op # None => until' <= now'
      BY <1>0, <1>1, <1>2, <2>1, <2>3, <3>3
    <3>8. c'.to_link # None /\ Shaped' => until' <= c'.shaper
      BY <2>1, <2>3, <3>3, <3>4
    <3>9. \A t \in Exact : Serves(c, t, until')
      <4> SUFFICES ASSUME NEW t \in Exact PROVE Serves(c, t, until')
        OBVIOUS
      <4>1. Serves(c, t, now + c.tv) /\ t \in Timers
        BY <1>2, TimerNames DEF Covered, Exact
      <4>2. Deadline(c, t) \in Nat /\ GraceOf(c, t) \in Nat
        BY <1>0, <4>1, GraceType DEF CtxFields, TimerRec, Deadline
      <4> QED
        BY <1>0, <3>3, <3>6, <4>1, <4>2 DEF Serves
    <3>10. Undisturbed /\ c'.exit_wait # 0 => until' <= c'.exit_wait + cfg'.exit_notify
      <4> SUFFICES ASSUME Undisturbed, c.exit_wait # 0 PROVE until' <= c.exit_wait + cfg.exit_notify
        BY <1>1, <2>1, <2>3
      <4>1. c.tm["exit"].def /\ c.tm["exit"].n = 1 /\ c.tm["exit"].last < c.exit_wait + cfg.exit_notify
        BY <1>0 DEF Sane, TimersSane
      <4>2. c.tm["exit"].last \in Nat /\ c.exit_wait \in Nat /\ cfg.exit_notify \in Nat
        BY <1>0, TimerNames, EnvTypes DEF CtxFields, TimerRec
      <4>3. Serves(c, "exit", until') /\ "exit" \in Exact
        BY <3>9, TimerNames DEF Exact
      <4> QED
        BY <3>6, <4>1, <4>2, <4>3 DEF Serves, Deadline
    <3>11. c.sig = None => \A t \in Exact : Serves(c', t, until')
      <4>1. \A t \in Exact : t \in Timers
        BY TimerNames DEF Exact
      <4> QED
        BY <2>1, <2>6, <3>9, <4>1
    <3>12. (\A t \in Exact : Serves(c', t, until')) => (\A t \in Exact : Serves(c, t, until))'
      BY <1>1 DEF Exact, Serves, Deadline, GraceOf, ToLinkDef
    <3>13. cfg.tls => until' <= c.wake /\ until' <= now + cfg.refresh
      <4>1. cfg.refresh \in Nat /\ c.wake \in Nat
        BY <1>0, EnvTypes DEF CtxFields
      <4> QED
        BY <1>0, <1>2, <2>1, <3>3, <3>6, <4>1
    <3>14. Ready(c)'
      BY <1>2, <2>1, <2>3 DEF Ready
    <3>15. Asleep'
      BY <1>0, <1>1, <2>1, <2>3, <2>10, <3>5, <3>6, <3>7, <3>8, <3>10, <3>11, <3>12, <3>13, <3>14 DEF Asleep
    <3>16. Events'
      BY <3>1 DEF Events
    <3> QED
      BY <1>0, <1>1, <2>8, <3>1, <3>2, <3>15, <3>16 DEF LoopState
  <2> QED
    BY <2>9, <2>10
<1> QED
  BY <1>3, <1>4

\* The wait ends, with events or with the time.
LEMMA WakeStep == ASSUME LoopState, Wake PROVE LoopState' /\ NotLost
<1>0. /\ Env /\ Sane(c) /\ StateOf(c, "wait") /\ c \in CtxFields /\ pc = "wait" /\ now \in Nat /\ MaxTime \in Nat
      /\ cfg \in Configs /\ now \in 1 .. MaxTime /\ Asleep
  BY StateEnv, EnvTypes DEF Wake, LoopState
<1>1. cfg' = cfg /\ c' = c /\ pc' = "post2" /\ pc' \in Places
  BY DEF Wake, Places
<1>2. until \in Nat /\ req = Wanted /\ Ready(c)
  BY <1>0 DEF Asleep
<1>3. now' \in 1 .. MaxTime /\ now <= now' /\ now' \in Nat
  <2> DEFINE b == Min({until, MaxTime})
  <2>1. b = IF until <= MaxTime THEN until ELSE MaxTime
    BY <1>0, <1>2, MinTwo
  <2>2. now' \in now .. b
    BY DEF Wake
  <2> HIDE DEF b
  <2> QED
    BY <1>0, <1>2, <2>1, <2>2
<1>4. status' \subseteq req
  BY DEF Wake
<1>5. Sane(c)'
  <2>1. /\ \A t \in Timers : c.tm[t].last \in Nat
        /\ c.tmp.tested \in Nat /\ c.exit_wait \in Nat
    BY <1>0 DEF CtxFields, TimerRec, TmpRec
  <2>2. TimersSane(c)'
    BY <1>0, <1>1, <1>3, <2>1 DEF Sane, TimersSane
  <2> QED
    BY <1>0, <1>1, <1>2, <1>3, <2>1, <2>2 DEF Sane, Ready
<1>6. CachedOK(c) => CachedOK(c)'
  <2>1. \A t \in Timers : Deadline(c, t) \in Nat /\ GraceOf(c, t) \in Nat /\ c.coarse \in Nat
    BY <1>0, GraceType DEF CtxFields, TimerRec, Deadline
  <2>2. \A t \in Timers : Deadline(c, t)' = Deadline(c, t) /\ GraceOf(c, t)' = GraceOf(c, t)
    BY <1>1 DEF Deadline, GraceOf, ToLinkDef
  <2>3. \A t \in Timers : Serves(c, t, c.coarse) => Serves(c, t, c.coarse)'
    BY <1>0, <1>1, <1>3, <2>1, <2>2 DEF Serves
  <2> QED
    BY <2>3 DEF CachedOK
<1>7. StateOf(c, pc)'
  <2>1. (cfg.tls => c.tmp.future # 0) /\ (c.sig = None => CachedOK(c))
    BY <1>0 DEF StateOf, FirstRound, Awake
  <2>2. FirstRound(c, pc)' /\ Served(c, pc)'
    BY <1>1, <1>2, <2>1 DEF FirstRound, Served, Ready
  <2>3. (c.sig = None => Awake(c, pc))'
    BY <1>1, <1>6, <2>1 DEF Awake
  <2> QED
    BY <1>5, <2>2, <2>3 DEF StateOf
<1>8. Events'
  <2>1. /\ "tunW" \in Wanted => c.to_tun # None
        /\ "sockR" \in Wanted => c.to_tun = None
        /\ "tunR" \in Wanted => c.to_link = None /\ c.frag = 0
    BY DEF Wanted
  <2> QED
    BY <1>1, <1>2, <1>4, <2>1 DEF Events
<1>9. Asleep'
  BY <1>1 DEF Asleep
<1> QED
  BY <1>0, <1>1, <1>3, <1>7, <1>8, <1>9 DEF LoopState, NotLost

-----------------------------------------------------------------------------
\* The context before its timers are started.
LEMMA EmptySane ==
    ASSUME Env, now = 1, NEW o \in 0 .. 1
    PROVE  LET x == [C2Init EXCEPT !.ctl_out = o] IN Sane(x) /\ x.coarse = 0 /\ x.tmp.future = 0 /\ x.sig = None
<1> DEFINE tm == [t \in Timers |-> Off]
           y == [to_link |-> None, to_tun |-> None, frag |-> 0, occ_op |-> None,
                 occ_tries |-> 0, load_tries |-> 0, tm |-> tm,
                 coarse |-> 0, tv |-> Big, tmp |-> ClearTmp, ctl_out |-> 0, rx |-> None,
                 ctl_in |-> None, wake |-> 0, addr |-> cfg.remote, conn |-> FALSE,
                 up |-> FALSE, tun |-> ~ cfg.pull, residual |-> None, shaper |-> 0,
                 exit_wait |-> 0, sig |-> None]
           z == [y EXCEPT !.ctl_out = o]
<1>1. [C2Init EXCEPT !.ctl_out = o] = z
  BY DEF C2Init
<1>2. /\ tm \in [Timers -> TimerRec] /\ \A t \in Timers : ~ tm[t].def /\ tm[t].last = 0
  BY EnvTypes DEF TimerRec, Off
<1>3. ClearTmp \in TmpRec /\ ClearTmp.future = 0 /\ ClearTmp.tested = 0
  BY DEF ClearTmp, TmpRec
<1>4. Big \in Nat /\ LoadTests \in Nat /\ cfg.remote \in BOOLEAN /\ (~ cfg.pull) \in BOOLEAN /\ None \in LoopSignals
  BY EnvTypes, TunnelAssumption DEF Big, LoopSignals
<1> HIDE DEF tm
<1>5. y \in CtxFields
  BY <1>2, <1>3, <1>4 DEF CtxFields
<1>6. /\ y.tm = tm /\ y.to_tun = None /\ y.residual = None /\ y.frag = 0 /\ y.rx = None /\ y.tmp = ClearTmp
      /\ y.ctl_in = None /\ y.wake = 0 /\ y.addr = cfg.remote /\ y.exit_wait = 0 /\ y.sig = None /\ y.coarse = 0
  OBVIOUS
<1> HIDE DEF y
<1>7. /\ z \in CtxFields
      /\ z.tm = tm /\ z.to_tun = None /\ z.residual = None /\ z.frag = 0 /\ z.rx = None /\ z.tmp = ClearTmp
      /\ z.ctl_in = None /\ z.wake = 0 /\ z.addr = cfg.remote /\ z.exit_wait = 0 /\ z.sig = None /\ z.coarse = 0
  BY <1>5, <1>6 DEF CtxFields
<1> HIDE DEF z
<1>8. TimersSane(z)
  BY <1>2, <1>7, EnvTypes, TimerNames DEF TimersSane
<1>9. Sane(z)
  BY <1>3, <1>7, <1>8, EnvTypes DEF Sane, None
<1> QED
  BY <1>1, <1>3, <1>7, <1>9

\* A timer that may be started with the loop.
LEMMA MaybeTimer ==
    ASSUME Env, NEW x, Sane(x), NEW t \in {"connect", "occ", "load", "persist"}, NEW n \in Nat, NEW y,
           y \in {x, TimerInit(x, t, n, now)}
    PROVE  Started(x, y) /\ y.coarse = x.coarse /\ Sane(y)
<1>1. CASE y = x
  BY <1>1 DEF Started, Holds
<1>2. CASE y = TimerInit(x, t, n, now)
  <2>1. t \in {"inactive", "ping_rec", "ping_send", "connect", "occ", "load", "persist"} /\ t # "ping_send" /\ now \in {0, now}
    OBVIOUS
  <2> DEFINE z == TimerInit(x, t, n, now)
  <2>2. Begun(x, z)
    BY <2>1, InitTimer
  <2>3. y = z
    BY <1>2
  <2> HIDE DEF z
  <2> QED
    BY <2>2, <2>3, TimerStarted DEF Begun
<1> QED
  BY <1>1, <1>2

\* The timers of do_init_timers; the cached wakeup is 0, so that the first round looks at all of them.
LEMMA InitTimersSane ==
    ASSUME Env, NEW x, Sane(x), x.coarse = 0
    PROVE  LET y == InitTimers(x) IN Started(x, y) /\ y.coarse = 0
<1> DEFINE z == IF cfg.pull THEN ResetCoarse(x) ELSE InitPings(x)
           a == TimerInit(z, "connect", 1, now)
           b == IF cfg.occ # 0 /\ ~ cfg.tls THEN TimerInit(a, "occ", cfg.occ, now) ELSE a
           d == IF cfg.mtu_test # 0 THEN TimerInit(b, "load", cfg.mtu_test, now) ELSE b
           e == IF cfg.persist THEN TimerInit(d, "persist", 4, now) ELSE d
<1>0. cfg.occ \in Nat /\ cfg.mtu_test \in Nat
  BY EnvTypes
<1>1. InitTimers(x) = e
  BY DEF InitTimers
<1>2. Started(x, z) /\ z.coarse = 0 /\ Sane(z)
  <2>1. CASE cfg.pull
    <3>1. z = x
      BY <2>1 DEF ResetCoarse, Sane, CtxFields
    <3> QED
      BY <3>1 DEF Started, Holds
  <2>2. CASE ~ cfg.pull
    BY <2>2, InitPingsSane DEF Started
  <2> QED
    BY <2>1, <2>2
<1> HIDE DEF z
<1>3. Started(z, a) /\ a.coarse = z.coarse /\ Sane(a)
  BY <1>2, MaybeTimer
<1>4. a.coarse = 0 /\ b \in {a, TimerInit(a, "occ", cfg.occ, now)}
  BY <1>2, <1>3
<1> HIDE DEF a
<1>5. d \in {b, TimerInit(b, "load", cfg.mtu_test, now)}
  OBVIOUS
<1> HIDE DEF b
<1>6. Started(a, b) /\ b.coarse = a.coarse /\ Sane(b)
  BY <1>0, <1>3, <1>4, MaybeTimer
<1>7. e \in {d, TimerInit(d, "persist", 4, now)}
  OBVIOUS
<1> HIDE DEF d
<1>8. Started(b, d) /\ d.coarse = b.coarse /\ Sane(d)
  BY <1>0, <1>5, <1>6, MaybeTimer
<1> HIDE DEF e
<1>9. Started(d, e) /\ e.coarse = d.coarse
  BY <1>7, <1>8, MaybeTimer
<1> QED
  BY <1>1, <1>2, <1>3, <1>4, <1>6, <1>8, <1>9, StartedTrans

\* The loop starts in a state of the invariant.
LEMMA LoopInit == ASSUME Init PROVE LoopState
<1>1. Env /\ now = 1 /\ cfg \in Configs /\ now \in 1 .. MaxTime /\ pc = "coarse"
  BY TunnelAssumption DEF Init, Env
<1> DEFINE o == IF cfg.tls THEN 1 ELSE 0
           x == [C2Init EXCEPT !.ctl_out = o]
<1>2. o \in 0 .. 1 /\ c = InitTimers(x)
  BY DEF Init
<1> HIDE DEF o
<1>3. Sane(x) /\ x.coarse = 0 /\ x.tmp.future = 0 /\ x.sig = None
  BY <1>1, <1>2, EmptySane
<1> HIDE DEF x
<1>4. Started(x, c) /\ c.coarse = 0
  BY <1>1, <1>2, <1>3, InitTimersSane
<1>5. Sane(c)
  BY <1>4 DEF Started
<1>6. CachedOK(c)
  BY <1>1, <1>4, <1>5, CoarseZero
<1>7. StateOf(c, pc)
  BY <1>1, <1>5, <1>6 DEF StateOf, FirstRound, Awake, Served
<1> QED
  BY <1>1, <1>7 DEF LoopState, Asleep, Events, Places

\* Every step keeps the invariant, and overwrites nothing.
LEMMA LoopStep == ASSUME LoopState, [Next]_vars PROVE LoopState' /\ NotLost
<1>1. CASE UNCHANGED vars
  <2>1. c' = c /\ pc' = pc /\ cfg' = cfg /\ now' = now /\ req' = req /\ until' = until /\ status' = status
    BY <1>1 DEF vars
  <2>2. StateOf(c', pc')
    BY <2>1 DEF LoopState
  <2>3. StateOf(c, pc)'
    BY <2>1, <2>2, StatePrime
  <2>4. Asleep' /\ Events'
    BY <2>1 DEF LoopState, Asleep, Events, Ready, Wanted, Shaped, Exact, Serves, Deadline, GraceOf, ToLinkDef
  <2> QED
    BY <2>1, <2>3, <2>4 DEF LoopState, NotLost
<1> QED
  BY <1>1, ThrowSignalStep, CoarseTimersStep, CoarseTimers2Step, CoarseTimers3Step, PreSelectTlsStep, PreSelectRestStep,
     CheckSignalStep, IoWaitStep, WakeStep, NextRoundStep, ProcessOutgoingLinkStep, ProcessOutgoingTunStep, ReadLinkStep,
     ReadTunStep DEF Next

\* What the invariant says of a loop that waits: nothing it could do is left.
LEMMA SleepsSafely == ASSUME LoopState PROVE TypeOK /\ LoopAsserts /\ NoLostWakeup
<1>0. Env /\ Sane(c) /\ c \in CtxFields
  BY StateEnv
<1>1. TypeOK
  BY <1>0 DEF LoopState, TypeOK, CtxFields, TimerRec, Places
<1>2. LoopAsserts
  BY DEF LoopState, Events, LoopAsserts
<1>3. NoLostWakeup
  <2> SUFFICES ASSUME pc = "wait", c.sig = None
               PROVE  /\ c.to_link # None => "sockW" \in req \/ until <= c.shaper
                      /\ c.to_tun # None  => "tunW" \in req
                      /\ c.frag # 0       => c.to_link # None
                      /\ c.occ_op # None  => until <= now
                      /\ c.rx = None /\ c.ctl_in = None
                      /\ c.to_tun = None  => "sockR" \in req
                      /\ ~ ToLinkDef(c) /\ c.tun => "tunR" \in req
    BY DEF NoLostWakeup
  <2>1. /\ Ready(c) /\ req = Wanted /\ (c.occ_op # None => until <= now)
        /\ c.to_link # None /\ Shaped => until <= c.shaper
    BY DEF LoopState, Asleep
  <2>2. /\ "sockW" \in Wanted <=> (c.to_link # None /\ ~ Shaped)
        /\ "tunR" \in Wanted <=> (c.to_link = None /\ c.frag = 0 /\ c.tun)
        /\ "tunW" \in Wanted <=> (c.to_tun # None /\ c.tun)
        /\ "sockR" \in Wanted <=> c.to_tun = None
    BY DEF Wanted
  <2>3. c.to_tun # None => c.tun
    BY <1>0 DEF Sane
  <2> QED
    BY <2>1, <2>2, <2>3 DEF Ready, ToLinkDef
<1> QED
  BY <1>1, <1>2, <1>3

\* And the wait ends in time for every timer.
LEMMA SleepsInTime == ASSUME LoopState, Undisturbed PROVE ExitBounded /\ TimersServed
<1>0. Env /\ Sane(c) /\ c \in CtxFields
  BY StateEnv
<1>1. ExitBounded
  BY DEF LoopState, Asleep, ExitBounded
<1>2. TimersServed
  <2> SUFFICES ASSUME pc = "wait", c.sig = None
               PROVE  /\ \A t \in Timers : c.tm[t].def => until <= Max({Deadline(c, t), now + Grace(t)})
                      /\ cfg.tls => until <= c.wake
    BY DEF TimersServed
  <2>1. /\ until \in Nat /\ (\A t \in Exact : Serves(c, t, until)) /\ (cfg.tls => until <= c.wake /\ until <= now + cfg.refresh)
    BY DEF LoopState, Asleep
  <2> SUFFICES ASSUME NEW t \in Timers, c.tm[t].def PROVE until <= Max({Deadline(c, t), now + Grace(t)})
    BY <2>1
  <2> DEFINE p == IF cfg.pull THEN cfg.refresh ELSE 0
             d == Deadline(c, t)
             g == now + Grace(t)
  <2>2. /\ p \in Nat /\ now \in Nat /\ GraceOf(c, t) \in Nat /\ d \in Nat /\ (cfg.pull => cfg.tls)
    BY <1>0, EnvTypes, GraceType DEF CtxFields, TimerRec, Deadline
  <2>3. g = now + (p + GraceOf(c, t))
    BY DEF Grace, GraceOf
  <2>4. g \in Nat
    BY <2>2, <2>3
  <2>7. until <= d \/ until <= g
    <3>1. CASE cfg.pull
      <4>1. until <= now + cfg.refresh /\ p = cfg.refresh
        BY <2>1, <2>2, <3>1
      <4> QED
        BY <2>1, <2>2, <2>3, <4>1
    <3>2. CASE ~ cfg.pull
      <4>1. Serves(c, t, until) /\ p = 0
        BY <2>1, <3>2 DEF Exact
      <4> QED
        BY <2>1, <2>2, <2>3, <4>1 DEF Serves
    <3> QED
      BY <3>1, <3>2
  <2>8. Max({d, g}) = IF d <= g THEN g ELSE d
    BY <2>2, <2>4, MaxTwo
  <2> HIDE DEF d, g
  <2>9. until <= Max({d, g})
    BY <2>1, <2>2, <2>4, <2>7, <2>8
  <2> QED
    BY <2>9 DEF d, g
<1> QED
  BY <1>1, <1>2

\* For every set of options, packets and signals (SIGUSR2 included): the loop never trips one of its assertions
\* (read_incoming_link finds to_tun empty, read_incoming_tun finds to_link empty, process_outgoing_tun finds a
\* packet), and io_wait never sleeps on work that is left: a packet for the link or the device, a fragment, an
\* OCC message or a message of the control channel.
THEOREM LoopSafe == Spec => [](TypeOK /\ LoopAsserts /\ NoLostWakeup)
<1>1. Init => LoopState
  BY LoopInit
<1>2. LoopState /\ [Next]_vars => LoopState'
  BY LoopStep
<1>3. LoopState => TypeOK /\ LoopAsserts /\ NoLostWakeup
  BY SleepsSafely
<1> QED
  BY <1>1, <1>2, <1>3, PTL DEF Spec

\* Without SIGUSR2 the timers are served too: io_wait returns by the deadline of every timer of
\* check_coarse_timers, of the exit notifications and of tls_multi_process, or as soon as its grace allows.  The
\* hypothesis is on the signals only; tunnel_usr2 shows what the signal it leaves out does.
THEOREM LoopCorrect == ASSUME "USR2" \notin Signals PROVE Spec => []LoopInv
<1>1. Init => LoopState
  BY LoopInit
<1>2. LoopState /\ [Next]_vars => LoopState'
  BY LoopStep
<1>3. LoopState => LoopInv
  BY SleepsSafely, SleepsInTime DEF Undisturbed, LoopInv
<1> QED
  BY <1>1, <1>2, <1>3, PTL DEF Spec

\* For every set of options, packets and signals: a packet in to_link or to_tun stays there until the link or the
\* device was found writable and it is written, and fragments leave one by one, although pings, OCC messages, TLS
\* packets and packets from the device all go to the same buffer.
THEOREM PacketsKept == Spec => NeverOverwritten
<1>1. Init => LoopState
  BY LoopInit
<1>2. LoopState /\ [Next]_vars => LoopState'
  BY LoopStep
<1>3. LoopState /\ [Next]_vars => [NotLost]_vars
  BY LoopStep
<1>4. [NotLost]_vars => [/\ c.to_link # None /\ c'.to_link # c.to_link => pc = "post2" /\ "sockW" \in status
                         /\ c.to_tun # None /\ c'.to_tun # c.to_tun => pc = "post2" /\ "tunW" \in status
                         /\ c.frag # 0 => c'.frag \in {c.frag, c.frag - 1}]_vars
  BY DEF NotLost
<1> QED
  BY <1>1, <1>2, <1>3, <1>4, PTL DEF Spec, NeverOverwritten
=============================================================================
