------------------------------ MODULE TlsVerify ------------------------------
(***************************************************************************)
(* Who a client of the server is (ssl.c): certificates checked one depth   *)
(* at a time by verify_callback, username and password checked by plugins  *)
(* and a script, the common name and its lock, --client-config-dir in      *)
(* exclusive mode.  One client instance, in TLS mode with key method 2.    *)
(*                                                                         *)
(* The common name and the result of the certificate checks belong to the  *)
(* session, which keeps them while one handshake after the other writes    *)
(* them; what a key may carry belongs to the key.  The verdict of every    *)
(* check is a choice.  A step is a call of tls_multi_process, and the      *)
(* server looks at the outcome (multi_process_post) before the next one.   *)
(***************************************************************************)
EXTENDS Integers

CONSTANTS
    CertNames,      \* common names in the certificates of the client
    UserNames,      \* names the client may give with a password
    VerifyOptions,  \* [cert, as_cn, ccd : BOOLEAN, plugin, script : BOOLEAN]
    Nobody,         \* no name
    MaxHandshakes   \* bound: handshakes begun

BlankName == ""     \* an empty buffer

ASSUME VerifyAssumption ==
    /\ VerifyOptions \subseteq [cert : BOOLEAN, as_cn : BOOLEAN, ccd : BOOLEAN, plugin : BOOLEAN, script : BOOLEAN]
    /\ Nobody \notin CertNames \cup UserNames \cup {BlankName}
    /\ MaxHandshakes \in Nat

VARIABLES
    vopt,           \* the options
    vsess,          \* struct tls_session of TM_ACTIVE, TM_UNTRUSTED, TM_LAME_DUCK
    locked_cn,      \* of struct tls_multi
    linked,         \* connection_established of the link
    established,    \* connection_established_flag of the instance
    vpost,          \* multi_process_post is next
    begun,          \* handshakes so far
    early           \* history: a soft reset was honoured before the first key was active

verifyVars == <<vopt, vsess, locked_cn, linked, established, vpost, begun, early>>

VS_ERROR == -1
VS_UNDEF == 0
VS_INITIAL == 1
VS_START == 3
VS_SENT_KEY == 4
VS_GOT_KEY == 5
VS_ACTIVE == 6

VerifySession == {"TM_ACTIVE", "TM_UNTRUSTED", "TM_LAME_DUCK"}

UserPass == vopt.plugin \/ vopt.script

(* A key state.  cert, depth and user are of its own handshake: the name in *)
(* the certificate presented, the depth of the chain to be checked next (-1 *)
(* when the handshake is done), the name given with an accepted password.   *)
VKey(st) == [st |-> st, authenticated |-> FALSE, cert |-> Nobody, depth |-> -1, user |-> Nobody]

VSessionInit == [common_name |-> Nobody, verified |-> FALSE, prim |-> VKey(VS_INITIAL),
                 lame |-> VKey(VS_UNDEF)]

\* init_ssl: the server asks for a certificate and insists on one, or does not ask;
\* there is no session cache, so that no handshake is an abbreviated one.
PeerCert(c) == IF vopt.cert THEN [cert |-> c, depth |-> 1] ELSE [cert |-> Nobody, depth |-> -1]

-----------------------------------------------------------------------------
(* The functions of ssl.c, from session to session.                        *)

\* One call of verify_callback: OpenSSL found the certificate bad ("preverify"), or
\* nsCertType, --tls-remote, plugin, script or CRL did ("check"), by which time the
\* name of a certificate at depth 0 is already the session's; or all is well.
verify_callback(s, verdict) ==
    [s EXCEPT !.verified = (verdict = "ok"),
              !.common_name = IF verdict # "preverify" /\ s.prim.depth = 0 THEN s.prim.cert ELSE @,
              !.prim.depth = @ - 1]

DECRYPT_KEY_ENABLED(k) == k.st >= VS_SENT_KEY

\* tls_deauthenticate: every key of every session.
Deauthenticated(t) ==
    [i \in VerifySession |-> [t[i] EXCEPT !.prim.authenticated = FALSE, !.lame.authenticated = FALSE]]

\* verify_user_pass_plugin and verify_user_pass_script, both asked if both are configured;
\* a blank name fails.
verify_user_pass(u, pluginOk, scriptOk) ==
    u # BlankName /\ (vopt.plugin => pluginOk) /\ (vopt.script => scriptOk)

\* The common name that key_method_2_read leaves in an unlocked session.
NameRead(s, u, ok) ==
    IF ok /\ UserPass /\ vopt.as_cn THEN u ELSE IF s.common_name = Nobody THEN BlankName ELSE s.common_name

\* mutant: a changed name disables the new key only.
LockedName_Key(t, i) ==
    IF t[i].prim.authenticated /\ locked_cn # Nobody /\ t[i].common_name # locked_cn
    THEN [t EXCEPT ![i].prim.authenticated = FALSE] ELSE t

\* "Don't allow the CN to change once it's been locked": else the old name is put
\* back and no key carries data any more.
LockedName(t, i) ==
    IF t[i].prim.authenticated /\ locked_cn # Nobody /\ t[i].common_name # locked_cn
    THEN Deauthenticated([t EXCEPT ![i].common_name = locked_cn]) ELSE t

\* --ccd-exclusive: a file for the common name has to be there.
ClientConfig(t, i, file) ==
    IF vopt.ccd /\ ~file THEN [t EXCEPT ![i].prim.authenticated = FALSE] ELSE t

\* mutant: the locked name is not looked at.
key_method_2_read_Unlocked(t, i, u, ok, file) ==
    LET s == [t EXCEPT ![i].prim.authenticated = ok, ![i].common_name = NameRead(t[i], u, ok),
                       ![i].prim.user = IF ok /\ UserPass THEN u ELSE Nobody,
                       ![i].prim.st = VS_GOT_KEY]
    IN  ClientConfig(s, i, file)

\* key_method_2_read without its errors.
key_method_2_read(t, i, u, ok, file) ==
    LET s == [t EXCEPT ![i].prim.authenticated = ok, ![i].common_name = NameRead(t[i], u, ok),
                       ![i].prim.user = IF ok /\ UserPass THEN u ELSE Nobody,
                       ![i].prim.st = VS_GOT_KEY]
    IN  ClientConfig(LockedName(s, i), i, file)

\* An error of the handshake, as tls_multi_process treats it: a session with a lame duck
\* key that still carries data is kept aside for it, any other starts anew.
HandshakeError(t, i) ==
    IF i = "TM_ACTIVE" /\ t[i].lame.st >= VS_ACTIVE
    THEN [t EXCEPT !["TM_LAME_DUCK"] = [t[i] EXCEPT !.prim.st = VS_ERROR], ![i] = VSessionInit]
    ELSE [t EXCEPT ![i] = VSessionInit]

\* mutant: the name of the session is not moved with it.
Promoted_Name(t) ==
    IF DECRYPT_KEY_ENABLED(t["TM_UNTRUSTED"].prim)
    THEN [t EXCEPT !["TM_ACTIVE"] = [t["TM_UNTRUSTED"] EXCEPT !.common_name = t["TM_ACTIVE"].common_name],
                   !["TM_UNTRUSTED"] = VSessionInit]
    ELSE t

\* The end of tls_multi_process: an untrusted session that got its key takes the place of
\* the active one, authenticated or not.
Promoted(t) ==
    IF DECRYPT_KEY_ENABLED(t["TM_UNTRUSTED"].prim)
    THEN [t EXCEPT !["TM_ACTIVE"] = t["TM_UNTRUSTED"], !["TM_UNTRUSTED"] = VSessionInit]
    ELSE t

-----------------------------------------------------------------------------
(* Steps.                                                                  *)

VerifyInit ==
    /\ vopt \in VerifyOptions
    /\ vsess = [i \in VerifySession |->
                  IF i = "TM_LAME_DUCK" THEN [VSessionInit EXCEPT !.prim.st = VS_UNDEF] ELSE VSessionInit]
    /\ locked_cn = Nobody /\ linked = FALSE /\ established = FALSE /\ vpost = FALSE /\ begun = 0
    /\ early = FALSE

\* every step of TLS is a call of tls_multi_process by pre_select
TlsStep(t) ==
    /\ ~vpost /\ vpost' = TRUE
    /\ vsess' = Promoted(t)
    /\ UNCHANGED <<vopt, locked_cn, established>>

\* A reset of the client is answered; it goes on with the certificate of its choice.
BeginHandshake(i) ==
    /\ vsess[i].prim.st = VS_INITIAL /\ begun < MaxHandshakes
    /\ begun' = begun + 1
    /\ \E c \in CertNames :
         TlsStep([vsess EXCEPT ![i].prim = [@ EXCEPT !.st = VS_START, !.cert = PeerCert(c).cert,
                                                     !.depth = PeerCert(c).depth]])
    /\ UNCHANGED <<linked, early>>

\* The client's certificates reach the TLS object, which calls verify_callback.
VerifyCertificate(i) ==
    /\ vsess[i].prim.st = VS_START /\ vsess[i].prim.depth >= 0
    /\ \E verdict \in {"preverify", "check", "ok"} :
         LET t == [vsess EXCEPT ![i] = verify_callback(@, verdict)]
         IN  TlsStep(IF verdict = "ok" THEN t ELSE HandshakeError(t, i))
    /\ UNCHANGED <<linked, begun, early>>

\* "Send Key": the answer of the server.
SendKey(t, i) == IF t[i].prim.st = VS_GOT_KEY THEN [t EXCEPT ![i].prim.st = VS_SENT_KEY] ELSE t

\* "Receive Key": without a username where one is asked for, or with a certificate that was
\* not verified, the handshake fails; else the key is there, the answer follows in the same
\* call unless something else has to be sent first.
ReceiveKey(i) ==
    /\ vsess[i].prim.st = VS_START /\ vsess[i].prim.depth < 0
    /\ \/ /\ UserPass \/ ~vsess[i].verified
          /\ TlsStep(HandshakeError(vsess, i))
       \/ \E u \in UserNames \cup {BlankName}, pluginOk, scriptOk, file, sent \in BOOLEAN :
            LET ok == IF UserPass THEN verify_user_pass(u, pluginOk, scriptOk) ELSE TRUE
                t  == key_method_2_read(vsess, i, u, ok, file)
            IN  /\ UserPass \/ vsess[i].verified
                /\ TlsStep(IF sent THEN SendKey(t, i) ELSE t)
    /\ UNCHANGED <<linked, begun, early>>

KeySent ==
    /\ vsess["TM_ACTIVE"].prim.st = VS_GOT_KEY
    /\ TlsStep(SendKey(vsess, "TM_ACTIVE"))
    /\ UNCHANGED <<linked, begun, early>>

\* "Wait for ACK": the key becomes active and the link is established.
KeyAcked ==
    /\ vsess["TM_ACTIVE"].prim.st = VS_SENT_KEY
    /\ linked' = TRUE
    /\ TlsStep([vsess EXCEPT !["TM_ACTIVE"].prim.st = VS_ACTIVE])
    /\ UNCHANGED <<begun, early>>

\* mutant: the new key begins with the flag of the old one.
SoftReset_Flag ==
    /\ DECRYPT_KEY_ENABLED(vsess["TM_ACTIVE"].prim) /\ begun < MaxHandshakes
    /\ TlsStep([vsess EXCEPT !["TM_ACTIVE"].lame = vsess["TM_ACTIVE"].prim,
                             !["TM_ACTIVE"].prim = [VKey(VS_INITIAL) EXCEPT
                                 !.authenticated = vsess["TM_ACTIVE"].prim.authenticated]])
    /\ early' = (early \/ vsess["TM_ACTIVE"].prim.st < VS_ACTIVE)
    /\ UNCHANGED <<linked, begun>>

\* key_state_soft_reset, asked for by either side: the session keeps its name and
\* its verified flag.
SoftReset ==
    /\ DECRYPT_KEY_ENABLED(vsess["TM_ACTIVE"].prim) /\ begun < MaxHandshakes
    /\ TlsStep([vsess EXCEPT !["TM_ACTIVE"].lame = vsess["TM_ACTIVE"].prim,
                             !["TM_ACTIVE"].prim = VKey(VS_INITIAL)])
    /\ early' = (early \/ vsess["TM_ACTIVE"].prim.st < VS_ACTIVE)
    /\ UNCHANGED <<linked, begun>>

\* --hand-window has passed.
HandshakeTimeout(i) ==
    /\ vsess[i].prim.st \in VS_START .. VS_GOT_KEY
    /\ TlsStep(HandshakeError(vsess, i))
    /\ UNCHANGED <<linked, begun, early>>

\* lame_duck_must_die, for the key of the active session and for the session kept aside.
LameDuckDies ==
    /\ \/ /\ vsess["TM_ACTIVE"].lame.st # VS_UNDEF
          /\ TlsStep([vsess EXCEPT !["TM_ACTIVE"].lame = VKey(VS_UNDEF)])
       \/ /\ vsess["TM_LAME_DUCK"].lame.st # VS_UNDEF
          /\ TlsStep([vsess EXCEPT !["TM_LAME_DUCK"] = [VSessionInit EXCEPT !.prim.st = VS_UNDEF]])
    /\ UNCHANGED <<linked, begun, early>>

KeyScan == {vsess["TM_ACTIVE"].prim, vsess["TM_ACTIVE"].lame, vsess["TM_LAME_DUCK"].lame}
tls_authenticated == \E k \in KeyScan : DECRYPT_KEY_ENABLED(k) /\ k.authenticated

\* multi_process_post, multi_connection_established and tls_lock_common_name.
ConnectionEstablished ==
    /\ vpost /\ vpost' = FALSE
    /\ IF linked /\ ~established /\ tls_authenticated
       THEN /\ established' = TRUE
            /\ locked_cn' = IF locked_cn = Nobody THEN vsess["TM_ACTIVE"].common_name ELSE locked_cn
       ELSE UNCHANGED <<established, locked_cn>>
    /\ UNCHANGED <<vopt, vsess, linked, begun, early>>

VerifyNext ==
    \/ \E i \in {"TM_ACTIVE", "TM_UNTRUSTED"} :
         BeginHandshake(i) \/ VerifyCertificate(i) \/ ReceiveKey(i) \/ HandshakeTimeout(i)
    \/ KeySent \/ KeyAcked \/ SoftReset \/ LameDuckDies \/ ConnectionEstablished

VerifySpec == VerifyInit /\ [][VerifyNext]_verifyVars

-----------------------------------------------------------------------------
(* Properties.                                                             *)

VName == CertNames \cup UserNames \cup {BlankName, Nobody}
VerifyTypeOK ==
    /\ locked_cn \in VName
    /\ \A i \in VerifySession : /\ vsess[i].common_name \in VName /\ vsess[i].verified \in BOOLEAN
                                /\ vsess[i].prim.st \in VS_ERROR .. VS_ACTIVE
                                /\ vsess[i].lame.st \in VS_UNDEF .. VS_ACTIVE

\* Who the peer proved to be in the handshake of a key.
ProvedName(k) == IF UserPass /\ vopt.as_cn THEN k.user ELSE IF vopt.cert THEN k.cert ELSE BlankName

\* A key carries data only if its own handshake, not an earlier one of its session, went
\* through every check that is configured.
KeyProved ==
    \A i \in VerifySession : \A k \in {vsess[i].prim, vsess[i].lame} :
        k.authenticated => k.depth < 0 /\ (UserPass => k.user # Nobody) /\ (vopt.cert => k.cert # Nobody)

\* The tunnel belongs to one name: with the common name locked, no key whose handshake
\* proved another name carries data, however renegotiations, new sessions, failures and
\* the two sessions in progress follow each other ("tunnel disabled" in key_method_2_read).
\* Excepted is a client that asks for a new key before its first one was active: the name
\* of the second handshake, passed or not, is locked on the strength of the first.
OneIdentity ==
    locked_cn # Nobody /\ ~early =>
        \A k \in KeyScan : DECRYPT_KEY_ENABLED(k) /\ k.authenticated => ProvedName(k) = locked_cn

\* The name the server goes by (routes, files of --client-config-dir, kills by name) is
\* the one that the active key proved, outside of handshakes.
NameCurrent ==
    LET s == vsess["TM_ACTIVE"] IN
        DECRYPT_KEY_ENABLED(s.prim) /\ s.prim.authenticated =>
            s.common_name = ProvedName(s.prim) /\ (locked_cn # Nobody => s.common_name = locked_cn)

\* "tunnel disabled": a handshake that was accepted under another name than the locked one
\* takes every key of the client out of use, the old keys of the right name too.
TunnelCut ==
    LET k == vsess["TM_ACTIVE"].prim IN
        /\ locked_cn # Nobody /\ ~early
        /\ DECRYPT_KEY_ENABLED(k) /\ (UserPass => k.user # Nobody) /\ ProvedName(k) # locked_cn
        => ~tls_authenticated

\* The identity of a client through all handshakes of its instance.
VerifyInv == VerifyTypeOK /\ KeyProved /\ OneIdentity /\ TunnelCut /\ NameCurrent
=============================================================================
