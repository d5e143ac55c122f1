-------------------------- MODULE PacketIdPersist ---------------------------
(***************************************************************************)
(* --replay-persist: the receiver of PacketId keeps the highest time stamp *)
(* and id in a file, so that a later session can go on from there.  The    *)
(* structure in memory (pid_persist) follows the receiver packet by packet *)
(* and is written to the file at intervals and when the session ends.      *)
(***************************************************************************)
EXTENDS PacketId

CONSTANTS
  MaxRestarts,   \* bound: sessions stopped and started again
  MaxCrashes     \* bound: sessions that end without do_close_packet_id

ASSUME PersistAssumption == MaxRestarts \in Nat /\ MaxCrashes \in Nat

VARIABLES
  pp,        \* struct packet_id_persist in memory: time and id
  file,      \* struct packet_id_persist_file_image on disk
  session,   \* history: packet ids this session has accepted
  covered,   \* history: packet ids accepted by the time the file was written
  restarts, crashes

pvars == <<now, snd, rec, sent, accepted, replayed, pp, file, session, covered, restarts, crashes>>

\* packet_id_persist_save: nothing to write before the first packet.
packet_id_persist_save ==
  IF pp.time # 0
  THEN file' = pp /\ covered' = covered \cup session
  ELSE UNCHANGED <<file, covered>>

\* mutant: only the time stamp is restored.
packet_id_persist_load_obj_NoId(p) ==
  IF p.time # 0 THEN [packet_id_init EXCEPT !.time = p.time] ELSE packet_id_init

\* packet_id_init, then packet_id_persist_load_obj: the new session's receiver
\* starts from the persisted time and id, with an empty window.
packet_id_persist_load_obj(p) ==
  IF p.time # 0 THEN [packet_id_init EXCEPT !.time = p.time, !.id = p.id]
                ELSE packet_id_init

PInit ==
  /\ Init
  /\ pp = [time |-> 0, id |-> 0]
  /\ file = [time |-> 0, id |-> 0]
  /\ session = {} /\ covered = {}
  /\ restarts = 0 /\ crashes = 0

\* openvpn_decrypt with pid_persist: packet_id_persist_save_obj follows
\* packet_id_add when the packet was accepted and the long form is in use.
PDecrypt(pin) ==
  /\ Decrypt(pin)
  /\ IF packet_id_test(packet_id_reap_test(rec), pin)
     THEN /\ pp' = IF LongForm /\ rec'.time # 0
                   THEN [time |-> rec'.time, id |-> rec'.id] ELSE pp
          /\ session' = session \cup {pin}
     ELSE UNCHANGED <<pp, session>>
  /\ UNCHANGED <<file, covered, restarts, crashes>>

PEncrypt == Encrypt /\ UNCHANGED <<pp, file, session, covered, restarts, crashes>>
PTick == Tick /\ UNCHANGED <<pp, file, session, covered, restarts, crashes>>

\* check_packet_id_persist_flush, once a minute.
Flush ==
  /\ packet_id_persist_save
  /\ UNCHANGED <<now, snd, rec, sent, accepted, replayed, pp, session, restarts, crashes>>

\* do_close_packet_id, then a new session.  A SIGUSR1 restart keeps pid_persist
\* open; any other end closes it and packet_id_persist_load reads the file
\* just written: both leave it equal to the file.
Restart ==
  /\ restarts < MaxRestarts
  /\ restarts' = restarts + 1
  /\ packet_id_persist_save
  /\ pp' = file'
  /\ rec' = packet_id_persist_load_obj(pp')
  /\ session' = {}
  /\ UNCHANGED <<now, snd, sent, accepted, replayed, crashes>>

\* The process dies; what was accepted since the last flush is not on disk.
Crash ==
  /\ crashes < MaxCrashes
  /\ crashes' = crashes + 1
  /\ pp' = file
  /\ rec' = packet_id_persist_load_obj(pp')
  /\ session' = {}
  /\ UNCHANGED <<now, snd, sent, accepted, replayed, file, covered, restarts>>

PNext ==
  \/ PEncrypt \/ PTick \/ Flush \/ Restart \/ Crash
  \/ \E pin \in sent : PDecrypt(pin)

PSpec == PInit /\ [][PNext]_pvars

-----------------------------------------------------------------------------
(* Properties.                                                             *)

\* A packet accepted before the file was last written is rejected for ever,
\* through any number of stops and crashes.
CoveredRejected == \A pin \in covered : ~ packet_id_test(rec, pin)

\* What the replay file is for, through stops and crashes: no packet of a
\* written file is accepted again, and over TCP no later packet is lost.
PersistInv == CoveredRejected /\ NoGaps
=============================================================================
