-------------------------- MODULE Handshake_proof --------------------------
(***************************************************************************)
(* Proofs about Handshake, for any number of objects, devices, stored      *)
(* pairings, starts and payloads, and every order in which a caller hands  *)
(* frames to objects: authenticated sessions come in pairs that agree.     *)
(***************************************************************************)
EXTENDS Handshake, TLAPS

-----------------------------------------------------------------------------
(* The invariant.  How an object is built never changes, so the transcript *)
(* that belongs to a key is known as soon as the key is.                   *)
Fits(k) ==
    /\ res[k.res].reconnect = ini[k.ini].reconnect
    /\ res[k.res].pid = {ini[k.ini].pid}

Due(k) ==
    TranscriptOf(k, ini[k.ini], ini[k.ini].pid, ini[k.ini].cert, res[k.res].cert)

(* Each side has the certificate it is looking for. *)
IniAccepts(k) ==
    Identifies(ini[k.ini], res[k.res].cert,
               {x.responder : x \in Context({ini[k.ini].pid})})
ResAccepts(k) ==
    Identifies(res[k.res], ini[k.ini].cert,
               {x.initiator : x \in Context({ini[k.ini].pid})})

(* A responder keeps the PairID of the first start it has answered.        *)
PidInv == \A r \in Responders : \A p, q \in res[r].pid : p = q

(* Who has sent a frame, and in which state. *)
Known(f) ==
    /\ f.kind = "start" => /\ f.reconnect = ini[f.ini].reconnect
                           /\ f.pid = ini[f.ini].pid
    /\ f.kind = "reply" => Fits(f.key)
    /\ f.kind = "finish" => Fits(f.key) /\ ini[f.key.ini].phase = "done"
    /\ f.kind = "auth" =>
          /\ Finish(f.key) \in frames
          /\ f.seq = 1 => f.cert = {ini[f.key.ini].cert}
          /\ f.seq = 2 => /\ f.cert = {res[f.key.res].cert}
                          /\ f.signed = {Due(f.key)}
                          /\ ResAccepts(f.key)
          /\ f.seq = 3 => /\ f.signed = {Due(f.key)}
                          /\ ini[f.key.ini].at.transcript = {Due(f.key)}
          /\ f.seq = 4 => \E s \in res[f.key.res].at.sessions : s.key = f.key

FrameInv == \A f \in frames : Known(f)

(* An initiator finishes one handshake. *)
FinishInv ==
    \A k, l \in Key : Finish(k) \in frames /\ Finish(l) \in frames /\ k.ini = l.ini => k = l

(* What an initiator has reached, verified and exposed. *)
IniReached(i) ==
    /\ \A k \in ini[i].at.transport : k.ini = i /\ Finish(k) \in frames
    /\ ini[i].at.sentAuth => ini[i].phase = "done"
    /\ ini[i].at.read = 0 => ini[i].at.transcript = {} /\ ini[i].at.peer = {}

IniVerified(i) ==
    /\ \A t \in ini[i].at.transcript :
          /\ t.key.ini = i /\ Finish(t.key) \in frames
          /\ t = Due(t.key) /\ IniAccepts(t.key) /\ ResAccepts(t.key)
    /\ \A c \in ini[i].at.peer, t \in ini[i].at.transcript : c = res[t.key.res].cert

IniExposed(i) ==
    \A s \in ini[i].at.sessions :
        /\ s.key.ini = i /\ s.binding \in ini[i].at.transcript
        /\ s = SessionOf(s.key, Due(s.key), ini[i].cert, res[s.key.res].cert)
        /\ \E u \in res[s.key.res].at.sessions : u.key = s.key

IniInv == \A i \in Initiators : IniReached(i) /\ IniVerified(i) /\ IniExposed(i)

(* What a responder has reached, verified and exposed. *)
ResReached(r) ==
    /\ \A k \in res[r].handshake : k.res = r /\ Fits(k)
    /\ \A k \in res[r].at.transport : k.res = r /\ Finish(k) \in frames

ResVerified(r) ==
    /\ \A t \in res[r].at.transcript :
          /\ t.key.res = r /\ Finish(t.key) \in frames
          /\ t = Due(t.key) /\ ResAccepts(t.key)
    /\ \A c \in res[r].at.peer, t \in res[r].at.transcript : c = ini[t.key.ini].cert

ResExposed(r) ==
    \A s \in res[r].at.sessions :
        /\ s.key.res = r /\ Finish(s.key) \in frames
        /\ s = SessionOf(s.key, Due(s.key), res[r].cert, ini[s.key.ini].cert)
        /\ ini[s.key.ini].at.transcript = {Due(s.key)}

ResInv == \A r \in Responders : ResReached(r) /\ ResVerified(r) /\ ResExposed(r)

(* The two ends of a transport write and read in step. *)
Peer(e) == [key |-> e.key, role |-> Other(e.role)]
InStep(e) ==
    /\ wrote[e] # <<>> \/ got[e] # <<>> => SessionsAt(e) # {}
    /\ Len(got[e]) <= Len(wrote[Peer(e)])
    /\ \A n \in 1..Len(got[e]) :
          wrote[Peer(e)][n] = [payload |-> got[e][n], sent |-> TRUE]
PayloadInv == \A e \in End : InStep(e)

CoreInv == TypeOK /\ PidInv /\ FrameInv /\ FinishInv /\ IniInv /\ ResInv
HandshakeInv == CoreInv /\ PayloadInv

-----------------------------------------------------------------------------
(* Types.                                                                  *)

(* The other end of a transport.                                           *)
LEMMA Others == /\ \A r \in Role : Other(r) \in Role /\ Other(r) # r
                /\ \A r \in Role : Other(Other(r)) = r
                /\ \A e \in End : Peer(e) \in End /\ Peer(Peer(e)) = e
                /\ \A e, d \in End : d.role # e.role /\ d.key = e.key => d = Peer(e)
<1>1. Other("initiator") = "responder" /\ Other("responder") = "initiator"
  <2>1. \E r \in Role : r # "initiator"  BY DEF Role
  <2>2. \E r \in Role : r # "responder"  BY DEF Role
  <2> QED  BY <2>1, <2>2 DEF Role, Other
<1>2. \A r \in Role : r = "initiator" \/ r = "responder"  BY DEF Role
<1>3. \A r \in Role : Other(r) \in Role /\ Other(r) # r /\ Other(Other(r)) = r
  BY <1>1, <1>2 DEF Role
<1>4. \A e \in End : e.key \in Key /\ e.role \in Role /\ e = [key |-> e.key, role |-> e.role]
  BY DEF End
<1>5. \A e \in End : Peer(e) \in End /\ Peer(Peer(e)) = e
  BY <1>3, <1>4 DEF Peer, End
<1>6. \A e, d \in End : d.role # e.role /\ d.key = e.key => d = Peer(e)
  BY <1>1, <1>2, <1>4 DEF Peer
<1> QED  BY <1>3, <1>5, <1>6

(* The place of each auth frame among those of its direction. *)
LEMMA Places == /\ (1 - 1) \div 2 = 0 /\ (2 - 1) \div 2 = 0
                /\ (3 - 1) \div 2 = 1 /\ (4 - 1) \div 2 = 1
OBVIOUS

(* The identities of stored pairings are identities. *)
LEMMA ContextTypes ==
  /\ \A c \in Contexts : c.pid \in PairIds /\ c.initiator \in Cert /\ c.responder \in Cert
  /\ \A i \in Initiators : i \in PairIds
  /\ \A c \in Cert : c.device \in Devices
BY ContextsAssumption DEF PairIds, Cert

(* Every object is built well. *)
LEMMA ConfigTypes ==
  /\ \A i \in Initiators : \A c \in IniConfig(i) :
        /\ c.reconnect \in BOOLEAN /\ c.pid \in PairIds
        /\ c.cert \in Cert /\ c.expected \in Devices
  /\ \A d \in ResConfig :
        /\ d.reconnect \in BOOLEAN /\ d.pid \in SUBSET PairIds
        /\ d.cert \in Cert /\ d.expected \in Devices
        /\ \A p, q \in d.pid : p = q
<1>1. ASSUME NEW i \in Initiators, NEW c \in IniConfig(i)
      PROVE  /\ c.reconnect \in BOOLEAN /\ c.pid \in PairIds
             /\ c.cert \in Cert /\ c.expected \in Devices
  <2>1. CASE c \in {[reconnect |-> FALSE, pid |-> i, cert |-> x, expected |-> e] :
                       x \in Cert, e \in Devices}
    <3>1. PICK x \in Cert, e \in Devices :
             c = [reconnect |-> FALSE, pid |-> i, cert |-> x, expected |-> e]
      BY <2>1
    <3> QED  BY <3>1, ContextTypes
  <2>2. CASE c \in {[reconnect |-> TRUE, pid |-> x.pid, cert |-> x.initiator,
                     expected |-> x.responder.device] : x \in Contexts}
    <3>1. PICK x \in Contexts : c = [reconnect |-> TRUE, pid |-> x.pid,
             cert |-> x.initiator, expected |-> x.responder.device]
      BY <2>2
    <3> QED  BY <3>1, ContextTypes
  <2> QED  BY <2>1, <2>2 DEF IniConfig
<1>2. ASSUME NEW d \in ResConfig
      PROVE  /\ d.reconnect \in BOOLEAN /\ d.pid \in SUBSET PairIds
             /\ d.cert \in Cert /\ d.expected \in Devices
             /\ \A p, q \in d.pid : p = q
  <2>1. CASE d \in {[reconnect |-> FALSE, pid |-> {}, cert |-> x, expected |-> e] :
                       x \in Cert, e \in Devices}
    <3>1. PICK x \in Cert, e \in Devices :
             d = [reconnect |-> FALSE, pid |-> {}, cert |-> x, expected |-> e]
      BY <2>1
    <3> QED  BY <3>1
  <2>2. CASE d \in {[reconnect |-> TRUE, pid |-> {x.pid}, cert |-> x.responder,
                     expected |-> x.initiator.device] : x \in Contexts}
    <3>1. PICK x \in Contexts : d = [reconnect |-> TRUE, pid |-> {x.pid},
             cert |-> x.responder, expected |-> x.initiator.device]
      BY <2>2
    <3> QED  BY <3>1, ContextTypes
  <2> QED  BY <2>1, <2>2 DEF ResConfig
<1> QED  BY <1>1, <1>2

LEMMA TypeInit == Init => TypeOK
<1> SUFFICES ASSUME Init PROVE TypeOK
  OBVIOUS
<1>1. NewObject \in Progress
  BY DEF NewObject, Progress
<1>2. ini \in [Initiators -> Initiator]
  <2>1. PICK c \in [Initiators -> UNION {IniConfig(i) : i \in Initiators}] :
           /\ \A i \in Initiators : c[i] \in IniConfig(i)
           /\ ini = [i \in Initiators |-> IniObject(c[i])]
    BY DEF Init
  <2>2. \A i \in Initiators : IniObject(c[i]) \in Initiator
    BY <1>1, <2>1, ConfigTypes DEF IniObject, Initiator
  <2> QED  BY <2>1, <2>2
<1>3. res \in [Responders -> Responder]
  <2>1. PICK d \in [Responders -> ResConfig] : res = [r \in Responders |-> ResObject(d[r])]
    BY DEF Init
  <2>2. \A r \in Responders : ResObject(d[r]) \in Responder
    BY <1>1, <2>1, ConfigTypes, StartsAssumption DEF ResObject, Responder
  <2> QED  BY <2>1, <2>2
<1>4. wrote \in [End -> Seq(Encrypted)] /\ got \in [End -> Seq(Payload)]
  <2>1. << >> \in Seq(Encrypted) /\ << >> \in Seq(Payload)
    OBVIOUS
  <2> QED  BY <2>1 DEF Init
<1>5. frames \subseteq Frame
  BY DEF Init
<1> QED  BY <1>2, <1>3, <1>4, <1>5 DEF TypeOK

(* What is known of a frame by its kind.                                   *)
LEMMA FrameTypes ==
  /\ \A f \in Frame :
        /\ f.kind = "start" => f.ini \in Initiators /\ f.reconnect \in BOOLEAN /\ f.pid \in PairIds
        /\ f.kind = "reply" => f.key \in Key /\ f.reconnect \in BOOLEAN /\ f.pid \in PairIds
        /\ f.kind = "finish" => f.key \in Key /\ f = Finish(f.key)
        /\ f.kind = "auth" => /\ f.key \in Key /\ f.seq \in 1..4
                              /\ f.cert \in SUBSET Cert /\ f.signed \in SUBSET Transcript
  /\ \A k \in Key : Finish(k) \in Frame
  /\ \A k \in Key, n \in 1..4, C \in SUBSET Cert, T \in SUBSET Transcript :
        Auth(k, n, C, T) \in Frame
<1>1. ASSUME NEW f \in Frame
      PROVE
        /\ f.kind = "start" => f.ini \in Initiators /\ f.reconnect \in BOOLEAN /\ f.pid \in PairIds
        /\ f.kind = "reply" => f.key \in Key /\ f.reconnect \in BOOLEAN /\ f.pid \in PairIds
        /\ f.kind = "finish" => f.key \in Key /\ f = Finish(f.key)
        /\ f.kind = "auth" => /\ f.key \in Key /\ f.seq \in 1..4
                              /\ f.cert \in SUBSET Cert /\ f.signed \in SUBSET Transcript
  BY <1>1 DEF Frame, Finish
<1>2. \A k \in Key : Finish(k) \in Frame
  BY DEF Frame, Finish
<1>3. \A k \in Key, n \in 1..4, C \in SUBSET Cert, T \in SUBSET Transcript :
        Auth(k, n, C, T) \in Frame
  BY DEF Frame, Auth
<1> QED  BY <1>1, <1>2, <1>3

-----------------------------------------------------------------------------
(* What each step changes, field by field.                                 *)

(* A step of initiator i leaves the way it was built, and all else, alone. *)
IniOnly(i) ==
    /\ UNCHANGED <<res, wrote, got>>
    /\ \A j \in Initiators : j # i => ini'[j] = ini[j]
    /\ UNCHANGED <<ini[i].reconnect, ini[i].pid, ini[i].cert, ini[i].expected>>

(* A step of responder r may only take over the PairID of a start. *)
ResOnly(r) ==
    /\ UNCHANGED <<ini, wrote, got>>
    /\ \A q \in Responders : q # r => res'[q] = res[q]
    /\ UNCHANGED <<res[r].reconnect, res[r].cert, res[r].expected>>

LEMMA Objects ==
  ASSUME TypeOK
  PROVE  /\ ini \in [Initiators -> [at : Progress, phase : {"fresh", "started", "done"},
                       reconnect : BOOLEAN, pid : PairIds, cert : Cert, expected : Devices]]
         /\ res \in [Responders -> [at : Progress, handshake : SUBSET Key, starts : 0..MaxStarts,
                       reconnect : BOOLEAN, pid : SUBSET PairIds, cert : Cert,
                       expected : Devices]]
         /\ \A i \in Initiators : ini[i] \in Initiator /\ ini[i].at \in Progress
         /\ \A r \in Responders : res[r] \in Responder /\ res[r].at \in Progress
BY DEF TypeOK, Initiator, Responder

LEMMA ReadTypes ==
  ASSUME NEW at \in Progress
  PROVE  /\ [at EXCEPT !.read = 1] \in Progress
         /\ \A c \in Cert, t \in Transcript :
              [at EXCEPT !.read = 1, !.peer = {c}, !.transcript = {t}] \in Progress
<1>1. 1 \in 0..2
  OBVIOUS
<1>2. [at EXCEPT !.read = 1] \in Progress
  BY <1>1 DEF Progress
<1>3. ASSUME NEW c \in Cert, NEW t \in Transcript
      PROVE  [at EXCEPT !.read = 1, !.peer = {c}, !.transcript = {t}] \in Progress
  BY <1>1, <1>3 DEF Progress
<1> QED  BY <1>2, <1>3

Started(i) ==
    /\ TypeOK' /\ IniOnly(i)
    /\ ini[i].phase = "fresh" /\ ini'[i].phase = "started"
    /\ ini'[i].at = ini[i].at
    /\ frames' = frames \cup {Start(i)}

LEMMA Starting ==
  ASSUME TypeOK, NEW i \in Initiators, IniStart(i)
  PROVE  Started(i)
<1>1. ini' \in [Initiators -> Initiator]
  BY DEF TypeOK, IniStart, Initiator
<1>2. /\ \A j \in Initiators : j # i => ini'[j] = ini[j]
      /\ ini'[i].at = ini[i].at /\ ini'[i].phase = "started"
      /\ UNCHANGED <<ini[i].reconnect, ini[i].pid, ini[i].cert, ini[i].expected>>
  BY DEF TypeOK, IniStart, Initiator
<1>3. Start(i) \in Frame
  BY DEF Start, Frame, TypeOK, Initiator
<1> QED  BY <1>1, <1>2, <1>3 DEF TypeOK, IniStart, Started, IniOnly

Finished(i, f) ==
    /\ TypeOK' /\ IniOnly(i)
    /\ f.kind = "reply" /\ f.key \in Key /\ f.key.ini = i
    /\ ini[i].phase = "started" /\ ini'[i].phase = "done"
    /\ ini'[i].at.transport = {f.key} /\ ini'[i].at.sentAuth
    /\ UNCHANGED <<ini[i].at.read, ini[i].at.peer, ini[i].at.transcript, ini[i].at.sessions>>
    /\ frames' = frames \cup {Finish(f.key), Auth(f.key, 1, {ini[i].cert}, {})}

LEMMA Finishing ==
  ASSUME TypeOK, NEW i \in Initiators, IniReceiveHandshake(i)
  PROVE  \E f \in frames : Finished(i, f)
<1>1. PICK f \in frames :
         /\ f.kind = "reply" /\ f.key.ini = i
         /\ ini' = [ini EXCEPT ![i].phase = "done",
                               ![i].at.transport = {f.key},
                               ![i].at.sentAuth = TRUE]
         /\ frames' = frames \cup {Finish(f.key), Auth(f.key, 1, {ini[i].cert}, {})}
  BY DEF IniReceiveHandshake
<1>2. f.key \in Key
  BY <1>1, FrameTypes DEF TypeOK
<1>3. ini' \in [Initiators -> Initiator]
  <2> DEFINE a == [ini[i].at EXCEPT !.transport = {f.key}, !.sentAuth = TRUE]
  <2>1. a \in Progress
    BY <1>2, Objects DEF Progress
  <2>2. ini'[i] = [ini[i] EXCEPT !.phase = "done", !.at = a]
    BY <1>1, Objects
  <2>3. ini'[i] \in Initiator
    BY <2>1, <2>2, Objects DEF Initiator
  <2> QED  BY <1>1, <2>3, Objects
<1>4. /\ \A j \in Initiators : j # i => ini'[j] = ini[j]
      /\ ini'[i].phase = "done"
      /\ ini'[i].at.transport = {f.key} /\ ini'[i].at.sentAuth
      /\ UNCHANGED <<ini[i].at.read, ini[i].at.peer, ini[i].at.transcript, ini[i].at.sessions>>
      /\ UNCHANGED <<ini[i].reconnect, ini[i].pid, ini[i].cert, ini[i].expected>>
  BY <1>1 DEF TypeOK, Initiator, Progress
<1>5. Finish(f.key) \in Frame /\ Auth(f.key, 1, {ini[i].cert}, {}) \in Frame
  <2>1. {ini[i].cert} \in SUBSET Cert
    BY DEF TypeOK, Initiator
  <2> QED  BY <1>2, <2>1, FrameTypes
<1>6. UNCHANGED <<res, wrote, got>> /\ ini[i].phase = "started"
  BY DEF IniReceiveHandshake
<1>7. TypeOK' /\ IniOnly(i)
  BY <1>1, <1>3, <1>4, <1>5, <1>6 DEF TypeOK, IniOnly
<1>8. Finished(i, f)
  BY <1>1, <1>2, <1>4, <1>6, <1>7 DEF Finished
<1> QED  BY <1>8

(* An initiator reads the responder's auth frame, and keeps all it has but *)
(* what it verifies.                                                       *)
Answered(i, f, c) ==
    /\ TypeOK' /\ IniOnly(i)
    /\ f.kind = "auth" /\ f.key \in ini[i].at.transport /\ f.seq = 2 /\ c \in f.cert
    /\ ini[i].at.sentAuth /\ ini[i].at.read = 0 /\ ini'[i].at.read = 1
    /\ UNCHANGED <<ini[i].phase, ini[i].at.transport, ini[i].at.sentAuth, ini[i].at.sessions>>
    /\ \/ /\ UNCHANGED <<ini[i].at.peer, ini[i].at.transcript, frames>>
       \/ LET t == TranscriptOf(f.key, ini[i], ini[i].pid, ini[i].cert, c) IN
          /\ Identifies(ini[i], c, {x.responder : x \in Context({ini[i].pid})})
          /\ f.signed = {t}
          /\ ini'[i].at.peer = {c} /\ ini'[i].at.transcript = {t}
          /\ frames' = frames \cup {Auth(f.key, 3, {}, {t})}

LEMMA Answering ==
  ASSUME TypeOK, NEW i \in Initiators, IniReceiveAuth(i)
  PROVE  \E f \in frames : \E c \in Cert : Answered(i, f, c)
<1> DEFINE T(f, c) == TranscriptOf(f.key, ini[i], ini[i].pid, ini[i].cert, c)
           OK(f, c) == /\ Identifies(ini[i], c, {x.responder : x \in Context({ini[i].pid})})
                       /\ f.signed = {T(f, c)}
<1>1. PICK f \in AuthFrames : \E c \in f.cert :
         /\ Decrypts(ini[i].at, f, 2)
         /\ IF OK(f, c) THEN /\ ini' = [ini EXCEPT ![i].at.read = 1,
                                                   ![i].at.peer = {c},
                                                   ![i].at.transcript = {T(f, c)}]
                             /\ frames' = frames \cup {Auth(f.key, 3, {}, {T(f, c)})}
                        ELSE /\ ini' = [ini EXCEPT ![i].at.read = 1]
                             /\ frames' = frames
  BY DEF IniReceiveAuth
<1>2. PICK c \in f.cert :
         /\ Decrypts(ini[i].at, f, 2)
         /\ IF OK(f, c) THEN /\ ini' = [ini EXCEPT ![i].at.read = 1,
                                                   ![i].at.peer = {c},
                                                   ![i].at.transcript = {T(f, c)}]
                             /\ frames' = frames \cup {Auth(f.key, 3, {}, {T(f, c)})}
                        ELSE /\ ini' = [ini EXCEPT ![i].at.read = 1]
                             /\ frames' = frames
  BY <1>1
<1>3. /\ f \in frames /\ f.kind = "auth" /\ f.key \in Key /\ c \in Cert
      /\ f.signed \in SUBSET Transcript
  BY FrameTypes DEF AuthFrames, TypeOK
<1>4. f.seq = 2 /\ f.key \in ini[i].at.transport /\ ini[i].at.read = 0
  BY <1>2, Places DEF Decrypts
<1>5. ini[i].at.sentAuth /\ UNCHANGED <<res, wrote, got>>
  BY DEF IniReceiveAuth
<1>6. CASE OK(f, c)
  <2> HIDE DEF OK
  <2>1. /\ ini' = [ini EXCEPT ![i].at.read = 1, ![i].at.peer = {c},
                              ![i].at.transcript = {T(f, c)}]
        /\ frames' = frames \cup {Auth(f.key, 3, {}, {T(f, c)})}
    BY <1>2, <1>6
  <2>2. T(f, c) \in Transcript
    BY <1>3, <1>6 DEF OK
  <2> HIDE DEF T
  <2>3. ini' \in [Initiators -> Initiator]
    <3> DEFINE a == [ini[i].at EXCEPT !.read = 1, !.peer = {c}, !.transcript = {T(f, c)}]
    <3>1. a \in Progress
      BY <1>3, <2>2, Objects, ReadTypes
    <3>2. ini'[i] = [ini[i] EXCEPT !.at = a]
      BY <2>1, Objects
    <3>3. ini'[i] \in Initiator
      BY <3>1, <3>2, Objects DEF Initiator
    <3> QED  BY <2>1, <3>3, Objects
  <2>4. /\ \A j \in Initiators : j # i => ini'[j] = ini[j]
        /\ UNCHANGED <<ini[i].reconnect, ini[i].pid, ini[i].cert, ini[i].expected>>
        /\ UNCHANGED <<ini[i].phase, ini[i].at.transport, ini[i].at.sentAuth,
                       ini[i].at.sessions>>
        /\ ini'[i].at.read = 1 /\ ini'[i].at.peer = {c}
        /\ ini'[i].at.transcript = {T(f, c)}
    BY <2>1 DEF TypeOK, Initiator, Progress
  <2>5. Auth(f.key, 3, {}, {T(f, c)}) \in Frame
    BY <1>3, <2>2, FrameTypes
  <2>6. TypeOK' /\ IniOnly(i)
    BY <1>5, <2>1, <2>3, <2>4, <2>5 DEF TypeOK, IniOnly
  <2>7. Answered(i, f, c)
    BY <1>3, <1>4, <1>5, <1>6, <2>1, <2>4, <2>6 DEF Answered, OK, T
  <2> QED  BY <1>3, <2>7
<1>7. CASE ~OK(f, c)
  <2> HIDE DEF OK, T
  <2>1. ini' = [ini EXCEPT ![i].at.read = 1] /\ frames' = frames
    BY <1>2, <1>7
  <2>2. ini' \in [Initiators -> Initiator]
    <3> DEFINE a == [ini[i].at EXCEPT !.read = 1]
    <3>1. a \in Progress
      BY Objects, ReadTypes
    <3>2. ini'[i] = [ini[i] EXCEPT !.at = a]
      BY <2>1, Objects
    <3>3. ini'[i] \in Initiator
      BY <3>1, <3>2, Objects DEF Initiator
    <3> QED  BY <2>1, <3>3, Objects
  <2>3. /\ \A j \in Initiators : j # i => ini'[j] = ini[j]
        /\ UNCHANGED <<ini[i].reconnect, ini[i].pid, ini[i].cert, ini[i].expected>>
        /\ UNCHANGED <<ini[i].phase, ini[i].at.transport, ini[i].at.sentAuth,
                       ini[i].at.sessions>>
        /\ UNCHANGED <<ini[i].at.peer, ini[i].at.transcript>>
        /\ ini'[i].at.read = 1
    BY <2>1 DEF TypeOK, Initiator, Progress
  <2>4. TypeOK' /\ IniOnly(i)
    BY <1>5, <2>1, <2>2, <2>3 DEF TypeOK, IniOnly
  <2>5. Answered(i, f, c)
    BY <1>3, <1>4, <1>5, <2>1, <2>3, <2>4 DEF Answered
  <2> QED  BY <1>3, <2>5
<1> QED  BY <1>6, <1>7

(* An initiator reads the acknowledgement, and exposes the session with    *)
(* the peer it has, if it has one.                                         *)
Acknowledged(i, f) ==
    /\ TypeOK' /\ IniOnly(i)
    /\ f.kind = "auth" /\ f.key \in ini[i].at.transport /\ f.seq = 4
    /\ ini'[i].at.read = 2
    /\ UNCHANGED <<frames, ini[i].phase, ini[i].at.transcript, ini[i].at.sentAuth>>
    /\ \/ UNCHANGED <<ini[i].at.transport, ini[i].at.peer, ini[i].at.sessions>>
       \/ /\ ini'[i].at.transport = {} /\ ini'[i].at.peer = {}
          /\ \E c \in ini[i].at.peer, t \in ini[i].at.transcript :
                ini'[i].at.sessions =
                    ini[i].at.sessions \cup {SessionOf(f.key, t, ini[i].cert, c)}

LEMMA SessionTypes ==
  ASSUME NEW at \in Progress, NEW k \in at.transport, NEW t \in at.transcript,
         NEW c \in at.peer, NEW d \in Cert
  PROVE  SessionOf(k, t, d, c) \in Session
<1>1. k \in Key /\ t \in Transcript /\ c \in Cert
  BY DEF Progress
<1>2. t.pid \in PairIds
  BY <1>1 DEF Transcript
<1> QED  BY <1>1, <1>2 DEF SessionOf, Session

LEMMA ReadLast ==
  ASSUME NEW at \in Progress
  PROVE  /\ [at EXCEPT !.read = 2] \in Progress
         /\ \A s \in Session :
              /\ [at EXCEPT !.transport = {}, !.read = 2, !.sessions = @ \cup {s}] \in Progress
              /\ [at EXCEPT !.transport = {}, !.peer = {}, !.read = 2,
                            !.sessions = @ \cup {s}] \in Progress
<1>1. 2 \in 0..2
  OBVIOUS
<1>2. [at EXCEPT !.read = 2] \in Progress
  BY <1>1 DEF Progress
<1>3. ASSUME NEW s \in Session
      PROVE  [at EXCEPT !.transport = {}, !.peer = {}, !.read = 2,
                        !.sessions = @ \cup {s}] \in Progress
  BY <1>1 DEF Progress
<1>4. ASSUME NEW s \in Session
      PROVE  [at EXCEPT !.transport = {}, !.read = 2, !.sessions = @ \cup {s}] \in Progress
  BY <1>1 DEF Progress
<1> QED  BY <1>2, <1>3, <1>4

LEMMA Acknowledging ==
  ASSUME TypeOK, NEW i \in Initiators, IniReceiveAck(i)
  PROVE  \E f \in frames : Acknowledged(i, f)
<1>1. PICK f \in AuthFrames :
         /\ Decrypts(ini[i].at, f, 4)
         /\ IF ini[i].at.peer = {}
                THEN ini' = [ini EXCEPT ![i].at.read = 2]
                ELSE \E c \in ini[i].at.peer, t \in ini[i].at.transcript :
                        ini' = [ini EXCEPT
                            ![i].at.transport = {}, ![i].at.peer = {},
                            ![i].at.read = 2,
                            ![i].at.sessions = @ \cup {SessionOf(f.key, t, ini[i].cert, c)}]
  BY DEF IniReceiveAck
<1>2. f \in frames /\ f.kind = "auth" /\ f.key \in Key
  BY FrameTypes DEF AuthFrames, TypeOK
<1>3. f.seq = 4 /\ f.key \in ini[i].at.transport
  BY <1>1 DEF Decrypts
<1>4. UNCHANGED <<res, frames, wrote, got>>
  BY DEF IniReceiveAck
<1>5. CASE ini[i].at.peer = {}
  <2>1. ini' = [ini EXCEPT ![i].at.read = 2]
    BY <1>1, <1>5
  <2>2. ini' \in [Initiators -> Initiator]
    <3> DEFINE a == [ini[i].at EXCEPT !.read = 2]
    <3>1. a \in Progress
      BY Objects, ReadLast
    <3>2. ini'[i] = [ini[i] EXCEPT !.at = a]
      BY <2>1, Objects
    <3>3. ini'[i] \in Initiator
      BY <3>1, <3>2, Objects DEF Initiator
    <3> QED  BY <2>1, <3>3, Objects
  <2>3. /\ \A j \in Initiators : j # i => ini'[j] = ini[j]
        /\ UNCHANGED <<ini[i].reconnect, ini[i].pid, ini[i].cert, ini[i].expected>>
        /\ UNCHANGED <<ini[i].phase, ini[i].at.transport, ini[i].at.sentAuth,
                       ini[i].at.sessions>>
        /\ UNCHANGED <<ini[i].at.peer, ini[i].at.transcript>>
        /\ ini'[i].at.read = 2
    BY <2>1 DEF TypeOK, Initiator, Progress
  <2>4. TypeOK' /\ IniOnly(i)
    BY <1>4, <2>2, <2>3 DEF TypeOK, IniOnly
  <2> QED  BY <1>2, <1>3, <1>4, <2>3, <2>4 DEF Acknowledged
<1>6. CASE ini[i].at.peer # {}
  <2>1. PICK c \in ini[i].at.peer, t \in ini[i].at.transcript :
          ini' = [ini EXCEPT
              ![i].at.transport = {}, ![i].at.peer = {}, ![i].at.read = 2,
              ![i].at.sessions = @ \cup {SessionOf(f.key, t, ini[i].cert, c)}]
    BY <1>1, <1>6
  <2> DEFINE s == SessionOf(f.key, t, ini[i].cert, c)
  <2>2. s \in Session
    <3>1. ini[i].cert \in Cert
      BY Objects DEF Initiator
    <3> QED  BY <1>3, <3>1, Objects, SessionTypes
  <2> HIDE DEF s
  <2>3. ini' = [ini EXCEPT ![i].at.transport = {}, ![i].at.peer = {}, ![i].at.read = 2,
                           ![i].at.sessions = @ \cup {s}]
    BY <2>1 DEF s
  <2>4. ini' \in [Initiators -> Initiator]
    <3> DEFINE a == [ini[i].at EXCEPT !.transport = {}, !.peer = {}, !.read = 2,
                                      !.sessions = @ \cup {s}]
    <3>1. a \in Progress
      BY <2>2, Objects, ReadLast
    <3>2. ini'[i] = [ini[i] EXCEPT !.at = a]
      BY <2>3, Objects
    <3>3. ini'[i] \in Initiator
      BY <3>1, <3>2, Objects DEF Initiator
    <3> QED  BY <2>3, <3>3, Objects
  <2>5. /\ \A j \in Initiators : j # i => ini'[j] = ini[j]
        /\ UNCHANGED <<ini[i].reconnect, ini[i].pid, ini[i].cert, ini[i].expected>>
        /\ UNCHANGED <<ini[i].phase, ini[i].at.sentAuth, ini[i].at.transcript>>
        /\ ini'[i].at.read = 2 /\ ini'[i].at.transport = {} /\ ini'[i].at.peer = {}
        /\ ini'[i].at.sessions = ini[i].at.sessions \cup {s}
    BY <2>3 DEF TypeOK, Initiator, Progress
  <2>6. TypeOK' /\ IniOnly(i)
    BY <1>4, <2>4, <2>5 DEF TypeOK, IniOnly
  <2>7. Acknowledged(i, f)
    BY <1>2, <1>3, <1>4, <2>5, <2>6 DEF Acknowledged, s
  <2> QED  BY <1>2, <2>7
<1> QED  BY <1>5, <1>6

(* A responder answers a start. *)
Replied(r, f, k) ==
    /\ TypeOK' /\ ResOnly(r)
    /\ f.kind = "start" /\ f.reconnect = res[r].reconnect
    /\ res[r].pid # {} => f.pid \in res[r].pid
    /\ k \in Key /\ k.ini = f.ini /\ k.res = r
    /\ res'[r].at = res[r].at
    /\ res'[r].handshake = {k} /\ res'[r].pid = {f.pid}
    /\ frames' = frames \cup {Reply(k, f)}

LEMMA Replying ==
  ASSUME TypeOK, NEW r \in Responders, ResReceiveStart(r)
  PROVE  \E f \in frames : \E k \in Key : Replied(r, f, k)
<1> DEFINE n == res[r].starts + 1
           K(f) == [ini |-> f.ini, res |-> r, start |-> n]
<1>1. PICK f \in frames :
         /\ f.kind = "start" /\ f.reconnect = res[r].reconnect
         /\ res[r].pid # {} => f.pid \in res[r].pid
         /\ res' = [res EXCEPT ![r].handshake = {K(f)}, ![r].starts = n, ![r].pid = {f.pid}]
         /\ frames' = frames \cup {Reply(K(f), f)}
  BY DEF ResReceiveStart
<1>2. f.ini \in Initiators /\ f.reconnect \in BOOLEAN /\ f.pid \in PairIds
  BY <1>1, FrameTypes DEF TypeOK
<1>3. n \in 1..MaxStarts /\ n \in 0..MaxStarts
  <2>1. res[r].starts < MaxStarts /\ res[r].starts \in 0..MaxStarts
    BY Objects DEF ResReceiveStart
  <2> QED  BY <2>1, StartsAssumption
<1> HIDE DEF n
<1>4. K(f) \in Key /\ K(f).ini = f.ini /\ K(f).res = r
  BY <1>2, <1>3 DEF Key
<1> HIDE DEF K
<1>5. res'[r] = [res[r] EXCEPT !.handshake = {K(f)}, !.starts = n, !.pid = {f.pid}]
  BY <1>1, Objects
<1>6. res'[r] \in Responder
  <2>1. {K(f)} \in SUBSET Key /\ {f.pid} \in SUBSET PairIds
    BY <1>2, <1>4
  <2> QED  BY <1>3, <1>5, <2>1, Objects DEF Responder
<1>7. res' \in [Responders -> Responder]
  BY <1>1, <1>6, Objects
<1>8. /\ \A q \in Responders : q # r => res'[q] = res[q]
      /\ UNCHANGED <<res[r].reconnect, res[r].cert, res[r].expected>>
      /\ res'[r].at = res[r].at /\ res'[r].handshake = {K(f)} /\ res'[r].pid = {f.pid}
  BY <1>1, <1>5, Objects DEF Responder
<1>9. Reply(K(f), f) \in Frame
  BY <1>2, <1>4 DEF Reply, Frame
<1>10. UNCHANGED <<ini, wrote, got>>
  BY DEF ResReceiveStart
<1>11. TypeOK' /\ ResOnly(r)
  BY <1>1, <1>7, <1>8, <1>9, <1>10 DEF TypeOK, ResOnly
<1>12. Replied(r, f, K(f))
  BY <1>1, <1>4, <1>8, <1>11 DEF Replied
<1> QED  BY <1>4, <1>12

(* A responder has its transport, and may verify the certificate that      *)
(* comes with the finish.                                                  *)
Joined(r, f, k) ==
    /\ TypeOK' /\ ResOnly(r)
    /\ k \in res[r].handshake /\ Finish(k) \in frames
    /\ res'[r].handshake = {} /\ res'[r].pid = res[r].pid
    /\ res'[r].at.transport = {k} /\ res'[r].at.sessions = res[r].at.sessions
    /\ \/ UNCHANGED <<res[r].at.peer, res[r].at.transcript, res[r].at.sentAuth, frames>>
       \/ \E c \in f.cert, pid \in res[r].pid :
          LET t == TranscriptOf(k, res[r], pid, c, res[r].cert) IN
          /\ f.kind = "auth" /\ f.key = k /\ f.seq = 1
          /\ Identifies(res[r], c, {x.initiator : x \in Context(res[r].pid)})
          /\ res'[r].at.peer = {c} /\ res'[r].at.transcript = {t}
          /\ frames' = frames \cup {Auth(k, 2, {res[r].cert}, {t})}

LEMMA EnteredTypes ==
  ASSUME NEW at \in Progress, NEW k \in Key
  PROVE  /\ [at EXCEPT !.transport = {k}, !.read = 0] \in Progress
         /\ [at EXCEPT !.transport = {k}, !.read = 1] \in Progress
         /\ \A c \in Cert, t \in Transcript :
              [at EXCEPT !.transport = {k}, !.read = 1, !.peer = {c}, !.transcript = {t},
                         !.sentAuth = TRUE] \in Progress
<1>1. 0 \in 0..2 /\ 1 \in 0..2
  OBVIOUS
<1>2. [at EXCEPT !.transport = {k}, !.read = 0] \in Progress
  BY <1>1 DEF Progress
<1>3. [at EXCEPT !.transport = {k}, !.read = 1] \in Progress
  BY <1>1 DEF Progress
<1>4. ASSUME NEW c \in Cert, NEW t \in Transcript
      PROVE  [at EXCEPT !.transport = {k}, !.read = 1, !.peer = {c}, !.transcript = {t},
                        !.sentAuth = TRUE] \in Progress
  BY <1>1 DEF Progress
<1> QED  BY <1>2, <1>3, <1>4

(* What holds of any object that enters the transport of k.                *)
LEMMA EnterTypes ==
  ASSUME TypeOK, NEW r \in Responders, NEW a \in Progress,
         res' = [res EXCEPT ![r] = [res[r] EXCEPT !.handshake = {}, !.at = a]]
  PROVE  /\ res' \in [Responders -> Responder]
         /\ \A q \in Responders : q # r => res'[q] = res[q]
         /\ UNCHANGED <<res[r].reconnect, res[r].pid, res[r].cert, res[r].expected>>
         /\ res'[r].handshake = {} /\ res'[r].at = a
<1>1. res'[r] = [res[r] EXCEPT !.handshake = {}, !.at = a]
  BY Objects
<1>2. res'[r] \in Responder
  BY <1>1, Objects DEF Responder
<1> QED  BY <1>1, <1>2, Objects DEF Responder

LEMMA Joining ==
  ASSUME TypeOK, NEW r \in Responders, ResReceiveFinish(r)
  PROVE  \E f \in frames : \E k \in Key : Joined(r, f, k)
<1> DEFINE E(k) == [res[r] EXCEPT !.handshake = {}, !.at.transport = {k}, !.at.read = 0]
           T(k, c, pid) == TranscriptOf(k, res[r], pid, c, res[r].cert)
           OK(c) == Identifies(res[r], c, {x.initiator : x \in Context(res[r].pid)})
           Reads(k, f) ==
              IF ~Decrypts(E(k).at, f, 1)
                  THEN res' = [res EXCEPT ![r] = E(k)] /\ frames' = frames
                  ELSE \E c \in f.cert, pid \in res[r].pid :
                       IF OK(c)
                           THEN /\ res' = [res EXCEPT ![r] =
                                      [E(k) EXCEPT !.at.read = 1, !.at.peer = {c},
                                          !.at.transcript = {T(k, c, pid)},
                                          !.at.sentAuth = TRUE]]
                                /\ frames' = frames \cup
                                      {Auth(k, 2, {res[r].cert}, {T(k, c, pid)})}
                           ELSE /\ res' = [res EXCEPT ![r] = [E(k) EXCEPT !.at.read = 1]]
                                /\ frames' = frames
<1>1. PICK k \in res[r].handshake : /\ Finish(k) \in frames
                                    /\ \E f \in AuthFrames : Reads(k, f)
  BY DEF ResReceiveFinish
<1>2. PICK f \in AuthFrames : Reads(k, f)
  BY <1>1
<1>3. /\ k \in Key /\ f \in frames /\ f.kind = "auth" /\ f.cert \in SUBSET Cert
      /\ res[r].cert \in Cert /\ res[r].pid \in SUBSET PairIds /\ res[r].reconnect \in BOOLEAN
  BY FrameTypes, Objects DEF AuthFrames, TypeOK
<1>4. UNCHANGED <<ini, wrote, got>>
  BY DEF ResReceiveFinish
<1> HIDE DEF OK
<1>5. CASE res' = [res EXCEPT ![r] = E(k)] /\ frames' = frames
  <2> DEFINE a == [res[r].at EXCEPT !.transport = {k}, !.read = 0]
  <2>1. a \in Progress
    BY <1>3, Objects, EnteredTypes
  <2>2. E(k) = [res[r] EXCEPT !.handshake = {}, !.at = a]
    BY Objects DEF Responder, Progress
  <2>3. /\ a.transport = {k} /\ a.sessions = res[r].at.sessions
        /\ a.peer = res[r].at.peer /\ a.transcript = res[r].at.transcript
        /\ a.sentAuth = res[r].at.sentAuth
    BY Objects DEF Progress
  <2> HIDE DEF a
  <2>4. /\ res' \in [Responders -> Responder]
        /\ \A q \in Responders : q # r => res'[q] = res[q]
        /\ UNCHANGED <<res[r].reconnect, res[r].pid, res[r].cert, res[r].expected>>
        /\ res'[r].handshake = {} /\ res'[r].at = a
    BY <1>5, <2>1, <2>2, EnterTypes
  <2>5. TypeOK' /\ ResOnly(r)
    BY <1>4, <1>5, <2>4 DEF TypeOK, ResOnly
  <2>6. Joined(r, f, k)
    BY <1>1, <1>5, <2>3, <2>4, <2>5 DEF Joined
  <2> QED  BY <1>3, <2>6
<1>6. CASE res' = [res EXCEPT ![r] = [E(k) EXCEPT !.at.read = 1]] /\ frames' = frames
  <2> DEFINE a == [res[r].at EXCEPT !.transport = {k}, !.read = 1]
  <2>1. a \in Progress
    BY <1>3, Objects, EnteredTypes
  <2>2. [E(k) EXCEPT !.at.read = 1] = [res[r] EXCEPT !.handshake = {}, !.at = a]
    BY Objects DEF Responder, Progress
  <2>3. /\ a.transport = {k} /\ a.sessions = res[r].at.sessions
        /\ a.peer = res[r].at.peer /\ a.transcript = res[r].at.transcript
        /\ a.sentAuth = res[r].at.sentAuth
    BY Objects DEF Progress
  <2> HIDE DEF a
  <2>4. /\ res' \in [Responders -> Responder]
        /\ \A q \in Responders : q # r => res'[q] = res[q]
        /\ UNCHANGED <<res[r].reconnect, res[r].pid, res[r].cert, res[r].expected>>
        /\ res'[r].handshake = {} /\ res'[r].at = a
    BY <1>6, <2>1, <2>2, EnterTypes
  <2>5. TypeOK' /\ ResOnly(r)
    BY <1>4, <1>6, <2>4 DEF TypeOK, ResOnly
  <2>6. Joined(r, f, k)
    BY <1>1, <1>6, <2>3, <2>4, <2>5 DEF Joined
  <2> QED  BY <1>3, <2>6
<1>7. ASSUME Decrypts(E(k).at, f, 1), NEW c \in f.cert, NEW pid \in res[r].pid, OK(c),
             res' = [res EXCEPT ![r] = [E(k) EXCEPT !.at.read = 1, !.at.peer = {c},
                                   !.at.transcript = {T(k, c, pid)}, !.at.sentAuth = TRUE]],
             frames' = frames \cup {Auth(k, 2, {res[r].cert}, {T(k, c, pid)})}
      PROVE  Joined(r, f, k)
  <2> DEFINE t == T(k, c, pid)
             a == [res[r].at EXCEPT !.transport = {k}, !.read = 1, !.peer = {c},
                                    !.transcript = {t}, !.sentAuth = TRUE]
  <2>1. c \in Cert /\ pid \in PairIds /\ t \in Transcript
    BY <1>3 DEF TranscriptOf, Transcript
  <2>2. t = TranscriptOf(k, res[r], pid, c, res[r].cert)
    OBVIOUS
  <2> HIDE DEF t, T
  <2>3. a \in Progress
    BY <1>3, <2>1, Objects, EnteredTypes
  <2>4. [E(k) EXCEPT !.at.read = 1, !.at.peer = {c}, !.at.transcript = {t},
                     !.at.sentAuth = TRUE] = [res[r] EXCEPT !.handshake = {}, !.at = a]
    <3> DEFINE b == [res[r].at EXCEPT !.transport = {k}, !.read = 0]
    <3>1. b \in Progress
      BY <1>3, Objects, EnteredTypes
    <3>2. E(k) = [res[r] EXCEPT !.handshake = {}, !.at = b]
      BY Objects DEF Responder, Progress
    <3>3. a = [b EXCEPT !.read = 1, !.peer = {c}, !.transcript = {t}, !.sentAuth = TRUE]
      BY Objects DEF Progress
    <3> HIDE DEF a, b, E
    <3> QED  BY <3>1, <3>2, <3>3, Objects DEF Responder
  <2>5. /\ a.transport = {k} /\ a.sessions = res[r].at.sessions
        /\ a.peer = {c} /\ a.transcript = {t}
    BY Objects DEF Progress
  <2> HIDE DEF a
  <2>6. res' = [res EXCEPT ![r] = [res[r] EXCEPT !.handshake = {}, !.at = a]]
    BY <1>7, <2>4 DEF t
  <2>7. /\ res' \in [Responders -> Responder]
        /\ \A q \in Responders : q # r => res'[q] = res[q]
        /\ UNCHANGED <<res[r].reconnect, res[r].pid, res[r].cert, res[r].expected>>
        /\ res'[r].handshake = {} /\ res'[r].at = a
    BY <2>3, <2>6, EnterTypes
  <2>8. f.key = k /\ f.seq = 1
    <3>1. E(k).at.transport = {k}
      BY Objects DEF Responder, Progress
    <3> HIDE DEF E
    <3> QED  BY <1>7, <3>1 DEF Decrypts
  <2>9. frames' = frames \cup {Auth(k, 2, {res[r].cert}, {t})}
    BY <1>7 DEF t
  <2>10. Auth(k, 2, {res[r].cert}, {t}) \in Frame
    BY <1>3, <2>1, FrameTypes
  <2>11. TypeOK' /\ ResOnly(r)
    BY <1>4, <2>7, <2>9, <2>10 DEF TypeOK, ResOnly
  <2>12. /\ Identifies(res[r], c, {x.initiator : x \in Context(res[r].pid)})
         /\ res'[r].at.peer = {c} /\ res'[r].at.transcript = {t}
         /\ res'[r].at.transport = {k} /\ res'[r].at.sessions = res[r].at.sessions
    BY <1>7, <2>5, <2>7 DEF OK
  <2> QED  BY <1>1, <1>3, <2>2, <2>7, <2>8, <2>9, <2>11, <2>12 DEF Joined
<1>8. \/ res' = [res EXCEPT ![r] = E(k)] /\ frames' = frames
      \/ res' = [res EXCEPT ![r] = [E(k) EXCEPT !.at.read = 1]] /\ frames' = frames
      \/ Joined(r, f, k)
  <2> HIDE DEF E, T
  <2> QED  BY <1>2, <1>7
<1> QED  BY <1>3, <1>5, <1>6, <1>8

(* A responder reads the proof of the initiator, and exposes the session   *)
(* if the proof is over its transcript.                                    *)
Verified(r, f) ==
    /\ TypeOK' /\ ResOnly(r)
    /\ f.kind = "auth" /\ f.key \in res[r].at.transport /\ f.seq = 3
    /\ UNCHANGED <<res[r].handshake, res[r].pid, res[r].at.peer, res[r].at.transcript>>
    /\ \/ UNCHANGED <<frames, res[r].at.transport, res[r].at.sessions>>
       \/ /\ f.signed = res[r].at.transcript
          /\ res'[r].at.transport = {}
          /\ \E c \in res[r].at.peer, t \in res[r].at.transcript :
                res'[r].at.sessions =
                    res[r].at.sessions \cup {SessionOf(f.key, t, res[r].cert, c)}
          /\ frames' = frames \cup {Auth(f.key, 4, {}, {})}

LEMMA Verifying ==
  ASSUME TypeOK, NEW r \in Responders, ResReceiveAuth(r)
  PROVE  \E f \in frames : Verified(r, f)
<1>1. PICK f \in AuthFrames :
         /\ Decrypts(res[r].at, f, 3)
         /\ IF f.signed = res[r].at.transcript
                THEN \E c \in res[r].at.peer, t \in res[r].at.transcript :
                     /\ res' = [res EXCEPT
                            ![r].at.transport = {}, ![r].at.read = 2,
                            ![r].at.sessions = @ \cup {SessionOf(f.key, t, res[r].cert, c)}]
                     /\ frames' = frames \cup {Auth(f.key, 4, {}, {})}
                ELSE /\ res' = [res EXCEPT ![r].at.read = 2]
                     /\ frames' = frames
  BY DEF ResReceiveAuth
<1>2. f \in frames /\ f.kind = "auth" /\ f.key \in Key
  BY FrameTypes DEF AuthFrames, TypeOK
<1>3. f.seq = 3 /\ f.key \in res[r].at.transport
  BY <1>1 DEF Decrypts
<1>4. UNCHANGED <<ini, wrote, got>>
  BY DEF ResReceiveAuth
<1>5. CASE f.signed # res[r].at.transcript
  <2>1. res' = [res EXCEPT ![r].at.read = 2] /\ frames' = frames
    BY <1>1, <1>5
  <2>2. res' \in [Responders -> Responder]
    <3> DEFINE a == [res[r].at EXCEPT !.read = 2]
    <3>1. a \in Progress
      BY Objects, ReadLast
    <3>2. res'[r] = [res[r] EXCEPT !.at = a]
      BY <2>1, Objects
    <3>3. res'[r] \in Responder
      BY <3>1, <3>2, Objects DEF Responder
    <3> QED  BY <2>1, <3>3, Objects
  <2>3. /\ \A q \in Responders : q # r => res'[q] = res[q]
        /\ UNCHANGED <<res[r].reconnect, res[r].cert, res[r].expected>>
        /\ UNCHANGED <<res[r].handshake, res[r].pid, res[r].at.peer, res[r].at.transcript>>
        /\ UNCHANGED <<res[r].at.transport, res[r].at.sessions>>
    BY <2>1 DEF TypeOK, Responder, Progress
  <2>4. TypeOK' /\ ResOnly(r)
    BY <1>4, <2>1, <2>2, <2>3 DEF TypeOK, ResOnly
  <2>5. Verified(r, f)
    BY <1>2, <1>3, <2>1, <2>3, <2>4 DEF Verified
  <2> QED  BY <1>2, <2>5
<1>6. CASE f.signed = res[r].at.transcript
  <2>1. PICK c \in res[r].at.peer, t \in res[r].at.transcript :
          /\ res' = [res EXCEPT ![r].at.transport = {}, ![r].at.read = 2,
                 ![r].at.sessions = @ \cup {SessionOf(f.key, t, res[r].cert, c)}]
          /\ frames' = frames \cup {Auth(f.key, 4, {}, {})}
    BY <1>1, <1>6
  <2> DEFINE s == SessionOf(f.key, t, res[r].cert, c)
  <2>2. s \in Session
    <3>1. res[r].cert \in Cert
      BY Objects DEF Responder
    <3> QED  BY <1>3, <3>1, Objects, SessionTypes
  <2> HIDE DEF s
  <2>3. res' = [res EXCEPT ![r].at.transport = {}, ![r].at.read = 2,
                           ![r].at.sessions = @ \cup {s}]
    BY <2>1 DEF s
  <2>4. res' \in [Responders -> Responder]
    <3> DEFINE a == [res[r].at EXCEPT !.transport = {}, !.read = 2, !.sessions = @ \cup {s}]
    <3>1. a \in Progress
      BY <2>2, Objects, ReadLast
    <3>2. res'[r] = [res[r] EXCEPT !.at = a]
      BY <2>3, Objects
    <3>3. res'[r] \in Responder
      BY <3>1, <3>2, Objects DEF Responder
    <3> QED  BY <2>3, <3>3, Objects
  <2>5. /\ \A q \in Responders : q # r => res'[q] = res[q]
        /\ UNCHANGED <<res[r].reconnect, res[r].cert, res[r].expected>>
        /\ UNCHANGED <<res[r].handshake, res[r].pid, res[r].at.peer, res[r].at.transcript>>
        /\ res'[r].at.transport = {}
        /\ res'[r].at.sessions = res[r].at.sessions \cup {s}
    BY <2>3 DEF TypeOK, Responder, Progress
  <2>6. Auth(f.key, 4, {}, {}) \in Frame
    BY <1>2, FrameTypes
  <2>7. TypeOK' /\ ResOnly(r)
    BY <1>4, <2>1, <2>4, <2>5, <2>6 DEF TypeOK, ResOnly
  <2>8. Verified(r, f)
    BY <1>2, <1>3, <1>6, <2>1, <2>5, <2>7 DEF Verified, s
  <2> QED  BY <1>2, <2>8
<1> QED  BY <1>5, <1>6

(* Payloads are appended.                                                  *)
Sealed(e) ==
    /\ TypeOK' /\ UNCHANGED <<ini, res, frames, got>>
    /\ SessionsAt(e) # {}
    /\ \E p \in Encrypted : wrote' = [wrote EXCEPT ![e] = Append(wrote[e], p)]

LEMMA Sealing ==
  ASSUME TypeOK, NEW e \in End, Encrypt(e)
  PROVE  Sealed(e)
<1>1. PICK fits \in BOOLEAN : wrote' = [wrote EXCEPT ![e] =
                                  Append(@, [payload |-> NextPayload, sent |-> fits])]
  BY DEF Encrypt
<1> DEFINE p == [payload |-> NextPayload, sent |-> fits]
<1>2. p \in Encrypted
  BY DEF Encrypt, Encrypted
<1> HIDE DEF p
<1>3. wrote' = [wrote EXCEPT ![e] = Append(wrote[e], p)]
  BY <1>1 DEF p
<1>4. wrote' \in [End -> Seq(Encrypted)]
  BY <1>2, <1>3 DEF TypeOK
<1> QED  BY <1>2, <1>3, <1>4 DEF Sealed, TypeOK, Encrypt

Opened(e) ==
    LET n == Len(got[e]) + 1 IN
    /\ TypeOK' /\ UNCHANGED <<ini, res, frames, wrote>>
    /\ SessionsAt(e) # {}
    /\ n \in 1..Len(wrote[Peer(e)]) /\ wrote[Peer(e)][n].sent
    /\ got' = [got EXCEPT ![e] = Append(got[e], wrote[Peer(e)][n].payload)]

LEMMA Opening ==
  ASSUME TypeOK, NEW e \in End, Decrypt(e)
  PROVE  Opened(e)
<1> DEFINE n == Len(got[e]) + 1
<1>1. PICK f \in TransportFrames :
         /\ f.end.role # e.role /\ f.end.key = e.key /\ f.seq = n
         /\ got' = [got EXCEPT ![e] = Append(@, f.payload)]
  BY DEF Decrypt
<1>2. PICK d \in End : f \in {[end |-> d, seq |-> m, payload |-> wrote[d][m].payload] :
                                m \in {x \in DOMAIN wrote[d] : wrote[d][x].sent}}
  BY DEF TransportFrames
<1>3. PICK m \in DOMAIN wrote[d] :
         wrote[d][m].sent /\ f = [end |-> d, seq |-> m, payload |-> wrote[d][m].payload]
  BY <1>2
<1>4. d = Peer(e) /\ m = n
  BY <1>1, <1>3, Others
<1>5. wrote[d] \in Seq(Encrypted) /\ DOMAIN wrote[d] = 1..Len(wrote[d])
  BY DEF TypeOK
<1>6. wrote[d][m] \in Encrypted
  BY <1>3, <1>5
<1>7. wrote[d][m].payload \in Payload
  BY <1>6 DEF Encrypted
<1>8. got' = [got EXCEPT ![e] = Append(got[e], wrote[d][m].payload)]
  BY <1>1, <1>3
<1>9. got' \in [End -> Seq(Payload)]
  BY <1>7, <1>8 DEF TypeOK
<1>10. n \in 1..Len(wrote[Peer(e)]) /\ wrote[Peer(e)][n].sent
  BY <1>3, <1>4, <1>5
<1>11. TypeOK' /\ UNCHANGED <<ini, res, frames, wrote>> /\ SessionsAt(e) # {}
  BY <1>9 DEF TypeOK, Decrypt
<1> QED  BY <1>4, <1>8, <1>10, <1>11 DEF Opened

(* Every step is one of these. *)
LEMMA Steps ==
  ASSUME TypeOK, Next
  PROVE  \/ \E i \in Initiators :
               \/ Started(i)
               \/ \E f \in frames : Finished(i, f)
               \/ \E f \in frames, c \in Cert : Answered(i, f, c)
               \/ \E f \in frames : Acknowledged(i, f)
         \/ \E r \in Responders :
               \/ \E f \in frames, k \in Key : Replied(r, f, k)
               \/ \E f \in frames, k \in Key : Joined(r, f, k)
               \/ \E f \in frames : Verified(r, f)
         \/ \E e \in End : Sealed(e) \/ Opened(e)
<1>1. CASE \E i \in Initiators : IniStep(i)
  BY <1>1, Starting, Finishing, Answering, Acknowledging DEF IniStep
<1>2. CASE \E r \in Responders : ResStep(r)
  BY <1>2, Replying, Joining, Verifying DEF ResStep
<1>3. CASE \E e \in End : Encrypt(e) \/ Decrypt(e)
  BY <1>3, Sealing, Opening
<1> QED  BY <1>1, <1>2, <1>3 DEF Next

(* TypeOK: the objects, frames and sessions keep their shape.              *)
LEMMA TypeStep == TypeOK /\ [Next]_vars => TypeOK'
<1> SUFFICES ASSUME TypeOK, [Next]_vars PROVE TypeOK'
  OBVIOUS
<1>1. CASE Next
  <2>1. \A i \in Initiators : Started(i) => TypeOK'
    BY DEF Started
  <2>2. \A i \in Initiators, f \in frames : Finished(i, f) => TypeOK'
    BY DEF Finished
  <2>3. \A i \in Initiators, f \in frames, c \in Cert : Answered(i, f, c) => TypeOK'
    BY DEF Answered
  <2>4. \A i \in Initiators, f \in frames : Acknowledged(i, f) => TypeOK'
    BY DEF Acknowledged
  <2>5. \A r \in Responders, f \in frames, k \in Key : Replied(r, f, k) => TypeOK'
    BY DEF Replied
  <2>6. \A r \in Responders, f \in frames, k \in Key : Joined(r, f, k) => TypeOK'
    BY DEF Joined
  <2>7. \A r \in Responders, f \in frames : Verified(r, f) => TypeOK'
    BY DEF Verified
  <2>8. \A e \in End : Sealed(e) \/ Opened(e) => TypeOK'
    BY DEF Sealed, Opened
  <2> QED  BY <1>1, <2>1, <2>2, <2>3, <2>4, <2>5, <2>6, <2>7, <2>8, Steps
<1>2. CASE UNCHANGED vars
  BY <1>2 DEF vars, TypeOK
<1> QED  BY <1>1, <1>2

THEOREM TypeCorrect == Spec => []TypeOK
BY TypeInit, TypeStep, PTL DEF Spec

-----------------------------------------------------------------------------
(* What never goes back.                                                   *)
Grows ==
    /\ frames \subseteq frames'
    /\ \A i \in Initiators :
          /\ UNCHANGED <<ini[i].reconnect, ini[i].pid, ini[i].cert, ini[i].expected>>
          /\ ini[i].phase = "done" => ini'[i].phase = "done"
          /\ ini[i].at.transcript = {} \/ ini'[i].at.transcript = ini[i].at.transcript
          /\ ini[i].at.sessions \subseteq ini'[i].at.sessions
    /\ \A r \in Responders :
          /\ UNCHANGED <<res[r].reconnect, res[r].cert, res[r].expected>>
          /\ res[r].pid = {} \/ res'[r].pid = res[r].pid
          /\ res[r].at.sessions \subseteq res'[r].at.sessions

LEMMA KeyTypes ==
  /\ \A k \in Key : k.ini \in Initiators /\ k.res \in Responders
  /\ \A at \in Progress :
        /\ \A k \in at.transport : k \in Key
        /\ \A t \in at.transcript : t.key \in Key
        /\ \A s \in at.sessions : s.key \in Key
  /\ \A k, o, pid, c, d : TranscriptOf(k, o, pid, c, d).key = k
  /\ \A k, t, c, d : SessionOf(k, t, c, d).key = k /\ SessionOf(k, t, c, d).binding = t
<1>1. \A k \in Key : k.ini \in Initiators /\ k.res \in Responders
  BY DEF Key
<1>2. ASSUME NEW at \in Progress
      PROVE  /\ \A k \in at.transport : k \in Key
             /\ \A t \in at.transcript : t.key \in Key
             /\ \A s \in at.sessions : s.key \in Key
  <2>1. /\ at.transport \in SUBSET Key /\ at.transcript \in SUBSET Transcript
        /\ at.sessions \in SUBSET Session
    BY DEF Progress
  <2> QED  BY <2>1 DEF Transcript, Session
<1>3. \A k, o, pid, c, d : TranscriptOf(k, o, pid, c, d).key = k
  BY DEF TranscriptOf
<1>4. \A k, t, c, d : SessionOf(k, t, c, d).key = k /\ SessionOf(k, t, c, d).binding = t
  BY DEF SessionOf
<1> QED  BY <1>1, <1>2, <1>3, <1>4

(* Every step grows. *)
LEMMA Growing ==
  ASSUME TypeOK, PidInv, IniInv, [Next]_vars
  PROVE  Grows
<1>1. ASSUME NEW i \in Initiators, Started(i)
      PROVE  Grows
  BY <1>1 DEF Started, IniOnly, Grows
<1>2. ASSUME NEW i \in Initiators, NEW f \in frames, Finished(i, f)
      PROVE  Grows
  BY <1>2 DEF Finished, IniOnly, Grows
<1>3. ASSUME NEW i \in Initiators, NEW f \in frames, NEW c \in Cert, Answered(i, f, c)
      PROVE  Grows
  <2>1. ini[i].at.transcript = {}
    BY <1>3 DEF Answered, IniInv, IniReached
  <2>2. frames \subseteq frames'
    BY <1>3 DEF Answered
  <2>3. /\ IniOnly(i) /\ ini'[i].phase = ini[i].phase
        /\ ini'[i].at.sessions = ini[i].at.sessions
    BY <1>3 DEF Answered
  <2> QED  BY <2>1, <2>2, <2>3 DEF IniOnly, Grows
<1>4. ASSUME NEW i \in Initiators, NEW f \in frames, Acknowledged(i, f)
      PROVE  Grows
  BY <1>4 DEF Acknowledged, IniOnly, Grows
<1>5. ASSUME NEW r \in Responders, NEW f \in frames, NEW k \in Key, Replied(r, f, k)
      PROVE  Grows
  <2>1. res[r].pid = {} \/ res'[r].pid = res[r].pid
    BY <1>5 DEF Replied, PidInv
  <2>2. /\ frames \subseteq frames' /\ ResOnly(r)
        /\ res'[r].at.sessions = res[r].at.sessions
    BY <1>5 DEF Replied
  <2> QED  BY <2>1, <2>2 DEF ResOnly, Grows
<1>6. ASSUME NEW r \in Responders, NEW f \in frames, NEW k \in Key, Joined(r, f, k)
      PROVE  Grows
  <2>1. /\ frames \subseteq frames' /\ ResOnly(r) /\ res'[r].pid = res[r].pid
        /\ res'[r].at.sessions = res[r].at.sessions
    BY <1>6 DEF Joined
  <2> QED  BY <2>1 DEF ResOnly, Grows
<1>7. ASSUME NEW r \in Responders, NEW f \in frames, Verified(r, f)
      PROVE  Grows
  <2>1. /\ frames \subseteq frames' /\ ResOnly(r) /\ res'[r].pid = res[r].pid
        /\ res[r].at.sessions \subseteq res'[r].at.sessions
    BY <1>7 DEF Verified
  <2> QED  BY <2>1 DEF ResOnly, Grows
<1>8. ASSUME UNCHANGED <<ini, res, frames>>
      PROVE  Grows
  BY <1>8 DEF Grows
<1>9. ASSUME NEW e \in End, Sealed(e) \/ Opened(e)
      PROVE  Grows
  BY <1>8, <1>9 DEF Sealed, Opened
<1>10. CASE UNCHANGED vars
  BY <1>8, <1>10 DEF vars
<1>11. CASE Next
  BY <1>1, <1>2, <1>3, <1>4, <1>5, <1>6, <1>7, <1>9, <1>11, Steps
<1> QED  BY <1>10, <1>11

(* What belongs to a key stays what it is. *)
LEMMA Lasting ==
  ASSUME TypeOK, Grows, NEW k \in Key
  PROVE  /\ Due(k)' = Due(k)
         /\ IniAccepts(k)' <=> IniAccepts(k)
         /\ ResAccepts(k)' <=> ResAccepts(k)
         /\ Fits(k) => Fits(k)'
<1>1. /\ k.ini \in Initiators /\ k.res \in Responders
  BY KeyTypes
<1>2. /\ UNCHANGED <<ini[k.ini].reconnect, ini[k.ini].pid, ini[k.ini].cert,
                     ini[k.ini].expected>>
      /\ UNCHANGED <<res[k.res].reconnect, res[k.res].cert, res[k.res].expected>>
      /\ res[k.res].pid = {} \/ res'[k.res].pid = res[k.res].pid
  BY <1>1 DEF Grows
<1>3. Due(k)' = Due(k)
  BY <1>2 DEF Due, TranscriptOf
<1>4. IniAccepts(k)' <=> IniAccepts(k)
  BY <1>2 DEF IniAccepts, Identifies, Valid
<1>5. ResAccepts(k)' <=> ResAccepts(k)
  BY <1>2 DEF ResAccepts, Identifies, Valid
<1>6. Fits(k) => Fits(k)'
  BY <1>2 DEF Fits
<1> QED  BY <1>3, <1>4, <1>5, <1>6

(* What is known of a frame remains so. *)
LEMMA StaysKnown ==
  ASSUME TypeOK, Grows, NEW f \in frames, Known(f)
  PROVE  Known(f)'
<1>1. f.kind = "start" => Known(f)'
  <2> SUFFICES ASSUME f.kind = "start" PROVE Known(f)'
    OBVIOUS
  <2>1. f.ini \in Initiators
    BY FrameTypes DEF TypeOK
  <2> QED  BY <2>1 DEF Known, Grows
<1>2. f.kind # "start" => f.key \in Key
  BY FrameTypes DEF TypeOK, Frame
<1>3. ASSUME f.kind # "start"
      PROVE  Known(f)'
  <2>1. f.key \in Key /\ f.key.ini \in Initiators /\ f.key.res \in Responders
    BY <1>2, <1>3, KeyTypes
  <2>2. /\ Due(f.key)' = Due(f.key) /\ (ResAccepts(f.key)' <=> ResAccepts(f.key))
        /\ Fits(f.key) => Fits(f.key)'
    BY <2>1, Lasting
  <2>3. /\ ini[f.key.ini].phase = "done" => ini'[f.key.ini].phase = "done"
        /\ ini'[f.key.ini].cert = ini[f.key.ini].cert
        /\ res'[f.key.res].cert = res[f.key.res].cert
        /\ \/ ini[f.key.ini].at.transcript = {}
           \/ ini'[f.key.ini].at.transcript = ini[f.key.ini].at.transcript
        /\ res[f.key.res].at.sessions \subseteq res'[f.key.res].at.sessions
        /\ frames \subseteq frames'
    BY <2>1 DEF Grows
  <2>4. f.kind = "reply" => Fits(f.key)'
    BY <2>2 DEF Known
  <2>5. f.kind = "finish" => Fits(f.key)' /\ ini'[f.key.ini].phase = "done"
    BY <2>2, <2>3 DEF Known
  <2>6. ASSUME f.kind = "auth"
        PROVE  /\ Finish(f.key) \in frames'
               /\ f.seq = 1 => f.cert = {ini'[f.key.ini].cert}
               /\ f.seq = 2 => /\ f.cert = {res'[f.key.res].cert}
                               /\ f.signed = {Due(f.key)'}
                               /\ ResAccepts(f.key)'
               /\ f.seq = 3 => /\ f.signed = {Due(f.key)'}
                               /\ ini'[f.key.ini].at.transcript = {Due(f.key)'}
               /\ f.seq = 4 => \E s \in res'[f.key.res].at.sessions : s.key = f.key
    BY <2>2, <2>3, <2>6 DEF Known, Finish
  <2>7. Finish(f.key)' = Finish(f.key)
    BY DEF Finish
  <2> QED  BY <1>3, <2>4, <2>5, <2>6, <2>7 DEF Known
<1> QED  BY <1>1, <1>3

(* What an object has verified and exposed remains so, until it verifies   *)
(* or exposes more.                                                        *)
LEMMA IniLasting ==
  ASSUME TypeOK, Grows, NEW i \in Initiators
  PROVE  /\ IniReached(i) /\ UNCHANGED <<ini[i].at.transport, ini[i].at.sentAuth>>
               /\ (ini'[i].at.read # 0 \/ UNCHANGED <<ini[i].at.read, ini[i].at.transcript,
                                                      ini[i].at.peer>>)
               => IniReached(i)'
         /\ IniVerified(i) /\ UNCHANGED ini[i].at.transcript
               /\ ini'[i].at.peer \subseteq ini[i].at.peer => IniVerified(i)'
         /\ IniExposed(i) /\ UNCHANGED ini[i].at.sessions => IniExposed(i)'
<1>1. /\ ini[i].phase = "done" => ini'[i].phase = "done"
      /\ ini'[i].cert = ini[i].cert
      /\ ini[i].at.transcript = {} \/ ini'[i].at.transcript = ini[i].at.transcript
      /\ frames \subseteq frames'
  BY DEF Grows
<1>2. ASSUME IniReached(i), UNCHANGED <<ini[i].at.transport, ini[i].at.sentAuth>>,
             \/ ini'[i].at.read # 0
             \/ UNCHANGED <<ini[i].at.read, ini[i].at.transcript, ini[i].at.peer>>
      PROVE  IniReached(i)'
  BY <1>1, <1>2 DEF IniReached, Finish
<1>3. ASSUME IniVerified(i), UNCHANGED ini[i].at.transcript,
             ini'[i].at.peer \subseteq ini[i].at.peer
      PROVE  IniVerified(i)'
  <2>1. ASSUME NEW t \in ini[i].at.transcript
        PROVE  /\ t.key.ini = i /\ Finish(t.key) \in frames' /\ t = Due(t.key)'
               /\ IniAccepts(t.key)' /\ ResAccepts(t.key)'
    <3>1. t.key \in Key
      BY Objects, KeyTypes
    <3> QED  BY <1>1, <1>3, <3>1, Lasting DEF IniVerified
  <2>2. ASSUME NEW t \in ini[i].at.transcript
        PROVE  res'[t.key.res].cert = res[t.key.res].cert
    <3>1. t.key.res \in Responders
      BY Objects, KeyTypes
    <3> QED  BY <3>1 DEF Grows
  <2>3. \A t \in ini'[i].at.transcript :
          /\ t.key.ini = i /\ Finish(t.key)' \in frames' /\ t = Due(t.key)'
          /\ IniAccepts(t.key)' /\ ResAccepts(t.key)'
    BY <1>3, <2>1 DEF Finish
  <2>4. \A c \in ini'[i].at.peer, t \in ini'[i].at.transcript : c = res'[t.key.res].cert
    BY <1>3, <2>2 DEF IniVerified
  <2> QED  BY <2>3, <2>4 DEF IniVerified
<1>4. ASSUME IniExposed(i), UNCHANGED ini[i].at.sessions
      PROVE  IniExposed(i)'
  <2>1. ASSUME NEW s \in ini[i].at.sessions
        PROVE  /\ s.key.ini = i /\ s.binding \in ini'[i].at.transcript
               /\ s = SessionOf(s.key, Due(s.key)', ini'[i].cert, res'[s.key.res].cert)
               /\ \E u \in res'[s.key.res].at.sessions : u.key = s.key
    <3>1. s.key \in Key /\ s.key.res \in Responders
      BY Objects, KeyTypes
    <3>2. /\ res'[s.key.res].cert = res[s.key.res].cert
          /\ res[s.key.res].at.sessions \subseteq res'[s.key.res].at.sessions
      BY <3>1 DEF Grows
    <3>3. Due(s.key)' = Due(s.key)
      BY <3>1, Lasting
    <3> QED  BY <1>1, <1>4, <3>2, <3>3 DEF IniExposed
  <2> QED  BY <1>4, <2>1 DEF IniExposed, SessionOf
<1> QED  BY <1>2, <1>3, <1>4

LEMMA ResLasting ==
  ASSUME TypeOK, Grows, NEW r \in Responders
  PROVE  /\ ResReached(r) /\ UNCHANGED <<res[r].handshake, res[r].at.transport>>
               => ResReached(r)'
         /\ ResVerified(r) /\ UNCHANGED <<res[r].at.peer, res[r].at.transcript>>
               => ResVerified(r)'
         /\ ResExposed(r) /\ UNCHANGED res[r].at.sessions => ResExposed(r)'
<1>1. res'[r].cert = res[r].cert /\ frames \subseteq frames'
  BY DEF Grows
<1>2. ASSUME ResReached(r), UNCHANGED <<res[r].handshake, res[r].at.transport>>
      PROVE  ResReached(r)'
  <2>1. \A k \in res[r].handshake : k \in Key
    BY Objects DEF Responder
  <2>2. \A k \in res[r].handshake : Fits(k)'
    BY <1>2, <2>1, Lasting DEF ResReached
  <2> QED  BY <1>1, <1>2, <2>2 DEF ResReached, Finish
<1>3. ASSUME ResVerified(r), UNCHANGED <<res[r].at.peer, res[r].at.transcript>>
      PROVE  ResVerified(r)'
  <2>1. ASSUME NEW t \in res[r].at.transcript
        PROVE  /\ t.key.res = r /\ Finish(t.key)' \in frames' /\ t = Due(t.key)'
               /\ ResAccepts(t.key)' /\ ini'[t.key.ini].cert = ini[t.key.ini].cert
    <3>1. t.key \in Key /\ t.key.ini \in Initiators
      BY Objects, KeyTypes
    <3>2. ini'[t.key.ini].cert = ini[t.key.ini].cert
      BY <3>1 DEF Grows
    <3> QED  BY <1>1, <1>3, <3>1, <3>2, Lasting DEF ResVerified, Finish
  <2> QED  BY <1>3, <2>1 DEF ResVerified
<1>4. ASSUME ResExposed(r), UNCHANGED res[r].at.sessions
      PROVE  ResExposed(r)'
  <2>1. ASSUME NEW s \in res[r].at.sessions
        PROVE  /\ s.key.res = r /\ Finish(s.key)' \in frames'
               /\ s = SessionOf(s.key, Due(s.key)', res'[r].cert, ini'[s.key.ini].cert)
               /\ ini'[s.key.ini].at.transcript = {Due(s.key)'}
    <3>1. s.key \in Key /\ s.key.ini \in Initiators
      BY Objects, KeyTypes
    <3>2. /\ ini'[s.key.ini].cert = ini[s.key.ini].cert
          /\ \/ ini[s.key.ini].at.transcript = {}
             \/ ini'[s.key.ini].at.transcript = ini[s.key.ini].at.transcript
      BY <3>1 DEF Grows
    <3>3. Due(s.key)' = Due(s.key)
      BY <3>1, Lasting
    <3> QED  BY <1>1, <1>4, <3>2, <3>3 DEF ResExposed, Finish
  <2> QED  BY <1>4, <2>1 DEF ResExposed, SessionOf
<1> QED  BY <1>2, <1>3, <1>4

-----------------------------------------------------------------------------
(* The invariant holds of every step.                                      *)
LEMMA FramesAdded ==
  ASSUME TypeOK, Grows, FrameInv, \A f \in frames' : f \in frames \/ Known(f)'
  PROVE  FrameInv'
BY StaysKnown DEF FrameInv

LEMMA NoFinish ==
  ASSUME FinishInv, \A f \in frames' : f \in frames \/ f.kind # "finish"
  PROVE  FinishInv'
<1>1. \A k \in Key : Finish(k) \in frames' => Finish(k) \in frames
  BY DEF Finish
<1> QED  BY <1>1 DEF FinishInv, Finish

(* The other initiators, and all responders, are as they were. *)
LEMMA IniSteps ==
  ASSUME CoreInv, Grows, NEW i \in Initiators, IniOnly(i),
         IniReached(i)', IniVerified(i)', IniExposed(i)'
  PROVE  IniInv' /\ ResInv' /\ PidInv'
<1>1. TypeOK /\ IniInv /\ ResInv /\ PidInv
  BY DEF CoreInv
<1>2. ASSUME NEW j \in Initiators, j # i
      PROVE  (IniReached(j) /\ IniVerified(j) /\ IniExposed(j))'
  <2>1. ini'[j] = ini[j]
    BY <1>2 DEF IniOnly
  <2> QED  BY <1>1, <2>1, IniLasting DEF IniInv
<1>3. IniInv'
  BY <1>2 DEF IniInv
<1>4. ResInv'
  <2>1. ASSUME NEW r \in Responders
        PROVE  (ResReached(r) /\ ResVerified(r) /\ ResExposed(r))'
    <3>1. res' = res
      BY DEF IniOnly
    <3> QED  BY <1>1, <3>1, ResLasting DEF ResInv
  <2> QED  BY <2>1 DEF ResInv
<1>5. PidInv'
  BY <1>1 DEF PidInv, IniOnly
<1> QED  BY <1>3, <1>4, <1>5

LEMMA ResSteps ==
  ASSUME CoreInv, Grows, NEW r \in Responders, ResOnly(r),
         ResReached(r)', ResVerified(r)', ResExposed(r)'
  PROVE  IniInv' /\ ResInv'
<1>1. TypeOK /\ IniInv /\ ResInv
  BY DEF CoreInv
<1>2. ASSUME NEW q \in Responders, q # r
      PROVE  (ResReached(q) /\ ResVerified(q) /\ ResExposed(q))'
  <2>1. res'[q] = res[q]
    BY <1>2 DEF ResOnly
  <2> QED  BY <1>1, <2>1, ResLasting DEF ResInv
<1>3. ResInv'
  BY <1>2 DEF ResInv
<1>4. IniInv'
  <2>1. ASSUME NEW i \in Initiators
        PROVE  (IniReached(i) /\ IniVerified(i) /\ IniExposed(i))'
    <3>1. ini' = ini
      BY DEF ResOnly
    <3> QED  BY <1>1, <3>1, IniLasting DEF IniInv
  <2> QED  BY <2>1 DEF IniInv
<1> QED  BY <1>3, <1>4

LEMMA StartedKeeps ==
  ASSUME CoreInv, Grows, NEW i \in Initiators, Started(i)
  PROVE  CoreInv'
<1>1. /\ TypeOK /\ FrameInv /\ FinishInv
      /\ IniReached(i) /\ IniVerified(i) /\ IniExposed(i)
  BY DEF CoreInv, IniInv
<1>2. /\ TypeOK' /\ IniOnly(i) /\ ini'[i].at = ini[i].at
      /\ frames' = frames \cup {Start(i)}
  BY DEF Started
<1>3. IniInv' /\ ResInv' /\ PidInv'
  BY <1>1, <1>2, IniLasting, IniSteps
<1>4. ASSUME NEW f, f = Start(i)
      PROVE  f.kind = "start" /\ Known(f)'
  BY <1>2, <1>4 DEF Known, Start, IniOnly
<1>5. FrameInv'
  BY <1>1, <1>2, <1>4, FramesAdded
<1>6. FinishInv'
  BY <1>1, <1>2, <1>4, NoFinish
<1> QED  BY <1>2, <1>3, <1>5, <1>6 DEF CoreInv

LEMMA FinishedKeeps ==
  ASSUME CoreInv, Grows, NEW i \in Initiators, NEW f \in frames, Finished(i, f)
  PROVE  CoreInv'
<1> DEFINE k == f.key
<1>1. /\ TypeOK /\ FrameInv /\ FinishInv
      /\ IniReached(i) /\ IniVerified(i) /\ IniExposed(i)
  BY DEF CoreInv, IniInv
<1>2. /\ TypeOK' /\ IniOnly(i) /\ f.kind = "reply" /\ k \in Key /\ k.ini = i
      /\ ini[i].phase = "started" /\ ini'[i].phase = "done"
      /\ ini'[i].at.transport = {k} /\ ini'[i].at.sentAuth
      /\ UNCHANGED <<ini[i].at.read, ini[i].at.peer, ini[i].at.transcript, ini[i].at.sessions>>
      /\ frames' = frames \cup {Finish(k), Auth(k, 1, {ini[i].cert}, {})}
  BY DEF Finished
<1>3. Fits(k) /\ Fits(k)'
  BY <1>1, <1>2, Lasting DEF FrameInv, Known
<1> HIDE DEF k
<1>4. IniReached(i)'
  BY <1>1, <1>2 DEF IniReached, Finish
<1>5. IniInv' /\ ResInv' /\ PidInv'
  BY <1>1, <1>2, <1>4, IniLasting, IniSteps
<1>6. ASSUME NEW g, g = Finish(k)
      PROVE  Known(g)'
  BY <1>2, <1>3, <1>6 DEF Known, Finish
<1>7. ASSUME NEW g, g = Auth(k, 1, {ini[i].cert}, {})
      PROVE  Known(g)'
  BY <1>2, <1>7 DEF Known, Auth, Finish, IniOnly
<1>8. FrameInv'
  BY <1>1, <1>2, <1>6, <1>7, FramesAdded
<1>9. FinishInv'
  <2>1. ASSUME NEW l \in Key, Finish(l) \in frames'
        PROVE  Finish(l) \in frames \/ l = k
    BY <1>2, <2>1 DEF Finish, Auth
  <2>2. ASSUME NEW l \in Key, Finish(l) \in frames
        PROVE  l.ini # i
    BY <1>1, <1>2, <2>2 DEF FrameInv, Known, Finish
  <2>3. \A l, m \in Key : Finish(l) \in frames' /\ Finish(m) \in frames' /\ l.ini = m.ini
                          => l = m
    BY <1>1, <1>2, <2>1, <2>2 DEF FinishInv
  <2> QED  BY <2>3 DEF FinishInv, Finish
<1> QED  BY <1>2, <1>5, <1>8, <1>9 DEF CoreInv

LEMMA AnsweredKeeps ==
  ASSUME CoreInv, Grows, NEW i \in Initiators, NEW f \in frames, NEW c \in Cert,
         Answered(i, f, c)
  PROVE  CoreInv'
<1> DEFINE k == f.key
<1>0. PICK t : t = TranscriptOf(k, ini[i], ini[i].pid, ini[i].cert, c)
  OBVIOUS
<1>1. /\ TypeOK /\ FrameInv /\ FinishInv
      /\ IniReached(i) /\ IniVerified(i) /\ IniExposed(i)
  BY DEF CoreInv, IniInv
<1>2. /\ TypeOK' /\ IniOnly(i)
      /\ f.kind = "auth" /\ k \in ini[i].at.transport /\ f.seq = 2 /\ c \in f.cert
      /\ ini[i].at.read = 0 /\ ini'[i].at.read = 1
      /\ UNCHANGED <<ini[i].phase, ini[i].at.transport, ini[i].at.sentAuth, ini[i].at.sessions>>
  BY DEF Answered
<1>3. /\ k \in Key /\ k.ini = i /\ Finish(k) \in frames /\ Finish(k) \in frames'
      /\ c = res[k.res].cert /\ ResAccepts(k)
  BY <1>1, <1>2, Objects, KeyTypes DEF IniReached, FrameInv, Known, Grows
<1>4. ini[i].at.transcript = {} /\ ini[i].at.peer = {}
  BY <1>1, <1>2 DEF IniReached
<1>5. IniReached(i)' /\ IniExposed(i)'
  BY <1>1, <1>2, IniLasting
<1>6. CASE UNCHANGED <<ini[i].at.peer, ini[i].at.transcript, frames>>
  <2>1. IniVerified(i)'
    BY <1>1, <1>6, IniLasting
  <2>2. IniInv' /\ ResInv' /\ PidInv'
    BY <1>2, <1>5, <2>1, IniSteps
  <2>3. FrameInv' /\ FinishInv'
    BY <1>1, <1>6, FramesAdded, NoFinish
  <2> QED  BY <1>2, <2>2, <2>3 DEF CoreInv
<1>7. CASE /\ Identifies(ini[i], c, {x.responder : x \in Context({ini[i].pid})})
           /\ f.signed = {t}
           /\ ini'[i].at.peer = {c} /\ ini'[i].at.transcript = {t}
           /\ frames' = frames \cup {Auth(k, 3, {}, {t})}
  <2>1. t = Due(k) /\ t.key = k /\ IniAccepts(k)
    BY <1>0, <1>3, <1>7 DEF Due, IniAccepts, TranscriptOf
  <2> HIDE DEF k
  <2>2. t = Due(k)' /\ IniAccepts(k)' /\ ResAccepts(k)'
    BY <1>1, <1>3, <2>1, Lasting
  <2>3. res'[k.res].cert = c
    BY <1>2, <1>3 DEF IniOnly
  <2>4. IniVerified(i)'
    BY <1>3, <1>7, <2>1, <2>2, <2>3 DEF IniVerified, Finish
  <2>5. IniInv' /\ ResInv' /\ PidInv'
    BY <1>2, <1>5, <2>4, IniSteps
  <2>6. ASSUME NEW g, g = Auth(k, 3, {}, {t})
        PROVE  Known(g)'
    <3>1. /\ Finish(k) \in frames' /\ k.ini = i
          /\ ini'[i].at.transcript = {Due(k)'} /\ {t} = {Due(k)'}
      BY <1>3, <1>7, <2>2
    <3> QED  BY <2>6, <3>1 DEF Known, Auth, Finish
  <2>7. FrameInv'
    BY <1>1, <1>7, <2>6, FramesAdded
  <2>8. Auth(k, 3, {}, {t}).kind # "finish"
    BY DEF Auth
  <2>9. FinishInv'
    BY <1>1, <1>7, <2>8, NoFinish
  <2> QED  BY <1>2, <2>5, <2>7, <2>9 DEF CoreInv
<1> QED  BY <1>0, <1>6, <1>7 DEF Answered

LEMMA AcknowledgedKeeps ==
  ASSUME CoreInv, Grows, NEW i \in Initiators, NEW f \in frames, Acknowledged(i, f)
  PROVE  CoreInv'
<1>0. PICK k : k = f.key
  OBVIOUS
<1>1. /\ TypeOK /\ FrameInv /\ FinishInv
      /\ IniReached(i) /\ IniVerified(i) /\ IniExposed(i)
  BY DEF CoreInv, IniInv
<1>2. /\ TypeOK' /\ IniOnly(i)
      /\ f.kind = "auth" /\ k \in ini[i].at.transport /\ f.seq = 4 /\ ini'[i].at.read = 2
      /\ UNCHANGED <<frames, ini[i].phase, ini[i].at.transcript, ini[i].at.sentAuth>>
      /\ \/ UNCHANGED <<ini[i].at.transport, ini[i].at.peer, ini[i].at.sessions>>
         \/ ini'[i].at.transport = {} /\ ini'[i].at.peer = {}
  BY <1>0 DEF Acknowledged
<1>3. /\ k \in Key /\ k.ini = i /\ k.res \in Responders /\ Finish(k) \in frames
      /\ \E u \in res[k.res].at.sessions : u.key = k
  BY <1>0, <1>1, <1>2, Objects, KeyTypes DEF IniReached, FrameInv, Known
<1>4. FrameInv' /\ FinishInv'
  BY <1>1, <1>2, FramesAdded, NoFinish
<1>5. IniVerified(i)'
  BY <1>1, <1>2, IniLasting
<1>6. IniReached(i)'
  BY <1>1, <1>2 DEF IniReached, Finish
<1>7. CASE UNCHANGED ini[i].at.sessions
  <2>1. IniInv' /\ ResInv' /\ PidInv'
    BY <1>1, <1>2, <1>5, <1>6, <1>7, IniLasting, IniSteps
  <2> QED  BY <1>2, <1>4, <2>1 DEF CoreInv
<1>8. ASSUME NEW c \in ini[i].at.peer, NEW t \in ini[i].at.transcript,
             ini'[i].at.sessions = ini[i].at.sessions \cup {SessionOf(k, t, ini[i].cert, c)}
      PROVE  CoreInv'
  <2>0. PICK s : s = SessionOf(k, t, ini[i].cert, c)
    OBVIOUS
  <2>1. /\ t.key.ini = i /\ Finish(t.key) \in frames /\ t = Due(t.key) /\ t.key \in Key
        /\ c = res[t.key.res].cert
    BY <1>1, Objects, KeyTypes DEF IniVerified
  <2>2. t.key = k
    BY <1>1, <1>3, <2>1 DEF FinishInv
  <2>3. /\ s = SessionOf(k, Due(k), ini[i].cert, res[k.res].cert)
        /\ s.key = k /\ s.binding = t
    BY <2>0, <2>1, <2>2 DEF SessionOf
  <2>4. /\ Due(k)' = Due(k) /\ ini'[i].cert = ini[i].cert
        /\ UNCHANGED res
    BY <1>1, <1>2, <1>3, Lasting DEF IniOnly
  <2>5. s = SessionOf(k, Due(k)', ini'[i].cert, res'[k.res].cert)
    BY <2>3, <2>4
  <2>6. ASSUME NEW u \in ini[i].at.sessions
        PROVE  /\ u.key.ini = i /\ u.binding \in ini'[i].at.transcript
               /\ u = SessionOf(u.key, Due(u.key)', ini'[i].cert, res'[u.key.res].cert)
               /\ \E v \in res'[u.key.res].at.sessions : v.key = u.key
    <3>1. u.key \in Key
      BY <1>1, Objects, KeyTypes
    <3>2. Due(u.key)' = Due(u.key)
      BY <1>1, <3>1, Lasting
    <3> QED  BY <1>1, <1>2, <2>4, <3>2 DEF IniExposed
  <2>7. IniExposed(i)'
    <3>1. /\ s.key.ini = i /\ s.binding \in ini'[i].at.transcript
          /\ s = SessionOf(s.key, Due(s.key)', ini'[i].cert, res'[s.key.res].cert)
          /\ \E v \in res'[s.key.res].at.sessions : v.key = s.key
      <4>1. s.key = k /\ k.ini = i /\ s.binding = t /\ res' = res
        BY <1>3, <2>3, <2>4
      <4>2. t \in ini'[i].at.transcript
        BY <1>2, <1>8
      <4> QED  BY <1>3, <2>5, <4>1, <4>2
    <3>2. ini'[i].at.sessions = ini[i].at.sessions \cup {s}
      BY <1>8, <2>0
    <3>3. \A u \in ini'[i].at.sessions :
            /\ u.key.ini = i /\ u.binding \in ini'[i].at.transcript
            /\ u = SessionOf(u.key, Due(u.key)', ini'[i].cert, res'[u.key.res].cert)
            /\ \E v \in res'[u.key.res].at.sessions : v.key = u.key
      BY <2>6, <3>1, <3>2
    <3> QED  BY <3>3 DEF IniExposed, SessionOf
  <2>8. IniInv' /\ ResInv' /\ PidInv'
    BY <1>2, <1>5, <1>6, <2>7, IniSteps
  <2> QED  BY <1>2, <1>4, <2>8 DEF CoreInv
<1> QED  BY <1>0, <1>7, <1>8 DEF Acknowledged

LEMMA RepliedKeeps ==
  ASSUME CoreInv, Grows, NEW r \in Responders, NEW f \in frames, NEW k \in Key,
         Replied(r, f, k)
  PROVE  CoreInv'
<1>1. /\ TypeOK /\ PidInv /\ FrameInv /\ FinishInv
      /\ ResReached(r) /\ ResVerified(r) /\ ResExposed(r)
  BY DEF CoreInv, ResInv
<1>2. /\ TypeOK' /\ ResOnly(r)
      /\ f.kind = "start" /\ f.reconnect = res[r].reconnect
      /\ k.ini = f.ini /\ k.res = r
      /\ res'[r].at = res[r].at
      /\ res'[r].handshake = {k} /\ res'[r].pid = {f.pid}
      /\ frames' = frames \cup {Reply(k, f)}
  BY DEF Replied
<1>3. f.reconnect = ini[f.ini].reconnect /\ f.pid = ini[f.ini].pid
  BY <1>1, <1>2 DEF FrameInv, Known
<1>4. Fits(k)'
  BY <1>2, <1>3 DEF Fits, ResOnly
<1>5. ResReached(r)'
  BY <1>1, <1>2, <1>4 DEF ResReached, Finish
<1>6. IniInv' /\ ResInv'
  BY <1>1, <1>2, <1>5, ResLasting, ResSteps
<1>7. PidInv'
  BY <1>1, <1>2 DEF PidInv, ResOnly
<1>8. ASSUME NEW g, g = Reply(k, f)
      PROVE  Known(g)' /\ g.kind # "finish"
  BY <1>4, <1>8 DEF Known, Reply
<1>9. FrameInv' /\ FinishInv'
  BY <1>1, <1>2, <1>8, FramesAdded, NoFinish
<1> QED  BY <1>2, <1>6, <1>7, <1>9 DEF CoreInv

LEMMA JoinedKeeps ==
  ASSUME CoreInv, Grows, NEW r \in Responders, NEW f \in frames, NEW k \in Key,
         Joined(r, f, k)
  PROVE  CoreInv'
<1>1. /\ TypeOK /\ PidInv /\ FrameInv /\ FinishInv
      /\ ResReached(r) /\ ResVerified(r) /\ ResExposed(r)
  BY DEF CoreInv, ResInv
<1>2. /\ TypeOK' /\ ResOnly(r)
      /\ k \in res[r].handshake /\ Finish(k) \in frames
      /\ res'[r].handshake = {} /\ res'[r].pid = res[r].pid
      /\ res'[r].at.transport = {k} /\ res'[r].at.sessions = res[r].at.sessions
  BY DEF Joined
<1>3. /\ k.res = r /\ k.ini \in Initiators /\ Fits(k) /\ frames \subseteq frames'
  BY <1>1, <1>2, KeyTypes DEF ResReached, Grows
<1>4. ResReached(r)' /\ ResExposed(r)'
  <2>1. ResReached(r)'
    BY <1>2, <1>3 DEF ResReached, Finish
  <2> QED  BY <1>1, <1>2, <2>1, ResLasting
<1>5. PidInv'
  BY <1>1, <1>2 DEF PidInv, ResOnly
<1>6. CASE UNCHANGED <<res[r].at.peer, res[r].at.transcript, frames>>
  <2>1. ResVerified(r)'
    BY <1>1, <1>6, ResLasting
  <2>2. IniInv' /\ ResInv'
    BY <1>2, <1>4, <2>1, ResSteps
  <2>3. FrameInv' /\ FinishInv'
    BY <1>1, <1>6, FramesAdded, NoFinish
  <2> QED  BY <1>2, <1>5, <2>2, <2>3 DEF CoreInv
<1>7. ASSUME NEW c \in f.cert, NEW pid \in res[r].pid,
             NEW t, t = TranscriptOf(k, res[r], pid, c, res[r].cert),
             f.kind = "auth", f.key = k, f.seq = 1,
             Identifies(res[r], c, {x.initiator : x \in Context(res[r].pid)}),
             res'[r].at.peer = {c}, res'[r].at.transcript = {t},
             frames' = frames \cup {Auth(k, 2, {res[r].cert}, {t})}
      PROVE  CoreInv'
  <2>1. c = ini[k.ini].cert
    BY <1>1, <1>7 DEF FrameInv, Known
  <2>2. pid = ini[k.ini].pid /\ res[r].reconnect = ini[k.ini].reconnect
    BY <1>3 DEF Fits
  <2>3. t = Due(k) /\ t.key = k
    BY <1>3, <1>7, <2>1, <2>2 DEF Due, TranscriptOf
  <2>4. ResAccepts(k)
    BY <1>3, <1>7, <2>1 DEF ResAccepts, Fits
  <2>5. t = Due(k)' /\ ResAccepts(k)' /\ UNCHANGED <<ini, res[r].cert>>
    BY <1>1, <1>2, <2>3, <2>4, Lasting DEF ResOnly
  <2>6. ResVerified(r)'
    BY <1>2, <1>3, <1>7, <2>1, <2>3, <2>5 DEF ResVerified, Finish
  <2>7. IniInv' /\ ResInv'
    BY <1>2, <1>4, <2>6, ResSteps
  <2>8. ASSUME NEW g, g = Auth(k, 2, {res[r].cert}, {t})
        PROVE  Known(g)' /\ g.kind # "finish"
    <3>1. /\ Finish(k) \in frames' /\ k.res = r
          /\ {res[r].cert} = {res'[r].cert} /\ {t} = {Due(k)'}
      BY <1>2, <1>3, <2>5
    <3> QED  BY <2>5, <2>8, <3>1 DEF Known, Auth, Finish
  <2>9. FrameInv' /\ FinishInv'
    BY <1>1, <1>7, <2>8, FramesAdded, NoFinish
  <2> QED  BY <1>2, <1>5, <2>7, <2>9 DEF CoreInv
<1> QED  BY <1>6, <1>7 DEF Joined

LEMMA VerifiedKeeps ==
  ASSUME CoreInv, Grows, NEW r \in Responders, NEW f \in frames, Verified(r, f)
  PROVE  CoreInv'
<1>0. PICK k : k = f.key
  OBVIOUS
<1>1. /\ TypeOK /\ PidInv /\ FrameInv /\ FinishInv
      /\ ResReached(r) /\ ResVerified(r) /\ ResExposed(r)
  BY DEF CoreInv, ResInv
<1>2. /\ TypeOK' /\ ResOnly(r)
      /\ f.kind = "auth" /\ k \in res[r].at.transport /\ f.seq = 3
      /\ UNCHANGED <<res[r].handshake, res[r].pid, res[r].at.peer, res[r].at.transcript>>
      /\ UNCHANGED res[r].at.transport \/ res'[r].at.transport = {}
  BY <1>0 DEF Verified
<1>3. /\ k \in Key /\ k.res = r /\ k.ini \in Initiators
      /\ Finish(k) \in frames /\ frames \subseteq frames'
      /\ f.signed = {Due(k)} /\ ini[k.ini].at.transcript = {Due(k)}
  BY <1>0, <1>1, <1>2, Objects, KeyTypes DEF ResReached, FrameInv, Known, Grows
<1>4. ResVerified(r)'
  BY <1>1, <1>2, ResLasting
<1>5. ResReached(r)'
  <2>1. CASE UNCHANGED res[r].at.transport
    BY <1>1, <1>2, <2>1, ResLasting
  <2>2. CASE res'[r].at.transport = {}
    <3>1. \A l \in res[r].handshake : l \in Key
      BY <1>1, Objects DEF Responder
    <3>2. \A l \in res[r].handshake : l.res = r /\ Fits(l)'
      BY <1>1, <3>1, Lasting DEF ResReached
    <3> QED  BY <1>2, <2>2, <3>2 DEF ResReached
  <2> QED  BY <1>2, <2>1, <2>2
<1>6. PidInv'
  BY <1>1, <1>2 DEF PidInv, ResOnly
<1>7. CASE UNCHANGED <<frames, res[r].at.sessions>>
  <2>1. IniInv' /\ ResInv'
    BY <1>1, <1>2, <1>4, <1>5, <1>7, ResLasting, ResSteps
  <2>2. FrameInv' /\ FinishInv'
    BY <1>1, <1>7, FramesAdded, NoFinish
  <2> QED  BY <1>2, <1>6, <2>1, <2>2 DEF CoreInv
<1>8. ASSUME f.signed = res[r].at.transcript,
             NEW c \in res[r].at.peer, NEW t \in res[r].at.transcript,
             NEW s, s = SessionOf(k, t, res[r].cert, c),
             res'[r].at.sessions = res[r].at.sessions \cup {s},
             frames' = frames \cup {Auth(k, 4, {}, {})}
      PROVE  CoreInv'
  <2>1. t = Due(k) /\ t.key = k
    BY <1>3, <1>8, KeyTypes DEF Due
  <2>2. c = ini[k.ini].cert
    BY <1>1, <1>8, <2>1 DEF ResVerified
  <2>3. s = SessionOf(k, Due(k), res[r].cert, ini[k.ini].cert) /\ s.key = k
    BY <1>8, <2>1, <2>2, KeyTypes
  <2>4. Due(k)' = Due(k) /\ ini' = ini /\ res'[r].cert = res[r].cert
    BY <1>1, <1>2, <1>3, Lasting DEF ResOnly
  <2>5. /\ s.key.res = r /\ Finish(s.key) \in frames'
        /\ s = SessionOf(s.key, Due(s.key)', res'[r].cert, ini'[s.key.ini].cert)
        /\ ini'[s.key.ini].at.transcript = {Due(s.key)'}
    BY <1>3, <2>3, <2>4
  <2>6. ASSUME NEW u \in res[r].at.sessions
        PROVE  /\ u.key.res = r /\ Finish(u.key) \in frames'
               /\ u = SessionOf(u.key, Due(u.key)', res'[r].cert, ini'[u.key.ini].cert)
               /\ ini'[u.key.ini].at.transcript = {Due(u.key)'}
    <3>1. u.key \in Key
      BY <1>1, Objects, KeyTypes
    <3>2. Due(u.key)' = Due(u.key)
      BY <1>1, <3>1, Lasting
    <3> QED  BY <1>1, <1>3, <2>4, <3>2 DEF ResExposed
  <2>7. ResExposed(r)'
    BY <1>8, <2>5, <2>6 DEF ResExposed, SessionOf, Finish
  <2>8. IniInv' /\ ResInv'
    BY <1>2, <1>4, <1>5, <2>7, ResSteps
  <2>9. ASSUME NEW g, g = Auth(k, 4, {}, {})
        PROVE  Known(g)' /\ g.kind # "finish"
    <3>1. Finish(k) \in frames' /\ s \in res'[k.res].at.sessions /\ s.key = k
      BY <1>3, <1>8, <2>3
    <3> QED  BY <2>9, <3>1 DEF Known, Auth, Finish
  <2>10. FrameInv' /\ FinishInv'
    BY <1>1, <1>8, <2>9, FramesAdded, NoFinish
  <2> QED  BY <1>2, <1>6, <2>8, <2>10 DEF CoreInv
<1> QED  BY <1>0, <1>7, <1>8 DEF Verified

(* Sessions carry payloads, and nothing else changes. *)
LEMMA UnchangedKeeps ==
  ASSUME CoreInv, Grows, TypeOK', UNCHANGED <<ini, res, frames>>
  PROVE  CoreInv'
<1>1. TypeOK /\ PidInv /\ FrameInv /\ FinishInv /\ IniInv /\ ResInv
  BY DEF CoreInv
<1>2. FrameInv' /\ FinishInv'
  BY <1>1, FramesAdded, NoFinish
<1>3. IniInv' /\ ResInv'
  <2>1. \A i \in Initiators : (IniReached(i) /\ IniVerified(i) /\ IniExposed(i))'
    BY <1>1, IniLasting DEF IniInv
  <2>2. \A r \in Responders : (ResReached(r) /\ ResVerified(r) /\ ResExposed(r))'
    BY <1>1, ResLasting DEF ResInv
  <2> QED  BY <2>1, <2>2 DEF IniInv, ResInv
<1>4. PidInv'
  BY <1>1 DEF PidInv
<1> QED  BY <1>2, <1>3, <1>4 DEF CoreInv

LEMMA CoreStep == CoreInv /\ [Next]_vars => CoreInv'
<1> SUFFICES ASSUME CoreInv, [Next]_vars PROVE CoreInv'
  OBVIOUS
<1>1. Grows /\ TypeOK'
  BY Growing, TypeStep DEF CoreInv
<1>2. CASE UNCHANGED vars
  BY <1>1, <1>2, UnchangedKeeps DEF vars
<1>3. CASE Next
  <2>1. ASSUME NEW e \in End, Sealed(e) \/ Opened(e)
        PROVE  CoreInv'
    BY <1>1, <2>1, UnchangedKeeps DEF Sealed, Opened
  <2>2. TypeOK
    BY DEF CoreInv
  <2> QED  BY <1>1, <1>3, <2>1, <2>2, Steps, StartedKeeps, FinishedKeeps, AnsweredKeeps,
              AcknowledgedKeeps, RepliedKeeps, JoinedKeeps, VerifiedKeeps
<1> QED  BY <1>2, <1>3

LEMMA CoreInit == Init => CoreInv
<1> SUFFICES ASSUME Init PROVE CoreInv
  OBVIOUS
<1>1. TypeOK
  BY TypeInit
<1>2. FrameInv /\ FinishInv
  BY DEF Init, FrameInv, FinishInv
<1>3. \A i \in Initiators : ini[i].at = NewObject
  <2>1. PICK c : ini = [i \in Initiators |-> IniObject(c[i])]
    BY DEF Init
  <2> QED  BY <2>1 DEF IniObject
<1>4. /\ \A r \in Responders : res[r].at = NewObject /\ res[r].handshake = {}
      /\ PidInv
  <2>1. PICK d \in [Responders -> ResConfig] : res = [r \in Responders |-> ResObject(d[r])]
    BY DEF Init
  <2>2. \A r \in Responders : /\ res[r].at = NewObject /\ res[r].handshake = {}
                              /\ res[r].pid = d[r].pid
    BY <2>1 DEF ResObject
  <2>3. PidInv
    BY <2>1, <2>2, ConfigTypes DEF PidInv
  <2> QED  BY <2>2, <2>3
<1>5. IniInv
  BY <1>3 DEF IniInv, IniReached, IniVerified, IniExposed, NewObject
<1>6. ResInv
  BY <1>4 DEF ResInv, ResReached, ResVerified, ResExposed, NewObject
<1> QED  BY <1>1, <1>2, <1>4, <1>5, <1>6 DEF CoreInv

-----------------------------------------------------------------------------
(* Payloads.                                                               *)

(* A session, once exposed, is there for good. *)
LEMMA SessionsLast ==
  ASSUME TypeOK, Grows, NEW e \in End, SessionsAt(e) # {}
  PROVE  SessionsAt(e)' # {}
<1>1. e.key.ini \in Initiators /\ e.key.res \in Responders
  BY KeyTypes DEF End
<1>2. /\ ini[e.key.ini].at.sessions \subseteq ini'[e.key.ini].at.sessions
      /\ res[e.key.res].at.sessions \subseteq res'[e.key.res].at.sessions
  BY <1>1 DEF Grows
<1> QED  BY <1>2 DEF SessionsAt

LEMMA PayloadStep ==
  ASSUME TypeOK, TypeOK', Grows, PayloadInv, [Next]_vars
  PROVE  PayloadInv'
<1>1. /\ wrote \in [End -> Seq(Encrypted)] /\ got \in [End -> Seq(Payload)]
      /\ wrote' \in [End -> Seq(Encrypted)] /\ got' \in [End -> Seq(Payload)]
  BY DEF TypeOK
<1>2. \A d \in End : Peer(d) \in End /\ Peer(Peer(d)) = d
  BY Others
<1>3. ASSUME UNCHANGED <<wrote, got>>
      PROVE  PayloadInv'
  BY <1>3, SessionsLast DEF PayloadInv, InStep, Peer
<1>4. ASSUME NEW e \in End, Sealed(e)
      PROVE  PayloadInv'
  <2>1. PICK p \in Encrypted : wrote' = [wrote EXCEPT ![e] = Append(wrote[e], p)]
    BY <1>4 DEF Sealed
  <2>2. got' = got /\ SessionsAt(e) # {}
    BY <1>4 DEF Sealed
  <2>3. ASSUME NEW d \in End
        PROVE  /\ Len(wrote[d]) <= Len(wrote'[d])
               /\ \A n \in 1..Len(wrote[d]) : wrote'[d][n] = wrote[d][n]
               /\ wrote'[d] = wrote[d] \/ d = e
    BY <1>1, <2>1
  <2>4. ASSUME NEW d \in End
        PROVE  InStep(d)'
    <3>1. /\ Len(got[d]) \in Nat /\ Len(wrote[Peer(d)]) \in Nat
          /\ Len(wrote'[Peer(d)]) \in Nat
      BY <1>1, <1>2
    <3>2. InStep(d)
      BY DEF PayloadInv
    <3>3. wrote'[d] # <<>> \/ got'[d] # <<>> => SessionsAt(d)' # {}
      BY <2>2, <2>3, <3>2, SessionsLast DEF InStep
    <3>4. Len(got'[d]) <= Len(wrote'[Peer(d)])
      BY <1>2, <2>2, <2>3, <3>1, <3>2 DEF InStep
    <3>5. \A n \in 1..Len(got'[d]) :
             wrote'[Peer(d)][n] = [payload |-> got'[d][n], sent |-> TRUE]
      <4>1. \A n \in 1..Len(got[d]) : n \in 1..Len(wrote[Peer(d)])
        BY <3>1, <3>2 DEF InStep
      <4> QED  BY <1>2, <2>2, <2>3, <3>2, <4>1 DEF InStep
    <3>6. Peer(d)' = Peer(d)
      BY DEF Peer
    <3> QED  BY <3>3, <3>4, <3>5, <3>6 DEF InStep
  <2> QED  BY <2>4 DEF PayloadInv
<1>5. ASSUME NEW e \in End, Opened(e)
      PROVE  PayloadInv'
  <2> DEFINE m == Len(got[e]) + 1
  <2>1. /\ UNCHANGED <<ini, res, wrote>> /\ SessionsAt(e) # {}
        /\ m \in 1..Len(wrote[Peer(e)]) /\ wrote[Peer(e)][m].sent
        /\ got' = [got EXCEPT ![e] = Append(got[e], wrote[Peer(e)][m].payload)]
    BY <1>5 DEF Opened
  <2>2. ASSUME NEW d \in End, d # e
        PROVE  InStep(d)'
    <3>1. got'[d] = got[d]
      BY <1>1, <2>1, <2>2
    <3> QED  BY <2>1, <3>1, SessionsLast DEF PayloadInv, InStep, Peer
  <2>3. InStep(e)'
    <3>1. InStep(e) /\ Len(got[e]) \in Nat
      BY <1>1 DEF PayloadInv
    <3>2. got'[e] = Append(got[e], wrote[Peer(e)][m].payload)
      BY <1>1, <2>1
    <3>3. wrote[Peer(e)][m] \in Encrypted
      BY <1>1, <1>2, <2>1
    <3>4. wrote[Peer(e)][m] = [payload |-> wrote[Peer(e)][m].payload, sent |-> TRUE]
      BY <2>1, <3>3 DEF Encrypted
    <3>5. wrote[Peer(e)][m].payload \in Payload
      BY <3>3 DEF Encrypted
    <3>6. /\ Len(got'[e]) = m /\ got'[e][m] = wrote[Peer(e)][m].payload
          /\ \A n \in 1..Len(got[e]) : got'[e][n] = got[e][n]
      BY <1>1, <3>2, <3>5
    <3>7. Len(got'[e]) <= Len(wrote'[Peer(e)])
      BY <2>1, <3>6
    <3>8. ASSUME NEW n \in 1..Len(got'[e])
          PROVE  wrote'[Peer(e)][n] = [payload |-> got'[e][n], sent |-> TRUE]
      <4>1. n \in 1..Len(got[e]) \/ n = m
        BY <3>1, <3>6
      <4> QED  BY <2>1, <3>1, <3>4, <3>6, <4>1 DEF InStep
    <3>9. SessionsAt(e)' # {}
      BY <2>1, SessionsLast
    <3>10. Peer(e)' = Peer(e)
      BY DEF Peer
    <3> QED  BY <3>7, <3>8, <3>9, <3>10 DEF InStep
  <2> QED  BY <2>2, <2>3 DEF PayloadInv
<1>6. ASSUME NEW i \in Initiators, IniOnly(i)
      PROVE  PayloadInv'
  BY <1>3, <1>6 DEF IniOnly
<1>7. ASSUME NEW r \in Responders, ResOnly(r)
      PROVE  PayloadInv'
  BY <1>3, <1>7 DEF ResOnly
<1>8. CASE UNCHANGED vars
  BY <1>3, <1>8 DEF vars
<1>9. CASE Next
  <2>1. /\ \A i \in Initiators : Started(i) => IniOnly(i)
        /\ \A i \in Initiators, f \in frames : Finished(i, f) => IniOnly(i)
        /\ \A i \in Initiators, f \in frames, c \in Cert : Answered(i, f, c) => IniOnly(i)
        /\ \A i \in Initiators, f \in frames : Acknowledged(i, f) => IniOnly(i)
    BY DEF Started, Finished, Answered, Acknowledged
  <2>2. /\ \A r \in Responders, f \in frames, k \in Key : Replied(r, f, k) => ResOnly(r)
        /\ \A r \in Responders, f \in frames, k \in Key : Joined(r, f, k) => ResOnly(r)
        /\ \A r \in Responders, f \in frames : Verified(r, f) => ResOnly(r)
    BY DEF Replied, Joined, Verified
  <2> QED  BY <1>4, <1>5, <1>6, <1>7, <1>9, <2>1, <2>2, Steps
<1> QED  BY <1>8, <1>9

LEMMA PayloadInit == Init => PayloadInv
<1> SUFFICES ASSUME Init, NEW e \in End PROVE InStep(e)
  BY DEF PayloadInv
<1>1. wrote = [d \in End |-> <<>>] /\ got = [d \in End |-> <<>>] /\ Peer(e) \in End
  BY Others DEF Init
<1>2. wrote[e] = <<>> /\ got[e] = <<>> /\ wrote[Peer(e)] = <<>>
  BY <1>1
<1> QED  BY <1>2 DEF InStep

(* HandshakeInv: what is known of every frame, object and session.         *)
THEOREM HandshakeInvariant == Spec => []HandshakeInv
<1>1. HandshakeInv /\ [Next]_vars => HandshakeInv'
  <2> SUFFICES ASSUME CoreInv, PayloadInv, [Next]_vars PROVE CoreInv' /\ PayloadInv'
    BY DEF HandshakeInv
  <2>1. CoreInv'
    BY CoreStep
  <2>2. TypeOK /\ TypeOK' /\ Grows
    BY <2>1, Growing DEF CoreInv
  <2> QED  BY <2>1, <2>2, PayloadStep
<1>2. Init => HandshakeInv
  BY CoreInit, PayloadInit DEF HandshakeInv
<1> QED  BY <1>1, <1>2, PTL DEF Spec

-----------------------------------------------------------------------------
(* What follows for sessions.                                              *)

(* The two ends of the session of a key. *)
IniSession(k) == SessionOf(k, Due(k), ini[k.ini].cert, res[k.res].cert)
ResSession(k) == SessionOf(k, Due(k), res[k.res].cert, ini[k.ini].cert)

LEMMA SessionFields ==
  \A k :
     /\ IniSession(k).key = k /\ IniSession(k).binding = Due(k)
     /\ IniSession(k).pid = ini[k.ini].pid
     /\ IniSession(k).local = ini[k.ini].cert /\ IniSession(k).peer = res[k.res].cert
     /\ ResSession(k).key = k /\ ResSession(k).binding = Due(k)
     /\ ResSession(k).pid = ini[k.ini].pid
     /\ ResSession(k).local = res[k.res].cert /\ ResSession(k).peer = ini[k.ini].cert
     /\ Due(k).key = k /\ Due(k).reconnect = ini[k.ini].reconnect
BY DEF IniSession, ResSession, SessionOf, Due, TranscriptOf

(* A transcript names its key. *)
LEMMA DueNames ==
  ASSUME NEW k, NEW l, Due(k) = Due(l)
  PROVE  k = l
<1>1. Due(k).key = k
  BY SessionFields
<1>2. Due(l).key = l
  BY SessionFields
<1> QED  BY <1>1, <1>2

(* Every session is the one its key calls for, and stands on two sides     *)
(* that have accepted each other.                                          *)
LEMMA IniSessions ==
  ASSUME CoreInv, NEW i \in Initiators, NEW s \in ini[i].at.sessions
  PROVE  /\ s.key \in Key /\ s.key.ini = i /\ s = IniSession(s.key)
         /\ Fits(s.key) /\ IniAccepts(s.key) /\ ResAccepts(s.key)
         /\ ini[i].at.transcript = {Due(s.key)}
         /\ ResSession(s.key) \in res[s.key.res].at.sessions
<1>1. TypeOK /\ FrameInv /\ FinishInv /\ IniVerified(i) /\ IniExposed(i) /\ ResInv
  BY DEF CoreInv, IniInv
<1>2. s.key \in Key /\ s.key.res \in Responders
  BY <1>1, Objects, KeyTypes
<1>3. s.key.ini = i /\ s = IniSession(s.key) /\ s.binding \in ini[i].at.transcript
  BY <1>1 DEF IniExposed, IniSession
<1>4. s.binding = Due(s.key) /\ Due(s.key).key = s.key
  BY <1>3, SessionFields
<1>5. Finish(s.key) \in frames /\ IniAccepts(s.key) /\ ResAccepts(s.key)
  BY <1>1, <1>3, <1>4 DEF IniVerified
<1>6. Fits(s.key)
  BY <1>1, <1>5 DEF FrameInv, Known, Finish
<1>7. PICK u \in res[s.key.res].at.sessions : u.key = s.key
  BY <1>1 DEF IniExposed
<1>8. u = ResSession(s.key) /\ ini[i].at.transcript = {Due(s.key)}
  BY <1>1, <1>2, <1>3, <1>7 DEF ResInv, ResExposed, ResSession
<1> QED  BY <1>2, <1>3, <1>5, <1>6, <1>7, <1>8

LEMMA ResSessions ==
  ASSUME CoreInv, NEW r \in Responders, NEW s \in res[r].at.sessions
  PROVE  /\ s.key \in Key /\ s.key.res = r /\ s = ResSession(s.key)
         /\ Fits(s.key) /\ IniAccepts(s.key) /\ ResAccepts(s.key)
         /\ ini[s.key.ini].at.transcript = {Due(s.key)}
<1>1. TypeOK /\ FrameInv /\ IniInv /\ ResExposed(r)
  BY DEF CoreInv, ResInv
<1>2. s.key \in Key /\ s.key.ini \in Initiators
  BY <1>1, Objects, KeyTypes
<1>3. /\ s.key.res = r /\ s = ResSession(s.key) /\ Finish(s.key) \in frames
      /\ ini[s.key.ini].at.transcript = {Due(s.key)}
  BY <1>1 DEF ResExposed, ResSession
<1>4. IniAccepts(s.key) /\ ResAccepts(s.key)
  <2>1. PICK t : t = Due(s.key)
    OBVIOUS
  <2>2. t.key = s.key
    BY <2>1, SessionFields
  <2>3. t \in ini[s.key.ini].at.transcript /\ IniVerified(s.key.ini)
    BY <1>1, <1>2, <1>3, <2>1 DEF IniInv
  <2> QED  BY <2>2, <2>3 DEF IniVerified
<1>5. Fits(s.key)
  BY <1>1, <1>3 DEF FrameInv, Known, Finish
<1> QED  BY <1>2, <1>3, <1>4, <1>5

(* SessionsMatch: an initiator's session has its counterpart. *)
LEMMA Matches == CoreInv => SessionsMatch
<1> SUFFICES ASSUME CoreInv, NEW i \in Initiators, NEW s \in ini[i].at.sessions
             PROVE  /\ s.key.ini = i
                    /\ \E t \in res[s.key.res].at.sessions :
                          t = [s EXCEPT !.local = s.peer, !.peer = s.local]
  BY DEF SessionsMatch
<1>1. /\ s.key.ini = i /\ s = IniSession(s.key)
      /\ ResSession(s.key) \in res[s.key.res].at.sessions
  BY IniSessions
<1>2. PICK t \in res[s.key.res].at.sessions : t = ResSession(s.key)
  BY <1>1
<1>3. s \in Session /\ t \in Session
  <2>1. s.key.res \in Responders
    BY IniSessions, KeyTypes
  <2> QED  BY <2>1, Objects DEF Progress, CoreInv
<1>4. PICK k : k = s.key
  OBVIOUS
<1>5. t.key = s.key /\ t.binding = s.binding
  <2>1. t.key = k /\ t.binding = Due(k)
    BY <1>2, <1>4, SessionFields
  <2>2. s.binding = Due(k)
    BY <1>1, <1>4, SessionFields
  <2> QED  BY <1>4, <2>1, <2>2
<1>6. t.pid = s.pid
  <2>1. t.pid = ini[k.ini].pid
    BY <1>2, <1>4, SessionFields
  <2>2. s.pid = ini[k.ini].pid
    BY <1>1, <1>4, SessionFields
  <2> QED  BY <2>1, <2>2
<1>7. t.local = s.peer
  <2>1. t.local = res[k.res].cert
    BY <1>2, <1>4, SessionFields
  <2>2. s.peer = res[k.res].cert
    BY <1>1, <1>4, SessionFields
  <2> QED  BY <2>1, <2>2
<1>8. t.peer = s.local
  <2>1. t.peer = ini[k.ini].cert
    BY <1>2, <1>4, SessionFields
  <2>2. s.local = ini[k.ini].cert
    BY <1>1, <1>4, SessionFields
  <2> QED  BY <2>1, <2>2
<1>9. t = [s EXCEPT !.local = s.peer, !.peer = s.local]
  BY <1>3, <1>5, <1>6, <1>7, <1>8 DEF Session
<1> QED  BY <1>1, <1>9

(* ResponderIsAnswered: a responder's session rests on its initiator. *)
LEMMA Answers == CoreInv => ResponderIsAnswered
<1> SUFFICES ASSUME CoreInv, NEW r \in Responders, NEW s \in res[r].at.sessions
             PROVE  LET i == s.key.ini IN
                    /\ s.key.res = r
                    /\ ini[i].at.transcript = {s.binding}
                    /\ s.binding.key = s.key
                    /\ ini[i].expected = res[r].cert.device
                    /\ res[r].expected = ini[i].cert.device
                    /\ ini[i].cert = s.peer /\ res[r].cert = s.local
  BY DEF ResponderIsAnswered
<1>1. /\ s.key.res = r /\ s = ResSession(s.key) /\ IniAccepts(s.key) /\ ResAccepts(s.key)
      /\ ini[s.key.ini].at.transcript = {Due(s.key)}
  BY ResSessions
<1>2. /\ s.binding = Due(s.key) /\ Due(s.key).key = s.key
      /\ s.local = res[s.key.res].cert /\ s.peer = ini[s.key.ini].cert
  BY <1>1, SessionFields
<1>3. /\ ini[s.key.ini].expected = res[r].cert.device
      /\ res[r].expected = ini[s.key.ini].cert.device
  BY <1>1 DEF IniAccepts, ResAccepts, Identifies
<1> QED  BY <1>1, <1>2, <1>3

(* CertificatesHold: each side has looked at the other's certificate, and  *)
(* a PairID names one context.                                             *)
LEMMA Accepted ==
  ASSUME NEW k, Fits(k), IniAccepts(k), ResAccepts(k)
  PROVE  IF ini[k.ini].reconnect
             THEN \E c \in Context({ini[k.ini].pid}) :
                     ini[k.ini].cert = c.initiator /\ res[k.res].cert = c.responder
             ELSE ~ini[k.ini].cert.expired /\ ~res[k.res].cert.expired
<1>1. CASE ini[k.ini].reconnect
  <2>1. res[k.res].reconnect
    BY <1>1 DEF Fits
  <2>2. PICK c \in Context({ini[k.ini].pid}) : res[k.res].cert = c.responder
    BY <1>1 DEF IniAccepts, Identifies, Valid
  <2>3. PICK d \in Context({ini[k.ini].pid}) : ini[k.ini].cert = d.initiator
    BY <2>1 DEF ResAccepts, Identifies, Valid
  <2>4. c = d
    BY ContextsAssumption DEF Context
  <2> QED  BY <1>1, <2>2, <2>3, <2>4
<1>2. CASE ~ini[k.ini].reconnect
  <2>1. res[k.res].reconnect = ini[k.ini].reconnect
    BY DEF Fits
  <2> QED  BY <1>2, <2>1 DEF IniAccepts, ResAccepts, Identifies, Valid
<1> QED  BY <1>1, <1>2

LEMMA Holds == CoreInv => CertificatesHold
<1> SUFFICES ASSUME CoreInv,
                    NEW s \in UNION ({ini[i].at.sessions : i \in Initiators}
                                        \cup {res[r].at.sessions : r \in Responders})
             PROVE  IF s.binding.reconnect
                        THEN \E c \in Context({s.pid}) :
                                {s.local, s.peer} = {c.initiator, c.responder}
                        ELSE ~s.local.expired /\ ~s.peer.expired
  BY DEF CertificatesHold
<1>1. \/ \E i \in Initiators : s \in ini[i].at.sessions
      \/ \E r \in Responders : s \in res[r].at.sessions
  OBVIOUS
<1>2. /\ s = IniSession(s.key) \/ s = ResSession(s.key)
      /\ Fits(s.key) /\ IniAccepts(s.key) /\ ResAccepts(s.key)
  BY <1>1, IniSessions, ResSessions
<1>3. PICK k : k = s.key
  OBVIOUS
<1>4. /\ s.binding.reconnect = ini[k.ini].reconnect /\ s.pid = ini[k.ini].pid
      /\ \/ s.local = ini[k.ini].cert /\ s.peer = res[k.res].cert
         \/ s.local = res[k.res].cert /\ s.peer = ini[k.ini].cert
  <2>1. CASE s = IniSession(k)
    BY <2>1, SessionFields
  <2>2. CASE s = ResSession(k)
    BY <2>2, SessionFields
  <2> QED  BY <1>2, <1>3, <2>1, <2>2
<1>5. IF ini[k.ini].reconnect
          THEN \E c \in Context({ini[k.ini].pid}) :
                  ini[k.ini].cert = c.initiator /\ res[k.res].cert = c.responder
          ELSE ~ini[k.ini].cert.expired /\ ~res[k.res].cert.expired
  BY <1>2, <1>3, Accepted
<1> QED  BY <1>4, <1>5

(* BindingsAreFresh: a binding names its key. *)
LEMMA Fresh == CoreInv => BindingsAreFresh
<1> SUFFICES ASSUME CoreInv PROVE BindingsAreFresh
  OBVIOUS
<1>1. ASSUME NEW i \in Initiators, NEW j \in Initiators,
             NEW s \in ini[i].at.sessions, NEW t \in ini[j].at.sessions,
             s.binding = t.binding
      PROVE  i = j /\ s = t
  <2>1. /\ s.key.ini = i /\ s = IniSession(s.key)
        /\ t.key.ini = j /\ t = IniSession(t.key)
    BY IniSessions
  <2>2. s.binding = Due(s.key) /\ t.binding = Due(t.key)
    BY <2>1, SessionFields
  <2>3. s.key = t.key
    BY <1>1, <2>2, DueNames
  <2> QED  BY <2>1, <2>3
<1>2. ASSUME NEW q \in Responders, NEW r \in Responders,
             NEW s \in res[q].at.sessions, NEW t \in res[r].at.sessions,
             s.binding = t.binding
      PROVE  q = r /\ s = t
  <2>1. /\ s.key.res = q /\ s = ResSession(s.key)
        /\ t.key.res = r /\ t = ResSession(t.key)
    BY ResSessions
  <2>2. s.binding = Due(s.key) /\ t.binding = Due(t.key)
    BY <2>1, SessionFields
  <2>3. s.key = t.key
    BY <1>2, <2>2, DueNames
  <2> QED  BY <2>1, <2>3
<1> QED  BY <1>1, <1>2 DEF BindingsAreFresh

(* PayloadsAreThePeers: an end reads what its peer has written. *)
LEMMA AtEnds ==
  ASSUME CoreInv, NEW e \in End, NEW s \in SessionsAt(e)
  PROVE  \/ e.role = "initiator" /\ s = IniSession(e.key)
         \/ e.role = "responder" /\ s = ResSession(e.key)
<1>1. e.key.ini \in Initiators /\ e.key.res \in Responders
  BY KeyTypes DEF End
<1>2. s.key = e.key
  BY DEF SessionsAt
<1>3. CASE e.role = "initiator"
  <2>1. s \in ini[e.key.ini].at.sessions
    BY <1>3 DEF SessionsAt
  <2> QED  BY <1>1, <1>2, <1>3, <2>1, IniSessions
<1>4. CASE e.role # "initiator"
  <2>1. s \in res[e.key.res].at.sessions /\ e.role = "responder"
    BY <1>4 DEF SessionsAt, End, Role
  <2> QED  BY <1>1, <1>2, <2>1, ResSessions
<1> QED  BY <1>3, <1>4

LEMMA SeqEqual ==
  ASSUME NEW S, NEW u \in Seq(S), NEW v \in Seq(S), Len(u) = Len(v),
         \A n \in 1..Len(u) : u[n] = v[n]
  PROVE  u = v
OBVIOUS

LEMMA SeqWhole ==
  ASSUME NEW S, NEW u \in Seq(S)
  PROVE  SubSeq(u, 1, Len(u)) = u
OBVIOUS

LEMMA Reads == CoreInv /\ PayloadInv => PayloadsAreThePeers
<1> SUFFICES ASSUME CoreInv, PayloadInv, NEW e \in End, got[e] # <<>>
             PROVE  \E d \in End : \E s \in SessionsAt(e), t \in SessionsAt(d) :
                       /\ IsPrefix([n \in DOMAIN got[e] |->
                                      [payload |-> got[e][n], sent |-> TRUE]], wrote[d])
                       /\ d.role # e.role
                       /\ t.binding = s.binding
                       /\ t.local = s.peer /\ t.peer = s.local
  BY DEF PayloadsAreThePeers
<1> DEFINE d == Peer(e)
<1>1. d \in End /\ d.role # e.role /\ d.key = e.key
  BY Others DEF Peer, End
<1>2. InStep(e) /\ InStep(d)
  BY <1>1 DEF PayloadInv
<1>3. got[e] \in Seq(Payload) /\ wrote[d] \in Seq(Encrypted)
  BY <1>1 DEF CoreInv, TypeOK
<1>4. Len(got[e]) \in Nat \ {0} /\ Len(wrote[d]) \in Nat /\ DOMAIN got[e] = 1..Len(got[e])
  BY <1>3
<1>5. wrote[d] # <<>>
  BY <1>2, <1>3, <1>4 DEF InStep
<1>6. PICK s \in SessionsAt(e), t \in SessionsAt(d) : TRUE
  BY <1>2, <1>5 DEF InStep
<1>7. \/ s = IniSession(e.key) /\ t = ResSession(e.key)
      \/ s = ResSession(e.key) /\ t = IniSession(e.key)
  BY <1>1, <1>6, AtEnds
<1>8. t.binding = s.binding /\ t.local = s.peer /\ t.peer = s.local
  <2>1. PICK k : k = e.key
    OBVIOUS
  <2>2. IniSession(k).binding = ResSession(k).binding
    BY SessionFields
  <2>3. IniSession(k).local = ResSession(k).peer
    BY SessionFields
  <2>4. IniSession(k).peer = ResSession(k).local
    BY SessionFields
  <2> QED  BY <1>7, <2>1, <2>2, <2>3, <2>4
<1>9. IsPrefix([n \in DOMAIN got[e] |-> [payload |-> got[e][n], sent |-> TRUE]], wrote[d])
  <2> DEFINE g == [n \in DOMAIN got[e] |-> [payload |-> got[e][n], sent |-> TRUE]]
  <2>1. \A n \in 1..Len(got[e]) : got[e][n] \in Payload
    BY <1>3
  <2>2. g = [n \in 1..Len(got[e]) |-> wrote[d][n]]
    BY <1>2, <1>4 DEF InStep
  <2>3. g \in Seq(Encrypted) /\ Len(g) = Len(got[e])
    <3>1. \A n \in 1..Len(got[e]) : wrote[d][n] \in Encrypted
      BY <1>2, <1>3, <1>4 DEF InStep
    <3> QED  BY <1>4, <2>2, <3>1
  <2>4. Len(g) <= Len(wrote[d]) /\ \A n \in 1..Len(g) : g[n] = wrote[d][n]
    BY <1>2, <1>4, <2>2, <2>3 DEF InStep
  <2>5. SubSeq(wrote[d], 1, Len(g)) = g
    <3> DEFINE w == SubSeq(wrote[d], 1, Len(g))
    <3>1. w \in Seq(Encrypted) /\ Len(w) = Len(g) /\ \A n \in 1..Len(g) : w[n] = wrote[d][n]
      <4> HIDE DEF g
      <4> QED  BY <1>3, <1>4, <2>3, <2>4
    <3> HIDE DEF g, w
    <3>2. w = g
      BY <2>3, <2>4, <3>1, SeqEqual
    <3> QED  BY <3>2 DEF w
  <2>6. SubSeq(g, 1, Len(g)) = g
    <3> HIDE DEF g
    <3> QED  BY <2>3, SeqWhole
  <2> QED  BY <2>4, <2>5, <2>6 DEF IsPrefix
<1> QED  BY <1>1, <1>6, <1>8, <1>9

-----------------------------------------------------------------------------
(* SessionsMatch: an initiator never has a session alone; its responder    *)
(* has exposed the same one before, with the two identities exchanged.     *)
THEOREM SessionsAreMatched == Spec => []SessionsMatch
<1>1. HandshakeInv => SessionsMatch
  BY Matches DEF HandshakeInv
<1> QED  BY <1>1, HandshakeInvariant, PTL

(* ResponderIsAnswered: a responder exposes a session only over a          *)
(* transcript its initiator has verified, and only with the device each    *)
(* side was looking for.                                                   *)
THEOREM RespondersAreAnswered == Spec => []ResponderIsAnswered
<1>1. HandshakeInv => ResponderIsAnswered
  BY Answers DEF HandshakeInv
<1> QED  BY <1>1, HandshakeInvariant, PTL

(* CertificatesHold: first contact exposes no session with a certificate   *)
(* either side finds expired, and a reconnect none but its record's.       *)
THEOREM CertificatesAreGood == Spec => []CertificatesHold
<1>1. HandshakeInv => CertificatesHold
  BY Holds DEF HandshakeInv
<1> QED  BY <1>1, HandshakeInvariant, PTL

(* BindingsAreFresh: no two sessions, other than the two ends of one       *)
(* handshake, have the same binding.                                       *)
THEOREM BindingsDiffer == Spec => []BindingsAreFresh
<1>1. HandshakeInv => BindingsAreFresh
  BY Fresh DEF HandshakeInv
<1> QED  BY <1>1, HandshakeInvariant, PTL

(* PayloadsAreThePeers: what a session reads is a prefix of what the       *)
(* device it has authenticated wrote into the session of the same binding. *)
THEOREM PayloadsArrive == Spec => []PayloadsAreThePeers
<1>1. HandshakeInv => PayloadsAreThePeers
  BY Reads DEF HandshakeInv
<1> QED  BY <1>1, HandshakeInvariant, PTL
=============================================================================
