----------------------------- MODULE Handshake -----------------------------
(***************************************************************************)
(* The authenticated pairing handshake (pairing.rs): PairingInitiator and  *)
(* PairingResponder, two caller-driven objects that run Noise XX and then  *)
(* prove their certified identities over its transcript; and the           *)
(* AuthenticatedPairingSession they yield, which carries payloads.         *)
(*                                                                         *)
(* A caller may hand any frame to any object, late, twice or out of order, *)
(* and go on after an error: a frame once sent stays available.  A call    *)
(* that fails before it changes the object is no step; one that fails      *)
(* later keeps what it has changed.                                        *)
(*                                                                         *)
(* Noise is external.  The key of a transport stands for the handshake     *)
(* hash and the cipher state: it is determined by the initiator object and *)
(* by the start the responder object has answered.  Random PairIDs do not  *)
(* repeat: a first-contact initiator is its own PairID.                    *)
(*                                                                         *)
(* An optional value is a set with at most one element.                    *)
(***************************************************************************)
EXTENDS Naturals, Sequences, SequencesExt

CONSTANTS
    Initiators,   \* PairingInitiator objects
    Responders,   \* PairingResponder objects
    Devices,      \* enrolled devices
    Contexts,     \* PairedIdentityContexts of the pairing store
    MaxStarts,    \* bound: starts answered by one responder object
    MaxPayloads   \* bound: payloads written into all sessions together

(* A certificate: its device, and whether the others find it expired. *)
Cert == [device : Devices, expired : BOOLEAN]

PairIds == Initiators \cup {c.pid : c \in Contexts}

ASSUME ContextsAssumption ==
    /\ \A c \in Contexts : /\ c.initiator \in Cert
                           /\ c.responder \in Cert
                           /\ c.initiator.device # c.responder.device
                           /\ c.pid \notin Initiators
    /\ \A b, c \in Contexts : b.pid = c.pid => b = c
ASSUME StartsAssumption == MaxStarts \in Nat \ {0}
ASSUME PayloadsAssumption == MaxPayloads \in Nat

VARIABLES
    ini,      \* the initiator objects
    res,      \* the responder objects
    frames,   \* handshake and auth frames sent so far
    wrote,    \* per end of a session, what has been encrypted
    got       \* per end of a session, the payloads read

vars == <<ini, res, frames, wrote, got>>

Key == [ini : Initiators, res : Responders, start : 1..MaxStarts]

Transcript == [key : Key, reconnect : BOOLEAN, pid : PairIds,
               initiator : Cert, responder : Cert]

(* The two ends of a transport. *)
Role == {"initiator", "responder"}
Other(role) == CHOOSE r \in Role : r # role
End == [key : Key, role : Role]

(* Payloads are numbered as they are encrypted; a frame that would be too  *)
(* long is not sent. *)
Payload == 1..MaxPayloads
Encrypted == [payload : Payload, sent : BOOLEAN]

(* AuthenticatedPairingSession *)
Session == [key : Key, binding : Transcript, pid : PairIds,
            local : Cert, peer : Cert]

Frame ==
    [kind : {"start"}, ini : Initiators, reconnect : BOOLEAN, pid : PairIds]
        \cup [kind : {"reply"}, key : Key, reconnect : BOOLEAN, pid : PairIds]
        \cup [kind : {"finish"}, key : Key]
        \cup [kind : {"auth"}, key : Key, seq : 1..4,
              cert : SUBSET Cert, signed : SUBSET Transcript]

(* How an object is built: for first contact with a certificate its own    *)
(* clock accepts, or from the context of a pairing. *)
IniConfig(i) ==
    {[reconnect |-> FALSE, pid |-> i, cert |-> c, expected |-> e] :
        c \in Cert, e \in Devices}
    \cup {[reconnect |-> TRUE, pid |-> c.pid, cert |-> c.initiator,
           expected |-> c.responder.device] : c \in Contexts}

ResConfig ==
    {[reconnect |-> FALSE, pid |-> {}, cert |-> c, expected |-> e] :
        c \in Cert, e \in Devices}
    \cup {[reconnect |-> TRUE, pid |-> {c.pid}, cert |-> c.responder,
           expected |-> c.initiator.device] : c \in Contexts}

(* What an object has reached: its Noise handshake, the transport and the  *)
(* frames read from it, and the authenticated peer. *)
NewObject == [transport |-> {}, read |-> 0, peer |-> {}, transcript |-> {},
              sentAuth |-> FALSE, sessions |-> {}]

Progress == [transport : SUBSET Key, read : 0..2, peer : SUBSET Cert,
             transcript : SUBSET Transcript, sentAuth : BOOLEAN,
             sessions : SUBSET Session]

Initiator == [at : Progress, phase : {"fresh", "started", "done"},
              reconnect : BOOLEAN, pid : PairIds, cert : Cert,
              expected : Devices]
Responder == [at : Progress, handshake : SUBSET Key, starts : 0..MaxStarts,
              reconnect : BOOLEAN, pid : SUBSET PairIds, cert : Cert,
              expected : Devices]

TypeOK ==
    /\ ini \in [Initiators -> Initiator]
    /\ res \in [Responders -> Responder]
    /\ frames \subseteq Frame
    /\ wrote \in [End -> Seq(Encrypted)]
    /\ got \in [End -> Seq(Payload)]

IniObject(c) == [at |-> NewObject, phase |-> "fresh", reconnect |-> c.reconnect,
                 pid |-> c.pid, cert |-> c.cert, expected |-> c.expected]
ResObject(c) == [at |-> NewObject, handshake |-> {}, starts |-> 0,
                 reconnect |-> c.reconnect, pid |-> c.pid, cert |-> c.cert,
                 expected |-> c.expected]

(* new and new_reconnect of the objects; a caller names a peer other than  *)
(* itself. *)
Init ==
    /\ \E c \in [Initiators -> UNION {IniConfig(i) : i \in Initiators}] :
          /\ \A i \in Initiators : /\ c[i] \in IniConfig(i)
                                   /\ c[i].expected # c[i].cert.device
          /\ ini = [i \in Initiators |-> IniObject(c[i])]
    /\ \E d \in [Responders -> ResConfig] :
          /\ \A r \in Responders : d[r].expected # d[r].cert.device
          /\ res = [r \in Responders |-> ResObject(d[r])]
    /\ frames = {}
    /\ wrote = [e \in End |-> <<>>]
    /\ got = [e \in End |-> <<>>]

-----------------------------------------------------------------------------
(* Frames.                                                                 *)

Start(i) == [kind |-> "start", ini |-> i, reconnect |-> ini[i].reconnect,
             pid |-> ini[i].pid]
Reply(k, f) == [kind |-> "reply", key |-> k, reconnect |-> f.reconnect,
                pid |-> f.pid]
Finish(k) == [kind |-> "finish", key |-> k]
(* Mutant: sequence numbers from zero. *)
AuthFromZero(k, seq, cert, signed) ==
    [kind |-> "auth", key |-> k, seq |-> seq - 1, cert |-> cert, signed |-> signed]

(* encrypt_auth.  A signature is written as the transcript it is over,     *)
(* which names the signer: each side puts its own certificate in it.       *)
Auth(k, seq, cert, signed) ==
    [kind |-> "auth", key |-> k, seq |-> seq, cert |-> cert, signed |-> signed]
AuthFrames == {f \in frames : f.kind = "auth"}

(* decrypt_auth: the frame is the expected one, and the transport of o     *)
(* decrypts it: each direction numbers its frames, 1 and 3, 2 and 4. *)
Decrypts(o, f, seq) ==
    /\ f.seq = seq
    /\ f.key \in o.transport
    /\ o.read = (seq - 1) \div 2

-----------------------------------------------------------------------------
(* Peer identities.                                                        *)

Context(pids) == {c \in Contexts : c.pid \in pids}

(* Mutant: the certificate's age is not looked at. *)
ValidAtAnyAge(o, cert, pinned) == o.reconnect => cert \in pinned

(* Mutant: on a reconnect, too, the certificate must be valid now. *)
ValidNow(o, cert, pinned) ==
    ~cert.expired /\ (o.reconnect => cert \in pinned)

(* parse_auth_hello, parse_auth_proof and parse_paired_auth. *)
Valid(o, cert, pinned) ==
    IF o.reconnect THEN cert \in pinned ELSE ~cert.expired

(* Mutant: any certified device will do. *)
IdentifiesAny(o, cert, pinned) ==
    Valid(o, cert, pinned) /\ cert.device # o.cert.device

(* The identity o accepts of its peer. *)
Identifies(o, cert, pinned) ==
    /\ Valid(o, cert, pinned)
    /\ cert.device # o.cert.device
    /\ cert.device = o.expected

(* Mutant: the Noise hash is left out of the transcript. *)
TranscriptWithoutHash(k, o, pid, c, d) ==
    [key |-> CHOOSE key \in Key : TRUE, reconnect |-> o.reconnect, pid |-> pid,
     initiator |-> c, responder |-> d]

(* make_transcript *)
TranscriptOf(k, o, pid, c, d) ==
    [key |-> k, reconnect |-> o.reconnect, pid |-> pid,
     initiator |-> c, responder |-> d]

SessionOf(k, t, local, peer) ==
    [key |-> k, binding |-> t, pid |-> t.pid, local |-> local, peer |-> peer]

-----------------------------------------------------------------------------
(* PairingInitiator.                                                       *)

(* start: Noise refuses to write the first message twice. *)
IniStart(i) ==
    /\ ini[i].phase = "fresh"
    /\ ini' = [ini EXCEPT ![i].phase = "started"]
    /\ frames' = frames \cup {Start(i)}
    /\ UNCHANGED <<res, wrote, got>>

(* receive_responder_handshake: Noise reads a reply to this object's start *)
(* under the same mode and PairID. *)
IniReceiveHandshake(i) ==
    /\ ini[i].phase = "started"
    /\ \E f \in {g \in frames : g.kind = "reply"} :
          /\ f.key.ini = i
          /\ f.reconnect = ini[i].reconnect
          /\ f.pid = ini[i].pid
          /\ ini' = [ini EXCEPT ![i].phase = "done",
                                ![i].at.transport = {f.key},
                                ![i].at.sentAuth = TRUE]
          /\ frames' = frames \cup {Finish(f.key),
                                    Auth(f.key, 1, {ini[i].cert}, {})}
    /\ UNCHANGED <<res, wrote, got>>

(* receive_responder_auth: the responder's certificate and its signature   *)
(* over the transcript; a refused frame is read all the same. *)
IniReceiveAuth(i) ==
    LET o == ini[i] IN
    /\ o.at.sentAuth
    /\ \E f \in AuthFrames : \E c \in f.cert :
          /\ Decrypts(o.at, f, 2)
          /\ LET t == TranscriptOf(f.key, o, o.pid, o.cert, c)
                 ok == /\ Identifies(o, c, {x.responder : x \in Context({o.pid})})
                       /\ f.signed = {t}
             IN IF ok
                    THEN /\ ini' = [ini EXCEPT ![i].at.read = 1,
                                               ![i].at.peer = {c},
                                               ![i].at.transcript = {t}]
                         /\ frames' = frames \cup {Auth(f.key, 3, {}, {t})}
                    ELSE /\ ini' = [ini EXCEPT ![i].at.read = 1]
                         /\ frames' = frames
    /\ UNCHANGED <<res, wrote, got>>

(* Mutant: the session is exposed before the acknowledgement. *)
IniSkipsAck(i) ==
    LET o == ini[i] IN
    /\ \E k \in o.at.transport, c \in o.at.peer, t \in o.at.transcript :
          ini' = [ini EXCEPT ![i].at.transport = {}, ![i].at.peer = {},
                             ![i].at.sessions = @ \cup {SessionOf(k, t, o.cert, c)}]
    /\ UNCHANGED <<res, frames, wrote, got>>

(* receive_responder_ack *)
IniReceiveAck(i) ==
    LET o == ini[i] IN
    /\ \E f \in AuthFrames :
          /\ Decrypts(o.at, f, 4)
          /\ IF o.at.peer = {}
                 THEN ini' = [ini EXCEPT ![i].at.read = 2]
                 ELSE \E c \in o.at.peer, t \in o.at.transcript :
                         ini' = [ini EXCEPT
                             ![i].at.transport = {}, ![i].at.peer = {},
                             ![i].at.read = 2,
                             ![i].at.sessions = @ \cup {SessionOf(f.key, t, o.cert, c)}]
    /\ UNCHANGED <<res, frames, wrote, got>>

-----------------------------------------------------------------------------
(* PairingResponder.                                                       *)

(* receive_initiator_start: the mode must be ours and the PairID that of   *)
(* our context, or of the first start; a new start replaces the Noise      *)
(* handshake, whatever the object has reached. *)
ResReceiveStart(r) ==
    LET o == res[r]
        n == o.starts + 1 IN
    /\ o.starts < MaxStarts
    /\ \E f \in {g \in frames : g.kind = "start"} :
          /\ f.reconnect = o.reconnect
          /\ o.pid # {} => f.pid \in o.pid
          /\ LET k == [ini |-> f.ini, res |-> r, start |-> n] IN
             /\ res' = [res EXCEPT ![r].handshake = {k}, ![r].starts = n,
                                   ![r].pid = {f.pid}]
             /\ frames' = frames \cup {Reply(k, f)}
    /\ UNCHANGED <<ini, wrote, got>>

(* receive_initiator_finish: Noise ends with the transport in place,       *)
(* before the frame that goes with it is looked at. *)
ResReceiveFinish(r) ==
    LET o == res[r] IN
    /\ \E k \in o.handshake :
          /\ Finish(k) \in frames
          /\ \E f \in AuthFrames :
             LET entered == [o EXCEPT !.handshake = {}, !.at.transport = {k},
                                      !.at.read = 0]
             IN IF ~Decrypts(entered.at, f, 1)
                    THEN /\ res' = [res EXCEPT ![r] = entered]
                         /\ frames' = frames
                    ELSE \E c \in f.cert, pid \in o.pid :
                         LET t == TranscriptOf(k, o, pid, c, o.cert) IN
                         IF Identifies(o, c, {x.initiator : x \in Context(o.pid)})
                             THEN /\ res' = [res EXCEPT ![r] =
                                        [entered EXCEPT !.at.read = 1,
                                            !.at.peer = {c},
                                            !.at.transcript = {t},
                                            !.at.sentAuth = TRUE]]
                                  /\ frames' = frames \cup
                                        {Auth(k, 2, {o.cert}, {t})}
                             ELSE /\ res' = [res EXCEPT ![r] =
                                        [entered EXCEPT !.at.read = 1]]
                                  /\ frames' = frames
    /\ UNCHANGED <<ini, wrote, got>>

(* receive_initiator_auth: the initiator's signature over the transcript;  *)
(* the session is exposed and acknowledged. *)
ResReceiveAuth(r) ==
    LET o == res[r] IN
    /\ o.at.sentAuth
    /\ \E f \in AuthFrames :
          /\ Decrypts(o.at, f, 3)
          /\ IF f.signed = o.at.transcript
                 THEN \E c \in o.at.peer, t \in o.at.transcript :
                      /\ res' = [res EXCEPT
                             ![r].at.transport = {}, ![r].at.read = 2,
                             ![r].at.sessions = @ \cup {SessionOf(f.key, t, o.cert, c)}]
                      /\ frames' = frames \cup {Auth(f.key, 4, {}, {})}
                 ELSE /\ res' = [res EXCEPT ![r].at.read = 2]
                      /\ frames' = frames
    /\ UNCHANGED <<ini, wrote, got>>

-----------------------------------------------------------------------------
(* AuthenticatedPairingSession.  Its transport numbers the frames of each  *)
(* direction on from the auth frames, so that a frame is read in its turn  *)
(* or not at all; a frame that is refused leaves no trace.                 *)

SessionsAt(e) ==
    {s \in IF e.role = "initiator" THEN ini[e.key.ini].at.sessions
                                  ELSE res[e.key.res].at.sessions :
        s.key = e.key}

(* The frames of a session's end, by their place in its direction. *)
TransportFrames ==
    UNION {{[end |-> e, seq |-> n, payload |-> wrote[e][n].payload] :
               n \in {m \in DOMAIN wrote[e] : wrote[e][m].sent}} : e \in End}

NextPayload == 1 + FoldFunction(LAMBDA seq, n : Len(seq) + n, 0, wrote)

(* encrypt: the payload takes its place in the direction before the length *)
(* of the frame is looked at, and the limit on frames leaves less room     *)
(* than the limit on payloads; the place of one that fits the second limit *)
(* and not the first stays empty. *)
Encrypt(e) ==
    /\ SessionsAt(e) # {}
    /\ NextPayload \in Payload
    /\ \E fits \in BOOLEAN :
          wrote' = [wrote EXCEPT ![e] =
                       Append(@, [payload |-> NextPayload, sent |-> fits])]
    /\ UNCHANGED <<ini, res, frames, got>>

(* Mutant: frames are read in any order, any number of times. *)
DecryptUnnumbered(e) ==
    /\ SessionsAt(e) # {}
    /\ Len(got[e]) < MaxPayloads
    /\ \E f \in TransportFrames :
          /\ f.end = [key |-> e.key, role |-> Other(e.role)]
          /\ got' = [got EXCEPT ![e] = Append(@, f.payload)]
    /\ UNCHANGED <<ini, res, frames, wrote>>

(* decrypt: the other side's frame, under this key and in its turn. *)
Decrypt(e) ==
    /\ SessionsAt(e) # {}
    /\ \E f \in TransportFrames :
          /\ f.end.role # e.role
          /\ f.end.key = e.key
          /\ f.seq = Len(got[e]) + 1
          /\ got' = [got EXCEPT ![e] = Append(@, f.payload)]
    /\ UNCHANGED <<ini, res, frames, wrote>>

-----------------------------------------------------------------------------
IniStep(i) ==
    IniStart(i) \/ IniReceiveHandshake(i) \/ IniReceiveAuth(i) \/ IniReceiveAck(i)
ResStep(r) == ResReceiveStart(r) \/ ResReceiveFinish(r) \/ ResReceiveAuth(r)

Next ==
    \/ \E i \in Initiators : IniStep(i)
    \/ \E r \in Responders : ResStep(r)
    \/ \E e \in End : Encrypt(e) \/ Decrypt(e)

Spec == Init /\ [][Next]_vars

(* The driver (run_initiator, run_responder_with_start) makes each call    *)
(* once, as soon as its frame is there; nothing has to call again. *)
Fairness ==
    /\ \A i \in Initiators : WF_vars(IniStep(i))
    /\ \A r \in Responders :
          /\ WF_vars(res[r].starts = 0 /\ ResReceiveStart(r))
          /\ WF_vars(ResReceiveFinish(r))
          /\ WF_vars(ResReceiveAuth(r))

LiveSpec == Spec /\ Fairness

-----------------------------------------------------------------------------
(* An initiator never has a session alone: the responder named by its key  *)
(* exposed its own before, and the two agree on the binding, the PairID    *)
(* and who is who, whatever other handshakes were interleaved with theirs. *)
(* A first contact and a reconnect, or two PairIDs, are never joined.      *)
SessionsMatch ==
    \A i \in Initiators : \A s \in ini[i].at.sessions :
        /\ s.key.ini = i
        /\ \E t \in res[s.key.res].at.sessions :
              t = [s EXCEPT !.local = s.peer, !.peer = s.local]

(* A responder's session rests on an initiator that has verified it: it    *)
(* holds the same transcript, was looking for this very device, and is the *)
(* device this responder was looking for. *)
ResponderIsAnswered ==
    \A r \in Responders : \A s \in res[r].at.sessions :
        LET i == s.key.ini IN
        /\ s.key.res = r
        /\ ini[i].at.transcript = {s.binding}
        /\ s.binding.key = s.key
        /\ ini[i].expected = res[r].cert.device /\ res[r].expected = ini[i].cert.device
        /\ ini[i].cert = s.peer /\ res[r].cert = s.local

(* No session is exposed for first contact with a certificate the peer     *)
(* finds expired, on either side; a reconnect has the certificates of its  *)
(* record, whatever their age. *)
CertificatesHold ==
    \A s \in UNION ({ini[i].at.sessions : i \in Initiators}
                        \cup {res[r].at.sessions : r \in Responders}) :
        IF s.binding.reconnect
            THEN \E c \in Context({s.pid}) :
                    {s.local, s.peer} = {c.initiator, c.responder}
            ELSE ~s.local.expired /\ ~s.peer.expired

(* A binding is never used twice: sessions of different objects, or two    *)
(* sessions of one, have different bindings unless they are the two ends   *)
(* of one handshake.  Pairing relies on it to tell sessions apart.         *)
BindingsAreFresh ==
    /\ \A i, j \in Initiators :
          \A s \in ini[i].at.sessions, t \in ini[j].at.sessions :
             s.binding = t.binding => i = j /\ s = t
    /\ \A q, r \in Responders :
          \A s \in res[q].at.sessions, t \in res[r].at.sessions :
             s.binding = t.binding => q = r /\ s = t

(* What a session reads was written, in this order and each payload once,  *)
(* by the device it has authenticated, into that device's session of the   *)
(* same binding: never by another handshake of the same two objects, and   *)
(* never by the reader itself.  Nothing is read past a payload that was    *)
(* encrypted and not sent: such a session falls silent, and is not wrong.  *)
PayloadsAreThePeers ==
    \A e \in End : got[e] # <<>> =>
        \E d \in End : \E s \in SessionsAt(e), t \in SessionsAt(d) :
            /\ IsPrefix([n \in DOMAIN got[e] |-> [payload |-> got[e][n], sent |-> TRUE]],
                        wrote[d])
            /\ d.role # e.role
            /\ t.binding = s.binding
            /\ t.local = s.peer /\ t.peer = s.local

(* Two objects built for each other authenticate each other, reconnecting  *)
(* ones after their certificates have expired too, as long as the caller   *)
(* keeps other handshakes and misplaced frames away from them.             *)
Compatible(i, r) ==
    /\ ini[i].reconnect = res[r].reconnect
    /\ res[r].pid \subseteq {ini[i].pid}
    /\ ini[i].expected = res[r].cert.device
    /\ res[r].expected = ini[i].cert.device
    /\ ~ini[i].reconnect => ~ini[i].cert.expired /\ ~res[r].cert.expired

Undisturbed(i, r) ==
    /\ res[r].starts <= 1
    /\ \A k \in res[r].handshake \cup res[r].at.transport : k.ini = i
    /\ \A k \in ini[i].at.transport : k.res = r
    /\ res[r].at.transport # {} => res[r].at.transcript # {} \/ res[r].at.read = 1

EventuallyAuthenticated ==
    \A i \in Initiators, r \in Responders :
        Compatible(i, r) /\ []Undisturbed(i, r) =>
            <>(ini[i].at.sessions # {} /\ res[r].at.sessions # {})
=============================================================================
