------------------------------ MODULE Renewal ------------------------------
(***************************************************************************)
(* Pairing records under certificates that expire and are renewed.  One    *)
(* responder (runtime_v3.rs, run_responder_with_start) pairs with several  *)
(* initiators (run_initiator); every record carries the certificates of    *)
(* the session it was made in, and the code verifies them at three         *)
(* different times:                                                        *)
(*                                                                         *)
(*   when they authenticate a first contact, at the time each side built   *)
(*   its object, and on prepare, co_sign, resume_prepare and finalize at   *)
(*   the time the side opened its store (trust.rs, validate_record);       *)
(*                                                                         *)
(*   on reconcile at the record's authorized_at;                           *)
(*                                                                         *)
(*   whenever a directory is scanned or a record is loaded, also at its    *)
(*   authorized_at (validate_stored, validate_pending_stored).             *)
(*                                                                         *)
(* A session may be lost between any two of its steps; what a crash inside *)
(* a store operation leaves is the subject of Pairing.  A tick is long     *)
(* against the 90 seconds a discovered peer stays in the cache.            *)
(*                                                                         *)
(* An optional value is a set with at most one element.                    *)
(***************************************************************************)
EXTENDS Naturals, FiniteSets

CONSTANTS
    Initiators,   \* devices with a DeviceID lower than the responder's
    Responder,    \* the device they pair with
    PairIds,      \* PairIDs an initiator may draw at random
    Lifetime,     \* not_after - not_before of every certificate
    MaxTime,      \* bound: the last tick
    MaxLost       \* bound: sessions lost

ASSUME DevicesAssumption == Responder \notin Initiators
ASSUME PairIdsAssumption == PairIds \subseteq Nat \ {0}
ASSUME TimesAssumption ==
    /\ Lifetime \in Nat \ {0}
    /\ MaxTime \in Nat \ {0}
    /\ MaxLost \in Nat

Device == Initiators \cup {Responder}
Time == 1..MaxTime

(* A certificate of a device is written as its not_before.  A record holds *)
(* the certificates of the session it was made in and the time of the      *)
(* authorization it rests on. *)
Record == [pid : PairIds, initiator : Initiators,
           ini : Time, res : Time, authorized_at : Time]

VARIABLES
    clock,      \* SystemTime, in ticks
    cert,       \* the certificate each running daemon was enrolled with
    active,     \* trust/pairings of each device
    pending,    \* trust/pending-pairings of each device
    session,    \* the session of the responder's single gate
    lost        \* sessions that may still be lost

stores == <<active, pending>>
vars == <<clock, cert, stores, session, lost>>

(* ini_now and res_now: the times of the two stores and objects. *)
Session ==
    [pc : {"connected", "authorizing", "prepared", "completed", "finalized"},
     initiator : Initiators, reconnect : BOOLEAN, pid : PairIds,
     ini_now : Time, res_now : Time, record : SUBSET Record]

TypeOK ==
    /\ clock \in Time
    /\ cert \in [Device -> Time]
    /\ active \in [Device -> SUBSET Record]
    /\ pending \in [Device -> SUBSET Record]
    /\ session \subseteq Session /\ Cardinality(session) <= 1
    /\ lost \in 0..MaxLost

Init ==
    /\ clock = 1
    /\ cert = [d \in Device |-> 1]
    /\ active = [d \in Device |-> {}]
    /\ pending = [d \in Device |-> {}]
    /\ session = {}
    /\ lost = MaxLost

-----------------------------------------------------------------------------
(* Certificates.                                                           *)

(* DeviceCertificate::verify: the validity window is half open. *)
Certifies(c, t) == c <= t /\ t < c + Lifetime

(* Both certificates of a record, or of a session, at one time. *)
Certified(r, t) == Certifies(r.ini, t) /\ Certifies(r.res, t)

(* What others see of a daemon: its announcements are verified now. *)
Announced(d) == Certifies(cert[d], clock)

-----------------------------------------------------------------------------
(* Directory scans, in an order given by the PairIDs.                      *)

OfPeer(S, i) == {r \in S : r.initiator = i}
Found(S, i) == {r \in OfPeer(S, i) : \A s \in OfPeer(S, i) : r.pid <= s.pid}

(* pending_for_peer and active_pair_for_peer_at validate every record they *)
(* meet, of any peer, until they find one of the peer they look for.       *)
Readable(S, i) ==
    \A r \in S : (\A s \in OfPeer(S, i) : r.pid <= s.pid)
                    => Certified(r, r.authorized_at)

Pids(S) == {r.pid : r \in S}
FreshPids == PairIds \ UNION {Pids(active[d] \cup pending[d]) : d \in Device}

-----------------------------------------------------------------------------
(* The initiator attempts a session when each daemon has discovered the    *)
(* other and it has no active record of the responder, or pending state.   *)
(* With a store it cannot read the attempt fails before anything is sent.  *)
Connect(i) ==
    /\ session = {}
    /\ Announced(i) /\ Announced(Responder)
    /\ Readable(active[i], i) /\ Readable(pending[i], i)
    /\ active[i] = {} \/ pending[i] # {}
    /\ LET known == IF active[i] # {} THEN Found(active[i], i)
                                      ELSE Found(pending[i], i) IN
       \E p \in IF known # {} THEN Pids(known) ELSE FreshPids :
          session' = {[pc |-> "connected", initiator |-> i, pid |-> p,
                       reconnect |-> known # {},
                       ini_now |-> clock, res_now |-> clock, record |-> {}]}
    /\ UNCHANGED <<clock, cert, stores, lost>>

(* Mutant: a resumed authorization is dated like a new one. *)
AuthorizationOfRestamped(s, old) == s.res_now

(* The authorization a resumed record rests on (resume_prepare). *)
AuthorizationOf(s, old) == old.authorized_at

(* record_from_session, on first contact. *)
NewRecord(s, t) ==
    [pid |-> s.pid, initiator |-> s.initiator, ini |-> cert[s.initiator],
     res |-> cert[Responder], authorized_at |-> t]

(* Prepared: a record of this session, valid at the responder's store time *)
(* (which its handshake has established), is pending and sent. *)
Prepare(s, r) ==
    /\ pending' = [pending EXCEPT ![Responder] = @ \cup {r}]
    /\ session' = {[s EXCEPT !.pc = "prepared", !.record = {r}]}

(* The authenticated handshake.  First contact: each side verifies both    *)
(* certificates at its own time.  Reconnect: those of the record, of any   *)
(* age, under a PairID both sides have on record. *)
Authenticates(s, known) ==
    IF s.reconnect
        THEN s.pid \in Pids(known)
        ELSE /\ OfPeer(active[Responder], s.initiator) = {}
             /\ \A t \in {s.ini_now, s.res_now} :
                   Certified([ini |-> cert[s.initiator], res |-> cert[Responder]], t)

(* The responder opens its store, authenticates the initiator and answers  *)
(* Request: with its active record and Finalized, with its pending record, *)
(* with a pending authorization bound to this session, or by prompting.    *)
Accept ==
    \E old \in session :
        LET s == [old EXCEPT !.res_now = clock]
            i == s.initiator
            trusted == Found(active[Responder], i)
            resumable == Found(pending[Responder], i)
            known == IF trusted # {} THEN trusted ELSE resumable
        IN
        /\ s.pc = "connected"
        /\ IF /\ Readable(active[Responder], i)
              /\ Readable(pending[Responder], i)
              /\ Authenticates(s, known)
             THEN \/ /\ trusted # {}
                     /\ session' = {[s EXCEPT !.pc = "finalized", !.record = trusted]}
                     /\ pending' = pending
                  \/ /\ trusted = {} /\ s.reconnect
                     /\ session' = {[s EXCEPT !.pc = "prepared", !.record = resumable]}
                     /\ pending' = pending
                  \/ /\ trusted = {} /\ ~s.reconnect
                     /\ \E r \in resumable : Prepare(s, NewRecord(s, AuthorizationOf(s, r)))
                  \/ /\ known = {} /\ ~s.reconnect
                     /\ session' = {[s EXCEPT !.pc = "authorizing"]}
                     /\ pending' = pending
             ELSE session' = {} /\ pending' = pending
        /\ UNCHANGED <<clock, cert, active, lost>>

(* Mutant: the time the record was made with is kept. *)
PromptTimeUnset(s) == 0

(* Mutant: authorized_at is the time of the user's answer. *)
PromptTimeOfAnswer(s) == clock

(* authorized_at is the time the store was opened, however long the prompt *)
(* took: the answer may come after the certificates have expired. *)
PromptTime(s) == s.res_now

Approve ==
    \E s \in session :
        /\ s.pc = "authorizing"
        /\ Prepare(s, NewRecord(s, PromptTime(s)))
        /\ UNCHANGED <<clock, cert, active, lost>>

(* The initiator answers Prepared: with the record it has already signed,  *)
(* or after co_sign, which wants a record of this session whose            *)
(* certificates are valid at the time its own store was opened. *)
Complete ==
    \E s \in session : \E r \in s.record :
        LET i == s.initiator
            signed == Found(pending[i], i) IN
        /\ s.pc = "prepared"
        /\ \/ /\ Readable(pending[i], i) /\ Pids(signed) = {r.pid}
              /\ session' = {[s EXCEPT !.pc = "completed", !.record = signed]}
              /\ pending' = pending
           \/ /\ signed = {} /\ ~s.reconnect /\ Certified(r, s.ini_now)
              /\ session' = {[s EXCEPT !.pc = "completed"]}
              /\ pending' = [pending EXCEPT ![i] = {r}]
        /\ UNCHANGED <<clock, cert, active, lost>>

(* Mutant: a reconciled record, too, must be certified now. *)
ReconciledNow(s, r) == Certified(r, clock)

(* reconcile: the certificates count as of the authorization. *)
Reconciled(s, r) == Certified(r, r.authorized_at)

(* persist_active, with its remove_stale_pending. *)
Trusts(d, r) ==
    /\ active' = [active EXCEPT ![d] = @ \cup {r}]
    /\ pending' = [pending EXCEPT ![d] = @ \ OfPeer(@, r.initiator)]

(* The responder activates what the initiator has completed: finalize in   *)
(* the session that made the record, reconcile in any other. *)
Finalize ==
    \E s \in session : \E r \in s.record :
        /\ s.pc = "completed"
        /\ IF IF s.reconnect THEN Reconciled(s, r) ELSE Certified(r, s.res_now)
             THEN /\ Trusts(Responder, r)
                  /\ session' = {[s EXCEPT !.pc = "finalized"]}
             ELSE session' = {} /\ UNCHANGED stores
        /\ UNCHANGED <<clock, cert, lost>>

(* The initiator activates last, always through reconcile. *)
Reconcile ==
    \E s \in session : \E r \in s.record :
        /\ s.pc = "finalized"
        /\ IF Reconciled(s, r) THEN Trusts(s.initiator, r) ELSE UNCHANGED stores
        /\ session' = {}
        /\ UNCHANGED <<clock, cert, lost>>

(* The connection breaks, times out or is denied, or a daemon crashes. *)
Lose ==
    /\ session # {}
    /\ lost > 0
    /\ lost' = lost - 1
    /\ session' = {}
    /\ UNCHANGED <<clock, cert, stores>>

Tick ==
    /\ clock < MaxTime
    /\ clock' = clock + 1
    /\ UNCHANGED <<cert, stores, session, lost>>

(* load_enrollment: a certificate just issued is installed and the daemon  *)
(* restarted.  A daemon restarted with an expired certificate ends at      *)
(* once, which is to say that nobody discovers it. *)
Renew(d) ==
    /\ \A s \in session : d \notin {s.initiator, Responder}
    /\ cert[d] < clock
    /\ cert' = [cert EXCEPT ![d] = clock]
    /\ UNCHANGED <<clock, stores, session, lost>>

-----------------------------------------------------------------------------
SessionStep == Accept \/ Approve \/ Complete \/ Finalize \/ Reconcile

Next ==
    \/ \E i \in Initiators : Connect(i)
    \/ SessionStep
    \/ Lose \/ Tick
    \/ \E d \in Device : Renew(d)

Spec == Init /\ [][Next]_vars

(* Discovery repeats, so attempts recur; sessions run on and the user      *)
(* answers.  Neither time nor the issuer has to do anything. *)
Fairness ==
    /\ \A i \in Initiators : WF_vars(Connect(i))
    /\ WF_vars(SessionStep)

LiveSpec == Spec /\ Fairness

-----------------------------------------------------------------------------
(* What an initiator trusts it can always load: reconcile has verified the *)
(* certificates at the very time every later scan verifies them at, so     *)
(* neither expiry nor renewal makes its directory unreadable.              *)
InitiatorTrustLoads ==
    \A i \in Initiators : \A r \in active[i] :
        /\ r.ini <= r.authorized_at /\ r.authorized_at < r.ini + Lifetime
        /\ r.res <= r.authorized_at /\ r.authorized_at < r.res + Lifetime

(* Expiry makes no record unreadable, active or pending, on either device: *)
(* every scan verifies a record at its authorized_at, and that lies before *)
(* both its certificates expire, although prompts and sessions may outlast *)
(* them and the user's answer, which is not what authorized_at records,    *)
(* may come after both have expired.  Only a renewed certificate makes a   *)
(* record unreadable (AuthorizationIsRebound).                             *)
ExpiryLeavesReadable ==
    \A d \in Device : \A r \in active[d] \cup pending[d] :
        /\ r.authorized_at < r.ini + Lifetime
        /\ r.authorized_at < r.res + Lifetime

(* The user is asked once: through lost sessions, expiry and renewal, all  *)
(* records of two devices, on both of them, rest on the same authorization *)
(* and no later one takes its place.                                       *)
AuthorizedOnce ==
    \A c, d \in Device : \A r \in active[c] \cup pending[c],
                            s \in active[d] \cup pending[d] :
        r.initiator = s.initiator => r.authorized_at = s.authorized_at

(* Expiry erases nothing: a pairing that both devices have signed under    *)
(* certificates valid at its authorization is completed on both, however   *)
(* long these have expired when the interrupted exchange is taken up       *)
(* again.  Both daemons must stay discoverable, under whatever             *)
(* certificates they hold by then.  This is about one lost session; with   *)
(* two, another peer's resumed authorization may have made the responder's *)
(* directories unreadable (AuthorizationIsRebound).                        *)
Signed(i) ==
    \E r \in pending[i] : Certified(r, r.authorized_at)
Settled(i) == active[i] # {} /\ OfPeer(active[Responder], i) # {}

ExpiryErasesNothing ==
    <>[](\A d \in Device : Announced(d))
        => \A i \in Initiators : Signed(i) ~> Settled(i)

(* An authorization survives a lost session: devices that stay enrolled    *)
(* are paired in the end.  (docs/PROTOCOL_V3.md:176-178: "A responder that *)
(* has already authorized a peer can rebind that authorization marker to a *)
(* fresh authenticated session without prompting again".)                  *)
AuthorizationIsRebound ==
    <>[](\A d \in Device : Announced(d))
        => \A i \in Initiators :
              pending[Responder] # {} /\ OfPeer(pending[Responder], i) # {} ~> Settled(i)
=============================================================================
