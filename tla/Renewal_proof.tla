--------------------------- MODULE Renewal_proof ---------------------------
(***************************************************************************)
(* Proofs about Renewal, for any number of initiators, PairIDs and lost    *)
(* sessions, every certificate lifetime and every time span: what expiry   *)
(* and renewal cannot do to the stored records.                            *)
(***************************************************************************)
EXTENDS Renewal, FiniteSetTheorems, WellFoundedInduction, TLAPS

Small(S) == \A x, y \in S : x = y

TypeInv == TypeOK /\ Small(session)

-----------------------------------------------------------------------------
(* Facts about the operators.                                              *)

LEMMA SessionType ==
    ASSUME NEW s \in Session
    PROVE  {s} \subseteq Session /\ Cardinality({s}) <= 1 /\ Small({s})
BY FS_Singleton DEF Small

LEMMA NoSessionType == Cardinality({}) <= 1 /\ Small({})
BY FS_EmptySet DEF Small

(* A session at another position, with the record S. *)
Moved(u, s, to, S) ==
    /\ u \in Session
    /\ u.pc = to /\ u.record = S
    /\ u.initiator = s.initiator /\ u.res_now = s.res_now

Positions == {"connected", "authorizing", "prepared", "completed", "finalized"}

LEMMA SessionMoves ==
    ASSUME NEW s \in Session, NEW to \in Positions
    PROVE  Moved([s EXCEPT !.pc = to], s, to, s.record)
BY DEF Session, Moved, Positions

LEMMA SessionRecords ==
    ASSUME NEW s \in Session, NEW S \in SUBSET Record, NEW to \in Positions
    PROVE  Moved([s EXCEPT !.pc = to, !.record = S], s, to, S)
BY DEF Session, Moved, Positions

LEMMA SessionOpens ==
    ASSUME NEW s \in Session, NEW t \in Time
    PROVE  /\ [s EXCEPT !.res_now = t] \in Session
           /\ [s EXCEPT !.res_now = t].pc = s.pc
           /\ [s EXCEPT !.res_now = t].initiator = s.initiator
           /\ [s EXCEPT !.res_now = t].reconnect = s.reconnect
           /\ [s EXCEPT !.res_now = t].ini_now = s.ini_now
           /\ [s EXCEPT !.res_now = t].res_now = t
           /\ [s EXCEPT !.res_now = t].record = s.record
BY DEF Session

LEMMA RecordType ==
    ASSUME NEW r \in Record
    PROVE  /\ r.initiator \in Initiators /\ r.pid \in Nat
           /\ r.ini \in Time /\ r.res \in Time /\ r.authorized_at \in Time
BY PairIdsAssumption DEF Record

LEMMA NewRecordType ==
    ASSUME TypeInv, NEW s \in Session, NEW t \in Time
    PROVE  /\ NewRecord(s, t) \in Record
           /\ NewRecord(s, t).initiator = s.initiator
           /\ NewRecord(s, t).ini = cert[s.initiator]
           /\ NewRecord(s, t).res = cert[Responder]
           /\ NewRecord(s, t).authorized_at = t
<1>1. /\ cert[s.initiator] \in Time /\ cert[Responder] \in Time
      /\ s.pid \in PairIds /\ s.initiator \in Initiators
  BY DEF TypeInv, TypeOK, Device, Session
<1> QED
  BY <1>1 DEF NewRecord, Record

LEMMA FoundType == \A S, i : Found(S, i) \subseteq OfPeer(S, i) /\ OfPeer(S, i) \subseteq S
BY DEF Found, OfPeer

LEMMA ScanFinds ==
    ASSUME NEW S \in SUBSET Record, NEW i, Found(S, i) = {}
    PROVE  OfPeer(S, i) = {}
<1> SUFFICES ASSUME OfPeer(S, i) # {} PROVE FALSE
  OBVIOUS
<1>1. Pids(OfPeer(S, i)) \in SUBSET Nat /\ Pids(OfPeer(S, i)) # {}
  BY PairIdsAssumption DEF Pids, OfPeer, Record
<1>2. PICK n \in Pids(OfPeer(S, i)) : \A k \in Pids(OfPeer(S, i)) : n <= k
  <2>1. PICK n \in Pids(OfPeer(S, i)) :
          \A k \in Pids(OfPeer(S, i)) : ~ (<<k, n>> \in OpToRel(<, Nat))
    BY <1>1, WFMin, NatLessThanWellFounded
  <2>2. \A k \in Pids(OfPeer(S, i)) : ~(k < n)
    BY <1>1, <2>1 DEF OpToRel
  <2> QED
    BY <1>1, <2>2
<1>3. PICK r \in OfPeer(S, i) : r.pid = n
  BY <1>2 DEF Pids
<1>4. \A s \in OfPeer(S, i) : r.pid <= s.pid
  BY <1>2, <1>3 DEF Pids
<1> QED
  BY <1>3, <1>4 DEF Found

-----------------------------------------------------------------------------
(* What Accept comes to.  The session of a first contact has certificates  *)
(* valid at the responder's time.                                          *)
FirstContact(s) ==
    /\ OfPeer(active[Responder], s.initiator) = {}
    /\ Certified([ini |-> cert[s.initiator], res |-> cert[Responder]], s.res_now)

Opened(s) == [s EXCEPT !.res_now = clock]

AcceptEnds == session' = {} /\ pending' = pending

AcceptSends(s) ==
    /\ pending' = pending
    /\ \E to \in {"finalized", "prepared"} :
       \E S \in {Found(active[Responder], s.initiator), Found(pending[Responder], s.initiator)} :
          session' = {[s EXCEPT !.pc = to, !.record = S]}

AcceptResumes(s) ==
    /\ FirstContact(s)
    /\ \E r \in Found(pending[Responder], s.initiator) : Prepare(s, NewRecord(s, r.authorized_at))

AcceptPrompts(s) ==
    /\ FirstContact(s)
    /\ Found(pending[Responder], s.initiator) = {}
    /\ session' = {[s EXCEPT !.pc = "authorizing"]}
    /\ pending' = pending

LEMMA AcceptOutcome ==
    ASSUME TypeInv, Accept
    PROVE  /\ UNCHANGED <<clock, cert, active, lost>>
           /\ \E old \in session :
                 \/ AcceptEnds \/ AcceptSends(Opened(old))
                 \/ AcceptResumes(Opened(old)) \/ AcceptPrompts(Opened(old))
<1>1. UNCHANGED <<clock, cert, active, lost>>
  BY DEF Accept
<1>2. PICK old \in session :
        LET s == Opened(old)
            i == s.initiator
            trusted == Found(active[Responder], i)
            resumable == Found(pending[Responder], i)
            known == IF trusted # {} THEN trusted ELSE resumable
        IN
        IF /\ Readable(active[Responder], i)
           /\ Readable(pending[Responder], i)
           /\ Authenticates(s, known)
          THEN \/ /\ trusted # {}
                  /\ session' = {[s EXCEPT !.pc = "finalized", !.record = trusted]}
                  /\ pending' = pending
               \/ /\ trusted = {} /\ s.reconnect
                  /\ session' = {[s EXCEPT !.pc = "prepared", !.record = resumable]}
                  /\ pending' = pending
               \/ /\ trusted = {} /\ ~s.reconnect
                  /\ \E r \in resumable : Prepare(s, NewRecord(s, AuthorizationOf(s, r)))
               \/ /\ known = {} /\ ~s.reconnect
                  /\ session' = {[s EXCEPT !.pc = "authorizing"]}
                  /\ pending' = pending
          ELSE session' = {} /\ pending' = pending
  BY DEF Accept, Opened
<1> DEFINE s == Opened(old)
           trusted == Found(active[Responder], s.initiator)
           resumable == Found(pending[Responder], s.initiator)
<1>3. \/ AcceptEnds
      \/ session' = {[s EXCEPT !.pc = "finalized", !.record = trusted]} /\ pending' = pending
      \/ session' = {[s EXCEPT !.pc = "prepared", !.record = resumable]} /\ pending' = pending
      \/ /\ ~s.reconnect /\ (\E S : Authenticates(s, S))
         /\ \E r \in resumable : Prepare(s, NewRecord(s, AuthorizationOf(s, r)))
      \/ /\ ~s.reconnect /\ (\E S : Authenticates(s, S)) /\ resumable = {}
         /\ session' = {[s EXCEPT !.pc = "authorizing"]} /\ pending' = pending
  BY <1>2 DEF AcceptEnds
<1>4. ~s.reconnect /\ (\E S : Authenticates(s, S)) => FirstContact(s)
  BY DEF Authenticates, FirstContact
<1> QED
  BY <1>1, <1>3, <1>4 DEF AcceptEnds, AcceptSends, AcceptResumes, AcceptPrompts, AuthorizationOf

-----------------------------------------------------------------------------
(* Types.                                                                  *)

LEMMA TypeInit == Init => TypeInv
BY TimesAssumption, NoSessionType DEF Init, TypeInv, TypeOK, Time, Device

LEMMA SessionOf ==
    ASSUME TypeInv, NEW s \in session
    PROVE  /\ s \in Session /\ s.initiator \in Initiators /\ s.initiator \in Device
           /\ Responder \in Device /\ s.record \subseteq Record
           /\ s.ini_now \in Time /\ s.res_now \in Time
BY DEF TypeInv, TypeOK, Session, Device

LEMMA OpenedType ==
    ASSUME TypeInv, NEW old \in session
    PROVE  /\ Opened(old) \in Session /\ Opened(old).initiator = old.initiator
           /\ Opened(old).res_now = clock /\ Opened(old).record = old.record
           /\ clock \in Time
BY SessionOf, SessionOpens DEF Opened, TypeInv, TypeOK

(* Stores of a step that adds one record to one directory. *)
LEMMA TrustsType ==
    ASSUME TypeInv, NEW d \in Device, NEW r \in Record, Trusts(d, r)
    PROVE  active' \in [Device -> SUBSET Record] /\ pending' \in [Device -> SUBSET Record]
BY DEF TypeInv, TypeOK, Trusts

LEMMA SessionTypeKept ==
    ASSUME \/ session' = {} \/ \E s \in Session : session' = {s}
    PROVE  session' \subseteq Session /\ Cardinality(session') <= 1 /\ Small(session')
BY SessionType, NoSessionType

LEMMA PrepareType ==
    ASSUME TypeInv, NEW s \in Session, NEW r \in Record, Prepare(s, r)
    PROVE  /\ pending' \in [Device -> SUBSET Record]
           /\ session' \subseteq Session /\ Cardinality(session') <= 1 /\ Small(session')
<1>1. {r} \in SUBSET Record
  OBVIOUS
<1>2. [s EXCEPT !.pc = "prepared", !.record = {r}] \in Session
  BY <1>1, SessionRecords DEF Moved, Positions
<1> QED
  BY <1>2, SessionTypeKept DEF Prepare, TypeInv, TypeOK

LEMMA TypeStep == TypeInv /\ [Next]_vars => TypeInv'
<1> SUFFICES ASSUME TypeInv, [Next]_vars PROVE TypeInv'
  OBVIOUS
<1> DEFINE SessionGoal == session' \subseteq Session /\ Cardinality(session') <= 1 /\ Small(session')
<1>0. /\ clock \in Time /\ cert \in [Device -> Time]
      /\ active \in [Device -> SUBSET Record] /\ pending \in [Device -> SUBSET Record]
      /\ session \subseteq Session /\ Cardinality(session) <= 1 /\ Small(session)
      /\ lost \in 0..MaxLost /\ Responder \in Device
  BY DEF TypeInv, TypeOK, Device
<1>1. ASSUME NEW i \in Initiators, Connect(i) PROVE TypeInv'
  <2> DEFINE known == IF active[i] # {} THEN Found(active[i], i) ELSE Found(pending[i], i)
             New(p) == [pc |-> "connected", initiator |-> i, pid |-> p,
                        reconnect |-> known # {},
                        ini_now |-> clock, res_now |-> clock, record |-> {}]
  <2>1. PICK p \in (IF known # {} THEN Pids(known) ELSE FreshPids) : session' = {New(p)}
    BY <1>1 DEF Connect
  <2>2. New(p) \in Session
    <3>1. known \subseteq Record
      BY <1>0, FoundType DEF Device
    <3>2. p \in PairIds
      BY <3>1 DEF Pids, FreshPids, Record
    <3> HIDE DEF known
    <3> QED
      BY <1>0, <3>2 DEF Session
  <2> HIDE DEF New
  <2>3. SessionGoal
    BY <2>1, <2>2, SessionTypeKept
  <2> QED
    BY <1>0, <1>1, <2>3 DEF Connect, stores, TypeInv, TypeOK
<1>2. CASE Accept
  <2>1. /\ UNCHANGED <<clock, cert, active, lost>>
        /\ \E old \in session :
              \/ AcceptEnds \/ AcceptSends(Opened(old))
              \/ AcceptResumes(Opened(old)) \/ AcceptPrompts(Opened(old))
    BY <1>2, AcceptOutcome
  <2>2. CASE AcceptEnds
    BY <1>0, <2>1, <2>2, SessionTypeKept DEF AcceptEnds, TypeInv, TypeOK
  <2>3. ASSUME NEW old \in session, AcceptSends(Opened(old)) PROVE TypeInv'
    <3> DEFINE s == Opened(old)
    <3>1. s \in Session
      BY OpenedType
    <3>2. /\ Found(active[Responder], s.initiator) \subseteq Record
          /\ Found(pending[Responder], s.initiator) \subseteq Record
      BY <1>0, FoundType
    <3> HIDE DEF s
    <3>3. PICK to \in {"finalized", "prepared"}, S \in SUBSET Record :
            session' = {[s EXCEPT !.pc = to, !.record = S]}
      BY <2>3, <3>2 DEF AcceptSends, s
    <3>4. [s EXCEPT !.pc = to, !.record = S] \in Session
      BY <3>1, SessionRecords DEF Moved, Positions
    <3>5. SessionGoal
      BY <3>3, <3>4, SessionTypeKept
    <3> QED
      BY <1>0, <2>1, <2>3, <3>5 DEF AcceptSends, TypeInv, TypeOK
  <2>4. ASSUME NEW old \in session, AcceptResumes(Opened(old)) PROVE TypeInv'
    <3>1. PICK r \in Found(pending[Responder], Opened(old).initiator) :
            Prepare(Opened(old), NewRecord(Opened(old), r.authorized_at))
      BY <2>4 DEF AcceptResumes
    <3>2. Opened(old) \in Session /\ r.authorized_at \in Time
      BY <1>0, <3>1, FoundType, OpenedType, RecordType
    <3>3. NewRecord(Opened(old), r.authorized_at) \in Record
      BY <3>2, NewRecordType
    <3> QED
      BY <1>0, <2>1, <3>1, <3>2, <3>3, PrepareType DEF TypeInv, TypeOK
  <2>5. ASSUME NEW old \in session, AcceptPrompts(Opened(old)) PROVE TypeInv'
    <3>1. [Opened(old) EXCEPT !.pc = "authorizing"] \in Session
      BY OpenedType, SessionMoves DEF Moved, Positions
    <3>2. SessionGoal
      BY <2>5, <3>1, SessionTypeKept DEF AcceptPrompts
    <3> QED
      BY <1>0, <2>1, <2>5, <3>2 DEF AcceptPrompts, TypeInv, TypeOK
  <2> QED
    BY <2>1, <2>2, <2>3, <2>4, <2>5
<1>3. CASE Approve
  <2>1. PICK s \in session :
          /\ Prepare(s, NewRecord(s, s.res_now))
          /\ UNCHANGED <<clock, cert, active, lost>>
    BY <1>3 DEF Approve, PromptTime
  <2>2. s \in Session /\ NewRecord(s, s.res_now) \in Record
    BY SessionOf, NewRecordType
  <2> QED
    BY <1>0, <2>1, <2>2, PrepareType DEF TypeInv, TypeOK
<1>4. CASE Complete
  <2>0. PICK s \in session : \E r \in s.record :
          /\ \/ /\ session' = {[s EXCEPT !.pc = "completed",
                                         !.record = Found(pending[s.initiator], s.initiator)]}
                /\ pending' = pending
             \/ /\ session' = {[s EXCEPT !.pc = "completed"]}
                /\ pending' = [pending EXCEPT ![s.initiator] = {r}]
          /\ UNCHANGED <<clock, cert, active, lost>>
    BY <1>4 DEF Complete
  <2>1. PICK r \in s.record :
          /\ \/ /\ session' = {[s EXCEPT !.pc = "completed",
                                         !.record = Found(pending[s.initiator], s.initiator)]}
                /\ pending' = pending
             \/ /\ session' = {[s EXCEPT !.pc = "completed"]}
                /\ pending' = [pending EXCEPT ![s.initiator] = {r}]
          /\ UNCHANGED <<clock, cert, active, lost>>
    BY <2>0
  <2>2. s \in Session /\ s.initiator \in Device /\ r \in Record
    BY SessionOf
  <2>3. Found(pending[s.initiator], s.initiator) \in SUBSET Record
    BY <1>0, <2>2, FoundType
  <2>4. /\ [s EXCEPT !.pc = "completed"] \in Session
        /\ [s EXCEPT !.pc = "completed",
                      !.record = Found(pending[s.initiator], s.initiator)] \in Session
    <3> HIDE DEF SessionGoal
    <3>1. [s EXCEPT !.pc = "completed"] \in Session
      BY <2>2, SessionMoves DEF Moved, Positions
    <3>2. \A S \in SUBSET Record : [s EXCEPT !.pc = "completed", !.record = S] \in Session
      BY <2>2, SessionRecords DEF Moved, Positions
    <3> QED
      BY <2>3, <3>1, <3>2
  <2>5. SessionGoal
    BY <2>1, <2>4, SessionTypeKept
  <2> QED
    BY <1>0, <2>1, <2>2, <2>5 DEF TypeInv, TypeOK
<1>5. CASE Finalize
  <2>0. PICK s \in session : \E r \in s.record :
          /\ \/ Trusts(Responder, r) /\ session' = {[s EXCEPT !.pc = "finalized"]}
             \/ session' = {} /\ UNCHANGED stores
          /\ UNCHANGED <<clock, cert, lost>>
    BY <1>5 DEF Finalize
  <2>1. PICK r \in s.record :
          /\ \/ Trusts(Responder, r) /\ session' = {[s EXCEPT !.pc = "finalized"]}
             \/ session' = {} /\ UNCHANGED stores
          /\ UNCHANGED <<clock, cert, lost>>
    BY <2>0
  <2>2. s \in Session /\ r \in Record
    BY SessionOf
  <2>3. SessionGoal
    <3>1. [s EXCEPT !.pc = "finalized"] \in Session
      BY <2>2, SessionMoves DEF Moved, Positions
    <3> QED
      BY <2>1, <3>1, SessionTypeKept
  <2> QED
    BY <1>0, <2>1, <2>2, <2>3, TrustsType DEF stores, TypeInv, TypeOK
<1>6. CASE Reconcile
  <2>0. PICK s \in session : \E r \in s.record :
          /\ Trusts(s.initiator, r) \/ UNCHANGED stores
          /\ session' = {}
          /\ UNCHANGED <<clock, cert, lost>>
    BY <1>6 DEF Reconcile
  <2>1. PICK r \in s.record :
          /\ Trusts(s.initiator, r) \/ UNCHANGED stores
          /\ session' = {}
          /\ UNCHANGED <<clock, cert, lost>>
    BY <2>0
  <2>2. s.initiator \in Device /\ r \in Record
    BY SessionOf
  <2>3. SessionGoal
    BY <2>1, SessionTypeKept
  <2> QED
    BY <1>0, <2>1, <2>2, <2>3, TrustsType DEF stores, TypeInv, TypeOK
<1>7. CASE Lose
  <2>1. lost' \in 0..MaxLost
    BY <1>0, <1>7, TimesAssumption DEF Lose
  <2> QED
    BY <1>0, <1>7, <2>1, SessionTypeKept DEF Lose, stores, TypeInv, TypeOK
<1>8. CASE Tick
  <2>1. clock' \in Time
    BY <1>0, <1>8, TimesAssumption DEF Tick, Time
  <2> QED
    BY <1>0, <1>8, <2>1 DEF Tick, stores, TypeInv, TypeOK, Small
<1>9. ASSUME NEW d \in Device, Renew(d) PROVE TypeInv'
  BY <1>0, <1>9 DEF Renew, stores, TypeInv, TypeOK, Small
<1>10. CASE UNCHANGED vars
  BY <1>0, <1>10 DEF vars, stores, TypeInv, TypeOK, Small
<1> QED
  BY <1>1, <1>2, <1>3, <1>4, <1>5, <1>6, <1>7, <1>8, <1>9, <1>10 DEF Next, SessionStep

LEMMA TypeInvariant == Spec => []TypeInv
BY TypeInit, TypeStep, PTL DEF Spec

(* Every variable keeps its type, for any number of devices, any lifetime  *)
(* and any number of lost sessions.                                        *)
THEOREM TypeCorrect == Spec => []TypeOK
<1>1. TypeInv => TypeOK
  BY DEF TypeInv
<1> QED
  BY <1>1, TypeInvariant, PTL

-----------------------------------------------------------------------------
(* Initiators load what they trust: only reconcile adds to active, and no  *)
(* step changes a record.                                                  *)
LEMMA LoadsStep == TypeInv /\ InitiatorTrustLoads /\ [Next]_vars => InitiatorTrustLoads'
<1> SUFFICES ASSUME TypeInv, InitiatorTrustLoads, [Next]_vars PROVE InitiatorTrustLoads'
  OBVIOUS
<1>1. CASE Reconcile
  <2>0. PICK s \in session : \E r \in s.record :
          \/ Reconciled(s, r) /\ Trusts(s.initiator, r)
          \/ UNCHANGED stores
    BY <1>1 DEF Reconcile
  <2>1. PICK r \in s.record :
          \/ Reconciled(s, r) /\ Trusts(s.initiator, r)
          \/ UNCHANGED stores
    BY <2>0
  <2>2. s.initiator \in Device /\ active \in [Device -> SUBSET Record]
    BY SessionOf DEF TypeInv, TypeOK
  <2>3. \A i \in Device : \A q \in active'[i] : q \in active[i] \/ (q = r /\ Reconciled(s, r))
    BY <2>1, <2>2 DEF Trusts, stores
  <2> QED
    BY <2>3 DEF InitiatorTrustLoads, Reconciled, Certified, Certifies, Device
<1>2. CASE Finalize
  <2>1. PICK s \in session : \E r \in s.record : Trusts(Responder, r) \/ UNCHANGED stores
    BY <1>2 DEF Finalize
  <2>2. active \in [Device -> SUBSET Record]
    BY DEF TypeInv, TypeOK
  <2>3. \A i \in Initiators : active'[i] = active[i]
    BY <2>1, <2>2, DevicesAssumption DEF Trusts, stores, Device
  <2> QED
    BY <2>3 DEF InitiatorTrustLoads
<1>3. CASE UNCHANGED active
  BY <1>3 DEF InitiatorTrustLoads
<1> QED
  BY <1>1, <1>2, <1>3
  DEF Next, SessionStep, Connect, Accept, Approve, Complete, Lose, Tick, Renew, stores, vars

(* What an initiator trusts stays loadable, whatever expires.              *)
THEOREM TrustLoads == Spec => []InitiatorTrustLoads
<1>1. Init => InitiatorTrustLoads
  BY DEF Init, InitiatorTrustLoads, Device
<1> QED
  BY <1>1, TypeInvariant, LoadsStep, PTL DEF Spec

-----------------------------------------------------------------------------
(* No authorization is dated later than the clock, and a prompt is only    *)
(* shown under certificates that are valid at the time it will be dated    *)
(* with, whenever it is answered.                                          *)
NotExpired(r) == r.authorized_at < r.ini + Lifetime /\ r.authorized_at < r.res + Lifetime

Valid(S) == \A r \in S : NotExpired(r) /\ r.authorized_at <= clock

Prompted(s) ==
    s.pc = "authorizing" => /\ s.res_now < cert[s.initiator] + Lifetime
                            /\ s.res_now < cert[Responder] + Lifetime

ValidInv ==
    /\ \A d \in Device : Valid(active[d]) /\ Valid(pending[d])
    /\ \A s \in session : Valid(s.record) /\ s.res_now <= clock /\ Prompted(s)

LEMMA ValidInit == Init => ValidInv
BY DEF Init, ValidInv, Valid

(* A step keeps it whose records are old or valid, as the clock goes on.   *)
Stored(r) == \E d \in Device : r \in active[d] \cup pending[d]
Shown(r) == \E s \in session : r \in s.record

LEMMA ValidKept ==
    ASSUME TypeInv, ValidInv, clock' \in Nat, clock <= clock',
           \A r : Stored(r)' => \/ Stored(r) \/ Shown(r)
                                \/ NotExpired(r) /\ r.authorized_at <= clock',
           \A r : Shown(r)' => Shown(r) \/ Stored(r)',
           \A s \in session' : s.res_now <= clock' /\ Prompted(s)'
    PROVE  ValidInv'
<1>1. ASSUME NEW r, Stored(r) \/ Shown(r)
      PROVE  NotExpired(r) /\ r.authorized_at <= clock'
  <2>1. r \in Record
    BY <1>1, SessionOf DEF Stored, Shown, TypeInv, TypeOK
  <2>2. NotExpired(r) /\ r.authorized_at <= clock
    BY <1>1 DEF ValidInv, Valid, Stored, Shown
  <2> QED
    BY <2>1, <2>2, RecordType DEF TypeInv, TypeOK, Time
<1>2. \A r : Stored(r)' \/ Shown(r)' => NotExpired(r) /\ r.authorized_at <= clock'
  BY <1>1
<1>3. \A d \in Device : Valid(active[d])' /\ Valid(pending[d])'
  BY <1>2 DEF Stored, Valid, NotExpired
<1>4. \A s \in session' : Valid(s.record)'
  BY <1>2 DEF Shown, Valid, NotExpired
<1> QED
  BY <1>3, <1>4 DEF ValidInv

(* What the two writes do to the records there are. *)
LEMMA TrustsStored ==
    ASSUME TypeInv, NEW d \in Device, NEW r, Shown(r), Trusts(d, r)
    PROVE  \A q : Stored(q)' => Stored(q) \/ Shown(q)
BY DEF TypeInv, TypeOK, Trusts, Stored, OfPeer

LEMMA ValidPrepare ==
    ASSUME TypeInv, ValidInv, NEW s \in Session, s.res_now <= clock,
           NEW r \in Record, NotExpired(r), r.authorized_at <= clock',
           Prepare(s, r), UNCHANGED <<clock, active>>
    PROVE  ValidInv'
<1>0. Responder \in Device /\ pending \in [Device -> SUBSET Record] /\ clock \in Nat
  BY DEF Device, TypeInv, TypeOK, Time
<1>1. /\ pending' = [pending EXCEPT ![Responder] = @ \cup {r}]
      /\ \A u \in session' : Moved(u, s, "prepared", {r})
  <2>1. {r} \in SUBSET Record
    OBVIOUS
  <2>2. Moved([s EXCEPT !.pc = "prepared", !.record = {r}], s, "prepared", {r})
    BY <2>1, SessionRecords DEF Positions
  <2> QED
    BY <2>2 DEF Prepare
<1>2. \A q : Stored(q)' => Stored(q) \/ q = r
  BY <1>0, <1>1 DEF Stored
<1>3. \A q : Shown(q)' => Stored(q)'
  BY <1>0, <1>1 DEF Shown, Stored, Moved
<1>4. \A u \in session' : u.res_now <= clock' /\ Prompted(u)'
  BY <1>1 DEF Prompted, Moved
<1> QED
  BY <1>0, <1>2, <1>3, <1>4, ValidKept

LEMMA ValidStep == TypeInv /\ ValidInv /\ [Next]_vars => ValidInv'
<1> SUFFICES ASSUME TypeInv, ValidInv, [Next]_vars PROVE ValidInv'
  OBVIOUS
<1>0. /\ clock \in Nat /\ cert \in [Device -> Time] /\ Responder \in Device
      /\ active \in [Device -> SUBSET Record] /\ pending \in [Device -> SUBSET Record]
      /\ Small(session)
      /\ \A s \in session : s.res_now <= clock /\ Prompted(s)
  BY DEF TypeInv, TypeOK, Device, Time, ValidInv
<1>1. ASSUME NEW i \in Initiators, Connect(i) PROVE ValidInv'
  <2>1. /\ UNCHANGED <<clock, stores>>
        /\ \A s \in session' : s.pc = "connected" /\ s.res_now = clock /\ s.record = {}
    BY <1>1 DEF Connect
  <2> QED
    BY <1>0, <2>1, ValidKept DEF stores, Prompted, Stored, Shown
<1>2. CASE Accept
  <2>1. /\ UNCHANGED <<clock, cert, active>>
        /\ \E old \in session :
              \/ AcceptEnds \/ AcceptSends(Opened(old))
              \/ AcceptResumes(Opened(old)) \/ AcceptPrompts(Opened(old))
    BY <1>2, AcceptOutcome
  <2>2. CASE AcceptEnds
    BY <1>0, <2>1, <2>2, ValidKept DEF AcceptEnds, Stored, Shown
  <2>3. ASSUME NEW old \in session, AcceptSends(Opened(old)) PROVE ValidInv'
    <3>0. /\ Found(active[Responder], Opened(old).initiator) \subseteq active[Responder]
          /\ Found(pending[Responder], Opened(old).initiator) \subseteq pending[Responder]
      BY FoundType
    <3>1. PICK to \in {"finalized", "prepared"},
               S \in {Found(active[Responder], Opened(old).initiator),
                      Found(pending[Responder], Opened(old).initiator)} :
            session' = {[Opened(old) EXCEPT !.pc = to, !.record = S]} /\ pending' = pending
      BY <2>3 DEF AcceptSends
    <3>2. \A s \in session' : s.pc # "authorizing" /\ s.res_now = clock /\ s.record = S
      <4>1. S \in SUBSET Record /\ to \in Positions
        BY <1>0, <3>0 DEF Positions
      <4>2. Moved([Opened(old) EXCEPT !.pc = to, !.record = S], Opened(old), to, S)
        BY <4>1, OpenedType, SessionRecords
      <4> QED
        BY <3>1, <4>2, OpenedType DEF Moved
    <3>3. \A s \in session' : s.res_now <= clock' /\ Prompted(s)'
      BY <1>0, <2>1, <3>2 DEF Prompted
    <3>4. \A r : Shown(r)' => Stored(r)'
      BY <1>0, <2>1, <3>0, <3>1, <3>2 DEF Shown, Stored
    <3>5. \A r : Stored(r)' => Stored(r)
      BY <2>1, <3>1 DEF Stored
    <3> QED
      BY <1>0, <2>1, <3>3, <3>4, <3>5, ValidKept
  <2>4. ASSUME NEW old \in session, AcceptResumes(Opened(old)) PROVE ValidInv'
    <3>1. PICK q \in Found(pending[Responder], Opened(old).initiator) :
            Prepare(Opened(old), NewRecord(Opened(old), q.authorized_at))
      BY <2>4 DEF AcceptResumes
    <3>2. q \in pending[Responder] /\ q \in Record
      BY <1>0, <3>1, FoundType
    <3>3. PICK r \in Record :
            /\ r.ini = cert[Opened(old).initiator] /\ r.res = cert[Responder]
            /\ r.authorized_at = q.authorized_at
            /\ Prepare(Opened(old), r)
      BY <3>1, <3>2, OpenedType, NewRecordType, RecordType
    <3>4. q.authorized_at <= clock /\ q.authorized_at \in Nat
      BY <1>0, <3>2, RecordType DEF ValidInv, Valid, Time
    <3>5. NotExpired(r) /\ r.authorized_at <= clock'
      <4>1. /\ clock < cert[Opened(old).initiator] + Lifetime
            /\ clock < cert[Responder] + Lifetime
        BY <2>4, OpenedType DEF AcceptResumes, FirstContact, Certified, Certifies
      <4>2. /\ cert[Opened(old).initiator] \in Nat /\ cert[Responder] \in Nat
            /\ Lifetime \in Nat
        BY <1>0, OpenedType, SessionOf, TimesAssumption DEF Time
      <4> QED
        BY <1>0, <2>1, <3>3, <3>4, <4>1, <4>2 DEF NotExpired
    <3> QED
      BY <1>0, <2>1, <3>3, <3>5, ValidPrepare, OpenedType
  <2>5. ASSUME NEW old \in session, AcceptPrompts(Opened(old)) PROVE ValidInv'
    <3>1. \A s \in session' : Moved(s, Opened(old), "authorizing", old.record)
      <4>1. Moved([Opened(old) EXCEPT !.pc = "authorizing"], Opened(old), "authorizing",
                  Opened(old).record)
        BY OpenedType, SessionMoves DEF Positions
      <4> QED
        BY <2>5, <4>1, OpenedType DEF AcceptPrompts
    <3>2. \A s \in session' : s.res_now <= clock' /\ Prompted(s)'
      <4>1. /\ clock < cert[Opened(old).initiator] + Lifetime
            /\ clock < cert[Responder] + Lifetime
        BY <2>5, OpenedType DEF AcceptPrompts, FirstContact, Certified, Certifies
      <4>2. \A s \in session' : s.initiator = Opened(old).initiator /\ s.res_now = clock
        BY <3>1, OpenedType DEF Moved
      <4> QED
        BY <1>0, <2>1, <4>1, <4>2 DEF Prompted
    <3>3. \A r : Shown(r)' => Shown(r)
      BY <3>1 DEF Shown, Moved
    <3>4. \A r : Stored(r)' => Stored(r)
      BY <2>1, <2>5 DEF AcceptPrompts, Stored
    <3> QED
      BY <1>0, <2>1, <3>2, <3>3, <3>4, ValidKept
  <2> QED
    BY <2>1, <2>2, <2>3, <2>4, <2>5
<1>3. CASE Approve
  <2>1. PICK s \in session :
          /\ s.pc = "authorizing"
          /\ Prepare(s, NewRecord(s, s.res_now))
          /\ UNCHANGED <<clock, cert, active>>
    BY <1>3 DEF Approve, PromptTime
  <2>2. /\ NewRecord(s, s.res_now) \in Record /\ s \in Session
        /\ NotExpired(NewRecord(s, s.res_now))
        /\ NewRecord(s, s.res_now).authorized_at <= clock
    BY <1>0, <2>1, SessionOf, NewRecordType DEF NotExpired, Prompted
  <2> QED
    BY <1>0, <2>1, <2>2, ValidPrepare
<1>4. CASE Complete
  <2>0. PICK s \in session : \E r \in s.record :
          /\ \/ /\ session' = {[s EXCEPT !.pc = "completed",
                                         !.record = Found(pending[s.initiator], s.initiator)]}
                /\ pending' = pending
             \/ /\ session' = {[s EXCEPT !.pc = "completed"]}
                /\ pending' = [pending EXCEPT ![s.initiator] = {r}]
          /\ UNCHANGED <<clock, cert, active>>
    BY <1>4 DEF Complete
  <2>1. PICK r \in s.record :
          /\ \/ /\ session' = {[s EXCEPT !.pc = "completed",
                                         !.record = Found(pending[s.initiator], s.initiator)]}
                /\ pending' = pending
             \/ /\ session' = {[s EXCEPT !.pc = "completed"]}
                /\ pending' = [pending EXCEPT ![s.initiator] = {r}]
          /\ UNCHANGED <<clock, cert, active>>
    BY <2>0
  <2>2. s \in Session /\ s.initiator \in Device
    BY SessionOf
  <2>3. /\ Found(pending[s.initiator], s.initiator) \in SUBSET Record
        /\ Found(pending[s.initiator], s.initiator) \subseteq pending[s.initiator]
    BY <1>0, <2>2, FoundType
  <2>4. \A u \in session' :
           /\ u.pc = "completed" /\ u.res_now = s.res_now
           /\ u.record = s.record \/ (u.record \subseteq pending[s.initiator] /\ pending' = pending)
    <3>1. Moved([s EXCEPT !.pc = "completed"], s, "completed", s.record)
      BY <2>2, SessionMoves DEF Positions
    <3>2. \A S \in SUBSET Record :
             Moved([s EXCEPT !.pc = "completed", !.record = S], s, "completed", S)
      BY <2>2, SessionRecords DEF Positions
    <3>3. Moved([s EXCEPT !.pc = "completed",
                          !.record = Found(pending[s.initiator], s.initiator)],
                s, "completed", Found(pending[s.initiator], s.initiator))
      BY <2>3, <3>2
    <3> QED
      BY <2>1, <2>3, <3>1, <3>3 DEF Moved
  <2>5. \A u \in session' : u.res_now <= clock' /\ Prompted(u)'
    BY <1>0, <2>1, <2>4 DEF Prompted
  <2>6. \A q : Shown(q)' => Shown(q) \/ Stored(q)'
    BY <2>2, <2>4 DEF Shown, Stored
  <2>7. \A q : Stored(q)' => Stored(q) \/ Shown(q)
    BY <1>0, <2>1, <2>2 DEF Stored, Shown
  <2> QED
    BY <1>0, <2>1, <2>5, <2>6, <2>7, ValidKept
<1>5. CASE Finalize
  <2>0. PICK s \in session : \E r \in s.record :
          /\ \/ Trusts(Responder, r) /\ session' = {[s EXCEPT !.pc = "finalized"]}
             \/ session' = {} /\ UNCHANGED stores
          /\ UNCHANGED <<clock, cert>>
    BY <1>5 DEF Finalize
  <2>1. PICK r \in s.record :
          /\ \/ Trusts(Responder, r) /\ session' = {[s EXCEPT !.pc = "finalized"]}
             \/ session' = {} /\ UNCHANGED stores
          /\ UNCHANGED <<clock, cert>>
    BY <2>0
  <2>2. \A u \in session' : u.pc = "finalized" /\ u.res_now = s.res_now /\ u.record = s.record
    <3>1. Moved([s EXCEPT !.pc = "finalized"], s, "finalized", s.record)
      BY SessionOf, SessionMoves DEF Positions
    <3> QED
      BY <2>1, <3>1 DEF Moved
  <2>3. \A u \in session' : u.res_now <= clock' /\ Prompted(u)'
    BY <1>0, <2>1, <2>2 DEF Prompted
  <2>4. \A q : Shown(q)' => Shown(q)
    BY <2>2 DEF Shown
  <2>5. \A q : Stored(q)' => Stored(q) \/ Shown(q)
    BY <1>0, <2>1, TrustsStored DEF stores, Stored, Shown
  <2> QED
    BY <1>0, <2>1, <2>3, <2>4, <2>5, ValidKept
<1>6. CASE Reconcile
  <2>0. PICK s \in session : \E r \in s.record :
          /\ Trusts(s.initiator, r) \/ UNCHANGED stores
          /\ session' = {} /\ UNCHANGED <<clock, cert>>
    BY <1>6 DEF Reconcile
  <2>1. PICK r \in s.record :
          /\ Trusts(s.initiator, r) \/ UNCHANGED stores
          /\ session' = {} /\ UNCHANGED <<clock, cert>>
    BY <2>0
  <2>2. \A q : Stored(q)' => Stored(q) \/ Shown(q)
    BY <1>0, <2>1, SessionOf, TrustsStored DEF stores, Stored, Shown
  <2> QED
    BY <1>0, <2>1, <2>2, ValidKept DEF Shown
<1>7. CASE Lose
  BY <1>0, <1>7, ValidKept DEF Lose, stores, Stored, Shown
<1>8. CASE Tick
  <2>1. clock' \in Nat /\ clock <= clock' /\ UNCHANGED <<cert, stores, session>>
    BY <1>0, <1>8 DEF Tick
  <2>2. \A s \in session' : s.res_now <= clock' /\ Prompted(s)'
    BY <1>0, <2>1, SessionOf DEF Prompted, Time
  <2> QED
    BY <2>1, <2>2, ValidKept DEF stores, Stored, Shown
<1>9. ASSUME NEW d \in Device, Renew(d) PROVE ValidInv'
  <2>1. /\ UNCHANGED <<clock, stores, session>>
        /\ cert' = [cert EXCEPT ![d] = clock]
        /\ \A s \in session : d \notin {s.initiator, Responder}
    BY <1>9 DEF Renew
  <2>2. \A s \in session' : s.res_now <= clock' /\ Prompted(s)'
    BY <1>0, <2>1, SessionOf DEF Prompted
  <2> QED
    BY <1>0, <2>1, <2>2, ValidKept DEF stores, Stored, Shown
<1>10. CASE UNCHANGED vars
  <2>1. UNCHANGED <<clock, cert, stores, session>>
    BY <1>10 DEF vars
  <2> QED
    BY <1>0, <2>1, ValidKept DEF stores, Stored, Shown, Prompted
<1> QED
  BY <1>1, <1>2, <1>3, <1>4, <1>5, <1>6, <1>7, <1>8, <1>9, <1>10 DEF Next, SessionStep

(* However long sessions and prompts last, the time every later scan       *)
(* verifies a record at lies before its certificates expire.               *)
THEOREM ReadableAfterExpiry == Spec => []ExpiryLeavesReadable
<1>1. ValidInv => ExpiryLeavesReadable
  BY DEF ValidInv, Valid, NotExpired, ExpiryLeavesReadable
<1> QED
  BY <1>1, TypeInvariant, ValidInit, ValidStep, PTL DEF Spec

-----------------------------------------------------------------------------
(* One authorization per peer: whatever anybody holds or is being sent,    *)
(* the responder holds a record of that initiator with the same date.  Of  *)
(* an initiator at the prompt it holds nothing.                            *)
Held(d) == active[d] \cup pending[d]

Backed(r) ==
    \E q \in Held(Responder) : q.initiator = r.initiator /\ q.authorized_at = r.authorized_at

OneDate ==
    \A q, r \in Held(Responder) : q.initiator = r.initiator => q.authorized_at = r.authorized_at

SessionBacked(s) ==
    /\ \A r \in s.record : r.initiator = s.initiator /\ Backed(r)
    /\ s.pc = "authorizing" => OfPeer(Held(Responder), s.initiator) = {}

OnceInv ==
    /\ OneDate
    /\ \A d \in Device : \A r \in Held(d) : Backed(r)
    /\ \A s \in session : SessionBacked(s)

LEMMA OnceInit == Init => OnceInv
BY DEF Init, OnceInv, OneDate, Held, Device

(* Steps that leave the responder's records alone. *)
LEMMA OnceElsewhere ==
    ASSUME OnceInv, UNCHANGED <<active[Responder], pending[Responder]>>,
           \A d \in Device : \A r \in Held(d)' : r \in Held(d) \/ Backed(r),
           \A s \in session' : SessionBacked(s)
    PROVE  OnceInv'
<1>1. Held(Responder)' = Held(Responder)
  BY DEF Held
<1>2. \A r : Backed(r)' <=> Backed(r)
  BY <1>1 DEF Backed
<1>3. \A s \in session' : SessionBacked(s)'
  BY <1>1, <1>2 DEF SessionBacked
<1> QED
  BY <1>1, <1>2, <1>3 DEF OnceInv, OneDate

(* The responder writes a record that agrees with those it has. *)
LEMMA OncePrepares ==
    ASSUME TypeInv, OnceInv, NEW s \in Session, NEW r \in Record, Prepare(s, r),
           UNCHANGED active, r.initiator = s.initiator,
           \A q \in Held(Responder) : q.initiator = r.initiator
                                         => q.authorized_at = r.authorized_at
    PROVE  OnceInv'
<1>0. Responder \in Device /\ pending \in [Device -> SUBSET Record]
  BY DEF Device, TypeInv, TypeOK
<1>1. /\ pending' = [pending EXCEPT ![Responder] = @ \cup {r}]
      /\ \A u \in session' : Moved(u, s, "prepared", {r})
  <2>1. {r} \in SUBSET Record
    OBVIOUS
  <2>2. Moved([s EXCEPT !.pc = "prepared", !.record = {r}], s, "prepared", {r})
    BY <2>1, SessionRecords DEF Positions
  <2> QED
    BY <2>2 DEF Prepare
<1>2. /\ Held(Responder)' = Held(Responder) \cup {r}
      /\ \A d \in Device : d # Responder => Held(d)' = Held(d)
  BY <1>0, <1>1 DEF Held
<1>3. Backed(r)' /\ \A q : Backed(q) => Backed(q)'
  BY <1>2 DEF Backed
<1>4. \A q \in Held(Responder)' : Backed(q)'
  BY DEF Backed
<1>5. \A d \in Device : \A q \in Held(d)' : Backed(q)'
  BY <1>2, <1>3, <1>4 DEF OnceInv
<1>6. OneDate'
  BY <1>2 DEF OnceInv, OneDate
<1>7. \A u \in session' : SessionBacked(u)'
  BY <1>1, <1>3 DEF Moved, SessionBacked
<1> QED
  BY <1>5, <1>6, <1>7 DEF OnceInv

(* The responder activates a record of a session and forgets the pending   *)
(* ones of that peer. *)
LEMMA OnceTrusts ==
    ASSUME TypeInv, OnceInv, NEW s \in session, NEW r \in s.record, Trusts(Responder, r),
           \A u \in session' : Moved(u, s, "finalized", s.record)
    PROVE  OnceInv'
<1>0. /\ Responder \in Device /\ r \in Record
      /\ active \in [Device -> SUBSET Record] /\ pending \in [Device -> SUBSET Record]
  BY SessionOf DEF Device, TypeInv, TypeOK
<1>1. /\ active'[Responder] = active[Responder] \cup {r}
      /\ pending'[Responder] = pending[Responder] \ OfPeer(pending[Responder], r.initiator)
      /\ \A d \in Device : d # Responder => Held(d)' = Held(d)
  BY <1>0 DEF Trusts, Held
<1>2. /\ Held(Responder)' \subseteq Held(Responder) \cup {r} /\ r \in Held(Responder)'
      /\ \A q \in Held(Responder) : q.initiator # r.initiator => q \in Held(Responder)'
  BY <1>1 DEF Held, OfPeer
<1>3. \A q \in Held(Responder) : q.initiator = r.initiator => q.authorized_at = r.authorized_at
  BY DEF OnceInv, OneDate, SessionBacked, Backed
<1>4. \A q : Backed(q) => Backed(q)'
  BY <1>2, <1>3 DEF Backed
<1>5. \A d \in Device : \A q \in Held(d)' : Backed(q)'
  <2>1. \A q \in Held(Responder)' : Backed(q)'
    BY DEF Backed
  <2> QED
    BY <1>1, <1>4, <2>1 DEF OnceInv
<1>6. OneDate'
  BY <1>2, <1>3 DEF OnceInv, OneDate
<1>7. \A u \in session' : SessionBacked(u)'
  BY <1>4 DEF Moved, SessionBacked, OnceInv
<1> QED
  BY <1>5, <1>6, <1>7 DEF OnceInv

LEMMA OnceStep == TypeInv /\ OnceInv /\ [Next]_vars => OnceInv'
<1> SUFFICES ASSUME TypeInv, OnceInv, [Next]_vars PROVE OnceInv'
  OBVIOUS
<1>0. /\ Responder \in Device
      /\ active \in [Device -> SUBSET Record] /\ pending \in [Device -> SUBSET Record]
  BY DEF TypeInv, TypeOK, Device
<1>1. ASSUME NEW i \in Initiators, Connect(i) PROVE OnceInv'
  <2>1. UNCHANGED stores /\ \A s \in session' : s.pc = "connected" /\ s.record = {}
    BY <1>1 DEF Connect
  <2> QED
    BY <2>1, OnceElsewhere DEF stores, Held, SessionBacked
<1>2. CASE Accept
  <2>1. /\ UNCHANGED <<clock, cert, active>>
        /\ \E old \in session :
              \/ AcceptEnds \/ AcceptSends(Opened(old))
              \/ AcceptResumes(Opened(old)) \/ AcceptPrompts(Opened(old))
    BY <1>2, AcceptOutcome
  <2>2. CASE AcceptEnds
    BY <2>1, <2>2, OnceElsewhere DEF AcceptEnds, Held
  <2>3. ASSUME NEW old \in session, AcceptSends(Opened(old)) PROVE OnceInv'
    <3> DEFINE i == Opened(old).initiator
    <3>0. /\ Found(active[Responder], i) \subseteq OfPeer(active[Responder], i)
          /\ Found(pending[Responder], i) \subseteq OfPeer(pending[Responder], i)
      BY FoundType
    <3>1. PICK to \in {"finalized", "prepared"},
               S \in {Found(active[Responder], i), Found(pending[Responder], i)} :
            session' = {[Opened(old) EXCEPT !.pc = to, !.record = S]} /\ pending' = pending
      BY <2>3 DEF AcceptSends
    <3>2. \A r \in S : r.initiator = i /\ Backed(r)
      BY <1>0, <3>0, <3>1 DEF OfPeer, Backed, Held
    <3>3. \A s \in session' : s.pc # "authorizing" /\ s.initiator = i /\ s.record = S
      <4>1. S \in SUBSET Record /\ to \in Positions
        BY <1>0, <3>0, FoundType DEF Positions
      <4>2. Moved([Opened(old) EXCEPT !.pc = to, !.record = S], Opened(old), to, S)
        BY <4>1, OpenedType, SessionRecords
      <4> QED
        BY <3>1, <4>2 DEF Moved
    <3>4. \A s \in session' : SessionBacked(s)
      BY <3>2, <3>3 DEF SessionBacked
    <3> QED
      BY <2>1, <3>1, <3>4, OnceElsewhere DEF Held
  <2>4. ASSUME NEW old \in session, AcceptResumes(Opened(old)) PROVE OnceInv'
    <3>1. PICK q \in Found(pending[Responder], Opened(old).initiator) :
            Prepare(Opened(old), NewRecord(Opened(old), q.authorized_at))
      BY <2>4 DEF AcceptResumes
    <3>2. /\ q \in Held(Responder) /\ q.authorized_at \in Time
          /\ q.initiator = Opened(old).initiator
      BY <1>0, <3>1, FoundType, RecordType DEF OfPeer, Held
    <3>3. PICK r \in Record :
            /\ r.initiator = Opened(old).initiator
            /\ r.authorized_at = q.authorized_at
            /\ Prepare(Opened(old), r)
      BY <3>1, <3>2, OpenedType, NewRecordType
    <3>4. \A p \in Held(Responder) : p.initiator = r.initiator
                                        => p.authorized_at = r.authorized_at
      BY <3>2, <3>3 DEF OnceInv, OneDate
    <3> QED
      BY <2>1, <3>3, <3>4, OpenedType, OncePrepares
  <2>5. ASSUME NEW old \in session, AcceptPrompts(Opened(old)) PROVE OnceInv'
    <3> DEFINE i == Opened(old).initiator
    <3>1. OfPeer(Held(Responder), i) = {}
      <4>1. OfPeer(active[Responder], i) = {} /\ Found(pending[Responder], i) = {}
        BY <2>5 DEF AcceptPrompts, FirstContact
      <4>2. OfPeer(pending[Responder], i) = {}
        BY <1>0, <4>1, ScanFinds
      <4> QED
        BY <4>1, <4>2 DEF Held, OfPeer
    <3>2. \A s \in session' : Moved(s, Opened(old), "authorizing", old.record)
      <4>1. Moved([Opened(old) EXCEPT !.pc = "authorizing"], Opened(old), "authorizing",
                  Opened(old).record)
        BY OpenedType, SessionMoves DEF Positions
      <4> QED
        BY <2>5, <4>1, OpenedType DEF AcceptPrompts
    <3>3. \A s \in session' : SessionBacked(s)
      BY <3>1, <3>2, OpenedType DEF Moved, SessionBacked, OnceInv
    <3> QED
      BY <2>1, <2>5, <3>3, OnceElsewhere DEF AcceptPrompts, Held
  <2> QED
    BY <2>1, <2>2, <2>3, <2>4, <2>5
<1>3. CASE Approve
  <2>1. PICK s \in session :
          /\ s.pc = "authorizing"
          /\ Prepare(s, NewRecord(s, s.res_now))
          /\ UNCHANGED <<clock, cert, active>>
    BY <1>3 DEF Approve, PromptTime
  <2>2. PICK r \in Record : Prepare(s, r) /\ r.initiator = s.initiator
    BY <2>1, SessionOf, NewRecordType
  <2>3. \A q \in Held(Responder) : q.initiator # r.initiator
    BY <2>1, <2>2 DEF OnceInv, SessionBacked, OfPeer
  <2> QED
    BY <2>1, <2>2, <2>3, SessionOf, OncePrepares
<1>4. CASE Complete
  <2>0. PICK s \in session : \E r \in s.record :
          /\ \/ /\ session' = {[s EXCEPT !.pc = "completed",
                                         !.record = Found(pending[s.initiator], s.initiator)]}
                /\ pending' = pending
             \/ /\ session' = {[s EXCEPT !.pc = "completed"]}
                /\ pending' = [pending EXCEPT ![s.initiator] = {r}]
          /\ UNCHANGED <<clock, cert, active>>
    BY <1>4 DEF Complete
  <2>1. PICK r \in s.record :
          /\ \/ /\ session' = {[s EXCEPT !.pc = "completed",
                                         !.record = Found(pending[s.initiator], s.initiator)]}
                /\ pending' = pending
             \/ /\ session' = {[s EXCEPT !.pc = "completed"]}
                /\ pending' = [pending EXCEPT ![s.initiator] = {r}]
          /\ UNCHANGED <<clock, cert, active>>
    BY <2>0
  <2>2. s \in Session /\ s.initiator \in Device /\ s.initiator # Responder /\ SessionBacked(s)
    BY SessionOf, DevicesAssumption DEF OnceInv
  <2>3. /\ Found(pending[s.initiator], s.initiator) \in SUBSET Record
        /\ \A q \in Found(pending[s.initiator], s.initiator) :
              q.initiator = s.initiator /\ Backed(q)
    BY <1>0, <2>2, FoundType DEF OfPeer, OnceInv, Held
  <2>4. \A u \in session' : SessionBacked(u)
    <3>1. Moved([s EXCEPT !.pc = "completed"], s, "completed", s.record)
      BY <2>2, SessionMoves DEF Positions
    <3>2. \A S \in SUBSET Record :
             Moved([s EXCEPT !.pc = "completed", !.record = S], s, "completed", S)
      BY <2>2, SessionRecords DEF Positions
    <3>3. Moved([s EXCEPT !.pc = "completed",
                          !.record = Found(pending[s.initiator], s.initiator)],
                s, "completed", Found(pending[s.initiator], s.initiator))
      BY <2>3, <3>2
    <3> QED
      BY <2>1, <2>2, <2>3, <3>1, <3>3 DEF Moved, SessionBacked
  <2>5. \A d \in Device : \A q \in Held(d)' : q \in Held(d) \/ Backed(q)
    BY <1>0, <2>1, <2>2 DEF Held, SessionBacked
  <2>6. UNCHANGED <<active[Responder], pending[Responder]>>
    BY <1>0, <2>1, <2>2
  <2> QED
    BY <2>4, <2>5, <2>6, OnceElsewhere
<1>5. CASE Finalize
  <2>0. PICK s \in session : \E r \in s.record :
          \/ Trusts(Responder, r) /\ session' = {[s EXCEPT !.pc = "finalized"]}
          \/ session' = {} /\ UNCHANGED stores
    BY <1>5 DEF Finalize
  <2>1. PICK r \in s.record :
          \/ Trusts(Responder, r) /\ session' = {[s EXCEPT !.pc = "finalized"]}
          \/ session' = {} /\ UNCHANGED stores
    BY <2>0
  <2>2. Moved([s EXCEPT !.pc = "finalized"], s, "finalized", s.record)
    BY SessionOf, SessionMoves DEF Positions
  <2>3. CASE Trusts(Responder, r) /\ session' = {[s EXCEPT !.pc = "finalized"]}
    BY <2>2, <2>3, OnceTrusts
  <2>4. CASE session' = {} /\ UNCHANGED stores
    BY <2>4, OnceElsewhere DEF stores, Held
  <2> QED
    BY <2>1, <2>3, <2>4
<1>6. CASE Reconcile
  <2>0. PICK s \in session : \E r \in s.record :
          (Trusts(s.initiator, r) \/ UNCHANGED stores) /\ session' = {}
    BY <1>6 DEF Reconcile
  <2>1. PICK r \in s.record : (Trusts(s.initiator, r) \/ UNCHANGED stores) /\ session' = {}
    BY <2>0
  <2>2. s.initiator \in Device /\ s.initiator # Responder /\ Backed(r)
    BY SessionOf, DevicesAssumption DEF OnceInv, SessionBacked
  <2>3. /\ \A d \in Device : \A q \in Held(d)' : q \in Held(d) \/ Backed(q)
        /\ UNCHANGED <<active[Responder], pending[Responder]>>
    BY <1>0, <2>1, <2>2 DEF Trusts, stores, Held
  <2> QED
    BY <2>1, <2>3, OnceElsewhere
<1>7. ASSUME \/ Lose \/ Tick \/ (\E d \in Device : Renew(d)) \/ UNCHANGED vars
      PROVE  OnceInv'
  <2>1. UNCHANGED stores /\ session' \subseteq session
    BY <1>7 DEF Lose, Tick, Renew, vars
  <2> QED
    BY <2>1, OnceElsewhere DEF stores, Held, OnceInv
<1> QED
  BY <1>1, <1>2, <1>3, <1>4, <1>5, <1>6, <1>7 DEF Next, SessionStep

(* The user is asked once per peer, however many sessions are lost and     *)
(* certificates renewed: every record rests on the first authorization.    *)
THEOREM AskedOnce == Spec => []AuthorizedOnce
<1>1. OnceInv => AuthorizedOnce
  <2> SUFFICES ASSUME OnceInv, NEW c \in Device, NEW d \in Device,
                      NEW q \in Held(c), NEW r \in Held(d), q.initiator = r.initiator
               PROVE  q.authorized_at = r.authorized_at
    BY DEF AuthorizedOnce, Held
  <2>1. PICK a \in Held(Responder) :
          a.initiator = q.initiator /\ a.authorized_at = q.authorized_at
    BY DEF OnceInv, Backed
  <2>2. PICK b \in Held(Responder) :
          b.initiator = r.initiator /\ b.authorized_at = r.authorized_at
    BY DEF OnceInv, Backed
  <2> QED
    BY <2>1, <2>2 DEF OnceInv, OneDate
<1> QED
  BY <1>1, TypeInvariant, OnceInit, OnceStep, PTL DEF Spec
=============================================================================
