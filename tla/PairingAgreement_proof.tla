----------------------- MODULE PairingAgreement_proof -----------------------
(***************************************************************************)
(* The two devices agree: whatever is lost, delayed or interrupted, all    *)
(* fully signed records in use anywhere in the system are one and the same *)
(* record, and the initiator holds it.  From this follow what the devices  *)
(* trust, what they can recover, when the user is asked, and that Pairing  *)
(* implements BilateralTrust.                                              *)
(***************************************************************************)
EXTENDS Pairing_proof, WellFoundedInduction

-----------------------------------------------------------------------------
(* Facts about the lookups.                                                *)

(* A directory that holds a record has a first one. *)
LEMMA FirstExists ==
    ASSUME NEW S \in SUBSET Record, First(S) = {}
    PROVE  S = {}
<1> SUFFICES ASSUME S # {} PROVE FALSE
  OBVIOUS
<1>1. Pids(S) \in SUBSET Nat /\ Pids(S) # {}
  BY PairIdsAssumption DEF Pids, Record
<1>2. PICK n \in Pids(S) : \A k \in Pids(S) : ~ (<<k, n>> \in OpToRel(<, Nat))
  BY <1>1, WFMin, NatLessThanWellFounded
<1>3. \A k \in Pids(S) : n <= k
  <2>1. \A k \in Pids(S) : ~(k < n)
    BY <1>1, <1>2 DEF OpToRel
  <2> QED
    BY <1>1, <2>1
<1>4. PICK r \in S : r.pid = n
  BY <1>2 DEF Pids
<1>5. \A s \in S : r.pid <= s.pid
  BY <1>3, <1>4 DEF Pids
<1> QED
  BY <1>4, <1>5 DEF First

-----------------------------------------------------------------------------
(* What a step does to the directories: a record is added by the write of  *)
(* the session that carries it, and a pending one is removed by a session  *)
(* that is clearing up.                                                    *)
Stores ==
    /\ active'[Lower] \subseteq active[Lower] \cup
          (IF ini.pc = "reconciling" /\ ini'.pc # "reconciling" THEN ini.record ELSE {})
    /\ active'[Higher] \subseteq active[Higher] \cup
          (IF res.pc = "finalizing" /\ res'.pc # "finalizing" THEN res.record ELSE {})
    /\ pending'[Lower] \subseteq pending[Lower] \cup
          (IF ini.pc = "cosigning" /\ ini'.pc # "cosigning" THEN ini.record ELSE {})
    /\ pending'[Higher] \subseteq pending[Higher] \cup
          (IF res.pc = "preparing" /\ res'.pc # "preparing" THEN res.record ELSE {})
    /\ \/ pending[Lower] \subseteq pending'[Lower]
       \/ ini.pc = "clearing" /\ ini'.pc = "idle"
    /\ \/ pending[Higher] \subseteq pending'[Higher]
       \/ res.pc = "clearing" /\ res'.pc = "idle"
    /\ active[Lower] \cup revoked[Lower] \subseteq active'[Lower] \cup revoked'[Lower]
    /\ active[Higher] \cup revoked[Higher] \subseteq active'[Higher] \cup revoked'[Higher]
    /\ revoked'[Lower] \subseteq active[Lower] \cup revoked[Lower]
    /\ revoked'[Higher] \subseteq active[Higher] \cup revoked[Higher]

LEMMA StoresQuiet == UNCHANGED stores => Stores
BY DEF stores, Stores

LEMMA CrashWritesType ==
    ASSUME TypeInv, NEW d \in Device, NEW S
    PROVE  /\ CrashWriting(d, "active", active, S) =>
                 \A e \in Device :
                    /\ active[e] \subseteq active'[e]
                    /\ active'[e] \subseteq active[e] \cup (IF e = d THEN S ELSE {})
           /\ CrashWriting(d, "pending", pending, S) =>
                 \A e \in Device :
                    /\ pending[e] \subseteq pending'[e]
                    /\ pending'[e] \subseteq pending[e] \cup (IF e = d THEN S ELSE {})
           /\ CrashClearing(d) \/ ClearPending(d) =>
                 \A e \in Device : /\ pending'[e] \subseteq pending[e]
                                   /\ e # d => pending'[e] = pending[e]
<1>1. active \in [Device -> SUBSET Record] /\ pending \in [Device -> SUBSET Record]
  BY DEF TypeInv, TypeOK
<1> QED
  BY <1>1 DEF CrashWriting, CrashClearing, ClearPending

LEMMA StoresStep == TypeInv /\ [Next]_vars => Stores
<1> SUFFICES ASSUME TypeInv, [Next]_vars PROVE Stores
  OBVIOUS
<1>t. /\ active \in [Device -> SUBSET Record]
      /\ pending \in [Device -> SUBSET Record]
      /\ revoked \in [Device -> SUBSET Record]
      /\ ini \in IniState /\ res \in ResState
      /\ Lower \in Device /\ Higher \in Device /\ Lower # Higher
      /\ \A d \in Device : d = Lower \/ d = Higher
  BY DEF TypeInv, TypeOK, Device, Lower, Higher
<1>i. IniIdle.pc = "idle" /\ ResIdle.pc = "idle"
  BY DEF IniIdle, ResIdle
<1>1. CASE IniCoSign
  <2>1. PICK r \in ini.record : WritePending(Lower, r)
    BY <1>1 DEF IniCoSign
  <2>2. ini.pc = "cosigning" /\ ini'.pc = "completed" /\ UNCHANGED <<active, revoked, res>>
    BY <1>1, <1>t DEF IniCoSign, IniState
  <2>3. /\ pending'[Higher] = pending[Higher]
        /\ pending[Lower] \subseteq pending'[Lower]
        /\ pending'[Lower] \subseteq pending[Lower] \cup {r}
    BY <1>t, <2>1 DEF WritePending
  <2> QED
    BY <1>t, <2>1, <2>2, <2>3 DEF Stores
<1>2. CASE IniActivate
  <2>1. ini'.pc = "clearing"
    BY <1>2, <1>t DEF IniActivate, IniState
  <2> QED
    BY <1>2, <1>t, <2>1 DEF IniActivate, Stores
<1>3. CASE IniClear
  <2>1. ini.pc = "clearing" /\ ini'.pc = "idle" /\ UNCHANGED <<active, revoked, res>>
    BY <1>3, <1>i DEF IniClear, IniEnd
  <2>2. pending'[Lower] \subseteq pending[Lower] /\ pending'[Higher] = pending[Higher]
    BY <1>3, <1>t, CrashWritesType DEF IniClear
  <2> QED
    BY <1>t, <2>1, <2>2 DEF Stores
<1>4. CASE IniCrash
  <2>1. ini'.pc = "idle" /\ UNCHANGED <<revoked, res>>
    BY <1>4, <1>i DEF IniCrash, IniEnd
  <2>2. CASE UNCHANGED <<active, pending>>
    BY <2>1, <2>2 DEF Stores
  <2>3. CASE /\ ini.pc = "cosigning" /\ active' = active
             /\ CrashWriting(Lower, "pending", pending, ini.record)
    BY <1>t, <2>1, <2>3, CrashWritesType DEF Stores
  <2>4. CASE /\ ini.pc = "reconciling" /\ pending' = pending
             /\ CrashWriting(Lower, "active", active, ini.record)
    BY <1>t, <2>1, <2>4, CrashWritesType DEF Stores
  <2>5. CASE ini.pc = "clearing" /\ active' = active /\ CrashClearing(Lower)
    BY <1>t, <2>1, <2>5, CrashWritesType DEF Stores
  <2> QED
    BY <1>4, <2>2, <2>3, <2>4, <2>5 DEF IniCrash, CrashElsewhere, CrashClearing
<1>5. CASE ResPrepare
  <2>1. CASE UNCHANGED <<active, revoked, pending>>
    BY <2>1 DEF Stores
  <2>2. ASSUME NEW r \in res.record, WritePending(Higher, r),
               res' = [res EXCEPT !.pc = "prepared", !.record = {}]
        PROVE  Stores
    <3>1. /\ pending'[Lower] = pending[Lower]
          /\ pending[Higher] \subseteq pending'[Higher]
          /\ pending'[Higher] \subseteq pending[Higher] \cup {r}
      BY <1>t, <2>2 DEF WritePending
    <3>2. res.pc = "preparing" /\ res'.pc = "prepared" /\ UNCHANGED <<active, revoked, ini>>
      BY <1>5, <1>t, <2>2 DEF ResPrepare, ResState
    <3> QED
      BY <1>t, <2>2, <3>1, <3>2 DEF Stores
  <2> QED
    BY <1>5, <2>1, <2>2 DEF ResPrepare
<1>6. CASE ResActivate
  <2>1. res'.pc = "clearing"
    BY <1>6, <1>t DEF ResActivate, ResState
  <2> QED
    BY <1>6, <1>t, <2>1 DEF ResActivate, Stores
<1>7. CASE ResClear
  <2>1. res.pc = "clearing" /\ res'.pc = "idle" /\ UNCHANGED <<active, revoked, ini>>
    BY <1>7, <1>i DEF ResClear, ResEnd
  <2>2. pending'[Higher] \subseteq pending[Higher] /\ pending'[Lower] = pending[Lower]
    BY <1>7, <1>t, CrashWritesType DEF ResClear
  <2> QED
    BY <1>t, <2>1, <2>2 DEF Stores
<1>8. CASE ResCrash
  <2>1. res'.pc = "idle" /\ UNCHANGED <<revoked, ini>>
    BY <1>8, <1>i DEF ResCrash
  <2>2. CASE UNCHANGED <<active, pending>>
    BY <2>1, <2>2 DEF Stores
  <2>3. CASE /\ res.pc = "preparing" /\ active' = active
             /\ CrashWriting(Higher, "pending", pending, res.record)
    BY <1>t, <2>1, <2>3, CrashWritesType DEF Stores
  <2>4. CASE /\ res.pc = "finalizing" /\ pending' = pending
             /\ CrashWriting(Higher, "active", active, res.record)
    BY <1>t, <2>1, <2>4, CrashWritesType DEF Stores
  <2>5. CASE res.pc = "clearing" /\ active' = active /\ CrashClearing(Higher)
    BY <1>t, <2>1, <2>5, CrashWritesType DEF Stores
  <2> QED
    BY <1>8, <2>2, <2>3, <2>4, <2>5 DEF ResCrash, CrashElsewhere, CrashClearing
<1>9. ASSUME NEW d \in Device, Revoke(d) PROVE Stores
  <2>1. PICK r \in active[d] :
          /\ active' = [active EXCEPT ![d] = @ \ {r}]
          /\ revoked' = [revoked EXCEPT ![d] = @ \cup {r}]
    BY <1>9 DEF Revoke
  <2>2. UNCHANGED <<pending, ini, res>>
    BY <1>9 DEF Revoke
  <2>3. \A e \in Device :
          /\ active'[e] = IF e = d THEN active[e] \ {r} ELSE active[e]
          /\ revoked'[e] = IF e = d THEN revoked[e] \cup {r} ELSE revoked[e]
    BY <1>t, <2>1
  <2> QED
    BY <1>t, <2>2, <2>3 DEF Stores
<1>10. CASE IniProgress /\ ~IniCoSign /\ ~IniActivate /\ ~IniClear
  BY <1>10, StoresQuiet
  DEF IniProgress, IniStart, IniBegin, IniRequest, IniReceivePrepared, IniResend,
      IniBeginCoSign, IniReceiveComplete, IniReceiveFinalized, IniPeerGone
<1>11. CASE ResProgress /\ ~ResPrepare /\ ~ResActivate /\ ~ResClear
  BY <1>11, StoresQuiet
  DEF ResProgress, ResAccept, ResReceiveRequest, ResSendActive, ResSendPending, ResResume,
      ResPrompt, ResReceiveComplete, ResPeerGone, stores
<1>12. CASE UserAnswers \/ IniStartLate \/ IniAbort \/ ResAbort \/ ResRefuse
  BY <1>12, StoresQuiet
  DEF UserAnswers, UserApproves, UserDenies, IniStartLate, IniBegin, IniAbort, ResAbort,
      ResRefuse
<1>13. CASE UNCHANGED vars
  BY <1>13, StoresQuiet DEF vars
<1> QED
  BY <1>1, <1>2, <1>3, <1>4, <1>5, <1>6, <1>7, <1>8, <1>9, <1>10, <1>11, <1>12, <1>13
  DEF Next, Faults

-----------------------------------------------------------------------------
(* What a step does to the sessions and the connection, field by field.    *)
Carried(msgs) == {m.record : m \in {n \in msgs : n.type = "complete"}}

IniStops ==
    ini' = IniIdle /\ link' = "none" /\ toIni' = {} /\ toRes' = toRes

IniBegins ==
    /\ ini'.pc = "started" /\ ini'.record = {}
    /\ ~ini'.reconnect =>
          active[Lower] = {} /\ pending[Lower] = {} /\ ini'.pid \in FreshPids
    /\ ini.pc = "idle" /\ link' = "backlog" /\ toIni' = {} /\ toRes' = toRes
    /\ UNCHANGED stores

IniGoesOn ==
    /\ ini'.reconnect = ini.reconnect /\ ini'.pid = ini.pid
    /\ toIni' \subseteq toIni
    /\ link' = link

IniRequests ==
    /\ ini.pc = "started" /\ link = "open" /\ IniGoesOn
    /\ ini'.pc = "requested" /\ ini'.record = ini.record
    /\ toRes' \subseteq toRes \cup {Request}
    /\ UNCHANGED stores

IniSigns(r) ==
    /\ ini.pc = "requested" /\ IniGoesOn
    /\ ini'.pc = "cosigning" /\ ini'.record = {r} /\ r.sigs = Device
    /\ \E m \in toIni : /\ m.type = "prepared" /\ BoundTo(m.record, ini)
                        /\ r.pid = m.record.pid
    /\ toRes' = toRes
    /\ UNCHANGED stores

IniCompletesWith(r) ==
    /\ IniGoesOn
    /\ ini'.pc = "completed" /\ ini'.record = {r}
    /\ \/ /\ ini.pc = "requested" /\ UNCHANGED stores
          /\ r \in pending[Lower] \cup Carried(toIni)
       \/ /\ ini.pc = "cosigning" /\ ini.record = {r} /\ WritePending(Lower, r)
          /\ UNCHANGED <<active, revoked>>
    /\ toRes' \subseteq toRes \cup {Complete(r)}

IniFinishes ==
    /\ ini.pc \in {"completed", "reconciling"} /\ IniGoesOn
    /\ ini'.pc \in {"reconciling", "clearing"} /\ ini'.record = ini.record
    /\ ini'.pc = "clearing" => ini.record \subseteq active'[Lower]
    /\ toRes' = toRes

IniMove ==
    /\ UNCHANGED res
    /\ \/ IniStops \/ IniBegins \/ IniRequests \/ IniFinishes
       \/ \E r : IniSigns(r) \/ IniCompletesWith(r)

ResStops ==
    /\ res' = ResIdle /\ toRes' = {} /\ link' \in {"none", link} /\ link' # "open"
    /\ Carried(toIni') \subseteq Carried(toIni) \cup active[Higher]
    /\ \A m \in toIni' : m.type = "prepared" => m \in toIni

ResAccepts ==
    /\ res.pc = "idle" /\ link = "backlog" /\ link' = "open"
    /\ res'.pc = "handshake" /\ res'.reconnect = ini.reconnect /\ res'.record = {}
    /\ res'.active = ActiveSeen /\ res'.pending = PendingSeen
    /\ StartMatches
    /\ UNCHANGED <<stores, toIni, toRes>>

ResGoesOn ==
    /\ res.pc # "idle" /\ link' = link
    /\ res'.reconnect = res.reconnect /\ res'.pid = res.pid
    /\ res'.active = res.active /\ res'.pending = res.pending
    /\ toRes' \subseteq toRes

ResSends(S) ==
    /\ ResGoesOn
    /\ \/ res.pc = "handshake" /\ res.active = {} /\ S = res.pending
       \/ res.pc = "preparing" /\ S = res.record
    /\ res'.pc = "prepared"
    /\ \A m \in toIni' :
          m \in toIni \/ (m.type = "prepared" /\ m.record \in S)

ResSigns(time) ==
    /\ ResGoesOn
    /\ \/ res.pc = "handshake" /\ res.active = {} /\ ~res.reconnect
       \/ res.pc = "authorizing"
    /\ res'.pc = "preparing" /\ res'.record = {NewRecord(time)}
    /\ UNCHANGED <<stores, toIni>>

ResAsks ==
    /\ ResGoesOn
    /\ res.pc = "handshake" /\ res.active = {} /\ res.pending = {}
    /\ res'.pc = "authorizing"
    /\ UNCHANGED <<stores, toIni>>

ResTakes(r) ==
    /\ ResGoesOn
    /\ res.pc = "prepared" /\ r \in Carried(toRes)
    /\ res'.pc \in {"finalizing", "clearing"} /\ res'.record = {r}
    /\ UNCHANGED <<stores, toIni>>

ResFinishes ==
    /\ ResGoesOn
    /\ res.pc = "finalizing" /\ res'.pc = "clearing" /\ res'.record = res.record
    /\ UNCHANGED <<pending, toIni>>

Rests ==
    /\ UNCHANGED <<res, toIni, toRes>>
    /\ \/ link' = link
       \/ link = "backlog" /\ link' = "none"

ResMove ==
    /\ UNCHANGED ini
    /\ \/ ResStops \/ ResAccepts \/ ResAsks \/ ResFinishes \/ Rests
       \/ \E S : ResSends(S)
       \/ \E t : ResSigns(t)
       \/ \E r : ResTakes(r)

LEMMA CarriedFacts ==
    /\ Carried({}) = {}
    /\ \A A, B : A \subseteq B => Carried(A) \subseteq Carried(B)
    /\ \A A, r : Carried(A \cup {Complete(r)}) \subseteq Carried(A) \cup {r}
    /\ \A A, r : Carried(A \cup {Complete(r), Finalized}) \subseteq Carried(A) \cup {r}
    /\ \A A : /\ Carried(A \cup {Request}) \subseteq Carried(A)
             /\ Carried(A \cup {Finalized}) \subseteq Carried(A)
BY MessageFields DEF Carried

LEMMA Moved ==
    ASSUME TypeInv, StoreInv, OrderInv, [Next]_vars
    PROVE  IniMove \/ ResMove
<1>t. /\ ini \in IniState /\ res \in ResState
      /\ active \in [Device -> SUBSET Record]
      /\ Lower \in Device
      /\ \A r, q \in ini.record : r = q
  BY DEF TypeInv, TypeOK, StoreInv, Device
<1>e. ASSUME IniEnd, UNCHANGED <<res, toRes>> PROVE IniMove
  BY <1>e DEF IniEnd, IniMove, IniStops
<1>r. ASSUME ResEnd, UNCHANGED <<ini, toIni>> PROVE ResMove
  BY <1>r DEF ResEnd, ResMove, ResStops
<1>1. CASE IniStart \/ IniStartLate
  <2>1. IniBegin
    BY <1>1 DEF IniStart, IniStartLate
  <2>2. IniBegins /\ UNCHANGED res
    BY <2>1 DEF IniBegin, IniBegins, IniIdle
  <2> QED
    BY <2>2 DEF IniMove
<1>2. CASE IniRequest
  <2>1. /\ ini'.pc = "requested" /\ ini'.record = ini.record
        /\ ini'.reconnect = ini.reconnect /\ ini'.pid = ini.pid
    BY <1>2, <1>t DEF IniRequest, IniState
  <2> QED
    BY <1>2, <2>1 DEF IniRequest, IniMove, IniRequests, IniGoesOn, SendToRes
<1>3. CASE IniReceivePrepared
  <2>1. PICK m \in toIni :
          /\ m.type = "prepared"
          /\ \/ IniResend(m.record)
             \/ IniBeginCoSign(m.record)
             \/ IniEnd /\ UNCHANGED toRes
    BY <1>3 DEF IniReceivePrepared
  <2>2. ini.pc = "requested" /\ UNCHANGED res /\ m.record.sigs = {Higher}
    BY <1>3, <2>1 DEF IniReceivePrepared, OrderInv, FinalizedInv
  <2>3. CASE IniResend(m.record)
    <3>1. Lower \notin m.record.sigs
      BY <2>2 DEF Lower, Higher
    <3>2. PICK c \in LocalComplete :
            /\ ini' = [ini EXCEPT !.pc = "completed", !.record = {c}]
            /\ SendToRes(Complete(c))
      BY <2>3, <3>1 DEF IniResend
    <3>3. c \in pending[Lower]
      BY <3>2 DEF LocalComplete, First
    <3>4. /\ ini'.pc = "completed" /\ ini'.record = {c}
          /\ ini'.reconnect = ini.reconnect /\ ini'.pid = ini.pid
      BY <1>t, <3>2 DEF IniState
    <3>5. toIni' \subseteq toIni /\ UNCHANGED <<stores, link>>
      BY <2>3 DEF IniResend
    <3>6. toRes' \subseteq toRes \cup {Complete(c)}
      BY <3>2 DEF SendToRes
    <3> QED
      BY <2>2, <3>3, <3>4, <3>5, <3>6 DEF IniMove, IniCompletesWith, IniGoesOn
  <2>4. CASE IniBeginCoSign(m.record)
    <3> DEFINE c == [m.record EXCEPT !.sigs = @ \cup {Lower}]
    <3>1. /\ ini' = [ini EXCEPT !.pc = "cosigning", !.record = {c}]
          /\ c.sigs = Device /\ BoundTo(m.record, ini)
      BY <2>4 DEF IniBeginCoSign, IsComplete
    <3>2. /\ ini'.pc = "cosigning" /\ ini'.record = {c}
          /\ ini'.reconnect = ini.reconnect /\ ini'.pid = ini.pid
      BY <1>t, <3>1 DEF IniState
    <3>3. m.record \in Record
      BY <2>1, MessageRecord DEF TypeInv, TypeOK
    <3>4. c.pid = m.record.pid
      BY <3>3 DEF Record
    <3>5. toIni' \subseteq toIni /\ UNCHANGED <<stores, link, toRes>>
      BY <2>4 DEF IniBeginCoSign
    <3> HIDE DEF c
    <3> QED
      BY <2>1, <2>2, <3>1, <3>2, <3>4, <3>5 DEF IniMove, IniSigns, IniGoesOn
  <2> QED
    BY <1>e, <2>1, <2>2, <2>3, <2>4
<1>4. CASE IniCoSign
  <2>1. PICK r \in ini.record : WritePending(Lower, r) /\ SendToRes(Complete(r))
    BY <1>4 DEF IniCoSign
  <2>2. ini.pc = "cosigning" /\ UNCHANGED <<active, revoked, res, link, toIni>>
    BY <1>4 DEF IniCoSign
  <2>3. /\ ini'.pc = "completed" /\ ini'.record = {r} /\ ini.record = {r}
        /\ ini'.reconnect = ini.reconnect /\ ini'.pid = ini.pid
    BY <1>4, <1>t, <2>1 DEF IniCoSign, IniState
  <2>4. toRes' \subseteq toRes \cup {Complete(r)}
    BY <2>1 DEF SendToRes
  <2> QED
    BY <2>1, <2>2, <2>3, <2>4 DEF IniMove, IniCompletesWith, IniGoesOn
<1>5. CASE IniReceiveComplete
  <2>1. PICK m \in toIni :
          /\ m.type = "complete"
          /\ \/ /\ ini' = [ini EXCEPT !.pc = "completed", !.record = {m.record}]
                /\ toIni' = toIni \ {m}
                /\ link' = link
             \/ IniEnd
    BY <1>5 DEF IniReceiveComplete
  <2>2. ini.pc = "requested" /\ UNCHANGED <<stores, res, toRes>>
    BY <1>5 DEF IniReceiveComplete
  <2>3. CASE /\ ini' = [ini EXCEPT !.pc = "completed", !.record = {m.record}]
             /\ toIni' = toIni \ {m}
             /\ link' = link
    <3>1. /\ ini'.pc = "completed" /\ ini'.record = {m.record}
          /\ ini'.reconnect = ini.reconnect /\ ini'.pid = ini.pid
      BY <1>t, <2>3 DEF IniState
    <3>2. m.record \in Carried(toIni)
      BY <2>1 DEF Carried
    <3> QED
      BY <2>2, <2>3, <3>1, <3>2 DEF IniMove, IniCompletesWith, IniGoesOn
  <2> QED
    BY <1>e, <2>1, <2>2, <2>3
<1>6. CASE IniReceiveFinalized
  <2>1. PICK r \in ini.record :
          \/ /\ ini' = [ini EXCEPT !.pc = AfterChecks(r)]
             /\ toIni' = toIni \ {Finalized}
             /\ link' = link
          \/ IniEnd
    BY <1>6 DEF IniReceiveFinalized
  <2>2. ini.pc = "completed" /\ UNCHANGED <<stores, res, toRes>>
    BY <1>6 DEF IniReceiveFinalized
  <2>3. CASE /\ ini' = [ini EXCEPT !.pc = AfterChecks(r)]
             /\ toIni' = toIni \ {Finalized}
             /\ link' = link
    <3>1. /\ ini'.pc = AfterChecks(r) /\ ini'.record = ini.record
          /\ ini'.reconnect = ini.reconnect /\ ini'.pid = ini.pid
      BY <1>t, <2>3 DEF IniState
    <3>2. /\ ini'.pc \in {"reconciling", "clearing"}
          /\ ini'.pc = "clearing" => ini.record \subseteq active[Lower]
      BY <1>t, <3>1 DEF AfterChecks
    <3> QED
      BY <2>2, <2>3, <3>1, <3>2 DEF IniMove, IniFinishes, IniGoesOn, stores
  <2> QED
    BY <1>e, <2>1, <2>2, <2>3
<1>7. CASE IniActivate
  <2>1. ini.pc = "reconciling" /\ UNCHANGED <<res, link, toIni, toRes>>
    BY <1>7 DEF IniActivate, network
  <2>2. /\ ini'.pc = "clearing" /\ ini'.record = ini.record
        /\ ini'.reconnect = ini.reconnect /\ ini'.pid = ini.pid
    BY <1>7, <1>t DEF IniActivate, IniState
  <2>3. ini.record \subseteq active'[Lower]
    BY <1>7, <1>t DEF IniActivate
  <2> QED
    BY <2>1, <2>2, <2>3 DEF IniMove, IniFinishes, IniGoesOn
<1>8. CASE IniClear \/ IniPeerGone \/ IniAbort \/ IniCrash
  BY <1>8, <1>e DEF IniClear, IniPeerGone, IniAbort, IniCrash
<1>11. CASE ResAccept
  <2>1. /\ res.pc = "idle" /\ link = "backlog" /\ UNCHANGED <<stores, ini, toIni, toRes>>
    BY <1>11 DEF ResAccept
  <2>2. CASE res' = res /\ link' = "none"
    BY <2>1, <2>2 DEF ResMove, Rests
  <2>3. CASE /\ StartMatches /\ link' = "open"
             /\ res' = [pc |-> "handshake", reconnect |-> ini.reconnect,
                        pid |-> ini.pid,
                        active |-> ActiveSeen, pending |-> PendingSeen,
                        record |-> {}]
    BY <2>1, <2>3 DEF ResMove, ResAccepts
  <2> QED
    BY <1>11, <2>2, <2>3 DEF ResAccept
<1>12. CASE ResReceiveRequest
  <2>1. res.pc = "handshake" /\ UNCHANGED <<active, revoked, litter, ini>>
    BY <1>12 DEF ResReceiveRequest
  <2>2. CASE ResSendActive
    <3>1. res' = ResIdle /\ toRes' = {} /\ link' \in {"none", link} /\ link' # "open"
      BY <2>2 DEF ResSendActive, ResEnd
    <3>2. toIni' = toIni \/ \E r \in active[Higher] : toIni' = toIni \cup {Complete(r), Finalized}
      BY <2>2 DEF ResSendActive, SendToIni
    <3>3. Carried(toIni') \subseteq Carried(toIni) \cup active[Higher]
      BY <3>2, CarriedFacts
    <3>4. \A m \in toIni' : m.type = "prepared" => m \in toIni
      BY <3>2, MessageFields
    <3> QED
      BY <2>1, <3>1, <3>3, <3>4 DEF ResMove, ResStops
  <2>3. CASE ResSendPending
    <3>1. PICK r \in res.pending : SendToIni({Prepared(r)})
      BY <2>3 DEF ResSendPending
    <3>2. /\ res'.pc = "prepared" /\ toRes' \subseteq toRes /\ link' = link
          /\ res'.reconnect = res.reconnect /\ res'.pid = res.pid
          /\ res'.active = res.active /\ res'.pending = res.pending /\ res.active = {}
      BY <1>t, <2>3 DEF ResSendPending, ResState
    <3>3. \A m \in toIni' :
             m \in toIni \/ (m.type = "prepared" /\ m.record \in res.pending)
      <4>1. toIni' \subseteq toIni \cup {Prepared(r)}
        BY <3>1 DEF SendToIni
      <4>2. Prepared(r).type = "prepared" /\ Prepared(r).record = r
        BY MessageFields
      <4> QED
        BY <4>1, <4>2
    <3>4. ResSends(res.pending)
      BY <2>1, <3>2, <3>3 DEF ResSends, ResGoesOn
    <3> QED
      BY <2>1, <3>4 DEF ResMove
  <2>4. CASE ResResume
    <3>1. PICK t : res' = [res EXCEPT !.pc = "preparing", !.record = {NewRecord(t)}]
      BY <2>4 DEF ResResume
    <3>2. /\ res'.pc = "preparing" /\ res'.record = {NewRecord(t)}
          /\ res'.reconnect = res.reconnect /\ res'.pid = res.pid
          /\ res'.active = res.active /\ res'.pending = res.pending
      BY <1>t, <3>1 DEF ResState
    <3>3. ResSigns(t)
      BY <2>1, <2>4, <3>2 DEF ResResume, ResSigns, ResGoesOn, stores
    <3> QED
      BY <2>1, <3>3 DEF ResMove
  <2>5. CASE ResPrompt
    <3>1. /\ res'.pc = "authorizing"
          /\ res'.reconnect = res.reconnect /\ res'.pid = res.pid
          /\ res'.active = res.active /\ res'.pending = res.pending
      BY <1>t, <2>5 DEF ResPrompt, ResState
    <3> QED
      BY <2>1, <2>5, <3>1 DEF ResPrompt, ResMove, ResAsks, ResGoesOn, stores
  <2> QED
    BY <1>12, <2>2, <2>3, <2>4, <2>5 DEF ResReceiveRequest
<1>13. CASE UserApproves
  <2>1. /\ res.pc = "authorizing" /\ UNCHANGED <<stores, ini, link, toIni, toRes>>
        /\ res' = [res EXCEPT !.pc = "preparing", !.record = {NewRecord(consents + 1)}]
    BY <1>13 DEF UserApproves, Authorized, network
  <2>2. /\ res'.pc = "preparing" /\ res'.record = {NewRecord(consents + 1)}
        /\ res'.reconnect = res.reconnect /\ res'.pid = res.pid
        /\ res'.active = res.active /\ res'.pending = res.pending
    BY <1>t, <2>1 DEF ResState
  <2>3. ResSigns(consents + 1)
    BY <2>1, <2>2 DEF ResSigns, ResGoesOn
  <2> QED
    BY <2>1, <2>3 DEF ResMove
<1>14. CASE UserDenies \/ ResPeerGone \/ ResAbort
  BY <1>14, <1>r DEF UserDenies, ResPeerGone, ResAbort
<1>15. CASE ResPrepare
  <2>1. res.pc = "preparing" /\ UNCHANGED ini
    BY <1>15 DEF ResPrepare
  <2>2. CASE ResEnd /\ UNCHANGED toIni
    BY <1>r, <2>1, <2>2
  <2>3. ASSUME NEW r \in res.record, SendToIni({Prepared(r)}),
               res' = [res EXCEPT !.pc = "prepared", !.record = {}],
               UNCHANGED <<link, toRes>>
        PROVE  ResMove
    <3>1. /\ res'.pc = "prepared"
          /\ res'.reconnect = res.reconnect /\ res'.pid = res.pid
          /\ res'.active = res.active /\ res'.pending = res.pending
      BY <1>t, <2>3 DEF ResState
    <3>2. \A m \in toIni' :
             m \in toIni \/ (m.type = "prepared" /\ m.record \in res.record)
      <4>1. toIni' \subseteq toIni \cup {Prepared(r)}
        BY <2>3 DEF SendToIni
      <4>2. Prepared(r).type = "prepared" /\ Prepared(r).record = r
        BY MessageFields
      <4> QED
        BY <4>1, <4>2
    <3>3. ResSends(res.record)
      BY <2>1, <2>3, <3>1, <3>2 DEF ResSends, ResGoesOn
    <3> QED
      BY <2>1, <3>3 DEF ResMove
  <2> QED
    BY <1>15, <2>2, <2>3 DEF ResPrepare
<1>16. CASE ResReceiveComplete
  <2>1. res.pc = "prepared" /\ UNCHANGED <<stores, ini>>
    BY <1>16 DEF ResReceiveComplete
  <2>2. PICK m \in toRes :
          /\ m.type = "complete"
          /\ \/ SendToIni({Finalized}) /\ ResEnd
             \/ /\ res' = [res EXCEPT !.pc = IF m.record \in active[Higher]
                                          THEN "clearing" ELSE "finalizing",
                                      !.record = {m.record}]
                /\ toRes' = toRes \ {m}
                /\ UNCHANGED <<link, toIni>>
             \/ ResEnd /\ UNCHANGED toIni
    BY <1>16 DEF ResReceiveComplete
  <2>3. CASE SendToIni({Finalized}) /\ ResEnd
    <3>1. toIni' \subseteq toIni \cup {Finalized}
      BY <2>3 DEF SendToIni
    <3>2. Carried(toIni') \subseteq Carried(toIni)
      BY <3>1, MessageFields DEF Carried
    <3> QED
      BY <2>1, <2>3, <3>1, <3>2, MessageFields DEF ResEnd, ResMove, ResStops
  <2>4. CASE /\ res' = [res EXCEPT !.pc = IF m.record \in active[Higher]
                                          THEN "clearing" ELSE "finalizing",
                                      !.record = {m.record}]
             /\ toRes' = toRes \ {m}
             /\ UNCHANGED <<link, toIni>>
    <3>1. /\ res'.pc \in {"clearing", "finalizing"} /\ res'.record = {m.record}
          /\ res'.reconnect = res.reconnect /\ res'.pid = res.pid
          /\ res'.active = res.active /\ res'.pending = res.pending
      BY <1>t, <2>4 DEF ResState
    <3>2. m.record \in Carried(toRes)
      BY <2>2 DEF Carried
    <3>3. ResTakes(m.record)
      BY <2>1, <2>4, <3>1, <3>2 DEF ResTakes, ResGoesOn
    <3> QED
      BY <2>1, <3>3 DEF ResMove
  <2> QED
    BY <1>r, <2>1, <2>2, <2>3, <2>4
<1>17. CASE ResActivate
  <2>1. res.pc = "finalizing" /\ UNCHANGED <<pending, ini, link, toIni, toRes>>
    BY <1>17 DEF ResActivate, network
  <2>2. /\ res'.pc = "clearing" /\ res'.record = res.record
        /\ res'.reconnect = res.reconnect /\ res'.pid = res.pid
        /\ res'.active = res.active /\ res'.pending = res.pending
    BY <1>17, <1>t DEF ResActivate, ResState
  <2> QED
    BY <2>1, <2>2 DEF ResMove, ResFinishes, ResGoesOn
<1>18. CASE ResClear
  <2>1. ResEnd /\ UNCHANGED ini /\ toIni' \subseteq toIni \cup {Finalized}
    BY <1>18 DEF ResClear, SendToIni
  <2>2. Carried(toIni') \subseteq Carried(toIni)
    BY <2>1, MessageFields DEF Carried
  <2> QED
    BY <2>1, <2>2, MessageFields DEF ResEnd, ResMove, ResStops
<1>19. CASE ResCrash
  BY <1>19 DEF ResCrash, ResMove, ResStops
<1>20. CASE ResRefuse \/ UNCHANGED vars \/ \E d \in Device : Revoke(d)
  <2>1. UNCHANGED <<ini, res, toIni, toRes>>
    BY <1>20 DEF ResRefuse, Revoke, vars, network
  <2>2. \/ link' = link
        \/ link = "backlog" /\ link' = "none"
    BY <1>20 DEF ResRefuse, Revoke, vars, network
  <2> QED
    BY <2>1, <2>2 DEF ResMove, Rests
<1> QED
  BY <1>1, <1>2, <1>3, <1>4, <1>5, <1>6, <1>7, <1>8, <1>11, <1>12, <1>13, <1>14,
     <1>15, <1>16, <1>17, <1>18, <1>19, <1>20
  DEF Next, IniProgress, ResProgress, UserAnswers, Faults

-----------------------------------------------------------------------------
(* The invariant.  Shown are the fully signed records that the initiator   *)
(* has let out of the thread that signs them, wherever they are now.       *)
Activating == IF res.pc \in {"finalizing", "clearing"} THEN res.record ELSE {}
Shown == active[Lower] \cup active[Higher] \cup pending[Lower]
            \cup Carried(toIni) \cup Carried(toRes) \cup Activating
Live == Shown \cup ini.record

(* What the initiator still has of them. *)
Held == active[Lower] \cup revoked[Lower] \cup pending[Lower]

(* All of them are one record. *)
OneAgreement ==
    /\ \A r, s \in Live : r = s
    /\ \A r \in Live : r.sigs = Device

(* The initiator signs durably before it answers, and cleans up last.      *)
HeldInv ==
    /\ Shown \subseteq Held
    /\ ini.pc # "cosigning" => ini.record \subseteq Held
    /\ ini.pc = "clearing" => ini.record \subseteq active[Lower] \cup revoked[Lower]

(* Sessions carry records when they should, and the records under way are  *)
(* bound to first-contact sessions. *)
RecordInv ==
    /\ ini.pc \in {"idle", "started", "requested"} <=> ini.record = {}
    /\ res.pc \in {"finalizing", "clearing"} => res.record # {}
    /\ \A r \in pending[Higher] \cup res.pending : r.binding = r.pid
    /\ res.pc = "preparing" => \A r \in res.record : r.binding = r.pid
    /\ \A m \in toIni : m.type = "prepared" => m.record.binding = m.record.pid

(* A first contact signs only where nothing has been agreed: once the      *)
(* responder has let it pass, nothing fully signed is left anywhere.       *)
FirstContact ==
    ini.pc \in {"started", "requested", "cosigning"} /\ ~ini.reconnect

ContactInv ==
    /\ link # "open" /\ res.pc # "idle" => ini.pc \in {"idle", "started"}
    /\ link = "open" => ini.reconnect = res.reconnect
    /\ ini.pc = "cosigning" => ~ini.reconnect
    /\ FirstContact =>
          /\ active[Lower] = {} /\ pending[Lower] = {}
          /\ ini.pc # "started" => Shown = {}
          /\ \A r \in Shown \cup revoked[Lower] \cup revoked[Higher] : r.pid # ini.pid
          /\ \A r \in ini.record : r.pid = ini.pid

(* What the responder read at the start of its session is still true when  *)
(* it acts on it, as far as it acts on it. *)
AnswerInv ==
    /\ res.pc # "idle" =>
          IF res.reconnect THEN res.active # {} \/ res.pending # {} ELSE res.active = {}
    /\ res.pc \in {"authorizing", "preparing", "prepared", "finalizing"} => res.active = {}
    /\ res.pc \in {"handshake", "authorizing", "preparing", "prepared", "finalizing"} =>
          (res.active = {} => active[Higher] = {})
    /\ res.pc \in {"authorizing", "preparing"} => ~res.reconnect
    /\ res.pc \in {"handshake", "authorizing"} =>
          (res.pending = {} => pending[Higher] = {})
    /\ res.pc = "authorizing" => res.pending = {}

AgreementInv == OneAgreement /\ HeldInv /\ RecordInv /\ ContactInv /\ AnswerInv

LEMMA AgreementInit == Init => AgreementInv
<1>1. ASSUME Init PROVE Shown = {} /\ ini.record = {} /\ ini.pc = "idle" /\ res.pc = "idle"
  BY <1>1, CarriedFacts DEF Init, Shown, Activating, IniIdle, ResIdle, Device
<1>2. ASSUME Init PROVE res.pending = {} /\ pending[Higher] = {} /\ link = "none" /\ toIni = {}
  BY <1>2 DEF Init, ResIdle, Device
<1> QED
  BY <1>1, <1>2
  DEF AgreementInv, OneAgreement, HeldInv, RecordInv, ContactInv, AnswerInv, Live, FirstContact

-----------------------------------------------------------------------------
(* Signed records only move: on from a directory into a message, a session *)
(* or another directory. *)
LEMMA Exchange ==
    ASSUME IniMove \/ ResMove
    PROVE  /\ Carried(toIni') \subseteq Carried(toIni) \cup active[Higher]
           /\ Carried(toRes') \subseteq Carried(toRes) \cup
                 (IF ini'.pc = "completed" THEN ini'.record ELSE {})
           /\ Activating' \subseteq Activating \cup Carried(toRes)
<1>1. Carried(toIni') \subseteq Carried(toIni) \cup active[Higher]
  <2>1. CASE toIni' \subseteq toIni
    BY <2>1, CarriedFacts
  <2>2. ASSUME NEW S, ResSends(S) PROVE Carried(toIni') \subseteq Carried(toIni)
    BY <2>2 DEF ResSends, Carried
  <2> QED
    BY <2>1, <2>2
    DEF IniMove, ResMove, IniStops, IniBegins, IniRequests, IniFinishes, IniSigns,
        IniCompletesWith, IniGoesOn, ResStops, ResAccepts, ResAsks, ResFinishes, Rests,
        ResSigns, ResTakes
<1>2. Carried(toRes') \subseteq Carried(toRes) \cup
         (IF ini'.pc = "completed" THEN ini'.record ELSE {})
  <2>1. CASE toRes' \subseteq toRes
    BY <2>1, CarriedFacts
  <2>2. CASE toRes' \subseteq toRes \cup {Request}
    <3>1. Carried(toRes') \subseteq Carried(toRes \cup {Request})
      BY <2>2, CarriedFacts
    <3> QED
      BY <3>1, CarriedFacts
  <2>3. ASSUME NEW r, IniCompletesWith(r)
        PROVE  Carried(toRes') \subseteq Carried(toRes) \cup
                  (IF ini'.pc = "completed" THEN ini'.record ELSE {})
    <3>1. Carried(toRes') \subseteq Carried(toRes \cup {Complete(r)})
      BY <2>3, CarriedFacts DEF IniCompletesWith
    <3>2. Carried(toRes') \subseteq Carried(toRes) \cup {r}
      BY <3>1, CarriedFacts
    <3> QED
      BY <2>3, <3>2 DEF IniCompletesWith
  <2> QED
    BY <2>1, <2>2, <2>3
    DEF IniMove, ResMove, IniStops, IniBegins, IniRequests, IniFinishes, IniSigns,
        ResStops, ResAccepts, ResAsks, ResFinishes, Rests, ResSends, ResSigns, ResTakes,
        ResGoesOn
<1>3. Activating' \subseteq Activating \cup Carried(toRes)
  BY DEF Activating, IniMove, ResMove, ResStops, ResIdle, ResAccepts, ResAsks, ResFinishes,
         Rests, ResSends, ResSigns, ResTakes
<1> QED
  BY <1>1, <1>2, <1>3

LEMMA ShownGrows ==
    ASSUME Stores, IniMove \/ ResMove
    PROVE  Shown' \subseteq
              Shown
              \cup (IF ini.pc \in {"cosigning", "reconciling"} /\ ini'.pc # ini.pc
                        THEN ini.record ELSE {})
              \cup (IF ini'.pc = "completed" THEN ini'.record ELSE {})
<1>1. active'[Higher] \subseteq active[Higher] \cup Activating
  BY DEF Stores, Activating
<1>2. active'[Lower] \cup pending'[Lower] \subseteq
         active[Lower] \cup pending[Lower]
         \cup (IF ini.pc \in {"cosigning", "reconciling"} /\ ini'.pc # ini.pc
                   THEN ini.record ELSE {})
  BY DEF Stores
<1> QED
  BY <1>1, <1>2, Exchange DEF Shown

-----------------------------------------------------------------------------
(* The answers: what the session read stays true until it writes itself.   *)
LEMMA AnswerStep ==
    ASSUME TypeInv, AnswerInv, Stores, IniMove \/ ResMove
    PROVE  AnswerInv'
<1>s. /\ res'.pc = res.pc => /\ active'[Higher] \subseteq active[Higher]
                             /\ pending'[Higher] \subseteq pending[Higher]
      /\ res.pc # "preparing" => pending'[Higher] \subseteq pending[Higher]
      /\ res.pc # "finalizing" => active'[Higher] \subseteq active[Higher]
  BY DEF Stores
<1>1. CASE res' = res
  BY <1>1, <1>s DEF AnswerInv
<1>2. CASE ResStops
  BY <1>2 DEF ResStops, ResIdle, AnswerInv
<1>3. CASE ResAccepts
  <2>1. active[Higher] \in SUBSET Record /\ pending[Higher] \in SUBSET Record
    BY DEF TypeInv, TypeOK, Device
  <2>2. /\ res'.active = {} => active[Higher] = {}
        /\ res'.pending = {} => pending[Higher] = {}
    BY <1>3, <2>1, FirstExists DEF ResAccepts, ActiveSeen, PendingSeen, Pids
  <2>3. IF ini.reconnect THEN res'.active # {} \/ res'.pending # {} ELSE res'.active = {}
    BY <1>3 DEF ResAccepts, StartMatches, Expected, Pids
  <2> QED
    BY <1>3, <2>2, <2>3 DEF ResAccepts, stores, AnswerInv
<1>4. ASSUME NEW S, ResSends(S) PROVE AnswerInv'
  BY <1>4, <1>s DEF ResSends, ResGoesOn, AnswerInv
<1>5. ASSUME NEW t, ResSigns(t) PROVE AnswerInv'
  BY <1>5, <1>s DEF ResSigns, ResGoesOn, AnswerInv
<1>6. CASE ResAsks
  BY <1>6, <1>s DEF ResAsks, ResGoesOn, AnswerInv
<1>7. ASSUME NEW r, ResTakes(r) PROVE AnswerInv'
  BY <1>7, <1>s DEF ResTakes, ResGoesOn, AnswerInv
<1>8. CASE ResFinishes
  BY <1>8, <1>s DEF ResFinishes, ResGoesOn, AnswerInv
<1> QED
  BY <1>1, <1>2, <1>3, <1>4, <1>5, <1>6, <1>7, <1>8 DEF IniMove, ResMove, Rests

(* The records under way. *)
LEMMA RecordStep ==
    ASSUME TypeInv, AnswerInv, RecordInv, Stores, IniMove \/ ResMove
    PROVE  RecordInv'
<1>1. ini'.pc \in {"idle", "started", "requested"} <=> ini'.record = {}
  BY DEF RecordInv, IniMove, ResMove, IniStops, IniIdle, IniBegins, IniRequests, IniFinishes,
         IniSigns, IniCompletesWith
<1>2. res'.pc \in {"finalizing", "clearing"} => res'.record # {}
  BY DEF RecordInv, IniMove, ResMove, ResStops, ResIdle, ResAccepts, ResAsks, ResFinishes,
         Rests, ResSends, ResSigns, ResTakes
<1>3. \A r \in pending'[Higher] : r.binding = r.pid
  BY DEF RecordInv, Stores
<1>4. \A r \in res'.pending : r.binding = r.pid
  <2>1. res'.pending \subseteq res.pending \cup pending[Higher]
    BY FirstSubset
    DEF IniMove, ResMove, ResStops, ResIdle, ResAccepts, PendingSeen, ResAsks, ResFinishes,
        Rests, ResSends, ResSigns, ResTakes, ResGoesOn
  <2> QED
    BY <2>1 DEF RecordInv
<1>5. res'.pc = "preparing" => \A r \in res'.record : r.binding = r.pid
  <2>1. ASSUME NEW t, ResSigns(t) PROVE \A r \in res'.record : r.binding = r.pid
    <3>1. ~res.reconnect
      BY <2>1 DEF ResSigns, AnswerInv
    <3>2. NewRecord(t).binding = NewRecord(t).pid
      BY <3>1 DEF NewRecord, Binding
    <3> QED
      BY <2>1, <3>2 DEF ResSigns
  <2>2. res'.pc = "preparing" => res' = res \/ \E t : ResSigns(t)
    BY DEF IniMove, ResMove, ResStops, ResIdle, ResAccepts, ResAsks, ResFinishes,
           Rests, ResSends, ResTakes
  <2> QED
    BY <2>1, <2>2 DEF RecordInv
<1>6. \A m \in toIni' : m.type = "prepared" => m.record.binding = m.record.pid
  <2>1. ASSUME NEW S, ResSends(S), NEW m \in toIni', m.type = "prepared"
        PROVE  m.record.binding = m.record.pid
    BY <2>1 DEF ResSends, RecordInv
  <2>2. \/ \A m \in toIni' : m.type = "prepared" => m \in toIni
        \/ \E S : ResSends(S)
    BY DEF IniMove, ResMove, IniStops, IniBegins, IniRequests, IniFinishes, IniSigns,
           IniCompletesWith, IniGoesOn, ResStops, ResAccepts, ResAsks, ResFinishes, Rests,
           ResSigns, ResTakes
  <2> QED
    BY <2>1, <2>2 DEF RecordInv
<1> QED
  BY <1>1, <1>2, <1>3, <1>4, <1>5, <1>6 DEF RecordInv

-----------------------------------------------------------------------------
(* First contact. *)

(* When the responder lets a first contact pass, it has nothing.           *)
LEMMA NothingShown ==
    ASSUME OrderInv, AnswerInv, ContactInv, FirstContact, IniRequests
    PROVE  Shown = {}
<1>1. /\ ini.pc = "started" /\ link = "open" /\ res.pc = "handshake" /\ toIni = {}
      /\ \A m \in toRes : m.type # "complete"
  BY DEF IniRequests, OrderInv, LinkInv
<1>2. ~res.reconnect /\ active[Lower] = {} /\ pending[Lower] = {}
  BY <1>1 DEF ContactInv, FirstContact
<1>3. active[Higher] = {}
  BY <1>1, <1>2 DEF AnswerInv
<1>4. Carried(toIni) = {} /\ Carried(toRes) = {} /\ Activating = {}
  BY <1>1 DEF Carried, Activating
<1> QED
  BY <1>2, <1>3, <1>4 DEF Shown

(* What an initiator co-signs was prepared for its own first contact.      *)
LEMMA SignsOwn ==
    ASSUME TypeInv, RecordInv, NEW r, IniSigns(r)
    PROVE  ~ini.reconnect /\ r.pid = ini.pid
<1>1. PICK m \in toIni : /\ m.type = "prepared" /\ BoundTo(m.record, ini)
                         /\ r.pid = m.record.pid
  BY DEF IniSigns
<1>2. m.record.binding = m.record.pid
  BY <1>1 DEF RecordInv
<1>3. m.record.pid # 0
  BY <1>1, MessageRecord, PairIdsAssumption DEF TypeInv, TypeOK, Record
<1> QED
  BY <1>1, <1>2, <1>3 DEF BoundTo, Binding

LEMMA ContactStep ==
    ASSUME TypeInv, OrderInv, RecordInv, ContactInv, AnswerInv, Stores, IniMove \/ ResMove
    PROVE  ContactInv'
<1>1. link' # "open" /\ res'.pc # "idle" => ini'.pc \in {"idle", "started"}
  BY DEF ContactInv, OrderInv, LinkInv, IniMove, ResMove, IniStops, IniIdle, IniBegins,
         IniRequests, IniFinishes, IniSigns, IniCompletesWith, IniGoesOn, ResStops, ResIdle,
         ResAccepts, ResAsks, ResFinishes, Rests, ResSends, ResSigns, ResTakes, ResGoesOn
<1>2. link' = "open" => ini'.reconnect = res'.reconnect
  BY DEF ContactInv, IniMove, ResMove, IniStops, IniBegins, IniRequests, IniFinishes,
         IniSigns, IniCompletesWith, IniGoesOn, ResStops, ResAccepts, ResAsks, ResFinishes,
         Rests, ResSends, ResSigns, ResTakes, ResGoesOn
<1>3. ini'.pc = "cosigning" => ~ini'.reconnect
  <2>1. \/ ini'.pc = "cosigning" => ini' = ini
        \/ \E r : IniSigns(r)
    BY DEF IniMove, ResMove, IniStops, IniIdle, IniBegins, IniRequests, IniFinishes,
           IniCompletesWith
  <2> QED
    BY <2>1, SignsOwn DEF ContactInv, IniSigns, IniGoesOn
<1> DEFINE Contact ==
       /\ active[Lower] = {} /\ pending[Lower] = {}
       /\ ini.pc # "started" => Shown = {}
       /\ \A r \in Shown \cup revoked[Lower] \cup revoked[Higher] : r.pid # ini.pid
       /\ \A r \in ini.record : r.pid = ini.pid
<1>4. CASE IniBegins /\ UNCHANGED res
  <2>1. Shown' \subseteq Shown /\ ini'.pc = "started" /\ ini'.record = {}
    BY <1>4, CarriedFacts DEF IniBegins, stores, Shown, Activating
  <2>2. ASSUME NEW r \in Shown \cup revoked[Lower] \cup revoked[Higher]
        PROVE  r.pid \in PidsInUse
    <3>1. CASE r \in Carried(toIni) \cup Carried(toRes)
      <4>1. PICK m \in toIni \cup toRes : m.type = "complete" /\ m.record = r
        BY <3>1 DEF Carried
      <4>2. r.pid \in {n.record.pid : n \in {k \in toIni \cup toRes :
                                               k.type \in {"prepared", "complete"}}}
        BY <4>1
      <4> QED
        BY <4>2 DEF PidsInUse
    <3>2. CASE r \in Activating
      <4>1. r.pid \in Pids(res.record)
        BY <3>2 DEF Activating, Pids
      <4> QED
        BY <4>1 DEF PidsInUse
    <3>3. ASSUME NEW d \in Device, r \in active[d] \cup pending[d] \cup revoked[d]
          PROVE  r.pid \in PidsInUse
      <4>1. r.pid \in Pids(active[d] \cup pending[d] \cup revoked[d])
        BY <3>3 DEF Pids
      <4> QED
        BY <4>1 DEF PidsInUse
    <3> QED
      BY <2>2, <3>1, <3>2, <3>3 DEF Shown, Device
  <2>3. ASSUME NEW r \in Shown' \cup revoked'[Lower] \cup revoked'[Higher], ~ini'.reconnect
        PROVE  r.pid # ini'.pid
    <3>1. r \in Shown \cup revoked[Lower] \cup revoked[Higher]
      BY <1>4, <2>1 DEF IniBegins, stores
    <3>2. ini'.pid \notin PidsInUse
      BY <1>4, <2>3 DEF IniBegins, FreshPids
    <3> QED
      BY <2>2, <3>1, <3>2
  <2>4. ~ini'.reconnect => Contact'
    BY <1>4, <2>1, <2>3 DEF IniBegins, stores
  <2> QED
    BY <1>1, <1>2, <1>3, <2>4 DEF ContactInv, FirstContact
<1>5. CASE ~(IniBegins /\ UNCHANGED res)
  <2>1. ASSUME FirstContact'
        PROVE  /\ FirstContact /\ ini'.pid = ini.pid
               /\ \/ ini' = ini
                  \/ IniRequests
                  \/ \E r : IniSigns(r)
    BY <1>5, <2>1
    DEF FirstContact, IniMove, ResMove, IniStops, IniIdle, IniRequests, IniFinishes,
        IniSigns, IniCompletesWith, IniGoesOn
  <2>2. ASSUME FirstContact' PROVE Contact'
    <3>1. FirstContact /\ ini'.pid = ini.pid /\ Contact
      BY <2>1, <2>2 DEF ContactInv
    <3>2. /\ ini'.pc # "completed"
          /\ ini.pc \in {"cosigning", "reconciling"} => ini'.pc = ini.pc
      BY <2>1, <2>2 DEF FirstContact, IniRequests, IniSigns
    <3>3. Shown' \subseteq Shown
      BY <3>2, ShownGrows
    <3>4. active'[Lower] = {} /\ pending'[Lower] = {}
      BY <3>1, <3>2 DEF Stores
    <3>5. revoked'[Lower] \cup revoked'[Higher]
             \subseteq Shown \cup revoked[Lower] \cup revoked[Higher]
      BY DEF Stores, Shown
    <3>6. ini'.pc # "started" => Shown = {}
      <4>1. CASE IniRequests
        BY <3>1, <4>1, NothingShown
      <4>2. CASE ini' = ini \/ \E r : IniSigns(r)
        BY <3>1, <4>2 DEF IniSigns
      <4> QED
        BY <2>1, <2>2, <4>1, <4>2
    <3>7. \A r \in ini'.record : r.pid = ini.pid
      <4>1. CASE \E r : IniSigns(r)
        BY <4>1, SignsOwn DEF IniSigns
      <4>2. CASE ini' = ini \/ IniRequests
        BY <3>1, <4>2 DEF IniRequests
      <4> QED
        BY <2>1, <2>2, <4>1, <4>2
    <3> QED
      BY <3>1, <3>3, <3>4, <3>5, <3>6, <3>7
  <2> QED
    BY <1>1, <1>2, <1>3, <2>2 DEF ContactInv
<1> QED
  BY <1>4, <1>5

-----------------------------------------------------------------------------
(* Agreement and possession. *)
LEMMA OneAgreementStep ==
    ASSUME OneAgreement, ContactInv', Stores, IniMove \/ ResMove
    PROVE  OneAgreement'
<1>1. CASE \E r : IniSigns(r)
  <2>1. PICK r : ini'.record = {r} /\ r.sigs = Device /\ ini'.pc = "cosigning"
    BY <1>1 DEF IniSigns
  <2>2. Shown' = {}
    BY <2>1 DEF ContactInv, FirstContact
  <2> QED
    BY <2>1, <2>2 DEF OneAgreement, Live
<1>2. CASE ~\E r : IniSigns(r)
  <2>1. ini'.record \subseteq Live
    BY <1>2
    DEF IniMove, ResMove, IniStops, IniIdle, IniBegins, IniRequests, IniFinishes,
        IniCompletesWith, Live, Shown
  <2>2. Shown' \subseteq Live
    BY <2>1, ShownGrows DEF Live
  <2> QED
    BY <2>1, <2>2 DEF OneAgreement, Live
<1> QED
  BY <1>1, <1>2

(* Clearing removes copies of the record the initiator has activated.      *)
LEMMA ClearedIsActive ==
    ASSUME AgreementInv, ini.pc = "clearing"
    PROVE  /\ ini.record # {}
           /\ pending[Lower] \subseteq active[Lower] \cup revoked[Lower]
<1>1. ini.record # {} /\ ini.record \subseteq active[Lower] \cup revoked[Lower]
  BY DEF AgreementInv, RecordInv, HeldInv
<1>2. \A r \in pending[Lower] : \A s \in ini.record : r = s
  BY DEF AgreementInv, OneAgreement, Live, Shown
<1> QED
  BY <1>1, <1>2

LEMMA HeldGrows ==
    ASSUME AgreementInv, Stores
    PROVE  Held \subseteq Held'
<1>1. active[Lower] \cup revoked[Lower] \subseteq active'[Lower] \cup revoked'[Lower]
  BY DEF Stores
<1>2. pending[Lower] \subseteq pending'[Lower] \/ ini.pc = "clearing"
  BY DEF Stores
<1> QED
  BY <1>1, <1>2, ClearedIsActive DEF Held

LEMMA HeldStep ==
    ASSUME TypeInv, AgreementInv, Stores, IniMove \/ ResMove
    PROVE  HeldInv'
<1>h. Held \subseteq Held'
  BY HeldGrows
<1>1. ini'.pc # "cosigning" => ini'.record \subseteq Held'
  <2>1. ASSUME NEW r, IniCompletesWith(r) PROVE ini'.record \subseteq Held'
    <3>1. CASE r \in pending[Lower] \cup Carried(toIni)
      BY <1>h, <2>1, <3>1 DEF IniCompletesWith, AgreementInv, HeldInv, Shown
    <3>2. CASE ini.pc = "cosigning" /\ WritePending(Lower, r)
      <4>1. pending[Lower] = {}
        BY <3>2 DEF AgreementInv, ContactInv, FirstContact
      <4>2. r \in pending'[Lower]
        BY <3>2, <4>1 DEF WritePending, PendingAt, TypeInv, TypeOK, Device
      <4> QED
        BY <2>1, <4>2 DEF IniCompletesWith, Held
    <3> QED
      BY <2>1, <3>1, <3>2 DEF IniCompletesWith
  <2>2. CASE ini'.record = {}
    BY <2>2
  <2>3. CASE ini.pc # "cosigning" /\ ini'.record = ini.record
    BY <1>h, <2>3 DEF AgreementInv, HeldInv
  <2>4. \/ ini'.pc = "cosigning"
        \/ \E r : IniCompletesWith(r)
        \/ ini'.record = {}
        \/ ini.pc # "cosigning" /\ ini'.record = ini.record
    BY DEF IniMove, ResMove, IniStops, IniIdle, IniBegins, IniRequests, IniFinishes, IniSigns
  <2> QED
    BY <2>1, <2>2, <2>3, <2>4
<1>2. Shown' \subseteq Held'
  <2>1. Shown' \subseteq Shown \cup active'[Lower] \cup pending'[Lower]
           \cup (IF ini'.pc = "completed" THEN ini'.record ELSE {})
    BY Exchange DEF Shown, Stores, Activating
  <2>2. Shown \subseteq Held
    BY DEF AgreementInv, HeldInv
  <2> QED
    BY <1>h, <1>1, <2>1, <2>2 DEF Held
<1>3. ini'.pc = "clearing" => ini'.record \subseteq active'[Lower] \cup revoked'[Lower]
  <2>1. ini'.pc = "clearing" => ini' = ini \/ ini'.record \subseteq active'[Lower]
    BY DEF IniMove, ResMove, IniStops, IniIdle, IniBegins, IniRequests, IniFinishes, IniSigns,
           IniCompletesWith
  <2> QED
    BY <2>1 DEF AgreementInv, HeldInv, Stores
<1> QED
  BY <1>1, <1>2, <1>3 DEF HeldInv

PairInv == TypeInv /\ StoreInv /\ OrderInv /\ AgreementInv

LEMMA PairInit == Init => PairInv
BY TypeInit, StoreInit, OrderInit, AgreementInit DEF PairInv

LEMMA PairStep == PairInv /\ [Next]_vars => PairInv'
<1> SUFFICES ASSUME PairInv, [Next]_vars PROVE PairInv'
  OBVIOUS
<1>1. Stores /\ (IniMove \/ ResMove)
  BY StoresStep, Moved DEF PairInv
<1>2. AnswerInv' /\ RecordInv' /\ ContactInv'
  BY <1>1, AnswerStep, RecordStep, ContactStep DEF PairInv, AgreementInv
<1>3. OneAgreement' /\ HeldInv'
  BY <1>1, <1>2, OneAgreementStep, HeldStep DEF PairInv, AgreementInv
<1>4. AgreementInv'
  BY <1>2, <1>3 DEF AgreementInv
<1> QED
  BY <1>4, TypeStep, StoreStep, OrderStep DEF PairInv

-----------------------------------------------------------------------------
(* The devices never trust different records, nor either of them two.      *)
THEOREM RecordsAgree == Spec => []ActiveRecordsAgree
<1>1. PairInv => ActiveRecordsAgree
  BY DEF PairInv, AgreementInv, OneAgreement, Live, Shown, ActiveRecordsAgree
<1> QED
  BY <1>1, PairInit, PairStep, PTL DEF Spec

(* The initiator still holds whatever the responder trusts.                *)
THEOREM Recoverable == Spec => []ResponderIsRecoverable
<1>1. PairInv => ResponderIsRecoverable
  BY DEF PairInv, AgreementInv, HeldInv, Held, Shown, ResponderIsRecoverable
<1> QED
  BY <1>1, PairInit, PairStep, PTL DEF Spec

(* The user is asked only when neither directory has anything to resume.   *)
THEOREM PromptsWithoutState == Spec => []PromptOnlyWithoutState
<1>1. PairInv => PromptOnlyWithoutState
  BY DEF PairInv, AgreementInv, AnswerInv, PromptOnlyWithoutState
<1> QED
  BY <1>1, PairInit, PairStep, PTL DEF Spec

(* Pending state is given up only for an active or a revoked record.       *)
THEOREM PendingOutlived == Spec => PendingOutlivedByActive
<1> DEFINE Outlived == \A d \in Device : pending[d] \subseteq pending'[d]
                                           \/ active'[d] \cup revoked'[d] # {}
<1>1. ASSUME PairInv, [Next]_vars PROVE Outlived
  <2>1. Stores
    BY <1>1, StoresStep DEF PairInv
  <2>2. ini.pc = "clearing" => active'[Lower] \cup revoked'[Lower] # {}
    BY <1>1, <2>1 DEF Stores, PairInv, AgreementInv, HeldInv, RecordInv
  <2>3. res.pc = "clearing" => active'[Higher] \cup revoked'[Higher] # {}
    BY <1>1, <2>1 DEF Stores, PairInv, AgreementInv, RecordInv, OrderInv, FinalizedInv, Known
  <2> QED
    BY <2>1, <2>2, <2>3 DEF Stores, Device
<1>2. PairInv /\ [Next]_vars => [Outlived]_vars
  BY <1>1
<1> QED
  BY <1>2, PairInit, PairStep, PTL DEF Spec, PendingOutlivedByActive

-----------------------------------------------------------------------------
(* Pairing implements BilateralTrust.                                      *)
Trusted == [d \in Device |-> Pids(active[d])]
Revoked == [d \in Device |-> Pids(revoked[d])]

(* The agreements are what the responder knows and what the initiator has  *)
(* pending. *)
AgreedAs == Agreed = Pids(Known \cup pending[Lower])

LEMMA TrustState == PairInv => AgreedAs /\ Trust!ActedOn = Pids(Known)
<1> SUFFICES ASSUME PairInv PROVE AgreedAs /\ Trust!ActedOn = Pids(Known)
  OBVIOUS
<1>d. /\ Lower \in Device /\ Higher \in Device /\ Lower # Higher
      /\ \A d \in Device : d = Lower \/ d = Higher
  BY DEF Device, Lower, Higher
<1>k. active[Lower] \cup revoked[Lower] \subseteq Known
  BY DEF PairInv, OrderInv, InitiatorActivatesLast, Known
<1>1. ASSUME NEW r
      PROVE  r \in Known \cup pending[Lower] <=>
                (\E d \in Device : r \in pending[d] \cup active[d] \cup revoked[d]) /\ IsComplete(r)
  <2>1. \A x \in pending[Higher] : ~IsComplete(x)
    BY <1>d DEF PairInv, OrderInv, SignatureInv, IsComplete, Device, Lower, Higher
  <2>2. \A x \in Known \cup pending[Lower] : IsComplete(x)
    BY <1>d DEF PairInv, StoreInv, ActiveIsBilateral, AgreementInv, OneAgreement, Live, Shown,
                Known, IsComplete
  <2> QED
    BY <1>d, <1>k, <2>1, <2>2 DEF Known
<1>2. Agreed = Pids(Known \cup pending[Lower])
  BY <1>1 DEF Agreed, Pids
<1>3. Trust!ActedOn = Pids(Known)
  <2>1. ASSUME NEW p
        PROVE  p \in Pids(Known) <=> \E d \in Device : p \in Pids(active[d]) \cup Pids(revoked[d])
    BY <1>d, <1>k DEF Pids, Known
  <2> QED
    BY <2>1 DEF Trust!ActedOn, Trust!Party, Device
<1> QED
  BY <1>2, <1>3 DEF AgreedAs

LEMMA AgreedNext == PairInv' => Agreed' = Pids(Known' \cup pending'[Lower])
<1>1. PairInv => AgreedAs
  BY TrustState
<1>2. PairInv' => AgreedAs'
  BY <1>1, PTL
<1> QED
  BY <1>2 DEF AgreedAs

LEMMA TrustStutters ==
    ASSUME PairInv, PairInv', UNCHANGED <<active, revoked>>,
           \/ pending'[Lower] = pending[Lower]
           \/ /\ pending'[Lower] \subseteq pending[Lower]
              /\ pending[Lower] \subseteq active[Lower] \cup revoked[Lower]
    PROVE  UNCHANGED Trust!tvars
<1>1. Known' = Known /\ Known' \cup pending'[Lower] = Known \cup pending[Lower]
  BY DEF Known, PairInv, OrderInv, InitiatorActivatesLast
<1>2. Agreed' = Agreed
  BY <1>1, TrustState, AgreedNext DEF AgreedAs
<1> QED
  BY <1>2 DEF Trust!tvars

(* The initiator's pending record becomes durable: both have signed.       *)
LEMMA TrustAgree ==
    ASSUME PairInv, PairInv', UNCHANGED <<active, revoked>>, ini.pc = "cosigning",
           NEW r \in ini.record, pending'[Lower] = pending[Lower] \cup {r}
    PROVE  Trust!TrustNext
<1>1. /\ active[Lower] = {} /\ pending[Lower] = {} /\ active[Higher] = {}
      /\ r.pid \notin Pids(revoked[Higher]) /\ r.pid \in PairIds
  BY DEF PairInv, AgreementInv, ContactInv, FirstContact, Shown, Pids, TypeInv, TypeOK, IniState,
         Record
<1>2. Agreed = Pids(revoked[Higher]) /\ Trust!ActedOn = Pids(revoked[Higher])
  BY <1>1, TrustState DEF Known, AgreedAs
<1>3. Agreed' = Agreed \cup {r.pid}
  <2>1. Agreed' = Pids(Known' \cup pending'[Lower])
    BY AgreedNext
  <2> QED
    BY <1>1, <1>2, <2>1 DEF Known, Pids
<1>4. Trusted[Lower] = {} /\ Trusted[Higher] = {}
  BY <1>1 DEF Trusted, Pids, Device
<1>5. Trust!Agree(r.pid)
  BY <1>1, <1>2, <1>3, <1>4 DEF Trust!Agree, Trusted
<1> QED
  BY <1>1, <1>5 DEF Trust!TrustNext

(* The responder activates.                                                *)
LEMMA TrustResponder ==
    ASSUME PairInv, PairInv', UNCHANGED <<pending, revoked>>, res.pc = "finalizing",
           active' = [active EXCEPT ![Higher] = @ \cup res.record]
    PROVE  Trust!TrustNext
<1>d. /\ Lower \in Device /\ Higher \in Device /\ Lower # Higher
      /\ active \in [Device -> SUBSET Record]
      /\ \A q, s \in res.record : q = s
  BY DEF Device, Lower, Higher, PairInv, TypeInv, TypeOK, StoreInv
<1>1. PICK r \in res.record : r.sigs = Device /\ Unknown(Higher, r)
  BY DEF PairInv, AgreementInv, RecordInv, StoreInv
<1>2. r \in Shown /\ r \in pending[Lower]
  <2>1. r \in Shown
    BY <1>1 DEF Shown, Activating
  <2>2. r \notin Known
    BY <1>1 DEF Unknown, Known, Pids
  <2> QED
    BY <2>1, <2>2
    DEF PairInv, AgreementInv, HeldInv, Held, OrderInv, InitiatorActivatesLast, Known
<1>3. r.pid \in PairIds
  BY <1>2, <1>d DEF PairInv, TypeInv, TypeOK, Record
<1>4. active[Higher] = {} /\ active[Lower] = {}
  <2>1. active[Higher] = {}
    BY DEF PairInv, AgreementInv, AnswerInv
  <2>2. \A s \in active[Lower] : s = r
    BY <1>2 DEF PairInv, AgreementInv, OneAgreement, Live, Shown
  <2>3. r \notin active[Lower]
    BY <1>1 DEF Unknown, Pids, PairInv, OrderInv, InitiatorActivatesLast
  <2> QED
    BY <2>1, <2>2, <2>3
<1>5. active'[Higher] = {r} /\ active'[Lower] = active[Lower] /\ res.record = {r}
  BY <1>1, <1>4, <1>d
<1>6. Agreed' = Agreed /\ r.pid \in Agreed
  <2>1. Known' \cup pending'[Lower] = Known \cup pending[Lower]
    BY <1>2, <1>4, <1>5 DEF Known
  <2> QED
    BY <1>2, <2>1, TrustState, AgreedNext DEF AgreedAs, Pids
<1>7. r.pid \notin Trust!ActedOn
  BY <1>1, TrustState DEF Unknown, Known, Pids
<1>8. /\ Trusted[Lower] = {} /\ Trusted[Higher] = {}
      /\ Trusted' = [Trusted EXCEPT ![Higher] = {r.pid}]
  BY <1>d, <1>4, <1>5 DEF Trusted, Pids, Device
<1>9. Trust!ResponderTrusts(r.pid)
  BY <1>6, <1>7, <1>8 DEF Trust!ResponderTrusts, Trusted
<1> QED
  BY <1>3, <1>9 DEF Trust!TrustNext

(* The initiator follows. *)
LEMMA TrustInitiator ==
    ASSUME PairInv, PairInv', UNCHANGED <<pending, revoked>>, ini.pc = "reconciling",
           active' = [active EXCEPT ![Lower] = @ \cup ini.record]
    PROVE  Trust!TrustNext
<1>d. /\ Lower \in Device /\ Higher \in Device /\ Lower # Higher
      /\ active \in [Device -> SUBSET Record]
      /\ \A q, s \in ini.record : q = s
  BY DEF Device, Lower, Higher, PairInv, TypeInv, TypeOK, StoreInv
<1>1. PICK r \in ini.record : Unknown(Lower, r) /\ r \in Known /\ r.pid \in PairIds
  BY DEF PairInv, AgreementInv, RecordInv, StoreInv, OrderInv, FinalizedInv, TypeInv, TypeOK,
         IniState, Record
<1>2. active[Lower] = {} /\ active[Higher] \subseteq {r}
  <2>1. \A s \in active[Lower] \cup active[Higher] : s = r
    BY <1>1 DEF PairInv, AgreementInv, OneAgreement, Live, Shown
  <2>2. r \notin active[Lower]
    BY <1>1 DEF Unknown, Pids
  <2> QED
    BY <2>1, <2>2
<1>3. active'[Lower] = {r} /\ active'[Higher] = active[Higher]
  BY <1>1, <1>2, <1>d
<1>4. Agreed' = Agreed
  <2>1. Known' = Known
    BY <1>3 DEF Known
  <2> QED
    BY <2>1, TrustState, AgreedNext DEF AgreedAs
<1>5. /\ Trusted[Lower] = {} /\ Trusted[Higher] \subseteq {r.pid}
      /\ Trusted' = [Trusted EXCEPT ![Lower] = {r.pid}]
  <2>1. Pids(active[Lower]) = {} /\ Pids({r}) = {r.pid} /\ Pids(active[Higher]) \subseteq {r.pid}
    BY <1>2 DEF Pids
  <2>2. Trusted' = [Trusted EXCEPT ![Lower] = {r.pid}]
    BY <1>d, <1>3, <2>1 DEF Trusted, Device
  <2> QED
    BY <1>d, <2>1, <2>2 DEF Trusted
<1>6. r.pid \in Trusted[Higher] \cup Revoked[Higher] /\ r.pid \notin Revoked[Lower]
  BY <1>d, <1>1 DEF Known, Trusted, Revoked, Unknown, Pids
<1>7. Trust!InitiatorTrusts(r.pid)
  BY <1>4, <1>5, <1>6 DEF Trust!InitiatorTrusts, Trusted, Revoked
<1> QED
  BY <1>1, <1>7 DEF Trust!TrustNext

LEMMA TrustRevoke ==
    ASSUME PairInv, PairInv', NEW d \in Device, Revoke(d)
    PROVE  Trust!TrustNext
<1>d. /\ Lower \in Device /\ Higher \in Device /\ Lower # Higher
      /\ active \in [Device -> SUBSET Record]
      /\ revoked \in [Device -> SUBSET Record]
  BY DEF Device, Lower, Higher, PairInv, TypeInv, TypeOK
<1>1. PICK r \in active[d] :
        /\ active' = [active EXCEPT ![d] = @ \ {r}]
        /\ revoked' = [revoked EXCEPT ![d] = @ \cup {r}]
  BY DEF Revoke
<1>2. r.pid \in PairIds
  BY <1>d DEF Record
<1>3. \A e \in Device : /\ active'[e] = IF e = d THEN active[e] \ {r} ELSE active[e]
                        /\ revoked'[e] = IF e = d THEN revoked[e] \cup {r} ELSE revoked[e]
  BY <1>1, <1>d
<1>4. Pids(active[d] \ {r}) = Pids(active[d]) \ {r.pid}
  BY DEF PairInv, StoreInv, OnePerPid, Pids
<1>5. Pids(revoked[d] \cup {r}) = Pids(revoked[d]) \cup {r.pid}
  BY DEF Pids
<1>6. /\ r.pid \in Trusted[d]
      /\ Trusted' = [Trusted EXCEPT ![d] = @ \ {r.pid}]
      /\ Revoked' = [Revoked EXCEPT ![d] = @ \cup {r.pid}]
  <2>1. r.pid \in Trusted[d]
    BY DEF Trusted, Pids
  <2>2. Trusted' = [Trusted EXCEPT ![d] = @ \ {r.pid}]
    BY <1>3, <1>4 DEF Trusted
  <2>3. Revoked' = [Revoked EXCEPT ![d] = @ \cup {r.pid}]
    BY <1>3, <1>5 DEF Revoked
  <2> QED
    BY <2>1, <2>2, <2>3
<1>7. Agreed' = Agreed
  <2>1. Known' = Known /\ pending' = pending
    BY <1>3, <1>d DEF Known, Revoke
  <2> QED
    BY <2>1, TrustState, AgreedNext DEF AgreedAs
<1>8. Trust!Revoke(d, r.pid)
  BY <1>6, <1>7 DEF Trust!Revoke, Trusted, Revoked
<1> QED
  BY <1>2, <1>8 DEF Trust!TrustNext, Trust!Party, Device

LEMMA TrustStep ==
    ASSUME PairInv, PairInv', [Next]_vars
    PROVE  [Trust!TrustNext]_(Trust!tvars)
<1>d. /\ Lower \in Device /\ Higher \in Device /\ Lower # Higher
      /\ pending \in [Device -> SUBSET Record]
      /\ \A q, s \in ini.record : q = s
  BY DEF Device, Lower, Higher, PairInv, TypeInv, TypeOK, StoreInv
<1>s. ASSUME UNCHANGED <<active, revoked>>, pending'[Lower] = pending[Lower]
      PROVE  UNCHANGED Trust!tvars
  BY <1>s, TrustStutters
<1>c. ASSUME UNCHANGED <<active, revoked>>, ini.pc = "clearing",
             pending'[Lower] \subseteq pending[Lower]
      PROVE  UNCHANGED Trust!tvars
  BY <1>c, ClearedIsActive, TrustStutters DEF PairInv
<1>1. CASE IniCoSign
  <2>1. PICK r \in ini.record : WritePending(Lower, r)
    BY <1>1 DEF IniCoSign
  <2>2. ini.pc = "cosigning" /\ UNCHANGED <<active, revoked>>
    BY <1>1 DEF IniCoSign
  <2>3. \/ pending'[Lower] = pending[Lower]
        \/ pending'[Lower] = pending[Lower] \cup {r}
    BY <1>d, <2>1 DEF WritePending
  <2> QED
    BY <1>s, <2>2, <2>3, TrustAgree
<1>2. CASE IniActivate
  BY <1>2, TrustInitiator DEF IniActivate
<1>3. CASE IniClear
  <2>1. UNCHANGED <<active, revoked>> /\ ini.pc = "clearing"
    BY <1>3 DEF IniClear
  <2>2. pending'[Lower] \subseteq pending[Lower]
    BY <1>3, <1>d, CrashWritesType DEF IniClear, PairInv
  <2> QED
    BY <1>c, <2>1, <2>2
<1>4. CASE IniCrash
  <2>1. UNCHANGED revoked
    BY <1>4 DEF IniCrash
  <2>2. CASE UNCHANGED <<active, pending>>
    BY <1>s, <2>1, <2>2
  <2>3. CASE /\ ini.pc = "cosigning" /\ active' = active
             /\ pending' = [pending EXCEPT ![Lower] = @ \cup ini.record]
    <3>1. PICK r : r \in ini.record
      BY <2>3 DEF PairInv, AgreementInv, RecordInv
    <3>2. pending'[Lower] = pending[Lower] \cup {r}
      BY <1>d, <2>3, <3>1
    <3> QED
      BY <2>1, <2>3, <3>1, <3>2, TrustAgree
  <2>4. CASE /\ ini.pc = "reconciling" /\ pending' = pending
             /\ active' = [active EXCEPT ![Lower] = @ \cup ini.record]
    BY <2>1, <2>4, TrustInitiator
  <2>5. CASE /\ ini.pc = "clearing" /\ active' = active
             /\ \E left \in SUBSET pending[Lower] :
                    pending' = [pending EXCEPT ![Lower] = left]
    BY <1>c, <1>d, <2>1, <2>5
  <2> QED
    BY <1>4, <2>2, <2>3, <2>4, <2>5 DEF IniCrash, CrashWriting, CrashElsewhere, CrashClearing
<1>5. CASE ResPrepare
  <2>1. UNCHANGED <<active, revoked>>
    BY <1>5 DEF ResPrepare
  <2>2. pending'[Lower] = pending[Lower]
    BY <1>5, <1>d DEF ResPrepare, WritePending
  <2> QED
    BY <1>s, <2>1, <2>2
<1>6. CASE ResActivate
  BY <1>6, TrustResponder DEF ResActivate
<1>7. CASE ResClear
  <2>1. UNCHANGED <<active, revoked>>
    BY <1>7 DEF ResClear
  <2>2. pending'[Lower] = pending[Lower]
    BY <1>7, <1>d DEF ResClear, ClearPending
  <2> QED
    BY <1>s, <2>1, <2>2
<1>8. CASE ResCrash
  <2>1. UNCHANGED revoked
    BY <1>8 DEF ResCrash
  <2>2. CASE active' = active /\ pending'[Lower] = pending[Lower]
    BY <1>s, <2>1, <2>2
  <2>3. CASE /\ res.pc = "finalizing" /\ pending' = pending
             /\ active' = [active EXCEPT ![Higher] = @ \cup res.record]
    BY <2>1, <2>3, TrustResponder
  <2>4. CASE /\ active' = active
             /\ \E S : pending' = [pending EXCEPT ![Higher] = S]
    BY <1>d, <2>2, <2>4
  <2> QED
    BY <1>8, <2>2, <2>3, <2>4 DEF ResCrash, CrashWriting, CrashElsewhere, CrashClearing
<1>9. ASSUME NEW d \in Device, Revoke(d) PROVE Trust!TrustNext
  BY <1>9, TrustRevoke
<1>10. CASE UNCHANGED stores
  BY <1>10, <1>s DEF stores
<1>11. CASE IniProgress /\ ~IniCoSign /\ ~IniActivate /\ ~IniClear
  BY <1>10, <1>11
  DEF IniProgress, IniStart, IniBegin, IniRequest, IniReceivePrepared, IniResend,
      IniBeginCoSign, IniReceiveComplete, IniReceiveFinalized, IniPeerGone
<1>12. CASE ResProgress /\ ~ResPrepare /\ ~ResActivate /\ ~ResClear
  BY <1>10, <1>12
  DEF ResProgress, ResAccept, ResReceiveRequest, ResSendActive, ResSendPending, ResResume,
      ResPrompt, ResReceiveComplete, ResPeerGone, stores
<1>13. CASE UserAnswers \/ IniStartLate \/ IniAbort \/ ResAbort \/ ResRefuse
  BY <1>13, <1>10
  DEF UserAnswers, UserApproves, UserDenies, IniStartLate, IniBegin, IniAbort, ResAbort,
      ResRefuse
<1>14. CASE UNCHANGED vars
  BY <1>14, <1>10 DEF vars
<1> QED
  BY <1>1, <1>2, <1>3, <1>4, <1>5, <1>6, <1>7, <1>8, <1>9, <1>11, <1>12, <1>13, <1>14
  DEF Next, Faults

LEMMA TrustInitially == Init => Trust!TrustInit
<1> SUFFICES ASSUME Init PROVE Trust!TrustInit
  OBVIOUS
<1>1. \A d \in Device : active[d] = {} /\ pending[d] = {} /\ revoked[d] = {}
  BY DEF Init
<1>2. Agreed = {}
  BY <1>1 DEF Agreed
<1>3. \A d \in Device : Pids(active[d]) = {} /\ Pids(revoked[d]) = {}
  BY <1>1 DEF Pids
<1> QED
  BY <1>2, <1>3 DEF Trust!TrustInit, Trust!Party, Device

(* Seen from outside, the protocol is bilateral trust, whatever is lost,   *)
(* delayed, interrupted or revoked: every step agrees on a new pairing,    *)
(* lets the responder and then the initiator trust it, or revokes it, and  *)
(* nothing agreed is ever lost.                                            *)
THEOREM Implements == Spec => ImplementsBilateralTrust
<1>1. Init => PairInv /\ Trust!TrustInit
  BY PairInit, TrustInitially
<1>2. PairInv /\ [Next]_vars => PairInv'
  BY PairStep
<1>3. PairInv /\ PairInv' /\ [Next]_vars => [Trust!TrustNext]_(Trust!tvars)
  BY TrustStep
<1> QED
  BY <1>1, <1>2, <1>3, PTL DEF Spec, ImplementsBilateralTrust, Trust!TrustSpec

(* So the protocol inherits what bilateral trust promises: a fully signed  *)
(* record that nobody has acted on yet is the only one.                    *)
Promised == INSTANCE BilateralTrust_proof
    WITH Initiator <- Lower, Responder <- Higher, agreed <- Agreed,
         trusted <- [d \in Device |-> Pids(active[d])],
         revoked <- [d \in Device |-> Pids(revoked[d])]

THEOREM OneAtATime == Spec => []Trust!OneOpenAgreement
<1>1. Lower # Higher
  BY DEF Lower, Higher
<1>2. Trust!TrustInit => Promised!TrustInit
  BY DEF Trust!TrustInit, Promised!TrustInit, Trust!Party, Promised!Party
<1>3. [Trust!TrustNext]_(Trust!tvars) => [Promised!TrustNext]_(Promised!tvars)
  BY DEF Trust!TrustNext, Trust!Agree, Trust!ResponderTrusts, Trust!InitiatorTrusts,
         Trust!Revoke, Trust!ActedOn, Trust!Party, Trust!tvars,
         Promised!TrustNext, Promised!Agree, Promised!ResponderTrusts,
         Promised!InitiatorTrusts, Promised!Revoke, Promised!ActedOn, Promised!Party,
         Promised!tvars
<1>4. Promised!OneOpenAgreement => Trust!OneOpenAgreement
  BY DEF Trust!OneOpenAgreement, Promised!OneOpenAgreement, Trust!ActedOn, Promised!ActedOn,
         Trust!Party, Promised!Party
<1>5. /\ Promised!TrustInit => Promised!PromiseInv /\ Promised!OneOpenAgreement
      /\ Promised!PromiseInv /\ Promised!OneOpenAgreement
            /\ [Promised!TrustNext]_(Promised!tvars)
            => (Promised!PromiseInv /\ Promised!OneOpenAgreement)'
  BY <1>1, Promised!PromiseInit, Promised!PromiseStep, Promised!OpenInit, Promised!OpenStep
<1> QED
  BY <1>2, <1>3, <1>4, <1>5, Implements, PTL
  DEF ImplementsBilateralTrust, Trust!TrustSpec
=============================================================================
