--------------------------- MODULE Pairing_proof ---------------------------
(***************************************************************************)
(* Proofs about Pairing, for every set of PairIDs and every number of      *)
(* faults, denials and revocations.                                        *)
(***************************************************************************)
EXTENDS Pairing, TLAPS

(* A message of a type that carries a record carries a Record. *)
LEMMA MessageRecord ==
    ASSUME NEW m \in Message, m.type \in {"prepared", "complete"}
    PROVE  m.record \in Record
BY DEF Message

LEMMA MessageType ==
    /\ Request \in Message
    /\ Finalized \in Message
    /\ \A r \in Record : Prepared(r) \in Message /\ Complete(r) \in Message
BY DEF Message, Request, Finalized, Prepared, Complete

(* Adding a signature to a record, or a session's record, stays in Record. *)
LEMMA RecordType ==
    /\ \A r \in Record, d \in Device :
          [r EXCEPT !.sigs = @ \cup {d}] \in Record
    /\ TypeOK /\ res.pid \in PairIds =>
          \A t \in Nat \ {0} : NewRecord(t) \in Record
BY DEF Record, NewRecord, Binding, TypeOK, ResState, Device

(* The state of a thread that is not running. *)
LEMMA IdleType == IniIdle \in IniState /\ ResIdle \in ResState
BY DEF IniIdle, ResIdle, IniState, ResState, IniPc, ResPc

-----------------------------------------------------------------------------
(* Type correctness.  It is inductive once a running session is known to   *)
(* have a PairID, and a connection to have an initiator. *)
SessionOK ==
    /\ ini.pc # "idle" => ini.pid \in PairIds
    /\ res.pc # "idle" => res.pid \in PairIds
    /\ link # "none" => ini.pc # "idle"

TypeInv == TypeOK /\ SessionOK

LEMMA TypeInit == Init => TypeInv
BY BoundsAssumption, IdleType
DEF Init, TypeInv, TypeOK, SessionOK, IniIdle, ResIdle

(* What the common parts of several actions do to the types. *)
LEMMA FirstSubset == \A S : First(S) \subseteq S
BY DEF First

LEMMA EndType ==
    /\ IniEnd => /\ ini' \in IniState /\ ini'.pc = "idle"
                 /\ link' = "none" /\ toIni' \subseteq Message
    /\ ResEnd => /\ res' \in ResState /\ res'.pc = "idle"
                 /\ link' \in {"none", link} /\ toRes' \subseteq Message
<1>1. IniIdle.pc = "idle" /\ ResIdle.pc = "idle"
  BY DEF IniIdle, ResIdle
<1> QED
  BY <1>1, IdleType DEF IniEnd, ResEnd

LEMMA SendType ==
    ASSUME TypeOK
    PROVE  /\ \A ms \in SUBSET Message : SendToIni(ms) => toIni' \subseteq Message
           /\ \A m \in Message : SendToRes(m) => toRes' \subseteq Message
BY DEF TypeOK, SendToIni, SendToRes

LEMMA StoreType ==
    ASSUME NEW store \in [Device -> SUBSET Record],
           NEW d \in Device, NEW S \in SUBSET Record
    PROVE  [store EXCEPT ![d] = S] \in [Device -> SUBSET Record]
OBVIOUS

LEMMA IniStateType ==
    ASSUME NEW i \in IniState, NEW pc \in IniPc
    PROVE  /\ [i EXCEPT !.pc = pc] \in IniState
           /\ [i EXCEPT !.pc = pc].pid = i.pid
           /\ [i EXCEPT !.pc = pc, !.record = {}] \in IniState
           /\ [i EXCEPT !.pc = pc, !.record = {}].pid = i.pid
           /\ \A r \in Record :
                 /\ [i EXCEPT !.pc = pc, !.record = {r}] \in IniState
                 /\ [i EXCEPT !.pc = pc, !.record = {r}].pid = i.pid
BY DEF IniState

LEMMA ResStateType ==
    ASSUME NEW i \in ResState, NEW pc \in ResPc
    PROVE  /\ [i EXCEPT !.pc = pc] \in ResState
           /\ [i EXCEPT !.pc = pc].pid = i.pid
           /\ [i EXCEPT !.pc = pc, !.record = {}] \in ResState
           /\ [i EXCEPT !.pc = pc, !.record = {}].pid = i.pid
           /\ \A r \in Record :
                 /\ [i EXCEPT !.pc = pc, !.record = {r}] \in ResState
                 /\ [i EXCEPT !.pc = pc, !.record = {r}].pid = i.pid
BY DEF ResState

(* What a crash does to the types of the files. *)
CrashType ==
    /\ active' \in [Device -> SUBSET Record]
    /\ pending' \in [Device -> SUBSET Record]
    /\ litter' \in [Device -> SUBSET {"active", "pending"}]
    /\ budget' \in [fault : Nat, torn : Nat, deny : Nat]

LEMMA CrashLemma ==
    ASSUME TypeOK, budget.fault > 0, NEW d \in Device, NEW S \in SUBSET Record
    PROVE  /\ CrashElsewhere => CrashType
           /\ CrashClearing(d) => CrashType
           /\ CrashWriting(d, "pending", pending, S) /\ UNCHANGED active => CrashType
           /\ CrashWriting(d, "active", active, S) /\ UNCHANGED pending => CrashType
<1> DEFINE B == [fault : Nat, torn : Nat, deny : Nat]
<1>1. /\ [budget EXCEPT !.fault = @ - 1] \in B
      /\ budget.torn > 0 => [budget EXCEPT !.fault = @ - 1, !.torn = @ - 1] \in B
  <2>1. budget \in B /\ budget.fault - 1 \in Nat
    BY DEF TypeOK
  <2>2. budget.torn > 0 => budget.torn - 1 \in Nat
    BY <2>1
  <2>3. \A f, t \in Nat : /\ [budget EXCEPT !.fault = f] \in B
                          /\ [budget EXCEPT !.fault = f, !.torn = t] \in B
    BY <2>1
  <2> QED
    BY <2>1, <2>2, <2>3
<1>2. ASSUME NEW dir \in {"active", "pending"}
      PROVE  [litter EXCEPT ![d] = @ \cup {dir}]
                 \in [Device -> SUBSET {"active", "pending"}]
  BY DEF TypeOK
<1>3. /\ [pending EXCEPT ![d] = @ \cup S] \in [Device -> SUBSET Record]
      /\ [active EXCEPT ![d] = @ \cup S] \in [Device -> SUBSET Record]
      /\ \A left \in SUBSET pending[d] :
            [pending EXCEPT ![d] = left] \in [Device -> SUBSET Record]
  BY DEF TypeOK
<1>4. CrashElsewhere => CrashType
  BY <1>1 DEF TypeOK, CrashType, CrashElsewhere
<1>5. CrashClearing(d) => CrashType
  BY <1>1, <1>3 DEF TypeOK, CrashType, CrashClearing
<1>6. ASSUME CrashWriting(d, "pending", pending, S), UNCHANGED active
      PROVE  CrashType
  BY <1>1, <1>2, <1>3, <1>6 DEF TypeOK, CrashType, CrashWriting
<1>7. ASSUME CrashWriting(d, "active", active, S), UNCHANGED pending
      PROVE  CrashType
  BY <1>1, <1>2, <1>3, <1>7 DEF TypeOK, CrashType, CrashWriting
<1> QED
  BY <1>4, <1>5, <1>6, <1>7

LEMMA TypeStep == TypeInv /\ [Next]_vars => TypeInv'
<1> SUFFICES ASSUME TypeInv, [Next]_vars PROVE TypeInv'
  OBVIOUS
<1> USE PairIdsAssumption, IdleType DEF TypeInv, TypeOK, SessionOK
<1>1. ASSUME IniBegin, budget' \in [fault : Nat, torn : Nat, deny : Nat]
      PROVE  TypeInv'
  <2>1. /\ ini' \in IniState /\ ini'.pid \in PairIds
    <3>1. ASSUME NEW p \in PairIds, NEW b \in BOOLEAN
          PROVE  /\ [IniIdle EXCEPT !.pc = "started", !.reconnect = b, !.pid = p] \in IniState
                 /\ [IniIdle EXCEPT !.pc = "started", !.reconnect = b, !.pid = p].pid = p
                 /\ [IniIdle EXCEPT !.pc = "started", !.pid = p] \in IniState
                 /\ [IniIdle EXCEPT !.pc = "started", !.pid = p].pid = p
      BY DEF IniIdle, IniState, IniPc
    <3>2. \A d \in Device : \A r \in active[d] \cup pending[d] : r.pid \in PairIds
      BY DEF Record
    <3>3. Lower \in Device
      BY DEF Device
    <3>4. ASSUME NEW p \in PairIds, NEW b \in BOOLEAN,
                 \/ ini' = [IniIdle EXCEPT !.pc = "started", !.reconnect = b, !.pid = p]
                 \/ ini' = [IniIdle EXCEPT !.pc = "started", !.pid = p]
          PROVE  ini' \in IniState /\ ini'.pid \in PairIds
      <4>1. CASE ini' = [IniIdle EXCEPT !.pc = "started", !.reconnect = b, !.pid = p]
        BY <3>1, <4>1
      <4>2. CASE ini' = [IniIdle EXCEPT !.pc = "started", !.pid = p]
        BY <3>1, <4>2
      <4> QED
        BY <3>4, <4>1, <4>2
    <3>5. \/ \E p \in PairIds :
               ini' = [IniIdle EXCEPT !.pc = "started", !.reconnect = TRUE, !.pid = p]
          \/ \E p \in PairIds : ini' = [IniIdle EXCEPT !.pc = "started", !.pid = p]
      BY <1>1, <3>2, <3>3, FirstSubset DEF IniBegin, FreshPids
    <3> QED
      BY <3>4, <3>5
  <2>2. /\ ini'.pc = "started" /\ link' = "backlog" /\ toIni' = {}
        /\ UNCHANGED <<stores, res, toRes, consents>>
    BY <1>1 DEF IniBegin, IniIdle
  <2> QED
    BY <1>1, <2>1, <2>2 DEF stores
<1>26. CASE IniStart
  BY <1>1, <1>26 DEF IniStart
<1>27. CASE IniStartLate
  <2>1. budget' \in [fault : Nat, torn : Nat, deny : Nat]
    BY <1>27 DEF IniStartLate
  <2> QED
    BY <1>1, <1>27, <2>1 DEF IniStartLate
<1>2. CASE IniRequest
  BY <1>2, MessageRecord, MessageType, RecordType DEF IniRequest, SendToRes, IniState, IniPc, stores
<1>3. CASE IniReceivePrepared
  <2>1. PICK m \in toIni :
          /\ m.type = "prepared"
          /\ \/ IniResend(m.record)
             \/ IniBeginCoSign(m.record)
             \/ IniRefuses(m.record) /\ IniEnd /\ UNCHANGED <<stores, toRes>>
    BY <1>3 DEF IniReceivePrepared
  <2>2. m.record \in Record
    BY <2>1, MessageRecord
  <2>3. UNCHANGED <<res, consents, budget>> /\ ini.pc = "requested"
    BY <1>3 DEF IniReceivePrepared
  <2>4. LocalComplete \subseteq Record
    BY FirstSubset DEF LocalComplete, Device
  <2>5. CASE IniResend(m.record)
    <3>1. PICK c \in Record :
            /\ ini' = [ini EXCEPT !.pc = "completed", !.record = {c}]
            /\ SendToRes(Complete(c))
      BY <2>2, <2>4, <2>5 DEF IniResend
    <3>2. ini' \in IniState /\ ini'.pid = ini.pid
      <4>1. "completed" \in IniPc
        BY DEF IniPc
      <4>5. ini' \in IniState
        BY <3>1, <4>1, IniStateType
      <4>6. ini'.pid = ini.pid
        BY <3>1 DEF IniState
      <4> QED
        BY <4>5, <4>6
    <3>3. toRes' \subseteq Message
      BY <3>1, SendType, MessageType
    <3> QED
      BY <2>3, <2>5, <3>2, <3>3 DEF IniResend, stores
  <2>6. CASE IniBeginCoSign(m.record)
    <3>1. [m.record EXCEPT !.sigs = @ \cup {Lower}] \in Record
      BY <2>2, RecordType DEF Device
    <3>2. ini' \in IniState /\ ini'.pid = ini.pid
      <4>1. "cosigning" \in IniPc
        BY DEF IniPc
      <4>2. ini' = [ini EXCEPT !.pc = "cosigning",
                       !.record = {[m.record EXCEPT !.sigs = @ \cup {Lower}]}]
        BY <2>6 DEF IniBeginCoSign
      <4>5. ini' \in IniState
        BY <3>1, <4>1, <4>2, IniStateType
      <4>6. ini'.pid = ini.pid
        BY <4>2 DEF IniState
      <4> QED
        BY <4>5, <4>6
    <3> QED
      BY <2>3, <2>6, <3>2 DEF IniBeginCoSign, stores
  <2>7. CASE IniEnd /\ UNCHANGED <<stores, toRes>>
    BY <2>3, <2>7, EndType DEF stores
  <2> QED
    BY <2>1, <2>5, <2>6, <2>7
<1>4. CASE IniCoSign
  BY <1>4, MessageRecord, MessageType, RecordType DEF IniCoSign, WritePending, SendToRes, IniState, IniPc, Lower, Device
<1>5. CASE IniReceiveComplete
  <2>1. PICK m \in toIni :
          /\ m.type = "complete"
          /\ IF ini.reconnect
                 THEN /\ ini' = [ini EXCEPT !.pc = "completed",
                                            !.record = {m.record}]
                      /\ toIni' = toIni \ {m}
                      /\ link' = link
                 ELSE IniEnd
    BY <1>5 DEF IniReceiveComplete
  <2>2. UNCHANGED <<stores, res, toRes, consents, budget>> /\ ini.pc = "requested"
    BY <1>5 DEF IniReceiveComplete
  <2>3. CASE IniEnd
    BY <2>2, <2>3, EndType DEF stores
  <2>4. CASE /\ ini' = [ini EXCEPT !.pc = "completed", !.record = {m.record}]
             /\ toIni' = toIni \ {m}
             /\ link' = link
    <3>1. ini' \in IniState /\ ini'.pid = ini.pid
      <4>1. m.record \in Record /\ "completed" \in IniPc
        BY <2>1, MessageRecord DEF IniPc
      <4>5. ini' \in IniState
        BY <2>4, <4>1, IniStateType
      <4>6. ini'.pid = ini.pid
        BY <2>4 DEF IniState
      <4> QED
        BY <4>5, <4>6
    <3> QED
      BY <2>2, <2>4, <3>1 DEF stores
  <2> QED
    BY <2>1, <2>3, <2>4
<1>6. CASE IniReceiveFinalized
  <2>1. UNCHANGED <<stores, res, toRes, consents, budget>> /\ ini.pc = "completed"
    BY <1>6 DEF IniReceiveFinalized
  <2>2. CASE IniEnd
    BY <2>1, <2>2, EndType DEF stores
  <2>3. ASSUME NEW r,
               ini' = [ini EXCEPT !.pc = AfterChecks(r)],
               toIni' = toIni \ {Finalized}, link' = link
        PROVE  TypeInv'
    <3>1. AfterChecks(r) \in IniPc
      BY DEF AfterChecks, IniPc
    <3>2. ini' \in IniState /\ ini'.pid = ini.pid
      BY <2>3, <3>1, IniStateType
    <3>3. ini.pid \in PairIds
      BY <2>1
    <3>4. toIni' \subseteq Message
      BY <2>3
    <3>5. UNCHANGED <<active, pending, revoked, litter, res, toRes, consents, budget, link>>
      BY <2>1, <2>3 DEF stores
    <3>6. TypeOK'
      BY <3>2, <3>4, <3>5
    <3>7. (link' # "none") => (ini'.pc # "idle")
      BY <2>3, <2>1 DEF AfterChecks, IniState
    <3> QED
      BY <3>2, <3>3, <3>5, <3>6, <3>7
  <2> QED
    BY <1>6, <2>2, <2>3 DEF IniReceiveFinalized
<1>7. CASE IniActivate
  BY <1>7, MessageRecord, MessageType, RecordType DEF IniActivate, IniState, IniPc, network, Lower, Device
<1>8. CASE IniClear
  BY <1>8, MessageRecord, MessageType, RecordType DEF IniClear, ClearPending, IniEnd, IniIdle, Lower, Device
<1>9. CASE IniPeerGone
  BY <1>9, MessageRecord, MessageType, RecordType DEF IniPeerGone, IniEnd, IniIdle, stores
<1>10. CASE ResAccept
  <2>1. UNCHANGED <<stores, ini, toIni, toRes, consents, budget>> /\ link = "backlog"
    BY <1>10 DEF ResAccept
  <2>2. CASE res' = res /\ link' = "none"
    BY <2>1, <2>2 DEF stores
  <2>3. CASE /\ res' = [pc |-> "handshake", reconnect |-> ini.reconnect,
                        pid |-> ini.pid,
                        active |-> ActiveSeen, pending |-> PendingSeen,
                        record |-> {}]
             /\ link' = "open"
    <3>1. PendingSeen \subseteq Record /\ ActiveSeen \subseteq PairIds
      <4>1. Higher \in Device
        BY DEF Device
      <4>2. First(pending[Higher]) \subseteq Record /\ First(active[Higher]) \subseteq Record
        BY <4>1, FirstSubset
      <4> QED
        BY <4>2 DEF PendingSeen, ActiveSeen, Pids, Record
    <3>2. ini.reconnect \in BOOLEAN /\ ini.pid \in PairIds
      BY <2>1 DEF IniState
    <3>3. res' \in ResState /\ res'.pid \in PairIds
      BY <2>3, <3>1, <3>2 DEF ResState, ResPc
    <3> QED
      BY <2>1, <2>3, <3>3 DEF stores
  <2> QED
    BY <1>10, <2>2, <2>3 DEF ResAccept
<1>11. CASE ResReceiveRequest
  <2>1. /\ UNCHANGED <<active, revoked, litter, ini, consents, budget>>
        /\ res.pc = "handshake"
    BY <1>11 DEF ResReceiveRequest
  <2>2. CASE ResSendActive
    <3>1. toIni' \subseteq Message
      <4>1. ASSUME NEW r \in active[Higher], SendToIni({Complete(r), Finalized})
            PROVE  toIni' \subseteq Message
        <5>1. {Complete(r), Finalized} \in SUBSET Message
          BY MessageType DEF Device
        <5> QED
          BY <4>1, <5>1, SendType
      <4> QED
        BY <2>2, <4>1 DEF ResSendActive
    <3> QED
      BY <2>1, <2>2, <3>1, EndType DEF ResSendActive
  <2>3. CASE ResSendPending
    <3>1. PICK r \in res.pending : SendToIni({Prepared(r)})
      BY <2>3 DEF ResSendPending
    <3>2. {Prepared(r)} \in SUBSET Message
      BY MessageType DEF ResState
    <3>3. toIni' \subseteq Message
      BY <3>1, <3>2, SendType
    <3>4. res' \in ResState /\ res'.pid = res.pid
      BY <2>3, ResStateType DEF ResSendPending, ResPc
    <3> QED
      BY <2>1, <2>3, <3>3, <3>4 DEF ResSendPending
  <2>4. CASE ResResume
    <3>1. PICK old \in res.pending :
            res' = [res EXCEPT !.pc = "preparing",
                               !.record = {NewRecord(old.authorized_at)}]
      BY <2>4 DEF ResResume
    <3>2. NewRecord(old.authorized_at) \in Record
      <4>1. old.authorized_at \in Nat \ {0}
        BY DEF ResState, Record
      <4> QED
        BY <2>1, <4>1, RecordType
    <3>3. res' \in ResState /\ res'.pid = res.pid
      <4>1. "preparing" \in ResPc
        BY DEF ResPc
      <4>5. res' \in ResState
        BY <3>1, <3>2, <4>1, ResStateType
      <4>6. res'.pid = res.pid
        BY <3>1 DEF ResState
      <4> QED
        BY <4>5, <4>6
    <3> QED
      BY <2>1, <2>4, <3>3 DEF ResResume
  <2>5. CASE ResPrompt
    <3>1. res' \in ResState /\ res'.pid = res.pid
      BY <2>5, ResStateType DEF ResPrompt, ResPc
    <3> QED
      BY <2>1, <2>5, <3>1 DEF ResPrompt
  <2> QED
    BY <1>11, <2>2, <2>3, <2>4, <2>5 DEF ResReceiveRequest
<1>12. CASE ResPrepare
  <2>1. /\ UNCHANGED <<active, revoked, litter, ini, consents, budget>>
        /\ res.pc = "preparing"
    BY <1>12 DEF ResPrepare
  <2>2. CASE ResEnd /\ UNCHANGED <<pending, toIni>>
    BY <2>1, <2>2, EndType
  <2>3. ASSUME NEW r \in res.record, WritePending(Higher, r),
               SendToIni({Prepared(r)}),
               res' = [res EXCEPT !.pc = "prepared", !.record = {}],
               UNCHANGED <<link, toRes>>
        PROVE  TypeInv'
    <3>1. r \in Record /\ Higher \in Device
      BY DEF ResState, Device
    <3>2. pending' \in [Device -> SUBSET Record]
      BY <2>3, <3>1, StoreType DEF WritePending
    <3>3. {Prepared(r)} \in SUBSET Message
      BY <3>1, MessageType
    <3>4. toIni' \subseteq Message
      BY <2>3, <3>3, SendType
    <3>5. res' \in ResState /\ res'.pid = res.pid
      BY <2>3, ResStateType DEF ResPc
    <3> QED
      BY <2>1, <2>3, <3>2, <3>4, <3>5
  <2> QED
    BY <1>12, <2>2, <2>3 DEF ResPrepare
<1>13. CASE ResReceiveComplete
  <2>1. /\ UNCHANGED <<stores, ini, consents, budget>>
        /\ res.pc = "prepared"
    BY <1>13 DEF ResReceiveComplete
  <2>2. CASE ResEnd /\ (SendToIni({Finalized}) \/ UNCHANGED toIni)
    <3>1. {Finalized} \in SUBSET Message
      BY MessageType
    <3>2. toIni' \subseteq Message
      BY <2>2, <3>1, SendType
    <3> QED
      BY <2>1, <2>2, <3>2, EndType DEF stores
  <2>3. ASSUME NEW m \in toRes, m.type = "complete",
               NEW pc \in {"clearing", "finalizing"},
               res' = [res EXCEPT !.pc = pc, !.record = {m.record}],
               toRes' = toRes \ {m},
               UNCHANGED <<link, toIni>>
        PROVE  TypeInv'
    <3>1. res' \in ResState /\ res'.pid = res.pid
      <4>1. m.record \in Record /\ pc \in ResPc
        BY <2>3, MessageRecord DEF ResPc
      <4>5. res' \in ResState
        BY <2>3, <4>1, ResStateType
      <4>6. res'.pid = res.pid
        BY <2>3 DEF ResState
      <4> QED
        BY <4>5, <4>6
    <3> QED
      BY <2>1, <2>3, <3>1 DEF stores
  <2> QED
    BY <1>13, <2>2, <2>3 DEF ResReceiveComplete
<1>14. CASE ResActivate
  BY <1>14, MessageRecord, MessageType, RecordType DEF ResActivate, ResState, ResPc, network, Higher, Device
<1>15. CASE ResClear
  BY <1>15, MessageRecord, MessageType, RecordType DEF ResClear, ClearPending, ResEnd, SendToIni, ResIdle, Higher, Device
<1>16. CASE ResPeerGone
  BY <1>16, MessageRecord, MessageType, RecordType DEF ResPeerGone, ResEnd, ResIdle, stores
<1>17. CASE UserApproves
  <2>1. Authorized \in Record /\ consents' \in Nat
    BY <1>17, RecordType DEF UserApproves, Authorized
  <2>2. res' \in ResState /\ res'.pid = res.pid
    <3>1. "preparing" \in ResPc
      BY DEF ResPc
    <3>2. res' \in ResState
      BY <1>17, <2>1, <3>1, ResStateType DEF UserApproves
    <3>3. res'.pid = res.pid
      BY <1>17 DEF UserApproves, ResState
    <3> QED
      BY <3>2, <3>3
  <2> QED
    BY <1>17, <2>1, <2>2 DEF UserApproves, stores, network
<1>18. CASE UserDenies
  BY <1>18, MessageRecord, MessageType, RecordType DEF UserDenies, ResEnd, ResIdle, stores
<1>19. CASE IniAbort
  BY <1>19, MessageRecord, MessageType, RecordType DEF IniAbort, IniEnd, IniIdle, stores
<1>20. CASE ResAbort
  BY <1>20, MessageRecord, MessageType, RecordType DEF ResAbort, ResEnd, ResIdle, stores
<1>21. CASE ResRefuse
  BY <1>21, MessageRecord, MessageType, RecordType DEF ResRefuse, stores
<1>22. CASE IniCrash
  <2>1. /\ ini' \in IniState /\ ini'.pc = "idle"
        /\ link' = "none" /\ toIni' \subseteq Message
        /\ UNCHANGED <<revoked, res, toRes, consents>>
    BY <1>22, EndType DEF IniCrash
  <2>2. CrashType
    BY <1>22, CrashLemma DEF IniCrash, IniState, Device
  <2> QED
    BY <2>1, <2>2 DEF CrashType
<1>23. CASE ResCrash
  <2>1. /\ res' \in ResState /\ res'.pc = "idle"
        /\ link' = "none" /\ toRes' = {}
        /\ UNCHANGED <<revoked, ini, toIni, consents>>
    BY <1>23, IdleType DEF ResCrash, ResIdle
  <2>2. CrashType
    BY <1>23, CrashLemma DEF ResCrash, ResState, Device
  <2> QED
    BY <2>1, <2>2 DEF CrashType
<1>24. ASSUME NEW d \in Device, Revoke(d) PROVE TypeInv'
  BY <1>24 DEF Revoke, network
<1>25. CASE UNCHANGED vars
  BY <1>25 DEF vars, stores, network
<1> QED
  BY <1>2, <1>3, <1>4, <1>5, <1>6, <1>7, <1>8, <1>9, <1>10, <1>11, <1>12, <1>13, <1>14,
     <1>15, <1>16, <1>17, <1>18, <1>19, <1>20, <1>21, <1>22, <1>23, <1>24, <1>25, <1>26,
     <1>27
  DEF Next, IniProgress, ResProgress, UserAnswers, Faults

(* Every variable stays in its type. *)
THEOREM TypeCorrect == Spec => []TypeOK
<1>1. TypeInv => TypeOK
  BY DEF TypeInv
<1> QED
  BY <1>1, TypeInit, TypeStep, PTL DEF Spec

-----------------------------------------------------------------------------
(* Revocation and bilaterality.  What persist_active checks stays true     *)
(* until its write, because only the writing thread adds active records    *)
(* and only an active record can be revoked. *)
Unknown(d, r) == r.pid \notin Pids(active[d]) \cup Pids(revoked[d])

OnePerPid == \A d \in Device : \A r, q \in active[d] : r.pid = q.pid => r = q

StoreInv ==
    /\ OnePerPid
    /\ ActiveIsBilateral
    /\ RevokedStaysRevoked
    /\ ini.pc = "reconciling" =>
          \A r \in ini.record : r.sigs = Device /\ Unknown(Lower, r)
    /\ res.pc = "finalizing" =>
          \A r \in res.record : r.sigs = Device /\ Unknown(Higher, r)
    /\ \A r, q \in ini.record : r = q
    /\ \A r, q \in res.record : r = q


LEMMA StoreInit == Init => StoreInv
BY DEF Init, StoreInv, OnePerPid, ActiveIsBilateral, RevokedStaysRevoked, Pids, IniIdle,
       ResIdle, Device

(* A step that leaves the active and revoked directories alone, and starts *)
(* no write to the active one. *)
LEMMA StoreIdle ==
    ASSUME StoreInv,
           UNCHANGED <<active, revoked>>,
           ini'.pc = "reconciling" => ini' = ini,
           res'.pc = "finalizing" => res' = res,
           \A r, q \in ini'.record : r = q,
           \A r, q \in res'.record : r = q
    PROVE  StoreInv'
BY DEF StoreInv, OnePerPid, ActiveIsBilateral, RevokedStaysRevoked, Unknown

(* Activating records the device has not seen under their PairIDs.         *)
LEMMA ActivateLemma ==
    ASSUME TypeInv, OnePerPid, ActiveIsBilateral, RevokedStaysRevoked,
           NEW d \in Device, NEW S,
           \A r, q \in S : r = q,
           \A r \in S : r.sigs = Device /\ Unknown(d, r),
           active' = [active EXCEPT ![d] = @ \cup S], revoked' = revoked
    PROVE  /\ OnePerPid'
           /\ ActiveIsBilateral'
           /\ RevokedStaysRevoked'
           /\ \A e \in Device \ {d} : \A r : Unknown(e, r) => Unknown(e, r)'
<1>1. \A e \in Device :
        active'[e] = IF e = d THEN active[d] \cup S ELSE active[e]
  BY DEF TypeInv, TypeOK
<1> QED
  BY <1>1 DEF OnePerPid, ActiveIsBilateral, RevokedStaysRevoked, Unknown, Pids

LEMMA StoreStep == TypeInv /\ StoreInv /\ [Next]_vars => StoreInv'
<1> SUFFICES ASSUME TypeInv, StoreInv, [Next]_vars PROVE StoreInv'
  OBVIOUS
<1> DEFINE Quiet ==
      /\ UNCHANGED <<active, revoked>>
      /\ ini'.pc = "reconciling" => ini' = ini
      /\ res'.pc = "finalizing" => res' = res
      /\ \A r, q \in ini'.record : r = q
      /\ \A r, q \in res'.record : r = q
<1>q. Quiet => StoreInv'
  BY StoreIdle
<1>s. /\ \A r, q \in ini.record : r = q
      /\ \A r, q \in res.record : r = q
  BY DEF StoreInv
<1>t. ini \in IniState /\ res \in ResState
  BY DEF TypeInv, TypeOK
<1>d. Lower \in Device /\ Higher \in Device /\ Lower # Higher
  BY DEF Device, Lower, Higher
<1>1. CASE IniStart \/ IniStartLate
  BY <1>1, <1>q, <1>s, <1>t DEF IniStart, IniStartLate, IniBegin, IniIdle, stores
<1>2. CASE IniRequest
  BY <1>2, <1>q, <1>s, <1>t DEF IniRequest, IniState, stores
<1>3. CASE IniReceivePrepared
  <2>1. UNCHANGED <<active, revoked, res>>
    BY <1>3 DEF IniReceivePrepared, IniResend, IniBeginCoSign, stores
  <2>2. PICK r : IniResend(r) \/ IniBeginCoSign(r) \/ IniEnd
    BY <1>3 DEF IniReceivePrepared
  <2>3. ASSUME NEW pc, NEW c, ini' = [ini EXCEPT !.pc = pc, !.record = {c}],
               pc # "reconciling"
        PROVE  StoreInv'
    <3>1. ini'.pc = pc /\ ini'.record = {c}
      BY <1>t, <2>3 DEF IniState
    <3> QED
      BY <1>q, <1>s, <2>1, <2>3, <3>1
  <2>4. CASE IniResend(r)
    BY <2>3, <2>4 DEF IniResend
  <2>5. CASE IniBeginCoSign(r)
    BY <2>3, <2>5 DEF IniBeginCoSign
  <2>6. CASE IniEnd
    BY <1>q, <1>s, <2>1, <2>6 DEF IniEnd, IniIdle
  <2> QED
    BY <2>2, <2>4, <2>5, <2>6
<1>4. CASE IniCoSign
  BY <1>4, <1>q, <1>s, <1>t DEF IniCoSign, IniState
<1>5. CASE IniReceiveComplete
  <2>1. UNCHANGED <<active, revoked, res>>
    BY <1>5 DEF IniReceiveComplete, stores
  <2>2. CASE IniEnd
    BY <1>q, <1>s, <2>1, <2>2 DEF IniEnd, IniIdle
  <2>3. ASSUME NEW c, ini' = [ini EXCEPT !.pc = "completed", !.record = {c}]
        PROVE  StoreInv'
    <3>1. ini'.pc = "completed" /\ ini'.record = {c}
      BY <1>t, <2>3 DEF IniState
    <3> QED
      BY <1>q, <1>s, <2>1, <3>1
  <2> QED
    BY <1>5, <2>2, <2>3 DEF IniReceiveComplete
<1>6. CASE IniClear
  BY <1>6, <1>q, <1>s, <1>t DEF IniClear, IniEnd, IniIdle
<1>7. CASE IniPeerGone
  BY <1>7, <1>q, <1>s, <1>t DEF IniPeerGone, IniEnd, IniIdle, stores
<1>8. CASE ResAccept
  BY <1>8, <1>q, <1>s, <1>t DEF ResAccept, stores
<1>9. CASE ResReceiveRequest
  <2>1. UNCHANGED <<active, revoked, ini>>
    BY <1>9 DEF ResReceiveRequest
  <2>2. CASE ResSendActive
    BY <1>q, <1>s, <2>1, <2>2 DEF ResSendActive, ResEnd, ResIdle
  <2>3. CASE ResSendPending \/ ResPrompt
    BY <1>q, <1>s, <1>t, <2>1, <2>3 DEF ResSendPending, ResPrompt, ResState
  <2>4. CASE ResResume
    <3>1. PICK c : res' = [res EXCEPT !.pc = "preparing", !.record = {c}]
      BY <2>4 DEF ResResume
    <3>2. res'.pc = "preparing" /\ res'.record = {c}
      BY <1>t, <3>1 DEF ResState
    <3> QED
      BY <1>q, <1>s, <2>1, <3>2
  <2> QED
    BY <1>9, <2>2, <2>3, <2>4 DEF ResReceiveRequest
<1>10. CASE ResPrepare
  <2>1. UNCHANGED <<active, revoked, ini>>
    BY <1>10 DEF ResPrepare
  <2>2. CASE ResEnd
    BY <1>q, <1>s, <2>1, <2>2 DEF ResEnd, ResIdle
  <2>3. CASE res' = [res EXCEPT !.pc = "prepared", !.record = {}]
    <3>1. res'.pc = "prepared" /\ res'.record = {}
      BY <1>t, <2>3 DEF ResState
    <3> QED
      BY <1>q, <1>s, <2>1, <3>1
  <2> QED
    BY <1>10, <2>2, <2>3 DEF ResPrepare
<1>11. CASE ResClear
  BY <1>11, <1>q, <1>s, <1>t DEF ResClear, ResEnd, ResIdle
<1>12. CASE ResPeerGone
  BY <1>12, <1>q, <1>s, <1>t DEF ResPeerGone, ResEnd, ResIdle, stores
<1>13. CASE UserApproves
  BY <1>13, <1>q, <1>s, <1>t DEF UserApproves, ResState, stores
<1>14. CASE UserDenies
  BY <1>14, <1>q, <1>s, <1>t DEF UserDenies, ResEnd, ResIdle, stores
<1>15. CASE IniAbort
  BY <1>15, <1>q, <1>s, <1>t DEF IniAbort, IniEnd, IniIdle, stores
<1>16. CASE ResAbort
  BY <1>16, <1>q, <1>s, <1>t DEF ResAbort, ResEnd, ResIdle, stores
<1>17. CASE ResRefuse
  BY <1>17, <1>q, <1>s, <1>t DEF ResRefuse, stores
<1>30. CASE IniReceiveFinalized
  <2>1. CASE IniEnd
    BY <1>30, <2>1, <1>q, <1>s DEF IniReceiveFinalized, IniEnd, IniIdle, stores
  <2>2. PICK r \in ini.record :
          \/ IniEnd
          \/ /\ IsComplete(r) /\ PersistActiveOk(Lower, r)
             /\ ini' = [ini EXCEPT !.pc = AfterChecks(r)]
    BY <1>30 DEF IniReceiveFinalized
  <2>3. CASE /\ IsComplete(r) /\ PersistActiveOk(Lower, r)
             /\ ini' = [ini EXCEPT !.pc = AfterChecks(r)]
    <3>1. ini.record = {r} /\ ini'.record = {r} /\ ini'.pc = AfterChecks(r)
      BY <1>s, <1>t, <2>3 DEF IniState
    <3>2. CASE r \in active[Lower]
      <4>1. UNCHANGED <<active, revoked, res>>
        BY <1>30 DEF IniReceiveFinalized, stores
      <4> QED
        BY <1>q, <1>s, <3>1, <3>2, <4>1 DEF AfterChecks
    <3>3. CASE r \notin active[Lower]
      <4>1. r.sigs = Device /\ Unknown(Lower, r)
        BY <2>3, <3>3 DEF IsComplete, PersistActiveOk, Unknown, Pids
      <4>2. UNCHANGED <<active, revoked, res>>
        BY <1>30 DEF IniReceiveFinalized, stores
      <4> QED
        BY <3>1, <4>1, <4>2
        DEF StoreInv, OnePerPid, ActiveIsBilateral, RevokedStaysRevoked, Unknown
    <3> QED
      BY <3>2, <3>3
  <2> QED
    BY <2>1, <2>2, <2>3
<1>31. CASE ResReceiveComplete
  <2>1. UNCHANGED <<stores, ini>>
    BY <1>31 DEF ResReceiveComplete
  <2>2. CASE ResEnd
    BY <1>q, <1>s, <2>1, <2>2 DEF ResEnd, ResIdle, stores
  <2>3. ASSUME NEW r, IsComplete(r), PersistActiveOk(Higher, r),
               res' = [res EXCEPT !.pc = IF r \in active[Higher]
                                          THEN "clearing" ELSE "finalizing",
                                  !.record = {r}]
        PROVE  StoreInv'
    <3>1. res'.record = {r}
          /\ res'.pc = IF r \in active[Higher] THEN "clearing" ELSE "finalizing"
      BY <1>t, <2>3 DEF ResState
    <3>2. CASE r \in active[Higher]
      BY <1>q, <1>s, <2>1, <3>1, <3>2 DEF stores
    <3>3. CASE r \notin active[Higher]
      <4>1. r.sigs = Device /\ Unknown(Higher, r)
        BY <2>3, <3>3 DEF IsComplete, PersistActiveOk, Unknown, Pids
      <4> QED
        BY <2>1, <3>1, <4>1
        DEF StoreInv, OnePerPid, ActiveIsBilateral, RevokedStaysRevoked, Unknown, stores
    <3> QED
      BY <3>2, <3>3
  <2> QED
    BY <1>31, <2>2, <2>3 DEF ResReceiveComplete
<1>32. CASE IniActivate
  <2>1. /\ active' = [active EXCEPT ![Lower] = @ \cup ini.record]
        /\ revoked' = revoked /\ res' = res
        /\ ini.pc = "reconciling"
    BY <1>32 DEF IniActivate
  <2>2. ini'.pc = "clearing" /\ ini'.record = ini.record
    BY <1>32, <1>t DEF IniActivate, IniState
  <2>3. \A r \in ini.record : r.sigs = Device /\ Unknown(Lower, r)
    BY <2>1 DEF StoreInv
  <2>4. /\ OnePerPid' /\ ActiveIsBilateral' /\ RevokedStaysRevoked'
        /\ \A e \in Device \ {Lower} : \A r : Unknown(e, r) => Unknown(e, r)'
    BY <1>d, <1>s, <2>1, <2>3, ActivateLemma DEF StoreInv
  <2> QED
    BY <1>d, <1>s, <2>1, <2>2, <2>4 DEF StoreInv
<1>33. CASE ResActivate
  <2>1. /\ active' = [active EXCEPT ![Higher] = @ \cup res.record]
        /\ revoked' = revoked /\ ini' = ini
        /\ res.pc = "finalizing"
    BY <1>33 DEF ResActivate
  <2>2. res'.pc = "clearing" /\ res'.record = res.record
    BY <1>33, <1>t DEF ResActivate, ResState
  <2>3. \A r \in res.record : r.sigs = Device /\ Unknown(Higher, r)
    BY <2>1 DEF StoreInv
  <2>4. /\ OnePerPid' /\ ActiveIsBilateral' /\ RevokedStaysRevoked'
        /\ \A e \in Device \ {Higher} : \A r : Unknown(e, r) => Unknown(e, r)'
    BY <1>d, <1>s, <2>1, <2>3, ActivateLemma DEF StoreInv
  <2> QED
    BY <1>d, <1>s, <2>1, <2>2, <2>4 DEF StoreInv
<1>34. CASE IniCrash
  <2>1. ini'.pc = "idle" /\ ini'.record = {} /\ UNCHANGED <<revoked, res>>
    BY <1>34 DEF IniCrash, IniEnd, IniIdle
  <2>2. CASE active' = active
    BY <1>q, <1>s, <2>1, <2>2
  <2>3. CASE /\ ini.pc = "reconciling"
             /\ active' = [active EXCEPT ![Lower] = @ \cup ini.record]
    <3>1. \A r \in ini.record : r.sigs = Device /\ Unknown(Lower, r)
      BY <2>3 DEF StoreInv
    <3>2. /\ OnePerPid' /\ ActiveIsBilateral' /\ RevokedStaysRevoked'
          /\ \A e \in Device \ {Lower} : \A r : Unknown(e, r) => Unknown(e, r)'
      BY <1>d, <1>s, <2>1, <2>3, <3>1, ActivateLemma DEF StoreInv
    <3> QED
      BY <1>d, <2>1, <3>2 DEF StoreInv
  <2> QED
    BY <1>34, <2>2, <2>3
    DEF IniCrash, CrashWriting, CrashClearing, CrashElsewhere
<1>35. CASE ResCrash
  <2>1. res'.pc = "idle" /\ res'.record = {} /\ UNCHANGED <<revoked, ini>>
    BY <1>35 DEF ResCrash, ResIdle
  <2>2. CASE active' = active
    BY <1>q, <1>s, <2>1, <2>2
  <2>3. CASE /\ res.pc = "finalizing"
             /\ active' = [active EXCEPT ![Higher] = @ \cup res.record]
    <3>1. \A r \in res.record : r.sigs = Device /\ Unknown(Higher, r)
      BY <2>3 DEF StoreInv
    <3>2. /\ OnePerPid' /\ ActiveIsBilateral' /\ RevokedStaysRevoked'
          /\ \A e \in Device \ {Higher} : \A r : Unknown(e, r) => Unknown(e, r)'
      BY <1>d, <1>s, <2>1, <2>3, <3>1, ActivateLemma DEF StoreInv
    <3> QED
      BY <1>d, <2>1, <3>2 DEF StoreInv
  <2> QED
    BY <1>35, <2>2, <2>3
    DEF ResCrash, CrashWriting, CrashClearing, CrashElsewhere
<1>36. ASSUME NEW d \in Device, Revoke(d) PROVE StoreInv'
  <2>1. PICK r \in active[d] :
          /\ r.pid \notin Pids(revoked[d])
          /\ active' = [active EXCEPT ![d] = @ \ {r}]
          /\ revoked' = [revoked EXCEPT ![d] = @ \cup {r}]
    BY <1>36 DEF Revoke
  <2>2. UNCHANGED <<ini, res>>
    BY <1>36 DEF Revoke
  <2>3. \A e \in Device : /\ active'[e] \subseteq active[e]
                          /\ active'[e] \cup revoked'[e] = active[e] \cup revoked[e]
    BY <2>1 DEF TypeInv, TypeOK
  <2>4. ActiveIsBilateral'
    BY <2>3 DEF StoreInv, ActiveIsBilateral
  <2>5. RevokedStaysRevoked'
    <3>1. \A q \in active'[d] : q \in active[d] /\ q # r
      BY <2>1 DEF TypeInv, TypeOK
    <3>2. revoked'[d] = revoked[d] \cup {r}
      BY <2>1 DEF TypeInv, TypeOK
    <3>3. \A q \in active[d] : q # r => q.pid # r.pid
      BY <2>1 DEF StoreInv, OnePerPid
    <3>4. Pids(active'[d]) \cap Pids(revoked'[d]) = {}
      BY <3>1, <3>2, <3>3 DEF StoreInv, RevokedStaysRevoked, Pids
    <3>5. \A e \in Device \ {d} : active'[e] = active[e] /\ revoked'[e] = revoked[e]
      BY <2>1 DEF TypeInv, TypeOK
    <3> QED
      BY <3>4, <3>5 DEF StoreInv, RevokedStaysRevoked
  <2>7. OnePerPid'
    BY <2>3 DEF StoreInv, OnePerPid
  <2>6. \A e \in Device : \A q : Unknown(e, q) => Unknown(e, q)'
    BY <2>3 DEF Unknown, Pids
  <2> QED
    BY <2>2, <2>4, <2>5, <2>6, <2>7 DEF StoreInv, Device
<1>37. CASE UNCHANGED vars
  BY <1>37, <1>q, <1>s DEF vars, stores
<1> QED
  BY <1>1, <1>2, <1>3, <1>4, <1>5, <1>6, <1>7, <1>8, <1>9, <1>10, <1>11, <1>12, <1>13, <1>14,
     <1>15, <1>16, <1>17, <1>30, <1>31, <1>32, <1>33, <1>34, <1>35, <1>36, <1>37
  DEF Next, IniProgress, ResProgress, UserAnswers, Faults

(* Only a record that both devices signed is ever trusted.                 *)
THEOREM Bilateral == Spec => []ActiveIsBilateral
<1>1. StoreInv => ActiveIsBilateral
  BY DEF StoreInv
<1> QED
  BY <1>1, TypeInit, TypeStep, StoreInit, StoreStep, PTL DEF Spec

(* A revoked PairID is never active again where it was revoked.            *)
THEOREM NoResurrection == Spec => []RevokedStaysRevoked
<1>1. StoreInv => RevokedStaysRevoked
  BY DEF StoreInv
<1> QED
  BY <1>1, TypeInit, TypeStep, StoreInit, StoreStep, PTL DEF Spec

-----------------------------------------------------------------------------
(* The responder activates first: every record the initiator trusts is one *)
(* the responder has activated, whatever is lost, delayed or interrupted.  *)

(* The order of activation.  Known is what the responder has activated.    *)
Known == active[Higher] \cup revoked[Higher]

(* What the initiator is about to activate, or has been told about, the    *)
(* responder knows. *)
FinalizedInv ==
    /\ ini.pc = "reconciling" => ini.record \subseteq Known
    /\ Finalized \in toIni =>
          /\ ini.pc \in {"requested", "completed"}
          /\ ini.pc = "completed" => ini.record \subseteq Known
          /\ ini.pc = "requested" => \A m \in toIni : m.type # "prepared"
    /\ \A m \in toIni :
          /\ m.type = "complete" => m.record \in Known
          /\ m.type = "prepared" => m.record.sigs = {Higher}
    /\ res.pc = "clearing" => res.record \subseteq Known

(* While both ends of a connection live, the responder activates what the  *)
(* initiator has completed and is waiting for.                             *)
LinkInv ==
    /\ ini.pc \in {"idle", "started"} => toIni = {}
    /\ res.pc = "idle" => toRes = {} /\ link # "open"
    /\ link = "backlog" => ini.pc = "started"
    /\ link = "open" =>
          /\ \A m \in toIni : m.type = "prepared"
          /\ res.pc \in {"handshake", "authorizing", "preparing"} => toIni = {}
          /\ res.pc \in {"finalizing", "clearing"} =>
                ini.pc = "completed" /\ ini.record = res.record
          /\ ini.pc = "started" => res.pc = "handshake"
          /\ Request \in toRes => ini.pc = "requested" /\ res.pc = "handshake"
          /\ \A m \in toRes : m.type = "complete" =>
                /\ ini.pc = "completed"
                /\ ini.record = {m.record}
                /\ m.record.sigs = Device

(* Only the initiator's signature completes a record.                      *)
SignatureInv ==
    /\ ini.pc = "cosigning" => \A r \in ini.record : r.sigs = Device
    /\ \A r \in pending[Higher] \cup res.pending : r.sigs = {Higher}
    /\ res.pc = "preparing" => \A r \in res.record : r.sigs = {Higher}

OrderInv ==
    InitiatorActivatesLast /\ FinalizedInv /\ LinkInv /\ SignatureInv

LEMMA OrderInit == Init => OrderInv
BY DEF Init, OrderInv, InitiatorActivatesLast, FinalizedInv, LinkInv, SignatureInv,
       IniIdle, ResIdle, Device

-----------------------------------------------------------------------------
(* The directories: nothing leaves what the responder knows, and only the  *)
(* write of a reconciling initiator adds to what the initiator trusts.     *)
LEMMA TrustedGrows ==
    ASSUME TypeInv, [Next]_vars
    PROVE  /\ Known \subseteq Known'
           /\ active'[Lower] \cup revoked'[Lower]
                 \subseteq active[Lower] \cup revoked[Lower]
                     \cup (IF ini.pc = "reconciling" THEN ini.record ELSE {})
<1> DEFINE Goal ==
       /\ Known \subseteq Known'
       /\ active'[Lower] \cup revoked'[Lower]
             \subseteq active[Lower] \cup revoked[Lower]
                 \cup (IF ini.pc = "reconciling" THEN ini.record ELSE {})
<1>d. /\ Lower \in Device /\ Higher \in Device /\ Lower # Higher
      /\ active \in [Device -> SUBSET Record]
      /\ revoked \in [Device -> SUBSET Record]
  BY DEF Device, Lower, Higher, TypeInv, TypeOK
<1>0. CASE UNCHANGED <<active, revoked>>
  BY <1>0 DEF Known
<1>1. CASE /\ ini.pc = "reconciling"
           /\ active' = [active EXCEPT ![Lower] = @ \cup ini.record]
           /\ revoked' = revoked
  BY <1>1, <1>d DEF Known
<1>2. CASE /\ active' = [active EXCEPT ![Higher] = @ \cup res.record]
           /\ revoked' = revoked
  BY <1>2, <1>d DEF Known
<1>3. ASSUME NEW d \in Device, Revoke(d) PROVE Goal
  <2>1. PICK r \in active[d] :
          /\ active' = [active EXCEPT ![d] = @ \ {r}]
          /\ revoked' = [revoked EXCEPT ![d] = @ \cup {r}]
    BY <1>3 DEF Revoke
  <2>2. \A e \in Device : active'[e] \cup revoked'[e] = active[e] \cup revoked[e]
    BY <2>1, <1>d
  <2> QED
    BY <2>2, <1>d DEF Known
<1>4. CASE IniActivate
  BY <1>4, <1>1 DEF IniActivate
<1>5. CASE ResActivate
  BY <1>5, <1>2 DEF ResActivate
<1>6. CASE IniCrash
  BY <1>6, <1>0, <1>1 DEF IniCrash, CrashWriting, CrashClearing, CrashElsewhere
<1>7. CASE ResCrash
  BY <1>7, <1>0, <1>2 DEF ResCrash, CrashWriting, CrashClearing, CrashElsewhere
<1>8. CASE IniProgress /\ ~IniActivate
  BY <1>8, <1>0
  DEF IniProgress, IniStart, IniBegin, IniRequest, IniReceivePrepared, IniResend,
      IniBeginCoSign, IniCoSign, IniReceiveComplete, IniReceiveFinalized, IniClear,
      IniPeerGone, stores
<1>9. CASE ResProgress /\ ~ResActivate
  BY <1>9, <1>0
  DEF ResProgress, ResAccept, ResReceiveRequest, ResPrepare, ResReceiveComplete,
      ResClear, ResPeerGone, stores
<1>10. CASE UserAnswers \/ IniStartLate \/ IniAbort \/ ResAbort \/ ResRefuse
  BY <1>10, <1>0
  DEF UserAnswers, UserApproves, UserDenies, IniStartLate, IniBegin, IniAbort, ResAbort,
      ResRefuse, stores
<1>11. CASE UNCHANGED vars
  BY <1>11, <1>0 DEF vars, stores
<1> QED
  BY <1>3, <1>4, <1>5, <1>6, <1>7, <1>8, <1>9, <1>10, <1>11 DEF Next, Faults

-----------------------------------------------------------------------------
(* Signatures: the initiator's is only added as it co-signs. *)
LEMMA SignatureQuiet ==
    ASSUME SignatureInv,
           ini'.pc = "cosigning" => ini' = ini,
           res'.pc = "preparing" => res' = res,
           pending'[Higher] \subseteq pending[Higher],
           res'.pending \subseteq pending[Higher] \cup res.pending
    PROVE  SignatureInv'
BY DEF SignatureInv

LEMMA PrepareLemma ==
    ASSUME TypeInv, SignatureInv, NEW r \in res.record, res.pc = "preparing",
           \/ WritePending(Higher, r)
           \/ pending' = [pending EXCEPT ![Higher] = @ \cup res.record]
    PROVE  \A q \in pending'[Higher] : q.sigs = {Higher}
BY DEF TypeInv, TypeOK, SignatureInv, WritePending, Device

LEMMA SignatureStep ==
    ASSUME TypeInv, StoreInv, SignatureInv, [Next]_vars
    PROVE  SignatureInv'
<1>t. /\ ini \in IniState /\ res \in ResState
      /\ Lower \in Device /\ Higher \in Device /\ Lower # Higher
      /\ pending \in [Device -> SUBSET Record]
      /\ \A r, q \in res.record : r = q
  BY DEF TypeInv, TypeOK, StoreInv, Device, Lower, Higher
<1>i. ASSUME IniEnd, res' = res, pending'[Higher] = pending[Higher] PROVE SignatureInv'
  BY <1>i, SignatureQuiet DEF IniEnd, IniIdle
<1>r. ASSUME res' = ResIdle, ini' = ini, pending'[Higher] \subseteq pending[Higher]
      PROVE  SignatureInv'
  BY <1>r, SignatureQuiet DEF ResIdle
<1>w. ASSUME NEW r, WritePending(Lower, r) PROVE pending'[Higher] = pending[Higher]
  BY <1>w, <1>t DEF WritePending
<1>c. ASSUME NEW d \in Device, ClearPending(d)
      PROVE  /\ pending'[Higher] \subseteq pending[Higher]
             /\ d = Lower => pending'[Higher] = pending[Higher]
  BY <1>c, <1>t DEF ClearPending
<1>1. CASE IniStart \/ IniStartLate
  BY <1>1, SignatureQuiet DEF IniStart, IniStartLate, IniBegin, IniIdle, stores
<1>2. CASE IniRequest
  BY <1>2, <1>t, SignatureQuiet DEF IniRequest, IniState, stores
<1>3. CASE IniReceivePrepared
  <2>1. UNCHANGED <<pending, res>>
    BY <1>3 DEF IniReceivePrepared, IniResend, IniBeginCoSign, stores
  <2>2. PICK r : IniResend(r) \/ IniBeginCoSign(r) \/ IniEnd
    BY <1>3 DEF IniReceivePrepared
  <2>3. CASE IniResend(r)
    <3>1. PICK c : ini' = [ini EXCEPT !.pc = "completed", !.record = {c}]
      BY <2>3 DEF IniResend
    <3>2. ini'.pc = "completed"
      BY <1>t, <3>1 DEF IniState
    <3> QED
      BY <2>1, <3>2, SignatureQuiet
  <2>4. CASE IniBeginCoSign(r)
    <3>1. PICK c : IsComplete(c) /\ ini' = [ini EXCEPT !.pc = "cosigning", !.record = {c}]
      BY <2>4 DEF IniBeginCoSign
    <3>2. ini'.pc = "cosigning" /\ ini'.record = {c}
      BY <1>t, <3>1 DEF IniState
    <3> QED
      BY <2>1, <3>1, <3>2 DEF SignatureInv, IsComplete
  <2> QED
    BY <1>i, <2>1, <2>2, <2>3, <2>4
<1>4. CASE IniCoSign
  <2>1. res' = res /\ ini' = [ini EXCEPT !.pc = "completed"]
    BY <1>4 DEF IniCoSign
  <2>2. pending'[Higher] = pending[Higher]
    BY <1>4, <1>w DEF IniCoSign
  <2>3. ini'.pc = "completed"
    BY <1>t, <2>1 DEF IniState
  <2> QED
    BY <2>1, <2>2, <2>3, SignatureQuiet
<1>5. CASE IniReceiveComplete
  <2>1. UNCHANGED <<pending, res>>
    BY <1>5 DEF IniReceiveComplete, stores
  <2>2. CASE IniEnd
    BY <1>i, <2>1, <2>2
  <2>3. ASSUME NEW c, ini' = [ini EXCEPT !.pc = "completed", !.record = {c}]
        PROVE  SignatureInv'
    <3>1. ini'.pc = "completed"
      BY <1>t, <2>3 DEF IniState
    <3> QED
      BY <2>1, <3>1, SignatureQuiet
  <2> QED
    BY <1>5, <2>2, <2>3 DEF IniReceiveComplete
<1>6. CASE IniReceiveFinalized
  <2>1. UNCHANGED <<pending, res>>
    BY <1>6 DEF IniReceiveFinalized, stores
  <2>2. IniEnd \/ \E r : ini' = [ini EXCEPT !.pc = AfterChecks(r)]
    BY <1>6 DEF IniReceiveFinalized
  <2>3. ini'.pc # "cosigning"
    BY <1>t, <2>2 DEF IniEnd, IniIdle, IniState, AfterChecks
  <2> QED
    BY <2>1, <2>3, SignatureQuiet
<1>7. CASE IniActivate
  BY <1>7, <1>t, SignatureQuiet DEF IniActivate, IniState
<1>8. CASE IniClear
  BY <1>8, <1>i, <1>c, <1>t DEF IniClear
<1>9. CASE IniPeerGone \/ IniAbort
  BY <1>9, <1>i DEF IniPeerGone, IniAbort, stores
<1>10. CASE IniCrash
  <2>1. pending'[Higher] = pending[Higher]
    BY <1>10, <1>t DEF IniCrash, CrashWriting, CrashClearing, CrashElsewhere
  <2> QED
    BY <1>10, <1>i, <2>1 DEF IniCrash
<1>11. CASE ResAccept
  <2>1. UNCHANGED <<pending, ini>>
    BY <1>11 DEF ResAccept, stores
  <2>2. \/ res' = res
        \/ res'.pc = "handshake" /\ res'.pending = PendingSeen
    BY <1>11 DEF ResAccept
  <2>3. PendingSeen \subseteq pending[Higher]
    BY FirstSubset DEF PendingSeen
  <2> QED
    BY <2>1, <2>2, <2>3, SignatureQuiet
<1>12. CASE ResReceiveRequest
  <2>1. UNCHANGED ini
    BY <1>12 DEF ResReceiveRequest
  <2>2. CASE ResSendActive
    BY <1>r, <2>1, <2>2 DEF ResSendActive, ResEnd
  <2>3. CASE ResSendPending \/ ResPrompt
    BY <1>t, <2>1, <2>3, SignatureQuiet DEF ResSendPending, ResPrompt, ResState
  <2>4. CASE ResResume
    <3>1. PICK t : res' = [res EXCEPT !.pc = "preparing", !.record = {NewRecord(t)}]
      BY <2>4 DEF ResResume
    <3>2. res'.record = {NewRecord(t)} /\ res'.pending = res.pending
      BY <1>t, <3>1 DEF ResState
    <3>3. UNCHANGED pending /\ NewRecord(t).sigs = {Higher}
      BY <2>4 DEF ResResume, NewRecord
    <3> QED
      BY <2>1, <3>2, <3>3 DEF SignatureInv
  <2> QED
    BY <1>12, <2>2, <2>3, <2>4 DEF ResReceiveRequest
<1>13. CASE UserApproves
  <2>1. UNCHANGED <<pending, ini>>
        /\ res' = [res EXCEPT !.pc = "preparing", !.record = {Authorized}]
    BY <1>13 DEF UserApproves, stores
  <2>2. res'.record = {Authorized} /\ res'.pending = res.pending
    BY <1>t, <2>1 DEF ResState
  <2>3. Authorized.sigs = {Higher}
    BY DEF Authorized, NewRecord
  <2> QED
    BY <2>1, <2>2, <2>3 DEF SignatureInv
<1>14. CASE UserDenies \/ ResPeerGone \/ ResAbort
  BY <1>14, <1>r DEF UserDenies, ResPeerGone, ResAbort, ResEnd, stores
<1>15. CASE ResPrepare
  <2>1. UNCHANGED ini /\ res.pc = "preparing"
    BY <1>15 DEF ResPrepare
  <2>2. CASE ResEnd /\ UNCHANGED pending
    BY <1>r, <2>1, <2>2 DEF ResEnd
  <2>3. CASE /\ \E r \in res.record : WritePending(Higher, r)
             /\ res' = [res EXCEPT !.pc = "prepared", !.record = {}]
    <3>1. res'.pc = "prepared" /\ res'.pending = res.pending
      BY <1>t, <2>3 DEF ResState
    <3> QED
      BY <2>1, <2>3, <3>1, PrepareLemma DEF SignatureInv
  <2> QED
    BY <1>15, <2>2, <2>3 DEF ResPrepare
<1>16. CASE ResReceiveComplete
  <2>1. UNCHANGED <<pending, ini>>
    BY <1>16 DEF ResReceiveComplete, stores
  <2>2. CASE ResEnd
    BY <1>r, <2>1, <2>2 DEF ResEnd
  <2>3. ASSUME NEW r, res' = [res EXCEPT !.pc = IF r \in active[Higher]
                                          THEN "clearing" ELSE "finalizing",
                                  !.record = {r}]
        PROVE  SignatureInv'
    <3>1. res'.pc \in {"clearing", "finalizing"} /\ res'.pending = res.pending
      BY <1>t, <2>3 DEF ResState
    <3> QED
      BY <2>1, <3>1, SignatureQuiet
  <2> QED
    BY <1>16, <2>2, <2>3 DEF ResReceiveComplete
<1>17. CASE ResActivate
  BY <1>17, <1>t, SignatureQuiet DEF ResActivate, ResState
<1>18. CASE ResClear
  BY <1>18, <1>r, <1>c, <1>t DEF ResClear, ResEnd
<1>19. CASE ResCrash
  <2>1. UNCHANGED ini /\ res' = ResIdle
    BY <1>19 DEF ResCrash
  <2>2. CASE \/ UNCHANGED pending
             \/ \E left \in SUBSET pending[Higher] :
                    pending' = [pending EXCEPT ![Higher] = left]
    BY <1>r, <1>t, <2>1, <2>2
  <2>3. CASE res.pc = "preparing"
             /\ pending' = [pending EXCEPT ![Higher] = @ \cup res.record]
    BY <1>t, <2>1, <2>3 DEF SignatureInv, ResIdle
  <2> QED
    BY <1>19, <2>2, <2>3 DEF ResCrash, CrashWriting, CrashClearing, CrashElsewhere
<1>20. CASE ResRefuse \/ UNCHANGED vars \/ \E d \in Device : Revoke(d)
  BY <1>20, SignatureQuiet DEF ResRefuse, Revoke, vars, stores
<1> QED
  BY <1>1, <1>2, <1>3, <1>4, <1>5, <1>6, <1>7, <1>8, <1>9, <1>10, <1>11, <1>12, <1>13, <1>14,
     <1>15, <1>16, <1>17, <1>18, <1>19, <1>20
  DEF Next, IniProgress, ResProgress, UserAnswers, Faults

-----------------------------------------------------------------------------
(* Messages: what the ends of a connection know of each other. *)
Talk == FinalizedInv /\ LinkInv

LEMMA IniEnds ==
    ASSUME Talk, Known \subseteq Known', IniEnd, UNCHANGED <<res, toRes>>
    PROVE  Talk'
BY DEF Talk, FinalizedInv, LinkInv, IniEnd, IniIdle

LEMMA ResEnds ==
    ASSUME Talk, Known \subseteq Known', UNCHANGED <<ini, toIni>>,
           res' = ResIdle, toRes' = {}, link' \in {"none", link}, link' # "open"
    PROVE  Talk'
BY DEF Talk, FinalizedInv, LinkInv, ResIdle

LEMMA NothingSent ==
    ASSUME Talk, Known \subseteq Known', UNCHANGED <<ini, res, toIni, toRes>>,
           link' = "none" \/ link' = link
    PROVE  Talk'
BY DEF Talk, FinalizedInv, LinkInv

LEMMA MessageFields ==
    /\ Request.type = "request" /\ Finalized.type = "finalized"
    /\ \A r : /\ Prepared(r).type = "prepared" /\ Prepared(r).record = r
              /\ Complete(r).type = "complete" /\ Complete(r).record = r
BY DEF Request, Finalized, Prepared, Complete

(* The initiator has a complete record and waits for its finalization.     *)
LEMMA IniCompletes ==
    ASSUME Talk, Known \subseteq Known', UNCHANGED res,
           NEW r, r.sigs = Device,
           \/ ini.pc = "cosigning"
           \/ ini.pc = "requested" /\ \E m \in toIni : m.type = "prepared",
           ini'.pc = "completed", ini'.record = {r},
           SendToRes(Complete(r)), toIni' \subseteq toIni, link' = link
    PROVE  Talk'
<1>1. Finalized \notin toIni
  BY DEF Talk, FinalizedInv
<1>2. FinalizedInv'
  BY <1>1 DEF Talk, FinalizedInv
<1>3. link = "open" => Request \notin toRes
  BY DEF Talk, LinkInv
<1>4. /\ \A m \in toRes' : m \in toRes \/ m = Complete(r)
      /\ link # "open" => toRes' = toRes
  BY DEF SendToRes
<1>5. LinkInv'
  BY <1>3, <1>4, MessageFields DEF Talk, LinkInv
<1> QED
  BY <1>2, <1>5 DEF Talk

(* The responder sends a record it has signed alone.                       *)
LEMMA ResSendsPrepared ==
    ASSUME Talk, TypeInv, Known \subseteq Known', UNCHANGED <<ini, link>>,
           NEW r, r.sigs = {Higher}, SendToIni({Prepared(r)}),
           \/ res.pc = "handshake" /\ Request \in toRes
           \/ res.pc = "preparing",
           res'.pc = "prepared", toRes' = toRes \ {Request}
    PROVE  Talk'
<1>1. link = "open" => toIni = {} /\ ini.pc # "started" /\ ini.pc # "idle"
  BY DEF Talk, LinkInv, TypeInv, SessionOK
<1>2. toIni' = IF link = "open" THEN {Prepared(r)} ELSE toIni
  BY <1>1 DEF SendToIni
<1>3. FinalizedInv'
  BY <1>1, <1>2, MessageFields DEF Talk, FinalizedInv
<1>4. LinkInv'
  BY <1>1, <1>2, MessageFields DEF Talk, LinkInv
<1> QED
  BY <1>3, <1>4 DEF Talk

LEMMA TalkStep ==
    ASSUME TypeInv, StoreInv, SignatureInv, Talk, [Next]_vars
    PROVE  Talk'
<1>k. Known \subseteq Known'
  BY TrustedGrows
<1>t. /\ ini \in IniState /\ res \in ResState
      /\ \A r, q \in ini.record : r = q
      /\ \A r, q \in res.record : r = q
  BY DEF TypeInv, TypeOK, StoreInv
<1>1. CASE IniStart \/ IniStartLate
  BY <1>1, <1>k
  DEF IniStart, IniStartLate, IniBegin, IniIdle, stores, Talk, FinalizedInv, LinkInv
<1>2. CASE IniRequest
  <2>1. /\ ini.pc = "started" /\ link = "open" /\ SendToRes(Request)
        /\ UNCHANGED <<res, link, toIni>>
    BY <1>2 DEF IniRequest
  <2>2. ini'.pc = "requested"
    BY <1>2, <1>t DEF IniRequest, IniState
  <2>3. toIni = {} /\ res.pc = "handshake" /\ toRes' = toRes \cup {Request}
    BY <2>1 DEF SendToRes, Talk, LinkInv
  <2> QED
    BY <2>1, <2>2, <2>3, MessageFields DEF Talk, FinalizedInv, LinkInv
<1>3. CASE IniReceivePrepared
  <2>1. PICK m \in toIni :
          /\ m.type = "prepared"
          /\ \/ IniResend(m.record)
             \/ IniBeginCoSign(m.record)
             \/ IniEnd /\ UNCHANGED toRes
    BY <1>3 DEF IniReceivePrepared
  <2>2. ini.pc = "requested" /\ UNCHANGED res /\ m.record.sigs = {Higher}
    BY <1>3, <2>1 DEF IniReceivePrepared, Talk, FinalizedInv
  <2>3. CASE IniResend(m.record)
    <3>1. Lower \notin m.record.sigs
      BY <2>2 DEF Lower, Higher
    <3>2. PICK c \in LocalComplete :
            /\ ini' = [ini EXCEPT !.pc = "completed", !.record = {c}]
            /\ SendToRes(Complete(c))
      BY <2>3, <3>1 DEF IniResend
    <3>3. c.sigs = Device
      BY <3>2 DEF LocalComplete, IsComplete
    <3>4. ini'.pc = "completed" /\ ini'.record = {c}
      BY <1>t, <3>2 DEF IniState
    <3>5. toIni' \subseteq toIni /\ link' = link
      BY <2>3 DEF IniResend
    <3> QED
      BY <1>k, <2>1, <2>2, <3>2, <3>3, <3>4, <3>5, IniCompletes
  <2>4. CASE IniBeginCoSign(m.record)
    <3>1. ini'.pc = "cosigning"
      BY <1>t, <2>4 DEF IniBeginCoSign, IniState
    <3>2. toIni' \subseteq toIni /\ UNCHANGED <<link, toRes>>
      BY <2>4 DEF IniBeginCoSign
    <3> QED
      BY <1>k, <2>1, <2>2, <3>1, <3>2 DEF Talk, FinalizedInv, LinkInv
  <2> QED
    BY <1>k, <2>1, <2>2, <2>3, <2>4, IniEnds
<1>4. CASE IniCoSign
  <2>1. PICK r \in ini.record : SendToRes(Complete(r))
    BY <1>4 DEF IniCoSign
  <2>2. ini.pc = "cosigning" /\ UNCHANGED <<res, link, toIni>>
    BY <1>4 DEF IniCoSign
  <2>3. ini'.pc = "completed" /\ ini'.record = {r}
    BY <1>4, <1>t, <2>1 DEF IniCoSign, IniState
  <2>4. r.sigs = Device
    BY <2>1, <2>2 DEF SignatureInv
  <2> QED
    BY <1>k, <2>1, <2>2, <2>3, <2>4, IniCompletes
<1>5. CASE IniReceiveComplete
  <2>1. PICK m \in toIni :
          /\ m.type = "complete"
          /\ \/ /\ ini' = [ini EXCEPT !.pc = "completed", !.record = {m.record}]
                /\ toIni' = toIni \ {m}
                /\ link' = link
             \/ IniEnd
    BY <1>5 DEF IniReceiveComplete
  <2>2. ini.pc = "requested" /\ UNCHANGED <<res, toRes>>
    BY <1>5 DEF IniReceiveComplete
  <2>3. CASE /\ ini' = [ini EXCEPT !.pc = "completed", !.record = {m.record}]
             /\ toIni' = toIni \ {m}
             /\ link' = link
    <3>1. ini'.pc = "completed" /\ ini'.record = {m.record}
      BY <1>t, <2>3 DEF IniState
    <3>2. link # "open" /\ link # "backlog" /\ m.record \in Known
      BY <2>1, <2>2 DEF Talk, FinalizedInv, LinkInv
    <3> QED
      BY <1>k, <2>2, <2>3, <3>1, <3>2 DEF Talk, FinalizedInv, LinkInv
  <2> QED
    BY <1>k, <2>1, <2>2, <2>3, IniEnds
<1>6. CASE IniReceiveFinalized
  <2>1. PICK r \in ini.record :
          \/ /\ ini' = [ini EXCEPT !.pc = AfterChecks(r)]
             /\ toIni' = toIni \ {Finalized}
             /\ link' = link
          \/ IniEnd
    BY <1>6 DEF IniReceiveFinalized
  <2>2. ini.pc = "completed" /\ Finalized \in toIni /\ UNCHANGED <<res, toRes>>
    BY <1>6 DEF IniReceiveFinalized
  <2>3. CASE /\ ini' = [ini EXCEPT !.pc = AfterChecks(r)]
             /\ toIni' = toIni \ {Finalized}
             /\ link' = link
    <3>1. ini'.pc \in {"clearing", "reconciling"} /\ ini'.record = ini.record
      BY <1>t, <2>3 DEF IniState, AfterChecks
    <3>2. link # "open" /\ link # "backlog" /\ ini.record \subseteq Known
      BY <2>2, MessageFields DEF Talk, FinalizedInv, LinkInv
    <3> QED
      BY <1>k, <2>2, <2>3, <3>1, <3>2 DEF Talk, FinalizedInv, LinkInv
  <2> QED
    BY <1>k, <2>1, <2>2, <2>3, IniEnds
<1>7. CASE IniActivate
  <2>1. ini.pc = "reconciling" /\ UNCHANGED <<res, link, toIni, toRes>>
    BY <1>7 DEF IniActivate, network
  <2>2. ini'.pc = "clearing"
    BY <1>7, <1>t DEF IniActivate, IniState
  <2> QED
    BY <1>k, <2>1, <2>2 DEF Talk, FinalizedInv, LinkInv
<1>8. CASE IniClear \/ IniPeerGone \/ IniAbort \/ IniCrash
  BY <1>8, <1>k, IniEnds DEF IniClear, IniPeerGone, IniAbort, IniCrash
<1>11. CASE ResAccept
  <2>1. /\ res.pc = "idle" /\ link = "backlog" /\ UNCHANGED <<ini, toIni, toRes>>
        /\ \/ res'.pc = "handshake" /\ link' = "open"
           \/ res' = res /\ link' = "none"
    BY <1>11 DEF ResAccept
  <2>2. ini.pc = "started" /\ toIni = {} /\ toRes = {}
    BY <2>1 DEF Talk, LinkInv
  <2> QED
    BY <1>k, <2>1, <2>2 DEF Talk, FinalizedInv, LinkInv
<1>12. CASE ResReceiveRequest
  <2>1. res.pc = "handshake" /\ Request \in toRes /\ UNCHANGED ini
    BY <1>12 DEF ResReceiveRequest
  <2>2. CASE ResSendActive
    <3>1. res' = ResIdle /\ toRes' = {} /\ link' \in {"none", link} /\ link' # "open"
      BY <2>2 DEF ResSendActive, ResEnd
    <3>2. CASE toIni' = toIni
      BY <1>k, <2>1, <3>1, <3>2, ResEnds
    <3>3. ASSUME NEW r \in active[Higher], link = "open",
                 toIni' = toIni \cup {Complete(r), Finalized}
          PROVE  Talk'
      <4>1. toIni = {} /\ ini.pc = "requested"
        BY <2>1, <3>3 DEF Talk, LinkInv
      <4>2. r \in Known'
        BY <1>k DEF Known
      <4>3. link' = "none"
        BY <3>1, <3>3
      <4> QED
        BY <2>1, <3>1, <3>3, <4>1, <4>2, <4>3, MessageFields
        DEF Talk, FinalizedInv, LinkInv, ResIdle
    <3> QED
      BY <2>2, <3>2, <3>3 DEF ResSendActive, SendToIni
  <2>3. CASE ResSendPending
    <3>1. PICK r \in res.pending : SendToIni({Prepared(r)})
      BY <2>3 DEF ResSendPending
    <3>2. res'.pc = "prepared" /\ toRes' = toRes \ {Request} /\ link' = link
      BY <1>t, <2>3 DEF ResSendPending, ResState
    <3>3. r.sigs = {Higher}
      BY DEF SignatureInv
    <3> QED
      BY <1>k, <2>1, <3>1, <3>2, <3>3, ResSendsPrepared
  <2>4. CASE ResResume \/ ResPrompt
    <3>1. /\ \/ res' = [res EXCEPT !.pc = "authorizing"]
             \/ \E c : res' = [res EXCEPT !.pc = "preparing", !.record = {c}]
          /\ toRes' = toRes \ {Request} /\ UNCHANGED <<link, toIni>>
      BY <2>4 DEF ResResume, ResPrompt
    <3>2. res'.pc \in {"authorizing", "preparing"}
      BY <1>t, <3>1 DEF ResState
    <3> QED
      BY <1>k, <2>1, <3>1, <3>2 DEF Talk, FinalizedInv, LinkInv
  <2> QED
    BY <1>12, <2>2, <2>3, <2>4 DEF ResReceiveRequest
<1>13. CASE UserApproves
  <2>1. res.pc = "authorizing" /\ UNCHANGED <<ini, link, toIni, toRes>>
    BY <1>13 DEF UserApproves, network
  <2>2. res'.pc = "preparing"
    BY <1>13, <1>t DEF UserApproves, ResState
  <2> QED
    BY <1>k, <2>1, <2>2 DEF Talk, FinalizedInv, LinkInv
<1>14. CASE UserDenies \/ ResPeerGone \/ ResAbort
  BY <1>14, <1>k, ResEnds DEF UserDenies, ResPeerGone, ResAbort, ResEnd
<1>15. CASE ResPrepare
  <2>1. res.pc = "preparing" /\ UNCHANGED ini
    BY <1>15 DEF ResPrepare
  <2>2. CASE ResEnd /\ UNCHANGED toIni
    BY <1>k, <2>1, <2>2, ResEnds DEF ResEnd
  <2>3. ASSUME NEW r \in res.record, SendToIni({Prepared(r)}),
               res' = [res EXCEPT !.pc = "prepared", !.record = {}],
               UNCHANGED <<link, toRes>>
        PROVE  Talk'
    <3>1. res'.pc = "prepared" /\ r.sigs = {Higher}
      BY <1>t, <2>1, <2>3 DEF ResState, SignatureInv
    <3>2. link = "open" => toIni = {} /\ ini.pc # "started" /\ ini.pc # "idle"
      BY <2>1 DEF Talk, LinkInv, TypeInv, SessionOK
    <3>3. toIni' = IF link = "open" THEN {Prepared(r)} ELSE toIni
      BY <2>3, <3>2 DEF SendToIni
    <3> QED
      BY <1>k, <2>1, <2>3, <3>1, <3>2, <3>3, MessageFields DEF Talk, FinalizedInv, LinkInv
  <2> QED
    BY <1>15, <2>2, <2>3 DEF ResPrepare
<1>16. CASE ResReceiveComplete
  <2>1. res.pc = "prepared" /\ UNCHANGED <<stores, ini>>
    BY <1>16 DEF ResReceiveComplete
  <2>2. PICK m \in toRes :
          /\ m.type = "complete"
          /\ \/ ~IsComplete(m.record) /\ SendToIni({Finalized}) /\ ResEnd
             \/ /\ res' = [res EXCEPT !.pc = IF m.record \in active[Higher]
                                          THEN "clearing" ELSE "finalizing",
                                      !.record = {m.record}]
                /\ toRes' = toRes \ {m}
                /\ UNCHANGED <<link, toIni>>
             \/ ResEnd /\ UNCHANGED toIni
    BY <1>16 DEF ResReceiveComplete
  <2>3. CASE ~IsComplete(m.record) /\ SendToIni({Finalized}) /\ ResEnd
    <3>1. link # "open"
      BY <2>2, <2>3 DEF Talk, LinkInv, IsComplete
    <3> QED
      BY <1>k, <2>1, <2>3, <3>1, ResEnds DEF ResEnd, SendToIni
  <2>4. CASE /\ res' = [res EXCEPT !.pc = IF m.record \in active[Higher]
                                          THEN "clearing" ELSE "finalizing",
                                      !.record = {m.record}]
             /\ toRes' = toRes \ {m}
             /\ UNCHANGED <<link, toIni>>
    <3>1. /\ res'.pc \in {"clearing", "finalizing"}
          /\ res'.pc = "clearing" => m.record \in active[Higher]
          /\ res'.record = {m.record}
      BY <1>t, <2>4 DEF ResState
    <3>2. res'.pc = "clearing" => res'.record \subseteq Known'
      BY <1>k, <3>1 DEF Known
    <3>3. FinalizedInv'
      BY <1>k, <2>1, <2>4, <3>2 DEF Talk, FinalizedInv
    <3>4. LinkInv'
      BY <2>1, <2>2, <2>4, <3>1, MessageFields DEF Talk, LinkInv
    <3> QED
      BY <3>3, <3>4 DEF Talk
  <2> QED
    BY <1>k, <2>1, <2>2, <2>3, <2>4, ResEnds DEF ResEnd
<1>17. CASE ResActivate
  <2>1. res.pc = "finalizing" /\ UNCHANGED <<ini, link, toIni, toRes>>
    BY <1>17 DEF ResActivate, network
  <2>2. res'.pc = "clearing" /\ res'.record = res.record
    BY <1>17, <1>t DEF ResActivate, ResState
  <2>3. res.record \subseteq Known'
    BY <1>17 DEF ResActivate, Known, Device, Lower, Higher, TypeInv, TypeOK
  <2> QED
    BY <1>k, <2>1, <2>2, <2>3 DEF Talk, FinalizedInv, LinkInv
<1>18. CASE ResClear
  <2>1. res.pc = "clearing" /\ UNCHANGED ini /\ ResEnd
    BY <1>18 DEF ResClear
  <2>2. CASE toIni' = toIni
    BY <1>k, <2>1, <2>2, ResEnds DEF ResEnd
  <2>3. CASE link = "open" /\ toIni' = toIni \cup {Finalized}
    <3>1. ini.pc = "completed" /\ ini.record \subseteq Known'
      BY <1>k, <2>1, <2>3 DEF Talk, LinkInv, FinalizedInv
    <3> QED
      BY <1>k, <2>1, <2>3, <3>1, MessageFields
      DEF Talk, FinalizedInv, LinkInv, ResEnd, ResIdle
  <2> QED
    BY <1>18, <2>2, <2>3 DEF ResClear, SendToIni
<1>19. CASE ResCrash
  BY <1>19, <1>k, ResEnds DEF ResCrash
<1>20. CASE ResRefuse \/ UNCHANGED vars \/ \E d \in Device : Revoke(d)
  BY <1>20, <1>k, NothingSent DEF ResRefuse, Revoke, vars, network
<1> QED
  BY <1>1, <1>2, <1>3, <1>4, <1>5, <1>6, <1>7, <1>8, <1>11, <1>12, <1>13, <1>14,
     <1>15, <1>16, <1>17, <1>18, <1>19, <1>20
  DEF Next, IniProgress, ResProgress, UserAnswers, Faults

LEMMA OrderStep == TypeInv /\ StoreInv /\ OrderInv /\ [Next]_vars => OrderInv'
<1> SUFFICES ASSUME TypeInv, StoreInv, OrderInv, [Next]_vars PROVE OrderInv'
  OBVIOUS
<1>1. SignatureInv'
  BY SignatureStep DEF OrderInv
<1>2. Talk'
  BY TalkStep DEF OrderInv, Talk
<1>3. InitiatorActivatesLast'
  BY TrustedGrows DEF OrderInv, InitiatorActivatesLast, FinalizedInv, Known
<1> QED
  BY <1>1, <1>2, <1>3 DEF OrderInv, Talk

(* The initiator never trusts a record its peer has not activated.         *)
THEOREM ResponderFirst == Spec => []InitiatorActivatesLast
<1>1. OrderInv => InitiatorActivatesLast
  BY DEF OrderInv
<1> QED
  BY <1>1, TypeInit, TypeStep, StoreInit, StoreStep, OrderInit, OrderStep, PTL DEF Spec
=============================================================================
