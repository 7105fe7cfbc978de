------------------------------ MODULE Pairing ------------------------------
(***************************************************************************)
(* Bilateral pairing of two enrolled devices: run_initiator and            *)
(* run_responder_with_start (runtime_v3.rs) over the durable PairingStore  *)
(* of each side (trust.rs), with the local authorization prompt, lost      *)
(* connections, timeouts, daemon crashes at every file-system step, and    *)
(* revocation.                                                             *)
(*                                                                         *)
(* The device with the lower DeviceID always initiates (runtime_v3.rs,     *)
(* run), so Lower runs the initiator and Higher the responder.  Each side  *)
(* has one session at a time: PairCoordinator's gate is free exactly when  *)
(* the side's pc is "idle" (the gate itself is modelled in Coordinator).   *)
(*                                                                         *)
(* An optional value is a set with at most one element.                    *)
(***************************************************************************)
EXTENDS Naturals, FiniteSets

CONSTANTS
    PairIds,      \* PairIDs an initiator may draw at random
    MaxFaults,    \* bound: connections lost or timed out, and crashes
    MaxTorn,      \* bound: crashes that leave a torn temporary file
    MaxDenials,   \* bound: prompts the user declines or dismisses
    MaxRevokes    \* bound: records revoked on each device

(***************************************************************************)
(* A directory is enumerated in an order that depends on its file names    *)
(* only, and those are random PairIDs: the order is that of the PairIDs.   *)
(***************************************************************************)
ASSUME PairIdsAssumption == PairIds \subseteq Nat \ {0}
ASSUME BoundsAssumption ==
    /\ MaxFaults \in Nat
    /\ MaxTorn \in Nat
    /\ MaxDenials \in Nat
    /\ MaxRevokes \in Nat

Lower == "lower"
Higher == "higher"
Device == {Lower, Higher}

(***************************************************************************)
(* A PairingRecord: its PairID, the binding of the session it was made in, *)
(* the time of the authorization it rests on, and who has signed it.       *)
(***************************************************************************)
Record == [pid : PairIds, binding : PairIds \cup {0},
           authorized_at : Nat \ {0}, sigs : SUBSET Device]

IsComplete(r) == r.sigs = Device

VARIABLES
    active,     \* trust/pairings of each device
    pending,    \* trust/pending-pairings of each device
    revoked,    \* trust/revoked-pairings of each device
    litter,     \* directories of each device that hold a torn temporary file
    ini,        \* the initiator thread of Lower
    res,        \* the responder session of Higher's listener
    link,       \* the initiator's current connection
    toIni,      \* unread messages on the initiator's connection
    toRes,      \* unread messages on the responder's connection
    consents,   \* prompts answered Yes so far: the clock of authorized_at
    budget      \* faults that may still happen

stores == <<active, pending, revoked, litter>>
network == <<link, toIni, toRes>>
vars == <<stores, ini, res, network, consents, budget>>

Message ==
    [type : {"request", "finalized"}]
        \cup [type : {"prepared", "complete"}, record : Record]

IniPc == {"idle", "started", "requested", "cosigning", "completed",
          "reconciling", "clearing"}
ResPc == {"idle", "handshake", "authorizing", "preparing", "prepared",
          "finalizing", "clearing"}

IniState == [pc : IniPc, reconnect : BOOLEAN, pid : PairIds \cup {0},
             record : SUBSET Record]
ResState == [pc : ResPc, reconnect : BOOLEAN, pid : PairIds \cup {0},
             active : SUBSET PairIds, pending : SUBSET Record,
             record : SUBSET Record]

IniIdle == [pc |-> "idle", reconnect |-> FALSE, pid |-> 0, record |-> {}]
ResIdle == [pc |-> "idle", reconnect |-> FALSE, pid |-> 0,
            active |-> {}, pending |-> {}, record |-> {}]

TypeOK ==
    /\ active \in [Device -> SUBSET Record]
    /\ pending \in [Device -> SUBSET Record]
    /\ revoked \in [Device -> SUBSET Record]
    /\ litter \in [Device -> SUBSET {"active", "pending"}]
    /\ ini \in IniState
    /\ res \in ResState
    /\ link \in {"none", "backlog", "open"}
    /\ toIni \subseteq Message
    /\ toRes \subseteq Message
    /\ consents \in Nat
    /\ budget \in [fault : Nat, torn : Nat, deny : Nat]

Init ==
    /\ active = [d \in Device |-> {}]
    /\ pending = [d \in Device |-> {}]
    /\ revoked = [d \in Device |-> {}]
    /\ litter = [d \in Device |-> {}]
    /\ ini = IniIdle
    /\ res = ResIdle
    /\ link = "none"
    /\ toIni = {}
    /\ toRes = {}
    /\ consents = 0
    /\ budget = [fault |-> MaxFaults, torn |-> MaxTorn, deny |-> MaxDenials]

-----------------------------------------------------------------------------
(* Store lookups.                                                          *)

(* The first record in enumeration order, if there is one. *)
First(S) == {r \in S : \A s \in S : r.pid <= s.pid}
Pids(S) == {r.pid : r \in S}

(* active_pair_for_peer_at: the scan stops at the first match, and fails   *)
(* on a temporary file, whose stem is no PairID, met before it.            *)
ActiveReadable(d) == "active" \in litter[d] => active[d] # {}

(* pending_for_peer: likewise, failing on a temporary file that does not   *)
(* parse.                                                                  *)
PendingReadable(d) == "pending" \in litter[d] => pending[d] # {}

(* The session binding hashes both ephemeral keys: it is new in every      *)
(* session.  A first-contact session draws its PairID with it and is       *)
(* identified by it; no record carries the binding of a reconnect session, *)
(* written 0.                                                              *)
Binding(s) == IF s.reconnect THEN 0 ELSE s.pid

(* PairIDs that are nowhere in the system: what 16 random bytes produce. *)
PidsInUse ==
    (UNION {Pids(active[d] \cup pending[d] \cup revoked[d]) : d \in Device})
        \cup {ini.pid, res.pid} \cup Pids(res.record)
        \cup {m.record.pid : m \in {n \in toIni \cup toRes :
                                       n.type \in {"prepared", "complete"}}}
FreshPids == PairIds \ PidsInUse

-----------------------------------------------------------------------------
(* Ends of a session.                                                      *)

(* The initiator thread returns: its socket closes, and what the responder *)
(* has not read yet stays in the responder's buffer.                       *)
IniEnd ==
    /\ ini' = IniIdle
    /\ link' = "none"
    /\ toIni' = {}

(* The responder session returns; a connection still in the accept queue   *)
(* is not touched.                                                         *)
ResEnd ==
    /\ res' = ResIdle
    /\ link' = IF link = "open" THEN "none" ELSE link
    /\ toRes' = {}

(* A write of the responder reaches the initiator only while it listens. *)
SendToIni(ms) == toIni' = IF link = "open" THEN toIni \cup ms ELSE toIni
SendToRes(m) == toRes' = IF link = "open" THEN toRes \cup {m} ELSE toRes

Prepared(r) == [type |-> "prepared", record |-> r]
Complete(r) == [type |-> "complete", record |-> r]
Request == [type |-> "request"]
Finalized == [type |-> "finalized"]

-----------------------------------------------------------------------------
(* PairingStore operations that write.                                     *)

(* validate_record with bind_session, for a session s that the two         *)
(* participants of r have authenticated. *)
BoundTo(r, s) == r.binding = Binding(s)

(* write_pending and its write_atomic: refused when the path exists, even  *)
(* for the same binding, unless the file there is already complete.        *)
PendingAt(d, p) == {r \in pending[d] : r.pid = p}
WritePendingOk(d, r) ==
    \A old \in PendingAt(d, r.pid) :
        IsComplete(old) /\ old.binding = r.binding

(* Mutant: the write is left to a later flush. *)
WritePendingLazily(d, r) == pending' = pending

WritePending(d, r) ==
    pending' = IF PendingAt(d, r.pid) = {}
                   THEN [pending EXCEPT ![d] = @ \cup {r}]
                   ELSE pending

(* Mutant: persist_active forgets to look at the revoked directory.        *)
PersistActiveOkIgnoringRevoked(d, r) ==
    \A old \in active[d] : old.pid = r.pid => old = r

(* persist_active: never a revoked PairID, never over a different record.  *)
PersistActiveOk(d, r) ==
    /\ r.pid \notin Pids(revoked[d])
    /\ \A old \in active[d] : old.pid = r.pid => old = r

(* remove_stale_pending fails on a torn temporary file, after removing     *)
(* what it met before it. *)
ClearOk(d) == "pending" \notin litter[d]
ClearPending(d) ==
    \E left \in SUBSET pending[d] :
        /\ ClearOk(d) => left = {}
        /\ pending' = [pending EXCEPT ![d] = left]

-----------------------------------------------------------------------------
(* The initiator: run (discovery) and run_initiator, on Lower.             *)

(* Mutant: no exception for pending state. *)
TriggeredWithoutActive == active[Lower] = {}

(* Discovery of the peer triggers a pairing attempt unless an active       *)
(* relationship is seen with nothing pending; an unreadable directory      *)
(* counts as empty. *)
Triggered ==
    \/ pending[Lower] # {}
    \/ active[Lower] = {}
    \/ "active" \in litter[Lower]

(* Connect, read the store, choose between reconnecting with the active    *)
(* record, recovering with the pending one, and first contact under a new  *)
(* PairID, and send the start.  With an unreadable store the attempt fails *)
(* before anything is sent. *)
IniBegin ==
    /\ ini.pc = "idle"
    /\ ActiveReadable(Lower)
    /\ PendingReadable(Lower)
    /\ \/ \E r \in First(active[Lower]) :
             ini' = [IniIdle EXCEPT !.pc = "started", !.reconnect = TRUE,
                                    !.pid = r.pid]
       \/ /\ active[Lower] = {}
          /\ \E r \in First(pending[Lower]) :
                ini' = [IniIdle EXCEPT !.pc = "started", !.reconnect = TRUE,
                                       !.pid = r.pid]
       \/ /\ active[Lower] = {}
          /\ pending[Lower] = {}
          /\ \E p \in FreshPids :
                ini' = [IniIdle EXCEPT !.pc = "started", !.pid = p]
    /\ link' = "backlog"
    /\ toIni' = {}
    /\ UNCHANGED <<stores, res, toRes, consents>>

IniStart == Triggered /\ IniBegin /\ UNCHANGED budget

(* What triggered the attempt is gone when its thread reads the store: the *)
(* discovery loop read it while the previous attempt was completing. *)
IniStartLate ==
    /\ ~Triggered
    /\ budget.fault > 0
    /\ budget' = [budget EXCEPT !.fault = @ - 1]
    /\ IniBegin

(* The rest of the handshake: the responder has accepted the start, and    *)
(* the initiator asks for the record.                                      *)
IniRequest ==
    /\ ini.pc = "started"
    /\ link = "open"
    /\ ini' = [ini EXCEPT !.pc = "requested"]
    /\ SendToRes(Request)
    /\ UNCHANGED <<stores, res, link, toIni, consents, budget>>

(* The pending record the initiator completes with: the one it has already *)
(* co-signed, when there is one. *)
LocalComplete == {r \in First(pending[Lower]) : IsComplete(r)}

(* Prepared, answered with a record that is already signed locally. *)
IniResend(r) ==
    /\ PendingReadable(Lower)
    /\ \E complete \in (IF LocalComplete # {} THEN LocalComplete ELSE {r}) :
          /\ complete.pid = r.pid
          /\ LocalComplete = {} => Lower \in r.sigs
          /\ ini' = [ini EXCEPT !.pc = "completed", !.record = {complete}]
          /\ SendToRes(Complete(complete))
    /\ toIni' = toIni \ {Prepared(r)}
    /\ UNCHANGED <<stores, link>>

(* Prepared, to be co-signed: the pending file is being written. *)
IniBeginCoSign(r) ==
    /\ PendingReadable(Lower)
    /\ LocalComplete = {}
    /\ Lower \notin r.sigs
    /\ BoundTo(r, ini)
    /\ LET signed == [r EXCEPT !.sigs = @ \cup {Lower}] IN
          /\ IsComplete(signed)
          /\ WritePendingOk(Lower, signed)
          /\ ini' = [ini EXCEPT !.pc = "cosigning", !.record = {signed}]
    /\ toIni' = toIni \ {Prepared(r)}
    /\ UNCHANGED <<stores, link, toRes>>

(* Prepared, refused: an unreadable store, another PairID in the local     *)
(* recovery state, or a record co_sign does not accept. *)
IniRefuses(r) ==
    \/ ~PendingReadable(Lower)
    \/ \E local \in LocalComplete : local.pid # r.pid
    \/ /\ LocalComplete = {}
       /\ Lower \notin r.sigs
       /\ \/ ~BoundTo(r, ini)
          \/ ~WritePendingOk(Lower, [r EXCEPT !.sigs = @ \cup {Lower}])

IniReceivePrepared ==
    /\ ini.pc = "requested"
    /\ \E m \in toIni :
          /\ m.type = "prepared"
          /\ \/ IniResend(m.record)
             \/ IniBeginCoSign(m.record)
             \/ IniRefuses(m.record) /\ IniEnd /\ UNCHANGED <<stores, toRes>>
    /\ UNCHANGED <<res, consents, budget>>

(* Mutant: the record is sent as it was received, without our signature.   *)
IniCoSignSendingUnsigned ==
    /\ ini.pc = "cosigning"
    /\ \E r \in ini.record :
          /\ WritePending(Lower, r)
          /\ SendToRes(Complete([r EXCEPT !.sigs = @ \ {Lower}]))
    /\ ini' = [ini EXCEPT !.pc = "completed"]
    /\ UNCHANGED <<active, revoked, litter, res, link, toIni, consents, budget>>

(* co_sign has made the pending record durable; the complete record goes   *)
(* out only now. *)
IniCoSign ==
    /\ ini.pc = "cosigning"
    /\ \E r \in ini.record :
          /\ WritePending(Lower, r)
          /\ SendToRes(Complete(r))
    /\ ini' = [ini EXCEPT !.pc = "completed"]
    /\ UNCHANGED <<active, revoked, litter, res, link, toIni, consents, budget>>

(* The responder already trusts the record: accepted on a reconnect only. *)
IniReceiveComplete ==
    /\ ini.pc = "requested"
    /\ \E m \in toIni :
          /\ m.type = "complete"
          /\ IF ini.reconnect
                 THEN /\ ini' = [ini EXCEPT !.pc = "completed",
                                            !.record = {m.record}]
                      /\ toIni' = toIni \ {m}
                      /\ link' = link
                 ELSE IniEnd
    /\ UNCHANGED <<stores, res, toRes, consents, budget>>

(* Mutant: pending state is cleaned up before the record is active. *)
AfterChecksClearingFirst(r) == "clearing"

(* What persist_active does next: write the record, unless it is there. *)
AfterChecks(r) == IF r \in active[Lower] THEN "clearing" ELSE "reconciling"

(* Finalized: reconcile validates the record and checks the store; unless  *)
(* the record is there already, the active file is being written. *)
IniReceiveFinalized ==
    /\ ini.pc = "completed"
    /\ Finalized \in toIni
    /\ \E r \in ini.record :
          IF IsComplete(r) /\ PersistActiveOk(Lower, r)
              THEN /\ ini' = [ini EXCEPT !.pc = AfterChecks(r)]
                   /\ toIni' = toIni \ {Finalized}
                   /\ link' = link
              ELSE IniEnd
    /\ UNCHANGED <<stores, res, toRes, consents, budget>>

(* persist_active: the record is in the active directory. *)
IniActivate ==
    /\ ini.pc = "reconciling"
    /\ active' = [active EXCEPT ![Lower] = @ \cup ini.record]
    /\ ini' = [ini EXCEPT !.pc = "clearing"]
    /\ UNCHANGED <<pending, revoked, litter, res, network, consents, budget>>

(* persist_active: stale pending records go, and the thread returns. *)
IniClear ==
    /\ ini.pc = "clearing"
    /\ ClearPending(Lower)
    /\ IniEnd
    /\ UNCHANGED <<active, revoked, litter, res, toRes, consents, budget>>

(* The responder has closed the connection and nothing is left to read. *)
IniPeerGone ==
    /\ ini.pc \in {"started", "requested", "completed"}
    /\ link = "none"
    /\ ini.pc = "requested" => toIni = {}
    /\ ini.pc = "completed" => Finalized \notin toIni
    /\ IniEnd
    /\ UNCHANGED <<stores, res, toRes, consents, budget>>

(* Any read or write on the connection may fail or take longer than        *)
(* IO_TIMEOUT (CONNECT_TIMEOUT before the start). *)
IniAbort ==
    /\ ini.pc \in {"started", "requested", "completed"}
    /\ budget.fault > 0
    /\ budget' = [budget EXCEPT !.fault = @ - 1]
    /\ IniEnd
    /\ UNCHANGED <<stores, res, toRes, consents>>

-----------------------------------------------------------------------------
(* The responder: run_listener and run_responder_with_start, on Higher.    *)

(* Mutants: active state is only looked up on a reconnect; likewise        *)
(* pending state. *)
ActiveSeenOnReconnect ==
    IF ini.reconnect THEN Pids(First(active[Higher])) ELSE {}
PendingSeenOnReconnect == IF ini.reconnect THEN First(pending[Higher]) ELSE {}

(* What the responder reads before the handshake, and uses after it. *)
ActiveSeen == Pids(First(active[Higher]))
PendingSeen == First(pending[Higher])

(* Mutant: pending state is no ground to accept a reconnect.               *)
ExpectedActiveOnly == ActiveSeen

(* The PairID the responder is willing to reconnect under, if any. *)
Expected == IF ActiveSeen # {} THEN ActiveSeen
            ELSE IF ini.reconnect THEN Pids(PendingSeen) ELSE {}

(* The start must be of the mode the responder is built for and, on a      *)
(* reconnect, name its PairID. *)
StartMatches ==
    IF Expected = {} THEN ~ini.reconnect
    ELSE ini.reconnect /\ ini.pid \in Expected

(* The listener takes the connection, reads the start and the store, and   *)
(* builds the responder: from the active record, from the pending one when *)
(* the start asks to reconnect, or for first contact.                      *)
ResAccept ==
    /\ res.pc = "idle"
    /\ link = "backlog"
    /\ IF /\ ActiveReadable(Higher)
          /\ PendingReadable(Higher)
          /\ StartMatches
           THEN /\ res' = [pc |-> "handshake", reconnect |-> ini.reconnect,
                           pid |-> ini.pid,
                           active |-> ActiveSeen, pending |-> PendingSeen,
                           record |-> {}]
                /\ link' = "open"
           ELSE /\ res' = res
                /\ link' = "none"
    /\ UNCHANGED <<stores, ini, toIni, toRes, consents, budget>>

(* Request, with an active record seen at the start of the session: it is  *)
(* loaded again and sent, and the session is over. *)
ResSendActive ==
    /\ res.active # {}
    /\ \/ \E r \in active[Higher] :
             /\ r.pid \in res.active
             /\ SendToIni({Complete(r), Finalized})
       \/ /\ Pids(active[Higher]) \cap res.active = {}
          /\ toIni' = toIni
    /\ ResEnd
    /\ UNCHANGED pending

(* Request on a reconnect, with a pending record: it is sent as it is. *)
ResSendPending ==
    /\ res.active = {}
    /\ res.reconnect
    /\ \E r \in res.pending : SendToIni({Prepared(r)})
    /\ res' = [res EXCEPT !.pc = "prepared"]
    /\ toRes' = toRes \ {Request}
    /\ UNCHANGED <<pending, link>>

NewRecord(time) == [pid |-> res.pid, binding |-> Binding(res),
                    authorized_at |-> time, sigs |-> {Higher}]

(* Request on first contact, with a pending record: resume_prepare binds   *)
(* its authorization to this session, without a prompt. *)
ResResume ==
    /\ res.active = {}
    /\ ~res.reconnect
    /\ \E old \in res.pending :
          res' = [res EXCEPT !.pc = "preparing",
                             !.record = {NewRecord(old.authorized_at)}]
    /\ toRes' = toRes \ {Request}
    /\ UNCHANGED <<pending, link, toIni>>

(* Request with nothing to resume: prepare asks the broker. *)
ResPrompt ==
    /\ res.active = {}
    /\ res.pending = {}
    /\ res' = [res EXCEPT !.pc = "authorizing"]
    /\ toRes' = toRes \ {Request}
    /\ UNCHANGED <<pending, link, toIni>>

ResReceiveRequest ==
    /\ res.pc = "handshake"
    /\ Request \in toRes
    /\ ResSendActive \/ ResSendPending \/ ResResume \/ ResPrompt
    /\ UNCHANGED <<active, revoked, litter, ini, consents, budget>>

(* Mutant: the time of the authorization is never filled in.               *)
AuthorizedUnstamped == NewRecord(0)

(* The record prepare makes once the broker has granted. *)
Authorized == NewRecord(consents + 1)

(* The user answers Yes: the record is signed and its file being written.  *)
UserApproves ==
    /\ res.pc = "authorizing"
    /\ consents' = consents + 1
    /\ res' = [res EXCEPT !.pc = "preparing", !.record = {Authorized}]
    /\ UNCHANGED <<stores, ini, network, budget>>

(* The user answers No, or dismisses the prompt. *)
UserDenies ==
    /\ res.pc = "authorizing"
    /\ budget.deny > 0
    /\ budget' = [budget EXCEPT !.deny = @ - 1]
    /\ ResEnd
    /\ UNCHANGED <<stores, ini, toIni, consents>>

(* prepare or resume_prepare has made the pending record durable. *)
ResPrepare ==
    /\ res.pc = "preparing"
    /\ \E r \in res.record :
          IF BoundTo(r, res) /\ WritePendingOk(Higher, r)
              THEN /\ WritePending(Higher, r)
                   /\ SendToIni({Prepared(r)})
                   /\ res' = [res EXCEPT !.pc = "prepared", !.record = {}]
                   /\ UNCHANGED <<link, toRes>>
              ELSE ResEnd /\ UNCHANGED <<pending, toIni>>
    /\ UNCHANGED <<active, revoked, litter, ini, consents, budget>>

(* Complete: an incomplete record is acknowledged without being stored; a  *)
(* complete one goes through finalize in the session that made it, through *)
(* reconcile in any other, and both end in persist_active. *)
ResReceiveComplete ==
    /\ res.pc = "prepared"
    /\ \E m \in toRes :
          /\ m.type = "complete"
          /\ LET r == m.record IN
             \/ /\ ~IsComplete(r)
                /\ SendToIni({Finalized})
                /\ ResEnd
             \/ /\ IsComplete(r)
                /\ PersistActiveOk(Higher, r)
                /\ res' = [res EXCEPT !.pc = IF r \in active[Higher]
                                          THEN "clearing" ELSE "finalizing",
                                      !.record = {r}]
                /\ toRes' = toRes \ {m}
                /\ UNCHANGED <<link, toIni>>
             \/ /\ IsComplete(r)
                /\ ~PersistActiveOk(Higher, r)
                /\ ResEnd
                /\ UNCHANGED toIni
    /\ UNCHANGED <<stores, ini, consents, budget>>

(* Mutant: the record is activated as it was prepared, half signed.        *)
ResActivatePrepared ==
    /\ res.pc = "finalizing"
    /\ active' = [active EXCEPT ![Higher] =
                     @ \cup {[r EXCEPT !.sigs = {Higher}] : r \in res.record}]
    /\ res' = [res EXCEPT !.pc = "clearing"]
    /\ UNCHANGED <<pending, revoked, litter, ini, network, consents, budget>>

(* persist_active: the record is in the active directory. *)
ResActivate ==
    /\ res.pc = "finalizing"
    /\ active' = [active EXCEPT ![Higher] = @ \cup res.record]
    /\ res' = [res EXCEPT !.pc = "clearing"]
    /\ UNCHANGED <<pending, revoked, litter, ini, network, consents, budget>>

(* Stale pending records go; Finalized is sent unless that failed. *)
ResClear ==
    /\ res.pc = "clearing"
    /\ ClearPending(Higher)
    /\ IF ClearOk(Higher) THEN SendToIni({Finalized}) ELSE toIni' = toIni
    /\ ResEnd
    /\ UNCHANGED <<active, revoked, litter, ini, consents, budget>>

(* The initiator has closed the connection and nothing is left to read. *)
ResPeerGone ==
    /\ \/ res.pc = "handshake" /\ Request \notin toRes
       \/ res.pc = "prepared" /\ ~\E m \in toRes : m.type = "complete"
    /\ link # "open"
    /\ ResEnd
    /\ UNCHANGED <<stores, ini, toIni, consents, budget>>

ResAbort ==
    /\ res.pc \in {"handshake", "prepared"}
    /\ budget.fault > 0
    /\ budget' = [budget EXCEPT !.fault = @ - 1]
    /\ ResEnd
    /\ UNCHANGED <<stores, ini, toIni, consents>>

(* The listener drops a connection whose peer is not in its cache, or for  *)
(* which the coordinator is busy with another peer or in cooldown.         *)
ResRefuse ==
    /\ link = "backlog"
    /\ budget.fault > 0
    /\ budget' = [budget EXCEPT !.fault = @ - 1]
    /\ link' = "none"
    /\ UNCHANGED <<stores, ini, res, toIni, toRes, consents>>

-----------------------------------------------------------------------------
(* Crash and restart.  A crash inside write_atomic leaves nothing, a torn  *)
(* temporary file, or the record (complete temporaries in the pending      *)
(* directory are found by every lookup like the record itself); in the     *)
(* active directory a complete temporary, too, has a name no lookup        *)
(* accepts.  A crash inside remove_stale_pending leaves any of the pending *)
(* files. *)
CrashWriting(d, dir, store, rs) ==
    \/ /\ budget' = [budget EXCEPT !.fault = @ - 1]
       /\ \/ UNCHANGED store
          \/ store' = [store EXCEPT ![d] = @ \cup rs]
       /\ UNCHANGED litter
    \/ /\ budget.torn > 0
       /\ budget' = [budget EXCEPT !.fault = @ - 1, !.torn = @ - 1]
       /\ litter' = [litter EXCEPT ![d] = @ \cup {dir}]
       /\ UNCHANGED store

CrashClearing(d) ==
    /\ budget' = [budget EXCEPT !.fault = @ - 1]
    /\ \E left \in SUBSET pending[d] : pending' = [pending EXCEPT ![d] = left]
    /\ UNCHANGED <<active, litter>>

CrashElsewhere ==
    /\ budget' = [budget EXCEPT !.fault = @ - 1]
    /\ UNCHANGED <<active, pending, litter>>

IniCrash ==
    /\ budget.fault > 0
    /\ \/ ini.pc \in {"started", "requested", "completed"} /\ CrashElsewhere
       \/ /\ ini.pc = "cosigning"
          /\ CrashWriting(Lower, "pending", pending, ini.record)
          /\ UNCHANGED active
       \/ /\ ini.pc = "reconciling"
          /\ CrashWriting(Lower, "active", active, ini.record)
          /\ UNCHANGED pending
       \/ ini.pc = "clearing" /\ CrashClearing(Lower)
    /\ IniEnd
    /\ UNCHANGED <<revoked, res, toRes, consents>>

(* The accept queue is lost with the listener.                             *)
ResCrash ==
    /\ budget.fault > 0
    /\ \/ res.pc \in {"handshake", "authorizing", "prepared"} /\ CrashElsewhere
       \/ /\ res.pc = "preparing"
          /\ CrashWriting(Higher, "pending", pending, res.record)
          /\ UNCHANGED active
       \/ /\ res.pc = "finalizing"
          /\ CrashWriting(Higher, "active", active, res.record)
          /\ UNCHANGED pending
       \/ res.pc = "clearing" /\ CrashClearing(Higher)
    /\ res' = ResIdle
    /\ link' = "none"
    /\ toRes' = {}
    /\ UNCHANGED <<revoked, ini, toIni, consents>>

-----------------------------------------------------------------------------
(* Mutant: revoke deletes the record.                                      *)
RevokeDeleting(d) ==
    /\ \E r \in active[d] : active' = [active EXCEPT ![d] = @ \ {r}]
    /\ UNCHANGED <<pending, revoked, litter, ini, res, network, consents, budget>>

(* revoke: the record moves from the active to the revoked directory.      *)
Revoke(d) ==
    /\ Cardinality(revoked[d]) < MaxRevokes
    /\ \E r \in active[d] :
          /\ r.pid \notin Pids(revoked[d])
          /\ active' = [active EXCEPT ![d] = @ \ {r}]
          /\ revoked' = [revoked EXCEPT ![d] = @ \cup {r}]
    /\ UNCHANGED <<pending, litter, ini, res, network, consents, budget>>

-----------------------------------------------------------------------------
IniProgress ==
    \/ IniStart \/ IniRequest \/ IniReceivePrepared \/ IniCoSign
    \/ IniReceiveComplete \/ IniReceiveFinalized \/ IniActivate \/ IniClear
    \/ IniPeerGone

ResProgress ==
    \/ ResAccept \/ ResReceiveRequest \/ ResPrepare \/ ResReceiveComplete
    \/ ResActivate \/ ResClear \/ ResPeerGone

UserAnswers == UserApproves \/ UserDenies

Faults == IniStartLate \/ IniAbort \/ ResAbort \/ ResRefuse \/ IniCrash \/ ResCrash

Next ==
    \/ IniProgress \/ ResProgress \/ UserAnswers \/ Faults
    \/ \E d \in Device : Revoke(d)

Spec == Init /\ [][Next]_vars

(***************************************************************************)
(* Discovery repeats every DISCOVERY_INTERVAL and cooldowns expire, so     *)
(* attempts recur; each thread runs on; the user eventually answers an     *)
(* open prompt, and declines at most MaxDenials times.                     *)
(***************************************************************************)
Fairness ==
    /\ WF_vars(IniProgress)
    /\ WF_vars(ResProgress)
    /\ WF_vars(UserAnswers)

LiveSpec == Spec /\ Fairness

-----------------------------------------------------------------------------
(* Only a fully bilateral record is ever trusted: however a record reaches *)
(* the active or the revoked directory, both devices have signed it.       *)
ActiveIsBilateral ==
    \A d \in Device : \A r \in active[d] \cup revoked[d] : r.sigs = Device

(* The initiator activates last: a record it trusts has been trusted by    *)
(* the responder, who either still trusts it or has revoked it, so a lost  *)
(* Finalized never leaves the initiator alone with an active pairing.      *)
InitiatorActivatesLast ==
    active[Lower] \cup revoked[Lower] \subseteq active[Higher] \cup revoked[Higher]

(* What the responder trusts, the initiator can still complete: it holds   *)
(* the very same record, pending, active or revoked, through every crash.  *)
ResponderIsRecoverable ==
    \A r \in active[Higher] :
        r \in pending[Lower] \cup active[Lower] \cup revoked[Lower]

(* The two devices never trust different records for each other, and none  *)
(* trusts two, though either may revoke and start over on its own.         *)
ActiveRecordsAgree ==
    \A r, s \in active[Lower] \cup active[Higher] : r = s

(* A revoked PairID is never active again on the device that revoked it:   *)
(* neither a peer still holding the record, nor a leftover pending copy,   *)
(* nor an activation under way when revoke runs brings it back.            *)
RevokedStaysRevoked ==
    \A d \in Device : Pids(active[d]) \cap Pids(revoked[d]) = {}

(* An authorization given before a revocation does not authorize again:    *)
(* what a device trusts never rests on the consent behind a record it      *)
(* revoked.  (trust.rs:362: "Retaining the record outside the active       *)
(* directory prevents accidental resurrection".) *)
RevokedConsentIsSpent ==
    \A d \in Device : \A r \in active[d], s \in revoked[d] :
        r.authorized_at # s.authorized_at

(* No prompt while something can be resumed: when the broker asks the      *)
(* user, the responder holds neither an active nor a pending record of     *)
(* this peer, though both were read before the handshake.                  *)
PromptOnlyWithoutState ==
    res.pc = "authorizing" => active[Higher] = {} /\ pending[Higher] = {}

(* A pending record is given up only for an active one: persist_active     *)
(* makes the active record durable before it removes what could still      *)
(* recover the pairing, also when it crashes in between.                   *)
PendingOutlivedByActive ==
    [][\A d \in Device : pending[d] \subseteq pending'[d]
                           \/ active'[d] \cup revoked'[d] # {}]_vars

(* Seen from outside, pairing is bilateral trust: the fully signed records *)
(* on disk are the agreements, the directories say who acts on them.       *)
Agreed == {r.pid : r \in {x \in UNION {pending[d] \cup active[d] \cup revoked[d] :
                                         d \in Device} : IsComplete(x)}}
Trust == INSTANCE BilateralTrust
    WITH Initiator <- Lower, Responder <- Higher, agreed <- Agreed,
         trusted <- [d \in Device |-> Pids(active[d])],
         revoked <- [d \in Device |-> Pids(revoked[d])]

(* Every step of the protocol, its crashes and its lost messages included, *)
(* is a step of BilateralTrust or invisible to it. *)
ImplementsBilateralTrust == Trust!TrustSpec

(* Both devices end up trusting each other, however the first attempts     *)
(* were interrupted: pending state resumes the pairing.                    *)
Settled == \A d \in Device : active[d] # {}
EventuallyPaired == <>[]Settled

(* Recovery is not retriggered for ever: whatever a crash left pending on  *)
(* the initiator is finally cleaned up (trust.rs:613-615).                 *)
RecoveryEnds == <>[](pending[Lower] = {})

=============================================================================
