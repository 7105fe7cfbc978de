------------------------- MODULE Installation_proof -------------------------
(***************************************************************************)
(* Proofs about Installation, for any number of processes, keys, peers,    *)
(* capabilities and calls, and however often processes are killed or power *)
(* is lost.                                                                *)
(***************************************************************************)
EXTENDS Installation, FiniteSetTheorems, TLAPS

(* The optional values. *)
Small(S) == \A x, y \in S : x = y

(* What is held is possible; identities and calls are optional values. *)
IdentityShape ==
    /\ identity.held \in identity.possible
    /\ \A v \in identity.possible : Small(v)
    /\ identity.held = {} => identity.possible = {{}}
GrantsShape == \A d \in Peers : grants[d].held \in grants[d].possible
ProcessShape == \A p \in Processes : Small(key[p]) /\ Small(call[p])

TypeInv == TypeOK /\ IdentityShape /\ GrantsShape /\ ProcessShape

-----------------------------------------------------------------------------
(* Renames, fsyncs and power losses keep files files. *)
LEMMA FileType ==
    ASSUME NEW Content, NEW f \in File(Content)
    PROVE  /\ f.held \in Content /\ f.possible \subseteq Content
           /\ Synced(f) \in File(Content)
           /\ Synced(f).held = f.held
           /\ Synced(f).possible = {f.held}
BY DEF File, Synced

LEMMA RenamedType ==
    ASSUME NEW Content, NEW f \in File(Content), NEW v \in Content
    PROVE  /\ Renamed(f, v) \in File(Content)
           /\ Renamed(f, v).held = v
           /\ Renamed(f, v).possible = f.possible \cup {v}
BY DEF File, Renamed

LEMMA RestoredType ==
    ASSUME NEW Content, NEW f \in File(Content), NEW g \in Restored(f)
    PROVE  g \in File(Content) /\ g.held \in f.possible /\ g.possible = {g.held}
BY DEF File, Restored

(* The extended grants of a call are grants. *)
LEMMA CallType ==
    ASSUME NEW a \in Call
    PROVE  /\ a.peer \in Peers /\ a.capability \in Capabilities
           /\ a.loaded \subseteq Capabilities /\ Extended(a) \in SUBSET Capabilities
           /\ \A S \in SUBSET Capabilities :
                 /\ [a EXCEPT !.loaded = S] \in Call
                 /\ [a EXCEPT !.loaded = S].loaded = S
                 /\ [a EXCEPT !.loaded = S].peer = a.peer
                 /\ [a EXCEPT !.loaded = S].capability = a.capability
BY DEF Call, Extended

(* The steps of a call, with the one call they are about. *)
LEMMA CallOf ==
    ASSUME TypeInv, NEW p \in Processes, NEW a \in call[p]
    PROVE  /\ call[p] = {a} /\ a \in Call
           /\ grants[a.peer] \in File(SUBSET Capabilities)
<1>1. a \in Call
  BY DEF TypeInv, TypeOK, ProcessesOK
<1>2. a.peer \in Peers
  BY <1>1, CallType
<1> QED
  <2>1. call[p] = {a}
    BY DEF TypeInv, ProcessShape, Small
  <2>2. grants[a.peer] \in File(SUBSET Capabilities)
    BY <1>2 DEF TypeInv, TypeOK, FilesOK
  <2> QED
    BY <1>1, <2>1, <2>2

LEMMA TypeInit == Init => TypeInv
<1> SUFFICES ASSUME Init PROVE TypeInv
  OBVIOUS
<1>1. FilesOK /\ IdentityShape /\ GrantsShape
  BY DEF Init, FilesOK, IdentityShape, GrantsShape, NoFile, File, Small
<1>2. ProcessesOK /\ ProcessShape
  BY CallsAssumption DEF Init, ProcessesOK, ProcessShape, Calling, Small
<1>3. HistoryOK
  BY DEF Init, HistoryOK
<1> QED
  BY <1>1, <1>2, <1>3 DEF TypeInv, TypeOK

(* The files. *)
LEMMA FilesStep ==
    TypeInv /\ [Next]_vars => FilesOK' /\ IdentityShape' /\ GrantsShape'
<1> DEFINE Goal == FilesOK /\ IdentityShape /\ GrantsShape
<1> SUFFICES ASSUME TypeInv, [Next]_vars PROVE Goal'
  OBVIOUS
<1>0. Goal
  BY DEF TypeInv, TypeOK
<1>1. ASSUME NEW p \in Processes, CreateRenames(p) PROVE Goal'
  <2>1. key[p] \in SUBSET Keys /\ key[p] # {} /\ Small(key[p])
    BY <1>1 DEF CreateRenames, Moves, TypeInv, TypeOK, ProcessesOK, ProcessShape
  <2>2. /\ identity' \in File(SUBSET Keys) /\ identity'.held = key[p]
        /\ identity'.possible = identity.possible \cup {key[p]}
    <3>1. identity \in File(SUBSET Keys) /\ identity' = Renamed(identity, key[p])
      BY <1>0, <1>1 DEF CreateRenames, FilesOK
    <3> QED
      BY <2>1, <3>1, RenamedType
  <2>3. IdentityShape'
    BY <1>0, <2>1, <2>2 DEF IdentityShape
  <2> QED
    BY <1>0, <1>1, <2>2, <2>3 DEF CreateRenames, FilesOK, GrantsShape
<1>2. ASSUME NEW p \in Processes, CreateReturns(p) PROVE Goal'
  <2>1. /\ identity' \in File(SUBSET Keys) /\ identity'.held = identity.held
        /\ identity'.possible = {identity.held}
    BY <1>0, <1>2, FileType DEF CreateReturns, FilesOK
  <2>2. IdentityShape'
    BY <1>0, <2>1 DEF IdentityShape
  <2> QED
    BY <1>0, <1>2, <2>1, <2>2 DEF CreateReturns, FilesOK, GrantsShape
<1>3. ASSUME NEW p \in Processes, NEW d \in Peers, Pair(p, d) PROVE Goal'
  <2>1. key[p] \X {d} \subseteq Keys \X Peers
    BY DEF TypeInv, TypeOK, ProcessesOK
  <2> QED
    BY <1>0, <1>3, <2>1 DEF Pair, files, FilesOK, IdentityShape, GrantsShape
<1>4. ASSUME NEW p \in Processes, GrantRenames(p) PROVE Goal'
  <2>1. PICK a \in call[p] :
          /\ grants' = [grants EXCEPT ![a.peer] = Renamed(@, Extended(a))]
          /\ UNCHANGED <<identity, paired, certificate>>
    BY <1>4 DEF GrantRenames
  <2>2. /\ Renamed(grants[a.peer], Extended(a)) \in File(SUBSET Capabilities)
        /\ Renamed(grants[a.peer], Extended(a)).held
             \in Renamed(grants[a.peer], Extended(a)).possible
    <3>1. a \in Call /\ grants[a.peer] \in File(SUBSET Capabilities)
      BY CallOf
    <3>2. Extended(a) \in SUBSET Capabilities
      BY <3>1, CallType
    <3> QED
      BY <3>1, <3>2, RenamedType
  <2> QED
    BY <1>0, <2>1, <2>2 DEF FilesOK, IdentityShape, GrantsShape
<1>5. ASSUME NEW p \in Processes, GrantReturns(p) PROVE Goal'
  <2>1. PICK a \in call[p] :
          /\ grants' = [grants EXCEPT ![a.peer] = Synced(@)]
          /\ UNCHANGED <<identity, paired, certificate>>
    BY <1>5 DEF GrantReturns
  <2>2. /\ Synced(grants[a.peer]) \in File(SUBSET Capabilities)
        /\ Synced(grants[a.peer]).held \in Synced(grants[a.peer]).possible
    <3>1. grants[a.peer] \in File(SUBSET Capabilities)
      BY CallOf
    <3> QED
      BY <3>1, FileType
  <2> QED
    BY <1>0, <2>1, <2>2 DEF FilesOK, IdentityShape, GrantsShape
<1>6. ASSUME NEW k \in reported, Provision(k) PROVE Goal'
  BY <1>0, <1>6
  DEF Provision, files, FilesOK, IdentityShape, GrantsShape, TypeInv, TypeOK, HistoryOK
<1>7. ASSUME NEW b \in paired, Revoke(b) PROVE Goal'
  BY <1>0, <1>7 DEF Revoke, files, FilesOK, IdentityShape, GrantsShape
<1>8. CASE PowerLoss
  <2>1. /\ identity' \in File(SUBSET Keys) /\ identity'.held \in identity.possible
        /\ identity'.possible = {identity'.held}
    <3>1. identity \in File(SUBSET Keys) /\ identity' \in Restored(identity)
      BY <1>0, <1>8 DEF PowerLoss, FilesOK
    <3> QED
      BY <3>1, RestoredType
  <2>2. \A d \in Peers : grants'[d] \in File(SUBSET Capabilities)
                         /\ grants'[d].held \in grants'[d].possible
    <3> SUFFICES ASSUME NEW d \in Peers
                 PROVE  /\ grants'[d] \in File(SUBSET Capabilities)
                        /\ grants'[d].held \in grants'[d].possible
      OBVIOUS
    <3>1. grants[d] \in File(SUBSET Capabilities) /\ grants'[d] \in Restored(grants[d])
      BY <1>0, <1>8 DEF PowerLoss, FilesOK
    <3> QED
      BY <3>1, RestoredType
  <2>3. grants' \in [Peers -> File(SUBSET Capabilities)]
    BY <1>8, <2>2 DEF PowerLoss
  <2>4. IdentityShape'
    BY <1>0, <2>1 DEF IdentityShape
  <2> QED
    BY <1>0, <1>8, <2>1, <2>2, <2>3, <2>4 DEF PowerLoss, FilesOK, GrantsShape
<1>9. CASE UNCHANGED <<files, paired, certificate>>
  BY <1>0, <1>9 DEF files, FilesOK, IdentityShape, GrantsShape
<1>10. ASSUME NEW p \in Processes,
              \/ Start(p) \/ Enroll(p) \/ Announce(p) \/ Kill(p)
              \/ \E d \in Peers, c \in Capabilities : GrantCheck(p, d, c)
              \/ GrantLoad(p) \/ GrantFails(p)
       PROVE  UNCHANGED <<files, paired, certificate>>
  BY <1>10 DEF Start, Enroll, Announce, Kill, GrantCheck, GrantLoad, GrantFails
<1> HIDE DEF Goal
<1> QED
  BY <1>1, <1>2, <1>3, <1>4, <1>5, <1>6, <1>7, <1>8, <1>9, <1>10
  DEF Next, IdentityStep, GrantStep, vars

(* What ends a process, or moves it, keeps the processes typed. *)
LEMMA EndsType ==
    ASSUME ProcessesOK, ProcessShape, NEW p \in Processes, Ends(p), UNCHANGED calls
    PROVE  ProcessesOK' /\ ProcessShape'
BY DEF ProcessesOK, ProcessShape, Ends, Calling, Small

LEMMA MovesType ==
    ASSUME ProcessesOK, ProcessShape, NEW p \in Processes,
           NEW K \in SUBSET Keys, K # {}, Small(K), key' = [key EXCEPT ![p] = K],
           NEW B \in SUBSET Call, Small(B), call' = [call EXCEPT ![p] = B],
           NEW to \in {"creating", "syncing", "identified", "running"} \cup Calling,
           B = {} <=> to \notin Calling,
           pc' = [pc EXCEPT ![p] = to], calls' \in 0..MaxCalls
    PROVE  ProcessesOK' /\ ProcessShape'
<1>1. pc' \in [Processes -> {"off", "creating", "syncing", "identified", "running"}
                              \cup Calling]
  BY DEF ProcessesOK
<1>2. key' \in [Processes -> SUBSET Keys] /\ call' \in [Processes -> SUBSET Call]
  BY DEF ProcessesOK
<1>3. \A q \in Processes : /\ key'[q] = {} <=> pc'[q] = "off"
                           /\ call'[q] = {} <=> pc'[q] \notin Calling
  BY DEF ProcessesOK, Calling
<1>4. ProcessShape'
  BY DEF ProcessesOK, ProcessShape
<1> QED
  BY <1>1, <1>2, <1>3, <1>4 DEF ProcessesOK

LEMMA ProcessStep == TypeInv /\ [Next]_vars => ProcessesOK' /\ ProcessShape'
<1> DEFINE Goal == ProcessesOK /\ ProcessShape
<1> SUFFICES ASSUME TypeInv, [Next]_vars PROVE Goal'
  OBVIOUS
<1>0. Goal /\ calls \in 0..MaxCalls
  BY DEF TypeInv, TypeOK, ProcessesOK
<1>a. \A p \in Processes :
        /\ key[p] \in SUBSET Keys /\ Small(key[p])
        /\ key = [key EXCEPT ![p] = key[p]]
        /\ call[p] \in SUBSET Call /\ Small(call[p])
        /\ call = [call EXCEPT ![p] = call[p]]
        /\ key[p] = {} <=> pc[p] = "off"
        /\ call[p] = {} <=> pc[p] \notin Calling
  BY <1>0 DEF ProcessesOK, ProcessShape
<1>1. ASSUME NEW p \in Processes, Start(p) PROVE Goal'
  <2>1. call[p] = {} /\ pc[p] = "off"
    BY <1>1, <1>a DEF Start, Moves, Calling
  <2>2. CASE identity.held # {}
    <3>1. identity.held \in SUBSET Keys /\ Small(identity.held)
      BY FileType DEF TypeInv, TypeOK, FilesOK, IdentityShape
    <3>2. /\ pc' = [pc EXCEPT ![p] = "identified"] /\ UNCHANGED <<call, calls>>
          /\ key' = [key EXCEPT ![p] = identity.held]
      BY <1>1, <2>2 DEF Start, Moves
    <3> QED
      BY <1>0, <1>a, <2>1, <2>2, <3>1, <3>2, MovesType DEF Calling
  <2>3. CASE identity.held = {}
    <3>1. PICK k \in Keys : key' = [key EXCEPT ![p] = {k}]
      BY <1>1, <2>3 DEF Start, FreshKeys
    <3>2. pc' = [pc EXCEPT ![p] = "creating"] /\ UNCHANGED <<call, calls>>
      BY <1>1, <2>3 DEF Start, Moves
    <3>3. {k} \in SUBSET Keys /\ Small({k})
      BY DEF Small
    <3> QED
      BY <1>0, <1>a, <2>1, <3>1, <3>2, <3>3, MovesType DEF Calling
  <2> QED
    BY <2>2, <2>3
<1>2. ASSUME NEW p \in Processes, CreateRenames(p) \/ CreateReturns(p) PROVE Goal'
  <2>1. /\ pc[p] \in {"creating", "syncing"} /\ UNCHANGED <<key, call, calls>>
        /\ \E to \in {"syncing", "identified"} : pc' = [pc EXCEPT ![p] = to]
    BY <1>2 DEF CreateRenames, CreateReturns, Moves
  <2> QED
    BY <1>0, <1>a, <2>1, MovesType DEF Calling
<1>3. ASSUME NEW p \in Processes, Enroll(p) PROVE Goal'
  <2>1. CASE Ends(p)
    BY <1>0, <1>3, <2>1, EndsType DEF Enroll
  <2>2. CASE Moves(p, "identified", "running") /\ UNCHANGED <<key, call>>
    BY <1>0, <1>a, <1>3, <2>2, MovesType DEF Enroll, Moves, Calling
  <2> QED
    BY <1>3, <2>1, <2>2 DEF Enroll
<1>4. ASSUME NEW p \in Processes, Announce(p) PROVE Goal'
  <2>1. CASE Ends(p)
    BY <1>0, <1>4, <2>1, EndsType DEF Announce
  <2>2. CASE UNCHANGED <<processes, calls>>
    BY <1>0, <2>2 DEF processes, ProcessesOK, ProcessShape
  <2> QED
    BY <1>4, <2>1, <2>2 DEF Announce
<1>5. ASSUME NEW p \in Processes, NEW d \in Peers, NEW c \in Capabilities,
             GrantCheck(p, d, c)
      PROVE  Goal'
  <2> DEFINE b == [peer |-> d, capability |-> c, loaded |-> {}]
  <2>1. {b} \in SUBSET Call /\ Small({b}) /\ {b} # {}
    BY DEF Call, Small
  <2>2. /\ pc[p] = "running" /\ pc' = [pc EXCEPT ![p] = "checked"]
        /\ call' = [call EXCEPT ![p] = {b}] /\ UNCHANGED key
    BY <1>5 DEF GrantCheck, Moves
  <2>3. calls' \in 0..MaxCalls
    BY <1>0, <1>5, CallsAssumption DEF GrantCheck
  <2> HIDE DEF b
  <2> QED
    BY <1>0, <1>a, <2>1, <2>2, <2>3, MovesType DEF Calling
<1>6. ASSUME NEW p \in Processes, GrantLoad(p) PROVE Goal'
  <2>1. PICK a \in call[p] :
          /\ pc[p] = "checked" /\ pc' = [pc EXCEPT ![p] = "writing"]
          /\ call' = [call EXCEPT ![p] = {[a EXCEPT !.loaded = grants[a.peer].held]}]
          /\ UNCHANGED <<calls, key>>
    BY <1>6 DEF GrantLoad, Moves
  <2> DEFINE b == [a EXCEPT !.loaded = grants[a.peer].held]
  <2>2. b \in Call
    <3>1. a \in Call /\ grants[a.peer] \in File(SUBSET Capabilities)
      BY CallOf
    <3>2. grants[a.peer].held \in SUBSET Capabilities
      BY <3>1, FileType
    <3> QED
      BY <3>1, <3>2, CallType
  <2>3. {b} \in SUBSET Call /\ Small({b}) /\ {b} # {}
    BY <2>2 DEF Small
  <2> HIDE DEF b
  <2> QED
    BY <1>0, <1>a, <2>1, <2>3, MovesType DEF Calling, b
<1>7. ASSUME NEW p \in Processes, GrantRenames(p) PROVE Goal'
  <2>1. /\ pc[p] = "writing" /\ pc' = [pc EXCEPT ![p] = "persisting"]
        /\ UNCHANGED <<key, call, calls>>
    BY <1>7 DEF GrantRenames, Moves
  <2> QED
    BY <1>0, <1>a, <2>1, MovesType DEF Calling
<1>8. ASSUME NEW p \in Processes, GrantReturns(p) \/ GrantFails(p) PROVE Goal'
  <2>1. /\ pc[p] \in Calling /\ pc' = [pc EXCEPT ![p] = "running"]
        /\ call' = [call EXCEPT ![p] = {}] /\ UNCHANGED <<key, calls>>
    BY <1>8 DEF GrantReturns, GrantFails, Moves, Calling
  <2>2. {} \in SUBSET Call /\ Small({})
    BY DEF Small
  <2> QED
    BY <1>0, <1>a, <2>1, <2>2, MovesType DEF Calling
<1>9. ASSUME NEW p \in Processes, Kill(p) PROVE Goal'
  BY <1>0, <1>9, EndsType DEF Kill
<1>10. CASE PowerLoss
  BY <1>0, <1>10 DEF PowerLoss, ProcessesOK, ProcessShape, Calling, Small
<1>11. CASE UNCHANGED <<processes, calls>>
  BY <1>0, <1>11 DEF processes, ProcessesOK, ProcessShape
<1>12. ASSUME \/ \E p \in Processes, d \in Peers : Pair(p, d)
              \/ \E k \in reported : Provision(k)
              \/ \E b \in paired : Revoke(b)
       PROVE  UNCHANGED <<processes, calls>>
  BY <1>12 DEF Pair, Provision, Revoke
<1> HIDE DEF Goal
<1> QED
  BY <1>1, <1>2, <1>3, <1>4, <1>5, <1>6, <1>7, <1>8, <1>9, <1>10, <1>11, <1>12
  DEF Next, IdentityStep, GrantStep, vars

LEMMA HistoryStep == TypeInv /\ [Next]_vars => HistoryOK'
<1> SUFFICES ASSUME TypeInv, [Next]_vars PROVE HistoryOK'
  OBVIOUS
<1>0. HistoryOK
  BY DEF TypeInv, TypeOK
<1>1. \A p \in Processes : key[p] \subseteq Keys /\ call[p] \subseteq Call
  BY DEF TypeInv, TypeOK, ProcessesOK
<1>2. ASSUME NEW p \in Processes, Start(p) PROVE HistoryOK'
  <2>1. identity.held \in SUBSET Keys
    <3>1. identity \in File(SUBSET Keys)
      BY DEF TypeInv, TypeOK, FilesOK
    <3> QED
      BY <3>1, FileType
  <2> QED
    BY <1>0, <1>2, <2>1 DEF Start, HistoryOK
<1>3. ASSUME NEW p \in Processes, CreateReturns(p) PROVE HistoryOK'
  BY <1>0, <1>1, <1>3 DEF CreateReturns, HistoryOK
<1>4. ASSUME NEW p \in Processes, Announce(p) PROVE HistoryOK'
  BY <1>0, <1>1, <1>4 DEF Announce, HistoryOK
<1>5. ASSUME NEW p \in Processes, NEW d \in Peers, NEW c \in Capabilities,
             GrantCheck(p, d, c)
      PROVE  HistoryOK'
  BY <1>0, <1>5 DEF GrantCheck, HistoryOK
<1>6. ASSUME NEW p \in Processes, GrantLoad(p) PROVE HistoryOK'
  <2>1. PICK a \in call[p] :
          /\ contended' = contended \cup {d \in {a.peer} : OthersWriting(p, d)}
          /\ UNCHANGED <<reported, hasty, outage, announced, retired, warranted, acknowledged>>
    BY <1>6 DEF GrantLoad
  <2>2. a.peer \in Peers
    BY <1>1, CallType
  <2> QED
    BY <1>0, <2>1, <2>2 DEF HistoryOK
<1>7. ASSUME NEW p \in Processes, GrantReturns(p) PROVE HistoryOK'
  <2>1. PICK a \in call[p] :
          /\ acknowledged' = acknowledged \cup {<<a.peer, a.capability>>}
          /\ UNCHANGED <<reported, hasty, outage, announced, retired, warranted, contended>>
    BY <1>7 DEF GrantReturns
  <2>2. a.peer \in Peers /\ a.capability \in Capabilities
    BY <1>1, CallType
  <2> QED
    BY <1>0, <2>1, <2>2 DEF HistoryOK
<1>8. CASE PowerLoss
  BY <1>0, <1>8 DEF PowerLoss, HistoryOK
<1>9. CASE UNCHANGED history
  BY <1>0, <1>9 DEF history, HistoryOK
<1>10. ASSUME NEW p \in Processes,
              \/ CreateRenames(p) \/ Enroll(p) \/ Kill(p)
              \/ \E d \in Peers : Pair(p, d)
              \/ GrantRenames(p) \/ GrantFails(p)
       PROVE  UNCHANGED history
  BY <1>10 DEF CreateRenames, Enroll, Kill, Pair, GrantRenames, GrantFails
<1>11. ASSUME (\E k \in reported : Provision(k)) \/ (\E b \in paired : Revoke(b))
       PROVE  UNCHANGED history
  BY <1>11 DEF Provision, Revoke
<1> QED
  BY <1>2, <1>3, <1>4, <1>5, <1>6, <1>7, <1>8, <1>9, <1>10, <1>11
  DEF Next, IdentityStep, GrantStep, vars

LEMMA TypeStep == TypeInv /\ [Next]_vars => TypeInv'
BY FilesStep, ProcessStep, HistoryStep DEF TypeInv, TypeOK

LEMMA TypeInvariant == Spec => []TypeInv
BY TypeInit, TypeStep, PTL DEF Spec

(* Every variable stays in its type, and a process has an identity exactly *)
(* while it runs, and a call exactly while it is in grant_capability.      *)
THEOREM TypeCorrect == Spec => []TypeOK
<1>1. TypeInv => TypeOK
  BY DEF TypeInv
<1> QED
  BY <1>1, TypeInvariant, PTL

-----------------------------------------------------------------------------
(* The identity.  Unless a start was hasty, there is one creator at most;  *)
(* before it returns nobody has been told an identity, and from then on    *)
(* what was reported is all that the file can hold. *)
Creator(p) == pc[p] \in {"creating", "syncing"}

OneCreator == \A p, q \in Processes : Creator(p) /\ Creator(q) => p = q

CreatorAlone ==
    \A p \in Processes :
        /\ Creator(p) => reported = {}
        /\ pc[p] = "creating" => identity.held = {}
        /\ pc[p] = "syncing" => identity.held = key[p] /\ {} \in identity.possible

ReportedIsDurable == reported # {} => identity.possible = {reported}

IdentityInv == ~hasty => OneCreator /\ CreatorAlone /\ ReportedIsDurable

LEMMA IdentityInit == Init => IdentityInv
BY DEF Init, IdentityInv, OneCreator, CreatorAlone, ReportedIsDurable, Creator

LEMMA IdentityStepInv == TypeInv /\ IdentityInv /\ [Next]_vars => IdentityInv'
<1> DEFINE Goal == OneCreator /\ CreatorAlone /\ ReportedIsDurable
<1> SUFFICES ASSUME TypeInv, IdentityInv, [Next]_vars, ~hasty' PROVE Goal'
  BY DEF IdentityInv
<1>0. /\ identity \in File(SUBSET Keys) /\ IdentityShape
      /\ pc \in [Processes -> {"off", "creating", "syncing", "identified", "running"}
                              \cup Calling]
      /\ key \in [Processes -> SUBSET Keys]
      /\ \A p \in Processes : key[p] = {} <=> pc[p] = "off"
      /\ hasty \in BOOLEAN
  BY DEF TypeInv, TypeOK, FilesOK, ProcessesOK, HistoryOK
<1>1. ASSUME NEW p \in Processes, Start(p) PROVE Goal'
  <2>1. CASE identity.held # {}
    <3>1. /\ pc[p] = "off" /\ pc' = [pc EXCEPT ![p] = "identified"]
          /\ key' = [key EXCEPT ![p] = identity.held]
          /\ reported' = reported \cup identity.held /\ UNCHANGED identity
          /\ ~hasty /\ identity.possible = {identity.held}
      BY <1>0, <1>1, <2>1 DEF Start, Moves, Durable, files
    <3>2. \A q \in Processes : ~Creator(q)
      BY <2>1, <3>1 DEF IdentityInv, CreatorAlone, Creator
    <3>3. reported' = identity.held
      BY <3>1 DEF IdentityInv, ReportedIsDurable
    <3> QED
      BY <1>0, <3>1, <3>2, <3>3 DEF OneCreator, CreatorAlone, ReportedIsDurable, Creator
  <2>2. CASE identity.held = {}
    <3>1. /\ pc[p] = "off" /\ pc' = [pc EXCEPT ![p] = "creating"]
          /\ UNCHANGED <<identity, reported>>
          /\ ~hasty /\ \A q \in Processes : pc[q] # "creating"
          /\ \E k \in Keys : key' = [key EXCEPT ![p] = {k}]
      BY <1>0, <1>1, <2>2 DEF Start, Moves, FreshKeys, files
    <3>2. \A q \in Processes : ~Creator(q)
      BY <1>0, <2>2, <3>1 DEF IdentityInv, CreatorAlone, Creator
    <3>3. reported = {}
      BY <1>0, <2>2, <3>1 DEF IdentityInv, ReportedIsDurable, IdentityShape
    <3> QED
      BY <1>0, <2>2, <3>1, <3>2, <3>3
      DEF OneCreator, CreatorAlone, ReportedIsDurable, Creator
  <2> QED
    BY <2>1, <2>2
<1>2. ASSUME NEW p \in Processes, CreateRenames(p) PROVE Goal'
  <2>1. /\ pc[p] = "creating" /\ pc' = [pc EXCEPT ![p] = "syncing"] /\ ~hasty
        /\ identity' = Renamed(identity, key[p]) /\ UNCHANGED <<key, reported>>
    BY <1>2 DEF CreateRenames, Moves, history
  <2>2. key[p] \in SUBSET Keys
    BY <1>0
  <2>3. /\ identity'.held = key[p]
        /\ identity'.possible = identity.possible \cup {key[p]}
    BY <1>0, <2>1, <2>2, RenamedType
  <2>4. identity.held = {} /\ identity.possible = {{}} /\ reported = {}
    BY <1>0, <2>1 DEF IdentityInv, CreatorAlone, Creator, IdentityShape
  <2>5. \A q \in Processes : Creator(q) => q = p
    BY <2>1 DEF IdentityInv, OneCreator, Creator
  <2> QED
    BY <1>0, <2>1, <2>3, <2>4, <2>5
    DEF OneCreator, CreatorAlone, ReportedIsDurable, Creator
<1>3. ASSUME NEW p \in Processes, CreateReturns(p) PROVE Goal'
  <2>1. /\ pc[p] = "syncing" /\ pc' = [pc EXCEPT ![p] = "identified"] /\ ~hasty
        /\ identity' = Synced(identity) /\ UNCHANGED key
        /\ reported' = reported \cup key[p]
    BY <1>3 DEF CreateReturns, Moves
  <2>2. identity'.held = identity.held /\ identity'.possible = {identity.held}
    BY <1>0, <2>1, FileType
  <2>3. identity.held = key[p] /\ reported = {}
    BY <2>1 DEF IdentityInv, CreatorAlone, Creator
  <2>4. \A q \in Processes : Creator(q) => q = p
    BY <2>1 DEF IdentityInv, OneCreator, Creator
  <2> QED
    BY <1>0, <2>1, <2>2, <2>3, <2>4
    DEF OneCreator, CreatorAlone, ReportedIsDurable, Creator
<1>4. CASE PowerLoss
  <2>1. identity'.held \in identity.possible /\ identity'.possible = {identity'.held}
    <3>1. identity' \in Restored(identity)
      BY <1>4 DEF PowerLoss
    <3> QED
      BY <1>0, <3>1, RestoredType
  <2> QED
    BY <1>4, <2>1
    DEF PowerLoss, IdentityInv, OneCreator, CreatorAlone, ReportedIsDurable, Creator
<1>5. ASSUME UNCHANGED <<identity, reported, hasty>>,
             \A p \in Processes :
                Creator(p)' => pc'[p] = pc[p] /\ key'[p] = key[p]
      PROVE  Goal'
  BY <1>5
  DEF IdentityInv, OneCreator, CreatorAlone, ReportedIsDurable, Creator
<1>6. ASSUME NEW p \in Processes,
             \/ Enroll(p) \/ Announce(p) \/ Kill(p)
             \/ \E d \in Peers, c \in Capabilities : GrantCheck(p, d, c)
             \/ GrantLoad(p) \/ GrantRenames(p) \/ GrantReturns(p) \/ GrantFails(p)
      PROVE  Goal'
  <2>1. UNCHANGED <<identity, reported, hasty>>
    BY <1>6 DEF Enroll, Announce, Kill, GrantCheck, GrantLoad, GrantRenames,
       GrantReturns, GrantFails, files, history
  <2>2. \/ UNCHANGED <<pc, key>>
        \/ /\ \E to \in {"off", "running"} \cup Calling : pc' = [pc EXCEPT ![p] = to]
           /\ key' = key \/ key' = [key EXCEPT ![p] = {}]
    BY <1>6 DEF Enroll, Announce, Kill, GrantCheck, GrantLoad, GrantRenames,
       GrantReturns, GrantFails, Ends, Moves, processes, Calling
  <2>3. \A q \in Processes : Creator(q)' => pc'[q] = pc[q] /\ key'[q] = key[q]
    BY <1>0, <2>2 DEF Creator, Calling
  <2> QED
    BY <1>5, <2>1, <2>3
<1>7. ASSUME \/ \E p \in Processes, d \in Peers : Pair(p, d)
             \/ \E k \in reported : Provision(k)
             \/ \E b \in paired : Revoke(b)
             \/ UNCHANGED vars
      PROVE  Goal'
  <2>1. UNCHANGED <<identity, reported, hasty, pc, key>>
    BY <1>7 DEF Pair, Provision, Revoke, vars, files, processes, history
  <2> QED
    BY <1>5, <2>1
<1> HIDE DEF Goal
<1> QED
  <2>1. CASE \E p \in Processes : IdentityStep(p)
    BY <1>1, <1>2, <1>3, <1>6, <1>7, <2>1 DEF IdentityStep
  <2>2. CASE \E p \in Processes : GrantStep(p) \/ Kill(p)
    BY <1>6, <2>2 DEF GrantStep
  <2> QED
    BY <1>4, <1>7, <2>1, <2>2 DEF Next

(* An installation whose first start was not disturbed by another keeps    *)
(* the identity it has reported, through kills and power losses.           *)
THEOREM Permanent == Spec => []IdentityIsPermanent
<1>1. TypeInv /\ IdentityInv => IdentityIsPermanent
  <2> SUFFICES ASSUME TypeInv, IdentityInv, ~hasty
               PROVE  Cardinality(reported) <= 1 /\ reported \subseteq identity.held
    BY DEF IdentityIsPermanent
  <2>1. CASE reported = {}
    BY <2>1, FS_EmptySet
  <2>2. CASE reported # {}
    <3>1. identity.possible = {reported} /\ identity.held = reported /\ Small(reported)
      BY <2>2 DEF IdentityInv, ReportedIsDurable, TypeInv, IdentityShape
    <3>2. PICK k \in reported : reported = {k}
      BY <2>2, <3>1 DEF Small
    <3> QED
      <4>1. Cardinality(reported) = 1
        BY <3>2, FS_Singleton
      <4> QED
        BY <3>1, <4>1
  <2> QED
    BY <2>1, <2>2
<1>2. Spec => []IdentityInv
  BY TypeInvariant, IdentityInit, IdentityStepInv, PTL DEF Spec
<1> QED
  BY <1>1, <1>2, TypeInvariant, PTL

-----------------------------------------------------------------------------
(* Replaced identities.  The key of a process that is still creating is    *)
(* unknown to everyone else and to every file; whoever may announce has an *)
(* identity that was reported; what was retired is not held again. *)
KeyIsFresh ==
    \A p \in Processes : pc[p] = "creating" =>
        /\ \A k \in key[p] : k \notin reported /\ \A v \in identity.possible : k \notin v
        /\ \A q \in Processes \ {p} : \A k \in key[p] : k \notin key[q]

Told(p) == pc[p] \in {"identified", "running"} \cup Calling

ToldIsReported == \A p \in Processes : Told(p) => key[p] \subseteq reported

NoReturn ==
    /\ announced \subseteq reported /\ retired \subseteq reported
    /\ ~outage => identity.held \cap retired = {} /\ announced \cap retired = {}

RetiredInv == KeyIsFresh /\ ToldIsReported /\ NoReturn

LEMMA RetiredInit == Init => RetiredInv
BY DEF Init, RetiredInv, KeyIsFresh, ToldIsReported, NoReturn, Told, Calling

LEMMA RetiredStep == TypeInv /\ RetiredInv /\ [Next]_vars => RetiredInv'
<1> SUFFICES ASSUME TypeInv, RetiredInv, [Next]_vars PROVE RetiredInv'
  OBVIOUS
<1>0. /\ identity \in File(SUBSET Keys) /\ identity.held \in identity.possible
      /\ pc \in [Processes -> {"off", "creating", "syncing", "identified", "running"}
                              \cup Calling]
      /\ key \in [Processes -> SUBSET Keys]
      /\ \A p \in Processes : key[p] = {} <=> pc[p] = "off"
      /\ outage \in BOOLEAN
  BY DEF TypeInv, TypeOK, FilesOK, ProcessesOK, HistoryOK, IdentityShape
<1>1. ASSUME NEW p \in Processes, Start(p) PROVE RetiredInv'
  <2>1. CASE identity.held # {}
    <3>1. /\ pc[p] = "off" /\ pc' = [pc EXCEPT ![p] = "identified"]
          /\ key' = [key EXCEPT ![p] = identity.held]
          /\ reported' = reported \cup identity.held
          /\ UNCHANGED <<identity, announced, retired, outage>>
      BY <1>1, <2>1 DEF Start, Moves, files
    <3>2. KeyIsFresh'
      BY <1>0, <3>1 DEF RetiredInv, KeyIsFresh
    <3>3. ToldIsReported'
      BY <1>0, <3>1 DEF RetiredInv, ToldIsReported, Told
    <3>4. NoReturn'
      BY <3>1 DEF RetiredInv, NoReturn
    <3> QED
      BY <3>2, <3>3, <3>4 DEF RetiredInv
  <2>2. CASE identity.held = {}
    <3>1. /\ pc[p] = "off" /\ pc' = [pc EXCEPT ![p] = "creating"]
          /\ UNCHANGED <<identity, reported, announced, retired, outage>>
      BY <1>1, <2>2 DEF Start, Moves, files
    <3>2. PICK k \in FreshKeys : key' = [key EXCEPT ![p] = {k}]
      BY <1>1, <2>2 DEF Start
    <3>3. /\ k \notin reported /\ \A v \in identity.possible : k \notin v
          /\ \A q \in Processes : k \notin key[q]
      BY <3>2 DEF FreshKeys
    <3>4. KeyIsFresh'
      BY <1>0, <3>1, <3>2, <3>3 DEF RetiredInv, KeyIsFresh
    <3>5. ToldIsReported'
      BY <1>0, <3>1, <3>2 DEF RetiredInv, ToldIsReported, Told, Calling
    <3>6. NoReturn'
      BY <3>1 DEF RetiredInv, NoReturn
    <3> QED
      BY <3>4, <3>5, <3>6 DEF RetiredInv
  <2> QED
    BY <2>1, <2>2
<1>2. ASSUME NEW p \in Processes, CreateRenames(p) PROVE RetiredInv'
  <2>1. /\ pc[p] = "creating" /\ pc' = [pc EXCEPT ![p] = "syncing"]
        /\ identity' = Renamed(identity, key[p])
        /\ UNCHANGED <<key, reported, announced, retired, outage>>
    BY <1>2 DEF CreateRenames, Moves, history
  <2>2. identity'.held = key[p] /\ identity'.possible = identity.possible \cup {key[p]}
    <3>1. key[p] \in SUBSET Keys
      BY <1>0
    <3> QED
      BY <1>0, <2>1, <3>1, RenamedType
  <2>3. \A k \in key[p] : k \notin reported
    BY <2>1 DEF RetiredInv, KeyIsFresh
  <2>4. KeyIsFresh'
    BY <1>0, <2>1, <2>2 DEF RetiredInv, KeyIsFresh
  <2>5. ToldIsReported'
    BY <1>0, <2>1 DEF RetiredInv, ToldIsReported, Told, Calling
  <2>6. NoReturn'
    BY <2>1, <2>2, <2>3 DEF RetiredInv, NoReturn
  <2> QED
    BY <2>4, <2>5, <2>6 DEF RetiredInv
<1>3. ASSUME NEW p \in Processes, CreateReturns(p) PROVE RetiredInv'
  <2>1. /\ pc[p] = "syncing" /\ pc' = [pc EXCEPT ![p] = "identified"]
        /\ identity' = Synced(identity) /\ reported' = reported \cup key[p]
        /\ UNCHANGED <<key, announced, retired, outage>>
    BY <1>3 DEF CreateReturns, Moves
  <2>2. identity'.held = identity.held /\ identity'.possible = {identity.held}
    BY <1>0, <2>1, FileType
  <2>3. KeyIsFresh'
    BY <1>0, <2>1, <2>2 DEF RetiredInv, KeyIsFresh
  <2>4. ToldIsReported'
    BY <1>0, <2>1 DEF RetiredInv, ToldIsReported, Told
  <2>5. NoReturn'
    BY <2>1, <2>2 DEF RetiredInv, NoReturn
  <2> QED
    BY <2>3, <2>4, <2>5 DEF RetiredInv
<1>4. ASSUME UNCHANGED <<identity, reported>>,
             \A q \in Processes :
                /\ pc'[q] = "creating" => pc[q] = "creating"
                /\ Told(q)' /\ key'[q] # {} => Told(q)
                /\ key'[q] \in {key[q], {}}
      PROVE  KeyIsFresh' /\ ToldIsReported'
  <2>1. KeyIsFresh'
    BY <1>4 DEF RetiredInv, KeyIsFresh
  <2>2. ToldIsReported'
    BY <1>4 DEF RetiredInv, ToldIsReported
  <2> QED
    BY <2>1, <2>2
<1>5. ASSUME NEW p \in Processes, Announce(p) PROVE RetiredInv'
  <2>1. CASE Ends(p) /\ UNCHANGED <<announced, retired>>
    <3>1. KeyIsFresh' /\ ToldIsReported'
      BY <1>0, <1>4, <1>5, <2>1 DEF Announce, Ends, files, Told, Calling
    <3> QED
      BY <1>5, <2>1, <3>1 DEF Announce, files, RetiredInv, NoReturn
  <2>2. CASE /\ identity.held = key[p] /\ announced' = key[p]
             /\ retired' = retired \cup (announced \ key[p])
             /\ UNCHANGED processes
    <3>1. KeyIsFresh' /\ ToldIsReported'
      BY <1>4, <1>5, <2>2 DEF Announce, processes, files, Told
    <3>2. key[p] \subseteq reported
      BY <1>5 DEF Announce, RetiredInv, ToldIsReported, Told
    <3> QED
      BY <1>5, <2>2, <3>1, <3>2 DEF Announce, files, RetiredInv, NoReturn
  <2> QED
    BY <1>5, <2>1, <2>2 DEF Announce, RuntimeIdentity
<1>6. ASSUME NEW p \in Processes,
             \/ Enroll(p) \/ Kill(p)
             \/ \E d \in Peers, c \in Capabilities : GrantCheck(p, d, c)
             \/ GrantLoad(p) \/ GrantRenames(p) \/ GrantReturns(p) \/ GrantFails(p)
      PROVE  RetiredInv'
  <2>1. UNCHANGED <<identity, reported, announced, retired, outage>>
    BY <1>6 DEF Enroll, Kill, GrantCheck, GrantLoad, GrantRenames,
       GrantReturns, GrantFails, files, history
  <2>2. \/ /\ Told(p) /\ UNCHANGED key
           /\ \E to \in {"running"} \cup Calling : pc' = [pc EXCEPT ![p] = to]
        \/ pc' = [pc EXCEPT ![p] = "off"] /\ key' = [key EXCEPT ![p] = {}]
    BY <1>6 DEF Enroll, Kill, GrantCheck, GrantLoad, GrantRenames,
       GrantReturns, GrantFails, Ends, Moves, Told, Calling
  <2>3. \A q \in Processes : /\ pc'[q] = "creating" => pc[q] = "creating"
                             /\ Told(q)' /\ key'[q] # {} => Told(q)
                             /\ key'[q] \in {key[q], {}}
    BY <1>0, <2>2 DEF Told, Calling
  <2>4. KeyIsFresh' /\ ToldIsReported'
    BY <1>4, <2>1, <2>3
  <2> QED
    BY <2>1, <2>4 DEF RetiredInv, NoReturn
<1>7. ASSUME \/ \E p \in Processes, d \in Peers : Pair(p, d)
             \/ \E k \in reported : Provision(k)
             \/ \E b \in paired : Revoke(b)
             \/ UNCHANGED vars
      PROVE  RetiredInv'
  <2>1. UNCHANGED <<identity, reported, pc, key, announced, retired, outage>>
    BY <1>7 DEF Pair, Provision, Revoke, vars, files, processes, history
  <2>2. KeyIsFresh' /\ ToldIsReported'
    BY <1>4, <2>1 DEF Told
  <2> QED
    BY <2>1, <2>2 DEF RetiredInv, NoReturn
<1>8. CASE PowerLoss
  BY <1>8 DEF PowerLoss, RetiredInv, KeyIsFresh, ToldIsReported, NoReturn, Told, Calling
<1> QED
  <2>1. CASE \E p \in Processes : IdentityStep(p)
    BY <1>1, <1>2, <1>3, <1>5, <1>6, <1>7, <2>1 DEF IdentityStep
  <2>2. CASE \E p \in Processes : GrantStep(p) \/ Kill(p)
    BY <1>6, <2>2 DEF GrantStep
  <2> QED
    BY <1>7, <1>8, <2>1, <2>2 DEF Next

(* Until power is lost, an identity that was replaced on the network is    *)
(* not announced again, however many first starts have overlapped.         *)
THEOREM RetiredForGood == Spec => []RetiredStaysSilent
<1>1. RetiredInv => RetiredStaysSilent
  BY DEF RetiredInv, NoReturn, RetiredStaysSilent
<1>2. Spec => []RetiredInv
  BY TypeInvariant, RetiredInit, RetiredStep, PTL DEF Spec
<1> QED
  BY <1>1, <1>2, PTL

-----------------------------------------------------------------------------
(* The capability files: a grant whose call has returned stays on file,    *)
(* and none is there that was not asked for while the peer was paired.     *)

(* What each call has in hand. *)
Writing(p, d) == pc[p] = "writing" /\ \E a \in call[p] : a.peer = d

OneWriter(d) == \A p, q \in Processes : Writing(p, d) /\ Writing(q, d) => p = q

(* Whoever is about to write d's file will write c into it. *)
WillKeep(d, c) ==
    \A p \in Processes : pc[p] = "writing" =>
        \A a \in call[p] : a.peer = d => c \in a.loaded

AckedIsSafe(d) ==
    \A c : <<d, c>> \in acknowledged =>
        WillKeep(d, c) /\ \A v \in grants[d].possible : c \in v

RenamedIsKept(d) ==
    \A p \in Processes : pc[p] = "persisting" =>
        \A a \in call[p] : a.peer = d =>
            WillKeep(d, a.capability) /\ a.capability \in grants[d].held

KeptAt(d) == OneWriter(d) /\ AckedIsSafe(d) /\ RenamedIsKept(d)

GrantInv == \A d \in Peers : d \notin contended => KeptAt(d)

LEMMA GrantInit == Init => GrantInv
BY DEF Init, GrantInv, KeptAt, OneWriter, AckedIsSafe, RenamedIsKept, WillKeep, Writing

(* Calls that end disturb nothing. *)
LEMMA CallsEnd ==
    ASSUME NEW d \in Peers, KeptAt(d), UNCHANGED <<grants, acknowledged>>,
           \A q \in Processes :
              /\ pc'[q] \in {"writing", "persisting"} => pc'[q] = pc[q]
              /\ pc'[q] \in {"writing", "persisting"} => call'[q] = call[q]
    PROVE  KeptAt(d)'
<1>1. OneWriter(d)'
  BY DEF KeptAt, OneWriter, Writing
<1>2. \A c : WillKeep(d, c) => WillKeep(d, c)'
  BY DEF WillKeep
<1>3. AckedIsSafe(d)'
  BY <1>2 DEF KeptAt, AckedIsSafe
<1>4. RenamedIsKept(d)'
  BY <1>2 DEF KeptAt, RenamedIsKept
<1> QED
  BY <1>1, <1>3, <1>4 DEF KeptAt

LEMMA GrantInvStep == TypeInv /\ GrantInv /\ [Next]_vars => GrantInv'
<1> SUFFICES ASSUME TypeInv, GrantInv, [Next]_vars,
                    NEW d \in Peers, d \notin contended'
             PROVE  KeptAt(d)'
  BY DEF GrantInv
<1>0. /\ grants \in [Peers -> File(SUBSET Capabilities)]
      /\ grants[d].held \in grants[d].possible
      /\ pc \in [Processes -> {"off", "creating", "syncing", "identified", "running"}
                              \cup Calling]
      /\ call \in [Processes -> SUBSET Call]
      /\ \A p \in Processes : call[p] = {} <=> pc[p] \notin Calling
  BY DEF TypeInv, TypeOK, FilesOK, ProcessesOK, GrantsShape
<1>1. ASSUME NEW p \in Processes, GrantLoad(p) PROVE KeptAt(d)'
  <2>1. PICK a \in call[p] :
          /\ pc[p] = "checked" /\ pc' = [pc EXCEPT ![p] = "writing"]
          /\ call' = [call EXCEPT ![p] = {[a EXCEPT !.loaded = grants[a.peer].held]}]
          /\ contended' = contended \cup {e \in {a.peer} : OthersWriting(p, e)}
          /\ UNCHANGED <<grants, acknowledged>>
    BY <1>1 DEF GrantLoad, Moves, files
  <2> DEFINE b == [a EXCEPT !.loaded = grants[a.peer].held]
  <2>2. b \in Call /\ b.peer = a.peer /\ b.loaded = grants[a.peer].held
    <3>1. a \in Call /\ grants[a.peer] \in File(SUBSET Capabilities)
      BY CallOf
    <3>2. grants[a.peer].held \in SUBSET Capabilities
      BY <3>1, FileType
    <3> QED
      BY <3>1, <3>2, CallType
  <2>3. KeptAt(d)
    BY <2>1 DEF GrantInv
  <2>4. /\ pc'[p] = "writing" /\ call'[p] = {b}
        /\ \A q \in Processes \ {p} : pc'[q] = pc[q] /\ call'[q] = call[q]
    BY <1>0, <2>1
  <2> HIDE DEF b
  <2>5. a.peer = d => \A q \in Processes \ {p} : ~Writing(q, d)
    BY <2>1 DEF OthersWriting, Writing
  <2>6. OneWriter(d)'
    BY <2>2, <2>3, <2>4, <2>5 DEF KeptAt, OneWriter, Writing
  <2>7. \A c : WillKeep(d, c) /\ c \in grants[d].held => WillKeep(d, c)'
    BY <2>2, <2>4 DEF WillKeep
  <2>8. AckedIsSafe(d)'
    BY <1>0, <2>1, <2>3, <2>7 DEF KeptAt, AckedIsSafe
  <2>9. RenamedIsKept(d)'
    BY <2>1, <2>3, <2>4, <2>7 DEF KeptAt, RenamedIsKept
  <2> QED
    BY <2>6, <2>8, <2>9 DEF KeptAt
<1>2. ASSUME NEW p \in Processes, GrantRenames(p) PROVE KeptAt(d)'
  <2>1. PICK a \in call[p] :
          /\ pc[p] = "writing" /\ pc' = [pc EXCEPT ![p] = "persisting"]
          /\ grants' = [grants EXCEPT ![a.peer] = Renamed(@, Extended(a))]
          /\ UNCHANGED <<call, acknowledged, contended>>
    BY <1>2 DEF GrantRenames, Moves, history
  <2>2. call[p] = {a} /\ a \in Call /\ grants[a.peer] \in File(SUBSET Capabilities)
    BY CallOf
  <2>3. /\ Renamed(grants[a.peer], Extended(a)).held = Extended(a)
        /\ Renamed(grants[a.peer], Extended(a)).possible
             = grants[a.peer].possible \cup {Extended(a)}
    BY <2>2, CallType, RenamedType
  <2>4. KeptAt(d)
    BY <2>1 DEF GrantInv
  <2>5. /\ pc'[p] = "persisting"
        /\ \A q \in Processes \ {p} : pc'[q] = pc[q]
    BY <1>0, <2>1
  <2>6. OneWriter(d)'
    BY <2>1, <2>4, <2>5 DEF KeptAt, OneWriter, Writing
  <2>7. \A c : WillKeep(d, c) => WillKeep(d, c)'
    BY <2>1, <2>5 DEF WillKeep
  <2>8. CASE a.peer # d
    <3>1. grants'[d] = grants[d]
      BY <1>0, <2>1, <2>8
    <3>2. AckedIsSafe(d)'
      BY <2>1, <2>4, <2>7, <3>1 DEF KeptAt, AckedIsSafe
    <3>3. RenamedIsKept(d)'
      BY <2>1, <2>2, <2>4, <2>5, <2>7, <2>8, <3>1 DEF KeptAt, RenamedIsKept
    <3> QED
      BY <2>6, <3>2, <3>3 DEF KeptAt
  <2>9. CASE a.peer = d
    <3>1. /\ grants'[d].held = a.loaded \cup {a.capability}
          /\ grants'[d].possible = grants[d].possible \cup {a.loaded \cup {a.capability}}
      BY <1>0, <2>1, <2>3, <2>9 DEF Extended
    <3>2. \A c : WillKeep(d, c) => c \in a.loaded
      BY <2>1, <2>9 DEF WillKeep
    <3>3. \A q \in Processes : ~Writing(q, d)'
      BY <2>1, <2>4, <2>5, <2>9 DEF KeptAt, OneWriter, Writing
    <3>4. \A c : WillKeep(d, c)'
      BY <3>3 DEF WillKeep, Writing
    <3>5. AckedIsSafe(d)'
      BY <2>1, <2>4, <3>1, <3>2, <3>4 DEF KeptAt, AckedIsSafe
    <3>6. RenamedIsKept(d)'
      BY <2>1, <2>2, <2>4, <2>5, <3>1, <3>2, <3>4 DEF KeptAt, RenamedIsKept
    <3> QED
      BY <2>6, <3>5, <3>6 DEF KeptAt
  <2> QED
    BY <2>8, <2>9
<1>3. ASSUME NEW p \in Processes, GrantReturns(p) PROVE KeptAt(d)'
  <2>1. PICK a \in call[p] :
          /\ pc[p] = "persisting" /\ pc' = [pc EXCEPT ![p] = "running"]
          /\ grants' = [grants EXCEPT ![a.peer] = Synced(@)]
          /\ acknowledged' = acknowledged \cup {<<a.peer, a.capability>>}
          /\ call' = [call EXCEPT ![p] = {}]
          /\ UNCHANGED contended
    BY <1>3 DEF GrantReturns, Moves
  <2>2. grants[a.peer] \in File(SUBSET Capabilities) /\ a.peer \in Peers
    BY CallOf, CallType
  <2>3. /\ Synced(grants[a.peer]).held = grants[a.peer].held
        /\ Synced(grants[a.peer]).possible = {grants[a.peer].held}
    BY <2>2, FileType
  <2>4. KeptAt(d)
    BY <2>1 DEF GrantInv
  <2>5. /\ pc'[p] = "running" /\ call'[p] = {}
        /\ \A q \in Processes \ {p} : pc'[q] = pc[q] /\ call'[q] = call[q]
    BY <1>0, <2>1
  <2>6. /\ grants'[d].held = grants[d].held
        /\ \A v \in grants'[d].possible : v \in grants[d].possible
    BY <1>0, <2>1, <2>2, <2>3
  <2>7. OneWriter(d)'
    BY <2>4, <2>5 DEF KeptAt, OneWriter, Writing
  <2>8. \A c : WillKeep(d, c) => WillKeep(d, c)'
    BY <2>5 DEF WillKeep
  <2>9. AckedIsSafe(d)'
    <3>1. SUFFICES ASSUME NEW c, <<d, c>> \in acknowledged'
                   PROVE  WillKeep(d, c)' /\ \A v \in grants'[d].possible : c \in v
      BY DEF AckedIsSafe
    <3>2. CASE <<d, c>> \in acknowledged
      BY <2>4, <2>6, <2>8, <3>2 DEF KeptAt, AckedIsSafe
    <3>3. CASE d = a.peer /\ c = a.capability
      <4>1. WillKeep(d, c) /\ c \in grants[d].held
        BY <2>1, <2>4, <3>3 DEF KeptAt, RenamedIsKept
      <4>2. grants'[d].possible = {grants[d].held}
        BY <1>0, <2>1, <2>3, <3>3
      <4> QED
        BY <2>8, <4>1, <4>2
    <3> QED
      BY <2>1, <3>1, <3>2, <3>3
  <2>10. RenamedIsKept(d)'
    BY <2>4, <2>5, <2>6, <2>8 DEF KeptAt, RenamedIsKept
  <2> QED
    BY <2>7, <2>9, <2>10 DEF KeptAt
<1>4. CASE PowerLoss
  <2>1. grants'[d].held \in grants[d].possible /\ grants'[d].possible = {grants'[d].held}
    <3>1. grants[d] \in File(SUBSET Capabilities) /\ grants'[d] \in Restored(grants[d])
      BY <1>0, <1>4 DEF PowerLoss
    <3> QED
      BY <3>1, RestoredType
  <2>2. \A q \in Processes : pc'[q] = "off"
    BY <1>4 DEF PowerLoss
  <2>3. KeptAt(d) /\ UNCHANGED acknowledged
    BY <1>4 DEF PowerLoss, GrantInv
  <2>4. \A c : WillKeep(d, c)'
    BY <2>2 DEF WillKeep
  <2> QED
    BY <2>1, <2>2, <2>3, <2>4
    DEF KeptAt, OneWriter, AckedIsSafe, RenamedIsKept, Writing
<1>5. ASSUME NEW p \in Processes,
             \/ Start(p) \/ CreateRenames(p) \/ CreateReturns(p) \/ Enroll(p) \/ Announce(p)
             \/ \E e \in Peers : Pair(p, e)
             \/ \E e \in Peers, c \in Capabilities : GrantCheck(p, e, c)
             \/ GrantFails(p) \/ Kill(p)
      PROVE  KeptAt(d)'
  <2>1. UNCHANGED <<grants, acknowledged, contended>>
    BY <1>5 DEF Start, CreateRenames, CreateReturns, Enroll, Announce, Pair, GrantCheck,
       GrantFails, Kill, files, history
  <2>2. \/ UNCHANGED <<pc, call>>
        \/ \E to \in {"off", "creating", "syncing", "identified", "running", "checked"} :
              /\ pc' = [pc EXCEPT ![p] = to]
              /\ call' = call \/ \E S \in {{}} \cup {call'[p]} : call' = [call EXCEPT ![p] = S]
    BY <1>0, <1>5 DEF Start, CreateRenames, CreateReturns, Enroll, Announce, Pair, GrantCheck,
       GrantFails, Kill, Ends, Moves, processes
  <2>3. \A q \in Processes :
           /\ pc'[q] \in {"writing", "persisting"} => pc'[q] = pc[q]
           /\ pc'[q] \in {"writing", "persisting"} => call'[q] = call[q]
    BY <1>0, <2>2
  <2> QED
    BY <2>1, <2>3, CallsEnd DEF GrantInv
<1>6. ASSUME \/ \E k \in reported : Provision(k)
             \/ \E b \in paired : Revoke(b)
             \/ UNCHANGED vars
      PROVE  KeptAt(d)'
  <2>1. UNCHANGED <<grants, acknowledged, contended, pc, call>>
    BY <1>6 DEF Provision, Revoke, vars, files, processes, history
  <2> QED
    BY <2>1, CallsEnd DEF GrantInv
<1> QED
  <2>1. CASE \E p \in Processes : IdentityStep(p)
    BY <1>5, <2>1 DEF IdentityStep
  <2>2. CASE \E p \in Processes : GrantStep(p) \/ Kill(p)
    BY <1>1, <1>2, <1>3, <1>5, <2>2 DEF GrantStep
  <2> QED
    BY <1>4, <1>6, <2>1, <2>2 DEF Next

(* A grant that has been acknowledged stays on file, for any number of     *)
(* peers, processes, crashes and power losses, unless two grants to that   *)
(* peer overlapped.                                                        *)
THEOREM AcknowledgedIsKept == Spec => []GrantsAreKept
<1>1. TypeInv /\ GrantInv => GrantsAreKept
  <2> SUFFICES ASSUME TypeInv, GrantInv, NEW g \in acknowledged, g[1] \notin contended
               PROVE  g[2] \in grants[g[1]].held
    BY DEF GrantsAreKept
  <2>1. g = <<g[1], g[2]>> /\ g[1] \in Peers
    BY DEF TypeInv, TypeOK, HistoryOK
  <2> QED
    BY <2>1 DEF GrantInv, KeptAt, AckedIsSafe, TypeInv, GrantsShape
<1>2. Spec => []GrantInv
  BY TypeInvariant, GrantInit, GrantInvStep, PTL DEF Spec
<1> QED
  BY <1>1, <1>2, TypeInvariant, PTL

-----------------------------------------------------------------------------
(* What is on file, or in the hands of a call, was asked for while the     *)
(* peer was paired.                                                        *)
Warranted(d, S) == \A c \in S : <<d, c>> \in warranted

WarrantInv ==
    /\ \A d \in Peers : \A v \in grants[d].possible : Warranted(d, v)
    /\ \A p \in Processes : \A a \in call[p] : Warranted(a.peer, Extended(a))

LEMMA WarrantInit == Init => WarrantInv
BY DEF Init, WarrantInv, Warranted, NoFile

(* A step keeps it that forgets no warrant and whose files and calls are   *)
(* each old or warranted.                                                  *)
LEMMA WarrantKept ==
    ASSUME WarrantInv, warranted \subseteq warranted',
           \A d \in Peers : \A v \in grants'[d].possible :
              v \in grants[d].possible \/ Warranted(d, v)',
           \A p \in Processes : \A a \in call'[p] :
              a \in call[p] \/ Warranted(a.peer, Extended(a))'
    PROVE  WarrantInv'
BY DEF WarrantInv, Warranted, Extended

LEMMA WarrantStep == TypeInv /\ WarrantInv /\ [Next]_vars => WarrantInv'
<1> SUFFICES ASSUME TypeInv, WarrantInv, [Next]_vars PROVE WarrantInv'
  OBVIOUS
<1>0. /\ grants \in [Peers -> File(SUBSET Capabilities)]
      /\ \A d \in Peers : grants[d].held \in grants[d].possible
      /\ call \in [Processes -> SUBSET Call]
  BY DEF TypeInv, TypeOK, FilesOK, ProcessesOK, GrantsShape
<1>1. ASSUME NEW p \in Processes, NEW d \in Peers, NEW c \in Capabilities,
             GrantCheck(p, d, c)
      PROVE  WarrantInv'
  <2> DEFINE b == [peer |-> d, capability |-> c, loaded |-> {}]
  <2>1. b.peer = d /\ Extended(b) = {c}
    BY DEF Extended
  <2> HIDE DEF b
  <2>2. key[p] \X {d} \subseteq paired
    BY <1>1 DEF GrantCheck, HasActivePairing, TypeInv, ProcessShape, Small
  <2>3. warranted \subseteq warranted' /\ <<d, c>> \in warranted'
    BY <1>1, <2>2 DEF GrantCheck
  <2>4. Warranted(b.peer, Extended(b))'
    BY <2>1, <2>3 DEF Warranted, Extended
  <2>5. call' = [call EXCEPT ![p] = {b}] /\ grants' = grants
    BY <1>1 DEF GrantCheck, files, b
  <2> QED
    BY <1>0, <2>3, <2>4, <2>5, WarrantKept
<1>2. ASSUME NEW p \in Processes, GrantLoad(p) PROVE WarrantInv'
  <2>1. PICK a \in call[p] :
          /\ call' = [call EXCEPT ![p] = {[a EXCEPT !.loaded = grants[a.peer].held]}]
          /\ UNCHANGED <<grants, warranted>>
    BY <1>2 DEF GrantLoad, files
  <2>2. PICK b :
          /\ b.peer = a.peer /\ b.capability = a.capability
          /\ b.loaded = grants[a.peer].held
          /\ call' = [call EXCEPT ![p] = {b}]
    <3>1. a \in Call /\ grants[a.peer] \in File(SUBSET Capabilities)
      BY CallOf
    <3>2. grants[a.peer].held \in SUBSET Capabilities
      BY <3>1, FileType
    <3> QED
      BY <2>1, <3>1, <3>2, CallType
  <2>4. a.peer \in Peers
    BY CallOf, CallType
  <2>5. Warranted(b.peer, Extended(b))'
    BY <1>0, <2>1, <2>2, <2>4 DEF WarrantInv, Warranted, Extended
  <2> QED
    BY <1>0, <2>1, <2>2, <2>5, WarrantKept
<1>3. ASSUME NEW p \in Processes, GrantRenames(p) PROVE WarrantInv'
  <2>1. PICK a \in call[p] :
          /\ grants' = [grants EXCEPT ![a.peer] = Renamed(@, Extended(a))]
          /\ UNCHANGED <<call, warranted>>
    BY <1>3 DEF GrantRenames, history
  <2>2. a \in Call /\ grants[a.peer] \in File(SUBSET Capabilities)
    BY CallOf
  <2>3. Renamed(grants[a.peer], Extended(a)).possible
          = grants[a.peer].possible \cup {Extended(a)}
    BY <2>2, CallType, RenamedType
  <2>4. Warranted(a.peer, Extended(a))'
    BY <2>1 DEF WarrantInv, Warranted
  <2>5. \A d \in Peers : \A v \in grants'[d].possible :
           v \in grants[d].possible \/ Warranted(d, v)'
    BY <1>0, <2>1, <2>3, <2>4
  <2> QED
    BY <2>1, <2>5, WarrantKept
<1>4. ASSUME NEW p \in Processes, GrantReturns(p) PROVE WarrantInv'
  <2>1. PICK a \in call[p] :
          /\ grants' = [grants EXCEPT ![a.peer] = Synced(@)]
          /\ call' = [call EXCEPT ![p] = {}]
          /\ UNCHANGED warranted
    BY <1>4 DEF GrantReturns
  <2>2. grants[a.peer] \in File(SUBSET Capabilities) /\ a.peer \in Peers
    BY CallOf, CallType
  <2>3. Synced(grants[a.peer]).possible = {grants[a.peer].held}
    BY <2>2, FileType
  <2>4. \A d \in Peers : \A v \in grants'[d].possible : v \in grants[d].possible
    BY <1>0, <2>1, <2>2, <2>3
  <2>5. \A q \in Processes : \A b \in call'[q] : b \in call[q]
    BY <1>0, <2>1
  <2> QED
    BY <2>1, <2>4, <2>5, WarrantKept
<1>5. CASE PowerLoss
  <2>1. \A d \in Peers : \A v \in grants'[d].possible : v \in grants[d].possible
    <3> SUFFICES ASSUME NEW d \in Peers
                 PROVE  \A v \in grants'[d].possible : v \in grants[d].possible
      OBVIOUS
    <3>1. grants[d] \in File(SUBSET Capabilities) /\ grants'[d] \in Restored(grants[d])
      BY <1>0, <1>5 DEF PowerLoss
    <3> QED
      BY <3>1, RestoredType
  <2>2. \A q \in Processes : call'[q] = {}
    BY <1>5 DEF PowerLoss
  <2>3. warranted' = warranted
    BY <1>5 DEF PowerLoss
  <2> QED
    BY <2>1, <2>2, <2>3, WarrantKept
<1>6. ASSUME NEW p \in Processes,
             \/ Start(p) \/ CreateRenames(p) \/ CreateReturns(p) \/ Enroll(p) \/ Announce(p)
             \/ \E e \in Peers : Pair(p, e)
             \/ GrantFails(p) \/ Kill(p)
      PROVE  WarrantInv'
  <2>1. UNCHANGED <<grants, warranted>>
    BY <1>6 DEF Start, CreateRenames, CreateReturns, Enroll, Announce, Pair, GrantFails,
       Kill, files, history
  <2>2. call' = call \/ call' = [call EXCEPT ![p] = {}]
    BY <1>6 DEF Start, CreateRenames, CreateReturns, Enroll, Announce, Pair, GrantFails,
       Kill, Ends, processes
  <2>3. \A q \in Processes : \A a \in call'[q] : a \in call[q]
    BY <1>0, <2>2
  <2> QED
    BY <2>1, <2>3, WarrantKept
<1>7. ASSUME \/ \E k \in reported : Provision(k)
             \/ \E b \in paired : Revoke(b)
             \/ UNCHANGED vars
      PROVE  WarrantInv'
  <2>1. UNCHANGED <<grants, warranted, call>>
    BY <1>7 DEF Provision, Revoke, vars, files, processes, history
  <2> QED
    BY <2>1, WarrantKept
<1> QED
  <2>1. CASE \E p \in Processes : IdentityStep(p)
    BY <1>6, <2>1 DEF IdentityStep
  <2>2. CASE \E p \in Processes : GrantStep(p) \/ Kill(p)
    BY <1>1, <1>2, <1>3, <1>4, <1>6, <2>2 DEF GrantStep
  <2> QED
    BY <1>5, <1>7, <2>1, <2>2 DEF Next

(* No capability file ever holds, or can come back with, a grant that was  *)
(* not asked for while the peer was paired with the identity of the        *)
(* process that wrote it.                                                  *)
THEOREM OnlyWarranted == Spec => []GrantsAreWarranted
<1>1. WarrantInv => GrantsAreWarranted
  BY DEF WarrantInv, Warranted, GrantsAreWarranted
<1>2. Spec => []WarrantInv
  BY TypeInvariant, WarrantInit, WarrantStep, PTL DEF Spec
<1> QED
  BY <1>1, <1>2, PTL
=============================================================================
