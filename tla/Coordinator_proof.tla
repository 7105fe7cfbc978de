------------------------- MODULE Coordinator_proof -------------------------
(***************************************************************************)
(* The coordinator admits one session at a time, repeats no prompt before  *)
(* the cooldown is over, delays no recovery and bounds its cache, for      *)
(* every set of peers, every cache limit and every cooldown.               *)
(***************************************************************************)
EXTENDS Coordinator, FiniteSetTheorems, TLAPS

(* The types the argument needs; only peers we initiate to enter from the  *)
(* discovery loop. *)
FlightType ==
    /\ gate \in BOOLEAN
    /\ attempts \in [Highers -> Nat]
    /\ listener \in ListenerState
    /\ main.pc = "entering" => main.peer \in Highers

FlightInv == FlightType /\ SingleFlight

(* The outcomes of a step: as many sessions as before, none, one initiator *)
(* thread, or the listener's session. *)
LEMMA SameFlight ==
    ASSUME FlightInv, UNCHANGED <<gate, attempts>>, Serving' = Serving, FlightType'
    PROVE  FlightInv'
BY DEF FlightInv, SingleFlight

LEMMA NoFlight ==
    ASSUME gate' = FALSE, ~Serving', \A p \in Highers : attempts'[p] = 0, FlightType'
    PROVE  FlightInv'
<1>1. \A p \in Highers : attempts'[p] <= 1 /\ ~(attempts'[p] > 0)
  OBVIOUS
<1> QED
  BY <1>1 DEF FlightInv, SingleFlight

LEMMA WorkerFlight ==
    ASSUME gate' = TRUE, ~Serving', FlightType',
           NEW p \in Highers,
           \A q \in Highers : attempts'[q] = IF q = p THEN 1 ELSE 0
    PROVE  FlightInv'
<1>1. attempts'[p] > 0
  OBVIOUS
<1>2. \A q \in Highers : attempts'[q] <= 1 /\ (attempts'[q] > 0 => q = p)
  OBVIOUS
<1> QED
  BY <1>1, <1>2 DEF FlightInv, SingleFlight

LEMMA ListenerFlight ==
    ASSUME gate' = TRUE, Serving', \A p \in Highers : attempts'[p] = 0, FlightType'
    PROVE  FlightInv'
<1>1. \A p \in Highers : attempts'[p] <= 1 /\ ~(attempts'[p] > 0)
  OBVIOUS
<1> QED
  BY <1>1 DEF FlightInv, SingleFlight

(* An open gate means that nobody is in a session.                         *)
LEMMA OpenGate ==
    ASSUME FlightInv, ~gate
    PROVE  ~Serving /\ \A p \in Highers : attempts[p] = 0
<1>1. ~Serving /\ \A p \in Highers : ~(attempts[p] > 0)
  BY DEF FlightInv, SingleFlight
<1> QED
  BY <1>1 DEF FlightInv, FlightType

LEMMA FlightInit == Init => FlightInv
<1> SUFFICES ASSUME Init PROVE FlightInv
  OBVIOUS
<1>1. ListenerIdle \in ListenerState /\ ListenerIdle.pc = "idle" /\ MainIdle.pc = "idle"
  BY DEF ListenerIdle, ListenerState, MainIdle
<1>2. FlightType /\ ~Serving
  BY <1>1 DEF Init, FlightType, Serving
<1>3. \A p \in Highers : attempts[p] <= 1 /\ ~(attempts[p] > 0)
  BY DEF Init
<1>4. gate = FALSE
  BY DEF Init
<1> QED
  BY <1>2, <1>3, <1>4 DEF FlightInv, SingleFlight

LEMMA FlightStep == FlightInv /\ [Next]_vars => FlightInv'
<1> SUFFICES ASSUME FlightInv, [Next]_vars PROVE FlightInv'
  OBVIOUS
<1>t. /\ gate \in BOOLEAN /\ attempts \in [Highers -> Nat]
      /\ listener \in ListenerState
      /\ main.pc = "entering" => main.peer \in Highers
  BY DEF FlightInv, FlightType
<1> USE DEF store, coordinator, history
<1>1. ASSUME NEW p \in Peer, MainDiscovers(p) PROVE FlightInv'
  BY <1>t, <1>1, SameFlight DEF MainDiscovers, FlightType, Serving
<1>2. CASE MainReadsStore
  <2>1. CASE main' = MainIdle
    BY <1>t, <1>2, <2>1, SameFlight
    DEF MainReadsStore, MainIdle, FlightType, Serving
  <2>2. CASE main' = [main EXCEPT !.pc = "entering"] /\ main.peer \in Highers
    <3>1. main'.peer \in Highers
      BY <2>2
    <3> QED
      BY <1>t, <1>2, <3>1, SameFlight DEF MainReadsStore, FlightType, Serving
  <2> QED
    BY <1>2, <2>1, <2>2 DEF MainReadsStore
<1>3. CASE MainEnters
  <2>1. main' = MainIdle /\ listener' = listener /\ main.peer \in Highers
    BY <1>t, <1>3 DEF MainEnters
  <2>2. main'.pc = "idle" /\ Serving' = Serving
    BY <2>1 DEF MainIdle, Serving
  <2>3. CASE UNCHANGED <<gate, attempts>>
    BY <1>t, <2>1, <2>2, <2>3, SameFlight DEF FlightType
  <2>4. CASE /\ Admits(main.peer)
             /\ gate' = TRUE
             /\ attempts' = [attempts EXCEPT ![main.peer] = @ + 1]
    <3>1. ~Serving /\ \A q \in Highers : attempts[q] = 0
      BY <2>4, OpenGate DEF Admits
    <3>2. \A q \in Highers : attempts'[q] = IF q = main.peer THEN 1 ELSE 0
      BY <1>t, <2>1, <2>4, <3>1
    <3>3. attempts' \in [Highers -> Nat]
      BY <1>t, <2>1, <2>4
    <3> QED
      BY <1>t, <2>1, <2>2, <2>4, <3>1, <3>2, <3>3, WorkerFlight DEF FlightType
  <2> QED
    BY <1>3, <2>3, <2>4 DEF MainEnters
<1>4. ASSUME NEW p \in Highers, Worker(p) PROVE FlightInv'
  <2>1. CASE WorkerProgress(p) \/ WorkerCools(p)
    BY <1>t, <2>1, SameFlight DEF WorkerProgress, WorkerCools, FlightType, Serving
  <2>2. CASE WorkerSucceeds(p) \/ WorkerFails(p)
    <3>1. /\ attempts[p] > 0 /\ gate' = FALSE /\ UNCHANGED <<listener, main>>
          /\ attempts' = [attempts EXCEPT ![p] = @ - 1]
      BY <2>2 DEF WorkerSucceeds, WorkerFails
    <3>2. attempts[p] = 1 /\ ~Serving /\ \A q \in Highers \ {p} : attempts[q] = 0
      BY <1>t, <3>1 DEF FlightInv, SingleFlight
    <3>3. \A q \in Highers : attempts'[q] = 0
      BY <1>t, <3>1, <3>2
    <3>4. attempts' \in [Highers -> Nat]
      BY <1>t, <3>1, <3>2
    <3> QED
      BY <1>t, <3>1, <3>2, <3>3, <3>4, NoFlight DEF FlightType, Serving
  <2> QED
    BY <1>4, <2>1, <2>2 DEF Worker
<1>5. ASSUME NEW p \in Lowers, ListenerAccepts(p) PROVE FlightInv'
  <2>1. listener' \in ListenerState /\ ~Serving'
    BY <1>5 DEF ListenerAccepts, ListenerState, ListenerIdle, Peer, Serving
  <2> QED
    BY <1>t, <1>5, <2>1, SameFlight DEF ListenerAccepts, FlightType, Serving
<1>6. CASE Listener
  <2>1. CASE ListenerEnters
    <3>1. CASE /\ Admits(listener.peer) /\ gate' = TRUE
               /\ listener' = [listener EXCEPT !.pc = "serving"]
      <4>1. listener' \in ListenerState /\ Serving'
        BY <1>t, <3>1 DEF ListenerState, Serving
      <4>2. \A q \in Highers : attempts[q] = 0
        BY <3>1, OpenGate DEF Admits
      <4> QED
        BY <1>t, <2>1, <3>1, <4>1, <4>2, ListenerFlight DEF ListenerEnters, FlightType
    <3>2. CASE listener' = ListenerIdle /\ gate' = gate
      <4>1. listener' \in ListenerState /\ ~Serving'
        BY <3>2 DEF ListenerState, ListenerIdle, Serving
      <4> QED
        BY <1>t, <2>1, <3>2, <4>1, SameFlight DEF ListenerEnters, FlightType, Serving
    <3> QED
      BY <2>1, <3>1, <3>2 DEF ListenerEnters
  <2>2. CASE ListenerPrompts \/ ListenerResumes \/ UserApproves
    <3>1. listener' \in ListenerState /\ Serving' /\ Serving
      BY <1>t, <2>2
      DEF ListenerPrompts, ListenerResumes, UserApproves, ListenerState, Serving
    <3> QED
      BY <1>t, <2>2, <3>1, SameFlight
      DEF ListenerPrompts, ListenerResumes, UserApproves, FlightType
  <2>3. CASE ListenerProgress
    BY <1>t, <2>3, SameFlight DEF ListenerProgress, FlightType, Serving
  <2>4. CASE ListenerFails \/ ListenerSucceeds
    <3>1. ASSUME NEW b \in BOOLEAN
          PROVE  /\ [listener EXCEPT !.pc = "leaving", !.retry = b] \in ListenerState
                 /\ [listener EXCEPT !.pc = "leaving", !.retry = b].pc = "leaving"
      BY <1>t DEF ListenerState
    <3>2. \A found : NothingToResume(found) \in BOOLEAN
      BY DEF NothingToResume
    <3>3. listener' \in ListenerState /\ Serving' /\ Serving
      BY <2>4, <3>1, <3>2 DEF ListenerFails, ListenerSucceeds, Serving
    <3> QED
      BY <1>t, <2>4, <3>3, SameFlight DEF ListenerFails, ListenerSucceeds, FlightType
  <2>5. CASE ListenerLeaves
    <3>1. listener' \in ListenerState /\ ~Serving' /\ Serving
      BY <1>t, <2>5 DEF ListenerLeaves, ListenerState, ListenerIdle, Serving
    <3>2. \A q \in Highers : attempts[q] = 0
      BY <3>1 DEF FlightInv, SingleFlight
    <3> QED
      BY <1>t, <2>5, <3>1, <3>2, NoFlight DEF ListenerLeaves, FlightType
  <2>6. CASE ListenerCools
    <3>1. listener' \in ListenerState /\ Serving' = Serving
      BY <2>6 DEF ListenerCools, ListenerIdle, ListenerState, Serving
    <3> QED
      BY <1>t, <2>6, <3>1, SameFlight DEF ListenerCools, FlightType
  <2> QED
    BY <1>6, <2>1, <2>2, <2>3, <2>4, <2>5, <2>6 DEF Listener
<1>7. ASSUME NEW p \in Peer, Revoke(p) PROVE FlightInv'
  BY <1>t, <1>7, SameFlight DEF Revoke, FlightType, Serving
<1>8. CASE Disturb \/ Tick
  BY <1>t, <1>8, SameFlight DEF Disturb, Tick, FlightType, Serving
<1>9. CASE UNCHANGED vars
  BY <1>t, <1>9, SameFlight DEF vars, FlightType, Serving
<1> QED
  BY <1>1, <1>2, <1>3, <1>4, <1>5, <1>6, <1>7, <1>8, <1>9 DEF Next

(* One session at a time, and the gate closed exactly then.                *)
THEOREM OneSessionAtATime == Spec => []SingleFlight
<1>1. FlightInv => SingleFlight
  BY DEF FlightInv
<1> QED
  BY <1>1, FlightInit, FlightStep, PTL DEF Spec

-----------------------------------------------------------------------------
(* Types.  The peers of the discovery loop and the listener are known when *)
(* they are looked at, and the threads of a peer are within the bound.     *)

PeerInv ==
    /\ main.pc = "reading" => main.peer \in Peer
    /\ main.pc = "entering" => main.peer \in Highers
    /\ listener.pc # "idle" => listener.peer \in Lowers
    /\ \A p \in Highers : leaving[p] + attempts[p] <= MaxLeaving

TypeInv == TypeOK /\ PeerInv

(* An action that leaves the threads alone keeps them within the bound.    *)
LEMMA SameThreads ==
    ASSUME PeerInv, UNCHANGED <<attempts, leaving>>
    PROVE  \A p \in Highers : leaving'[p] + attempts'[p] <= MaxLeaving
BY DEF PeerInv

LEMMA MainStates ==
    /\ MainIdle \in MainState
    /\ MainIdle.pc = "idle"
    /\ ListenerIdle \in ListenerState
    /\ ListenerIdle.pc = "idle"
BY DEF MainIdle, MainState, ListenerIdle, ListenerState

(* One peer's thread moves: the counts stay within type and bound.         *)
LEMMA LessType ==
    ASSUME NEW S, NEW n \in Nat, NEW f \in [S -> 0..n]
    PROVE  /\ Less(f) \in [S -> 0..n]
           /\ \A p \in S : Less(f)[p] = IF f[p] = 0 THEN 0 ELSE f[p] - 1
BY DEF Less

(* persist_active leaves a set of directories.                             *)
LEMMA ActivatedType ==
    ASSUME TypeOK, NEW p \in Peer, NEW next \in Activated(p)
    PROVE  next \in Holding
BY DEF TypeOK, Activated, Holding, Directory

(* What put leaves in the cache: the live entries, with one fewer where    *)
(* room was needed, and the new one.                                       *)
LEMMA PutType ==
    ASSUME TypeOK, NEW p \in Peer, Put(p)
    PROVE  /\ DOMAIN cache' \subseteq Peer
           /\ cache' \in [DOMAIN cache' -> 0..PeerMaxAge + 1]
<1>1. PICK gone \in Evicted(p) :
        cache' = [q \in (Live \ gone) \cup {p} |-> IF q = p THEN 0 ELSE cache[q]]
  BY DEF Put
<1>2. \A q \in DOMAIN cache : cache[q] \in 0..PeerMaxAge + 1
  BY DEF TypeOK
<1>3. Live \subseteq DOMAIN cache /\ DOMAIN cache \subseteq Peer
  BY DEF Live, TypeOK
<1>4. 0 \in 0..PeerMaxAge + 1
  BY LimitsAssumption
<1> QED
  BY <1>1, <1>2, <1>3, <1>4

LEMMA TypeInit == Init => TypeInv
<1> SUFFICES ASSUME Init PROVE TypeInv
  OBVIOUS
<1>1. DOMAIN cache = {}
  BY DEF Init
<1>2. cache \in [DOMAIN cache -> 0..PeerMaxAge + 1]
  BY DEF Init
<1>3. /\ 0 \in 0..MaxLeaving /\ 0 \in 0..PairCooldown /\ 0 \in Nat
      /\ FALSE \in BOOLEAN
  BY LimitsAssumption
<1>5. TypeOK
  BY <1>1, <1>2, <1>3, MainStates DEF Init, TypeOK
<1>4. PeerInv
  BY MainStates, LimitsAssumption DEF Init, PeerInv
<1> QED
  BY <1>4, <1>5 DEF TypeInv

LEMMA TypeStep == TypeInv /\ [Next]_vars => TypeInv'
<1> SUFFICES ASSUME TypeInv, [Next]_vars PROVE TypeInv'
  OBVIOUS
<1>t. TypeOK /\ PeerInv
  BY DEF TypeInv
<1> USE DEF store, coordinator, history
<1>1. ASSUME NEW p \in Peer, MainDiscovers(p) PROVE TypeInv'
  <2>1. DOMAIN cache' \subseteq Peer /\ cache' \in [DOMAIN cache' -> 0..PeerMaxAge + 1]
    BY <1>t, <1>1, PutType DEF MainDiscovers
  <2>2. main' \in MainState /\ main'.pc = "reading" /\ main'.peer = p
    BY <1>1 DEF MainDiscovers, MainState
  <2>3. TypeOK'
    BY <1>t, <1>1, <2>1, <2>2 DEF MainDiscovers, TypeOK
  <2>4. PeerInv'
    BY <1>t, <1>1, <2>2, SameThreads DEF MainDiscovers, PeerInv
  <2> QED
    BY <2>3, <2>4 DEF TypeInv
<1>2. CASE MainReadsStore
  <2>1. /\ main' \in MainState /\ main'.pc # "reading"
        /\ main'.pc = "entering" => main'.peer \in Highers
    <3>1. main \in MainState
      BY <1>t DEF TypeOK
    <3>2. CASE main' = MainIdle
      BY <3>2, MainStates
    <3>3. CASE main' = [main EXCEPT !.pc = "entering"] /\ main.peer \in Highers
      BY <3>1, <3>3 DEF MainState
    <3> QED
      BY <1>2, <3>2, <3>3 DEF MainReadsStore
  <2>2. TypeOK'
    BY <1>t, <1>2, <2>1 DEF MainReadsStore, TypeOK
  <2>3. PeerInv'
    BY <1>t, <1>2, <2>1, SameThreads DEF MainReadsStore, PeerInv
  <2> QED
    BY <2>2, <2>3 DEF TypeInv
<1>3. CASE MainEnters
  <2> DEFINE p == main.peer
  <2>1. p \in Highers /\ main' = MainIdle /\ leaving[p] + attempts[p] < MaxLeaving
    BY <1>t, <1>3 DEF MainEnters, PeerInv
  <2>2. attempts \in [Highers -> Nat] /\ leaving \in [Highers -> 0..MaxLeaving]
        /\ MaxLeaving \in Nat
    BY <1>t, LimitsAssumption DEF TypeOK
  <2>3. /\ attempts' \in [Highers -> Nat] /\ gate' \in BOOLEAN
        /\ \A q \in Highers : leaving[q] + attempts'[q] <= MaxLeaving
    <3>1. CASE UNCHANGED <<gate, attempts>>
      BY <1>t, <2>2, <3>1 DEF TypeOK, PeerInv
    <3>2. CASE gate' = TRUE /\ attempts' = [attempts EXCEPT ![p] = @ + 1]
      <4>1. attempts'[p] = attempts[p] + 1 /\ \A q \in Highers \ {p} : attempts'[q] = attempts[q]
        BY <2>1, <2>2, <3>2
      <4>2. leaving[p] + attempts'[p] <= MaxLeaving
        BY <2>1, <2>2, <4>1
      <4>3. \A q \in Highers \ {p} : leaving[q] + attempts'[q] <= MaxLeaving
        BY <1>t, <4>1 DEF PeerInv
      <4>4. attempts' \in [Highers -> Nat]
        BY <2>1, <2>2, <3>2
      <4> QED
        BY <3>2, <4>2, <4>3, <4>4
    <3> QED
      BY <1>3, <3>1, <3>2 DEF MainEnters
  <2>4. TypeOK'
    BY <1>t, <1>3, <2>1, <2>3, MainStates DEF MainEnters, TypeOK
  <2>5. PeerInv'
    BY <1>t, <1>3, <2>1, <2>3, MainStates DEF MainEnters, PeerInv
  <2> QED
    BY <2>4, <2>5 DEF TypeInv
<1>4. ASSUME NEW p \in Highers, Worker(p) PROVE TypeInv'
  <2>t. /\ attempts \in [Highers -> Nat] /\ leaving \in [Highers -> 0..MaxLeaving]
        /\ MaxLeaving \in Nat /\ leaving[p] + attempts[p] <= MaxLeaving
        /\ p \in Peer /\ PairCooldown \in 0..PairCooldown
        /\ \A q \in Highers : leaving[q] + attempts[q] <= MaxLeaving
    BY <1>t, LimitsAssumption DEF TypeOK, PeerInv, Peer
  <2>1. CASE WorkerProgress(p)
    <3>1. PICK next \in {trust[p] \cup {"pending"}} \cup Activated(p) :
            trust' = [trust EXCEPT ![p] = next]
      BY <2>1 DEF WorkerProgress
    <3>2. next \in Holding
      BY <1>t, <2>t, <3>1, ActivatedType DEF TypeOK, Holding, Directory
    <3>3. trust' \in [Peer -> Holding]
      BY <1>t, <3>1, <3>2 DEF TypeOK
    <3> QED
      BY <1>t, <2>1, <3>3, SameThreads DEF WorkerProgress, TypeOK, PeerInv, TypeInv
  <2>2. CASE WorkerSucceeds(p)
    <3>1. /\ attempts' \in [Highers -> Nat]
          /\ \A q \in Highers : leaving[q] + attempts'[q] <= MaxLeaving
      <4>1. /\ attempts[p] > 0 /\ attempts' = [attempts EXCEPT ![p] = @ - 1]
        BY <2>2 DEF WorkerSucceeds
      <4> QED
        BY <2>t, <4>1
    <3> QED
      BY <1>t, <2>2, <3>1 DEF WorkerSucceeds, TypeOK, PeerInv, TypeInv
  <2>3. CASE WorkerFails(p)
    <3>1. /\ attempts[p] > 0 /\ attempts' = [attempts EXCEPT ![p] = @ - 1]
          /\ leaving' = [leaving EXCEPT ![p] = @ + 1]
      BY <2>3 DEF WorkerFails
    <3>2. attempts' \in [Highers -> Nat] /\ leaving' \in [Highers -> 0..MaxLeaving]
      BY <2>t, <3>1
    <3>3. \A q \in Highers : leaving'[q] + attempts'[q] <= MaxLeaving
      BY <2>t, <3>1
    <3>4. quiet' \in [Peer -> 0..PairCooldown]
      BY <1>t, <2>t, <2>3 DEF WorkerFails, Pause, TypeOK
    <3> QED
      BY <1>t, <2>3, <3>2, <3>3, <3>4 DEF WorkerFails, TypeOK, PeerInv, TypeInv
  <2>4. CASE WorkerCools(p)
    <3>1. leaving[p] > 0 /\ leaving' = [leaving EXCEPT ![p] = @ - 1]
      BY <2>4 DEF WorkerCools
    <3>2. leaving' \in [Highers -> 0..MaxLeaving]
      BY <2>t, <3>1
    <3>3. \A q \in Highers : leaving'[q] + attempts[q] <= MaxLeaving
      BY <2>t, <3>1
    <3>4. cooldown' \in [Peer -> 0..PairCooldown]
      BY <1>t, <2>t, <2>4 DEF WorkerCools, StartCooldown, TypeOK
    <3> QED
      BY <1>t, <2>4, <3>2, <3>3, <3>4 DEF WorkerCools, TypeOK, PeerInv, TypeInv
  <2> QED
    BY <1>4, <2>1, <2>2, <2>3, <2>4 DEF Worker
<1>5. ASSUME NEW p \in Lowers, ListenerAccepts(p) PROVE TypeInv'
  <2>1. /\ listener' \in ListenerState
        /\ listener'.pc # "idle" => listener'.peer \in Lowers
    BY <1>5, MainStates DEF ListenerAccepts, ListenerState, ListenerIdle, Peer
  <2>2. DOMAIN cache' \subseteq Peer /\ cache' \in [DOMAIN cache' -> 0..PeerMaxAge + 1]
    BY <1>t, <1>5 DEF ListenerAccepts, Restrict, Live, TypeOK
  <2> QED
    BY <1>t, <1>5, <2>1, <2>2, SameThreads DEF ListenerAccepts, TypeOK, PeerInv, TypeInv
<1>6. CASE Listener
  <2>t. listener \in ListenerState /\ (listener.pc # "idle" => listener.peer \in Lowers)
    BY <1>t DEF TypeOK, PeerInv
  <2>1. CASE ListenerEnters
    <3>1. listener' \in ListenerState /\ (listener'.pc # "idle" => listener'.peer \in Lowers)
      BY <2>t, <2>1, MainStates DEF ListenerEnters, ListenerState
    <3>2. gate' \in BOOLEAN
      BY <1>t, <2>1 DEF ListenerEnters, TypeOK
    <3> QED
      BY <1>t, <2>1, <3>1, <3>2, SameThreads DEF ListenerEnters, TypeOK, PeerInv, TypeInv
  <2>2. CASE ListenerPrompts \/ ListenerResumes
    <3>1. listener' \in ListenerState /\ (listener'.pc # "idle" => listener'.peer \in Lowers)
      BY <2>t, <2>2 DEF ListenerPrompts, ListenerResumes, ListenerState
    <3> QED
      BY <1>t, <2>2, <3>1, SameThreads
      DEF ListenerPrompts, ListenerResumes, TypeOK, PeerInv, TypeInv
  <2>3. CASE UserApproves
    <3>1. listener' \in ListenerState /\ (listener'.pc # "idle" => listener'.peer \in Lowers)
      BY <2>t, <2>3 DEF UserApproves, ListenerState
    <3>2. trust' \in [Peer -> Holding]
      BY <1>t, <2>3 DEF UserApproves, TypeOK, Holding, Directory
    <3> QED
      BY <1>t, <2>3, <3>1, <3>2, SameThreads DEF UserApproves, TypeOK, PeerInv, TypeInv
  <2>4. CASE ListenerProgress
    <3>1. listener.peer \in Peer
      BY <2>t, <2>4 DEF ListenerProgress, Peer
    <3>2. trust' \in [Peer -> Holding]
      BY <1>t, <2>4, <3>1, ActivatedType DEF ListenerProgress, TypeOK
    <3> QED
      BY <1>t, <2>4, <3>2, SameThreads DEF ListenerProgress, TypeOK, PeerInv, TypeInv
  <2>5. CASE ListenerFails
    <3>1. \A found : NothingToResume(found) \in BOOLEAN
      BY DEF NothingToResume
    <3>2. listener' \in ListenerState /\ (listener'.pc # "idle" => listener'.peer \in Lowers)
      BY <2>t, <2>5, <3>1 DEF ListenerFails, ListenerState
    <3>3. quiet' \in [Peer -> 0..PairCooldown]
      BY <1>t, <2>5, LimitsAssumption DEF ListenerFails, Pause, TypeOK
    <3>4. missed' \subseteq Lowers
      BY <1>t, <2>t, <2>5 DEF ListenerFails, TypeOK
    <3> QED
      BY <1>t, <2>5, <3>2, <3>3, <3>4, SameThreads DEF ListenerFails, TypeOK, PeerInv, TypeInv
  <2>6. CASE ListenerSucceeds
    <3>1. listener' \in ListenerState /\ (listener'.pc # "idle" => listener'.peer \in Lowers)
      BY <2>t, <2>6 DEF ListenerSucceeds, ListenerState
    <3> QED
      BY <1>t, <2>6, <3>1, SameThreads DEF ListenerSucceeds, TypeOK, PeerInv, TypeInv
  <2>7. CASE ListenerLeaves
    <3>1. listener' \in ListenerState /\ (listener'.pc # "idle" => listener'.peer \in Lowers)
      BY <2>t, <2>7, MainStates DEF ListenerLeaves, ListenerState
    <3> QED
      BY <1>t, <2>7, <3>1, SameThreads DEF ListenerLeaves, TypeOK, PeerInv, TypeInv
  <2>8. CASE ListenerCools
    <3>1. cooldown' \in [Peer -> 0..PairCooldown]
      <4>1. PairCooldown \in 0..PairCooldown
        BY LimitsAssumption
      <4> QED
        BY <1>t, <2>8, <4>1 DEF ListenerCools, StartCooldown, TypeOK
    <3> QED
      BY <1>t, <2>8, <3>1, MainStates, SameThreads
      DEF ListenerCools, TypeOK, PeerInv, TypeInv
  <2> QED
    BY <1>6, <2>1, <2>2, <2>3, <2>4, <2>5, <2>6, <2>7, <2>8 DEF Listener
<1>7. ASSUME NEW p \in Peer, Revoke(p) PROVE TypeInv'
  <2>1. trust' \in [Peer -> Holding]
    BY <1>t, <1>7 DEF Revoke, TypeOK, Holding
  <2> QED
    BY <1>t, <1>7, <2>1, SameThreads DEF Revoke, TypeOK, PeerInv, TypeInv
<1>8. CASE Tick
  <2>1. cooldown' \in [Peer -> 0..PairCooldown] /\ quiet' \in [Peer -> 0..PairCooldown]
    BY <1>t, <1>8, LessType, LimitsAssumption DEF Tick, TypeOK
  <2>2. DOMAIN cache' \subseteq Peer /\ cache' \in [DOMAIN cache' -> 0..PeerMaxAge + 1]
    BY <1>t, <1>8, LimitsAssumption DEF Tick, TypeOK
  <2> QED
    BY <1>t, <1>8, <2>1, <2>2, SameThreads DEF Tick, TypeOK, PeerInv, TypeInv
<1>9. CASE Disturb \/ UNCHANGED vars
  BY <1>t, <1>9, SameThreads DEF Disturb, vars, TypeOK, PeerInv, TypeInv
<1> QED
  BY <1>1, <1>2, <1>3, <1>4, <1>5, <1>6, <1>7, <1>8, <1>9 DEF Next

(* Every variable of the coordinator keeps its type, and no more threads   *)
(* of a peer wait in leave than MaxLeaving allows for.                     *)
THEOREM TypeCorrect == Spec => []TypeOK
<1>1. TypeInv => TypeOK
  BY DEF TypeInv
<1> QED
  BY <1>1, TypeInit, TypeStep, PTL DEF Spec

-----------------------------------------------------------------------------
(* Cooldowns of the peers that initiate to us: only the listener starts    *)
(* them, for a peer it has nothing to resume with.                         *)

InSession == listener.pc \in {"serving", "prompting", "pairing"}
Pausing ==
    \/ listener.pc = "cooling"
    \/ listener.pc = "leaving" /\ listener.retry

(* The pause a failure asks for is covered by the cooldown, except while   *)
(* the listener is about to start that cooldown. *)
Covered == \A p \in Lowers :
    \/ quiet[p] <= cooldown[p]
    \/ Pausing /\ listener.peer = p

PauseInv ==
    /\ Covered
    /\ RecoveryIsNotDelayed
    /\ InSession => cooldown[listener.peer] = 0
    /\ Pausing => trust[listener.peer] = {} \/ listener.peer \in missed

(* A step that leaves the listener, and the cooldowns, the store and the   *)
(* misses of the lower peers alone keeps the invariant.                    *)
LEMMA SamePause ==
    ASSUME PauseInv, TypeInv, listener' = listener, missed' = missed,
           \A p \in Lowers : /\ cooldown'[p] = cooldown[p]
                             /\ quiet'[p] = quiet[p]
                             /\ trust'[p] = trust[p]
    PROVE  PauseInv'
<1>1. /\ InSession' = InSession /\ Pausing' = Pausing
      /\ InSession \/ Pausing => listener.peer \in Lowers
  BY DEF InSession, Pausing, TypeInv, PeerInv
<1> QED
  BY <1>1 DEF PauseInv, Covered, RecoveryIsNotDelayed

LEMMA PauseInit == Init => PauseInv
<1> SUFFICES ASSUME Init PROVE PauseInv
  OBVIOUS
<1>1. listener.pc = "idle"
  BY MainStates DEF Init
<1>2. \A p \in Lowers : p \in Peer
  BY DEF Peer
<1>3. ~InSession /\ ~Pausing
  BY <1>1 DEF InSession, Pausing
<1>4. \A p \in Lowers : quiet[p] = 0 /\ cooldown[p] = 0
  BY <1>2 DEF Init
<1> QED
  BY <1>3, <1>4 DEF PauseInv, Covered, RecoveryIsNotDelayed

LEMMA PauseStep == TypeInv /\ PauseInv /\ [Next]_vars => PauseInv'
<1> SUFFICES ASSUME TypeInv, PauseInv, [Next]_vars PROVE PauseInv'
  OBVIOUS
<1>t. /\ listener \in ListenerState /\ (listener.pc # "idle" => listener.peer \in Lowers)
      /\ trust \in [Peer -> Holding]
      /\ cooldown \in [Peer -> 0..PairCooldown] /\ quiet \in [Peer -> 0..PairCooldown]
      /\ PairCooldown \in Nat \ {0}
      /\ Lowers \subseteq Peer /\ Highers \subseteq Peer
      /\ \A p \in Lowers, q \in Highers : p # q
  BY PeersAssumption, LimitsAssumption DEF TypeInv, TypeOK, PeerInv, Peer
<1>p. /\ \A p \in Lowers : quiet[p] <= cooldown[p] \/ (Pausing /\ listener.peer = p)
      /\ \A p \in Lowers : cooldown[p] > 0 => trust[p] = {} \/ p \in missed
      /\ InSession => cooldown[listener.peer] = 0
      /\ Pausing => trust[listener.peer] = {} \/ listener.peer \in missed
  BY DEF PauseInv, Covered, RecoveryIsNotDelayed
<1> USE DEF store, coordinator, history
<1>1. ASSUME NEW p \in Peer, MainDiscovers(p) PROVE PauseInv'
  BY <1>1, SamePause DEF MainDiscovers
<1>2. CASE MainReadsStore \/ MainEnters
  BY <1>2, SamePause DEF MainReadsStore, MainEnters
<1>4. ASSUME NEW p \in Highers, Worker(p) PROVE PauseInv'
  <2>1. \A q \in Lowers : /\ cooldown'[q] = cooldown[q]
                           /\ quiet'[q] = quiet[q]
                           /\ trust'[q] = trust[q]
    BY <1>t, <1>4
    DEF Worker, WorkerProgress, WorkerSucceeds, WorkerFails, WorkerCools,
        StartCooldown, Pause
  <2>2. listener' = listener /\ missed' = missed
    BY <1>4 DEF Worker, WorkerProgress, WorkerSucceeds, WorkerFails, WorkerCools
  <2> QED
    BY <2>1, <2>2, SamePause
<1>5. ASSUME NEW p \in Lowers, ListenerAccepts(p) PROVE PauseInv'
  <2>1. ~InSession' /\ ~Pausing' /\ ~InSession /\ ~Pausing
    BY <1>5 DEF ListenerAccepts, ListenerIdle, InSession, Pausing
  <2> QED
    BY <1>p, <1>5, <2>1 DEF ListenerAccepts, PauseInv, Covered, RecoveryIsNotDelayed
<1>6. CASE Listener
  <2>1. CASE ListenerEnters
    <3>1. CASE Admits(listener.peer) /\ listener' = [listener EXCEPT !.pc = "serving"]
      <4>1. listener'.pc = "serving" /\ listener'.peer = listener.peer
        BY <1>t, <3>1 DEF ListenerState
      <4>2. cooldown[listener.peer] = 0 /\ ~Pausing /\ ~Pausing' /\ UNCHANGED <<cooldown, quiet, trust, missed>>
        BY <2>1, <3>1, <4>1 DEF ListenerEnters, Admits, Pausing
      <4> QED
        BY <1>p, <4>1, <4>2 DEF PauseInv, Covered, RecoveryIsNotDelayed
    <3>2. CASE listener' = ListenerIdle
      <4>1. ~InSession' /\ ~Pausing' /\ ~Pausing /\ UNCHANGED <<cooldown, quiet, trust, missed>>
        BY <2>1, <3>2 DEF ListenerEnters, ListenerIdle, InSession, Pausing
      <4> QED
        BY <1>p, <4>1 DEF PauseInv, Covered, RecoveryIsNotDelayed
    <3> QED
      BY <2>1, <3>1, <3>2 DEF ListenerEnters
  <2>2. CASE ListenerPrompts \/ ListenerResumes
    <3>1. listener'.pc \in {"prompting", "pairing"} /\ listener'.peer = listener.peer
      BY <1>t, <2>2 DEF ListenerPrompts, ListenerResumes, ListenerState
    <3>2. InSession /\ ~Pausing /\ ~Pausing' /\ UNCHANGED <<cooldown, quiet, trust, missed>>
      BY <2>2, <3>1 DEF ListenerPrompts, ListenerResumes, InSession, Pausing
    <3> QED
      BY <1>p, <3>1, <3>2 DEF PauseInv, Covered, RecoveryIsNotDelayed
  <2>3. CASE UserApproves \/ ListenerProgress
    <3>1. listener'.pc = "pairing" /\ listener'.peer = listener.peer
      BY <1>t, <2>3 DEF UserApproves, ListenerProgress, ListenerState
    <3>2. InSession /\ ~Pausing /\ ~Pausing' /\ UNCHANGED <<cooldown, quiet, missed>>
      BY <2>3, <3>1 DEF UserApproves, ListenerProgress, InSession, Pausing
    <3>3. \A q \in Lowers \ {listener.peer} : trust'[q] = trust[q]
      BY <1>t, <2>3 DEF UserApproves, ListenerProgress
    <3>4. \A q \in Lowers : cooldown'[q] > 0 => trust'[q] = {} \/ q \in missed'
      BY <1>t, <1>p, <3>2, <3>3
    <3> QED
      BY <1>p, <3>1, <3>2, <3>4 DEF PauseInv, Covered, RecoveryIsNotDelayed
  <2>4. CASE ListenerFails
    <3> DEFINE p == listener.peer
    <3>1. /\ InSession /\ ~Pausing /\ UNCHANGED <<cooldown, trust>>
          /\ p \in Lowers /\ p \in Peer /\ cooldown[p] = 0
      BY <1>t, <1>p, <2>4 DEF ListenerFails, InSession, Pausing
    <3>2. PICK found \in Findings(p) :
            listener' = [listener EXCEPT !.pc = "leaving",
                                         !.retry = NothingToResume(found)]
      BY <2>4 DEF ListenerFails
    <3>3. /\ listener'.pc = "leaving" /\ listener'.peer = p
          /\ listener'.retry = (found = {})
      BY <1>t, <3>2 DEF ListenerState, NothingToResume
    <3>4. ~InSession' /\ (Pausing' <=> found = {})
      BY <3>3 DEF InSession, Pausing
    <3>5. trust[p] = {} => found = {}
      BY DEF Findings
    <3>6. found = {} => trust[p] \subseteq unreadable
      BY DEF Findings
    <3>7. /\ \A q \in Lowers \ {p} : q \in missed' <=> q \in missed
          /\ trust[p] # {} /\ trust[p] \subseteq unreadable => p \in missed'
      BY <2>4 DEF ListenerFails
    <3>8. Pausing' => trust'[listener'.peer] = {} \/ listener'.peer \in missed'
      BY <3>1, <3>3, <3>4, <3>6, <3>7
    <3>9. \A q \in Lowers : quiet'[q] = quiet[q] \/ (q = p /\ trust[q] = {})
      BY <1>t, <2>4 DEF ListenerFails, Pause
    <3>10. Covered'
      BY <1>p, <3>1, <3>3, <3>4, <3>5, <3>9 DEF Covered
    <3>11. RecoveryIsNotDelayed'
      BY <1>t, <1>p, <3>1, <3>7 DEF RecoveryIsNotDelayed
    <3> QED
      BY <3>4, <3>8, <3>10, <3>11 DEF PauseInv
  <2>5. CASE ListenerSucceeds
    <3>1. /\ listener'.pc = "leaving" /\ listener'.retry = FALSE
      BY <1>t, <2>5 DEF ListenerSucceeds, ListenerState
    <3>2. ~InSession' /\ ~Pausing /\ ~Pausing' /\ UNCHANGED <<cooldown, quiet, trust, missed>>
      BY <2>5, <3>1 DEF ListenerSucceeds, InSession, Pausing
    <3> QED
      BY <1>p, <3>2 DEF PauseInv, Covered, RecoveryIsNotDelayed
  <2>6. CASE ListenerLeaves
    <3>1. /\ Pausing' = Pausing /\ ~InSession' /\ UNCHANGED <<cooldown, quiet, trust, missed>>
          /\ Pausing => listener'.peer = listener.peer
      BY <1>t, <2>6 DEF ListenerLeaves, ListenerIdle, ListenerState, InSession, Pausing
    <3> QED
      BY <1>p, <3>1 DEF PauseInv, Covered, RecoveryIsNotDelayed
  <2>7. CASE ListenerCools
    <3>1. /\ ~InSession' /\ ~Pausing' /\ Pausing /\ UNCHANGED <<quiet, trust, missed>>
          /\ listener.peer \in Lowers
      <4>1. /\ listener.pc = "cooling" /\ listener'.pc = "idle"
            /\ UNCHANGED <<quiet, trust, missed>>
        BY <2>7, MainStates DEF ListenerCools
      <4> QED
        BY <1>t, <4>1 DEF InSession, Pausing
    <3>2. \A q \in Lowers : cooldown'[q] = IF q = listener.peer THEN PairCooldown ELSE cooldown[q]
      BY <1>t, <2>7 DEF ListenerCools, StartCooldown
    <3>3. \A q \in Lowers : quiet[q] \in 0..PairCooldown
      BY <1>t
    <3>4. \A q \in Lowers : quiet'[q] <= cooldown'[q]
      BY <1>t, <1>p, <3>1, <3>2, <3>3
    <3>5. \A q \in Lowers : cooldown'[q] > 0 => trust'[q] = {} \/ q \in missed'
      BY <1>p, <3>1, <3>2
    <3> QED
      BY <3>1, <3>4, <3>5 DEF PauseInv, Covered, RecoveryIsNotDelayed
  <2> QED
    BY <1>6, <2>1, <2>2, <2>3, <2>4, <2>5, <2>6, <2>7 DEF Listener
<1>7. ASSUME NEW p \in Peer, Revoke(p) PROVE PauseInv'
  <2>1. /\ UNCHANGED <<cooldown, quiet, listener, missed>>
        /\ \A q \in Peer : trust[q] = {} => trust'[q] = {}
    BY <1>t, <1>7 DEF Revoke
  <2>2. RecoveryIsNotDelayed'
    BY <1>t, <1>p, <2>1 DEF RecoveryIsNotDelayed
  <2>3. Pausing' = Pausing /\ InSession' = InSession
    BY <2>1 DEF Pausing, InSession
  <2>4. Pausing => listener.peer \in Peer
    BY <1>t DEF Pausing
  <2>5. Pausing' => trust'[listener'.peer] = {} \/ listener'.peer \in missed'
    BY <1>p, <2>1, <2>3, <2>4
  <2> QED
    BY <1>p, <2>1, <2>2, <2>3, <2>5 DEF PauseInv, Covered
<1>8. CASE Tick
  <2>1. /\ UNCHANGED <<trust, missed, listener>> /\ Pausing' = Pausing /\ InSession' = InSession
    BY <1>8 DEF Tick, Pausing, InSession
  <2>2. /\ \A q \in Peer : cooldown'[q] = IF cooldown[q] = 0 THEN 0 ELSE cooldown[q] - 1
        /\ \A q \in Peer : quiet'[q] = IF quiet[q] = 0 THEN 0 ELSE quiet[q] - 1
    BY <1>t, <1>8 DEF Tick, Less
  <2>3. \A q \in Peer : cooldown[q] \in Nat /\ quiet[q] \in Nat
    BY <1>t
  <2>4. \A q \in Lowers : quiet'[q] <= cooldown'[q] \/ (Pausing' /\ listener'.peer = q)
    BY <1>t, <1>p, <2>1, <2>2, <2>3
  <2>5. \A q \in Lowers : cooldown'[q] > 0 => trust'[q] = {} \/ q \in missed'
    BY <1>t, <1>p, <2>1, <2>2, <2>3
  <2>6. InSession' => cooldown'[listener'.peer] = 0
    <3>1. InSession => listener.peer \in Peer
      BY <1>t DEF InSession
    <3> QED
      BY <1>p, <2>1, <2>2, <3>1
  <2> QED
    BY <1>p, <2>1, <2>4, <2>5, <2>6 DEF PauseInv, Covered, RecoveryIsNotDelayed
<1>9. CASE Disturb \/ UNCHANGED vars
  BY <1>9, SamePause DEF Disturb, vars
<1> QED
  BY <1>1, <1>2, <1>4, <1>5, <1>6, <1>7, <1>8, <1>9 DEF Next

(* A peer that initiates to us and has something to resume is kept out by  *)
(* a cooldown only after a session that failed while no record of it could *)
(* be read.                                                                *)
THEOREM RecoveryAdmitted == Spec => []RecoveryIsNotDelayed
<1>1. PauseInv => RecoveryIsNotDelayed
  BY DEF PauseInv
<1> QED
  BY <1>1, TypeInit, TypeStep, PauseInit, PauseStep, PTL DEF Spec

(* The only step that opens a prompt is the listener's, in a session that  *)
(* entered with no cooldown, and so after the pause.                       *)
LEMMA PromptStep ==
    ASSUME TypeInv, PauseInv, [Next]_vars,
           listener.pc # "prompting", listener'.pc = "prompting"
    PROVE  quiet[listener.peer] = 0
<1> USE DEF store, coordinator, history
<1>1. listener \in ListenerState
  BY DEF TypeInv, TypeOK
<1>2. listener' # listener
  OBVIOUS
<1>3. CASE \E p \in Lowers : ListenerAccepts(p)
  BY <1>1, <1>3 DEF ListenerAccepts, ListenerIdle
<1>4. CASE Listener
  <2>1. ~(ListenerEnters \/ ListenerResumes \/ UserApproves \/ ListenerProgress)
    BY <1>1, <1>2
    DEF ListenerEnters, ListenerResumes, UserApproves, ListenerProgress,
        ListenerIdle, ListenerState
  <2>2. ~(ListenerFails \/ ListenerSucceeds)
    <3>1. ASSUME NEW b PROVE [listener EXCEPT !.pc = "leaving", !.retry = b].pc = "leaving"
      BY <1>1 DEF ListenerState
    <3> QED
      BY <3>1 DEF ListenerFails, ListenerSucceeds
  <2>5. ~(ListenerLeaves \/ ListenerCools)
    BY <1>1, <1>2, MainStates DEF ListenerLeaves, ListenerCools, ListenerState
  <2>3. listener.pc = "serving"
    BY <1>4, <2>1, <2>2, <2>5 DEF Listener, ListenerPrompts
  <2>4. /\ cooldown[listener.peer] = 0 /\ ~Pausing
        /\ listener.peer \in Lowers /\ listener.peer \in Peer
    BY <2>3 DEF PauseInv, InSession, Pausing, TypeInv, PeerInv, Peer
  <2>6. quiet[listener.peer] <= 0
    BY <2>4 DEF PauseInv, Covered
  <2>7. quiet[listener.peer] \in Nat
    BY <2>4, LimitsAssumption DEF TypeInv, TypeOK
  <2> QED
    BY <2>6, <2>7
<1> QED
  BY <1>2, <1>3, <1>4
  DEF Next, MainDiscovers, Revoke, MainReadsStore, MainEnters, Worker,
      WorkerProgress, WorkerSucceeds, WorkerFails, WorkerCools, Disturb, Tick, vars

(* No prompt follows a declined or failed session with a peer of which     *)
(* nothing is held before the pause is over, whatever runs between the     *)
(* halves of leave.                                                        *)
THEOREM NoPromptStorm == Spec => NoPromptRetry
<1>1. TypeInv /\ PauseInv /\ [Next]_vars
        => [listener.pc # "prompting" /\ listener'.pc = "prompting"
                => quiet[listener.peer] = 0]_vars
  BY PromptStep
<1> QED
  BY <1>1, TypeInit, TypeStep, PauseInit, PauseStep, PTL DEF Spec, NoPromptRetry

-----------------------------------------------------------------------------
(* The cache.  put drops an entry only when it must, and then one is enough. *)

CacheInv == IsFiniteSet(DOMAIN cache) /\ CacheBounded

LEMMA CacheInit == Init => CacheInv
<1> SUFFICES ASSUME Init PROVE CacheInv
  OBVIOUS
<1>1. DOMAIN cache = {}
  BY DEF Init
<1> QED
  BY <1>1, FS_EmptySet, LimitsAssumption DEF CacheInv, CacheBounded

LEMMA PutBounded ==
    ASSUME CacheInv, NEW p, Put(p)
    PROVE  CacheInv'
<1>1. PICK gone \in Evicted(p) :
        cache' = [q \in (Live \ gone) \cup {p} |-> IF q = p THEN 0 ELSE cache[q]]
  BY DEF Put
<1>2. DOMAIN cache' = (Live \ gone) \cup {p}
  BY <1>1
<1>3. /\ IsFiniteSet(Live) /\ Cardinality(Live) \in Nat
      /\ Cardinality(Live) <= PeerCacheLimit /\ PeerCacheLimit \in Nat \ {0}
  <2>1. Live \subseteq DOMAIN cache
    BY DEF Live
  <2>2. /\ IsFiniteSet(Live) /\ Cardinality(Live) <= Cardinality(DOMAIN cache)
        /\ Cardinality(Live) \in Nat /\ Cardinality(DOMAIN cache) \in Nat
    BY <2>1, FS_Subset, FS_CardinalityType DEF CacheInv
  <2> QED
    BY <2>2, LimitsAssumption DEF CacheInv, CacheBounded
<1>4. CASE p \in Live
  <2>1. gone = {}
    BY <1>1, <1>4 DEF Evicted
  <2>2. DOMAIN cache' = Live
    BY <1>2, <1>4, <2>1
  <2> QED
    BY <1>3, <2>2 DEF CacheInv, CacheBounded
<1>5. CASE p \notin Live /\ Cardinality(Live) < PeerCacheLimit
  <2>1. gone = {}
    BY <1>1, <1>3, <1>5 DEF Evicted
  <2>2. DOMAIN cache' = Live \cup {p}
    BY <1>2, <2>1
  <2>3. IsFiniteSet(Live \cup {p}) /\ Cardinality(Live \cup {p}) = Cardinality(Live) + 1
    BY <1>3, <1>5, FS_AddElement
  <2> QED
    BY <1>3, <1>5, <2>2, <2>3 DEF CacheInv, CacheBounded
<1>6. CASE p \notin Live /\ Cardinality(Live) >= PeerCacheLimit
  <2>1. PICK q \in Oldest : gone = {q}
    BY <1>1, <1>6 DEF Evicted
  <2>2. q \in Live
    BY <2>1 DEF Oldest
  <2>3. IsFiniteSet(Live \ {q}) /\ Cardinality(Live \ {q}) = Cardinality(Live) - 1
    BY <1>3, <2>2, FS_RemoveElement
  <2>4. p \notin Live \ {q}
    BY <1>6
  <2>5. /\ IsFiniteSet((Live \ {q}) \cup {p})
        /\ Cardinality((Live \ {q}) \cup {p}) = Cardinality(Live \ {q}) + 1
    BY <2>3, <2>4, FS_AddElement
  <2> QED
    BY <1>2, <1>3, <2>1, <2>3, <2>5 DEF CacheInv, CacheBounded
<1> QED
  BY <1>3, <1>4, <1>5, <1>6

LEMMA CacheStep == CacheInv /\ [Next]_vars => CacheInv'
<1> SUFFICES ASSUME CacheInv, [Next]_vars PROVE CacheInv'
  OBVIOUS
<1>1. ASSUME NEW p \in Peer, MainDiscovers(p) PROVE CacheInv'
  BY <1>1, PutBounded DEF MainDiscovers
<1>2. ASSUME NEW p \in Lowers, ListenerAccepts(p) PROVE CacheInv'
  <2>1. DOMAIN cache' \subseteq DOMAIN cache
    BY <1>2 DEF ListenerAccepts, Restrict, Live
  <2>2. /\ IsFiniteSet(DOMAIN cache') /\ Cardinality(DOMAIN cache') <= Cardinality(DOMAIN cache)
        /\ Cardinality(DOMAIN cache') \in Nat /\ Cardinality(DOMAIN cache) \in Nat
    BY <2>1, FS_Subset, FS_CardinalityType DEF CacheInv
  <2> QED
    BY <2>2, LimitsAssumption DEF CacheInv, CacheBounded
<1>3. CASE Tick
  <2>1. DOMAIN cache' = DOMAIN cache
    BY <1>3 DEF Tick
  <2> QED
    BY <2>1 DEF CacheInv, CacheBounded
<1>4. ASSUME cache' = cache PROVE CacheInv'
  BY <1>4 DEF CacheInv, CacheBounded
<1>5. ASSUME NEW p \in Peer, Revoke(p) PROVE cache' = cache
  BY <1>5 DEF Revoke
<1>6. ASSUME NEW p \in Highers, Worker(p) PROVE cache' = cache
  BY <1>6 DEF Worker, WorkerProgress, WorkerSucceeds, WorkerFails, WorkerCools
<1>7. CASE Listener
  <2>1. cache' = cache
    BY <1>7
    DEF Listener, ListenerEnters, ListenerPrompts, ListenerResumes, UserApproves,
        ListenerProgress, ListenerFails, ListenerSucceeds, ListenerLeaves, ListenerCools
  <2> QED
    BY <1>4, <2>1
<1>8. CASE MainReadsStore \/ MainEnters \/ Disturb \/ UNCHANGED vars
  BY <1>4, <1>8 DEF MainReadsStore, MainEnters, Disturb, vars
<1> QED
  BY <1>1, <1>2, <1>3, <1>4, <1>5, <1>6, <1>7, <1>8 DEF Next

(* The cache never outgrows its limit.                                     *)
THEOREM BoundedCache == Spec => []CacheBounded
<1>1. CacheInv => CacheBounded
  BY DEF CacheInv
<1> QED
  BY <1>1, CacheInit, CacheStep, PTL DEF Spec
=============================================================================
