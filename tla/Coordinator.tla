---------------------------- MODULE Coordinator ----------------------------
(***************************************************************************)
(* The threads of one daemon (runtime_v3.rs): the discovery loop of run,   *)
(* which fills the PeerCache and starts initiator threads; the listener,   *)
(* which serves one connection at a time; and the PairCoordinator, the     *)
(* gate and cooldown they share.  What a session does to the records is    *)
(* abstracted to its effect on what the store holds for the peer (Pairing  *)
(* has the protocol).                                                      *)
(*                                                                         *)
(* enter holds both locks, so it is one step.  leave takes them one after  *)
(* the other: opening the gate and starting the cooldown are two steps.    *)
(* Time is counted in ticks: ages and cooldowns move together.             *)
(***************************************************************************)
EXTENDS Naturals, FiniteSets, Functions

CONSTANTS
    Lowers,         \* peers whose DeviceID is lower than ours: they initiate
    Highers,        \* peers whose DeviceID is higher: we initiate
    PeerMaxAge,     \* PEER_MAX_AGE, in ticks
    PairCooldown,   \* PAIR_COOLDOWN, in ticks
    PeerCacheLimit, \* PEER_CACHE_LIMIT
    MaxLeaving      \* bound: threads per peer between the two halves of leave

ASSUME PeersAssumption ==
    Lowers \cap Highers = {} /\ "nobody" \notin Lowers \cup Highers
ASSUME LimitsAssumption ==
    /\ PeerMaxAge \in Nat
    /\ PairCooldown \in Nat \ {0}
    /\ PeerCacheLimit \in Nat \ {0}
    /\ MaxLeaving \in Nat \ {0}

Peer == Lowers \cup Highers
Nobody == "nobody"

(* What the store holds for a peer: the directories with a record of it.   *)
Directory == {"active", "pending"}
Holding == SUBSET Directory

VARIABLES
    trust,      \* what the store holds for each peer
    unreadable, \* directories with an entry that scans fail on
    cache,      \* ages of the entries of the PeerCache
    gate,       \* PairCoordinator.active
    cooldown,   \* ticks left of each peer's cooldown
    main,       \* the discovery loop
    listener,   \* the listener thread
    attempts,   \* initiator threads inside their session, per peer
    leaving,    \* initiator threads between the halves of leave, per peer
    quiet,      \* history: ticks left since a failure that asks for a pause
    missed      \* history: peers whose records were all unreadable when their
                \* last session failed

store == <<trust, unreadable>>
coordinator == <<gate, cooldown>>
history == <<quiet, missed>>
vars == <<store, cache, coordinator, main, listener, attempts, leaving, history>>

MainState == [pc : {"idle", "reading", "entering"}, peer : Peer \cup {Nobody}]
ListenerState ==
    [pc : {"idle", "entering", "serving", "prompting", "pairing", "leaving",
           "cooling"},
     peer : Peer \cup {Nobody}, retry : BOOLEAN]

MainIdle == [pc |-> "idle", peer |-> Nobody]
ListenerIdle == [pc |-> "idle", peer |-> Nobody, retry |-> FALSE]

TypeOK ==
    /\ trust \in [Peer -> Holding]
    /\ unreadable \subseteq Directory
    /\ DOMAIN cache \subseteq Peer
    /\ cache \in [DOMAIN cache -> 0..PeerMaxAge + 1]
    /\ gate \in BOOLEAN
    /\ cooldown \in [Peer -> 0..PairCooldown]
    /\ main \in MainState
    /\ listener \in ListenerState
    /\ attempts \in [Highers -> Nat]
    /\ leaving \in [Highers -> 0..MaxLeaving]
    /\ quiet \in [Peer -> 0..PairCooldown]
    /\ missed \subseteq Lowers

Init ==
    /\ trust \in [Peer -> Holding]
    /\ unreadable \in SUBSET Directory
    /\ cache = [p \in {} |-> 0]
    /\ gate = FALSE
    /\ cooldown = [p \in Peer |-> 0]
    /\ main = MainIdle
    /\ listener = ListenerIdle
    /\ attempts = [p \in Highers |-> 0]
    /\ leaving = [p \in Highers |-> 0]
    /\ quiet = [p \in Peer |-> 0]
    /\ missed = {}

-----------------------------------------------------------------------------
(* The store.  A scan fails as a whole on an entry it cannot read or       *)
(* verify, of whatever peer, unless it finds what it looks for first.      *)

(* What the lookups of p may find where errors count as nothing            *)
(* (.ok().flatten()).  A store that cannot be opened is like one with two  *)
(* unreadable directories. *)
Findings(p) == {S \in SUBSET trust[p] : trust[p] \ S \subseteq unreadable}

(* Where an error ends the session: what the lookups find otherwise.  An   *)
(* active directory that cannot be listed counts as empty even there.      *)
Readings(p) ==
    {S \in Findings(p) : "pending" \in unreadable => "pending" \in S}

(* persist_active: remove_stale_pending removes what is pending, unless it *)
(* fails before on an entry it cannot read. *)
Activated(p) ==
    IF "pending" \in unreadable THEN {{"active"}, trust[p] \cup {"active"}}
                                ELSE {{"active"}}

-----------------------------------------------------------------------------
(* PeerCache.                                                              *)

(* What the retain that opens put and by_id keeps. *)
Live == {p \in DOMAIN cache : cache[p] <= PeerMaxAge}

Oldest == {p \in Live : \A q \in Live : cache[q] <= cache[p]}

(* Mutant: the cache only forgets by age. *)
EvictedNever(p) == {{}}

(* The entry put drops to make room for p, if it must: an oldest one. *)
Evicted(p) ==
    IF Cardinality(Live) >= PeerCacheLimit /\ p \notin Live
        THEN {{q} : q \in Oldest} ELSE {{}}

Put(p) ==
    \E gone \in Evicted(p) :
        cache' = [q \in (Live \ gone) \cup {p} |-> IF q = p THEN 0 ELSE cache[q]]

-----------------------------------------------------------------------------
(* PairCoordinator.                                                        *)

(* Mutant: the gate is only checked per peer. *)
AdmitsUngated(p) == cooldown[p] = 0

(* enter, when it returns true; expired cooldowns are dropped first. *)
Admits(p) == ~gate /\ cooldown[p] = 0

(* Mutant: a cooldown is added to what is left of the last one. *)
StartCooldownAdding(p) == cooldown' = [cooldown EXCEPT ![p] = @ + PairCooldown]

StartCooldown(p) == cooldown' = [cooldown EXCEPT ![p] = PairCooldown]
Pause(p) == quiet' = [quiet EXCEPT ![p] = PairCooldown]

-----------------------------------------------------------------------------
(* The discovery loop.                                                     *)

(* A verified announcement of p: it is cached, and the store is opened. *)
MainDiscovers(p) ==
    /\ main.pc = "idle"
    /\ Put(p)
    /\ main' = [pc |-> "reading", peer |-> p]
    /\ UNCHANGED <<store, coordinator, listener, attempts, leaving, history>>

(* An active record with nothing pending is no trigger, as far as either   *)
(* can be read, and only the lower DeviceID initiates. *)
MainReadsStore ==
    /\ main.pc = "reading"
    /\ \/ \E found \in Findings(main.peer) :
              main' = IF found # {"active"} /\ main.peer \in Highers
                         THEN [main EXCEPT !.pc = "entering"] ELSE MainIdle
       \/ unreadable = Directory /\ main' = MainIdle
    /\ UNCHANGED <<store, cache, coordinator, listener, attempts, leaving,
                   history>>

(* enter, and the initiator thread if it admits the peer. *)
MainEnters ==
    /\ main.pc = "entering"
    /\ leaving[main.peer] + attempts[main.peer] < MaxLeaving
    /\ main' = MainIdle
    /\ IF Admits(main.peer)
           THEN /\ gate' = TRUE
                /\ attempts' = [attempts EXCEPT ![main.peer] = @ + 1]
           ELSE UNCHANGED <<gate, attempts>>
    /\ UNCHANGED <<store, cache, cooldown, listener, leaving, history>>

-----------------------------------------------------------------------------
(* Initiator threads: run_initiator and the leave that follows it.         *)

(* co_sign makes a record pending, reconcile makes one active.             *)
WorkerProgress(p) ==
    /\ attempts[p] > 0
    /\ \E next \in {trust[p] \cup {"pending"}} \cup Activated(p) :
          trust' = [trust EXCEPT ![p] = next]
    /\ UNCHANGED <<unreadable, cache, coordinator, main, listener, attempts,
                   leaving, history>>

(* Mutant: only a failure leaves the coordinator. *)
WorkerSucceedsHolding(p) ==
    /\ attempts[p] > 0
    /\ trust[p] = {"active"}
    /\ attempts' = [attempts EXCEPT ![p] = @ - 1]
    /\ UNCHANGED <<store, cache, coordinator, main, listener, leaving, history>>

WorkerSucceeds(p) ==
    /\ attempts[p] > 0
    /\ trust[p] = {"active"}
    /\ attempts' = [attempts EXCEPT ![p] = @ - 1]
    /\ gate' = FALSE
    /\ UNCHANGED <<store, cache, cooldown, main, listener, leaving, history>>

(* run_initiator failed, wherever it was: leave opens the gate. *)
WorkerFails(p) ==
    /\ attempts[p] > 0
    /\ attempts' = [attempts EXCEPT ![p] = @ - 1]
    /\ leaving' = [leaving EXCEPT ![p] = @ + 1]
    /\ gate' = FALSE
    /\ Pause(p)
    /\ UNCHANGED <<store, cache, cooldown, main, listener, missed>>

(* leave, second half. *)
WorkerCools(p) ==
    /\ leaving[p] > 0
    /\ leaving' = [leaving EXCEPT ![p] = @ - 1]
    /\ StartCooldown(p)
    /\ UNCHANGED <<store, cache, gate, main, listener, attempts, history>>

-----------------------------------------------------------------------------
(* The listener: run_listener and run_guarded_responder_with_start.        *)

(* A connection of p, which initiates because its DeviceID is lower than   *)
(* ours: without a live cache entry it is dropped. *)
ListenerAccepts(p) ==
    /\ listener.pc = "idle"
    /\ cache' = Restrict(cache, Live)
    /\ listener' = IF p \in Live
                       THEN [ListenerIdle EXCEPT !.pc = "entering", !.peer = p]
                       ELSE ListenerIdle
    /\ UNCHANGED <<store, coordinator, main, attempts, leaving, history>>

(* The start has been read, or has not come; enter, unless it refuses. *)
ListenerEnters ==
    /\ listener.pc = "entering"
    /\ \/ /\ Admits(listener.peer)
          /\ gate' = TRUE
          /\ listener' = [listener EXCEPT !.pc = "serving"]
       \/ /\ listener' = ListenerIdle
          /\ gate' = gate
    /\ UNCHANGED <<store, cache, cooldown, main, attempts, leaving, history>>

(* Where nothing is found to resume, prepare asks the user. *)
ListenerPrompts ==
    /\ listener.pc = "serving"
    /\ {} \in Readings(listener.peer)
    /\ listener' = [listener EXCEPT !.pc = "prompting"]
    /\ UNCHANGED <<store, cache, coordinator, main, attempts, leaving, history>>

(* A pending record is resumed without asking. *)
ListenerResumes ==
    /\ listener.pc = "serving"
    /\ {"pending"} \in Readings(listener.peer)
    /\ listener' = [listener EXCEPT !.pc = "pairing"]
    /\ UNCHANGED <<store, cache, coordinator, main, attempts, leaving, history>>

UserApproves ==
    /\ listener.pc = "prompting"
    /\ listener' = [listener EXCEPT !.pc = "pairing"]
    /\ trust' = [trust EXCEPT ![listener.peer] = @ \cup {"pending"}]
    /\ UNCHANGED <<unreadable, cache, coordinator, main, attempts, leaving,
                   history>>

(* finalize or reconcile, of a record the initiator has completed. *)
ListenerProgress ==
    /\ listener.pc = "pairing"
    /\ "pending" \in trust[listener.peer]
    /\ \E next \in Activated(listener.peer) :
          trust' = [trust EXCEPT ![listener.peer] = next]
    /\ UNCHANGED <<unreadable, cache, coordinator, main, listener, attempts,
                   leaving, history>>

(* Mutant: resuming takes an active and a pending record. *)
NothingToResumeInEither(found) == found # Directory

(* retry_later, from what the lookups find after a failure. *)
NothingToResume(found) == found = {}

(* The session failed, or the user declined. *)
ListenerFails ==
    /\ listener.pc \in {"serving", "prompting", "pairing"}
    /\ \E found \in Findings(listener.peer) :
          listener' = [listener EXCEPT !.pc = "leaving",
                                       !.retry = NothingToResume(found)]
    /\ IF trust[listener.peer] = {} THEN Pause(listener.peer) ELSE UNCHANGED quiet
    /\ missed' = IF trust[listener.peer] \in (SUBSET unreadable) \ {{}}
                     THEN missed \cup {listener.peer} ELSE missed \ {listener.peer}
    /\ UNCHANGED <<store, cache, coordinator, main, attempts, leaving>>

(* Finalized is sent: with an active record as soon as one is found, and   *)
(* for a record that is not complete without storing it. *)
ListenerSucceeds ==
    /\ \/ listener.pc = "pairing"
       \/ /\ listener.pc = "serving"
          /\ \E found \in Readings(listener.peer) : "active" \in found
    /\ listener' = [listener EXCEPT !.pc = "leaving", !.retry = FALSE]
    /\ UNCHANGED <<store, cache, coordinator, main, attempts, leaving, history>>

(* Mutant: leave forgets the cooldown. *)
ListenerLeavesAtOnce ==
    /\ listener.pc = "leaving"
    /\ gate' = FALSE
    /\ listener' = ListenerIdle
    /\ UNCHANGED <<store, cache, cooldown, main, attempts, leaving, history>>

(* leave, first half. *)
ListenerLeaves ==
    /\ listener.pc = "leaving"
    /\ gate' = FALSE
    /\ listener' = IF listener.retry THEN [listener EXCEPT !.pc = "cooling"]
                                     ELSE ListenerIdle
    /\ UNCHANGED <<store, cache, cooldown, main, attempts, leaving, history>>

(* leave, second half. *)
ListenerCools ==
    /\ listener.pc = "cooling"
    /\ listener' = ListenerIdle
    /\ StartCooldown(listener.peer)
    /\ UNCHANGED <<store, cache, gate, main, attempts, leaving, history>>

-----------------------------------------------------------------------------
(* A pairing is revoked; a pending copy stays.                             *)
Revoke(p) ==
    /\ "active" \in trust[p]
    /\ trust' = [trust EXCEPT ![p] = @ \ {"active"}]
    /\ UNCHANGED <<unreadable, cache, coordinator, main, listener, attempts,
                   leaving, history>>

(* A directory becomes unreadable, by the torn file of a crash, a record   *)
(* that does not verify or an I/O error, or readable again. *)
Disturb ==
    /\ unreadable' \in (SUBSET Directory) \ {unreadable}
    /\ UNCHANGED <<trust, cache, coordinator, main, listener, attempts, leaving,
                   history>>

Less(f) == [p \in DOMAIN f |-> IF f[p] = 0 THEN 0 ELSE f[p] - 1]

Tick ==
    /\ cooldown' = Less(cooldown)
    /\ quiet' = Less(quiet)
    /\ cache' = [p \in DOMAIN cache |->
                    IF cache[p] > PeerMaxAge THEN cache[p] ELSE cache[p] + 1]
    /\ UNCHANGED <<store, gate, main, listener, attempts, leaving, missed>>

-----------------------------------------------------------------------------
Worker(p) ==
    WorkerProgress(p) \/ WorkerSucceeds(p) \/ WorkerFails(p) \/ WorkerCools(p)

Listener ==
    \/ ListenerEnters \/ ListenerPrompts \/ ListenerResumes \/ UserApproves
    \/ ListenerProgress \/ ListenerFails \/ ListenerSucceeds
    \/ ListenerLeaves \/ ListenerCools

Next ==
    \/ \E p \in Peer : MainDiscovers(p) \/ Revoke(p)
    \/ \E p \in Lowers : ListenerAccepts(p)
    \/ MainReadsStore \/ MainEnters
    \/ \E p \in Highers : Worker(p)
    \/ Listener
    \/ Disturb \/ Tick

Spec == Init /\ [][Next]_vars

(***************************************************************************)
(* Every read and write of a session has a timeout and the user eventually *)
(* answers a prompt, so every session ends; nothing forces an announcement *)
(* to arrive, a peer to connect or a session to succeed.                   *)
(***************************************************************************)
Fairness ==
    /\ \A p \in Highers : WF_vars(WorkerSucceeds(p) \/ WorkerFails(p))
    /\ WF_vars(ListenerFails \/ ListenerSucceeds)
    /\ WF_vars(ListenerLeaves)

LiveSpec == Spec /\ Fairness

-----------------------------------------------------------------------------
(* One session at a time in the whole daemon, whoever started it: between  *)
(* enter and leave there is one initiator thread or one responder, and the *)
(* gate is closed exactly then.                                            *)
Serving == listener.pc \in {"serving", "prompting", "pairing", "leaving"}
SingleFlight ==
    /\ \A p \in Highers : attempts[p] <= 1
    /\ \A p, q \in Highers : attempts[p] > 0 /\ attempts[q] > 0 => p = q
    /\ Serving => \A p \in Highers : attempts[p] = 0
    /\ gate <=> Serving \/ \E p \in Highers : attempts[p] > 0

(* A declined or failed session with a peer of which nothing is held is    *)
(* not followed by a prompt about it before the cooldown is over, although *)
(* leave opens the gate before it starts the cooldown.                     *)
NoPromptRetry ==
    [][listener.pc # "prompting" /\ listener'.pc = "prompting"
           => quiet[listener.peer] = 0]_vars

(* A device that initiates to us and has something to resume is kept out   *)
(* by a cooldown only if every directory with a record of it was           *)
(* unreadable when its last session failed: retry_later takes an error for *)
(* an empty store.  One readable record, pending or active, lets it back   *)
(* in.                                                                     *)
RecoveryIsNotDelayed ==
    \A p \in Lowers : cooldown[p] > 0 => trust[p] = {} \/ p \in missed

(* The cache never outgrows its limit, however fast peers appear.          *)
CacheBounded == Cardinality(DOMAIN cache) <= PeerCacheLimit

(* The gate is opened after every session, whatever its outcome.           *)
EveryFlightLands == gate ~> ~gate
=============================================================================
