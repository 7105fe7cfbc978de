----------------------------- MODULE Discovery -----------------------------
(***************************************************************************)
(* Authenticated LAN discovery (protocol_v3.rs): devices broadcast signed  *)
(* announcements every DISCOVERY_INTERVAL, the network loses, delays,      *)
(* reorders and duplicates them, and one DiscoveryVerifier decides which   *)
(* to accept, by their timestamps and by the replay cache it prunes.       *)
(*                                                                         *)
(* Certificates and signatures are taken as valid: an announcement that    *)
(* fails them changes nothing a verification of a stale one does not.      *)
(* Time is counted in ticks of one second or more.                         *)
(***************************************************************************)
EXTENDS Integers, FiniteSets

CONSTANTS
    Devices,           \* devices that announce themselves, this one included
    Nonces,            \* nonces a device may draw at random
    MaxAge,            \* MAX_DISCOVERY_AGE_SECONDS
    MaxFuture,         \* MAX_DISCOVERY_FUTURE_SECONDS
    MaxReplayEntries,  \* MAX_REPLAY_ENTRIES
    Interval,          \* DISCOVERY_INTERVAL
    MaxSkew,           \* bound: difference of a sender's clock from ours
    MaxBack,           \* bound: how far our wall clock is ever set back
    Start, MaxTime     \* bounds: what our wall clock shows first and last

ASSUME WindowAssumption ==
    /\ MaxAge \in Nat
    /\ MaxFuture \in Nat
    /\ MaxReplayEntries \in Nat \ {0}
    /\ Interval \in Nat \ {0}
ASSUME ClockAssumption ==
    /\ MaxSkew \in Nat
    /\ MaxBack \in Nat
    /\ Start \in Nat
    /\ MaxTime \in Nat
    /\ MaxSkew + MaxBack <= Start

ASSUME DevicesAssumption == IsFiniteSet(Devices)

VARIABLES
    now,      \* our wall clock (SystemTime)
    back,     \* how far it has been set back so far
    quiet,    \* time since each device last announced itself, up to Interval
    sent,     \* announcements on the network, deliverable any number of times
    seen,     \* the replay cache
    times     \* history: how often each announcement has been accepted

vars == <<now, back, quiet, sent, seen, times>>

Key == Devices \X Nonces
Announcement == [key : Key, timestamp : Nat]
ReplayEntry == [key : Key, accepted_at : Nat, announcement_timestamp : Nat]

TypeOK ==
    /\ now \in Nat
    /\ back \in 0..MaxBack
    /\ quiet \in [Devices -> 0..Interval]
    /\ sent \subseteq Announcement
    /\ seen \subseteq ReplayEntry
    /\ times \in [Key -> Nat]

Init ==
    /\ now = Start
    /\ back = 0
    /\ quiet = [d \in Devices |-> Interval]
    /\ sent = {}
    /\ seen = {}
    /\ times = [k \in Key |-> 0]

-----------------------------------------------------------------------------
(* u64::saturating_sub *)
SaturatingSub(a, b) == IF a < b THEN 0 ELSE a - b

Keys(entries) == {e.key : e \in entries}

(* Mutant: an entry is kept as long as an announcement made when it was    *)
(* accepted would be fresh. *)
RetainedByAcceptance(e) == SaturatingSub(now, e.accepted_at) <= MaxAge

(* prune_replay: what it keeps. *)
Retained(e) ==
    /\ SaturatingSub(now, e.accepted_at) <= MaxAge + MaxFuture
    /\ SaturatingSub(now, e.announcement_timestamp) <= MaxAge

(* Mutant: pruning looks at the time of acceptance alone. *)
PrunedLate ==
    {e \in seen : SaturatingSub(now, e.accepted_at) <= MaxAge + MaxFuture}

Pruned == {e \in seen : Retained(e)}

(* The freshness window. *)
Fresh(a) ==
    /\ a.timestamp <= now + MaxFuture
    /\ SaturatingSub(now, a.timestamp) <= MaxAge

(* Mutant: an entry is dated with the start of its retention, by a         *)
(* subtraction that does not saturate. *)
EntryDatedBack(a) == [key |-> a.key, accepted_at |-> now - (MaxAge + MaxFuture),
                      announcement_timestamp |-> a.timestamp]

Entry(a) == [key |-> a.key, accepted_at |-> now,
             announcement_timestamp |-> a.timestamp]

-----------------------------------------------------------------------------
(* run, every DISCOVERY_INTERVAL: an announcement with a fresh nonce, under *)
(* the sender's clock, reaches the network. *)
Announce(d) ==
    /\ quiet[d] = Interval
    /\ quiet' = [quiet EXCEPT ![d] = 0]
    /\ \E n \in Nonces, t \in (now - MaxSkew)..(now + MaxSkew) :
          /\ \A a \in sent : a.key # <<d, n>>
          /\ sent' = sent \cup {[key |-> <<d, n>>, timestamp |-> t]}
    /\ UNCHANGED <<now, back, seen, times>>

(* verify, on a delivered announcement it accepts. *)
Accept(a) ==
    /\ Fresh(a)
    /\ a.key \notin Keys(Pruned)
    /\ Cardinality(Pruned) < MaxReplayEntries
    /\ seen' = Pruned \cup {Entry(a)}
    /\ times' = [times EXCEPT ![a.key] = @ + 1]
    /\ UNCHANGED <<now, back, quiet, sent>>

(* verify, on anything else: it has pruned before it refuses. *)
Refuse ==
    /\ seen' = Pruned
    /\ UNCHANGED <<now, back, quiet, sent, times>>

Rested(q) == IF q < Interval THEN q + 1 ELSE Interval

(* Time passes.                                                            *)
Tick ==
    /\ now < MaxTime
    /\ now' = now + 1
    /\ quiet' = [d \in Devices |-> Rested(quiet[d])]
    /\ UNCHANGED <<back, sent, seen, times>>

(* The wall clock is set back.                                             *)
SetBack ==
    /\ back < MaxBack
    /\ \E k \in 1..(MaxBack - back) :
          /\ now' = now - k
          /\ back' = back + k
    /\ UNCHANGED <<quiet, sent, seen, times>>

Next ==
    \/ \E d \in Devices : Announce(d)
    \/ \E a \in sent : Accept(a)
    \/ Refuse \/ Tick \/ SetBack

Spec == Init /\ [][Next]_vars

-----------------------------------------------------------------------------
(* No announcement is accepted twice by the same verifier, although the    *)
(* network may deliver it any number of times and its entry is pruned: an  *)
(* entry leaves the cache only when the window refuses its announcement    *)
(* for good.  That is so while the wall clock has not been set back.       *)
AcceptedOnce == back = 0 => \A k \in Key : times[k] <= 1

(* The same without the proviso, as protocol_v3.rs:417-418 and             *)
(* docs/PROTOCOL_V3.md:79-81 put it.                                       *)
NeverAcceptedTwice == \A k \in Key : times[k] <= 1

(* How many announcements of one device the window lets through at once: a *)
(* device whose clock moves about between them may have stamped the oldest *)
(* as late as the newest.                                                  *)
PerDevice == (MaxAge + MaxSkew) \div Interval + 1

(* The cache is never full for well-behaved devices: with room for what    *)
(* each may announce within the window, no fresh announcement is refused   *)
(* for lack of space (again, unless the clock has been set back).          *)
HasRoom ==
    back = 0 /\ MaxReplayEntries >= Cardinality(Devices) * PerDevice =>
        \A a \in sent : Fresh(a) /\ a.key \notin Keys(Pruned)
                            => Cardinality(Pruned) < MaxReplayEntries

=============================================================================
