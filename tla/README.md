# A verification model of omarchy-syncd

This directory is a TLA+ development of the daemon in `src/`: what two enrolled
devices on one LAN do to discover each other, authenticate, ask the user and
end up with identical, doubly signed pairing records; how those records age
with their certificates; and how one installation keeps its identity and its
capabilities. TLC checks small instances; TLAPS proves every safety
property of the passing runs for every value of the constants. Line references are to
`src/src/*.rs`.

    tlc -workers 2 -config PairingSafety.cfg MCPairing.tla     # a run
    tlapm Pairing_proof.tla                                    # a proof

## 1. The system

| Part | State | Operations | Talks to |
|---|---|---|---|
| Discovery (`protocol_v3.rs`, `runtime_v3.rs` `run`) | replay cache of (device, nonce), wall clock | broadcast every 5 s, `verify`, `prune_replay` | UDP broadcast; fills the peer cache |
| Coordination (`runtime_v3.rs`) | `PeerCache`, `PairCoordinator.active`, its cooldowns; the discovery loop, initiator threads, the listener | `put`, `by_id`, `enter`, `leave`, `retry_later` | starts pairing sessions, reads the store |
| Handshake (`pairing.rs`) | `PairingInitiator`, `PairingResponder`: Noise state, transport, peer, transcript | `start`, `receive_*` | frames over TCP; yields an `AuthenticatedPairingSession` with `encrypt` and `decrypt` |
| Pairing session (`runtime_v3.rs` `run_initiator`, `run_responder_with_start`) | locals of one attempt on each side | Request, Prepared, Complete, Finalized | the session's transport, the store, the broker |
| Record store (`trust.rs`) | three directories: active, pending, revoked | `prepare`, `co_sign`, `resume_prepare`, `finalize`, `reconcile`, `revoke`, lookups | file system; each write is temp file, fsync, rename, fsync |
| Authorization broker (`trust.rs`, `runtime_v3.rs`) | none | a prompt that may take arbitrarily long | the user, polkit |
| Certificates, pinned root, enrollment (`protocol_v3.rs`, `main.rs`) | files replaced from outside, read at start-up; copies in every record | `verify`, `load_enrollment` | discovery, handshake and store, each with a time of its own |
| Identity, capabilities (`identity.rs`) | one key file; one grant file per peer; shared by every process of the installation | `load_or_create`, `grant_capability` | capabilities ask the store for an active pairing |
| Entry point (`main.rs`, `lib.rs`) | none | identity, enrollment, `run` | builds the rest |
| Scripts, packaging, units | outside the daemon | rsync/ssh drivers, installation | none with protocol v3 |

What makes it hard, and where it is looked at:

* **Interrupted exchanges.** A record passes through four durable states on two
  machines; any message, thread or daemon may be lost between any two of them.
  No coordinator exists: what each side finds on its disk must be enough.
  (`Pairing`)
* **Reads used later.** The responder reads its records before the handshake
  and decides by them after it; the discovery loop decides on a store that the
  initiator thread reads again. (`Pairing`)
* **Two locks, three kinds of threads.** `leave` opens the gate and starts the
  cooldown separately; discovery, initiator threads and listener interleave.
  (`Coordinator`)
* **Objects a caller drives.** Each handshake method changes its object before
  it has checked everything. (`Handshake`)
* **Two clocks and a bounded cache.** Freshness, retention and capacity of the
  replay cache must fit together. (`Discovery`)
* **Certificates expire and are renewed under stored records.** The code
  verifies them at three different times. (`Renewal`)
* **Processes share a directory without a lock,** and a rename is seen before
  its directory is synced. (`Installation`)

## 2. The modules

    BilateralTrust          what pairing promises, abstractly
      ^ refined by
    Pairing                 two devices: sessions, store, faults, revocation
      ^ relies on fresh bindings ........ Handshake   (several of each object)
      ^ relies on one session per side .. Coordinator (threads of one daemon)
      ^ is triggered by ................. Discovery   (one verifier)
      ^ has certificates that age in .... Renewal     (one responder, several
                                                       initiators)
      ^ signs with the identity of ...... Installation (one state directory)

The `MC*` modules give the constants their values for TLC. The `*_proof` modules
extend the module they are about.
An operator whose comment begins with "Mutant" is a deliberately broken variant
of the definition after it and is not part of any specification; it documents a
bug that the property named beside it in `PROJECT.json` catches.

### Pairing

`Lower` runs `run_initiator`, `Higher` runs `run_responder_with_start`: the
device with the lower DeviceID always initiates (`runtime_v3.rs:801`).

| Variable | Code |
|---|---|
| `active`, `pending`, `revoked` | `trust/pairings`, `trust/pending-pairings`, `trust/revoked-pairings` of each device, as sets of records |
| `litter` | directories that hold a torn temporary file of `write_atomic` |
| `ini`, `res` | program counter and locals of the two functions |
| `link`, `toIni`, `toRes` | the connection (in the accept queue, open, gone) and the unread messages of each direction |
| `consents` | how many prompts have been answered Yes; it is the clock of `authorized_at` |
| `budget` | the faults that may still happen |

The initiator's actions, in order: `IniStart` (trigger of the discovery loop,
connect, read the store, choose reconnect, recovery or first contact),
`IniRequest`, `IniReceivePrepared` (resend, begin to co-sign, or refuse),
`IniCoSign`, `IniReceiveComplete`, `IniReceiveFinalized`, `IniActivate`,
`IniClear`. The responder's: `ResAccept`, `ResReceiveRequest` (send the active
record, send the pending one, resume, or prompt), `UserApproves` or
`UserDenies`, `ResPrepare`, `ResReceiveComplete`, `ResActivate`, `ResClear`.
Writing a record is two actions, so that a crash can fall inside it. The faults
are `IniAbort`, `ResAbort`, `ResRefuse`, `IniStartLate`, `IniCrash` and
`ResCrash`.

What is abstracted:

* A record is its PairID, session binding, authorization time and signers. Both
  devices' certificates and signatures are valid; nobody forges.
* The handshake is one step. Session bindings are fresh (checked in
  `Handshake`, `BindingsAreFresh`), so a first-contact session is identified by
  the random PairID drawn with it, and a reconnect session has the binding 0,
  which no record carries.
* A directory scan returns the record with the least PairID. The real order
  depends on the file names only, and those are random, so any fixed order is
  the same up to the choice of names.
* A complete temporary file in the pending directory is found by every scan
  like the record itself, and counts as the record. A temporary file in the
  active directory, complete or not, has a name that `load` rejects: litter.
* A refusal by the listener or its coordinator is the fault `ResRefuse`.
* `revoke` is a store operation without a caller in the daemon; it may happen
  at any moment, also during a session.

### BilateralTrust

Three variables (agreements, who trusts which, who has revoked which) and four
actions. Under `agreed` = complete records on any disk, `trusted` and `revoked`
= the directories' PairIDs, every step of `Pairing` is one of its steps or
leaves it unchanged. A new agreement is made only when each earlier one has been
acted on and neither device trusts any; the responder trusts first and only
one, the initiator follows, nobody trusts what they have revoked, and no
agreement is ever forgotten.

### Coordinator

One daemon. `main`, `listener`, `attempts` and `leaving` are the positions of
the discovery loop, the listener and the initiator threads; `gate` and
`cooldown` are `PairCoordinator`; `cache` holds the ages of the `PeerCache`
entries. `trust` abstracts the store to the directories that have a record of
each peer, and `unreadable` holds the directories with something in them that
scans fail on (the torn file of `pairing_torn`, the record of
`renewal_rebound`, an I/O error); `Disturb` breaks and repairs them at any
time. `enter` takes both locks and is one action; `leave` takes one after the
other and is two. `quiet` and `missed` are history variables: the pause that a
failure asks for, and the peers whose records were all unreadable when their
last session failed. Panics are left out: no code panics while it holds a lock,
and none was found that panics inside a session, where it would leave the gate
closed.

What an error means depends on where it occurs. In the discovery loop and in
`retry_later` it counts as "nothing found" (`Findings`): a peer that initiates
to us gets the cooldown of 30 s after a failed session although a record of it
is pending or active, if that record could not be read at that moment. That is
why `RecoveryIsNotDelayed` makes an exception of the peers in `missed`, and of
those only. Inside a session an error ends it, except that
`active_pair_for_peer_at` takes an active directory it cannot list for an empty
one (`Readings`), so that a prompt may be shown about a peer with an active
record; `NoPromptRetry` speaks of peers of which nothing is held.

Between the two halves of `leave` the gate is open and the cooldown not yet
there, so that discovery may start one more attempt at once, although the
comment on the cooldown promises a pause. It stays at that: one announcement,
one thread, and no prompt repeats (`NoPromptRetry`), since only the listener
prompts and it leaves in order.

### Handshake

`PairingInitiator` and `PairingResponder` objects, one action per method. The
caller may pass any frame that was ever sent to any object and may go on after
an error, so reordering, duplication and confusion of sessions are all there.
An action includes what a failing call leaves behind: the transport that
`receive_initiator_finish` installs before it looks at the hello, the frame
counter that moves although a proof is refused, the Noise handshake that
`receive_initiator_start` replaces at any time. Noise XX is external: a `Key`
names the two objects and the responder's start, and only its two holders can
write or read frames under it. A certificate is its device and whether others
find it expired.

`Encrypt` and `Decrypt` are the methods of an `AuthenticatedPairingSession`:
`wrote` and `got` are the payloads each end has sent and accepted. The frame
counter moves with every payload encrypted and every payload accepted. A
payload of the last 13 bytes below `MAX_TRANSPORT_PLAINTEXT` passes the check of
`encrypt` (24 bytes of headroom where a frame needs 37), takes its number and
is not sent: the session is stuck, though never wrong. The daemon's own four
messages are far smaller.

### Discovery

Devices announce at most every `Interval` under clocks up to `MaxSkew` from
ours; what is sent stays deliverable for ever, any number of times. `Accept` and
`Refuse` are `verify` with its `prune_replay`; `SetBack` is a wall clock that
jumps back (`now()` reads `SystemTime`). `times` is a history variable.

### Renewal

What `Pairing` leaves out: validity. A certificate is its `not_before`; a record
holds the certificates of the session it was made in and its `authorized_at`.

| Variable | Code |
|---|---|
| `clock` | `SystemTime`, in ticks that are long against the 90 s of the peer cache |
| `cert` | the certificate each running daemon was enrolled with |
| `active`, `pending` | the two directories of each device |
| `session` | the one session the responder's gate admits, with the time each side opened its store |
| `lost` | sessions that may still be lost |

`Connect` and `Reconcile` are the initiator's, `Complete` its answer to Prepared;
`Accept`, `Approve` and `Finalize` are the responder's. `Accept` contains the
handshake: certificates are verified at each side's own time on first contact,
and at no time on reconnect. `Readable` is a directory scan, which validates
every record it meets, of any peer, at that record's `authorized_at`, and fails
as a whole. `Lose` is any failure of a session, `Tick` time, `Renew` the issuer.
What a crash inside one store operation leaves is the subject of `Pairing`.

`Approve` has no time limit, as the code has none: the user may answer when both
certificates have expired, and the record is made and activated all the same,
dated with the time the store was opened (`trust.rs:172`). Nothing here says
that an answer is given under valid certificates. What `ExpiryLeavesReadable`
says is that such a record, like any other, stays readable for the scans, which
verify it at that date: expiry alone makes no record unreadable. Renewal does
(`renewal_rebound`).

### Installation

One state directory and the processes that use it. A file is what its readers
see (`held`) and what a power loss may leave of it (`possible`): the rename of
`write_atomic` changes the first, its directory fsync settles the second.

| Action | Code |
|---|---|
| `Start`, `CreateRenames`, `CreateReturns` | `load_or_create` |
| `Enroll`, `Announce` | `load_enrollment`; the announcing loop of `run`, which loads the identity anew and ends when it is not that of its certificate |
| `Pair`, `Revoke` | an active record appears, disappears |
| `GrantCheck`, `GrantLoad`, `GrantRenames`, `GrantReturns`, `GrantFails` | `grant_capability` |
| `Provision` | the issuer, outside the daemon |
| `Kill`, `PowerLoss` | faults |

`hasty`, `outage`, `contended`, `reported`, `announced`, `retired`, `warranted`
and `acknowledged` are history variables. The first three name the conditions
under which the code promises nothing: first starts that overlap, or a start
that follows a creator killed before its file was synced; a power loss; and two
grants to one peer between load and rename. `Announce` loads the identity and
sends in one step, where `run` does so in two; in between only another daemon
could announce, and the UDP port it would need is bound exclusively.
`warranted` is recorded at the check of `grant_capability`, so
`GrantsAreWarranted` says that the pairing was active when the grant was asked
for; the code does not keep it from being revoked before the write. Two things
the model shows on the way: a grant outlives the revocation of its peer, since
nothing removes it; and `main` returns success when it finds no enrollment, so
that `Restart=on-failure` does not start it again.

## 3. What is checked

| Run | Instance | What it shows |
|---|---|---|
| `pairing_safety` | 4 PairIDs, 3 faults, 1 torn file, 1 denial, 2 revocations per device; 520,774 states | type correctness; `ActiveIsBilateral`, `InitiatorActivatesLast`, `ResponderIsRecoverable`, `ActiveRecordsAgree`, `RevokedStaysRevoked`, `PromptOnlyWithoutState`; `PendingOutlivedByActive`; the refinement `ImplementsBilateralTrust` |
| `pairing_live` | 1 fault, 1 denial, fair; 1,162 states | after any single interruption the devices pair, and nothing pending is left to retrigger recovery |
| `pairing_two_lost` | 2 faults, fair | **violated**: `EventuallyPaired` (below) |
| `pairing_torn` | 1 crash that tears a file, fair | **violated**: `EventuallyPaired` |
| `pairing_revoked` | 1 fault, 1 revocation per device | **violated**: `RevokedConsentIsSpent` |
| `coordinator` | one lower and one higher peer, cache of 1, directories that become unreadable and readable again at any time, fair; 440,352 states | `SingleFlight`, `NoPromptRetry`, `RecoveryIsNotDelayed`, `CacheBounded`, and `EveryFlightLands`; no deadlock |
| `handshake` | two initiators, one responder started twice, three devices, two stored pairings, every construction, two payloads, fair; 145,540 states | `SessionsMatch`, `ResponderIsAnswered`, `CertificatesHold`, `BindingsAreFresh`, `PayloadsAreThePeers`, `EventuallyAuthenticated` |
| `discovery` | 1 device, 4 nonces, ages 3+1, skew of 2, clock from 3 to 9; 398,374 states | `AcceptedOnce`, `HasRoom` |
| `discovery_set_back` | clock set back by up to 3 | **violated**: `NeverAcceptedTwice` |
| `renewal` | two initiators, 3 PairIDs, certificates of 2 ticks in a time of 3, one lost session, fair; 192,408 states | `InitiatorTrustLoads`, `ExpiryLeavesReadable`, `AuthorizedOnce`, `ExpiryErasesNothing` |
| `renewal_rebound` | one initiator, certificates of 2 ticks in a time of 2, fair | **violated**: `AuthorizationIsRebound` |
| `installation` | two processes, two keys, one peer, two capabilities, three calls; 711,927 states | `IdentityIsPermanent`, `RetiredStaysSilent`, `GrantsAreKept`, `GrantsAreWarranted` |

Every passing run also checks its module's `TypeOK`, except `pairing_live`, whose
safety is that of `pairing_safety`.

### The violated runs

Each states what a comment or a document promises, quoted in `PROJECT.json`.

* `pairing_two_lost`. First interruption: the responder has signed, the
  initiator has stored nothing. The next first contact resumes the
  authorization under a new PairID (`resume_prepare`), and the responder keeps
  *two* pending records. Second interruption: the initiator has co-signed the
  new one. It now reconnects under that PairID only, while the responder's scan
  finds the old record first and refuses, at every later attempt.
* `pairing_torn`. A temporary file that a crash cut short makes every later
  directory scan fail; nothing removes it.
* `pairing_revoked`. A crash between writing the active record and removing the
  pending one leaves a pending record that survives a revocation and is later
  resumed without a prompt.
* `discovery_set_back`. An announcement whose entry was pruned becomes fresh
  again when the clock is set back.
* `renewal_rebound`. The user authorizes at time 1 and the session is lost; a
  certificate is renewed at 2. `resume_prepare` binds the authorization of 1 to a
  record with the certificate of 2. The responder's `finalize` verifies it now
  and activates it; the initiator's `reconcile` verifies it at 1 and fails, and
  from then on so does every directory scan that meets the record, on either
  side and for any peer.

### Why the bounds are enough

* *Pairing.* Each fault ends an attempt, and each attempt leaves at most one
  record on each side, so three faults give every combination of two leftovers
  and one interruption of their recovery. A fault-free attempt costs no budget.
  Four PairIDs cover an active record, a revoked one, an old pending record and
  a new one at once. When they run out, no new first contact starts: that, and
  a spent budget, is why deadlock is not checked there (`CHECK_DEADLOCK FALSE`).
  Every bound is one of the constants `Max*`, named in the guards.
* *Coordinator.* The gate, the listener and the discovery loop are single, so
  two peers, one of each kind, give every pair of competitors; a cache of one
  entry is at its limit with the second peer. `MaxLeaving` bounds how many
  threads of one peer wait between the halves of `leave`.
* *Handshake.* One object can be confused with one other; a second start of
  the responder gives a third handshake. The second stored pairing of the same
  devices has expired certificates.
  Two payloads show a repetition, a swap and both directions.
* *Renewal.* Two initiators, because an unreadable record of one peer stops the
  sessions of the other. Lifetimes of 2 in 3 ticks give a certificate that is
  valid, one that has expired and one that is renewed in between; one lost
  session leaves a record of each kind at each side. Time ends and PairIDs run
  out, so deadlock is not checked.
* *Installation.* Two processes race for everything there is to race for; a
  third call shows what becomes of the grants of two. Processes, keys and
  capabilities are symmetric (no liveness is checked). Keys and calls run out, so
  deadlock is not checked.
* *Discovery.* An announcement stays in the cache for up to five ticks after it
  was sent (an age of 3, a sender's clock 2 ahead), within which one device makes
  the three that `MaxReplayEntries` has room for; the clock passes over that
  window. Skew exceeds `MaxFuture`, so that a clock can also be too far ahead.
  Nonces are symmetric (no liveness is checked under symmetry). The run ends when the
  clock reaches `MaxTime`, so deadlock is not checked.

### Fairness

* *Pairing:* `IniProgress`, `ResProgress` and `UserAnswers` are weakly fair.
  Threads run on; every socket operation has a timeout (`configure_stream`);
  the broadcast repeats every 5 s for ever, cooldowns expire after 30 s and
  systemd restarts a failed daemon, so attempts recur; a prompt is eventually
  answered and declined at most `MaxDenials` times. Faults are not fair and
  bounded.
* *Coordinator:* only that sessions end and that `leave` runs. A peer need not
  announce, connect or succeed. The user answers open prompts: notify-send and
  pkcheck have no timeout, and until the answer the gate stays closed.
* *Handshake:* the callers make the next call once its frame is there; the
  liveness property speaks of two objects whose frames nobody else mixes in.
* *Renewal:* each initiator keeps attempting, and a session runs on, as above.
  Time and the issuer are not fair: nobody has to renew anything.
* *Discovery, Installation:* none; their properties are safety.

## 4. What is proved

All for arbitrary constants, under the named assumptions of each module
(PairIDs are positive numbers, bounds are naturals, windows, limits and
lifetimes are naturals, positive where zero would be meaningless; the devices
that announce are finitely many; the responder is none of the initiators).

| Theorem | Statement | Argument |
|---|---|---|
| `Pairing_proof!TypeCorrect` | `Spec => []TypeOK` | `TypeInv` = `TypeOK` and `SessionOK` (which locals are filled at which program counter) is inductive |
| `Pairing_proof!Bilateral` | `Spec => []ActiveIsBilateral` | `StoreInv`: also what is about to be activated is doubly signed, and its PairID is unused in the directory |
| `Pairing_proof!NoResurrection` | `Spec => []RevokedStaysRevoked` | `StoreInv` again |
| `Pairing_proof!ResponderFirst` | `Spec => []InitiatorActivatesLast` | `OrderInv`, below |
| `PairingAgreement_proof!RecordsAgree` | `Spec => []ActiveRecordsAgree` | `AgreementInv`, below |
| `PairingAgreement_proof!Recoverable` | `Spec => []ResponderIsRecoverable` | `AgreementInv` (`HeldInv`) |
| `PairingAgreement_proof!PromptsWithoutState` | `Spec => []PromptOnlyWithoutState` | `AgreementInv` (`AnswerInv`) |
| `PairingAgreement_proof!PendingOutlived` | `Spec => PendingOutlivedByActive` | pending state is removed only by a session that has activated its record |
| `PairingAgreement_proof!Implements` | `Spec => ImplementsBilateralTrust` | step by step, below |
| `PairingAgreement_proof!OneAtATime` | `Spec => []Trust!OneOpenAgreement` | `Implements` and `Promise` |
| `BilateralTrust_proof!Promise` | `TrustSpec => [](TrustAgrees /\ TrustIsNotRevoked /\ OneOpenAgreement)` for two different devices | at most one trusted agreement per device, and the initiator only trusts what the responder does or did |
| `Coordinator_proof!OneSessionAtATime` | `Spec => []SingleFlight` | `FlightInv` adds the types it needs |
| `Coordinator_proof!TypeCorrect` | `Spec => []TypeOK` | `TypeInv`: also which peers each thread can be busy with |
| `Coordinator_proof!RecoveryAdmitted` | `Spec => []RecoveryIsNotDelayed` | `PauseInv`, below |
| `Coordinator_proof!NoPromptStorm` | `Spec => NoPromptRetry` | `PauseInv`, below |
| `Coordinator_proof!BoundedCache` | `Spec => []CacheBounded` | an entry is added below the limit, or another one leaves |
| `Discovery_proof!TypeCorrect` | `Spec => []TypeOK` | with a lower bound for the clock |
| `Discovery_proof!NoReplay` | `Spec => []AcceptedOnce` | an entry leaves the cache only when its announcement is stale, and stays stale while the clock has not been set back |
| `Discovery_proof!RoomForAll` | `Spec => []HasRoom` | `RoomInv`, below |
| `Handshake_proof!TypeCorrect` | `Spec => []TypeOK` | |
| `Handshake_proof!HandshakeInvariant` | `Spec => []HandshakeInv` | below; each of the next five follows from it |
| `Handshake_proof!SessionsAreMatched` | `Spec => []SessionsMatch` | the finish an initiator accepts can only come from the responder of its key |
| `Handshake_proof!RespondersAreAnswered` | `Spec => []ResponderIsAnswered` | the proof a responder accepts can only come from the initiator of its key |
| `Handshake_proof!CertificatesAreGood` | `Spec => []CertificatesHold` | each side has verified before it has a session |
| `Handshake_proof!BindingsDiffer` | `Spec => []BindingsAreFresh` | a binding is a transcript, a transcript names its key, and a key its two objects |
| `Handshake_proof!PayloadsArrive` | `Spec => []PayloadsAreThePeers` | the two frame counters of a direction fix which payload can be read next |
| `Renewal_proof!TypeCorrect` | `Spec => []TypeOK` | |
| `Renewal_proof!TrustLoads` | `Spec => []InitiatorTrustLoads` | `reconcile` verifies at the time every scan verifies at |
| `Renewal_proof!ReadableAfterExpiry` | `Spec => []ExpiryLeavesReadable` | `ValidInv`: also of the record a session carries, and a session at the prompt was admitted under certificates valid at its store time, which cannot be renewed while it lasts |
| `Renewal_proof!AskedOnce` | `Spec => []AuthorizedOnce` | `OnceInv`, below |
| `Installation_proof!TypeCorrect` | `Spec => []TypeOK` | |
| `Installation_proof!Permanent` | `Spec => []IdentityIsPermanent` | unless a start was `hasty`, whatever a power loss may leave of the file is what was reported |
| `Installation_proof!RetiredForGood` | `Spec => []RetiredStaysSilent` | without a power loss a file goes through keys that no process has held before |
| `Installation_proof!AcknowledgedIsKept` | `Spec => []GrantsAreKept` | what was loaded still contains what has been acknowledged |
| `Installation_proof!OnlyWarranted` | `Spec => []GrantsAreWarranted` | also of what a call has loaded and is about to add |

`ResponderFirst` is the most delicate. When Finalized reaches the initiator, the
responder must have activated exactly the record the initiator is holding;
Finalized carries no name, and the responder also sends it for an incomplete
record without storing anything. `OrderInv` therefore says: a Finalized in
flight means the initiator's record is among those the responder has activated
or, if the record is incomplete, that the initiator will refuse it
(`FinalizedInv`); what is on the wire belongs to the current connection and
agrees with both program counters (`LinkInv`); and a record doubly signed in
the initiator's hands is the one it put its signature to (`SignatureInv`). TLC
has also checked `OrderInv` as an invariant of the `pairing_safety` instance.

`NoPromptStorm` is an action property: a step to a prompt finds no pause
running. `PauseInv` says that the pause a failure asks for (`quiet`) is covered
by the cooldown, except while the listener is still between that failure and the
second half of `leave`, when it cannot prompt; and that no cooldown is left of a
peer the listener is serving. For `RecoveryAdmitted` it adds that a listener
about to start a cooldown does so for a peer of which it holds nothing, or
nothing that was readable (`missed`).

`AskedOnce` compares records on different machines that different sessions have
made. `OnceInv` makes the responder the measure: all its records of one
initiator have one date, every record elsewhere, also the one in a session,
has the date of a record there, and while the user is being asked about an
initiator it holds none of that initiator.

`RecordsAgree` and the refinement rest on one invariant, `PairInv` = types,
`StoreInv`, `OrderInv` and `AgreementInv`. `ActiveRecordsAgree` alone is far from
inductive: what matters is not yet in the directories. `AgreementInv` therefore
follows every fully signed record from the moment the initiator's thread lets it
out (`Shown`: pending at the initiator, in a message, about to be activated,
active). `OneAgreement` says that all of these, and the record the initiator is
signing, are one; `HeldInv` that the initiator still holds it, pending, active or
revoked, and clears pending state only when it is active or revoked. A second
record could only be signed in a first contact, so `ContactInv` says what is true
after the responder has let a first contact pass: nothing fully signed is left
anywhere, and the new PairID is none of those revoked. That in turn is only true
if what the responder read before the handshake is not stale when it acts on it,
which is `AnswerInv`.

`Implements` then goes through the steps that change a directory: `IniCoSign`
agrees (or, when the record is already there, stutters), `ResActivate` is
`ResponderTrusts`, `IniActivate` is `InitiatorTrusts`, `Revoke` is `Revoke`, a
crash that leaves their file complete counts like the write itself, and
everything else leaves the abstract state alone, because what it removes from
one directory is in another. `OneAtATime` is what the refinement then gives for
nothing: `Promise` instantiated.

`HandshakeInv` is about frames. An initiator or responder may be handed any frame
ever sent, so the proof has to know, of each frame in existence, who can have
made it and what its sender had verified by then (`Known`). How an object is
constructed never changes, so the transcript that belongs to a key (`Due`) is
determined by the key. The chain is: an initiator finishes only one handshake
(`FinishInv`); the proof of frame 3 is signed over that handshake's transcript by
an initiator that has verified it; a responder exposes its session over a frame 3,
and only then writes frame 4; an initiator exposes its session over a frame 4.
`PayloadInv` counts the frames after that: each end has accepted no more than the
other has sent, and the n-th payload accepted is the n-th that was written and
did go out.

`RoomForAll` is a counting argument about the past. The cache keeps no send
times, and clocks may jump within `MaxSkew`, so `RoomInv` says that there are
send times, one per announcement, that are consistent with what was announced
and `Interval` apart for each device. The entries of one window then map
one-to-one into pairs of a device and one of `PerDevice` places. The proof
forces the size of `PerDevice`: (`MaxAge` + `MaxSkew`) ÷ `Interval` + 1. It is the
skew that counts and not `MaxFuture`, however small: what a clock far ahead has
stamped may be delivered late, when it is no longer in the future, and was sent
up to `MaxSkew` before its timestamp.

**Only model-checked** are the liveness properties, `EventuallyPaired`,
`RecoveryEnds`, `EveryFlightLands`, `EventuallyAuthenticated` and
`ExpiryErasesNothing`: they need fairness, hence ENABLED, which is out of the
prover's reach. The violated properties have counterexamples and nothing to
prove. No module uses a recursive operator.

## 5. What is not modelled

* Wire framing and canonical encodings: parsing without state. A connection
  that breaks inside a frame is a lost connection in `Pairing`; a length matters
  only in `Encrypt` of `Handshake`.
* Signatures, Noise and random numbers are taken as sound.
* How certificates are issued, and the pinned root: data that does not change
  and that the daemon does not make. Who holds which certificate when is in
  `Renewal` and `Installation`.
* Which tool asks the user (notify-send, zenity, pkcheck): the broker has no
  state, and any of them is a prompt that is answered at some time.
* Scripts, packaging, units: they drive external tools and do not touch the
  protocol's state. The unit's `Restart=on-failure` is why a crashed daemon
  starts again in `Pairing`.

## 6. Plan

All the modules above are written, and every safety invariant, action property
and refinement that a passing run checks is proved. What would say more about
the system:

1. An abstract specification of an authenticated session (two devices, one
   binding, two streams) with `Handshake` as its refinement, in place of four
   separate invariants.
2. Safety lemmas towards the liveness properties, such as that a session which
   is not interrupted always has an enabled step, stated without ENABLED.
3. Keeping the line numbers and the map true as the code moves.
