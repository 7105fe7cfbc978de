---------------------------- MODULE Installation ----------------------------
(***************************************************************************)
(* One state directory and the processes that share it: the daemon (main,  *)
(* load_enrollment, the announcing loop of run), further instances of it,  *)
(* and callers of the library.  They create and load the device identity   *)
(* (identity.rs, load_or_create) and grant capabilities (CapabilityStore), *)
(* all without a lock; every file is replaced by write_atomic, whose       *)
(* rename and directory fsync are two steps here.  Processes are killed    *)
(* and power is lost at any moment.                                        *)
(*                                                                         *)
(* What precedes the rename in write_atomic leaves a temporary file at     *)
(* most; nothing scans these two directories, so it is left out.  The      *)
(* public key stands for the DeviceID, which is its hash.  A daemon that   *)
(* ends by itself (its port is taken, its prompt fails to start) is one    *)
(* that is killed.                                                         *)
(*                                                                         *)
(* An optional value is a set with at most one element.                    *)
(***************************************************************************)
EXTENDS Naturals, FiniteSets

CONSTANTS
    Processes,      \* processes that use the state directory
    Keys,           \* keys that may be drawn from /dev/urandom
    Peers,          \* DeviceIDs of other devices
    Capabilities,   \* valid capability names
    MaxCalls        \* bound: calls of grant_capability that pass their check

ASSUME CallsAssumption == MaxCalls \in Nat

(* A file as its readers see it, and what may be left of it by a power     *)
(* loss: renames count only after the fsync of their directory. *)
File(Content) == [held : Content, possible : SUBSET Content]

VARIABLES
    identity,       \* identity/identity.ed25519
    grants,         \* trust/capabilities/<peer>.json, {} when there is none
    paired,         \* active bilateral records: our key and the peer
    certificate,    \* the key identity/device-cert.bin was issued for
    pc,             \* what each process is doing
    key,            \* its DeviceIdentity
    call,           \* its call of grant_capability
    calls,          \* calls that may still pass their check
    \* history variables
    reported,       \* identities that load_or_create has returned
    hasty,          \* one was created or loaded while another was being made
    outage,         \* power has been lost
    announced,      \* the identity last announced on the network
    retired,        \* identities announced before another one
    warranted,      \* grants asked for while the peer was paired with us
    acknowledged,   \* grants whose call has returned
    contended       \* peers with two grants between load and rename at once

files == <<identity, grants>>
processes == <<pc, key, call>>
history == <<reported, hasty, outage, announced, retired,
             warranted, acknowledged, contended>>
vars == <<files, paired, certificate, processes, calls, history>>

Call == [peer : Peers, capability : Capabilities, loaded : SUBSET Capabilities]

FilesOK ==
    /\ identity \in File(SUBSET Keys)
    /\ grants \in [Peers -> File(SUBSET Capabilities)]
    /\ paired \subseteq Keys \X Peers
    /\ certificate \subseteq Keys

Calling == {"checked", "writing", "persisting"}

ProcessesOK ==
    /\ pc \in [Processes -> {"off", "creating", "syncing", "identified", "running"}
                              \cup Calling]
    /\ key \in [Processes -> SUBSET Keys]
    /\ call \in [Processes -> SUBSET Call]
    /\ \A p \in Processes :
          /\ key[p] = {} <=> pc[p] = "off"
          /\ call[p] = {} <=> pc[p] \notin Calling
    /\ calls \in 0..MaxCalls

HistoryOK ==
    /\ reported \subseteq Keys
    /\ announced \subseteq Keys /\ retired \subseteq Keys
    /\ hasty \in BOOLEAN /\ outage \in BOOLEAN
    /\ warranted \subseteq Peers \X Capabilities
    /\ acknowledged \subseteq Peers \X Capabilities
    /\ contended \subseteq Peers

TypeOK == FilesOK /\ ProcessesOK /\ HistoryOK

NoFile == [held |-> {}, possible |-> {{}}]

Init ==
    /\ identity = NoFile
    /\ grants = [d \in Peers |-> NoFile]
    /\ paired = {} /\ certificate = {}
    /\ pc = [p \in Processes |-> "off"]
    /\ key = [p \in Processes |-> {}]
    /\ call = [p \in Processes |-> {}]
    /\ calls = MaxCalls
    /\ hasty = FALSE /\ outage = FALSE
    /\ reported = {} /\ announced = {} /\ retired = {}
    /\ warranted = {} /\ acknowledged = {} /\ contended = {}

-----------------------------------------------------------------------------
(* write_atomic.                                                           *)

Renamed(f, v) == [held |-> v, possible |-> f.possible \cup {v}]
Synced(f) == [f EXCEPT !.possible = {f.held}]
Durable(f) == f.possible = {f.held}

-----------------------------------------------------------------------------
(* The identity.                                                           *)

FreshKeys == Keys \ UNION (identity.possible \cup {reported, certificate}
                             \cup {key[p] : p \in Processes})

Moves(p, from, to) == pc[p] = from /\ pc' = [pc EXCEPT ![p] = to]

(* load_or_create finds a file, or none and draws a key. *)
Start(p) ==
    /\ IF identity.held # {}
         THEN /\ Moves(p, "off", "identified")
              /\ key' = [key EXCEPT ![p] = identity.held]
              /\ reported' = reported \cup identity.held
              /\ hasty' = (hasty \/ ~Durable(identity))
         ELSE /\ Moves(p, "off", "creating")
              /\ \E k \in FreshKeys : key' = [key EXCEPT ![p] = {k}]
              /\ hasty' = (hasty \/ \E q \in Processes : pc[q] = "creating")
              /\ UNCHANGED reported
    /\ UNCHANGED <<files, paired, certificate, calls, call, outage, announced, retired,
                   warranted, acknowledged, contended>>

CreateRenames(p) ==
    /\ Moves(p, "creating", "syncing")
    /\ identity' = Renamed(identity, key[p])
    /\ UNCHANGED <<grants, paired, certificate, calls, key, call, history>>

(* Mutant: the directory is not synced. *)
CreateReturnsUnsynced(p) ==
    /\ Moves(p, "syncing", "identified")
    /\ reported' = reported \cup key[p]
    /\ UNCHANGED <<files, paired, certificate, calls, key, call, hasty, outage, announced,
                   retired, warranted, acknowledged, contended>>

(* Only now is the DeviceID returned, and logged for the issuer. *)
CreateReturns(p) ==
    /\ Moves(p, "syncing", "identified")
    /\ identity' = Synced(identity)
    /\ reported' = reported \cup key[p]
    /\ UNCHANGED <<grants, paired, certificate, calls, key, call, hasty, outage, announced,
                   retired, warranted, acknowledged, contended>>

(* The issuer certifies a DeviceID it has been told. *)
Provision(k) ==
    /\ certificate' = {k}
    /\ UNCHANGED <<files, paired, processes, calls, history>>

Ends(p) ==
    /\ pc' = [pc EXCEPT ![p] = "off"]
    /\ key' = [key EXCEPT ![p] = {}]
    /\ call' = [call EXCEPT ![p] = {}]

(* Mutant: the daemon runs under what its certificate says, if anything. *)
EnrollUnmatched(p) ==
    /\ Moves(p, "identified", "running")
    /\ key' = [key EXCEPT ![p] = certificate]
    /\ UNCHANGED <<files, paired, certificate, call, calls, history>>

(* load_enrollment: without a certificate for this identity main returns. *)
Enroll(p) ==
    /\ \/ /\ certificate = key[p]
          /\ Moves(p, "identified", "running")
          /\ UNCHANGED <<key, call>>
       \/ /\ pc[p] = "identified" /\ certificate # key[p]
          /\ Ends(p)
    /\ UNCHANGED <<files, paired, certificate, calls, history>>

(* Mutant: the identity loaded at start-up goes on being used. *)
IdentityInMemory(p) == key[p]

(* Runtime::identity loads the file anew for every announcement, session   *)
(* and signature. *)
RuntimeIdentity(p) == identity.held

(* sign_fresh: the certificate the daemon started with must be that of the *)
(* identity; otherwise run returns the error and the process ends. *)
Announce(p) ==
    /\ pc[p] = "running"
    /\ IF RuntimeIdentity(p) = key[p]
         THEN /\ announced' = key[p]
              /\ retired' = retired \cup (announced \ key[p])
              /\ UNCHANGED processes
         ELSE Ends(p) /\ UNCHANGED <<announced, retired>>
    /\ UNCHANGED <<files, paired, certificate, calls, reported, hasty, outage, warranted,
                   acknowledged, contended>>

(* A session ends with an active record (see Pairing); validate_local and  *)
(* validate_session_identity want the same match. *)
Pair(p, d) ==
    /\ pc[p] = "running" /\ RuntimeIdentity(p) = key[p]
    /\ paired' = paired \cup (key[p] \X {d})
    /\ UNCHANGED <<files, certificate, calls, processes, history>>

Revoke(b) ==
    /\ paired' = paired \ {b}
    /\ UNCHANGED <<files, certificate, calls, processes, history>>

-----------------------------------------------------------------------------
(* Capabilities.                                                           *)

(* Mutant: a pairing of an earlier identity, or of another peer, will do. *)
HasPairingOfAnyone(k, d) == paired # {}

(* has_active_pairing: an active record of these two DeviceIDs. *)
HasActivePairing(k, d) == \E j \in k : <<j, d>> \in paired

(* grant_capability passes its check; without a pairing it only fails. *)
GrantCheck(p, d, c) ==
    /\ calls > 0
    /\ calls' = calls - 1
    /\ Moves(p, "running", "checked")
    /\ HasActivePairing(key[p], d)
    /\ call' = [call EXCEPT ![p] = {[peer |-> d, capability |-> c, loaded |-> {}]}]
    /\ warranted' = warranted \cup {w \in {<<d, c>>} : key[p] \X {d} \subseteq paired}
    /\ UNCHANGED <<files, paired, certificate, key, reported, hasty, outage, announced,
                   retired, acknowledged, contended>>

(* Some other process has loaded the grants of d and not yet renamed. *)
OthersWriting(p, d) ==
    \E q \in Processes \ {p} : pc[q] = "writing" /\ \E b \in call[q] : b.peer = d

GrantLoad(p) ==
    \E a \in call[p] :
        /\ Moves(p, "checked", "writing")
        /\ call' = [call EXCEPT ![p] = {[a EXCEPT !.loaded = grants[a.peer].held]}]
        /\ contended' = contended \cup {d \in {a.peer} : OthersWriting(p, d)}
        /\ UNCHANGED <<files, paired, certificate, calls, key, reported, hasty, outage, announced,
                       retired, warranted, acknowledged>>

(* Mutant: the new grant replaces the others. *)
ExtendedToOne(a) == {a.capability}

Extended(a) == a.loaded \cup {a.capability}

GrantRenames(p) ==
    \E a \in call[p] :
        /\ Moves(p, "writing", "persisting")
        /\ grants' = [grants EXCEPT ![a.peer] = Renamed(@, Extended(a))]
        /\ UNCHANGED <<identity, paired, certificate, calls, key, call, history>>

GrantReturns(p) ==
    \E a \in call[p] :
        /\ Moves(p, "persisting", "running")
        /\ grants' = [grants EXCEPT ![a.peer] = Synced(@)]
        /\ acknowledged' = acknowledged \cup {<<a.peer, a.capability>>}
        /\ call' = [call EXCEPT ![p] = {}]
        /\ UNCHANGED <<identity, paired, certificate, calls, key, reported, hasty, outage,
                       announced, retired, warranted, contended>>

(* An I/O error, before the rename or after it. *)
GrantFails(p) ==
    /\ pc[p] \in Calling
    /\ pc' = [pc EXCEPT ![p] = "running"]
    /\ call' = [call EXCEPT ![p] = {}]
    /\ UNCHANGED <<files, paired, certificate, calls, key, history>>

-----------------------------------------------------------------------------
(* The process is killed, or fails. *)
Kill(p) ==
    /\ pc[p] # "off"
    /\ Ends(p)
    /\ UNCHANGED <<files, paired, certificate, calls, history>>

(* Each file is what one of the renames since its last fsync made of it. *)
Restored(f) == {[held |-> v, possible |-> {v}] : v \in f.possible}

PowerLoss ==
    /\ identity' \in Restored(identity)
    /\ grants' \in [Peers -> UNION {Restored(grants[d]) : d \in Peers}]
    /\ \A d \in Peers : grants'[d] \in Restored(grants[d])
    /\ pc' = [p \in Processes |-> "off"]
    /\ key' = [p \in Processes |-> {}]
    /\ call' = [p \in Processes |-> {}]
    /\ outage' = TRUE
    /\ UNCHANGED <<paired, certificate, calls, reported, hasty, announced, retired,
                   warranted, acknowledged, contended>>

IdentityStep(p) ==
    \/ Start(p) \/ CreateRenames(p) \/ CreateReturns(p)
    \/ Enroll(p) \/ Announce(p)
    \/ \E d \in Peers : Pair(p, d)

GrantStep(p) ==
    \/ \E d \in Peers, c \in Capabilities : GrantCheck(p, d, c)
    \/ GrantLoad(p) \/ GrantRenames(p) \/ GrantReturns(p) \/ GrantFails(p)

Next ==
    \/ \E p \in Processes : IdentityStep(p) \/ GrantStep(p) \/ Kill(p)
    \/ \E k \in reported : Provision(k)
    \/ \E b \in paired : Revoke(b)
    \/ PowerLoss

Spec == Init /\ [][Next]_vars

-----------------------------------------------------------------------------
(* An installation keeps its identity (docs/PROTOCOL_V3.md:33-35): through *)
(* kills and power losses, all processes that were ever told an identity   *)
(* were told the same one, and the file still holds it.  The exception is  *)
(* named by hasty: load_or_create takes no lock, so that two first starts  *)
(* may overlap, and syncs no file it finds, so that one may go on with an  *)
(* identity whose creator has not synced it.                               *)
IdentityIsPermanent ==
    ~hasty => Cardinality(reported) <= 1 /\ reported \subseteq identity.held

(* Even when first starts overlap, an identity that has been replaced in   *)
(* the file and on the network does not come back: the daemon that still   *)
(* has its certificate ends at its next announcement.  Only a power loss   *)
(* may restore an older file.                                              *)
RetiredStaysSilent == ~outage => announced \cap retired = {}

(* A grant whose call has returned is on file ever after, whatever is      *)
(* killed, lost or revoked and whatever is granted next, as long as no two *)
(* grants to that peer overlapped between load and rename.                 *)
GrantsAreKept ==
    \A g \in acknowledged : g[1] \notin contended => g[2] \in grants[g[1]].held

(* No capability file, now or after a power loss, contains a grant that    *)
(* was not asked for at a time the peer was paired with that very          *)
(* identity, although the check, the load and the rename are separate and  *)
(* the pairing may be revoked between them.                                *)
GrantsAreWarranted ==
    \A d \in Peers : \A v \in grants[d].possible : \A c \in v : <<d, c>> \in warranted
=============================================================================
