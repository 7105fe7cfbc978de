--------------------------- MODULE BilateralTrust ---------------------------
(***************************************************************************)
(* What pairing promises, with no messages, files or processes: two        *)
(* devices agree on a pairing, the responder trusts it, the initiator      *)
(* follows, and either may revoke it for good.                             *)
(*                                                                         *)
(* An agreement is a fully signed record.  It is never lost, and there is  *)
(* no second one while nobody has acted on the first.                      *)
(***************************************************************************)
CONSTANTS
    PairIds,               \* names of agreements
    Initiator, Responder   \* the two devices

VARIABLES
    agreed,    \* fully signed agreements that exist on some device
    trusted,   \* agreements each device acts on
    revoked    \* agreements each device has revoked

tvars == <<agreed, trusted, revoked>>

Party == {Initiator, Responder}

TrustTypeOK ==
    /\ agreed \subseteq PairIds
    /\ trusted \in [Party -> SUBSET PairIds]
    /\ revoked \in [Party -> SUBSET PairIds]

TrustInit ==
    /\ agreed = {}
    /\ trusted = [d \in Party |-> {}]
    /\ revoked = [d \in Party |-> {}]

(* Agreements some device trusts or has revoked. *)
ActedOn == UNION {trusted[d] \cup revoked[d] : d \in Party}

(* Both devices have signed p, while neither trusts another agreement and  *)
(* none is waiting to be acted on. *)
Agree(p) ==
    /\ p \notin agreed
    /\ agreed \subseteq ActedOn
    /\ trusted[Initiator] = {}
    /\ trusted[Responder] = {}
    /\ agreed' = agreed \cup {p}
    /\ UNCHANGED <<trusted, revoked>>

(* The responder is the first to trust an agreement, and trusts only one.  *)
ResponderTrusts(p) ==
    /\ p \in agreed
    /\ p \notin ActedOn
    /\ trusted[Responder] = {}
    /\ trusted[Initiator] = {}
    /\ trusted' = [trusted EXCEPT ![Responder] = {p}]
    /\ UNCHANGED <<agreed, revoked>>

(* The initiator follows, also when the responder has revoked meanwhile.   *)
InitiatorTrusts(p) ==
    /\ p \in trusted[Responder] \cup revoked[Responder]
    /\ trusted[Responder] \subseteq {p}
    /\ p \notin revoked[Initiator]
    /\ trusted[Initiator] = {}
    /\ trusted' = [trusted EXCEPT ![Initiator] = {p}]
    /\ UNCHANGED <<agreed, revoked>>

Revoke(d, p) ==
    /\ p \in trusted[d]
    /\ trusted' = [trusted EXCEPT ![d] = @ \ {p}]
    /\ revoked' = [revoked EXCEPT ![d] = @ \cup {p}]
    /\ agreed' = agreed

TrustNext ==
    \E p \in PairIds :
       \/ Agree(p) \/ ResponderTrusts(p) \/ InitiatorTrusts(p)
       \/ \E d \in Party : Revoke(d, p)

TrustSpec == TrustInit /\ [][TrustNext]_tvars

-----------------------------------------------------------------------------
(* The devices never trust different agreements, whichever of them has     *)
(* revoked and paired again. *)
TrustAgrees ==
    \A p \in trusted[Initiator], q \in trusted[Responder] : p = q

(* While an agreement waits to be acted on, there is no other.             *)
OneOpenAgreement == \A p, q \in agreed \ ActedOn : p = q

(* Nobody trusts what they have revoked. *)
TrustIsNotRevoked == \A d \in Party : trusted[d] \cap revoked[d] = {}
=============================================================================
