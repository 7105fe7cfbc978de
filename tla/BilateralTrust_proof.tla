------------------------ MODULE BilateralTrust_proof ------------------------
(***************************************************************************)
(* What bilateral trust guarantees, for every set of agreements: whatever  *)
(* implements it inherits these theorems.                                  *)
(***************************************************************************)
EXTENDS BilateralTrust, TLAPS

(* Nobody trusts two agreements, and the initiator only acts on what the   *)
(* responder has acted on. *)
OneEach == \A d \in Party : \A p, q \in trusted[d] : p = q
InitiatorFollows ==
    trusted[Initiator] \cup revoked[Initiator]
        \subseteq trusted[Responder] \cup revoked[Responder]

PromiseInv ==
    TrustTypeOK /\ OneEach /\ InitiatorFollows /\ TrustAgrees /\ TrustIsNotRevoked

LEMMA PromiseInit == TrustInit => PromiseInv
BY DEF TrustInit, PromiseInv, TrustTypeOK, OneEach, InitiatorFollows, TrustAgrees,
       TrustIsNotRevoked, Party

LEMMA PromiseStep ==
    Initiator # Responder /\ PromiseInv /\ [TrustNext]_tvars => PromiseInv'
<1> SUFFICES ASSUME Initiator # Responder, PromiseInv, [TrustNext]_tvars
             PROVE  PromiseInv'
  OBVIOUS
<1> USE DEF PromiseInv, TrustTypeOK, OneEach, InitiatorFollows, TrustAgrees,
            TrustIsNotRevoked, Party
<1>1. ASSUME NEW p \in PairIds, Agree(p) PROVE PromiseInv'
  BY <1>1 DEF Agree
<1>2. ASSUME NEW p \in PairIds, ResponderTrusts(p) PROVE PromiseInv'
  <2>1. trusted'[Initiator] = {} /\ trusted'[Responder] = {p}
    BY <1>2 DEF ResponderTrusts
  <2>2. UNCHANGED <<agreed, revoked>> /\ p \notin revoked[Responder]
    BY <1>2 DEF ResponderTrusts, ActedOn
  <2>3. TrustTypeOK'
    BY <1>2 DEF ResponderTrusts
  <2>4. trusted[Responder] = {}
    BY <1>2 DEF ResponderTrusts
  <2> QED
    BY <2>1, <2>2, <2>3, <2>4
<1>3. ASSUME NEW p \in PairIds, InitiatorTrusts(p) PROVE PromiseInv'
  <2>1. trusted'[Initiator] = {p} /\ trusted'[Responder] = trusted[Responder]
    BY <1>3 DEF InitiatorTrusts
  <2>2. UNCHANGED <<agreed, revoked>> /\ p \notin revoked[Initiator]
    BY <1>3 DEF InitiatorTrusts
  <2>3. TrustTypeOK'
    BY <1>3 DEF InitiatorTrusts
  <2> QED
    BY <1>3, <2>1, <2>2, <2>3 DEF InitiatorTrusts
<1>4. ASSUME NEW d \in Party, NEW p \in PairIds, Revoke(d, p) PROVE PromiseInv'
  <2>1. \A e \in Party :
           /\ trusted'[e] = IF e = d THEN trusted[e] \ {p} ELSE trusted[e]
           /\ revoked'[e] = IF e = d THEN revoked[e] \cup {p} ELSE revoked[e]
    BY <1>4 DEF Revoke
  <2>2. TrustTypeOK' /\ p \in trusted[d]
    BY <1>4 DEF Revoke
  <2> QED
    BY <2>1, <2>2
<1>5. CASE UNCHANGED tvars
  BY <1>5 DEF tvars
<1> QED
  BY <1>1, <1>2, <1>3, <1>4, <1>5 DEF TrustNext

(* What somebody has acted on stays acted on, and a new agreement is made  *)
(* only when all the others are. *)
LEMMA OpenInit == TrustInit => OneOpenAgreement
BY DEF TrustInit, OneOpenAgreement

LEMMA OpenStep ==
    Initiator # Responder /\ PromiseInv /\ OneOpenAgreement /\ [TrustNext]_tvars
        => OneOpenAgreement'
<1> SUFFICES ASSUME Initiator # Responder, PromiseInv, OneOpenAgreement, [TrustNext]_tvars
             PROVE  OneOpenAgreement'
  OBVIOUS
<1>t. trusted \in [Party -> SUBSET PairIds] /\ revoked \in [Party -> SUBSET PairIds]
  BY DEF PromiseInv, TrustTypeOK
<1>1. \A d \in Party : trusted[d] \cup revoked[d] \subseteq trusted'[d] \cup revoked'[d]
  BY <1>t DEF Party, TrustNext, Agree, ResponderTrusts, InitiatorTrusts, Revoke, tvars
<1>2. ActedOn \subseteq ActedOn'
  BY <1>1 DEF ActedOn
<1>3. \/ agreed' = agreed
      \/ agreed \subseteq ActedOn /\ \E p : agreed' = agreed \cup {p}
  BY DEF TrustNext, Agree, ResponderTrusts, InitiatorTrusts, Revoke, tvars
<1> QED
  BY <1>2, <1>3 DEF OneOpenAgreement

(* Two distinct devices never trust different agreements, none trusts an   *)
(* agreement it has revoked, and at most one waits to be acted on.         *)
THEOREM Promise ==
    Initiator # Responder =>
        (TrustSpec => [](TrustAgrees /\ TrustIsNotRevoked /\ OneOpenAgreement))
<1> SUFFICES ASSUME Initiator # Responder
             PROVE  TrustSpec => [](TrustAgrees /\ TrustIsNotRevoked /\ OneOpenAgreement)
  OBVIOUS
<1>1. PromiseInv => TrustAgrees /\ TrustIsNotRevoked
  BY DEF PromiseInv
<1>2. PromiseInv /\ [TrustNext]_tvars => PromiseInv'
  BY PromiseStep
<1>3. PromiseInv /\ OneOpenAgreement /\ [TrustNext]_tvars => OneOpenAgreement'
  BY OpenStep
<1> QED
  BY <1>1, <1>2, <1>3, PromiseInit, OpenInit, PTL DEF TrustSpec
=============================================================================
