---------------------------- MODULE MCHandshake ----------------------------
(* Three devices; two pairings of the same two of them, the certificates   *)
(* of one pairing expired since. *)
EXTENDS Handshake

CONSTANTS a, b, c, p1, p2, i1, i2, r1

Stored(d, old) == [device |-> d, expired |-> old]
MCContexts ==
    {[pid |-> p1, initiator |-> Stored(a, FALSE), responder |-> Stored(b, FALSE)],
     [pid |-> p2, initiator |-> Stored(a, TRUE), responder |-> Stored(b, TRUE)]}
=============================================================================
