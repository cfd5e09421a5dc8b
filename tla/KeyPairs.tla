------------------------------ MODULE KeyPairs ------------------------------
(***************************************************************************)
(* What key generation promises: one key pair as it was asked for.         *)
(***************************************************************************)
CONSTANTS
    IsKeyPairFor(_, _), \* whether a key pair is as a request asks
    None

VARIABLES
    request, \* the bits of the modulus and the public exponent
    keys     \* the key pair, None before

Init == keys = None

Deliver ==
    /\ keys = None /\ keys' # None
    /\ IsKeyPairFor(keys', request)
    /\ request' = request

Spec == Init /\ [][Deliver]_<<request, keys>>
=============================================================================
