--------------------------- MODULE AbstractDigest ---------------------------
(***************************************************************************)
(* What a message digest promises: whatever the pieces a message comes in, *)
(* digest gives the hash of the whole, as often as it is asked and without *)
(* ending the message.                                                     *)
(***************************************************************************)
EXTENDS Sequences

CONSTANTS
    Algorithms, \* the hash functions
    Pieces(_),  \* the pieces update may be given at a place in the message
    Hash(_, _)  \* the hash by an algorithm of a message in one piece

VARIABLES
    algorithm,  \* the object's hash function
    message,    \* what update got since the start
    output      \* what digest returned, <<>> when the message changed since

Init == algorithm \in Algorithms /\ message = <<>> /\ output = <<>>

Start == message' = <<>> /\ output' = <<>>

Update == \E p \in Pieces(Len(message)) : message' = message \o p /\ output' = <<>>

Digest == message' = message /\ output' = Hash(algorithm, message)

Next == (Start \/ Update \/ Digest) /\ algorithm' = algorithm

Spec == Init /\ [][Next]_<<algorithm, message, output>>
=============================================================================
