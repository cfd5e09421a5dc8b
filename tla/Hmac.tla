-------------------------------- MODULE Hmac --------------------------------
(***************************************************************************)
(* HMAC contexts over message digest objects.  A digest object given to    *)
(* start stays the caller's: other contexts may run on it.  A key given as *)
(* a buffer stays the caller's too, and start without a key reads it again.*)
(*                                                                         *)
(* A digest object is what AbstractDigest promises, the message so far.    *)
(***************************************************************************)
EXTENDS HmacTerms

CONSTANTS
    Contexts,    \* the HMAC contexts
    Strings,     \* the keys given as strings, and the contents of key buffers
    Buffers,     \* the key buffers callers keep
    Messages,    \* the pieces update is given
    MaxText      \* bound: the bytes of a message

VARIABLES
    buffers, \* buffers[b]: what is left to read of a key buffer
    md,      \* md[c]: #messageDigest, an object or None
    key,     \* key[c]: #key, bytes, or the buffer of the caller's they are in
    opadding,\* opadding[c]: #opadding
    mac      \* mac[c]: what the last step, a getMac, returned, or <<>>

(* Observations, read by the properties and by no action.                  *)
VARIABLES
    keyed,   \* keyed[c]: the key c was last given, where it is and for what
    begun    \* begun[c]: the key and text of c's message, None if disturbed

hmacVars == <<digests, buffers, md, key, opadding, mac, keyed, begun>>

(* What is left to read of a string is a key too.                          *)
Keys == UNION {{SubSeq(s, n, Len(s)) : n \in 1 .. Len(s) + 1} : s \in Strings}

(* Every hash fits every block: the longest has 64 bytes, the shortest     *)
(* block too.  A buffer is an object, not the bytes in it.                 *)
ASSUME HmacInputs ==
    /\ Algorithm \in [Objects -> DOMAIN BlockLength]
    /\ \A a, b \in DOMAIN BlockLength : DigestLength[a] =< BlockLength[b]
    /\ \A s \in Strings \cup Messages : s \in Seq({s[i] : i \in DOMAIN s})
    /\ \A b \in Buffers, k \in Keys :
        b # k /\ \A a \in DOMAIN BlockLength : b # Hash(a, k)

-----------------------------------------------------------------------------
(* The operations                                                          *)

NoMac == [c \in Contexts |-> <<>>]

Bytes(k) == IF k \in Buffers THEN buffers[k] ELSE k

(* The contexts of callers whose key buffers hold these bytes.             *)
HmacStart(contents) ==
    /\ digests = [o \in Objects |-> <<>>]
    /\ buffers = contents
    /\ md = [c \in Contexts |-> None]
    /\ key = [c \in Contexts |-> None]
    /\ opadding = [c \in Contexts |-> <<>>]
    /\ mac = NoMac
    /\ keyed = [c \in Contexts |-> None]
    /\ begun = [c \in Contexts |-> None]

HmacInit == \E contents \in [Buffers -> Strings] : HmacStart(contents)

(* Whoever else was in the middle of a message on object o has lost it.    *)
Disturbed(o) == [d \in Contexts |-> IF md[d] = o THEN None ELSE begun[d]]

(* start on object o with the key k.  The buffer of a key that fits is     *)
(* kept itself, not its bytes.                                             *)
Begin(c, o, k) ==
    LET a == Algorithm[o]
        fitting == Fitting(a, Bytes(k))
    IN  /\ md' = [md EXCEPT ![c] = o]
        /\ key' = [key EXCEPT ![c] = IF fitting = Bytes(k) THEN k ELSE fitting]
        /\ digests' = [digests EXCEPT ![o] = IPad(a, fitting)]
        /\ opadding' = [opadding EXCEPT ![c] = OPad(a, fitting)]
        /\ mac' = NoMac
        /\ UNCHANGED buffers

StartWithKey(c, o, k) ==
    /\ Begin(c, o, k)
    /\ keyed' = [keyed EXCEPT ![c] = [given |-> k, key |-> Bytes(k), used |-> {Algorithm[o]}]]
    /\ begun' = [Disturbed(o) EXCEPT ![c] = [key |-> Bytes(k), text |-> <<>>]]

(* The kept key still stands for the one c was given: its caller did not   *)
(* read it since, and no other algorithm than o's found it too long.       *)
StillKeyed(c, o) ==
    /\ keyed[c] # None
    /\ \A a \in keyed[c].used : Len(keyed[c].key) > BlockLength[a] => a = Algorithm[o]

(* Without an object the context's own is used, without a key the kept one.*)
StartWithKeptKey(c, o) ==
    /\ key[c] # None
    /\ Begin(c, o, key[c])
    /\ begun' = [Disturbed(o) EXCEPT ![c] =
                    IF StillKeyed(c, o) THEN [key |-> keyed[c].key, text |-> <<>>] ELSE None]
    /\ keyed' = [keyed EXCEPT ![c] =
                    IF keyed[c] = None THEN None
                    ELSE [keyed[c] EXCEPT !.used = keyed[c].used \cup {Algorithm[o]}]]

HmacUpdate(c, m) ==
    /\ md[c] # None
    /\ Len(digests[md[c]]) + Len(m) =< BlockLength[Algorithm[md[c]]] + MaxText
    /\ digests' = [digests EXCEPT ![md[c]] = @ \o m]
    /\ begun' = [Disturbed(md[c]) EXCEPT ![c] =
                    IF begun[c] = None THEN None
                    ELSE [begun[c] EXCEPT !.text = begun[c].text \o m]]
    /\ mac' = NoMac
    /\ UNCHANGED <<buffers, md, key, opadding, keyed>>

(* Bound: no mac is taken of what a mac left in the object.                *)
NotOuter(o) == Head(digests[o])[1] # "0x5c"

(* The hash of the message, hashed behind the outer pad; the object is     *)
(* left in the middle of the outer message.                                *)
GetMac(c) ==
    /\ md[c] # None /\ NotOuter(md[c])
    /\ LET a == Algorithm[md[c]]
           outer == opadding[c] \o Hash(a, digests[md[c]])
       IN  /\ digests' = [digests EXCEPT ![md[c]] = outer]
           /\ mac' = [NoMac EXCEPT ![c] = Hash(a, outer)]
    /\ begun' = Disturbed(md[c])
    /\ UNCHANGED <<buffers, md, key, opadding, keyed>>

(* A caller reads on in the buffer it gave as a key.                       *)
ReadBuffer(b) ==
    /\ buffers[b] # <<>>
    /\ buffers' = [buffers EXCEPT ![b] = Tail(@)]
    /\ keyed' = [c \in Contexts |->
                    IF keyed[c] # None /\ keyed[c].given = b THEN None ELSE keyed[c]]
    /\ mac' = NoMac
    /\ UNCHANGED <<digests, md, key, opadding, begun>>

HmacNext ==
    \/ \E c \in Contexts :
        \/ \E o \in Objects, k \in Strings \cup Buffers : StartWithKey(c, o, k)
        \/ \E o \in Objects : StartWithKeptKey(c, o)
        \/ \E m \in Messages : HmacUpdate(c, m)
        \/ GetMac(c)
    \/ \E b \in Buffers : ReadBuffer(b)

HmacSpec == HmacInit /\ [][HmacNext]_hmacVars

-----------------------------------------------------------------------------
(* Properties                                                              *)

(* Whatever other contexts did on the same object before a message, and    *)
(* however the key came, new, kept, kept after a change of the object, or  *)
(* read by its owner meanwhile, getMac gives the HMAC of the text under    *)
(* the key of the start; unless another context used the object during it. *)
MacIsStandard ==
    [][\A c \in Contexts : mac'[c] # <<>> /\ begun[c] # None =>
        mac'[c] = StandardMac(Algorithm[md[c]], begun[c].key, begun[c].text)]_hmacVars
=============================================================================
