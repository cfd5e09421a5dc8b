------------------------- MODULE DistinguishedName -------------------------
(***************************************************************************)
(* The distinguished names of X.509 certificate objects, cert.subject and  *)
(* cert.issuer: a list of attributes, and a hash that is kept with them,   *)
(* read by the CA store and by isIssuer.                                   *)
(*   - certificateFromAsn1 (PEM, DER) hashes the DER encoding of the name, *)
(*     and its attributes have the octets that are written there;          *)
(*   - createCertificate leaves the hash null, and the attributes have the *)
(*     text the program gave.  The CA store fills the hash in the first    *)
(*     time it needs it.  It encodes the name for that, reads the encoding *)
(*     back into the attributes, and hashes their types and values.        *)
(* So a store turns the text of a UTF8String into its octets, and the      *)
(* digest of a created name is never that of the same name as it is parsed.*)
(*                                                                         *)
(* Types and values are sequences of characters, for the hash runs over    *)
(* them without a mark between them, and without the tags.  SHA-1 is       *)
(* injective here: a digest is what was hashed, and how.                   *)
(***************************************************************************)
EXTENDS SequencesExt

CONSTANTS
    Certs,      \* the certificate objects of the program
    Subject,    \* Subject[c]: the attributes that c.subject starts with
    Issuer,     \* Issuer[c]: those that c.issuer starts with
    Parsed,     \* the objects built by certificateFromAsn1; the rest were created
    Utf8,       \* Utf8[text]: encodeUtf8
    NoHash      \* the null of an uncomputed hash

-----------------------------------------------------------------------------
(* Names: sequences of attributes [type, tag, value], each in a set of its *)
(* own.  An attribute without a tag is a PrintableString.                  *)

(* RDNAttributesAsArray of dnToAsn1: a UTF8String is encoded on the way in *)
(* and not decoded on the way out.                                         *)
Encoded(name) ==
    [i \in DOMAIN name |->
        [name[i] EXCEPT !.value = IF name[i].tag = "utf8" THEN Utf8[@] ELSE @]]

(* What isIssuer compares.                                                 *)
Fields(name) == [i \in DOMAIN name |-> <<name[i].type, name[i].value>>]

(* What is hashed.                                                         *)
Message(name) ==
    LET fields == Fields(name)
    IN  FlattenSeq([i \in DOMAIN fields |-> fields[i][1] \o fields[i][2]])

(* A name that the store's reading of it leaves as it is.                  *)
Plain(name) == Encoded(name) = name

(* The names and hashes that the objects can have.                         *)
NamesIn(objects) == {Subject[c] : c \in objects} \cup {Issuer[c] : c \in objects}
ReadBack == {Encoded(name) : name \in NamesIn(Certs \ Parsed)}
Names == NamesIn(Certs) \cup ReadBack
Hashes == ({"der"} \X NamesIn(Parsed)) \cup ({"attrs"} \X {Message(name) : name \in ReadBack})

ASSUME NamesAssumption ==
    /\ DOMAIN Subject = Certs
    /\ DOMAIN Issuer = Certs
    /\ Parsed \subseteq Certs
    /\ NoHash \notin Hashes

-----------------------------------------------------------------------------

VARIABLES
    subject,    \* subject[c]: the attributes and the hash of c.subject
    issuer      \* issuer[c]: those of c.issuer

nameVars == <<subject, issuer>>

DistinguishedNames == [attributes : Names, hash : Hashes \cup {NoHash}]

(* A name as a certificate object has it at first.                         *)
NewName(c, name) ==
    [attributes |-> name, hash |-> IF c \in Parsed THEN <<"der", name>> ELSE NoHash]

InitNames ==
    /\ subject = [c \in Certs |-> NewName(c, Subject[c])]
    /\ issuer = [c \in Certs |-> NewName(c, Issuer[c])]

(* #ensureSubjectHasHash: a hash that is present is never recomputed.      *)
Ensured(dn) ==
    IF dn.hash = NoHash
    THEN [attributes |-> Encoded(dn.attributes),
          hash |-> <<"attrs", Message(Encoded(dn.attributes))>>]
    ELSE dn

(* Mutant of SameName: the check for the parent's hash is dropped.          *)
SameNameOneHash(childDn, parentDn) ==
    IF childDn.hash # NoHash
    THEN childDn.hash = parentDn.hash
    ELSE Fields(childDn.attributes) = Fields(parentDn.attributes)

(* isIssuer: the cached hashes decide when both are present, and only then *)
(* are the attributes left out of it.                                      *)
SameName(childDn, parentDn) ==
    IF childDn.hash # NoHash /\ parentDn.hash # NoHash
    THEN childDn.hash = parentDn.hash
    ELSE Fields(childDn.attributes) = Fields(parentDn.attributes)

IsIssuer(child, parent) == SameName(issuer[child], subject[parent])

NamesTypeOK ==
    /\ subject \in [Certs -> DistinguishedNames]
    /\ issuer \in [Certs -> DistinguishedNames]

-----------------------------------------------------------------------------
(* Properties                                                              *)

(* Objects are of one origin if all were parsed or all were created.       *)
OneOrigin(objects) == objects \subseteq Parsed \/ objects \cap Parsed = {}

(* The name that is written in a certificate.                              *)
Written(c, name) == IF c \in Parsed THEN name ELSE Encoded(name)

(* What the comment on isIssuer promises: it tells whether the issuer name *)
(* of the child is the subject name of the parent.                         *)
IsIssuerComparesNames ==
    \A child, parent \in Certs :
        IsIssuer(child, parent) <=> Written(child, Issuer[child]) = Written(parent, Subject[parent])

(* The part of that promise the code keeps.  A yes is right of two parsed  *)
(* names, and of others as far as the types and values they have by then,  *)
(* run together.  A no is never wrong of one name in two objects of one    *)
(* origin, whichever hashes are computed, but for a created name that the  *)
(* store changes when it has hashed it in one of the two objects only.     *)
IsIssuerIsSound ==
    \A child, parent \in Certs :
        LET childDn == issuer[child]
            parentDn == subject[parent]
        IN  /\ IsIssuer(child, parent) =>
                /\ Message(childDn.attributes) = Message(parentDn.attributes)
                /\ {child, parent} \subseteq Parsed => Issuer[child] = Subject[parent]
            /\ OneOrigin({child, parent}) /\ Issuer[child] = Subject[parent]
               /\ \/ child \in Parsed
                  \/ Plain(Issuer[child])
                  \/ childDn.hash = NoHash <=> parentDn.hash = NoHash
               => IsIssuer(child, parent)
=============================================================================
