------------------------------ MODULE CaStore ------------------------------
(***************************************************************************)
(* The CA store made by pki.createCaStore.                                 *)
(*                                                                         *)
(* caStore.certs maps the hash of a subject name to nothing, to one        *)
(* certificate object, or to an array of them: the first certificate of a  *)
(* name is stored bare, and the second turns the entry into an array that  *)
(* never goes back.  Every operation that looks a name up also fills in    *)
(* its missing hash, and then rewrites its attributes.  Two certificates   *)
(* are the same when their DER encodings are; the objects may differ.      *)
(* Certificates are signed before a store sees them, so that their         *)
(* encoding has the name as it was then, and does not change with it.      *)
(***************************************************************************)
EXTENDS DistinguishedName, Naturals

CONSTANTS
    Ders,       \* the DER encodings of certificates
    Der         \* Der[c]: the encoding of object c

ASSUME DerAssumption == Der \in [Certs -> Ders]

VARIABLE certs      \* certs[h]: the bucket of the subject hash h

storeVars == <<subject, issuer, certs>>

Absent == [kind |-> "absent", list |-> <<>>]
Buckets == [kind : {"absent", "single", "array"}, list : Seq(Certs)]

StoreTypeOK ==
    /\ NamesTypeOK
    /\ certs \in [Hashes -> Buckets]

-----------------------------------------------------------------------------
(* Lookup                                                                  *)

(* Mutant of IssuerKey: an issuer is hashed the way a parsed name is.       *)
IssuerKeyOfDer(c) ==
    IF issuer[c].hash = NoHash THEN <<"der", Encoded(Issuer[c])>> ELSE issuer[c].hash

SubjectKey(c) == Ensured(subject[c]).hash
IssuerKey(c) == Ensured(issuer[c]).hash

(* Mutant: the subject's hash is not kept. *)
CacheSubjectNever(c) == subject' = subject

CacheSubject(c) == subject' = [subject EXCEPT ![c] = Ensured(@)]
CacheIssuer(c) == issuer' = [issuer EXCEPT ![c] = Ensured(@)]

Holds(list, der) == \E i \in DOMAIN list : Der[list[i]] = der

(* caStore.hasCertificate, its value.                                      *)
Has(c) == Holds(certs[SubjectKey(c)].list, Der[c])

(* caStore.listAllCertificates, as the set of what it lists.               *)
Listed == UNION {{certs[h].list[i] : i \in DOMAIN certs[h].list} : h \in Hashes}

-----------------------------------------------------------------------------
(* Changes to one bucket                                                   *)

WithAdded(bucket, c) ==
    IF bucket.kind = "absent"
    THEN [kind |-> "single", list |-> <<c>>]
    ELSE [kind |-> "array", list |-> Append(bucket.list, c)]

(* The position that holds der.  The loop of removeCertificate runs on     *)
(* after its splice, but NoDuplicateDer leaves it nothing to find.         *)
PositionOf(list, der) == CHOOSE i \in DOMAIN list : Der[list[i]] = der

Spliced(list, i) ==
    [k \in 1 .. Len(list) - 1 |-> IF k < i THEN list[k] ELSE list[k + 1]]

(* Mutant: the whole array goes. *)
WithRemovedDropsAll(bucket, der) == Absent

WithRemoved(bucket, der) ==
    IF bucket.kind = "single" \/ Len(bucket.list) = 1
    THEN Absent
    ELSE [kind |-> "array", list |-> Spliced(bucket.list, PositionOf(bucket.list, der))]

-----------------------------------------------------------------------------
(* Operations of the store                                                 *)

InitStore == InitNames /\ certs = [h \in Hashes |-> Absent]

AddCertificate(c) ==
    /\ certs' = IF Has(c) THEN certs
                ELSE [certs EXCEPT ![SubjectKey(c)] = WithAdded(@, c)]
    /\ CacheSubject(c)
    /\ UNCHANGED issuer

RemoveCertificate(c) ==
    /\ certs' = IF Has(c)
                THEN [certs EXCEPT ![SubjectKey(c)] = WithRemoved(@, Der[c])]
                ELSE certs
    /\ CacheSubject(c)
    /\ UNCHANGED issuer

HasCertificate(c) ==
    /\ CacheSubject(c)
    /\ UNCHANGED <<issuer, certs>>

GetIssuer(c) ==
    /\ CacheIssuer(c)
    /\ UNCHANGED <<subject, certs>>

StoreNext ==
    \E c \in Certs :
        \/ AddCertificate(c)
        \/ RemoveCertificate(c)
        \/ HasCertificate(c)
        \/ GetIssuer(c)

StoreSpec == InitStore /\ [][StoreNext]_storeVars

-----------------------------------------------------------------------------
(* Properties                                                              *)

(* No bucket holds one encoding twice, so a removal leaves no copy behind  *)
(* (addCertificate asks hasCertificate first).                             *)
NoDuplicateDer ==
    \A h \in Hashes : \A i, j \in DOMAIN certs[h].list :
        Der[certs[h].list[i]] = Der[certs[h].list[j]] => i = j

(* A certificate object in the store is filed under the hash its subject   *)
(* caches, so that a later lookup by subject goes to the bucket it is in.  *)
FiledUnderSubject ==
    \A h \in Hashes : \A i \in DOMAIN certs[h].list :
        subject[certs[h].list[i]].hash = h

(* A bare certificate is one certificate, and an array that loses its last *)
(* element loses its key with it (removeCertificate), so that a name whose *)
(* certificates are all gone reads as unknown and not as an empty array,   *)
(* which is a truthy value.                                                *)
BucketShape ==
    \A h \in Hashes :
        /\ certs[h].kind = "absent" <=> Len(certs[h].list) = 0
        /\ certs[h].kind = "single" => Len(certs[h].list) = 1

(* Everything the store lists can be asked for: hasCertificate of a listed *)
(* object answers true.                                                    *)
ListedIsFound == \A c \in Listed : Has(c)

(* getIssuer of a certificate finds every stored certificate of that       *)
(* subject name, as long as both objects were parsed or both were created, *)
(* whatever lookups computed their hashes and in which order.              *)
IssuerIsFound ==
    \A c \in Certs : \A p \in Listed :
        OneOrigin({c, p}) /\ Issuer[c] = Subject[p]
            => \E i \in DOMAIN certs[IssuerKey(c)].list : certs[IssuerKey(c)].list[i] = p

(* The store implements a set of (subject hash, encoding) pairs.           *)
Entries == Hashes \X Ders
Members == UNION {{<<h, Der[certs[h].list[i]]>> : i \in DOMAIN certs[h].list} : h \in Hashes}

Abstract == INSTANCE TrustStore WITH members <- Members
RefinesTrustStore == Abstract!Spec
=============================================================================
