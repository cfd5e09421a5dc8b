--------------------- MODULE CertificateVerify_proofs ---------------------
(***************************************************************************)
(* Proofs about the CA store and about verifyCertificateChain, for any     *)
(* certificates, names, chains and dates, and for any store calls made     *)
(* between and during verifications.                                       *)
(*                                                                         *)
(* Of the store the inductive invariant joins the type, the shape of the   *)
(* buckets (but not that arrays are never empty, which verification        *)
(* breaks), the absence of duplicates, the filing of every stored object   *)
(* under its own subject hash, and NameOrigin: a name of an object is as   *)
(* it came or as the store leaves it, so its hash can only go from null to *)
(* one value, and its attributes change only then.                         *)
(*                                                                         *)
(* Of a verification it says, besides the types and the store's, what the  *)
(* walk has established so far: unless a failure was overridden, every     *)
(* certificate below depth passed all its checks against the next one, and *)
(* the certificate just accepted did too, the last one against a           *)
(* certificate the store held during the call.                             *)
(*                                                                         *)
(* A second one is for chains that are due to be accepted: they stay due   *)
(* until the last round, which alone takes certificates out of the store.  *)
(***************************************************************************)
EXTENDS CertificateVerify, Powers

-----------------------------------------------------------------------------
(* The store                                                               *)

(* An absent bucket is empty, and a bare certificate is one.               *)
WellShaped(bucket) ==
    /\ bucket \in Buckets
    /\ bucket.kind = "absent" => Len(bucket.list) = 0
    /\ bucket.kind = "single" => Len(bucket.list) = 1

(* The part of BucketShape that only the store's own operations keep.      *)
NotEmptied(bucket) == bucket.kind = "array" => Len(bucket.list) # 0
NoEmptyArray == \A h \in Hashes : NotEmptied(certs[h])

(* No two of a list have the same encoding.                                *)
Unique(list) ==
    \A i, j \in DOMAIN list : Der[list[i]] = Der[list[j]] => i = j

(* Every name of an object is as it came, or as a lookup leaves it.        *)
NameForms(c, name) == {NewName(c, name), Ensured(NewName(c, name))}

NameOrigin ==
    \A c \in Certs :
        /\ subject[c] \in NameForms(c, Subject[c])
        /\ issuer[c] \in NameForms(c, Issuer[c])

(* The inductive invariant.                                                *)
StoreInv ==
    /\ StoreTypeOK
    /\ \A h \in Hashes : WellShaped(certs[h])
    /\ NoDuplicateDer
    /\ FiledUnderSubject
    /\ NameOrigin

-----------------------------------------------------------------------------
(* Lemmas about the buckets                                                *)

(* Storing one more certificate appends it.                                *)
LEMMA WithAddedAppends ==
    ASSUME NEW bucket, WellShaped(bucket), NEW c \in Certs
    PROVE  /\ WellShaped(WithAdded(bucket, c))
           /\ NotEmptied(WithAdded(bucket, c))
           /\ WithAdded(bucket, c).list = Append(bucket.list, c)
           /\ Len(WithAdded(bucket, c).list) = Len(bucket.list) + 1
<1>1. CASE bucket.kind = "absent"
  <2>1. bucket.list = <<>>
    BY <1>1 DEF WellShaped, Buckets
  <2> QED
    BY <1>1, <2>1 DEF WellShaped, NotEmptied, Buckets, WithAdded
<1>2. CASE bucket.kind # "absent"
  BY <1>2 DEF WellShaped, NotEmptied, Buckets, WithAdded
<1> QED
  BY <1>1, <1>2

(* Taking one position out of a list leaves the others in their order.     *)
LEMMA SplicedIsSeq ==
    ASSUME NEW list \in Seq(Certs), NEW i \in DOMAIN list
    PROVE  /\ Spliced(list, i) \in Seq(Certs)
           /\ Len(Spliced(list, i)) = Len(list) - 1
           /\ \A k \in 1 .. Len(list) - 1 :
                Spliced(list, i)[k] = IF k < i THEN list[k] ELSE list[k + 1]
  BY DEF Spliced

(* Removing an encoding a bucket holds takes one position out; every       *)
(* element of the new list stands in the old one, at a place that depends  *)
(* on its position alone and grows with it, and none of them is the        *)
(* encoding removed.                                                       *)
LEMMA WithRemovedDrops ==
    ASSUME NEW bucket, WellShaped(bucket), Unique(bucket.list),
           NEW der, Holds(bucket.list, der)
    PROVE  /\ WellShaped(WithRemoved(bucket, der))
           /\ NotEmptied(WithRemoved(bucket, der))
           /\ Unique(WithRemoved(bucket, der).list)
           /\ \A k \in DOMAIN WithRemoved(bucket, der).list :
                \E m \in DOMAIN bucket.list :
                    WithRemoved(bucket, der).list[k] = bucket.list[m]
           /\ \A d : Holds(WithRemoved(bucket, der).list, d)
                        <=> Holds(bucket.list, d) /\ d # der
<1> DEFINE list == bucket.list
           new == WithRemoved(bucket, der)
<1>1. /\ list \in Seq(Certs)
      /\ Len(list) \in Nat
      /\ DOMAIN list = 1 .. Len(list)
      /\ Len(list) # 0
  BY DEF WellShaped, Buckets, Holds
<1>2. CASE bucket.kind = "single" \/ Len(list) = 1
  <2>1. new = Absent
    BY <1>2 DEF WithRemoved
  <2>2. Len(list) = 1
    BY <1>2 DEF WellShaped
  <2>3. DOMAIN list = {1} /\ Der[list[1]] = der
    BY <1>1, <2>2 DEF Holds
  <2>4. \A d : Holds(list, d) <=> d = der
    BY <2>3 DEF Holds
  <2>5. new.list = <<>> /\ new.kind = "absent" /\ new \in Buckets
    BY <2>1 DEF Absent, Buckets
  <2>6. DOMAIN new.list = {} /\ Len(new.list) = 0
    BY <2>5
  <2>7. \A d : ~Holds(new.list, d)
    BY <2>6 DEF Holds
  <2> QED
    BY <2>4, <2>5, <2>6, <2>7 DEF WellShaped, NotEmptied, Unique
<1>3. CASE bucket.kind # "single" /\ Len(list) # 1
  <2> DEFINE i == PositionOf(list, der)
             at(k) == IF k < i THEN k ELSE k + 1
  <2>1. i \in DOMAIN list /\ Der[list[i]] = der
    BY DEF PositionOf, Holds
  <2>2. new = [kind |-> "array", list |-> Spliced(list, i)]
    BY <1>3 DEF WithRemoved
  <2>3. /\ new.list \in Seq(Certs)
        /\ Len(new.list) = Len(list) - 1
        /\ \A k \in 1 .. Len(list) - 1 :
             new.list[k] = IF k < i THEN list[k] ELSE list[k + 1]
    <3>1. new.list = Spliced(list, i)
      BY <2>2
    <3>2. list \in Seq(Certs) /\ i \in DOMAIN list
      BY <1>1, <2>1
    <3> HIDE DEF new, list, i
    <3> QED
      BY <3>1, <3>2, SplicedIsSeq
  <2>4. DOMAIN new.list = 1 .. Len(list) - 1
    BY <1>1, <2>3
  <2>5. WellShaped(new) /\ NotEmptied(new)
    <3>1. new.kind = "array" /\ new \in Buckets
      BY <2>2, <2>3 DEF Buckets
    <3>2. Len(new.list) # 0
      BY <1>1, <1>3, <2>3
    <3> QED
      BY <3>1, <3>2 DEF WellShaped, NotEmptied
  <2>10. /\ i \in 1 .. Len(list)
        /\ \A k \in 1 .. Len(list) - 1 :
             at(k) \in 1 .. Len(list) /\ at(k) # i /\ new.list[k] = list[at(k)]
    <3>1. i \in 1 .. Len(list)
      BY <1>1, <2>1
    <3> QED
      BY <1>1, <3>1, <2>3
  <2>11. \A j, k \in 1 .. Len(list) - 1 : at(j) = at(k) => j = k
    BY <1>1, <2>10
  <2>6. \A k \in DOMAIN new.list :
            \E m \in DOMAIN list : new.list[k] = list[m] /\ m # i
    BY <1>1, <2>4, <2>10
  <2>7. \A m \in DOMAIN list : m # i =>
            \E k \in DOMAIN new.list : new.list[k] = list[m]
    <3> SUFFICES ASSUME NEW m \in 1 .. Len(list), m # i
                 PROVE \E k \in 1 .. Len(list) - 1 : new.list[k] = list[m]
      BY <1>1, <2>4
    <3>1. CASE m < i
      BY <1>1, <2>1, <2>3, <3>1
    <3>2. CASE m > i
      <4>1. m - 1 \in 1 .. Len(list) - 1 /\ ~(m - 1 < i) /\ (m - 1) + 1 = m
        BY <1>1, <2>1, <3>2
      <4> QED
        BY <2>3, <4>1
    <3> QED
      BY <1>1, <2>1, <3>1, <3>2
  <2>8. Unique(new.list)
    <3> SUFFICES ASSUME NEW j \in 1 .. Len(list) - 1, NEW k \in 1 .. Len(list) - 1,
                        Der[new.list[j]] = Der[new.list[k]]
                 PROVE j = k
      BY <2>4 DEF Unique
    <3>1. \A m, n \in 1 .. Len(list) : Der[list[m]] = Der[list[n]] => m = n
      BY <1>1 DEF Unique
    <3>2. Der[list[at(j)]] = Der[list[at(k)]]
      BY <2>10
    <3>3. at(j) = at(k)
      <4> HIDE DEF at, list, i
      <4> QED
        BY <2>10, <3>1, <3>2
    <3> QED
      BY <2>11, <3>3
  <2>9. \A d : Holds(new.list, d) <=> Holds(list, d) /\ d # der
    <3> SUFFICES ASSUME NEW d
                 PROVE Holds(new.list, d) <=> Holds(list, d) /\ d # der
      OBVIOUS
    <3>1. \A m \in DOMAIN list : Der[list[m]] = der => m = i
      BY <2>1 DEF Unique
    <3>2. ASSUME Holds(new.list, d) PROVE Holds(list, d) /\ d # der
      BY <2>6, <3>1, <3>2 DEF Holds
    <3>3. ASSUME Holds(list, d), d # der PROVE Holds(new.list, d)
      BY <2>1, <2>7, <3>3 DEF Holds
    <3> QED
      BY <3>2, <3>3
  <2> QED
    BY <2>5, <2>6, <2>8, <2>9
<1> QED
  BY <1>2, <1>3

-----------------------------------------------------------------------------
(* The invariant of the store                                              *)

(* The invariant, bucket by bucket.                                        *)
LEMMA StoreInvByBucket ==
    StoreInv <=>
        /\ NamesTypeOK
        /\ certs \in [Hashes -> Buckets]
        /\ \A h \in Hashes :
            /\ WellShaped(certs[h])
            /\ Unique(certs[h].list)
            /\ \A i \in DOMAIN certs[h].list : subject[certs[h].list[i]].hash = h
        /\ NameOrigin
  BY DEF StoreInv, StoreTypeOK, NoDuplicateDer, FiledUnderSubject,
         WellShaped, Unique

(* What a name of an object can be, and the hash it gets.                  *)
LEMMA FormsOfAName ==
    ASSUME NEW c \in Certs, NEW name \in {Subject[c], Issuer[c]},
           NEW dn \in NameForms(c, name)
    PROVE  /\ c \in Parsed => dn = [attributes |-> name, hash |-> <<"der", name>>]
           /\ c \notin Parsed =>
                \/ dn = [attributes |-> name, hash |-> NoHash]
                \/ dn = [attributes |-> Encoded(name),
                         hash |-> <<"attrs", Message(Encoded(name))>>]
           /\ Ensured(dn) = Ensured(NewName(c, name))
           /\ Ensured(dn).hash = IF c \in Parsed THEN <<"der", name>>
                                 ELSE <<"attrs", Message(Encoded(name))>>
           /\ dn.hash # NoHash => Ensured(dn) = dn
           /\ dn \in DistinguishedNames
           /\ Ensured(dn) \in DistinguishedNames
           /\ Ensured(dn).hash \in Hashes
<1> DEFINE msg == Message(Encoded(name))
<1>1. CASE c \in Parsed
  <2>1. <<"der", name>> \in Hashes /\ name \in Names
    BY <1>1 DEF Hashes, Names, NamesIn
  <2>2. <<"der", name>> # NoHash
    BY <2>1, NamesAssumption
  <2>3. dn = [attributes |-> name, hash |-> <<"der", name>>]
    BY <1>1, <2>2 DEF NameForms, NewName, Ensured
  <2>4. Ensured(dn) = dn /\ NewName(c, name) = dn
    BY <1>1, <2>2, <2>3 DEF NewName, Ensured
  <2> QED
    BY <1>1, <2>1, <2>3, <2>4 DEF DistinguishedNames
<1>2. CASE c \notin Parsed
  <2>1. Encoded(name) \in ReadBack
    BY <1>2 DEF ReadBack, NamesIn
  <2>2. <<"attrs", msg>> \in Hashes /\ name \in Names /\ Encoded(name) \in Names
    BY <2>1 DEF Hashes, Names, NamesIn
  <2> HIDE DEF msg
  <2>3. <<"attrs", msg>> # NoHash
    BY <2>2, NamesAssumption
  <2>4. NewName(c, name) = [attributes |-> name, hash |-> NoHash]
    BY <1>2 DEF NewName
  <2>5. Ensured(NewName(c, name)) = [attributes |-> Encoded(name), hash |-> <<"attrs", msg>>]
    BY <2>4 DEF Ensured, msg
  <2>6. Ensured(Ensured(NewName(c, name))) = Ensured(NewName(c, name))
    BY <2>3, <2>5 DEF Ensured
  <2>7. dn = NewName(c, name) \/ dn = Ensured(NewName(c, name))
    BY DEF NameForms
  <2>8. Ensured(dn) = [attributes |-> Encoded(name), hash |-> <<"attrs", msg>>]
    BY <2>5, <2>6, <2>7
  <2>9. dn \in DistinguishedNames /\ Ensured(dn) \in DistinguishedNames
    BY <2>2, <2>4, <2>5, <2>7, <2>8 DEF DistinguishedNames
  <2> QED
    BY <1>2, <2>2, <2>3, <2>4, <2>5, <2>7, <2>8, <2>9 DEF msg
<1> QED
  BY <1>1, <1>2

(* Names of the same types and values are hashed alike.                    *)
LEMMA FieldsGiveMessage ==
    ASSUME NEW a, NEW b, Fields(a) = Fields(b)
    PROVE  Message(a) = Message(b)
  BY DEF Message

(* A yes of isIssuer is right of the names as they are by then.            *)
LEMMA SameNameIsRight ==
    ASSUME NEW c \in Certs, NEW p \in Certs,
           NEW of \in NameForms(c, Issuer[c]), NEW by \in NameForms(p, Subject[p]),
           SameName(of, by)
    PROVE  /\ Message(of.attributes) = Message(by.attributes)
           /\ {c, p} \subseteq Parsed => Issuer[c] = Subject[p]
           /\ c \in Parsed => of.attributes = Issuer[c]
           /\ p \in Parsed => by.attributes = Subject[p]
           /\ of.attributes \in {Issuer[c], Encoded(Issuer[c])}
           /\ by.attributes \in {Subject[p], Encoded(Subject[p])}
<1>1. /\ c \in Parsed => of = [attributes |-> Issuer[c], hash |-> <<"der", Issuer[c]>>]
      /\ c \notin Parsed =>
            \/ of = [attributes |-> Issuer[c], hash |-> NoHash]
            \/ of = [attributes |-> Encoded(Issuer[c]),
                     hash |-> <<"attrs", Message(Encoded(Issuer[c]))>>]
      /\ of.hash \in Hashes \cup {NoHash}
  BY FormsOfAName DEF DistinguishedNames
<1>2. /\ p \in Parsed => by = [attributes |-> Subject[p], hash |-> <<"der", Subject[p]>>]
      /\ p \notin Parsed =>
            \/ by = [attributes |-> Subject[p], hash |-> NoHash]
            \/ by = [attributes |-> Encoded(Subject[p]),
                     hash |-> <<"attrs", Message(Encoded(Subject[p]))>>]
      /\ by.hash \in Hashes \cup {NoHash}
  BY FormsOfAName DEF DistinguishedNames
<1>3. of.hash = NoHash \/ by.hash = NoHash => Message(of.attributes) = Message(by.attributes)
  BY FieldsGiveMessage DEF SameName
<1>4. of.hash # NoHash /\ by.hash # NoHash => of.hash = by.hash
  BY DEF SameName
<1>5. /\ c \in Parsed => <<"der", Issuer[c]>> # NoHash
      /\ p \in Parsed => <<"der", Subject[p]>> # NoHash
  BY NamesAssumption DEF Hashes, NamesIn
<1> QED
  BY <1>1, <1>2, <1>3, <1>4, <1>5

(* A no is never wrong of one name in two objects of one origin, unless it *)
(* is changed in one of them only.                                         *)
LEMMA SameNameIsFound ==
    ASSUME NEW c \in Certs, NEW p \in Certs,
           NEW of \in NameForms(c, Issuer[c]), NEW by \in NameForms(p, Subject[p]),
           OneOrigin({c, p}), Issuer[c] = Subject[p],
           c \in Parsed \/ Plain(Issuer[c]) \/ (of.hash = NoHash <=> by.hash = NoHash)
    PROVE  SameName(of, by)
<1> DEFINE name == Issuer[c]
           msg == Message(Encoded(name))
<1>1. c \in Parsed <=> p \in Parsed
  BY DEF OneOrigin
<1>2. CASE c \in Parsed
  <2>1. of = by
    BY <1>1, <1>2, FormsOfAName
  <2> QED
    BY <2>1 DEF SameName
<1>3. CASE c \notin Parsed
  <2>1. /\ \/ of = [attributes |-> name, hash |-> NoHash]
           \/ of = [attributes |-> Encoded(name), hash |-> <<"attrs", msg>>]
        /\ \/ by = [attributes |-> name, hash |-> NoHash]
           \/ by = [attributes |-> Encoded(name), hash |-> <<"attrs", msg>>]
    <3>1. by \in NameForms(p, name) /\ name \in {Subject[p], Issuer[p]} /\ p \notin Parsed
      BY <1>1, <1>3
    <3>2. of \in NameForms(c, name) /\ name \in {Subject[c], Issuer[c]}
      OBVIOUS
    <3>3. \/ of = [attributes |-> name, hash |-> NoHash]
          \/ of = [attributes |-> Encoded(name), hash |-> <<"attrs", Message(Encoded(name))>>]
      BY <1>3, <3>2, FormsOfAName
    <3>4. \/ by = [attributes |-> name, hash |-> NoHash]
          \/ by = [attributes |-> Encoded(name), hash |-> <<"attrs", Message(Encoded(name))>>]
      BY <3>1, FormsOfAName
    <3> QED
      BY <3>3, <3>4
  <2>2. CASE Encoded(name) = name
    <3>1. of.attributes = name /\ by.attributes = name
      BY <2>1, <2>2
    <3>2. of.hash \in {NoHash, <<"attrs", msg>>} /\ by.hash \in {NoHash, <<"attrs", msg>>}
      BY <2>1
    <3> QED
      BY <3>1, <3>2 DEF SameName
  <2>3. CASE of.hash = NoHash <=> by.hash = NoHash
    <3>1. <<"attrs", msg>> # NoHash
      <4>1. <<"attrs", msg>> \in Hashes
        BY <1>3 DEF Hashes, ReadBack, NamesIn
      <4> QED
        BY <4>1, NamesAssumption
    <3> HIDE DEF msg, name
    <3>2. of = by
      BY <2>1, <2>3, <3>1
    <3> QED
      BY <3>2 DEF SameName
  <2> QED
    BY <1>3, <2>2, <2>3 DEF Plain
<1> QED
  BY <1>2, <1>3

(* A key is always a hash, the one its object's origin gives, and caching  *)
(* it keeps every hash that is there.                                      *)
LEMMA KeysAreHashes ==
    ASSUME NameOrigin, NEW c \in Certs
    PROVE  /\ SubjectKey(c) \in Hashes
           /\ IssuerKey(c) \in Hashes
           /\ SubjectKey(c) = IF c \in Parsed THEN <<"der", Subject[c]>>
                              ELSE <<"attrs", Message(Encoded(Subject[c]))>>
           /\ IssuerKey(c) = IF c \in Parsed THEN <<"der", Issuer[c]>>
                             ELSE <<"attrs", Message(Encoded(Issuer[c]))>>
           /\ Ensured(subject[c]) \in NameForms(c, Subject[c]) \cap DistinguishedNames
           /\ Ensured(issuer[c]) \in NameForms(c, Issuer[c]) \cap DistinguishedNames
           /\ subject[c].hash \in Hashes => Ensured(subject[c]) = subject[c]
<1>1. /\ subject[c] \in NameForms(c, Subject[c])
      /\ issuer[c] \in NameForms(c, Issuer[c])
  BY DEF NameOrigin
<1>2. /\ Ensured(subject[c]) = Ensured(NewName(c, Subject[c]))
      /\ Ensured(subject[c]).hash \in Hashes
      /\ Ensured(subject[c]) \in DistinguishedNames
      /\ Ensured(subject[c]).hash = IF c \in Parsed THEN <<"der", Subject[c]>>
                                    ELSE <<"attrs", Message(Encoded(Subject[c]))>>
      /\ subject[c].hash # NoHash => Ensured(subject[c]) = subject[c]
  BY <1>1, FormsOfAName
<1>3. /\ Ensured(issuer[c]) = Ensured(NewName(c, Issuer[c]))
      /\ Ensured(issuer[c]).hash \in Hashes
      /\ Ensured(issuer[c]) \in DistinguishedNames
      /\ Ensured(issuer[c]).hash = IF c \in Parsed THEN <<"der", Issuer[c]>>
                                   ELSE <<"attrs", Message(Encoded(Issuer[c]))>>
  BY <1>1, FormsOfAName
<1> QED
  BY <1>2, <1>3, NamesAssumption DEF SubjectKey, IssuerKey, NameForms

(* Computing a missing hash changes no hash that is there.                 *)
LEMMA CachingKeepsHashes ==
    ASSUME NamesTypeOK, NameOrigin, NEW c \in Certs,
           \/ CacheSubject(c) /\ UNCHANGED issuer
           \/ CacheIssuer(c) /\ UNCHANGED subject
    PROVE  /\ NamesTypeOK'
           /\ NameOrigin'
           /\ \A d \in Certs : subject[d].hash \in Hashes => subject'[d].hash = subject[d].hash
           /\ CacheSubject(c) => subject'[c].hash = SubjectKey(c)
<1>1. /\ Ensured(subject[c]) \in NameForms(c, Subject[c]) \cap DistinguishedNames
      /\ Ensured(issuer[c]) \in NameForms(c, Issuer[c]) \cap DistinguishedNames
      /\ subject[c].hash \in Hashes => Ensured(subject[c]) = subject[c]
  BY KeysAreHashes
<1>2. CASE CacheSubject(c) /\ UNCHANGED issuer
  BY <1>1, <1>2 DEF NamesTypeOK, NameOrigin, CacheSubject, SubjectKey
<1>3. CASE CacheIssuer(c) /\ UNCHANGED subject
  <2>1. NamesTypeOK' /\ NameOrigin'
    BY <1>1, <1>3 DEF NamesTypeOK, NameOrigin, CacheIssuer
  <2>2. CacheSubject(c) => subject'[c].hash = SubjectKey(c)
    BY DEF CacheSubject, SubjectKey, NamesTypeOK
  <2> QED
    BY <1>3, <2>1, <2>2
<1> QED
  BY <1>2, <1>3

(* An empty store satisfies the invariant.                                 *)
LEMMA InitStoreInv == InitStore => StoreInv
<1> SUFFICES ASSUME InitStore PROVE StoreInv
  OBVIOUS
<1>1. \A c \in Certs :
        /\ subject[c] = NewName(c, Subject[c])
        /\ issuer[c] = NewName(c, Issuer[c])
  BY DEF InitStore, InitNames
<1>2. NameOrigin
  BY <1>1 DEF NameOrigin, NameForms
<1>3. NamesTypeOK
  <2>1. \A c \in Certs : subject[c] \in DistinguishedNames /\ issuer[c] \in DistinguishedNames
    BY <1>2, FormsOfAName DEF NameOrigin
  <2> QED
    BY <2>1 DEF InitStore, InitNames, NamesTypeOK
<1>4. Absent \in Buckets /\ WellShaped(Absent) /\ DOMAIN Absent.list = {}
  BY DEF Absent, Buckets, WellShaped
<1>5. \A h \in Hashes : certs[h] = Absent
  BY DEF InitStore
<1>6. certs \in [Hashes -> Buckets]
  BY <1>4 DEF InitStore
<1> QED
  BY <1>2, <1>3, <1>4, <1>5, <1>6, StoreInvByBucket DEF Unique

(* Changing one bucket for another that is well shaped, without            *)
(* duplicates, and made of objects filed under the same key.               *)
LEMMA OneBucketChanges ==
    ASSUME StoreInv, NEW key \in Hashes, NEW bucket,
           NamesTypeOK', NameOrigin',
           \A d \in Certs : subject[d].hash \in Hashes => subject'[d].hash = subject[d].hash,
           certs' = [certs EXCEPT ![key] = bucket],
           WellShaped(bucket), Unique(bucket.list),
           \A i \in DOMAIN bucket.list : subject'[bucket.list[i]].hash = key
    PROVE  StoreInv'
<1>1. /\ certs \in [Hashes -> Buckets]
      /\ \A h \in Hashes :
            /\ WellShaped(certs[h])
            /\ Unique(certs[h].list)
            /\ \A i \in DOMAIN certs[h].list : subject[certs[h].list[i]].hash = h
  BY StoreInvByBucket
<1>2. certs' \in [Hashes -> Buckets]
  BY <1>1 DEF WellShaped
<1>3. ASSUME NEW h \in Hashes
      PROVE /\ WellShaped(certs'[h])
            /\ Unique(certs'[h].list)
            /\ \A i \in DOMAIN certs'[h].list : subject'[certs'[h].list[i]].hash = h
  <2>1. CASE h = key
    BY <1>1, <2>1
  <2>2. CASE h # key
    <3>1. certs'[h] = certs[h]
      BY <1>1, <2>2
    <3>2. \A i \in DOMAIN certs[h].list : certs[h].list[i] \in Certs
      BY <1>1 DEF Buckets
    <3> QED
      BY <1>1, <3>1, <3>2
  <2> QED
    BY <2>1, <2>2
<1>4. \A h \in Hashes :
        /\ WellShaped(certs[h])'
        /\ Unique(certs[h].list)'
        /\ (\A i \in DOMAIN certs[h].list : subject[certs[h].list[i]].hash = h)'
  BY <1>3 DEF WellShaped, Unique
<1> QED
  BY <1>2, <1>4 DEF StoreInv, StoreTypeOK, NoDuplicateDer,
     FiledUnderSubject, WellShaped, Unique

(* Neither does a call that only computes hashes break it.                 *)
LEMMA NoBucketChanges ==
    ASSUME StoreInv, NamesTypeOK', NameOrigin', UNCHANGED certs,
           \A d \in Certs : subject[d].hash \in Hashes => subject'[d].hash = subject[d].hash
    PROVE  StoreInv'
<1>1. ASSUME NEW h \in Hashes, NEW i \in DOMAIN certs[h].list
      PROVE subject'[certs[h].list[i]].hash = h
  <2>1. certs[h].list[i] \in Certs
    BY DEF StoreInv, StoreTypeOK, Buckets
  <2>2. subject[certs[h].list[i]].hash = h
    BY DEF StoreInv, FiledUnderSubject
  <2> QED
    BY <2>1, <2>2
<1> QED
  BY <1>1 DEF StoreInv, StoreTypeOK, NoDuplicateDer, FiledUnderSubject

(* What an addition does to the bucket of its subject.                     *)
LEMMA AddCertificateStep ==
    ASSUME StoreInv, NEW c \in Certs, AddCertificate(c)
    PROVE  /\ StoreInv'
           /\ \A h \in Hashes : certs'[h] = certs[h] \/ NotEmptied(certs'[h])
           /\ \A h \in Hashes : \A d :
                Holds(certs'[h].list, d) <=>
                    Holds(certs[h].list, d) \/ (h = SubjectKey(c) /\ d = Der[c])
<1> DEFINE key == SubjectKey(c)
           new == WithAdded(certs[key], c)
<1>1. NamesTypeOK /\ NameOrigin /\ certs \in [Hashes -> Buckets]
  BY StoreInvByBucket
<1>2. key \in Hashes
  BY <1>1, KeysAreHashes
<1>3. /\ NamesTypeOK'
      /\ NameOrigin'
      /\ \A d \in Certs : subject[d].hash \in Hashes => subject'[d].hash = subject[d].hash
      /\ subject'[c].hash = key
  BY <1>1, CachingKeepsHashes DEF AddCertificate
<1>4. CASE Has(c)
  <2>1. UNCHANGED certs
    BY <1>4 DEF AddCertificate
  <2> QED
    BY <1>3, <1>4, <2>1, NoBucketChanges DEF Has
<1>5. CASE ~Has(c)
  <2>1. certs' = [certs EXCEPT ![key] = new]
    BY <1>5 DEF AddCertificate
  <2>2. /\ WellShaped(certs[key])
        /\ Unique(certs[key].list)
        /\ \A i \in DOMAIN certs[key].list : subject[certs[key].list[i]].hash = key
    BY <1>2, StoreInvByBucket
  <2>3. /\ WellShaped(new) /\ NotEmptied(new)
        /\ new.list = Append(certs[key].list, c)
    BY <2>2, WithAddedAppends
  <2>4. certs[key].list \in Seq(Certs)
    BY <1>1, <1>2 DEF Buckets
  <2>5. /\ DOMAIN certs[key].list = 1 .. Len(certs[key].list)
        /\ DOMAIN new.list = 1 .. Len(certs[key].list) + 1
        /\ \A i \in 1 .. Len(certs[key].list) : new.list[i] = certs[key].list[i]
        /\ new.list[Len(certs[key].list) + 1] = c
        /\ Len(certs[key].list) \in Nat
    BY <2>3, <2>4
  <2>6. \A i \in DOMAIN certs[key].list : Der[certs[key].list[i]] # Der[c]
    BY <1>5 DEF Has, Holds
  <2> DEFINE n == Len(certs[key].list)
  <2> HIDE DEF new, key
  <2>7. Unique(new.list)
    <3> SUFFICES ASSUME NEW i \in 1 .. n + 1, NEW j \in 1 .. n + 1,
                        Der[new.list[i]] = Der[new.list[j]]
                 PROVE i = j
      BY <2>5 DEF Unique
    <3>1. n \in Nat /\ (i \in 1 .. n \/ i = n + 1) /\ (j \in 1 .. n \/ j = n + 1)
      BY <2>5
    <3>2. \A k, m \in 1 .. n :
            Der[certs[key].list[k]] = Der[certs[key].list[m]] => k = m
      BY <2>2, <2>5 DEF Unique
    <3> QED
      BY <2>5, <2>6, <3>1, <3>2
  <2>8. \A i \in DOMAIN new.list : subject'[new.list[i]].hash = key
    <3> SUFFICES ASSUME NEW i \in DOMAIN new.list
                 PROVE subject'[new.list[i]].hash = key
      OBVIOUS
    <3>1. CASE i \in DOMAIN certs[key].list
      BY <1>2, <1>3, <2>2, <2>4, <2>5, <3>1
    <3>2. CASE i = Len(certs[key].list) + 1
      BY <1>3, <2>5, <3>2
    <3> QED
      BY <2>5, <3>1, <3>2
  <2>9. StoreInv'
    BY <1>2, <1>3, <2>1, <2>3, <2>7, <2>8, OneBucketChanges
  <2>10. \A d : Holds(new.list, d) <=> Holds(certs[key].list, d) \/ d = Der[c]
    <3>1. DOMAIN new.list = DOMAIN certs[key].list \cup {n + 1}
      BY <2>5
    <3> QED
      BY <2>5, <3>1 DEF Holds
  <2>11. /\ certs'[key] = new
         /\ \A h \in Hashes : h # key => certs'[h] = certs[h]
    BY <1>1, <1>2, <2>1
  <2> QED
    BY <2>3, <2>9, <2>10, <2>11 DEF key
<1> QED
  BY <1>4, <1>5

(* What a removal does to it.                                              *)
LEMMA RemoveCertificateStep ==
    ASSUME StoreInv, NEW c \in Certs, RemoveCertificate(c)
    PROVE  /\ StoreInv'
           /\ \A h \in Hashes : certs'[h] = certs[h] \/ NotEmptied(certs'[h])
           /\ \A h \in Hashes : \A d :
                Holds(certs'[h].list, d) <=>
                    Holds(certs[h].list, d) /\ ~(h = SubjectKey(c) /\ d = Der[c])
<1> DEFINE key == SubjectKey(c)
           new == WithRemoved(certs[key], Der[c])
<1>1. NamesTypeOK /\ NameOrigin /\ certs \in [Hashes -> Buckets]
  BY StoreInvByBucket
<1>2. key \in Hashes
  BY <1>1, KeysAreHashes
<1>3. /\ NamesTypeOK'
      /\ NameOrigin'
      /\ \A d \in Certs : subject[d].hash \in Hashes => subject'[d].hash = subject[d].hash
  BY <1>1, CachingKeepsHashes DEF RemoveCertificate
<1>4. CASE ~Has(c)
  <2>1. UNCHANGED certs
    BY <1>4 DEF RemoveCertificate
  <2> QED
    BY <1>3, <1>4, <2>1, NoBucketChanges DEF Has
<1>5. CASE Has(c)
  <2>1. certs' = [certs EXCEPT ![key] = new]
    BY <1>5 DEF RemoveCertificate
  <2>2. /\ WellShaped(certs[key])
        /\ Unique(certs[key].list)
        /\ \A i \in DOMAIN certs[key].list : subject[certs[key].list[i]].hash = key
    BY <1>2, StoreInvByBucket
  <2>3. Holds(certs[key].list, Der[c])
    BY <1>5 DEF Has
  <2>4. \A i \in DOMAIN certs[key].list : certs[key].list[i] \in Certs
    BY <1>1, <1>2 DEF Buckets
  <2>5. /\ WellShaped(new) /\ NotEmptied(new)
        /\ Unique(new.list)
        /\ \A k \in DOMAIN new.list :
             \E m \in DOMAIN certs[key].list : new.list[k] = certs[key].list[m]
        /\ \A d : Holds(new.list, d) <=> Holds(certs[key].list, d) /\ d # Der[c]
    BY <2>2, <2>3, WithRemovedDrops
  <2> HIDE DEF new, key
  <2>6. \A k \in DOMAIN new.list : subject'[new.list[k]].hash = key
    BY <1>2, <1>3, <2>2, <2>4, <2>5
  <2>7. StoreInv'
    BY <1>2, <1>3, <2>1, <2>5, <2>6, OneBucketChanges
  <2>8. /\ certs'[key] = new
        /\ \A h \in Hashes : h # key => certs'[h] = certs[h]
    BY <1>1, <1>2, <2>1
  <2> QED
    BY <2>5, <2>7, <2>8 DEF key
<1> QED
  BY <1>4, <1>5

(* Every operation of the store keeps the invariant.                       *)
LEMMA StoreStep ==
    ASSUME StoreInv, [StoreNext]_storeVars
    PROVE  StoreInv'
<1>1. NamesTypeOK /\ NameOrigin
  BY StoreInvByBucket
<1>2. ASSUME NEW c \in Certs, AddCertificate(c) PROVE StoreInv'
  BY <1>2, AddCertificateStep
<1>3. ASSUME NEW c \in Certs, RemoveCertificate(c) PROVE StoreInv'
  BY <1>3, RemoveCertificateStep
<1>4. ASSUME NEW c \in Certs, HasCertificate(c) PROVE StoreInv'
  BY <1>1, <1>4, CachingKeepsHashes, NoBucketChanges DEF HasCertificate
<1>5. ASSUME NEW c \in Certs, GetIssuer(c) PROVE StoreInv'
  BY <1>1, <1>5, CachingKeepsHashes, NoBucketChanges DEF GetIssuer
<1>6. CASE UNCHANGED storeVars
  BY <1>1, <1>6, NoBucketChanges DEF storeVars, NamesTypeOK, NameOrigin
<1> QED
  BY <1>2, <1>3, <1>4, <1>5, <1>6 DEF StoreNext

-----------------------------------------------------------------------------
(* Theorems                                                                *)

(* The invariant holds throughout: the store's type, its bucket shapes, no *)
(* encoding twice under one key, every object under its own key.           *)
THEOREM StoreInvariant == StoreSpec => []StoreInv
<1>1. InitStore => StoreInv
  BY InitStoreInv
<1>2. StoreInv /\ [StoreNext]_storeVars => StoreInv'
  BY StoreStep
<1> QED
  BY <1>1, <1>2, PTL DEF StoreSpec

(* createCaStore and its four operations keep certs a map from hashes to   *)
(* nothing, one certificate or an array.                                   *)
THEOREM StoreTypeCorrect == StoreSpec => []StoreTypeOK
<1>1. StoreInv => StoreTypeOK
  BY DEF StoreInv
<1> QED
  BY <1>1, StoreInvariant, PTL

(* addCertificate never files one encoding twice under a key.              *)
THEOREM NoDuplicates == StoreSpec => []NoDuplicateDer
<1>1. StoreInv => NoDuplicateDer
  BY DEF StoreInv
<1> QED
  BY <1>1, StoreInvariant, PTL

(* Every object of the store is filed under the hash its subject caches.   *)
THEOREM FiledCorrectly == StoreSpec => []FiledUnderSubject
<1>1. StoreInv => FiledUnderSubject
  BY DEF StoreInv
<1> QED
  BY <1>1, StoreInvariant, PTL

(* No operation of the store leaves an empty array behind.                 *)
THEOREM BucketsWellShaped == StoreSpec => []BucketShape
<1>1. InitStore => NoEmptyArray
  BY DEF InitStore, Absent, NoEmptyArray, NotEmptied
<1>2. ASSUME StoreInv, NoEmptyArray, [StoreNext]_storeVars
      PROVE NoEmptyArray'
  <2>1. ASSUME UNCHANGED certs PROVE NoEmptyArray'
    BY <1>2, <2>1 DEF NoEmptyArray, NotEmptied
  <2>2. ASSUME \A h \in Hashes : certs'[h] = certs[h] \/ NotEmptied(certs'[h])
        PROVE NoEmptyArray'
    BY <1>2, <2>2 DEF NoEmptyArray, NotEmptied
  <2>3. ASSUME NEW c \in Certs, AddCertificate(c) PROVE NoEmptyArray'
    BY <1>2, <2>2, <2>3, AddCertificateStep
  <2>4. ASSUME NEW c \in Certs, RemoveCertificate(c) PROVE NoEmptyArray'
    BY <1>2, <2>2, <2>4, RemoveCertificateStep
  <2> QED
    BY <1>2, <2>1, <2>3, <2>4 DEF StoreNext, HasCertificate, GetIssuer, storeVars
<1>3. ASSUME StoreInv, NoEmptyArray PROVE BucketShape
  <2> SUFFICES ASSUME NEW h \in Hashes
               PROVE /\ certs[h].kind = "absent" <=> Len(certs[h].list) = 0
                     /\ certs[h].kind = "single" => Len(certs[h].list) = 1
    BY DEF BucketShape
  <2>1. WellShaped(certs[h]) /\ NotEmptied(certs[h])
    BY <1>3 DEF StoreInv, NoEmptyArray
  <2>2. certs[h].kind \in {"absent", "single", "array"}
    BY <2>1 DEF WellShaped, Buckets
  <2> QED
    BY <2>1, <2>2 DEF WellShaped, NotEmptied
<1> QED
  BY <1>1, <1>2, <1>3, StoreInvariant, PTL DEF StoreSpec

(* Whatever listAllCertificates lists, hasCertificate confirms.            *)
THEOREM ListedFound == StoreSpec => []ListedIsFound
<1>1. ASSUME StoreInv, NEW c \in Listed PROVE Has(c)
  <2>1. PICK h \in Hashes : \E i \in DOMAIN certs[h].list : c = certs[h].list[i]
    BY DEF Listed
  <2>2. subject[c].hash = h /\ h # NoHash
    BY <1>1, <2>1, NamesAssumption DEF StoreInv, FiledUnderSubject
  <2>3. SubjectKey(c) = h
    BY <2>2 DEF SubjectKey, Ensured
  <2> QED
    BY <2>1, <2>3 DEF Has, Holds
<1>2. StoreInv => ListedIsFound
  BY <1>1 DEF ListedIsFound
<1> QED
  BY <1>2, StoreInvariant, PTL

(* getIssuer finds every stored certificate of the issuer's name among     *)
(* objects of one origin.                                                  *)
THEOREM IssuerFound == StoreSpec => []IssuerIsFound
<1>1. ASSUME StoreInv, NEW c \in Certs, NEW p \in Listed,
             OneOrigin({c, p}), Issuer[c] = Subject[p]
      PROVE \E i \in DOMAIN certs[IssuerKey(c)].list : certs[IssuerKey(c)].list[i] = p
  <2>1. PICK h \in Hashes : \E i \in DOMAIN certs[h].list : p = certs[h].list[i]
    BY DEF Listed
  <2>2. subject[p].hash = h /\ h \in Hashes /\ p \in Certs
    BY <1>1, <2>1
       DEF StoreInv, FiledUnderSubject, StoreTypeOK, Buckets
  <2>3. NameOrigin
    BY <1>1 DEF StoreInv
  <2>4. /\ IssuerKey(c) = IF c \in Parsed THEN <<"der", Issuer[c]>>
                          ELSE <<"attrs", Message(Encoded(Issuer[c]))>>
        /\ SubjectKey(p) = IF p \in Parsed THEN <<"der", Subject[p]>>
                           ELSE <<"attrs", Message(Encoded(Subject[p]))>>
        /\ subject[p].hash \in Hashes => Ensured(subject[p]) = subject[p]
    BY <2>2, <2>3, KeysAreHashes
  <2>5. SubjectKey(p) = h
    BY <2>2, <2>4 DEF SubjectKey
  <2>6. IssuerKey(c) = h
    BY <1>1, <2>4, <2>5 DEF OneOrigin
  <2> QED
    BY <2>1, <2>6
<1>2. StoreInv => IssuerIsFound
  BY <1>1 DEF IssuerIsFound
<1> QED
  BY <1>2, StoreInvariant, PTL

(* A yes of isIssuer is right of two parsed names, and of the types and    *)
(* values of others.  A no between objects of one origin is never wrong of *)
(* one name, unless the store has changed it in one of them only.          *)
THEOREM IsIssuerSound == StoreSpec => []IsIssuerIsSound
<1>1. ASSUME StoreInv, NEW child \in Certs, NEW parent \in Certs
      PROVE /\ IsIssuer(child, parent) =>
                /\ Message(issuer[child].attributes) = Message(subject[parent].attributes)
                /\ {child, parent} \subseteq Parsed => Issuer[child] = Subject[parent]
            /\ OneOrigin({child, parent}) /\ Issuer[child] = Subject[parent]
               /\ \/ child \in Parsed
                  \/ Plain(Issuer[child])
                  \/ issuer[child].hash = NoHash <=> subject[parent].hash = NoHash
               => IsIssuer(child, parent)
  <2>1. /\ issuer[child] \in NameForms(child, Issuer[child])
        /\ subject[parent] \in NameForms(parent, Subject[parent])
    BY <1>1 DEF StoreInv, NameOrigin
  <2> QED
    BY <2>1, SameNameIsRight, SameNameIsFound DEF IsIssuer
<1>2. StoreInv => IsIssuerIsSound
  BY <1>1 DEF IsIssuerIsSound
<1> QED
  BY <1>2, StoreInvariant, PTL

(* The entries of a store, asked for one by one.                           *)
LEMMA MembersAreHeld ==
    ASSUME NEW buckets \in [Hashes -> Buckets]
    PROVE  UNION {{<<h, Der[buckets[h].list[i]]>> : i \in DOMAIN buckets[h].list} : h \in Hashes}
             = {e \in Entries : Holds(buckets[e[1]].list, e[2])}
<1> DEFINE held == UNION {{<<h, Der[buckets[h].list[i]]>> : i \in DOMAIN buckets[h].list} : h \in Hashes}
           asked == {e \in Entries : Holds(buckets[e[1]].list, e[2])}
<1>1. ASSUME NEW h \in Hashes, NEW i \in DOMAIN buckets[h].list
      PROVE  <<h, Der[buckets[h].list[i]]>> \in asked
  <2>1. buckets[h].list[i] \in Certs
    BY DEF Buckets
  <2>2. Der[buckets[h].list[i]] \in Ders
    BY <2>1, DerAssumption
  <2> QED
    BY <2>2 DEF Entries, Holds
<1>2. ASSUME NEW e \in asked PROVE e \in held
  <2>1. e[1] \in Hashes /\ e = <<e[1], e[2]>>
    BY DEF Entries
  <2>2. PICK i \in DOMAIN buckets[e[1]].list : Der[buckets[e[1]].list[i]] = e[2]
    BY DEF Holds
  <2> QED
    BY <2>1, <2>2
<1> QED
  BY <1>1, <1>2

(* The store is a set of entries: addCertificate inserts at most the       *)
(* certificate given, removeCertificate deletes at most that one, and no   *)
(* other call of the store changes it.                                     *)
THEOREM StoreIsASet == StoreSpec => RefinesTrustStore
<1>1. InitStore => Members = {}
  <2>1. ASSUME InitStore, NEW h \in Hashes, NEW d PROVE ~Holds(certs[h].list, d)
    BY <2>1 DEF InitStore, Absent, Holds
  <2> QED
    BY <2>1 DEF Members, Holds
<1>2. ASSUME StoreInv, [StoreNext]_storeVars
      PROVE [Abstract!Next]_Members
  <2>1. NamesTypeOK /\ NameOrigin
    BY <1>2 DEF StoreInv, StoreTypeOK
  <2>2. \A e \in Entries : e[1] \in Hashes /\ e[2] \in Ders /\ e = <<e[1], e[2]>>
    BY DEF Entries
  <2>3. /\ Members = {e \in Entries : Holds(certs[e[1]].list, e[2])}
        /\ Members' = {e \in Entries : Holds(certs'[e[1]].list, e[2])}
    <3>1. certs \in [Hashes -> Buckets] /\ certs' \in [Hashes -> Buckets]
      BY <1>2, StoreStep DEF StoreInv, StoreTypeOK
    <3> QED
      BY <3>1, MembersAreHeld DEF Members
  <2>4. ASSUME NEW c \in Certs, AddCertificate(c)
        PROVE Abstract!Next
    <3>1. <<SubjectKey(c), Der[c]>> \in Entries
      BY <2>1, KeysAreHashes, DerAssumption DEF Entries
    <3>2. Members' = Members \cup {<<SubjectKey(c), Der[c]>>}
      BY <1>2, <2>2, <2>3, <2>4, <3>1, AddCertificateStep
    <3> QED
      BY <3>1, <3>2 DEF Abstract!Next, Abstract!Add
  <2>5. ASSUME NEW c \in Certs, RemoveCertificate(c)
        PROVE Abstract!Next
    <3>1. <<SubjectKey(c), Der[c]>> \in Entries
      BY <2>1, KeysAreHashes, DerAssumption DEF Entries
    <3>2. Members' = Members \ {<<SubjectKey(c), Der[c]>>}
      BY <1>2, <2>2, <2>3, <2>5, <3>1, RemoveCertificateStep
    <3> QED
      BY <3>1, <3>2 DEF Abstract!Next, Abstract!Remove
  <2>6. ASSUME UNCHANGED certs PROVE Members' = Members
    BY <2>6 DEF Members
  <2> QED
    BY <1>2, <2>4, <2>5, <2>6
       DEF StoreNext, HasCertificate, GetIssuer, storeVars
<1>3. StoreSpec => []StoreInv
  BY StoreInvariant
<1> QED
  BY <1>1, <1>2, <1>3, PTL
     DEF StoreSpec, RefinesTrustStore, Abstract!Spec, Abstract!Init

-----------------------------------------------------------------------------
(* A verification                                                          *)

(* What a round establishes about the certificate at position i.           *)
RoundHolds(i) ==
    /\ chain[i] \notin UnknownCritical
    /\ date # NoDate => NotBefore[chain[i]] =< date /\ date =< NotAfter[chain[i]]
    /\ i < Len(chain) => SignedBy(chain[i], chain[i + 1])
    /\ i > 1 => chain[i] \in IsCa /\ i - 2 =< PathLen[chain[i]]

(* A chain that ends with `end' is anchored in a set of certificates.      *)
AnchoredIn(set, end) ==
    \E anchor \in set :
        \/ SignedBy(end, anchor)
        \/ Der[anchor] = Der[end] /\ end \in IsCa

(* The inductive invariant: what the rounds so far have established.       *)
VerifyInv ==
    /\ TypeOK
    /\ StoreInv
    /\ phase # "idle" => chain \in Chains /\ Listed \subseteq known
    /\ phase # "idle" /\ ~overridden => \A i \in 1 .. depth : RoundHolds(i)
    /\ phase = "answer" /\ outcome = "accepted" =>
        /\ RoundHolds(depth + 1)
        /\ IsLast => AnchoredIn(known, chain[depth + 1])

-----------------------------------------------------------------------------
(* Lemmas                                                                  *)

(* The certificate a round is about.                                       *)
LEMMA RoundCert ==
    ASSUME TypeOK, phase # "idle", chain \in Chains
    PROVE  /\ depth + 1 \in DOMAIN chain
           /\ chain \in Seq(Certs)
           /\ chain[depth + 1] \in Certs
           /\ ~IsLast => depth + 2 \in DOMAIN chain /\ chain[depth + 2] \in Certs
<1>1. chain \in Seq(Certs) /\ depth \in Nat /\ depth < Len(chain)
  BY VerifyAssumption DEF TypeOK
<1> QED
  BY <1>1 DEF IsLast

(* The parents a round tries are certificates.                             *)
LEMMA ParentsAreCerts ==
    ASSUME TypeOK, StoreInv, phase # "idle", chain \in Chains
    PROVE  Parents(chain[depth + 1]) \in Seq(Certs)
<1> DEFINE c == chain[depth + 1]
<1>1. c \in Certs /\ (~IsLast => chain[depth + 2] \in Certs)
  BY RoundCert
<1>2. IssuerKey(c) \in Hashes
  BY <1>1, KeysAreHashes DEF StoreInv, StoreTypeOK
<1>3. certs[IssuerKey(c)].list \in Seq(Certs)
  BY <1>2 DEF StoreInv, StoreTypeOK, Buckets
<1> QED
  BY <1>1, <1>3 DEF Parents

(* The loop stops within its list, and a list it did not exhaust for       *)
(* nothing it leaves at a parent that verifies.                            *)
LEMMA ShiftedInRange ==
    ASSUME TypeOK, StoreInv, phase # "idle", chain \in Chains
    PROVE  /\ Shifted(chain[depth + 1]) \in Nat
           /\ Shifted(chain[depth + 1]) =< Len(Parents(chain[depth + 1]))
<1> DEFINE c == chain[depth + 1]
<1>1. Parents(c) \in Seq(Certs)
  BY ParentsAreCerts
<1>2. Verifying(c) \subseteq 1 .. Len(Parents(c)) /\ Len(Parents(c)) \in Nat
  BY <1>1 DEF Verifying
<1>3. CASE Verifying(c) = {}
  BY <1>2, <1>3 DEF Shifted
<1>4. CASE Verifying(c) # {}
  <2>1. \E k \in Verifying(c) : \A j \in Verifying(c) : k =< j
    BY <1>2, <1>4, LeastNatural
  <2>2. Shifted(c) \in Verifying(c)
    BY <1>4, <2>1 DEF Shifted
  <2> QED
    BY <1>2, <2>2
<1> QED
  BY <1>3, <1>4

(* A name that a round has asked about is one the object can have.         *)
LEMMA AskedIssuerForms ==
    ASSUME NameOrigin, NEW c \in Certs
    PROVE  AskedIssuer(c) \in NameForms(c, Issuer[c])
  BY KeysAreHashes DEF AskedIssuer, NameOrigin

(* A parent that issued c by isIssuer has a subject like c's issuer.       *)
LEMMA IssuedByNames ==
    ASSUME NameOrigin, NEW c \in Certs, NEW p \in Certs, IssuedBy(c, p)
    PROVE  Alike(c, p)
<1> DEFINE of == AskedIssuer(c)
           by == subject[p]
<1>1. of \in NameForms(c, Issuer[c]) /\ by \in NameForms(p, Subject[p])
  BY AskedIssuerForms DEF NameOrigin
<1>2. SameName(of, by)
  BY DEF IssuedBy
<1> HIDE DEF of, by
<1>3. /\ Message(of.attributes) = Message(by.attributes)
      /\ {c, p} \subseteq Parsed => Issuer[c] = Subject[p]
      /\ of.attributes \in Forms(c, Issuer[c])
      /\ by.attributes \in Forms(p, Subject[p])
  BY <1>1, <1>2, SameNameIsRight DEF Forms
<1> QED
  BY <1>3 DEF Alike

(* The end of a list is made of the list's elements, each once.            *)
LEMMA SuffixOfList ==
    ASSUME NEW list \in Seq(Certs), NEW k \in Nat, k =< Len(list)
    PROVE  /\ SubSeq(list, k + 1, Len(list)) \in Seq(Certs)
           /\ DOMAIN SubSeq(list, k + 1, Len(list)) = 1 .. Len(list) - k
           /\ \A i \in 1 .. Len(list) - k :
                /\ k + i \in DOMAIN list
                /\ SubSeq(list, k + 1, Len(list))[i] = list[k + i]
  OBVIOUS

(* A round leaves the store's invariant alone and adds nothing to it.      *)
LEMMA RoundKeepsStore ==
    ASSUME TypeOK, StoreInv, phase # "idle", chain \in Chains,
           StoreAfterRound(chain[depth + 1])
    PROVE  StoreInv' /\ Listed' \subseteq Listed
<1> DEFINE c == chain[depth + 1]
           key == IssuerKey(c)
           new == [kind |-> "array",
                   list |-> SubSeq(certs[key].list, Shifted(c) + 1, Len(certs[key].list))]
<1>1. /\ NamesTypeOK /\ NameOrigin /\ certs \in [Hashes -> Buckets]
      /\ c \in Certs
  BY RoundCert, StoreInvByBucket
<1>2. CASE Expired(c)
  <2>1. UNCHANGED storeVars
    BY <1>2 DEF StoreAfterRound
  <2>2. UNCHANGED <<subject, issuer, certs>>
    BY <2>1 DEF storeVars
  <2> QED
    BY <1>1, <2>2, NoBucketChanges DEF NamesTypeOK, NameOrigin, Listed
<1>3. CASE ~Expired(c)
  <2>1. /\ key \in Hashes
        /\ Ensured(subject[c]) \in NameForms(c, Subject[c]) \cap DistinguishedNames
        /\ Ensured(issuer[c]) \in NameForms(c, Issuer[c]) \cap DistinguishedNames
        /\ subject[c].hash \in Hashes => Ensured(subject[c]) = subject[c]
    BY <1>1, KeysAreHashes
  <2>2. AskedIssuer(c) \in NameForms(c, Issuer[c]) \cap DistinguishedNames
    BY <1>1, <2>1, AskedIssuerForms DEF AskedIssuer, NamesTypeOK
  <2>3. /\ issuer' = [issuer EXCEPT ![c] = AskedIssuer(c)]
        /\ \/ subject' = [subject EXCEPT ![c] = Ensured(@)]
           \/ subject' = subject
    BY <1>3 DEF StoreAfterRound
  <2>4. /\ NamesTypeOK'
        /\ NameOrigin'
        /\ \A d \in Certs : subject[d].hash \in Hashes => subject'[d].hash = subject[d].hash
    BY <1>1, <2>1, <2>2, <2>3 DEF NamesTypeOK, NameOrigin
  <2>5. CASE UNCHANGED certs
    BY <2>4, <2>5, NoBucketChanges DEF Listed
  <2>6. CASE IsLast /\ certs[key].kind = "array"
    <3>1. certs' = [certs EXCEPT ![key] = new]
      BY <1>3, <2>6 DEF StoreAfterRound
    <3>2. /\ WellShaped(certs[key])
          /\ Unique(certs[key].list)
          /\ \A i \in DOMAIN certs[key].list : subject[certs[key].list[i]].hash = key
      BY <2>1, StoreInvByBucket
    <3>3. certs[key].list \in Seq(Certs)
      BY <1>1, <2>1 DEF Buckets
    <3>4. Parents(c) = certs[key].list
      BY <2>6 DEF Parents, SelfSigned, IssuerUnknown
    <3>5. Shifted(c) \in Nat /\ Shifted(c) =< Len(certs[key].list)
      BY <3>4, ShiftedInRange
    <3>6. /\ new.kind = "array"
          /\ new.list = SubSeq(certs[key].list, Shifted(c) + 1, Len(certs[key].list))
          /\ new = [kind |-> "array", list |-> new.list]
      OBVIOUS
    <3> DEFINE n == Len(certs[key].list) - Shifted(c)
    <3> HIDE DEF new, key, c
    <3>7. /\ new.list \in Seq(Certs)
          /\ DOMAIN new.list = 1 .. n
          /\ \A i \in 1 .. n : /\ Shifted(c) + i \in DOMAIN certs[key].list
                               /\ new.list[i] = certs[key].list[Shifted(c) + i]
      <4> DEFINE list == certs[key].list
                 k == Shifted(c)
      <4>1. list \in Seq(Certs) /\ k \in Nat /\ k =< Len(list)
        BY <3>3, <3>5 DEF key, c
      <4>2. new.list = SubSeq(list, k + 1, Len(list)) /\ n = Len(list) - k
        BY <3>6 DEF n
      <4> HIDE DEF list, k, n
      <4>3. /\ new.list \in Seq(Certs)
            /\ DOMAIN new.list = 1 .. n
            /\ \A i \in 1 .. n : k + i \in DOMAIN list /\ new.list[i] = list[k + i]
        BY <4>1, <4>2, SuffixOfList
      <4> QED
        BY <4>3 DEF list, k, n
    <3>8. WellShaped(new)
      BY <3>6, <3>7 DEF WellShaped, Buckets
    <3>9. Unique(new.list)
      <4> SUFFICES ASSUME NEW i \in 1 .. n, NEW j \in 1 .. n,
                          Der[new.list[i]] = Der[new.list[j]]
                   PROVE i = j
        BY <3>7 DEF Unique
      <4>1. Shifted(c) + i = Shifted(c) + j
        BY <3>2, <3>7 DEF Unique
      <4> QED
        BY <3>5, <4>1
    <3>10. \A i \in DOMAIN new.list : subject'[new.list[i]].hash = key
      <4> SUFFICES ASSUME NEW i \in 1 .. n PROVE subject'[new.list[i]].hash = key
        BY <3>7
      <4>1. PICK m \in DOMAIN certs[key].list : new.list[i] = certs[key].list[m]
        BY <3>7
      <4>2. certs[key].list[m] \in Certs
        BY <3>3
      <4>3. subject[certs[key].list[m]].hash = key /\ key \in Hashes
        BY <3>2, <2>1 DEF key
      <4> QED
        BY <2>4, <4>1, <4>2, <4>3
    <3>11. StoreInv'
      BY <2>1, <2>4, <3>1, <3>8, <3>9, <3>10, OneBucketChanges DEF key
    <3>12. \A h \in Hashes : h # key => certs'[h] = certs[h]
      BY <1>1, <3>1
    <3>13. certs'[key] = new
      BY <1>1, <2>1, <3>1 DEF key
    <3>14. Listed' \subseteq Listed
      <4> SUFFICES ASSUME NEW h \in Hashes, NEW i \in DOMAIN certs'[h].list
                   PROVE certs'[h].list[i] \in Listed
        BY DEF Listed
      <4>1. CASE h # key
        BY <3>12, <4>1 DEF Listed
      <4>2. CASE h = key
        <5>1. PICK m \in DOMAIN certs[key].list : new.list[i] = certs[key].list[m]
          BY <3>7, <3>13, <4>2
        <5> QED
          BY <3>13, <4>2, <5>1 DEF Listed
      <4> QED
        BY <4>1, <4>2
    <3> QED
      BY <3>11, <3>14
  <2> QED
    BY <1>3, <2>5, <2>6 DEF StoreAfterRound
<1> QED
  BY <1>2, <1>3

(* A round whose outcome is no error has established what it should.       *)
LEMMA RoundIsSound ==
    ASSUME TypeOK, StoreInv, phase # "idle", chain \in Chains,
           Listed \subseteq known, Outcome(chain[depth + 1]) = "accepted"
    PROVE  /\ RoundHolds(depth + 1)
           /\ IsLast => AnchoredIn(known, chain[depth + 1])
<1> DEFINE c == chain[depth + 1]
<1>1. /\ NamesTypeOK /\ NameOrigin /\ certs \in [Hashes -> Buckets]
      /\ c \in Certs /\ depth \in Nat
      /\ ~IsLast => depth + 2 \in DOMAIN chain /\ chain[depth + 2] \in Certs
  BY RoundCert, StoreInvByBucket DEF TypeOK
<1>2. /\ ~Expired(c)
      /\ ~SignatureInvalid(c)
      /\ NeedsTrust(c) => Has(c)
      /\ c \notin UnknownCritical
      /\ depth # 0 \/ NeedsTrust(c) => ~NotCa(c)
  BY DEF Outcome
<1>3. date # NoDate => NotBefore[c] =< date /\ date =< NotAfter[c]
  <2> SUFFICES ASSUME date # NoDate PROVE NotBefore[c] =< date /\ date =< NotAfter[c]
    OBVIOUS
  <2>1. date \in Nat /\ NotBefore[c] \in Nat /\ NotAfter[c] \in Nat
    BY <1>1, VerifyAssumption DEF TypeOK
  <2> QED
    BY <1>2, <2>1 DEF Expired
<1>4. depth + 1 > 1 => c \in IsCa /\ (depth + 1) - 2 =< PathLen[c]
  <2> SUFFICES ASSUME depth + 1 > 1 PROVE c \in IsCa /\ (depth + 1) - 2 =< PathLen[c]
    OBVIOUS
  <2>1. PathLen[c] \in Nat /\ depth # 0 /\ (depth + 1) - 2 = depth - 1
    BY <1>1, VerifyAssumption
  <2> QED
    BY <1>1, <1>2, <2>1 DEF NotCa
<1>5. CASE ~IsLast
  <2>1. Parents(c) = <<chain[depth + 2]>> /\ ~NeedsTrust(c) /\ ~NoParent(c)
    BY <1>5 DEF Parents, NeedsTrust, NoParent, SelfSigned, IssuerUnknown
  <2>2. Verifies(chain[depth + 2], c)
    BY <1>2, <2>1 DEF SignatureInvalid, Verifying
  <2>3. SignedBy(c, chain[depth + 2])
    BY <1>1, <1>5, <2>2, IssuedByNames DEF Verifies, SignedBy
  <2>4. (depth + 1) + 1 = depth + 2
    BY <1>1
  <2>5. RoundHolds(depth + 1)
    BY <1>2, <1>3, <1>4, <2>3, <2>4 DEF RoundHolds
  <2> QED
    BY <1>5, <2>5
<1>6. CASE IsLast
  <2>1. RoundHolds(depth + 1)
    BY <1>1, <1>2, <1>3, <1>4, <1>6 DEF RoundHolds, IsLast
  <2>2. CASE NeedsTrust(c)
    <3>1. PICK i \in DOMAIN certs[SubjectKey(c)].list :
            Der[certs[SubjectKey(c)].list[i]] = Der[c]
      BY <1>2, <2>2 DEF Has, Holds
    <3>2. SubjectKey(c) \in Hashes
      BY <1>1, KeysAreHashes
    <3>3. certs[SubjectKey(c)].list[i] \in known
      BY <3>1, <3>2 DEF Listed
    <3> QED
      BY <1>2, <2>1, <2>2, <3>1, <3>3 DEF AnchoredIn, NotCa
  <2>3. CASE ~NeedsTrust(c)
    <3>1. Parents(c) = certs[IssuerKey(c)].list /\ Verifying(c) # {}
      BY <1>2, <1>6, <2>3 DEF Parents, NeedsTrust, SignatureInvalid
    <3>2. PICK k \in DOMAIN certs[IssuerKey(c)].list :
            Verifies(certs[IssuerKey(c)].list[k], c)
      BY <3>1 DEF Verifying
    <3>3. IssuerKey(c) \in Hashes
      BY <1>1, KeysAreHashes
    <3>4. /\ certs[IssuerKey(c)].list[k] \in known
          /\ certs[IssuerKey(c)].list[k] \in Certs
      BY <1>1, <3>2, <3>3 DEF Listed, Buckets
    <3>5. SignedBy(c, certs[IssuerKey(c)].list[k])
      BY <1>1, <3>2, <3>4, IssuedByNames DEF Verifies, SignedBy
    <3> QED
      BY <2>1, <3>4, <3>5 DEF AnchoredIn
  <2> QED
    BY <2>2, <2>3
<1> QED
  BY <1>5, <1>6

-----------------------------------------------------------------------------
(* The invariant                                                           *)

(* It holds before any verification ...                                    *)
LEMMA InitVerifyInv == Init => VerifyInv
<1> SUFFICES ASSUME Init PROVE VerifyInv
  OBVIOUS
<1>1. StoreInv
  BY InitStoreInv DEF Init
<1>2. TypeOK
  BY <1>1 DEF Init, TypeOK, StoreInv, Verdicts
<1> QED
  BY <1>1, <1>2 DEF Init, VerifyInv

(* Returning forgets the walk.                                             *)
LEMMA ReturnStep ==
    ASSUME StoreInv', NEW result \in Verdicts, Return(result)
    PROVE  VerifyInv'
<1>1. TypeOK'
  BY VerifyAssumption DEF Return, TypeOK, StoreInv, Verdicts
<1> QED
  BY <1>1 DEF Return, VerifyInv

(* ... is kept when one begins, for there are no rounds yet ...            *)
LEMMA StartVerifyStep ==
    ASSUME VerifyInv, NEW path \in Chains, NEW on \in CheckDates,
           NEW withCallback \in BOOLEAN, StartVerify(path, on, withCallback)
    PROVE  VerifyInv'
<1>1. UNCHANGED <<subject, issuer, certs>> /\ StoreInv'
  <2>1. UNCHANGED <<subject, issuer, certs>>
    BY DEF StartVerify, storeVars
  <2> QED
    BY <2>1, StoreStep DEF VerifyInv, storeVars
<1>2. Listed' = Listed /\ Listed \subseteq Certs
  BY <1>1 DEF Listed, VerifyInv, StoreInv, StoreTypeOK, Buckets
<1>3. TypeOK'
  <2>1. path \in Seq(Certs) /\ path # <<>>
    BY VerifyAssumption
  <2>2. 0 < Len(path)
    BY <2>1
  <2>3. owed' \in BOOLEAN
    BY DEF StartVerify
  <2> QED
    BY <1>1, <1>2, <2>2, <2>3 DEF StartVerify, VerifyInv, TypeOK, StoreInv
<1> QED
  BY <1>1, <1>2, <1>3 DEF StartVerify, VerifyInv

(* ... by a round that checks a certificate ...                            *)
LEMMA CheckCertificateStep ==
    ASSUME VerifyInv, CheckCertificate
    PROVE  VerifyInv'
<1> DEFINE c == chain[depth + 1]
<1>1. /\ phase = "check" /\ phase' = "answer" /\ outcome' = Outcome(c)
      /\ UNCHANGED <<chain, depth, date, callback, verdict, known, overridden, owed>>
      /\ StoreAfterRound(c)
  BY DEF CheckCertificate, observed
<1>2. TypeOK /\ StoreInv /\ chain \in Chains /\ Listed \subseteq known
  BY <1>1 DEF VerifyInv
<1>3. StoreInv' /\ Listed' \subseteq Listed
  BY <1>1, <1>2, RoundKeepsStore
<1>4. Outcome(c) \in Verdicts
  BY DEF Outcome, Verdicts, Errors
<1>5. TypeOK'
  BY <1>1, <1>2, <1>3, <1>4 DEF TypeOK, StoreInv
<1>6. ~overridden => \A i \in 1 .. depth : RoundHolds(i)
  BY <1>1 DEF VerifyInv
<1>7. outcome' = "accepted" =>
        RoundHolds(depth + 1) /\ (IsLast => AnchoredIn(known, c))
  BY <1>1, <1>2, RoundIsSound
<1> QED
  BY <1>1, <1>2, <1>3, <1>5, <1>6, <1>7
     DEF VerifyInv, RoundHolds, IsLast, AnchoredIn

(* ... by the callback's answer to it ...                                  *)
LEMMA AnswerStep ==
    ASSUME VerifyInv, AnswerTrue \/ AnswerRefuse
    PROVE  VerifyInv'
<1>1. phase = "answer" /\ UNCHANGED <<subject, issuer, certs>>
  BY DEF AnswerTrue, AnswerRefuse, storeVars
<1>2. StoreInv'
  BY <1>1, StoreStep DEF VerifyInv, storeVars
<1>3. TypeOK /\ chain \in Chains /\ Listed \subseteq known /\ Listed' = Listed
  BY <1>1 DEF VerifyInv, Listed
<1>4. CASE \E result \in Verdicts : Return(result)
  BY <1>2, <1>4, ReturnStep
<1>5. CASE AnswerTrue /\ ~IsLast
  <2>1. /\ phase' = "check"
        /\ depth' = depth + 1
        /\ overridden' = (overridden \/ outcome # "accepted")
        /\ outcome' = "accepted"
        /\ UNCHANGED <<chain, date, callback, verdict, known, owed>>
    BY <1>5 DEF AnswerTrue
  <2>2. depth \in Nat /\ depth + 1 < Len(chain)
    <3>1. chain \in Seq(Certs) /\ depth \in Nat /\ depth < Len(chain)
      BY <1>1, <1>3, VerifyAssumption DEF TypeOK
    <3> QED
      BY <1>5, <3>1 DEF IsLast
  <2>3. TypeOK'
    BY <1>2, <1>3, <2>1, <2>2 DEF TypeOK, StoreInv, Verdicts
  <2>4. ASSUME ~overridden', NEW i \in 1 .. depth'
        PROVE RoundHolds(i)
    <3>1. i \in 1 .. depth \/ i = depth + 1
      BY <2>1, <2>2
    <3> QED
      BY <1>1, <2>1, <2>4, <3>1 DEF VerifyInv
  <2>5. ASSUME ~overridden', NEW i \in 1 .. depth'
        PROVE RoundHolds(i)'
    BY <2>1, <2>4, <2>5 DEF RoundHolds
  <2> QED
    BY <1>2, <1>3, <2>1, <2>3, <2>5 DEF VerifyInv
<1> QED
  <2>1. outcome \in Verdicts
    BY <1>3 DEF TypeOK
  <2>2. "accepted" \in Verdicts /\ "bad_certificate" \in Verdicts /\ "application" \in Verdicts
    BY DEF Verdicts, Errors
  <2> QED
    BY <1>4, <1>5, <2>1, <2>2 DEF AnswerTrue, AnswerRefuse

(* ... and by what the application does with the store meanwhile.          *)
LEMMA UseStoreStep ==
    ASSUME VerifyInv, UseStore
    PROVE  VerifyInv'
<1>1. /\ UNCHANGED <<phase, chain, depth, date, callback, outcome, verdict, overridden, owed>>
      /\ known' = IF phase = "idle" THEN known ELSE known \cup Listed'
      /\ StoreNext
  BY DEF UseStore, callVars
<1>2. StoreInv'
  BY <1>1, StoreStep DEF VerifyInv
<1>3. Listed' \subseteq Certs
  BY <1>2 DEF Listed, StoreInv, StoreTypeOK, Buckets
<1>4. TypeOK'
  BY <1>1, <1>2, <1>3 DEF VerifyInv, TypeOK, StoreInv
<1>5. \A i : RoundHolds(i)' <=> RoundHolds(i)
  BY <1>1 DEF RoundHolds
<1>6. \A end : AnchoredIn(known, end) => AnchoredIn(known', end)
  BY <1>1 DEF AnchoredIn
<1> QED
  BY <1>1, <1>2, <1>4, <1>5, <1>6 DEF VerifyInv, IsLast, AnchoredIn

(* Through every verification and every use of the store, what the walk    *)
(* has established so far holds of the certificates behind it.             *)
THEOREM VerifyInvariant == Spec => []VerifyInv
<1>1. Init => VerifyInv
  BY InitVerifyInv
<1>2. VerifyInv /\ [Next]_vars => VerifyInv'
  <2> SUFFICES ASSUME VerifyInv, [Next]_vars PROVE VerifyInv'
    OBVIOUS
  <2>1. CASE UNCHANGED vars
    BY <2>1 DEF vars, storeVars, callVars, observed, VerifyInv, TypeOK, StoreInv,
       StoreTypeOK, NamesTypeOK, NoDuplicateDer, FiledUnderSubject, NameOrigin,
       RoundHolds, AnchoredIn, IsLast, Listed
  <2> QED
    BY <2>1, StartVerifyStep, CheckCertificateStep, AnswerStep, UseStoreStep DEF Next
<1> QED
  BY <1>1, <1>2, PTL DEF Spec

-----------------------------------------------------------------------------
(* Theorems                                                                *)

(* The state of a verification and of its store keep their types.          *)
THEOREM VerifyTypeCorrect == Spec => []TypeOK
<1>1. VerifyInv => TypeOK
  BY DEF VerifyInv
<1> QED
  BY <1>1, VerifyInvariant, PTL

(* The shifts of verification never make the store file an encoding twice  *)
(* or an object under a key that is not its own.                           *)
THEOREM VerifyKeepsFiling == Spec => [](NoDuplicateDer /\ FiledUnderSubject)
<1>1. VerifyInv => NoDuplicateDer /\ FiledUnderSubject
  BY DEF VerifyInv, StoreInv
<1> QED
  BY <1>1, VerifyInvariant, PTL

(* A chain is accepted only by the answer to its last certificate.         *)
LEMMA AcceptsAtTheEnd ==
    ASSUME VerifyInv, [Next]_vars, AcceptsByItself
    PROVE  /\ IsLast
           /\ chain \in Seq(Certs) /\ Len(chain) = depth + 1 /\ depth \in Nat
           /\ \A i \in 1 .. Len(chain) : RoundHolds(i)
           /\ AnchoredIn(known, chain[Len(chain)])
<1>1. phase = "answer" /\ phase' = "idle" /\ verdict' = "accepted"
      /\ ~overridden /\ outcome = "accepted"
  BY DEF AcceptsByItself
<1>2. AnswerTrue \/ AnswerRefuse
  BY <1>1 DEF Next, StartVerify, CheckCertificate, UseStore, vars, callVars
<1>3. ~AnswerRefuse
  BY <1>1 DEF AnswerRefuse, Return
<1>4. IsLast
  BY <1>1, <1>2, <1>3 DEF AnswerTrue
<1>5. chain \in Seq(Certs) /\ Len(chain) = depth + 1 /\ depth \in Nat
  BY <1>1, <1>4, VerifyAssumption DEF VerifyInv, TypeOK, IsLast
<1>6. \A i \in 1 .. depth : RoundHolds(i)
  BY <1>1 DEF VerifyInv
<1>7. RoundHolds(depth + 1) /\ AnchoredIn(known, chain[depth + 1])
  BY <1>1, <1>4 DEF VerifyInv
<1>8. \A i \in 1 .. Len(chain) : i \in 1 .. depth \/ i = depth + 1
  BY <1>5
<1> QED
  BY <1>4, <1>5, <1>6, <1>7, <1>8

(* verifyCertificateChain accepts by itself only real certification paths. *)
THEOREM AcceptedPathSound == Spec => AcceptedPathHolds
<1>1. ASSUME VerifyInv, [Next]_vars, AcceptsByItself
      PROVE PathHolds(chain, date)
  <2>1. /\ chain \in Seq(Certs)
        /\ \A i \in 1 .. Len(chain) : RoundHolds(i)
    BY <1>1, AcceptsAtTheEnd
  <2>2. DOMAIN chain = 1 .. Len(chain) /\ Len(chain) \in Nat
    BY <2>1
  <2>3. ASSUME NEW i \in DOMAIN chain
        PROVE /\ chain[i] \notin UnknownCritical
              /\ date # NoDate => NotBefore[chain[i]] =< date /\ date =< NotAfter[chain[i]]
    BY <2>1, <2>2 DEF RoundHolds
  <2>4. ASSUME NEW i \in 1 .. Len(chain) - 1
        PROVE /\ SignedBy(chain[i], chain[i + 1])
              /\ chain[i + 1] \in IsCa
              /\ i - 1 =< PathLen[chain[i + 1]]
    <3>1. /\ i \in 1 .. Len(chain) /\ i < Len(chain)
          /\ i + 1 \in 1 .. Len(chain) /\ i + 1 > 1 /\ (i + 1) - 2 = i - 1
      BY <2>2
    <3> QED
      BY <2>1, <3>1 DEF RoundHolds
  <2> QED
    BY <2>3, <2>4 DEF PathHolds
<1>2. VerifyInv /\ [Next]_vars => [AcceptsByItself => PathHolds(chain, date)]_vars
  BY <1>1
<1> QED
  BY <1>2, VerifyInvariant, PTL DEF Spec, AcceptedPathHolds

(* And only those that end at a certificate the store held in the call.    *)
THEOREM AcceptedAnchored == Spec => AcceptedIsAnchored
<1>1. ASSUME VerifyInv, [Next]_vars, AcceptsByItself
      PROVE LET end == chain[Len(chain)]
            IN  \E anchor \in known :
                    \/ SignedBy(end, anchor)
                    \/ Der[anchor] = Der[end] /\ end \in IsCa
  BY <1>1, AcceptsAtTheEnd DEF AnchoredIn
<1>2. VerifyInv /\ [Next]_vars =>
        [AcceptsByItself =>
            LET end == chain[Len(chain)]
            IN  \E anchor \in known :
                    \/ SignedBy(end, anchor)
                    \/ Der[anchor] = Der[end] /\ end \in IsCa]_vars
  BY <1>1
<1> QED
  BY <1>2, VerifyInvariant, PTL DEF Spec, AcceptedIsAnchored

(* A verification leaves a bare certificate of the store where it is.      *)
THEOREM OnlyCertificateKept == Spec => OnlyCertificateSurvives
<1>1. ASSUME VerifyInv, [Next]_vars, phase = "check",
             NEW h \in Hashes, certs[h].kind = "single"
      PROVE certs'[h] = certs[h]
  <2>1. CASE UNCHANGED vars
    BY <2>1 DEF vars, storeVars
  <2>2. CASE Next
    <3>1. CheckCertificate
      BY <1>1, <2>2 DEF Next, StartVerify, AnswerTrue, AnswerRefuse, UseStore
    <3> DEFINE key == IssuerKey(chain[depth + 1])
    <3>2. \/ UNCHANGED certs
          \/ /\ certs[key].kind = "array"
             /\ \E bucket : certs' = [certs EXCEPT ![key] = bucket]
      BY <3>1 DEF CheckCertificate, StoreAfterRound, storeVars
    <3>3. certs \in [Hashes -> Buckets]
      BY <1>1 DEF VerifyInv, StoreInv, StoreTypeOK
    <3> HIDE DEF key
    <3> QED
      BY <1>1, <3>2, <3>3
  <2> QED
    BY <1>1, <2>1, <2>2
<1>2. VerifyInv /\ [Next]_vars =>
        [\A h \in Hashes :
            phase = "check" /\ certs[h].kind = "single" => certs'[h] = certs[h]]_vars
  BY <1>1
<1> QED
  BY <1>2, VerifyInvariant, PTL DEF Spec, OnlyCertificateSurvives

-----------------------------------------------------------------------------
(* Chains that are due                                                     *)

(* What a chain that was due when it was submitted still is: due before    *)
(* each round, because a round that shifts the store's arrays is the last, *)
(* and accepted after each.                                                *)
DueInv ==
    owed =>
        /\ ~callback
        /\ phase = "check" => DuePath(chain, date)
        /\ phase = "answer" => outcome = "accepted" /\ (~IsLast => DuePath(chain, date))

(* Between two objects of one origin, isIssuer never misses a name that no *)
(* store changes, nor one that it has changed in both.                     *)
LEMMA NamesIssuedBy ==
    ASSUME NameOrigin, NEW c \in Certs, NEW p \in Certs,
           OneOrigin({c, p}), Issuer[c] = Subject[p],
           \/ c \in Parsed \/ Plain(Issuer[c])
           \/ IsLast /\ subject[p].hash # NoHash
    PROVE  IssuedBy(c, p)
<1> DEFINE of == AskedIssuer(c)
           by == subject[p]
<1>1. of \in NameForms(c, Issuer[c]) /\ by \in NameForms(p, Subject[p])
  BY AskedIssuerForms DEF NameOrigin
<1>2. IsLast => of.hash # NoHash
  <2>1. IssuerKey(c) \in Hashes
    BY KeysAreHashes
  <2> QED
    BY <2>1, NamesAssumption DEF AskedIssuer, IssuerKey
<1>3. c \in Parsed \/ Plain(Issuer[c]) \/ (of.hash = NoHash <=> by.hash = NoHash)
  BY <1>2
<1> HIDE DEF of, by
<1>4. SameName(of, by)
  BY <1>1, <1>3, SameNameIsFound
<1> QED
  BY <1>4 DEF IssuedBy, of, by

(* And a certificate in the store is where a lookup by an issuer of that   *)
(* name looks.                                                             *)
LEMMA AnchorIsLookedUp ==
    ASSUME TypeOK, StoreInv, NEW c \in Certs, NEW anchor \in Listed,
           OneOrigin({c, anchor}), Issuer[c] = Subject[anchor]
    PROVE  /\ anchor \in Certs
           /\ subject[anchor].hash # NoHash
           /\ certs[IssuerKey(c)].kind # "absent"
           /\ \E i \in DOMAIN certs[IssuerKey(c)].list : certs[IssuerKey(c)].list[i] = anchor
<1>1. PICK h \in Hashes : \E i \in DOMAIN certs[h].list : certs[h].list[i] = anchor
  BY DEF Listed
<1>2. PICK i \in DOMAIN certs[h].list : certs[h].list[i] = anchor
  BY <1>1
<1>3. certs[h] \in Buckets /\ certs[h].list \in Seq(Certs)
  BY DEF StoreInv, StoreTypeOK, Buckets
<1>4. anchor \in Certs
  BY <1>2, <1>3
<1>5. subject[anchor].hash = h
  BY <1>2 DEF StoreInv, FiledUnderSubject
<1>6. /\ IssuerKey(c) = IF c \in Parsed THEN <<"der", Issuer[c]>>
                        ELSE <<"attrs", Message(Encoded(Issuer[c]))>>
      /\ SubjectKey(anchor) = IF anchor \in Parsed THEN <<"der", Subject[anchor]>>
                              ELSE <<"attrs", Message(Encoded(Subject[anchor]))>>
      /\ Ensured(subject[anchor]) = subject[anchor]
  BY <1>4, <1>5, KeysAreHashes DEF StoreInv
<1>7. SubjectKey(anchor) = h
  BY <1>5, <1>6 DEF SubjectKey
<1>8. IssuerKey(c) = h
  BY <1>6, <1>7 DEF OneOrigin
<1>9. certs[h].kind # "absent"
  BY <1>2, <1>3 DEF StoreInv, WellShaped
<1> QED
  BY <1>2, <1>4, <1>5, <1>8, <1>9, NamesAssumption

(* No check of a round fails on a chain that is due.                       *)
LEMMA DueRoundAccepts ==
    ASSUME TypeOK, StoreInv, phase # "idle", chain \in Chains, DuePath(chain, date)
    PROVE  Outcome(chain[depth + 1]) = "accepted"
<1> DEFINE c == chain[depth + 1]
<1>1. /\ NamesTypeOK /\ NameOrigin /\ depth \in Nat /\ depth < Len(chain)
      /\ chain \in Seq(Certs) /\ depth + 1 \in DOMAIN chain /\ c \in Certs
      /\ ~IsLast => depth + 2 \in DOMAIN chain /\ chain[depth + 2] \in Certs
  BY RoundCert, StoreInvByBucket DEF TypeOK
<1>2. PathHolds(chain, date) /\ NamesHold(chain)
  BY DEF DuePath
<1>3. PICK anchor \in Listed :
        /\ Issuer[chain[Len(chain)]] = Subject[anchor]
        /\ Signer[chain[Len(chain)]] = Key[anchor]
        /\ OneOrigin({chain[i] : i \in DOMAIN chain} \cup {anchor})
  BY DEF DuePath
<1>4. ~Expired(c)
  <2> SUFFICES ASSUME date # NoDate
               PROVE  ~(date < NotBefore[c] \/ date > NotAfter[c])
    BY DEF Expired
  <2>1. NotBefore[c] =< date /\ date =< NotAfter[c]
    BY <1>1, <1>2 DEF PathHolds
  <2>2. date \in Nat /\ NotBefore[c] \in Nat /\ NotAfter[c] \in Nat
    BY <1>1, VerifyAssumption DEF TypeOK
  <2> QED
    BY <2>1, <2>2
<1>5. c \notin UnknownCritical
  BY <1>1, <1>2 DEF PathHolds
<1>6. depth # 0 => ~NotCa(c)
  <2> SUFFICES ASSUME depth # 0
               PROVE  ~NotCa(c)
    OBVIOUS
  <2>1. depth \in 1 .. Len(chain) - 1
    BY <1>1
  <2>2. c \in IsCa /\ depth - 1 =< PathLen[c]
    BY <1>2, <2>1 DEF PathHolds
  <2>3. PathLen[c] \in Nat
    BY <1>1, VerifyAssumption
  <2> QED
    BY <1>1, <2>2, <2>3 DEF NotCa
<1>7. ~NeedsTrust(c) /\ ~SignatureInvalid(c)
  <2>1. CASE IsLast
    <3>1. c = chain[Len(chain)] /\ Issuer[c] = Subject[anchor] /\ Signer[c] = Key[anchor]
      BY <1>3, <2>1 DEF IsLast
    <3>2. OneOrigin({c, anchor})
      BY <1>1, <1>3 DEF OneOrigin
    <3>3. /\ anchor \in Certs
          /\ subject[anchor].hash # NoHash
          /\ certs[IssuerKey(c)].kind # "absent"
          /\ \E i \in DOMAIN certs[IssuerKey(c)].list : certs[IssuerKey(c)].list[i] = anchor
      BY <1>1, <3>1, <3>2, AnchorIsLookedUp
    <3>4. ~IssuerUnknown(c)
      BY <3>3 DEF IssuerUnknown
    <3>5. ~NeedsTrust(c) /\ ~NoParent(c) /\ Parents(c) = certs[IssuerKey(c)].list
      BY <2>1, <3>4 DEF NeedsTrust, NoParent, SelfSigned, Parents
    <3>6. Verifies(anchor, c)
      BY <1>1, <2>1, <3>1, <3>2, <3>3, NamesIssuedBy DEF Verifies
    <3>7. Verifying(c) # {}
      BY <3>3, <3>5, <3>6 DEF Verifying
    <3> QED
      BY <3>5, <3>7 DEF SignatureInvalid
  <2>2. CASE ~IsLast
    <3> DEFINE p == chain[depth + 2]
    <3>1. depth + 1 \in 1 .. Len(chain) - 1 /\ (depth + 1) + 1 = depth + 2
      BY <1>1, <2>2 DEF IsLast
    <3>2. /\ Issuer[c] = Subject[p] /\ Signer[c] = Key[p]
          /\ c \in Parsed \/ Plain(Issuer[c])
      BY <1>2, <3>1 DEF PathHolds, NamesHold, SignedBy
    <3>3. OneOrigin({c, p})
      BY <1>1, <1>3, <2>2 DEF OneOrigin
    <3>4. Verifies(p, c)
      BY <1>1, <2>2, <3>2, <3>3, NamesIssuedBy DEF Verifies
    <3>5. ~NeedsTrust(c) /\ ~NoParent(c) /\ Parents(c) = <<p>>
      BY <2>2 DEF NeedsTrust, NoParent, SelfSigned, IssuerUnknown, Parents
    <3>6. Verifying(c) # {}
      BY <3>4, <3>5 DEF Verifying
    <3> QED
      BY <3>5, <3>6 DEF SignatureInvalid
  <2> QED
    BY <2>1, <2>2
<1> QED
  BY <1>4, <1>5, <1>6, <1>7 DEF Outcome, IssuerInvalid, NeedsTrust

(* What is due to a chain hangs on the chain, the date and the store's     *)
(* contents only.                                                          *)
LEMMA DuePathKept ==
    ASSUME NEW path, NEW on, DuePath(path, on),
           chain' = path, date' = on, Listed' = Listed
    PROVE  DuePath(chain, date)'
<1>1. PathHolds(chain, date)'
  BY DEF DuePath, PathHolds
<1>2. NamesHold(chain)'
  BY DEF DuePath, NamesHold
<1> QED
  BY <1>1, <1>2 DEF DuePath

(* What is due to a chain stays due until its verification ends.           *)
LEMMA DueStep ==
    ASSUME VerifyInv, DueInv, [Next]_vars
    PROVE  DueInv'
<1>1. CASE \E path \in Chains, on \in CheckDates, withCallback \in BOOLEAN :
                StartVerify(path, on, withCallback)
  <2>1. PICK path \in Chains, on \in CheckDates, withCallback \in BOOLEAN :
                StartVerify(path, on, withCallback)
    BY <1>1
  <2>2. Listed' = Listed
    BY <2>1 DEF StartVerify, storeVars, Listed
  <2>3. /\ phase' = "check" /\ chain' = path /\ date' = on /\ callback' = withCallback
        /\ owed' = (~withCallback /\ DuePath(path, on))
    BY <2>1 DEF StartVerify
  <2>4. DuePath(path, on) => DuePath(chain, date)'
    BY <2>2, <2>3, DuePathKept
  <2> QED
    BY <2>3, <2>4 DEF DueInv
<1>2. CASE CheckCertificate
  <2> SUFFICES ASSUME owed'
               PROVE  /\ ~callback'
                      /\ outcome' = "accepted"
                      /\ ~IsLast' => DuePath(chain, date)'
    BY <1>2 DEF CheckCertificate, DueInv
  <2>1. /\ phase = "check" /\ outcome' = Outcome(chain[depth + 1])
        /\ UNCHANGED <<chain, depth, date, callback, owed>>
        /\ StoreAfterRound(chain[depth + 1])
    BY <1>2 DEF CheckCertificate, observed
  <2>2. ~callback /\ DuePath(chain, date)
    BY <2>1 DEF DueInv
  <2>3. Outcome(chain[depth + 1]) = "accepted"
    BY <2>1, <2>2, DueRoundAccepts DEF VerifyInv
  <2>4. ~IsLast => DuePath(chain, date)'
    <3> SUFFICES ASSUME ~IsLast
                 PROVE  DuePath(chain, date)'
      OBVIOUS
    <3>1. Listed' = Listed
      BY <2>1 DEF StoreAfterRound, storeVars, Listed
    <3> QED
      BY <2>1, <2>2, <3>1, DuePathKept
  <2> QED
    BY <2>1, <2>2, <2>3, <2>4 DEF IsLast
<1>3. CASE AnswerTrue
  <2>1. CASE IsLast
    BY <1>3, <2>1 DEF AnswerTrue, Return, DueInv
  <2>2. CASE ~IsLast
    <3>1. /\ phase = "answer" /\ phase' = "check"
          /\ UNCHANGED <<chain, date, callback, owed, certs>>
      BY <1>3, <2>2 DEF AnswerTrue, storeVars
    <3>2. owed => DuePath(chain, date) /\ ~callback
      BY <2>2, <3>1 DEF DueInv
    <3>3. Listed' = Listed
      BY <3>1 DEF Listed
    <3>4. owed => DuePath(chain, date)'
      BY <3>1, <3>2, <3>3, DuePathKept
    <3> QED
      BY <3>1, <3>2, <3>4 DEF DueInv
  <2> QED
    BY <2>1, <2>2
<1>4. CASE AnswerRefuse
  BY <1>4 DEF AnswerRefuse, Return, DueInv
<1>5. CASE UseStore
  BY <1>5 DEF UseStore, callVars, DueInv
<1>6. CASE UNCHANGED vars
  <2>1. UNCHANGED <<phase, chain, depth, date, callback, outcome, owed, certs>>
    BY <1>6 DEF vars, storeVars, callVars, observed
  <2>2. Listed' = Listed
    BY <2>1 DEF Listed
  <2>3. DuePath(chain, date) => DuePath(chain, date)'
    BY <2>1, <2>2, DuePathKept
  <2> QED
    BY <2>1, <2>3 DEF DueInv, IsLast
<1> QED
  BY <1>1, <1>2, <1>3, <1>4, <1>5, <1>6 DEF Next

(* A chain of one origin that the store vouches for when it is submitted,  *)
(* and whose inner names no store changes, is accepted, for any            *)
(* certificates and whatever earlier verifications shifted out of the      *)
(* store: the loop takes parents away only in the round that ends the walk *)
(* (certificateVerify.ts:63-103).                                          *)
THEOREM DueIsAccepted == Spec => DuePathAccepted
<1>1. Init => DueInv
  BY DEF Init, DueInv
<1>2. ASSUME VerifyInv, DueInv, [Next]_vars, phase = "answer", phase' = "idle", owed
      PROVE  verdict' = "accepted"
  <2>1. ~callback /\ outcome = "accepted"
    BY <1>2 DEF DueInv
  <2>2. AnswerTrue
    BY <1>2, <2>1 DEF Next, StartVerify, CheckCertificate, AnswerRefuse, UseStore, vars, callVars
  <2> QED
    BY <1>2, <2>2 DEF AnswerTrue, Return
<1>3. VerifyInv /\ DueInv /\ [Next]_vars =>
        [phase = "answer" /\ phase' = "idle" /\ owed => verdict' = "accepted"]_vars
  BY <1>2
<1> QED
  BY <1>1, <1>3, VerifyInvariant, DueStep, PTL DEF Spec, DuePathAccepted

=============================================================================
