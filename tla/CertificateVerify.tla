------------------------- MODULE CertificateVerify -------------------------
(***************************************************************************)
(* pki.verifyCertificateChain over a CA store that lives on between        *)
(* verifications.                                                          *)
(*                                                                         *)
(* The call walks the chain from the leaf up.  Each round checks one       *)
(* certificate and hands the outcome to options.verify, the application's  *)
(* callback, whose answer decides whether the walk goes on.  The round is  *)
(* one step here, CheckCertificate, and the answer another, Answer: with a *)
(* callback, application code runs in between and may call the store.      *)
(*                                                                         *)
(* The parents a round tries are taken off the front of a list with        *)
(* shift().  When the store holds an array for the issuer's name, that     *)
(* list is the store's own array, so a verification takes certificates     *)
(* out of the store it was asked to trust.                                 *)
(***************************************************************************)
EXTENDS CaStore, FiniteSets

CONSTANTS
    Keys,           \* public keys
    Key,            \* Key[c]: the public key in certificate c
    Signer,         \* Signer[c]: the key c is signed with
    NotBefore,      \* NotBefore[c], NotAfter[c]: the validity of c
    NotAfter,
    UnknownCritical,\* certificates with a critical extension that is not known
    IsCa,           \* certificates with basicConstraints.cA and keyUsage.keyCertSign
    PathLen,        \* PathLen[c]: pathLenConstraint, Unlimited when c has none
    Unlimited,      \* no certificate of the instance is that deep
    Chains,         \* the chains the application asks about
    CheckDates,     \* the dates it asks for
    NoDate          \* validityCheckDate: null

ASSUME VerifyAssumption ==
    /\ Key \in [Certs -> Keys]
    /\ Signer \in [Certs -> Keys]
    /\ NotBefore \in [Certs -> Nat]
    /\ NotAfter \in [Certs -> Nat]
    /\ UnknownCritical \subseteq Certs
    /\ IsCa \subseteq Certs
    /\ Unlimited \in Nat
    /\ PathLen \in [Certs -> 0 .. Unlimited]
    /\ Chains \subseteq Seq(Certs) \ {<<>>}
    /\ \A chain \in Chains : Len(chain) =< Unlimited
    /\ CheckDates \subseteq Nat \cup {NoDate}
    /\ NoDate \notin Nat

Errors == {"certificate_expired", "bad_certificate", "unknown_ca",
           "unsupported_certificate", "application"}
Verdicts == {"accepted"} \cup Errors

VARIABLES
    phase,      \* "idle", "check" before a round, "answer" after it
    chain,      \* the chain under verification (the code's certs)
    depth,      \* the rounds done; chain[depth + 1] is the next certificate
    date,       \* validityCheckDate
    callback,   \* whether options.verify was given
    outcome,    \* the outcome of the round, "accepted" for the code's true
    verdict     \* what the last verification returned or threw

(* Observations, read by the properties and by no action.                  *)
VARIABLES
    known,      \* certificates the store held at some time in this verification
    overridden, \* whether the callback accepted a round that had failed
    owed        \* whether the chain was due to be accepted when it was submitted

callVars == <<phase, chain, depth, date, callback, outcome, verdict>>
observed == <<known, overridden, owed>>
vars == <<storeVars, callVars, observed>>

-----------------------------------------------------------------------------
(* One round: the certificate c = chain[depth + 1]                         *)

IsLast == depth + 1 = Len(chain)

Expired(c) ==
    date # NoDate /\ (date < NotBefore[c] \/ date > NotAfter[c])

(* c.issuer once the round has asked the store for it, which it does only  *)
(* when the chain has no next certificate.                                 *)
AskedIssuer(c) == IF IsLast THEN Ensured(issuer[c]) ELSE issuer[c]

(* cert.isIssuer(parent), asked by parent.verify and again at the end.     *)
IssuedBy(c, parent) == SameName(AskedIssuer(c), subject[parent])

(* The store has no entry for the issuer.  An empty array is an entry.     *)
IssuerUnknown(c) == IsLast /\ certs[IssuerKey(c)].kind = "absent"

SelfSigned(c) == IssuerUnknown(c) /\ IssuedBy(c, c)
NoParent(c) == IssuerUnknown(c) /\ ~IssuedBy(c, c)

Parents(c) ==
    IF ~IsLast THEN <<chain[depth + 2]>>
    ELSE IF SelfSigned(c) THEN <<c>>
    ELSE certs[IssuerKey(c)].list

(* parent.verify(c): true, or an exception the loop swallows.              *)
Verifies(parent, c) == IssuedBy(c, parent) /\ Key[parent] = Signer[c]

(* Mutant of Verifying: only the first parent is tried.                     *)
VerifyingFirst(c) ==
    {k \in DOMAIN Parents(c) : k = 1 /\ Verifies(Parents(c)[k], c)}

Verifying(c) == {k \in DOMAIN Parents(c) : Verifies(Parents(c)[k], c)}

SignatureInvalid(c) == ~NoParent(c) /\ Verifying(c) = {}

(* How many parents the loop shifts off its list.                          *)
Shifted(c) ==
    IF Verifying(c) = {} THEN Len(Parents(c))
    ELSE CHOOSE k \in Verifying(c) : \A j \in Verifying(c) : k =< j

(* Mutants: a self-signed certificate vouches for itself, and the path      *)
(* length is counted one too short.                                        *)
NeedsTrustIfOrphan(c) == NoParent(c)
NotCaShort(c) == c \notin IsCa \/ depth - 2 > PathLen[c]

(* Nobody but the store can vouch for c.                                   *)
NeedsTrust(c) == NoParent(c) \/ SelfSigned(c)

NotCa(c) == c \notin IsCa \/ depth - 1 > PathLen[c]

(* The issuer check that follows the trust check repeats the one of        *)
(* verify, when the trust check may have changed the subject.              *)
IssuerInvalid(c) == SelfSigned(c) /\ ~SameName(AskedIssuer(c), Ensured(subject[c]))

(* The first check that fails.                                             *)
Outcome(c) ==
    IF Expired(c) THEN "certificate_expired"
    ELSE IF SignatureInvalid(c) THEN "bad_certificate"
    ELSE IF NeedsTrust(c) /\ ~Has(c) THEN "unknown_ca"
    ELSE IF IssuerInvalid(c) THEN "bad_certificate"
    ELSE IF c \in UnknownCritical THEN "unsupported_certificate"
    ELSE IF (depth # 0 \/ NeedsTrust(c)) /\ NotCa(c) THEN "bad_certificate"
    ELSE "accepted"

(* Mutant of StoreAfterRound: a bare certificate is shifted away too.       *)
StoreShiftsSingle(c) ==
    IF Expired(c)
    THEN UNCHANGED storeVars
    ELSE /\ issuer' = [issuer EXCEPT ![c] = AskedIssuer(c)]
         /\ certs' = IF IsLast /\ certs[IssuerKey(c)].kind # "absent"
                     THEN [certs EXCEPT ![IssuerKey(c)] =
                              [kind |-> "array",
                               list |-> SubSeq(@.list, Shifted(c) + 1, Len(@.list))]]
                     ELSE certs
         /\ UNCHANGED subject

(* The lookups of the round fill in hashes, rewriting the names, and its   *)
(* loop shifts the array the store returned.                               *)
StoreAfterRound(c) ==
    IF Expired(c)
    THEN UNCHANGED storeVars
    ELSE /\ issuer' = [issuer EXCEPT ![c] = AskedIssuer(c)]
         /\ subject' = IF NeedsTrust(c) /\ ~SignatureInvalid(c)
                       THEN [subject EXCEPT ![c] = Ensured(@)]
                       ELSE subject
         /\ certs' = IF IsLast /\ certs[IssuerKey(c)].kind = "array"
                     THEN [certs EXCEPT ![IssuerKey(c)] =
                              [kind |-> "array",
                               list |-> SubSeq(@.list, Shifted(c) + 1, Len(@.list))]]
                     ELSE certs

-----------------------------------------------------------------------------
(* The call                                                                *)

Init ==
    /\ InitStore
    /\ phase = "idle"
    /\ chain = <<>>
    /\ depth = 0
    /\ date = NoDate
    /\ callback = FALSE
    /\ outcome = "accepted"
    /\ verdict = "none"
    /\ known = {}
    /\ overridden = FALSE
    /\ owed = FALSE

(* The attributes that a name of c may have, and whether the issuer name   *)
(* of c and the subject name of parent are alike as far as isIssuer tells: *)
(* the same if both are parsed, and otherwise the same types and values,   *)
(* run together, before or after a store has read them.                    *)
Forms(c, name) == IF c \in Parsed THEN {name} ELSE {name, Encoded(name)}

Alike(c, parent) ==
    IF {c, parent} \subseteq Parsed
    THEN Issuer[c] = Subject[parent]
    ELSE \E of \in Forms(c, Issuer[c]), by \in Forms(parent, Subject[parent]) :
            Message(of) = Message(by)

SignedBy(c, anchor) == Alike(c, anchor) /\ Signer[c] = Key[anchor]

(* The links of a path, as certificates and not as the code walks them.    *)
PathHolds(path, on) ==
    /\ \A i \in DOMAIN path :
        /\ path[i] \notin UnknownCritical
        /\ on # NoDate => NotBefore[path[i]] =< on /\ on =< NotAfter[path[i]]
    /\ \A i \in 1 .. Len(path) - 1 :
        /\ SignedBy(path[i], path[i + 1])
        /\ path[i + 1] \in IsCa
        /\ i - 1 =< PathLen[path[i + 1]]

(* Every certificate of a path names the next one as its issuer, and no    *)
(* store can change the name in one of the two objects and not yet in the  *)
(* other.                                                                  *)
NamesHold(path) ==
    \A i \in 1 .. Len(path) - 1 :
        /\ Issuer[path[i]] = Subject[path[i + 1]]
        /\ path[i] \in Parsed \/ Plain(Issuer[path[i]])

(* A path the store vouches for, all of whose objects have one origin.     *)
DuePath(path, on) ==
    /\ PathHolds(path, on)
    /\ NamesHold(path)
    /\ \E anchor \in Listed :
        /\ Issuer[path[Len(path)]] = Subject[anchor]
        /\ Signer[path[Len(path)]] = Key[anchor]
        /\ OneOrigin({path[i] : i \in DOMAIN path} \cup {anchor})

StartVerify(path, on, withCallback) ==
    /\ phase = "idle"
    /\ phase' = "check"
    /\ chain' = path
    /\ depth' = 0
    /\ date' = on
    /\ callback' = withCallback
    /\ verdict' = "none"
    /\ known' = Listed
    /\ overridden' = FALSE
    /\ owed' = (~withCallback /\ DuePath(path, on))
    /\ UNCHANGED <<storeVars, outcome>>

CheckCertificate ==
    /\ phase = "check"
    /\ phase' = "answer"
    /\ outcome' = Outcome(chain[depth + 1])
    /\ StoreAfterRound(chain[depth + 1])
    /\ UNCHANGED <<chain, depth, date, callback, verdict, observed>>

(* The call is over, and its local variables with it.                      *)
Return(result) ==
    /\ verdict' = result
    /\ phase' = "idle"
    /\ chain' = <<>>
    /\ depth' = 0
    /\ date' = NoDate
    /\ callback' = FALSE
    /\ outcome' = "accepted"
    /\ known' = {}
    /\ overridden' = FALSE
    /\ owed' = FALSE

(* Mutant: the chain is not shortened. *)
AnswerTrueStays ==
    /\ phase = "answer"
    /\ callback \/ outcome = "accepted"
    /\ IF IsLast
       THEN Return("accepted")
       ELSE /\ phase' = "check"
            /\ outcome' = "accepted"
            /\ UNCHANGED <<chain, depth, date, callback, verdict, observed>>
    /\ UNCHANGED storeVars

(* options.verify returns true, or there is no callback and nothing failed.*)
AnswerTrue ==
    /\ phase = "answer"
    /\ callback \/ outcome = "accepted"
    /\ IF IsLast
       THEN Return("accepted")
       ELSE /\ phase' = "check"
            /\ depth' = depth + 1
            /\ overridden' = (overridden \/ outcome # "accepted")
            /\ outcome' = "accepted"
            /\ UNCHANGED <<chain, date, callback, verdict, known, owed>>
    /\ UNCHANGED storeVars

(* Any other answer ends the call with an exception, whose error the       *)
(* callback may choose.                                                    *)
AnswerRefuse ==
    /\ phase = "answer"
    /\ callback \/ outcome # "accepted"
    /\ \/ Return(IF outcome = "accepted" THEN "bad_certificate" ELSE outcome)
       \/ callback /\ Return("application")
    /\ UNCHANGED storeVars

(* The application uses the store, between calls or from its callback.     *)
UseStore ==
    /\ phase = "idle" \/ (phase = "answer" /\ callback)
    /\ StoreNext
    /\ known' = IF phase = "idle" THEN known ELSE known \cup Listed'
    /\ UNCHANGED <<callVars, overridden, owed>>

Next ==
    \/ \E path \in Chains, on \in CheckDates, withCallback \in BOOLEAN :
            StartVerify(path, on, withCallback)
    \/ CheckCertificate
    \/ AnswerTrue
    \/ AnswerRefuse
    \/ UseStore

(* The call is synchronous: once started it runs, and its callback returns.*)
Fairness == WF_vars(CheckCertificate) /\ WF_vars(AnswerTrue \/ AnswerRefuse)

Spec == Init /\ [][Next]_vars /\ Fairness

-----------------------------------------------------------------------------
(* Properties                                                              *)

TypeOK ==
    /\ StoreTypeOK
    /\ phase \in {"idle", "check", "answer"}
    /\ chain \in Chains \cup {<<>>}
    /\ depth \in Nat
    /\ phase # "idle" => depth < Len(chain)
    /\ date \in CheckDates \cup {NoDate}
    /\ callback \in BOOLEAN
    /\ outcome \in Verdicts
    /\ verdict \in Verdicts \cup {"none"}
    /\ known \subseteq Certs
    /\ overridden \in BOOLEAN
    /\ owed \in BOOLEAN

(* The step that accepts a chain none of whose failures was overridden.    *)
AcceptsByItself ==
    /\ phase = "answer" /\ phase' = "idle" /\ verdict' = "accepted"
    /\ ~overridden /\ outcome = "accepted"

(* verifyCertificateChain never accepts by itself a chain that is not one: *)
(* unless the callback overrode a failure, every certificate of it is      *)
(* valid on the date, signed by the next one, which is a CA that deep and  *)
(* has its issuer's name.                                                  *)
AcceptedPathHolds == [][AcceptsByItself => PathHolds(chain, date)]_vars

(* Nor one the store never vouched for: the last certificate was signed by *)
(* a certificate the store held during the call, or was itself in it and   *)
(* is a CA.                                                                *)
AcceptedIsAnchored ==
    [][AcceptsByItself =>
        LET end == chain[Len(chain)]
        IN  \E anchor \in known :
                \/ SignedBy(end, anchor)
                \/ Der[anchor] = Der[end] /\ end \in IsCa]_vars

(* A chain the store vouches for when it is submitted is accepted, when no *)
(* callback interferes, all the objects have one origin and the names      *)
(* inside it are not ones that a store changes, whatever verifications and *)
(* store calls came before.                                                *)
DuePathAccepted ==
    [][phase = "answer" /\ phase' = "idle" /\ owed => verdict' = "accepted"]_vars

(* A verification takes certificates out of arrays only: the store keeps   *)
(* its only certificate of a name, because the loop shifts a list of its   *)
(* own then.                                                               *)
OnlyCertificateSurvives ==
    [][\A h \in Hashes :
        phase = "check" /\ certs[h].kind = "single" => certs'[h] = certs[h]]_vars

(* Every call of verifyCertificateChain returns or throws.                 *)
VerificationEnds == phase # "idle" ~> phase = "idle"
=============================================================================
