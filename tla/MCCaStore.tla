----------------------------- MODULE MCCaStore -----------------------------
(* Two instances of CaStore for TLC.                                       *)
(*   In the first the names are of letters that UTF-8 leaves alone.  Four  *)
(* objects share a subject name: one certificate parsed twice, a second    *)
(* certificate of the name, and one that was created by the program.  The  *)
(* created one was also parsed back, and two leaves, one of each origin,   *)
(* name it as their issuer.                                                *)
(*   In the second a created CA, wide, has a name with a letter that UTF-8 *)
(* writes in two octets, and cross, created too, is a certificate that     *)
(* wide issued to the CA of the first instance; both were also parsed back.*)
(* The name of another created CA, twin, is hashed as that of cross, for   *)
(* the end of its type is the beginning of the other's value.              *)
EXTENDS CaStore, TLC

CONSTANTS
    ca, caAgain, caRenewed, caBuilt, caBuiltRead, leaf, leafBuilt,
    wide, wideRead, cross, crossRead, twin

PlainCerts == {ca, caAgain, caRenewed, caBuilt, caBuiltRead, leaf, leafBuilt}
WideCerts == {ca, caAgain, caRenewed, cross, crossRead, wide, wideRead, twin}

(* Characters; the types are 2.5.4.3, a common name, and 2.5.4.31.         *)
Named(type, tag, value) == <<[type |-> type, tag |-> tag, value |-> value]>>
CommonName == <<"2.5.4.3">>
Member == <<"2.5.4.3", "1">>

CaName == Named(CommonName, "printable", <<"1", "ca">>)
TwinName == Named(Member, "utf8", <<"ca">>)
HostName == Named(CommonName, "printable", <<"host">>)
WideName == Named(CommonName, "utf8", <<"e acute">>)
WideOctets == Named(CommonName, "utf8", <<"C3", "A9">>)

MCUtf8 == (<<"e acute">> :> <<"C3", "A9">>) @@ (<<"ca">> :> <<"ca">>)

MCSubject == [c \in Certs |->
                CASE c \in {leaf, leafBuilt} -> HostName
                  [] c = wide -> WideName
                  [] c = wideRead -> WideOctets
                  [] c = twin -> TwinName
                  [] OTHER -> CaName]
MCIssuer == [c \in Certs |->
                CASE c \in {wide, cross} -> WideName
                  [] c \in {wideRead, crossRead} -> WideOctets
                  [] c = twin -> TwinName
                  [] OTHER -> CaName]
MCParsed == Certs \cap {ca, caAgain, caRenewed, caBuiltRead, leaf, wideRead, crossRead}
MCDers == 1 .. 8
MCDer == [c \in Certs |->
            CASE c \in {ca, caAgain} -> 1
              [] c = caRenewed -> 2
              [] c \in {caBuilt, caBuiltRead} -> 3
              [] c = leaf -> 4
              [] c = leafBuilt -> 5
              [] c \in {wide, wideRead} -> 6
              [] c \in {cross, crossRead} -> 7
              [] c = twin -> 8]
=============================================================================
