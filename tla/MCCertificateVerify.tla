------------------------ MODULE MCCertificateVerify ------------------------
(* An instance of CertificateVerify for TLC.  Parsed are a CA, one more    *)
(* certificate of its name, with an extension that is not known, and a     *)
(* leaf.  Created are two CAs that certify each other; a store changes the *)
(* name of inter, and the other has the name and the key of the parsed CA. *)
EXTENDS CertificateVerify, TLC

CONSTANTS root, renewed, leaf, built, inter

MCCerts == {root, renewed, leaf, built, inter}

Utf8Name(value) == <<[type |-> <<"2.5.4.3">>, tag |-> "utf8", value |-> <<value>>]>>
MCUtf8 == (<<"ca">> :> <<"ca">>) @@ (<<"e acute">> :> <<"C3", "A9">>)

MCSubject == [c \in MCCerts |->
                Utf8Name(CASE c = inter -> "e acute" [] c = leaf -> "host" [] OTHER -> "ca")]
MCIssuer == [c \in MCCerts |-> Utf8Name(IF c = built THEN "e acute" ELSE "ca")]
MCParsed == {root, renewed, leaf}
MCDers == 1 .. 5
MCDer == (root :> 1) @@ (renewed :> 2) @@ (leaf :> 3) @@ (built :> 4) @@ (inter :> 5)
MCKeys == {"old", "new", "inter", "host"}
MCKey == [c \in MCCerts |->
            CASE c = renewed -> "new" [] c = inter -> "inter" [] c = leaf -> "host" [] OTHER -> "old"]
MCSigner == [c \in MCCerts |->
            CASE c = renewed -> "new" [] c = built -> "inter" [] OTHER -> "old"]
MCNotBefore == [c \in MCCerts |-> IF c = built THEN 4 ELSE 1]
MCNotAfter == [c \in MCCerts |-> IF c = leaf THEN 2 ELSE 4]
MCUnknownCritical == {renewed}
MCIsCa == MCCerts \ {leaf}
MCPathLen == [c \in MCCerts |-> IF c = inter THEN 0 ELSE 3]
MCChains == {<<renewed>>, <<leaf>>, <<leaf, root>>, <<inter, root>>,
             <<built, inter>>, <<inter, built>>, <<inter, built, inter>>}
MCCheckDates == {NoDate, 3}
=============================================================================
