---------------------------- MODULE TrustStore ----------------------------
(***************************************************************************)
(* What a CA store promises its user: it is a set.  Adding puts one entry  *)
(* in and disturbs no other, removing takes one out and disturbs no other, *)
(* and nothing else changes it.  An entry is a certificate's encoding      *)
(* together with the key it is filed under.                                *)
(***************************************************************************)
CONSTANT Entries

VARIABLE members

Init == members = {}

Add(e) == members' = members \cup {e}

Remove(e) == members' = members \ {e}

Next == \E e \in Entries : Add(e) \/ Remove(e)

Spec == Init /\ [][Next]_members
=============================================================================
