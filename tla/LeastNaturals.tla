--------------------------- MODULE LeastNaturals ----------------------------
(***************************************************************************)
(* Induction over naturals without a theorem that takes an operator: what  *)
(* is not so for all of them is not so for a least one.                    *)
(***************************************************************************)
EXTENDS NaturalsInduction, WellFoundedInduction, TLAPS

(* Any set of naturals has a least element: what induction comes down to.  *)
LEMMA LeastNatural ==
  ASSUME NEW T, T \subseteq Nat, T # {}
  PROVE  \E m \in T : \A k \in T : m <= k
<1> DEFINE R == OpToRel(<, Nat)
<1>1. IsWellFoundedOn(R, Nat)
  BY NatLessThanWellFounded
<1> HIDE DEF R
<1>2. PICK m \in T : \A k \in T : ~ (<<k, m>> \in R)
  BY <1>1, WFMin
<1>3. \A k \in T : k < m => <<k, m>> \in R
  BY DEF R, OpToRel
<1>4. \A k \in T : ~(k < m)
  BY <1>2, <1>3, Zenon
<1>5. \A k \in T : m <= k
  BY <1>4
<1>. QED
  BY <1>5

=============================================================================
