------------------------ MODULE PunchCardRulesProofs ------------------------
(***************************************************************************)
(* What the promises of PunchCardRules amount to, for any cards, receipts  *)
(* and prices.  A service that implements the rules inherits these.        *)
(***************************************************************************)
EXTENDS PunchCardRules, FiniteSetTheorems, TLAPS

\* A price is a number, and the lack of an offer is not a price.
PricesAreNumbers == Prices \subseteq Int /\ NotOffered \notin Prices

\* Punching a card adds a receipt it did not have, and leaves it countable.
LEMMA EarnGrows ==
    ASSUME TypeOK, NEW c \in Cards, NEW m \in Marks, Earn(c, m), NEW d \in Cards
    PROVE  /\ earned'[d] \subseteq Marks /\ IsFiniteSet(earned'[d])
           /\ Cardinality(earned[d]) \in Nat
           /\ Cardinality(earned'[d]) \in Nat
           /\ Cardinality(earned'[d]) >= Cardinality(earned[d])
<1>1. IsFiniteSet(earned[d]) /\ earned[d] \subseteq Marks
  BY DEF TypeOK
<1>2. earned'[d] = earned[d] \/ earned'[d] = earned[d] \cup {m}
  BY DEF Earn, TypeOK
<1>3. /\ IsFiniteSet(earned[d] \cup {m})
      /\ Cardinality(earned[d] \cup {m}) = IF m \in earned[d] THEN Cardinality(earned[d])
                                           ELSE Cardinality(earned[d]) + 1
  BY <1>1, FS_AddElement
<1>4. Cardinality(earned[d]) \in Nat
  BY <1>1, FS_CardinalityType
<1>. QED
  BY <1>1, <1>2, <1>3, <1>4

LEMMA TypeNext ==
    ASSUME TypeOK, [Next]_vars
    PROVE  TypeOK'
<1>1. CASE UNCHANGED vars
  BY <1>1 DEF TypeOK, vars
<1>2. ASSUME NEW c \in Cards, NEW m \in Marks, Earn(c, m) PROVE TypeOK'
  <2>1. \A d \in Cards : earned'[d] \subseteq Marks /\ IsFiniteSet(earned'[d])
    BY <1>2, EarnGrows
  <2>. QED
    BY <1>2, <2>1 DEF TypeOK, Earn
<1>3. ASSUME NEW c \in Cards, NEW p \in Prices, Offer(c, p) PROVE TypeOK'
  BY <1>3 DEF TypeOK, Offer
<1>4. ASSUME NEW c \in Cards, Withdraw(c) PROVE TypeOK'
  BY <1>4 DEF TypeOK, Withdraw
<1>5. ASSUME NEW c \in Cards, Claim(c) PROVE TypeOK'
  <2>1. \A d \in Cards : earned'[d] = earned[d] \/ earned'[d] = {}
    BY <1>5 DEF TypeOK, Claim
  <2>2. \A d \in Cards : IsFiniteSet(earned'[d])
    BY <2>1, FS_EmptySet DEF TypeOK
  <2>. QED
    BY <1>5, <2>2 DEF TypeOK, Claim
<1>. QED
  BY <1>1, <1>2, <1>3, <1>4, <1>5 DEF Next

\* Every variable keeps its shape, and a card's punches stay countable.
THEOREM RulesTypeCorrect == Spec => []TypeOK
<1>1. Init => TypeOK
  BY FS_EmptySet DEF Init, TypeOK
<1>2. TypeOK /\ [Next]_vars => TypeOK'
  BY TypeNext
<1>. QED
  BY <1>1, <1>2, PTL DEF Spec

\* A receipt is never behind the punches of two cards, and stays spent.
THEOREM PunchesStaySpent == Spec => []PunchesAreSpent
<1>1. Init => PunchesAreSpent
  BY DEF Init, PunchesAreSpent
<1>2. TypeOK /\ PunchesAreSpent /\ [Next]_vars => PunchesAreSpent'
  <2>. SUFFICES ASSUME TypeOK, PunchesAreSpent, [Next]_vars PROVE PunchesAreSpent'
    OBVIOUS
  <2>. USE DEF TypeOK, PunchesAreSpent
  <2>1. ASSUME NEW c \in Cards, NEW m \in Marks, Earn(c, m) PROVE PunchesAreSpent'
    <3>1. \A d \in Cards : earned'[d] = IF d = c THEN earned[d] \cup {m} ELSE earned[d]
      BY <2>1 DEF Earn
    <3>2. m \notin spent /\ spent' = spent \cup {m}
      BY <2>1 DEF Earn
    <3>3. \A d \in Cards : earned'[d] \subseteq spent'
      BY <3>1, <3>2
    <3>4. ASSUME NEW d \in Cards, NEW e \in Cards, d # e
          PROVE  earned'[d] \cap earned'[e] = {}
      <4>1. /\ m \notin earned[d] /\ m \notin earned[e]
            /\ earned[d] \cap earned[e] = {}
        BY <3>2, <3>4
      <4>. QED
        BY <3>1, <3>4, <4>1
    <3>. QED
      BY <3>3, <3>4
  <2>2. ASSUME NEW c \in Cards, NEW p \in Prices, Offer(c, p) PROVE PunchesAreSpent'
    BY <2>2 DEF Offer
  <2>3. ASSUME NEW c \in Cards, Withdraw(c) PROVE PunchesAreSpent'
    BY <2>3 DEF Withdraw
  <2>4. ASSUME NEW c \in Cards, Claim(c) PROVE PunchesAreSpent'
    <3>1. \A d \in Cards : earned'[d] \subseteq earned[d]
      BY <2>4 DEF Claim
    <3>2. spent' = spent
      BY <2>4 DEF Claim
    <3>. QED
      BY <3>1, <3>2
  <2>5. CASE UNCHANGED vars
    BY <2>5 DEF vars
  <2>. QED
    BY <2>1, <2>2, <2>3, <2>4, <2>5 DEF Next
<1>. QED
  BY <1>1, <1>2, RulesTypeCorrect, PTL DEF Spec

\* An offer is covered by punches from the moment it is made until it is taken
\* or withdrawn, and every cycle that ended was claimed once.
THEOREM ClaimsArePaidFor ==
    ASSUME PricesAreNumbers
    PROVE  Spec => [](OffersAreCovered /\ CyclesAreClaims)
<1>1. Init => OffersAreCovered /\ CyclesAreClaims
  BY DEF Init, OffersAreCovered, CyclesAreClaims
<1>2. TypeOK /\ CyclesAreClaims /\ [Next]_vars => CyclesAreClaims'
  BY DEF TypeOK, CyclesAreClaims, Next, vars, Earn, Offer, Withdraw, Claim
<1>3. TypeOK /\ OffersAreCovered /\ [Next]_vars => OffersAreCovered'
  <2>. SUFFICES ASSUME TypeOK, OffersAreCovered, [Next]_vars PROVE OffersAreCovered'
    OBVIOUS
  <2>1. ASSUME NEW c \in Cards, NEW m \in Marks, Earn(c, m) PROVE OffersAreCovered'
    <3>1. ASSUME NEW d \in Cards, offer[d] # NotOffered
          PROVE  Cardinality(earned'[d]) >= offer[d]
      <4>1. offer[d] \in Int /\ Cardinality(earned[d]) >= offer[d]
        BY <3>1 DEF TypeOK, OffersAreCovered, PricesAreNumbers
      <4>2. /\ Cardinality(earned[d]) \in Nat /\ Cardinality(earned'[d]) \in Nat
            /\ Cardinality(earned'[d]) >= Cardinality(earned[d])
        BY <2>1, EarnGrows
      <4>. QED
        BY <4>1, <4>2
    <3>2. offer' = offer
      BY <2>1 DEF Earn
    <3>. QED
      BY <3>1, <3>2 DEF OffersAreCovered
  <2>2. ASSUME NEW c \in Cards, NEW p \in Prices, Offer(c, p) PROVE OffersAreCovered'
    BY <2>2 DEF Offer, TypeOK, OffersAreCovered
  <2>3. ASSUME NEW c \in Cards, Withdraw(c) PROVE OffersAreCovered'
    BY <2>3 DEF Withdraw, TypeOK, OffersAreCovered
  <2>4. ASSUME NEW c \in Cards, Claim(c) PROVE OffersAreCovered'
    BY <2>4 DEF Claim, TypeOK, OffersAreCovered
  <2>5. CASE UNCHANGED vars
    BY <2>5 DEF vars, OffersAreCovered
  <2>. QED
    BY <2>1, <2>2, <2>3, <2>4, <2>5 DEF Next
<1>. QED
  BY <1>1, <1>2, <1>3, RulesTypeCorrect, PTL DEF Spec
=============================================================================
