--------------------------- MODULE PunchCardRules ---------------------------
(***************************************************************************)
(* What the rewards package promises of a punch card, with no database, no *)
(* requests and no clock: a receipt earns one punch, a reward is offered   *)
(* only against punches earned, and claiming it closes the cycle that paid *)
(* for it.  RewardService is shown to implement this module.               *)
(*                                                                         *)
(* The promises are the ones src/README.md (lines 67-75) and the table     *)
(* docstrings in src/hour_rewards/models make.                             *)
(***************************************************************************)
EXTENDS Integers, FiniteSets

CONSTANTS
    Cards,      \* one per user and venue
    Marks,      \* what makes a receipt the same receipt: its dedupe hash
    Prices,     \* how many punches a reward may be made to cost
    NotOffered  \* no reward is on offer for the card

VARIABLES
    cycle,      \* the cycle a card is on, from 1
    earned,     \* the receipts that punched the card in that cycle
    offer,      \* the price at which its reward is offered, or NotOffered
    claims,     \* how many rewards the card has been given
    spent       \* the receipts that have earned a punch, ever

vars == <<cycle, earned, offer, claims, spent>>

Init ==
    /\ cycle = [c \in Cards |-> 1]
    /\ earned = [c \in Cards |-> {}]
    /\ offer = [c \in Cards |-> NotOffered]
    /\ claims = [c \in Cards |-> 0]
    /\ spent = {}

\* A receipt nobody has used yet punches a card.
Earn(c, m) ==
    /\ m \notin spent
    /\ spent' = spent \cup {m}
    /\ earned' = [earned EXCEPT ![c] = @ \cup {m}]
    /\ UNCHANGED <<cycle, offer, claims>>

\* A card with enough punches is offered its reward.
Offer(c, p) ==
    /\ offer[c] = NotOffered
    /\ Cardinality(earned[c]) >= p
    /\ offer' = [offer EXCEPT ![c] = p]
    /\ UNCHANGED <<cycle, earned, claims, spent>>

\* An offer runs out, or is replaced, without being taken.
Withdraw(c) ==
    /\ offer[c] # NotOffered
    /\ offer' = [offer EXCEPT ![c] = NotOffered]
    /\ UNCHANGED <<cycle, earned, claims, spent>>

\* The reward on offer is given, and the punches that paid for it are used up.
Claim(c) ==
    /\ offer[c] # NotOffered
    /\ claims' = [claims EXCEPT ![c] = @ + 1]
    /\ cycle' = [cycle EXCEPT ![c] = @ + 1]
    /\ earned' = [earned EXCEPT ![c] = {}]
    /\ offer' = [offer EXCEPT ![c] = NotOffered]
    /\ UNCHANGED spent

Next ==
    \E c \in Cards :
        \/ \E m \in Marks : Earn(c, m)
        \/ \E p \in Prices : Offer(c, p)
        \/ Withdraw(c)
        \/ Claim(c)

Spec == Init /\ [][Next]_vars

-----------------------------------------------------------------------------
(* What follows from the rules alone *)

\* The shapes of the variables, and that a set of punches can be counted.
TypeOK ==
    /\ cycle \in [Cards -> Nat]
    /\ earned \in [Cards -> SUBSET Marks]
    /\ offer \in [Cards -> Prices \cup {NotOffered}]
    /\ claims \in [Cards -> Nat]
    /\ spent \subseteq Marks
    /\ \A c \in Cards : IsFiniteSet(earned[c])

\* A receipt is behind one card's punches at a time, and none of them is free
\* to be used again (the verified-receipt index).
PunchesAreSpent ==
    /\ \A c \in Cards : earned[c] \subseteq spent
    /\ \A c, d \in Cards : c # d => earned[c] \cap earned[d] = {}

\* Every standing offer is covered by the punches of its card's cycle, so the
\* claim that takes it is paid for (the threshold check before a code is minted).
OffersAreCovered ==
    \A c \in Cards : offer[c] # NotOffered => Cardinality(earned[c]) >= offer[c]

\* A cycle ends with exactly one claim.
CyclesAreClaims == \A c \in Cards : cycle[c] = claims[c] + 1
=============================================================================
