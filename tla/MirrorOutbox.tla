---------------------------- MODULE MirrorOutbox ----------------------------
(***************************************************************************)
(* What the Hedera mirror promises of the rows it publishes, with no       *)
(* network, sessions or crashes (the docstring of hedera/ledger.py): a row *)
(* is filed, then sent to its venue's topic, possibly more than once, and  *)
(* only then marked as published; no mark is ever taken back.              *)
(***************************************************************************)
EXTENDS Integers

VARIABLES
    filed,      \* how many rows the service has committed
    sent,       \* the rows a message names
    settled     \* the rows with a sequence number

vars == <<filed, sent, settled>>

\* Rows may be older than the mirror.
Init == filed \in Nat /\ sent = {} /\ settled = {}

File == filed' = filed + 1 /\ UNCHANGED <<sent, settled>>
Send == \E i \in 1..filed : sent' = sent \cup {i} /\ UNCHANGED <<filed, settled>>
Settle == \E i \in sent : settled' = settled \cup {i} /\ UNCHANGED <<filed, sent>>

Next == File \/ Send \/ Settle
Spec == Init /\ [][Next]_vars
=============================================================================
