----------------------------- MODULE Migrations -----------------------------
(***************************************************************************)
(* The Alembic operations of src/hour_rewards/migrations.py, run by a host *)
(* in any order between the requests its service answers.                  *)
(*                                                                         *)
(* An operation is a sequence of guarded DDL statements on a database,     *)
(* which is a record: the tables there are, the optional columns each has, *)
(* the unique rules on punch_events, the punch events filed, and whether   *)
(* every statement so far went through.  A host's migration is one         *)
(* transaction, so an operation that fails leaves the database as it was.  *)
(***************************************************************************)
EXTENDS Naturals, FiniteSets, Sequences, SequencesExt

CONSTANTS Receipts, MaxRows  \* bound: punch events

ASSUME RowBound == MaxRows \in Nat

Creation == <<"reward_programs", "punch_cards", "punch_events",
              "reward_redemption_codes", "reward_redemptions">>
Base == {Creation[i] : i \in DOMAIN Creation}
Tables == Base \cup {"hedera_accounts"}

\* The tables a table's foreign keys name, among those of this package.
References(t) ==
    CASE t \in {"punch_events", "reward_redemption_codes"} -> {"punch_cards"}
      [] t = "reward_redemptions" -> {"punch_cards", "reward_redemption_codes"}
      [] OTHER -> {}

LEDGER_PROOF_COLUMNS == {"punch_events", "reward_redemptions"}
Proof == {"hedera_topic_sequence_number", "hedera_consensus_timestamp", "hedera_metadata_tx_id"}
EventsOnly(t) ==  \* mutant
    CASE t = "reward_programs" -> {"hedera_token_id", "hedera_topic_id"}
      [] t = "punch_cards" -> {"hedera_nft_serial", "hedera_nft_account_id"}
      [] t = "punch_events" -> Proof
      [] OTHER -> {}
HederaColumns(t) ==
    CASE t = "reward_programs" -> {"hedera_token_id", "hedera_topic_id"}
      [] t = "punch_cards" -> {"hedera_nft_serial", "hedera_nft_account_id"}
      [] t \in LEDGER_PROOF_COLUMNS -> Proof
      [] OTHER -> {}
ZgColumns(t) ==
    IF t = "punch_events" THEN {"zg_request_id", "zg_provider_address", "zg_tee_verified"} ELSE {}

\* The columns the models map, each named in every query of its table.
ModelColumns(t) ==
    CASE t = "reward_programs" -> {"hedera_token_id", "hedera_topic_id"}
      [] t = "punch_cards" -> {"hedera_nft_serial", "hedera_nft_account_id"}
      [] t = "punch_events" -> Proof \cup {"zg_request_id", "zg_provider_address", "zg_tee_verified"}
      [] t = "reward_redemptions" -> Proof
      [] OTHER -> {}
Columns == UNION {ModelColumns(t) : t \in Tables}
-----------------------------------------------------------------------------
(* Statements, and when the database refuses them *)

Refused(d) == [d EXCEPT !.ok = FALSE]

\* Two events that a unique rule forbids to stand together.
Clash(rule, a, b) ==
    /\ a.id # b.id /\ a.receipt = b.receipt
    /\ rule = "verified_only" => a.status = "verified" /\ b.status = "verified"
Admits(rule, rows) == \A a, b \in rows : ~Clash(rule, a, b)

CreateTable(d, t) ==
    IF t \notin d.tables /\ References(t) \subseteq d.tables THEN [d EXCEPT !.tables = @ \cup {t}] ELSE Refused(d)

DropTable(d, t) ==
    IF \E child \in d.tables : t \in References(child) THEN Refused(d)
    ELSE LET gone == [d EXCEPT !.tables = @ \ {t}, !.columns[t] = {}]
         IN IF t = "punch_events" THEN [gone EXCEPT !.unique = {}, !.rows = {}] ELSE gone

AddColumns(d, t, columns) ==
    IF t \in d.tables THEN [d EXCEPT !.columns[t] = @ \cup columns] ELSE Refused(d)

DropColumns(d, t, columns) == [d EXCEPT !.columns[t] = @ \ columns]

AddRule(d, rule) ==
    IF Admits(rule, d.rows) THEN [d EXCEPT !.unique = @ \cup {rule}] ELSE Refused(d)

DropRule(d, rule) == [d EXCEPT !.unique = @ \ {rule}]

\* Runs a statement for each of four or five tables, in their order.
Each(Statement(_, _), d, ts) ==
    LET four == Statement(Statement(Statement(Statement(d, ts[1]), ts[2]), ts[3]), ts[4])
    IN IF Len(ts) = 5 THEN Statement(four, ts[5]) ELSE four
-----------------------------------------------------------------------------
(* The operations *)

NewEvents(d) ==
    AddRule(CreateTable(d, "punch_events"), "verified_only")

Recreate(d) ==  \* mutant
    LET create(e, t) == IF t = "punch_events" THEN NewEvents(e) ELSE CreateTable(e, t)
    IN Each(create, d, Creation)
NoRule(d) ==  \* mutant
    LET create(e, t) == IF t \in e.tables THEN e ELSE CreateTable(e, t)
    IN Each(create, d, Creation)
CreateMissing(d, t) ==
    CASE t \in d.tables -> d
      [] t \notin d.tables /\ t = "punch_events" -> NewEvents(d)
      [] OTHER -> CreateTable(d, t)
Upgrade(d) == Each(CreateMissing, d, Creation)

DropPresent(d, t) == IF t \in d.tables THEN DropTable(d, t) ELSE d
ParentsFirst(d) ==  \* mutant
    Each(DropPresent, d, Creation)
Downgrade(d) == Each(DropPresent, d, Reverse(Creation))

\* A column is added to a table that lacks it, and to one that is not there too:
\* _existing_columns says of both that they have no such column.
AddMissing(d, t, columns) ==
    IF columns \subseteq d.columns[t] THEN d ELSE AddColumns(d, t, columns)

AddHedera(d, t) == AddMissing(d, t, HederaColumns(t))
UpgradeHedera(d) ==
    Each(AddHedera, IF "hedera_accounts" \in d.tables THEN d ELSE CreateTable(d, "hedera_accounts"),
         <<"reward_programs", "punch_cards", "punch_events", "reward_redemptions">>)

DropHedera(d, t) == DropColumns(d, t, HederaColumns(t))
AccountsKept(d) ==  \* mutant
    Each(DropHedera, d, <<"punch_events", "reward_redemptions", "punch_cards", "reward_programs">>)
DowngradeHedera(d) ==
    LET bare == Each(DropHedera, d, <<"punch_events", "reward_redemptions", "punch_cards", "reward_programs">>)
    IN IF "hedera_accounts" \in d.tables THEN DropTable(bare, "hedera_accounts") ELSE bare

UpgradeZg(d) == AddMissing(d, "punch_events", ZgColumns("punch_events"))
DowngradeZg(d) == DropColumns(d, "punch_events", ZgColumns("punch_events"))

BothRules(d) ==  \* mutant
    IF "punch_events" \in d.tables THEN AddRule(d, "verified_only") ELSE d
UpgradeReceiptRetry(d) ==
    IF "punch_events" \in d.tables THEN AddRule(DropRule(d, "receipt_wide"), "verified_only") ELSE d
DowngradeReceiptRetry(d) ==
    IF "punch_events" \in d.tables THEN AddRule(DropRule(d, "verified_only"), "receipt_wide") ELSE d

Operations == {"upgrade", "downgrade", "upgrade_hedera", "downgrade_hedera", "upgrade_zg",
               "downgrade_zg", "upgrade_receipt_retry", "downgrade_receipt_retry"}
Apply(operation, d) ==
    CASE operation = "upgrade" -> Upgrade(d)
      [] operation = "downgrade" -> Downgrade(d)
      [] operation = "upgrade_hedera" -> UpgradeHedera(d)
      [] operation = "downgrade_hedera" -> DowngradeHedera(d)
      [] operation = "upgrade_zg" -> UpgradeZg(d)
      [] operation = "downgrade_zg" -> DowngradeZg(d)
      [] operation = "upgrade_receipt_retry" -> UpgradeReceiptRetry(d)
      [] operation = "downgrade_receipt_retry" -> DowngradeReceiptRetry(d)
-----------------------------------------------------------------------------
(* A host's database over time *)

VARIABLES
    db,      \* the database
    applied, \* the layers the host has upgraded and not downgraded since
    last     \* what was done last, for which receipt, and what came of it

vars == <<db, applied, last>>

Layers == {"base", "hedera", "zg", "retry"}
NoColumns == [t \in Tables |-> {}]
Empty == [tables |-> {}, columns |-> NoColumns, unique |-> {}, rows |-> {}, ok |-> TRUE]

\* Three databases to start from: nothing yet; the punch cards as they were made
\* before rejected receipts could be retried; and a schema built from the models.
Init ==
    /\ last = [what |-> "none", receipt |-> {}, answer |-> "none"]
    /\ \/ db = Empty /\ applied = {}
       \/ db = [Empty EXCEPT !.tables = Base, !.unique = {"receipt_wide"}] /\ applied = {"base"}
       \/ /\ db = [Empty EXCEPT !.tables = Tables, !.unique = {"verified_only"},
                                !.columns = [t \in Tables |-> ModelColumns(t)]]
          /\ applied = Layers

\* The layers of the host's revision chain after an operation went through.
AppliedAfter(operation) ==
    CASE operation = "upgrade" ->
             IF "base" \in applied THEN applied ELSE applied \cup {"base", "retry"}
      [] operation = "downgrade" -> {}
      [] operation = "upgrade_hedera" -> applied \cup {"hedera"}
      [] operation = "downgrade_hedera" -> applied \ {"hedera"}
      [] operation = "upgrade_zg" -> applied \cup {"zg"}
      [] operation = "downgrade_zg" -> applied \ {"zg"}
      [] operation = "upgrade_receipt_retry" ->
             IF "base" \in applied THEN applied \cup {"retry"} ELSE applied
      [] operation = "downgrade_receipt_retry" -> applied \ {"retry"}

Migrate(operation) ==
    LET d == Apply(operation, db) IN
    \/ /\ d.ok
       /\ db' = d /\ applied' = AppliedAfter(operation)
       /\ last' = [what |-> operation, receipt |-> {}, answer |-> "done"]
    \/ /\ ~d.ok
       /\ last' = [what |-> operation, receipt |-> {}, answer |-> "failed"]
       /\ UNCHANGED <<db, applied>>

\* A query of a table goes through if it is there with all the columns its model
\* maps, whatever the host configured: the models name them all.
Queryable(t) == t \in db.tables /\ ModelColumns(t) \subseteq db.columns[t]

Earned(receipt) == \E e \in db.rows : e.receipt = receipt /\ e.status = "verified"

\* A submission reads program, card and events, refuses an earned receipt, and
\* takes every refusal of its insert for a duplicate.
Submit(receipt, status) ==
    LET e == [id |-> Cardinality(db.rows) + 1, receipt |-> receipt, status |-> status]
        served == \A t \in {"reward_programs", "punch_cards", "punch_events"} : Queryable(t)
        admitted == ~Earned(receipt) /\ \A rule \in db.unique : Admits(rule, db.rows \cup {e})
        Answered(answer) == last' = [what |-> "submit", receipt |-> {receipt}, answer |-> answer]
    IN /\ Cardinality(db.rows) < MaxRows
       /\ UNCHANGED applied
       /\ \/ ~served /\ Answered("error") /\ UNCHANGED db
          \/ served /\ ~admitted /\ Answered("duplicate") /\ UNCHANGED db
          \/ served /\ admitted /\ Answered("filed") /\ db' = [db EXCEPT !.rows = @ \cup {e}]

\* A redemption also reads and writes codes and redemptions, which no migration
\* here depends on.
Redeem ==
    /\ last' = [what |-> "redeem", receipt |-> {},
                answer |-> IF \A t \in Base : Queryable(t) THEN "redeemed" ELSE "error"]
    /\ UNCHANGED <<db, applied>>

Next ==
    \/ \E operation \in Operations : Migrate(operation)
    \/ \E receipt \in Receipts, status \in {"verified", "rejected"} : Submit(receipt, status)
    \/ Redeem

Spec == Init /\ [][Next]_vars
-----------------------------------------------------------------------------
(* Properties *)

\* The service answers exactly on the schemas whose three layers are applied, in
\* whatever order they came and however often they were taken down before.
RunsOnAllLayers ==
    last.what \in {"submit", "redeem"} =>
        (last.answer # "error" <=> {"base", "hedera", "zg"} \subseteq applied)

\* While there are punch events, some rule of the database decides a race of two
\* approvals of one receipt: no migration leaves it open (service.py:367).
SomeRuleDecides ==
    "punch_events" \in db.tables =>
        \A receipt \in Receipts : \E rule \in db.unique :
            Clash(rule, [id |-> 1, receipt |-> receipt, status |-> "verified"],
                        [id |-> 2, receipt |-> receipt, status |-> "verified"])

\* A receipt told to be a duplicate has earned a punch, unless the older rule is
\* still in place: then a rejected receipt is told so as well (305).
DuplicateIsTrue ==
    last.answer = "duplicate" => "retry" \notin applied \/ \A r \in last.receipt : Earned(r)

\* An operation fails only where its layer has no tables to go on, or where the
\* older rule would forbid attempts that were filed meanwhile (330).
FailureHasACause ==
    last.answer = "failed" =>
        \/ last.what \in {"upgrade_hedera", "upgrade_zg"} /\ "base" \notin applied
        \/ /\ last.what = "downgrade_receipt_retry"
           /\ \E a, b \in db.rows : a # b /\ a.receipt = b.receipt

\* Every operation is safe to repeat: what it has done, it leaves alone.
Repeatable ==
    \A operation \in Operations :
        LET d == Apply(operation, db) IN d.ok => Apply(operation, d) = d

\* A layer adopted and given up again leaves the database as it was; only the
\* accounts that taking the base down leaves behind (203) go with the ledger's.
AdoptionIsReversible ==
    \A pair \in {<<"base", "upgrade", "downgrade">>, <<"hedera", "upgrade_hedera", "downgrade_hedera">>,
                  <<"zg", "upgrade_zg", "downgrade_zg">>,
                  <<"retry", "upgrade_receipt_retry", "downgrade_receipt_retry">>} :
        LET d == Apply(pair[2], db) IN
        /\ pair[1] \notin applied /\ d.ok
        /\ pair[1] = "hedera" => "hedera_accounts" \notin db.tables
        => Apply(pair[3], d) = db

\* README.md:452 "so a host can take the punch cards without the ledger, or
\* without either": where the punch cards are, the service answers.
LayersAreOptional == last.answer = "error" => "base" \notin applied
=============================================================================
